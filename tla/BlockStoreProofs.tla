-------------------------- MODULE BlockStoreProofs --------------------------
(***************************************************************************)
(* StoreInv holds in every state of the block store, whatever the operator *)
(* types and however the threads interleave; with it the types, the        *)
(* separation of the two copies of a block, and the ownership of the       *)
(* counter of sent blocks.  SpaceInv holds under Discipline; with it the   *)
(* bitmaps, the counters of free blocks and the copies agree.  There is    *)
(* one lemma per action.                                                   *)
(***************************************************************************)
EXTENDS BlockStoreInv, FoldProofs

\* A holder, an index and a copy number make a slot.
LEMMA SlotFacts ==
  ASSUME NEW h \in Holder, NEW i \in Index, NEW c \in {0, 1}
  PROVE  <<h, i, c>> \in Slot
  BY DEF Slot

\* A slot is made of its parts, and Copy reads it.
LEMMA SlotParts ==
  ASSUME NEW s \in Slot
  PROVE  /\ s = <<s[1], s[2], s[3]>>
         /\ s[1] \in Holder /\ s[2] \in Index /\ s[3] \in {0, 1}
         /\ Copy(s[1], s[2], s[3]) = copies[s]
  BY DEF Slot, Copy

\* A location is not NoLoc, and Loc builds one from its parts.
LEMMA LocFacts ==
  /\ NoLoc \notin Location
  /\ \A l \in Location : l.node \in Node /\ l.node # NoNode /\ l.blockno \in Int
  /\ NoLoc.node = NoNode
  /\ \A n \in Node, b \in Int :
       Loc(n, b) \in Location /\ Loc(n, b).node = n /\ Loc(n, b).blockno = b
  BY StoreAssumption DEF NoLoc, Location, Loc

\* The range of the remainder, for Current.
LEMMA ModRange ==
  ASSUME NEW a \in Nat, NEW b \in Nat \ {0}
  PROVE  a % b \in 0 .. b - 1
  OBVIOUS

\* add_blocks_from_file works on a block of the file (filetable.c).
LEMMA CurrentInIndex ==
  ASSUME Control, NEW t \in Thread, pc[t] \in Distributing
  PROVE  Current(t) \in Index
<1>1. next[t] \in Nat /\ source[t] \in LocalFile /\ Blocks(source[t]) > 0
  BY DEF Control
<1>2. Blocks(source[t]) = 0 \/ Blocks(source[t]) = NumBlocks[source[t].file]
  BY DEF Blocks
<1>3. source[t].file \in File
  BY <1>1 DEF LocalFile
<1>4. NumBlocks[source[t].file] \in 0 .. MaxBlocks /\ MaxBlocks \in Nat
  BY <1>3, StoreAssumption
<1>5. Blocks(source[t]) \in Nat \ {0} /\ Blocks(source[t]) <= MaxBlocks
  BY <1>1, <1>2, <1>4
<1>6. next[t] % Blocks(source[t]) \in 0 .. Blocks(source[t]) - 1
  BY <1>1, <1>5, ModRange
<1>. QED BY <1>4, <1>5, <1>6 DEF Current, Index

\* A copy is a location or NoLoc.
LEMMA CopyType ==
  ASSUME StoreTypeOK, NEW h \in Holder, NEW i \in Index, NEW c \in {0, 1}
  PROVE  Copy(h, i, c) \in Location \cup {NoLoc}
  BY SlotFacts DEF StoreTypeOK, Copy

\* What assigning one copy does to all of them.
LEMMA SetCopy ==
  ASSUME StoreTypeOK, NEW h, NEW i, NEW c, NEW l,
         copies' = [copies EXCEPT ![<<h, i, c>>] = l]
  PROVE  \A h2 \in Holder, i2 \in Index, c2 \in {0, 1} :
           Copy(h2, i2, c2)' = IF h2 = h /\ i2 = i /\ c2 = c THEN l ELSE Copy(h2, i2, c2)
  BY SlotFacts DEF Copy, StoreTypeOK

\* Mark keeps the types of the bitmaps and the counters (nodelist.c).
LEMMA MarkTypes ==
  ASSUME StoreTypeOK, NEW l \in Location, Mark(l)
  PROVE  bitmap' \in [Node -> SUBSET Int] /\ free' \in [Node -> Int]
  BY LocFacts DEF StoreTypeOK, Mark

\* Unmark keeps the types of the bitmaps and the counters (nodelist.c).
LEMMA UnmarkTypes ==
  ASSUME StoreTypeOK, NEW l \in Location, Unmark(l)
  PROVE  bitmap' \in [Node -> SUBSET Int] /\ free' \in [Node -> Int]
  BY LocFacts DEF StoreTypeOK, Unmark

\* Assigning a copy keeps the type of the copies.
LEMMA SetCopyType ==
  ASSUME StoreTypeOK, NEW s, NEW l \in Location \cup {NoLoc},
         copies' = [copies EXCEPT ![s] = l]
  PROVE  copies' \in [Slot -> Location \cup {NoLoc}]
  BY DEF StoreTypeOK

\* bitmap_firstzero returns an integer (bitmap.c).
LEMMA BitInt == ASSUME NEW n \in Node PROVE Bit(n) \subseteq Int
  BY StoreAssumption DEF Bit

\* Steps that leave the table and the copies alone: no thread with copies
\* leaves add_blocks_from_file, and none is given a new target.
LEMMA CopiesFrame ==
  ASSUME StoreInv, UNCHANGED <<table, copies>>,
         \A t \in Thread : pc[t] \in Distributing => pc'[t] \in Distributing,
         \A t \in Thread : pc'[t] = "alloc" =>
           /\ pc[t] = "alloc" /\ target'[t] = target[t]
           /\ next'[t] = next[t] /\ source'[t] = source[t]
  PROVE  Drafts' /\ Absent' /\ Targeted' /\ Apart'
<1>1. Drafts'
  BY DEF StoreInv, Drafts, Copy
<1>2. Absent' /\ Apart'
  BY DEF StoreInv, Absent, Apart, Copy
<1>3. Targeted'
  BY DEF StoreInv, Targeted, Current, Copy
<1>. QED BY <1>1, <1>2, <1>3

\* Steps that leave the console's rm, rm -b or cpblock as it was.
LEMMA ConsoleFrame ==
  ASSUME StoreInv, UNCHANGED <<table, copies, doomed, cp>>,
         \/ pc'[Console] = pc[Console] /\ path'[Console] = path[Console]
         \/ pc'[Console] \notin Copying \cup {"rm", "rmb"} /\ pc[Console] \notin {"rm", "rmb"}
  PROVE  Dooming' /\ CpReady'
  BY DEF StoreInv, Dooming, CpReady, Copy, Copying

\* Steps of the handlers, the DataNodes and the network.
LEMMA NetworkFrame ==
  ASSUME StoreInv, UNCHANGED <<nodeVars, tableVars, cpmut, waiter, pc, path, target,
                               next, source, local, doomed, cp>>,
         handler' \in [Node -> BOOLEAN], up' \in [Node -> BOOLEAN]
  PROVE  StoreInv'
<1>1. StoreTypeOK' /\ waiter' \in Thread \cup {Nobody}
  BY DEF StoreInv, StoreTypeOK, nodeVars, tableVars
<1>2. Control' /\ Locked'
  BY DEF StoreInv, Control, Locked
<1>3. Drafts' /\ Absent' /\ Targeted' /\ Apart'
  BY CopiesFrame DEF tableVars
<1>4. Dooming' /\ CpReady'
  BY ConsoleFrame DEF tableVars
<1>. QED BY <1>1, <1>2, <1>3, <1>4 DEF StoreInv

\* A ping keeps the type of the handlers.
LEMMA PingTypes ==
  ASSUME StoreTypeOK, NEW S, Ping(S)
  PROVE  handler' \in [Node -> BOOLEAN]
  BY DEF StoreTypeOK, Ping

\* Steps after which every thread about to allocate had chosen its target
\* before, and has the t_yfile it had.
LEMMA TargetedFrame ==
  ASSUME StoreInv,
         \A t \in Thread : pc'[t] = "alloc" =>
           /\ pc[t] = "alloc" /\ target'[t] = target[t]
           /\ next'[t] = next[t] /\ source'[t] = source[t]
           /\ \A i \in Index : copies'[<<t, i, 0>>] = copies[<<t, i, 0>>]
  PROVE  Targeted'
<1>. SUFFICES ASSUME NEW t \in Thread, pc'[t] = "alloc"
              PROVE  target'[t] \in Node /\ target'[t] # Copy(t, Current(t), 0)'.node
  BY DEF Targeted
<1>1. Current(t) \in Index
  BY CurrentInIndex DEF StoreInv, Distributing
<1>2. Copy(t, Current(t), 0)' = copies'[<<t, Current(t), 0>>]
  BY DEF Copy, Current
<1>3. copies'[<<t, Current(t), 0>>] = Copy(t, Current(t), 0)
  BY <1>1 DEF Copy
<1>. QED BY <1>2, <1>3 DEF StoreInv, Targeted

\* Steps that leave the t_yfiles being built alone.
LEMMA DraftsFrame ==
  ASSUME Drafts,
         \A t \in Thread : pc[t] \in Distributing => pc'[t] \in Distributing,
         \A t \in Thread, i \in Index, c \in {0, 1} :
           copies'[<<t, i, c>>] = copies[<<t, i, c>>]
  PROVE  Drafts'
  BY DEF Drafts, Copy

\* Steps that give copies to no path that stays out of the table.
LEMMA AbsentFrame ==
  ASSUME Absent,
         \A f \in File \ table', i \in Index, c \in {0, 1} :
           \/ copies'[<<f, i, c>>] = NoLoc
           \/ f \notin table /\ copies'[<<f, i, c>>] = copies[<<f, i, c>>]
  PROVE  Absent'
  BY DEF Absent, Copy
-----------------------------------------------------------------------------
(* One lemma per action.                                                   *)

\* Request keeps StoreInv.
LEMMA RequestKeeps ==
  ASSUME StoreInv, NEW t \in Storer, NEW f \in File, Request(t, f)
  PROVE  StoreInv'
<1>1. /\ t \in Thread /\ t # Console /\ pc[t] = "new"
      /\ path' = [path EXCEPT ![t] = f]
      /\ \E l \in {"done", "write"} : pc' = [pc EXCEPT ![t] = l]
      /\ UNCHANGED <<nodeVars, linkVars, dataVars, tableVars, cpmut, countVars,
                     localVars, consoleVars>>
  BY StoreAssumption DEF Request, Goto, Thread
<1>2. StoreTypeOK' /\ waiter' \in Thread \cup {Nobody}
  BY <1>1 DEF StoreInv, StoreTypeOK, nodeVars, linkVars, dataVars, tableVars,
              countVars, localVars, consoleVars
<1>3. Control'
  BY <1>1 DEF StoreInv, StoreTypeOK, Control, Storing, Distributing, localVars
<1>4. Locked'
  BY <1>1 DEF StoreInv, StoreTypeOK, Locked, Distributing, countVars
<1>5. Drafts' /\ Absent' /\ Targeted' /\ Apart'
  BY <1>1, CopiesFrame DEF StoreInv, StoreTypeOK, tableVars, localVars, Distributing
<1>6. Dooming' /\ CpReady'
  BY <1>1, ConsoleFrame DEF StoreInv, StoreTypeOK, tableVars, consoleVars
<1>. QED BY <1>2, <1>3, <1>4, <1>5, <1>6 DEF StoreInv

\* WriteLocal keeps StoreInv.
LEMMA WriteLocalKeeps ==
  ASSUME StoreInv, NEW t \in Storer, WriteLocal(t)
  PROVE  StoreInv'
<1>1. /\ t \in Thread /\ t # Console /\ pc[t] = "write"
      /\ local' = [local EXCEPT ![Base[path[t]]] = [by |-> t, file |-> path[t]]]
      /\ pc' = [pc EXCEPT ![t] = "lock"]
      /\ UNCHANGED <<nodeVars, linkVars, dataVars, tableVars, cpmut, countVars, path,
                     next, target, source, consoleVars>>
  BY StoreAssumption DEF WriteLocal, Goto, Thread
<1>2. [by |-> t, file |-> path[t]] \in LocalFile
  BY <1>1 DEF StoreInv, Control, Storing, LocalFile
<1>3. StoreTypeOK' /\ waiter' \in Thread \cup {Nobody}
  BY <1>1, <1>2 DEF StoreInv, StoreTypeOK, nodeVars, linkVars, dataVars, tableVars,
              countVars, consoleVars
<1>4. Control'
  BY <1>1 DEF StoreInv, StoreTypeOK, Control, Storing, Distributing
<1>5. Locked'
  BY <1>1 DEF StoreInv, StoreTypeOK, Locked, Distributing, countVars
<1>6. Drafts' /\ Absent' /\ Targeted' /\ Apart'
  BY <1>1, CopiesFrame DEF StoreInv, StoreTypeOK, tableVars, Distributing
<1>7. Dooming' /\ CpReady'
  BY <1>1, ConsoleFrame DEF StoreInv, StoreTypeOK, tableVars, consoleVars
<1>. QED BY <1>3, <1>4, <1>5, <1>6, <1>7 DEF StoreInv

\* Lock keeps StoreInv.
LEMMA LockKeeps ==
  ASSUME StoreInv, NEW t \in Thread, Lock(t)
  PROVE  StoreInv'
<1>1. /\ pc[t] = "lock" /\ cpmut = Nobody /\ cpmut' = t
      /\ pc' = [pc EXCEPT ![t] = "plan"]
      /\ UNCHANGED <<nodeVars, linkVars, dataVars, tableVars, countVars, path,
                     localVars, consoleVars>>
  BY DEF Lock, Goto
<1>2. StoreTypeOK' /\ waiter' \in Thread \cup {Nobody}
  BY <1>1 DEF StoreInv, StoreTypeOK, nodeVars, linkVars, dataVars, tableVars,
              countVars, localVars, consoleVars
<1>3. Control'
  BY <1>1 DEF StoreInv, StoreTypeOK, Control, Storing, Distributing, localVars
<1>4. Locked'
  BY <1>1, StoreAssumption DEF StoreInv, StoreTypeOK, Locked, Distributing, countVars
<1>5. Drafts' /\ Absent' /\ Targeted' /\ Apart'
  BY <1>1, CopiesFrame DEF StoreInv, StoreTypeOK, tableVars, localVars, Distributing
<1>6. Dooming' /\ CpReady'
  BY <1>1, ConsoleFrame DEF StoreInv, StoreTypeOK, tableVars, consoleVars, Copying
<1>. QED BY <1>2, <1>3, <1>4, <1>5, <1>6 DEF StoreInv

\* A thread about to read its local file finds one, or none.
LEMMA LocalOfType ==
  ASSUME StoreInv, NEW t \in Thread, pc[t] = "plan"
  PROVE  LocalOf(t) \in LocalFile \cup {NoMsg}
<1>1. path[t] \in File /\ Base[path[t]] \in File
  BY StoreAssumption DEF StoreInv, Control, Storing
<1>. QED BY <1>1 DEF LocalOf, LocalFile, StoreInv, StoreTypeOK

\* Abort keeps StoreInv.
LEMMA AbortKeeps ==
  ASSUME StoreInv, NEW t \in Thread, Abort(t)
  PROVE  StoreInv'
<1>1. /\ pc[t] = "plan" /\ pc' = [u \in Thread |-> "exit"] /\ doomed' = {}
      /\ handler' = [n \in Node |-> FALSE]
      /\ UNCHANGED <<nodeVars, mbox, dataVars, tableVars, cpmut, countVars, path,
                     localVars, cp>>
  BY DEF Abort
<1>2. \A u \in Thread : pc'[u] = "exit"
  BY <1>1
<1>3. StoreTypeOK' /\ waiter' \in Thread \cup {Nobody}
  BY <1>1 DEF StoreInv, StoreTypeOK, nodeVars, dataVars, tableVars, countVars, localVars
<1>4. Control' /\ Locked'
  BY <1>1, <1>2 DEF StoreInv, Control, Locked, Storing, Distributing, Thread, localVars
<1>5. Drafts'
  BY <1>1 DEF StoreInv, Locked, Drafts, Distributing, Copy, tableVars
<1>6. Absent' /\ Apart'
  BY <1>1 DEF StoreInv, Absent, Apart, Copy, tableVars
<1>7. Targeted' /\ Dooming' /\ CpReady'
  BY <1>1, <1>2 DEF Targeted, Dooming, CpReady, Copying, Thread
<1>. QED BY <1>3, <1>4, <1>5, <1>6, <1>7 DEF StoreInv

\* Plan keeps StoreInv.
LEMMA PlanKeeps ==
  ASSUME StoreInv, NEW t \in Thread, Plan(t)
  PROVE  StoreInv'
<1>1. /\ pc[t] = "plan" /\ waiter' = t /\ Ping(Node)
      /\ next' = [next EXCEPT ![t] = 0]
      /\ source' = [source EXCEPT ![t] = LocalOf(t)]
      /\ \/ cpmut' = Nobody /\ Return(t)
         \/ /\ cpmut' = cpmut /\ Goto(t, "send")
            /\ Blocks(LocalOf(t)) > 0
      /\ UNCHANGED <<nodeVars, dataVars, tableVars, path, target, local, consoleVars>>
  BY DEF Plan
<1>2. \E l \in {"idle", "reply", "send"} :
        /\ pc' = [pc EXCEPT ![t] = l]
        /\ (l = "idle" => t = Console) /\ (l = "reply" => t # Console)
        /\ l = "send" => cpmut' = cpmut /\ Blocks(LocalOf(t)) > 0
        /\ l # "send" => cpmut' = Nobody
  BY <1>1 DEF Return, Goto
<1>3. /\ \A t2 \in Thread : pc[t2] \in {"plan"} \cup Distributing => t2 = t
      /\ cpmut = t
  BY <1>1 DEF StoreInv, Locked
<1>4. StoreTypeOK' /\ waiter' \in Thread \cup {Nobody}
  <2>1. handler' \in [Node -> BOOLEAN]
    BY <1>1, PingTypes DEF StoreInv
  <2>2. LocalOf(t) \in LocalFile \cup {NoMsg}
    BY <1>1, LocalOfType
  <2>. QED BY <1>1, <1>2, <2>1, <2>2 DEF StoreInv, StoreTypeOK, nodeVars, dataVars,
                                         tableVars, consoleVars
<1>5. Control'
  <2>1. PICK l \in {"idle", "reply", "send"} :
          /\ pc' = [pc EXCEPT ![t] = l]
          /\ (l = "idle" => t = Console) /\ (l = "reply" => t # Console)
          /\ l = "send" => Blocks(LocalOf(t)) > 0
    BY <1>2
  <2>2. next' \in [Thread -> Nat]
    BY <1>1 DEF StoreInv, Control
  <2>3. path[t] \in File
    BY <1>1 DEF StoreInv, Control, Storing
  <2>4. t \in Storer => t # Console
    BY StoreAssumption
  <2>5. Blocks(LocalOf(t)) > 0 => LocalOf(t) \in LocalFile
    BY <1>1, LocalOfType DEF Blocks
  <2>6. /\ \A u \in Thread : pc'[u] \in Distributing =>
             source'[u] \in LocalFile /\ Blocks(source'[u]) > 0
    BY <1>1, <2>1, <2>5 DEF StoreInv, StoreTypeOK, Control, Distributing
  <2>. QED BY <1>1, <2>1, <2>2, <2>3, <2>4, <2>6
           DEF StoreInv, StoreTypeOK, Control, Storing, Distributing, Thread, Blocks
<1>6. Locked'
  BY <1>1, <1>2, <1>3 DEF StoreInv, StoreTypeOK, Locked, Distributing
<1>7. Drafts' /\ Absent' /\ Targeted' /\ Apart'
  BY <1>1, <1>2, <1>3, CopiesFrame DEF StoreInv, StoreTypeOK, tableVars, Distributing
<1>8. Dooming' /\ CpReady'
  BY <1>1, <1>2, ConsoleFrame DEF StoreInv, StoreTypeOK, tableVars, consoleVars, Copying
<1>. QED BY <1>4, <1>5, <1>6, <1>7, <1>8 DEF StoreInv

\* Balance keeps StoreInv.
LEMMA BalanceKeeps ==
  ASSUME StoreInv, NEW t \in Thread, Balance(t)
  PROVE  StoreInv'
<1>1. /\ pc[t] = "send" /\ handler' \in [Node -> BOOLEAN]
      /\ UNCHANGED <<nodeVars, dataVars, tableVars, cpmut, countVars, path, source,
                     local, consoleVars>>
  BY PingTypes DEF Balance, StoreInv
<1>2. \/ next' = [next EXCEPT ![t] = @ + 1] /\ UNCHANGED <<target, pc>>
      \/ /\ \E n \in Others(t) : target' = [target EXCEPT ![t] = n]
         /\ pc' = [pc EXCEPT ![t] = "alloc"] /\ UNCHANGED next
  BY DEF Balance, Goto
<1>3. StoreTypeOK' /\ waiter' \in Thread \cup {Nobody}
  BY <1>1, <1>2 DEF StoreInv, StoreTypeOK, nodeVars, dataVars, tableVars, countVars,
              consoleVars, Others
<1>4. Control'
  <2>1. next' \in [Thread -> Nat]
    BY <1>2 DEF StoreInv, Control
  <2>2. pc' = pc \/ pc' = [pc EXCEPT ![t] = "alloc"]
    BY <1>2
  <2>. QED BY <1>1, <2>1, <2>2 DEF StoreInv, StoreTypeOK, Control, Storing,
                                   Distributing, Thread
<1>5. Locked'
  BY <1>1, <1>2 DEF StoreInv, StoreTypeOK, Locked, Distributing, countVars
<1>6. Drafts' /\ Absent' /\ Apart'
  <2>1. \A t2 \in Thread : pc[t2] \in Distributing => pc'[t2] \in Distributing
    BY <1>1, <1>2 DEF StoreInv, StoreTypeOK, Distributing
  <2>. QED BY <1>1, <2>1 DEF StoreInv, Drafts, Absent, Apart, Copy, tableVars
<1>7. Targeted'
  <2>. SUFFICES ASSUME NEW u \in Thread, pc'[u] = "alloc"
                PROVE  target'[u] \in Node /\ target'[u] # Copy(u, Current(u), 0)'.node
    BY DEF Targeted
  <2>1. u # t => pc[u] = "alloc" /\ target'[u] = target[u] /\ next'[u] = next[u]
    BY <1>2 DEF StoreInv, StoreTypeOK, Control
  <2>2. u = t => /\ next' = next /\ target'[u] \in Node
                 /\ target'[u] # Copy(t, Current(t), 0).node
    BY <1>1, <1>2 DEF StoreInv, StoreTypeOK, Others
  <2>3. next'[u] = next[u] => Copy(u, Current(u), 0)' = Copy(u, Current(u), 0)
    BY <1>1 DEF Copy, Current, tableVars
  <2>. QED BY <2>1, <2>2, <2>3 DEF StoreInv, Targeted
<1>8. Dooming' /\ CpReady'
  <2>1. \/ pc'[Console] = pc[Console]
        \/ pc'[Console] = "alloc" /\ pc[Console] = "send"
    BY <1>1, <1>2 DEF StoreInv, StoreTypeOK, Thread
  <2>. QED BY <1>1, <2>1, ConsoleFrame DEF tableVars, consoleVars, Copying
<1>. QED BY <1>3, <1>4, <1>5, <1>6, <1>7, <1>8 DEF StoreInv

\* Full keeps StoreInv.
LEMMA FullKeeps ==
  ASSUME StoreInv, NEW t \in Thread, Full(t)
  PROVE  StoreInv'
<1>1. /\ pc[t] = "alloc" /\ pc' = [pc EXCEPT ![t] = "send"]
      /\ next' = [next EXCEPT ![t] = @ + 1]
      /\ UNCHANGED <<nodeVars, linkVars, dataVars, tableVars, cpmut, countVars, path,
                     target, source, local, consoleVars>>
  BY DEF Full, Goto
<1>2. StoreTypeOK' /\ waiter' \in Thread \cup {Nobody}
  BY <1>1 DEF StoreInv, StoreTypeOK, nodeVars, linkVars, dataVars, tableVars,
              countVars, consoleVars
<1>3. Control'
  BY <1>1 DEF StoreInv, StoreTypeOK, Control, Storing, Distributing
<1>4. Locked'
  BY <1>1 DEF StoreInv, StoreTypeOK, Locked, Distributing, countVars
<1>5. Drafts' /\ Absent' /\ Targeted' /\ Apart'
  BY <1>1, CopiesFrame DEF StoreInv, StoreTypeOK, Control, tableVars, Distributing
<1>6. Dooming' /\ CpReady'
  BY <1>1, ConsoleFrame DEF StoreInv, StoreTypeOK, tableVars, consoleVars, Copying
<1>. QED BY <1>2, <1>3, <1>4, <1>5, <1>6 DEF StoreInv

\* Deliver keeps StoreInv.
LEMMA DeliverKeeps ==
  ASSUME StoreInv, NEW t \in Thread, Deliver(t)
  PROVE  StoreInv'
<1>1. /\ pc[t] = "deliver" /\ pc' = [pc EXCEPT ![t] = "send"]
      /\ next' = [next EXCEPT ![t] = @ + 1]
      /\ UNCHANGED <<nodeVars, handler, dataVars, tableVars, cpmut, countVars, path,
                     target, source, local, consoleVars>>
  BY DEF Deliver, Goto
<1>2. StoreTypeOK' /\ waiter' \in Thread \cup {Nobody}
  BY <1>1 DEF StoreInv, StoreTypeOK, nodeVars, dataVars, tableVars, countVars, consoleVars
<1>3. Control'
  BY <1>1 DEF StoreInv, StoreTypeOK, Control, Storing, Distributing
<1>4. Locked'
  BY <1>1 DEF StoreInv, StoreTypeOK, Locked, Distributing, countVars
<1>5. Drafts' /\ Absent' /\ Targeted' /\ Apart'
  BY <1>1, CopiesFrame DEF StoreInv, StoreTypeOK, Control, tableVars, Distributing
<1>6. Dooming' /\ CpReady'
  BY <1>1, ConsoleFrame DEF StoreInv, StoreTypeOK, tableVars, consoleVars, Copying
<1>. QED BY <1>2, <1>3, <1>4, <1>5, <1>6 DEF StoreInv

\* Reply keeps StoreInv.
LEMMA ReplyKeeps ==
  ASSUME StoreInv, NEW t \in Storer, Reply(t)
  PROVE  StoreInv'
<1>1. /\ t \in Thread /\ t # Console /\ pc[t] = "reply"
      /\ pc' = [pc EXCEPT ![t] = "done"]
      /\ local' = [local EXCEPT ![Base[path[t]]] = NoMsg]
      /\ UNCHANGED <<nodeVars, linkVars, dataVars, tableVars, cpmut, countVars, path,
                     next, target, source, consoleVars>>
  BY StoreAssumption DEF Reply, Goto, Thread
<1>2. StoreTypeOK' /\ waiter' \in Thread \cup {Nobody}
  BY <1>1 DEF StoreInv, StoreTypeOK, nodeVars, linkVars, dataVars, tableVars,
              countVars, consoleVars
<1>3. Control'
  BY <1>1 DEF StoreInv, StoreTypeOK, Control, Storing, Distributing
<1>4. Locked'
  BY <1>1 DEF StoreInv, StoreTypeOK, Locked, Distributing, countVars
<1>5. Drafts' /\ Absent' /\ Targeted' /\ Apart'
  BY <1>1, CopiesFrame DEF StoreInv, StoreTypeOK, tableVars, Distributing
<1>6. Dooming' /\ CpReady'
  BY <1>1, ConsoleFrame DEF StoreInv, StoreTypeOK, tableVars, consoleVars
<1>. QED BY <1>2, <1>3, <1>4, <1>5, <1>6 DEF StoreInv

\* Alloc keeps StoreInv.
LEMMA AllocKeeps ==
  ASSUME StoreInv, NEW t \in Thread, Alloc(t)
  PROVE  StoreInv'
<1>. DEFINE n == target[t]
<1>. DEFINE cur == Current(t)
<1>. DEFINE c == Half(t)
<1>1. /\ pc[t] = "alloc" /\ n \in Node /\ n # Copy(t, cur, 0).node
      /\ path[t] \in File /\ cur \in Index /\ c \in {0, 1}
      /\ t \in Holder /\ t \notin File
  BY CurrentInIndex, StoreAssumption
     DEF StoreInv, Alloc, Targeted, Control, Storing, Distributing, Half, Holder, Thread
<1>2. PICK b \in Bit(n) :
        /\ Mark(Loc(n, b)) /\ FirstZero(n, b)
        /\ copies' = [copies EXCEPT ![<<t, cur, c>>] = Loc(n, b)]
  BY DEF Alloc
<1>. DEFINE l == Loc(n, b)
<1>3. l \in Location /\ l.node = n /\ l # NoLoc
  BY <1>1, <1>2, BitInt, LocFacts
<1>4. \A h2 \in Holder, i2 \in Index, c2 \in {0, 1} :
        Copy(h2, i2, c2)' = IF h2 = t /\ i2 = cur /\ c2 = c THEN l ELSE Copy(h2, i2, c2)
  BY <1>2, SlotFacts DEF Copy, StoreInv, StoreTypeOK
<1>5. /\ pc' = [pc EXCEPT ![t] = "deliver"]
      /\ UNCHANGED <<linkVars, dataVars, table, src, cpmut, countVars, sleep, path,
                     localVars, consoleVars, reply, boundVars>>
      /\ libre' = [libre EXCEPT ![n] = free'[n]]
  BY DEF Alloc, Goto, SaveNode
<1>. HIDE DEF n, cur, c, l
<1>6. StoreTypeOK'
  <2>1. bitmap' \in [Node -> SUBSET Int] /\ free' \in [Node -> Int]
    BY <1>2, <1>3, MarkTypes DEF StoreInv, l
  <2>2. copies' \in [Slot -> Location \cup {NoLoc}]
    BY <1>2, <1>3, SetCopyType DEF StoreInv, l
  <2>. QED BY <1>1, <1>5, <2>1, <2>2 DEF StoreInv, StoreTypeOK, linkVars, dataVars,
                                         localVars, consoleVars
<1>7. waiter' \in Thread \cup {Nobody}
  BY <1>5 DEF StoreInv, countVars
<1>8. Control'
  BY <1>1, <1>5 DEF StoreInv, StoreTypeOK, Control, Storing, Distributing, localVars
<1>9. Locked'
  BY <1>1, <1>5 DEF StoreInv, StoreTypeOK, Locked, Distributing, countVars
<1>10. Drafts'
  <2>. SUFFICES ASSUME NEW t2 \in Thread, NEW i2 \in Index
                PROVE  /\ pc'[t2] \notin Distributing =>
                            \A c2 \in {0, 1} : Copy(t2, i2, c2)' = NoLoc
                       /\ Copy(t2, i2, 0)' = NoLoc => Copy(t2, i2, 1)' = NoLoc
    BY DEF Drafts
  <2>1. t2 \in Holder
    BY DEF Holder
  <2>2. pc'[t2] \notin Distributing => t2 # t /\ pc[t2] \notin Distributing
    BY <1>5 DEF StoreInv, StoreTypeOK, Distributing
  <2>3. c = 0 \/ (c = 1 /\ Copy(t, cur, 0) # NoLoc)
    BY DEF c, Half, cur
  <2>. QED BY <2>1, <2>2, <2>3, <1>3, <1>4 DEF StoreInv, Drafts
<1>11. Absent'
  <2>1. \A f \in File, i2 \in Index, c2 \in {0, 1} : Copy(f, i2, c2)' = Copy(f, i2, c2)
    BY <1>1, <1>4 DEF Holder
  <2>. QED BY <2>1, <1>5 DEF StoreInv, Absent
<1>12. Targeted'
  <2>. SUFFICES ASSUME NEW u \in Thread, pc'[u] = "alloc"
                PROVE  target'[u] \in Node /\ target'[u] # Copy(u, Current(u), 0)'.node
    BY DEF Targeted
  <2>1. u # t /\ pc[u] = "alloc" /\ u \in Holder
    BY <1>5 DEF StoreInv, StoreTypeOK, Holder
  <2>2. target' = target /\ Copy(u, Current(u), 0)' = copies'[<<u, Current(u), 0>>]
    BY <1>5 DEF Current, Copy, localVars
  <2>3. Current(u) \in Index
    BY <2>1, CurrentInIndex DEF StoreInv, Distributing
  <2>4. copies'[<<u, Current(u), 0>>] = Copy(u, Current(u), 0)
    BY <2>1, <2>3, <1>4 DEF Copy
  <2>. QED BY <2>1, <2>2, <2>4 DEF StoreInv, Targeted
<1>13. Dooming'
  BY <1>1, <1>5, <1>2, <1>3 DEF StoreInv, StoreTypeOK, Dooming, consoleVars
<1>14. CpReady'
  BY <1>1, <1>4, <1>5 DEF StoreInv, StoreTypeOK, CpReady, consoleVars, Copying, Holder
<1>15. Apart'
  <2>. SUFFICES ASSUME NEW h \in Holder, NEW i \in Index,
                       Copy(h, i, 0)' # NoLoc, Copy(h, i, 1)' # NoLoc
                PROVE  Copy(h, i, 0)'.node # Copy(h, i, 1)'.node
    BY DEF Apart
  <2>1. CASE h = t /\ i = cur
    <3>1. CASE c = 0
      BY <3>1, <2>1, <1>1, <1>4 DEF StoreInv, Drafts, c, Half, cur
    <3>2. CASE c = 1
      BY <3>2, <2>1, <1>1, <1>3, <1>4
    <3>. QED BY <3>1, <3>2, <1>1
  <2>2. CASE ~ (h = t /\ i = cur)
    BY <2>2, <1>4 DEF StoreInv, Apart
  <2>. QED BY <2>1, <2>2
<1>. QED BY <1>6, <1>7, <1>8, <1>9, <1>10, <1>11, <1>12, <1>13, <1>14, <1>15 DEF StoreInv

\* CmdCpfrom keeps StoreInv.
LEMMA CmdCpfromKeeps ==
  ASSUME StoreInv, NEW f \in File, CmdCpfrom(f)
  PROVE  StoreInv'
<1>1. /\ pc[Console] = "idle" /\ pc' = [pc EXCEPT ![Console] = "lock"]
      /\ path' = [path EXCEPT ![Console] = f] /\ Console \in Thread
      /\ UNCHANGED <<nodeVars, linkVars, dataVars, tableVars, cpmut, countVars,
                     localVars, consoleVars>>
  BY DEF CmdCpfrom, Command, Goto, Thread
<1>2. StoreTypeOK' /\ waiter' \in Thread \cup {Nobody}
  BY <1>1 DEF StoreInv, StoreTypeOK, nodeVars, linkVars, dataVars, tableVars,
              countVars, localVars, consoleVars
<1>3. Control'
  BY <1>1, StoreAssumption DEF StoreInv, StoreTypeOK, Control, Storing, Distributing,
                               localVars
<1>4. Locked'
  BY <1>1 DEF StoreInv, StoreTypeOK, Locked, Distributing, countVars
<1>5. Drafts' /\ Absent' /\ Targeted' /\ Apart'
  BY <1>1, CopiesFrame DEF StoreInv, StoreTypeOK, tableVars, localVars, Distributing
<1>6. Dooming' /\ CpReady'
  BY <1>1, ConsoleFrame DEF StoreInv, StoreTypeOK, tableVars, consoleVars, Copying
<1>. QED BY <1>2, <1>3, <1>4, <1>5, <1>6 DEF StoreInv

\* CmdRm keeps StoreInv.
LEMMA CmdRmKeeps ==
  ASSUME StoreInv, NEW f \in File, CmdRm(f)
  PROVE  StoreInv'
<1>1. /\ pc[Console] = "idle" /\ pc' = [pc EXCEPT ![Console] = "rm"]
      /\ path' = [path EXCEPT ![Console] = f] /\ Console \in Thread /\ f \in table
      /\ doomed' = {s \in Slot : s[1] = f /\ copies[s] # NoLoc}
      /\ UNCHANGED <<nodeVars, linkVars, dataVars, tableVars, cpmut, countVars,
                     localVars, cp, inbox>>
  BY DEF CmdRm, Command, Goto, Thread
<1>2. StoreTypeOK' /\ waiter' \in Thread \cup {Nobody}
  BY <1>1 DEF StoreInv, StoreTypeOK, nodeVars, linkVars, dataVars, tableVars,
              countVars, localVars
<1>3. Control'
  BY <1>1, StoreAssumption DEF StoreInv, StoreTypeOK, Control, Storing, Distributing,
                               localVars
<1>4. Locked'
  BY <1>1 DEF StoreInv, StoreTypeOK, Locked, Distributing, countVars
<1>5. Drafts' /\ Absent' /\ Targeted' /\ Apart'
  BY <1>1, CopiesFrame DEF StoreInv, StoreTypeOK, tableVars, localVars, Distributing
<1>6. Dooming' /\ CpReady'
  BY <1>1 DEF StoreInv, StoreTypeOK, Dooming, CpReady, Copying, tableVars
<1>. QED BY <1>2, <1>3, <1>4, <1>5, <1>6 DEF StoreInv

\* RmCopy keeps StoreInv.
LEMMA RmCopyKeeps ==
  ASSUME StoreInv, NEW s \in doomed, RmCopy(s)
  PROVE  StoreInv'
<1>1. /\ pc[Console] = "rm" /\ doomed' = doomed \ {s}
      /\ Unmark(copies[s]) /\ SaveNode(copies[s].node)
      /\ UNCHANGED <<linkVars, dataVars, tableVars, cpmut, countVars, pc, path,
                     localVars, cp, inbox>>
  BY DEF RmCopy
<1>2. copies[s] \in Location
  BY <1>1 DEF StoreInv, StoreTypeOK, Dooming
<1>3. StoreTypeOK' /\ waiter' \in Thread \cup {Nobody}
  <2>1. bitmap' \in [Node -> SUBSET Int] /\ free' \in [Node -> Int]
    BY <1>1, <1>2, UnmarkTypes DEF StoreInv
  <2>2. libre' \in [Node -> Int]
    <3>1. copies[s].node \in Node
      BY <1>2, LocFacts
    <3>. QED BY <1>1, <2>1, <3>1 DEF StoreInv, StoreTypeOK, SaveNode
  <2>. QED BY <1>1, <2>1, <2>2 DEF StoreInv, StoreTypeOK, linkVars, dataVars,
                                   tableVars, countVars, localVars
<1>4. Control' /\ Locked'
  BY <1>1 DEF StoreInv, Control, Locked, countVars, localVars
<1>5. Drafts' /\ Absent' /\ Targeted' /\ Apart'
  BY <1>1, CopiesFrame DEF tableVars, localVars
<1>6. Dooming' /\ CpReady'
  BY <1>1 DEF StoreInv, Dooming, CpReady, Copying, tableVars, Copy
<1>. QED BY <1>3, <1>4, <1>5, <1>6 DEF StoreInv

\* RmEnd keeps StoreInv.
LEMMA RmEndKeeps ==
  ASSUME StoreInv, RmEnd
  PROVE  StoreInv'
<1>. DEFINE f == path[Console]
<1>1. /\ pc[Console] = "rm" /\ pc' = [pc EXCEPT ![Console] = "idle"] /\ doomed = {}
      /\ table' = table \ {f} /\ src' = [src EXCEPT ![f] = Nobody]
      /\ copies' = [s \in Slot |-> IF s[1] = f THEN NoLoc ELSE copies[s]]
      /\ UNCHANGED <<nodeVars, linkVars, dataVars, cpmut, countVars, path, localVars,
                     consoleVars>>
  BY DEF RmEnd, Goto
<1>2. f \in table /\ f \in File /\ f \notin Thread /\ Console \in Thread
  BY <1>1, StoreAssumption DEF StoreInv, StoreTypeOK, Dooming, Thread
<1>. HIDE DEF f
<1>3. \A h \in Holder, i \in Index, c \in {0, 1} :
        copies'[<<h, i, c>>] = IF h = f THEN NoLoc ELSE copies[<<h, i, c>>]
  BY <1>1 DEF Slot
<1>holds. \A t \in Thread : t \in Holder /\ t # f
  BY <1>2 DEF Holder
<1>pcs. \A t \in Thread : pc[t] \in Distributing => pc'[t] = pc[t]
  BY <1>1 DEF StoreInv, StoreTypeOK, Distributing
<1>4. StoreTypeOK' /\ waiter' \in Thread \cup {Nobody}
  BY <1>1, <1>2 DEF StoreInv, StoreTypeOK, nodeVars, linkVars, dataVars, countVars,
                    localVars, consoleVars
<1>5. Control'
  BY <1>1, <1>2, StoreAssumption
     DEF StoreInv, StoreTypeOK, Control, Storing, Distributing, localVars
<1>6. Locked'
  BY <1>1, <1>2 DEF StoreInv, StoreTypeOK, Locked, Distributing, countVars
<1>7. Drafts'
  BY <1>3, <1>holds, <1>pcs, DraftsFrame DEF StoreInv
<1>8. Absent'
  BY <1>1, <1>2, <1>3, AbsentFrame DEF StoreInv, Holder
<1>9. Targeted'
  <2>1. \A t \in Thread, i \in Index : copies'[<<t, i, 0>>] = copies[<<t, i, 0>>]
    BY <1>3, <1>holds
  <2>2. \A t \in Thread : pc'[t] = "alloc" =>
          pc[t] = "alloc" /\ target'[t] = target[t] /\ next'[t] = next[t] /\ source'[t] = source[t]
    BY <1>1 DEF StoreInv, StoreTypeOK, localVars
  <2>. QED BY <2>1, <2>2, TargetedFrame
<1>10. Dooming' /\ CpReady'
  BY <1>1, <1>2 DEF StoreInv, StoreTypeOK, Dooming, CpReady, Copying, consoleVars
<1>11. Apart'
  BY <1>3 DEF StoreInv, Apart, Copy
<1>. QED BY <1>4, <1>5, <1>6, <1>7, <1>8, <1>9, <1>10, <1>11 DEF StoreInv

\* CmdRmBlock keeps StoreInv.
LEMMA CmdRmBlockKeeps ==
  ASSUME StoreInv, NEW s \in File \X Index \X {0, 1}, CmdRmBlock(s)
  PROVE  StoreInv'
<1>1. /\ pc[Console] = "idle" /\ pc' = [pc EXCEPT ![Console] = "rmb"]
      /\ Console \in Thread /\ s[1] \in table /\ doomed' = {s}
      /\ UNCHANGED <<nodeVars, linkVars, dataVars, tableVars, cpmut, countVars, path,
                     localVars, cp, inbox>>
  BY DEF CmdRmBlock, Command, Goto, Thread
<1>2. s \in Slot /\ copies[s] # NoLoc
  BY SlotParts DEF CmdRmBlock, Removable, Slot, Holder
<1>3. StoreTypeOK' /\ waiter' \in Thread \cup {Nobody}
  BY <1>1, <1>2 DEF StoreInv, StoreTypeOK, nodeVars, linkVars, dataVars, tableVars,
              countVars, localVars
<1>4. Control'
  BY <1>1, StoreAssumption DEF StoreInv, StoreTypeOK, Control, Storing, Distributing,
                               localVars
<1>5. Locked'
  BY <1>1 DEF StoreInv, StoreTypeOK, Locked, Distributing, countVars
<1>6. Drafts' /\ Absent' /\ Targeted' /\ Apart'
  BY <1>1, CopiesFrame DEF StoreInv, StoreTypeOK, tableVars, localVars, Distributing
<1>7. Dooming' /\ CpReady'
  BY <1>1, <1>2 DEF StoreInv, StoreTypeOK, Dooming, CpReady, Copying, tableVars
<1>. QED BY <1>3, <1>4, <1>5, <1>6, <1>7 DEF StoreInv

\* RmBlock keeps StoreInv.
LEMMA RmBlockKeeps ==
  ASSUME StoreInv, NEW s \in doomed, RmBlock(s)
  PROVE  StoreInv'
<1>1. /\ pc[Console] = "rmb" /\ pc' = [pc EXCEPT ![Console] = "idle"]
      /\ doomed' = {} /\ Unmark(copies[s]) /\ copies' = [copies EXCEPT ![s] = NoLoc]
      /\ UNCHANGED <<libre, linkVars, dataVars, table, src, cpmut, countVars, path,
                     localVars, cp, inbox>>
  BY DEF RmBlock, Goto
<1>2. /\ copies[s] \in Location /\ s[1] \in table /\ s[1] \in File /\ s[1] \notin Thread
      /\ s \in Slot /\ Console \in Thread
  BY <1>1, StoreAssumption DEF StoreInv, StoreTypeOK, Dooming, Thread
<1>3. /\ \A h \in Holder, i \in Index, c \in {0, 1} :
           copies'[<<h, i, c>>] \in {NoLoc, copies[<<h, i, c>>]}
      /\ \A t \in Thread, i \in Index, c \in {0, 1} :
           copies'[<<t, i, c>>] = copies[<<t, i, c>>]
  BY <1>1, <1>2, SlotFacts DEF StoreInv, StoreTypeOK, Holder
<1>4. StoreTypeOK' /\ waiter' \in Thread \cup {Nobody}
  <2>1. bitmap' \in [Node -> SUBSET Int] /\ free' \in [Node -> Int]
    BY <1>1, <1>2, UnmarkTypes DEF StoreInv
  <2>. QED BY <1>1, <1>2, <2>1 DEF StoreInv, StoreTypeOK, linkVars, dataVars, countVars,
                    localVars
<1>5. Control'
  BY <1>1, <1>2, StoreAssumption
     DEF StoreInv, StoreTypeOK, Control, Storing, Distributing, localVars
<1>6. Locked'
  BY <1>1, <1>2 DEF StoreInv, StoreTypeOK, Locked, Distributing, countVars
<1>7. Drafts'
  <2>1. \A t \in Thread : pc[t] \in Distributing => pc'[t] \in Distributing
    BY <1>1 DEF StoreInv, StoreTypeOK, Distributing
  <2>. QED BY <1>3, <2>1, DraftsFrame DEF StoreInv
<1>8. Absent'
  BY <1>1, <1>3, AbsentFrame DEF Holder, StoreInv
<1>9. Targeted'
  BY <1>1, <1>2, <1>3, TargetedFrame DEF StoreInv, StoreTypeOK, localVars
<1>10. Dooming' /\ CpReady'
  BY <1>1, <1>2 DEF StoreInv, StoreTypeOK, Dooming, CpReady, Copying
<1>11. Apart'
  BY <1>3 DEF StoreInv, Apart, Copy
<1>. QED BY <1>4, <1>5, <1>6, <1>7, <1>8, <1>9, <1>10, <1>11 DEF StoreInv

\* CmdCpblock keeps StoreInv.
LEMMA CmdCpblockKeeps ==
  ASSUME StoreInv, NEW f \in File, NEW i \in Index, NEW n \in Node, CmdCpblock(f, i, n)
  PROVE  StoreInv'
<1>. DEFINE c == IF Copy(f, i, 0) = NoLoc THEN 1 ELSE 0
<1>1. /\ pc[Console] = "idle" /\ Console \in Thread /\ f \in table /\ c \in {0, 1}
      /\ Copyable(f, i, c, n) /\ Ping({n})
      /\ UNCHANGED <<nodeVars, mbox, dataVars, tableVars, cpmut, countVars, path,
                     localVars, doomed, inbox>>
  BY DEF CmdCpblock, Command, Thread
<1>2. PICK b \in 0 .. Total[n] - 1 :
        \/ UNCHANGED <<cp, pc>>
        \/ /\ cp' = [file |-> f, index |-> i, from |-> Copy(f, i, c).node,
                     half |-> 1 - c, to |-> Loc(n, b)]
           /\ pc' = [pc EXCEPT ![Console] = "cpask"]
  BY DEF CmdCpblock, Goto
<1>3. pc' = pc \/ pc' = [pc EXCEPT ![Console] = "cpask"]
  BY <1>2
<1>. HIDE DEF c
<1>4. StoreTypeOK' /\ waiter' \in Thread \cup {Nobody}
  <2>1. handler' \in [Node -> BOOLEAN]
    BY <1>1, PingTypes DEF StoreInv
  <2>. QED BY <1>1, <1>3, <2>1 DEF StoreInv, StoreTypeOK, nodeVars, dataVars, tableVars,
                                   countVars, localVars
<1>5. Control'
  <2>1. CASE pc' = pc
    BY <1>1, <2>1 DEF StoreInv, Control, localVars
  <2>2. CASE pc' = [pc EXCEPT ![Console] = "cpask"]
    BY <1>1, <2>2, StoreAssumption
       DEF StoreInv, StoreTypeOK, Control, Storing, Copying, Distributing, localVars
  <2>. QED BY <1>3, <2>1, <2>2
<1>6. Locked'
  BY <1>1, <1>3 DEF StoreInv, StoreTypeOK, Locked, Distributing, countVars
<1>7. Drafts' /\ Absent' /\ Targeted' /\ Apart'
  BY <1>1, <1>3, CopiesFrame DEF StoreInv, StoreTypeOK, tableVars, localVars, Distributing
<1>8. Dooming'
  BY <1>1, <1>3 DEF StoreInv, StoreTypeOK, Dooming, tableVars
<1>9. CpReady'
  <2>1. CASE cp' = cp /\ pc' = pc
    BY <1>1, <2>1 DEF StoreInv, CpReady, Copying, Copy, tableVars
  <2>2. CASE cp' = [file |-> f, index |-> i, from |-> Copy(f, i, c).node,
                    half |-> 1 - c, to |-> Loc(n, b)]
    <3>1. /\ Copy(f, i, 1 - c) = NoLoc /\ Copy(f, i, c).node # n
          /\ f \in Holder /\ 1 - c \in {0, 1} /\ 1 - (1 - c) = c
      BY <1>1 DEF Copyable, Holder
    <3>2. Copy(f, i, c) \in Location \cup {NoLoc}
      BY <1>1, <3>1, CopyType DEF StoreInv
    <3>3. Copy(f, i, c).node \in Node \cup {NoNode}
      BY <3>2, LocFacts
    <3>4. b \in Int
      BY StoreAssumption
    <3>5. Loc(n, b) \in Location /\ Loc(n, b).node = n
      BY <3>4, LocFacts
    <3>6. /\ cp'.file = f /\ cp'.index = i /\ cp'.half = 1 - c /\ cp'.to = Loc(n, b)
          /\ cp' \in [file : File, index : Index, from : Node \cup {NoNode},
                      half : {0, 1}, to : Location]
      BY <2>2, <3>1, <3>3, <3>5
    <3>7. \A h2, i2, c2 : Copy(h2, i2, c2)' = Copy(h2, i2, c2)
      BY <1>1 DEF Copy, tableVars
    <3>. QED BY <1>1, <3>1, <3>5, <3>6 DEF CpReady, Copy, tableVars
  <2>. QED BY <1>2, <2>1, <2>2
<1>. QED BY <1>4, <1>5, <1>6, <1>7, <1>8, <1>9 DEF StoreInv

\* CpAsk keeps StoreInv.
LEMMA CpAskKeeps ==
  ASSUME StoreInv, CpAsk
  PROVE  StoreInv'
<1>1. /\ pc[Console] = "cpask" /\ pc' = [pc EXCEPT ![Console] = "cpwait"] /\ Console \in Thread
      /\ UNCHANGED <<nodeVars, handler, dataVars, tableVars, cpmut, countVars, path,
                     localVars, consoleVars>>
  BY DEF CpAsk, Goto, Thread
<1>2. StoreTypeOK' /\ waiter' \in Thread \cup {Nobody}
  BY <1>1 DEF StoreInv, StoreTypeOK, nodeVars, dataVars, tableVars, countVars,
              localVars, consoleVars
<1>3. Control'
  BY <1>1, StoreAssumption
     DEF StoreInv, StoreTypeOK, Control, Storing, Copying, Distributing, localVars
<1>4. Locked'
  BY <1>1 DEF StoreInv, StoreTypeOK, Locked, Distributing, countVars
<1>5. Drafts' /\ Absent' /\ Targeted' /\ Apart'
  BY <1>1, CopiesFrame DEF StoreInv, StoreTypeOK, tableVars, localVars, Distributing
<1>6. Dooming' /\ CpReady'
  BY <1>1 DEF StoreInv, StoreTypeOK, Dooming, CpReady, Copying, Copy, tableVars, consoleVars
<1>. QED BY <1>2, <1>3, <1>4, <1>5, <1>6 DEF StoreInv

\* CpReceive keeps StoreInv.
LEMMA CpReceiveKeeps ==
  ASSUME StoreInv, CpReceive
  PROVE  StoreInv'
<1>1. /\ pc[Console] = "cpwait" /\ pc' = [pc EXCEPT ![Console] = "cpput"] /\ Console \in Thread
      /\ UNCHANGED <<nodeVars, linkVars, dataVars, tableVars, cpmut, countVars, path,
                     localVars, consoleVars>>
  BY DEF CpReceive, Goto, Thread
<1>2. StoreTypeOK' /\ waiter' \in Thread \cup {Nobody}
  BY <1>1 DEF StoreInv, StoreTypeOK, nodeVars, linkVars, dataVars, tableVars, countVars,
              localVars, consoleVars
<1>3. Control'
  BY <1>1, StoreAssumption
     DEF StoreInv, StoreTypeOK, Control, Storing, Copying, Distributing, localVars
<1>4. Locked'
  BY <1>1 DEF StoreInv, StoreTypeOK, Locked, Distributing, countVars
<1>5. Drafts' /\ Absent' /\ Targeted' /\ Apart'
  BY <1>1, CopiesFrame DEF StoreInv, StoreTypeOK, tableVars, localVars, Distributing
<1>6. Dooming' /\ CpReady'
  BY <1>1 DEF StoreInv, StoreTypeOK, Dooming, CpReady, Copying, Copy, tableVars, consoleVars
<1>. QED BY <1>2, <1>3, <1>4, <1>5, <1>6 DEF StoreInv

\* CpPut keeps StoreInv.
LEMMA CpPutKeeps ==
  ASSUME StoreInv, CpPut
  PROVE  StoreInv'
<1>1. /\ pc[Console] = "cpput" /\ pc' = [pc EXCEPT ![Console] = "idle"] /\ Console \in Thread
      /\ copies' = [copies EXCEPT ![<<cp.file, cp.index, cp.half>>] = cp.to]
      /\ Mark(cp.to)
      /\ UNCHANGED <<libre, handler, dataVars, table, src, cpmut, countVars, path,
                     localVars, doomed>>
  BY DEF CpPut, Goto, Thread
<1>2. /\ cp.file \in table /\ cp.file \in File /\ cp.file \notin Thread /\ cp.index \in Index
      /\ cp.half \in {0, 1} /\ cp.to \in Location
      /\ Copy(cp.file, cp.index, 1 - cp.half).node # cp.to.node
  BY <1>1, StoreAssumption DEF StoreInv, CpReady, Copying
<1>3. \A h \in Holder, i \in Index, c \in {0, 1} :
        copies'[<<h, i, c>>] = IF h = cp.file /\ i = cp.index /\ c = cp.half
                               THEN cp.to ELSE copies[<<h, i, c>>]
  BY <1>1, SlotFacts DEF StoreInv, StoreTypeOK
<1>4. \A t \in Thread : t \in Holder /\ t # cp.file
  BY <1>2 DEF Holder
<1>5. StoreTypeOK' /\ waiter' \in Thread \cup {Nobody}
  <2>1. bitmap' \in [Node -> SUBSET Int] /\ free' \in [Node -> Int]
    BY <1>1, <1>2, MarkTypes DEF StoreInv
  <2>. QED BY <1>1, <1>2, <2>1 DEF StoreInv, StoreTypeOK, dataVars, countVars, localVars
<1>6. Control'
  BY <1>1, StoreAssumption
     DEF StoreInv, StoreTypeOK, Control, Storing, Copying, Distributing, localVars
<1>7. Locked'
  BY <1>1 DEF StoreInv, StoreTypeOK, Locked, Distributing, countVars
<1>8. Drafts'
  <2>1. \A t \in Thread : pc[t] \in Distributing => pc'[t] \in Distributing
    BY <1>1 DEF StoreInv, StoreTypeOK, Distributing
  <2>. QED BY <1>3, <1>4, <2>1, DraftsFrame DEF StoreInv
<1>9. Absent'
  BY <1>1, <1>2, <1>3, AbsentFrame DEF StoreInv, Holder
<1>10. Targeted'
  BY <1>1, <1>3, <1>4, TargetedFrame DEF StoreInv, StoreTypeOK, localVars
<1>11. Dooming' /\ CpReady'
  BY <1>1 DEF StoreInv, StoreTypeOK, Dooming, CpReady, Copying
<1>12. Apart'
  <2>. SUFFICES ASSUME NEW h \in Holder, NEW i \in Index,
                       copies'[<<h, i, 0>>] # NoLoc, copies'[<<h, i, 1>>] # NoLoc
                PROVE  copies'[<<h, i, 0>>].node # copies'[<<h, i, 1>>].node
    BY DEF Apart, Copy
  <2>1. CASE h = cp.file /\ i = cp.index
    <3>1. CASE cp.half = 0
      BY <1>2, <1>3, <2>1, <3>1 DEF Copy
    <3>2. CASE cp.half = 1
      BY <1>2, <1>3, <2>1, <3>2 DEF Copy
    <3>. QED BY <1>2, <3>1, <3>2
  <2>2. CASE ~(h = cp.file /\ i = cp.index)
    BY <1>3, <2>2 DEF StoreInv, Apart, Copy
  <2>. QED BY <2>1, <2>2
<1>. QED BY <1>5, <1>6, <1>7, <1>8, <1>9, <1>10, <1>11, <1>12 DEF StoreInv

\* The handlers, the DataNodes and the network keep StoreInv (server.c).
LEMMA NetworkKeeps ==
  ASSUME StoreInv, NEW n \in Node,
         HandleSend(n) \/ HandleRecv(n) \/ Write(n) \/ Drop(n) \/ Reconnect(n)
  PROVE  StoreInv'
<1>1. CASE HandleSend(n)
  BY <1>1, NetworkFrame
     DEF HandleSend, SentBlock, StoreInv, StoreTypeOK, nodeVars, tableVars, localVars,
         consoleVars
<1>2. CASE HandleRecv(n)
  BY <1>2, NetworkFrame
     DEF HandleRecv, StoreInv, StoreTypeOK, nodeVars, dataVars, countVars, localVars
<1>3. CASE Write(n)
  BY <1>3, NetworkFrame
     DEF Write, StoreInv, StoreTypeOK, nodeVars, linkVars, countVars, localVars, consoleVars
<1>4. CASE Drop(n)
  BY <1>4, NetworkFrame
     DEF Drop, StoreInv, StoreTypeOK, nodeVars, linkVars, countVars, localVars, consoleVars
<1>5. CASE Reconnect(n)
  BY <1>5, NetworkFrame
     DEF Reconnect, Active, StoreInv, StoreTypeOK, nodeVars, countVars, localVars,
         consoleVars
<1>. QED BY <1>1, <1>2, <1>3, <1>4, <1>5

\* Finish keeps StoreInv.
LEMMA FinishKeeps ==
  ASSUME StoreInv, NEW t \in Thread, Finish(t)
  PROVE  StoreInv'
<1>. DEFINE f == path[t]
<1>. DEFINE added == Added(t)
<1>1. /\ pc[t] = "send" /\ cpmut' = Nobody /\ Return(t)
      /\ table' = IF added THEN table \cup {f} ELSE table
      /\ src' = IF added THEN [src EXCEPT ![f] = t] ELSE src
      /\ copies' = [s \in Slot |->
                      CASE s[1] = t -> NoLoc
                        [] s[1] = f /\ added -> Copy(t, s[2], s[3])
                        [] OTHER -> copies[s]]
      /\ UNCHANGED <<nodeVars, linkVars, dataVars, countVars, path, localVars, consoleVars>>
  BY DEF Finish
<1>2. /\ f \in File /\ f \notin Thread /\ f # t /\ (added => f \notin table)
      /\ added \in BOOLEAN
  BY <1>1, StoreAssumption DEF StoreInv, Control, Storing, Distributing, Added, Success
<1>3. PICK l \in {"idle", "reply"} :
        /\ pc' = [pc EXCEPT ![t] = l]
        /\ (l = "idle" => t = Console) /\ (l = "reply" => t # Console)
  BY <1>1 DEF Return, Goto
<1>. HIDE DEF f, added
<1>4. \A h \in Holder, i \in Index, c \in {0, 1} :
        copies'[<<h, i, c>>] = IF h = t THEN NoLoc
                               ELSE IF h = f /\ added THEN copies[<<t, i, c>>]
                               ELSE copies[<<h, i, c>>]
  <2>. SUFFICES ASSUME NEW h \in Holder, NEW i \in Index, NEW c \in {0, 1}
                PROVE  copies'[<<h, i, c>>] = IF h = t THEN NoLoc
                               ELSE IF h = f /\ added THEN copies[<<t, i, c>>]
                               ELSE copies[<<h, i, c>>]
    OBVIOUS
  <2>. QED BY <1>1, <1>2, SlotFacts DEF Copy
<1>5. /\ \A u \in Thread : u \in Holder /\ u # f
      /\ \A g \in File : g \in Holder /\ g # t
  BY <1>2, StoreAssumption DEF Holder
<1>6. StoreTypeOK' /\ waiter' \in Thread \cup {Nobody}
  <2>1. copies' \in [Slot -> Location \cup {NoLoc}]
    <3>1. \A s \in Slot : copies'[s] \in Location \cup {NoLoc}
      <4>. SUFFICES ASSUME NEW s \in Slot PROVE copies'[s] \in Location \cup {NoLoc}
        OBVIOUS
      <4>1. copies'[s] \in {NoLoc, Copy(t, s[2], s[3]), copies[s]}
        BY <1>1
      <4>2. Copy(t, s[2], s[3]) \in Location \cup {NoLoc}
        BY <1>5, SlotParts, CopyType DEF StoreInv
      <4>. QED BY <4>1, <4>2 DEF StoreInv, StoreTypeOK
    <3>2. copies' = [s \in Slot |-> copies'[s]]
      BY <1>1
    <3>. QED BY <3>1, <3>2
  <2>2. table' \subseteq File /\ src' \in [File -> Thread \cup {Nobody}]
    BY <1>1, <1>2 DEF StoreInv, StoreTypeOK
  <2>. QED BY <1>1, <1>3, <2>1, <2>2
           DEF StoreInv, StoreTypeOK, nodeVars, linkVars, dataVars, countVars,
               localVars, consoleVars
<1>7. Control'
  <2>1. t \in Storer => t # Console
    BY StoreAssumption
  <2>. QED BY <1>1, <1>2, <1>3, <2>1
           DEF StoreInv, StoreTypeOK, Control, Storing, Copying, Distributing, Thread,
               localVars, f
<1>8. Locked'
  <2>1. \A u \in Thread : pc[u] \in {"plan"} \cup Distributing => u = t
    BY <1>1 DEF StoreInv, Locked, Distributing
  <2>. QED BY <1>1, <1>3, <2>1 DEF StoreInv, StoreTypeOK, Locked, Distributing, countVars
<1>9. Drafts'
  <2>. SUFFICES ASSUME NEW u \in Thread, NEW i \in Index
                PROVE  /\ pc'[u] \notin Distributing =>
                            \A c \in {0, 1} : copies'[<<u, i, c>>] = NoLoc
                       /\ copies'[<<u, i, 0>>] = NoLoc => copies'[<<u, i, 1>>] = NoLoc
    BY DEF Drafts, Copy
  <2>1. CASE u = t
    BY <1>4, <1>5, <2>1
  <2>2. CASE u # t
    <3>1. \A c \in {0, 1} : copies'[<<u, i, c>>] = copies[<<u, i, c>>]
      BY <1>4, <1>5, <2>2
    <3>2. pc'[u] = pc[u]
      BY <1>3, <2>2 DEF StoreInv, StoreTypeOK
    <3>. QED BY <3>1, <3>2 DEF StoreInv, Drafts, Copy
  <2>. QED BY <2>1, <2>2
<1>10. Absent'
  <2>1. \A g \in File \ table' : g \notin table /\ ~(g = f /\ added)
    BY <1>1
  <2>. QED BY <1>4, <1>5, <2>1, AbsentFrame DEF StoreInv
<1>11. Targeted'
  <2>1. \A u \in Thread : pc'[u] = "alloc" => u # t /\ pc[u] = "alloc"
    BY <1>3 DEF StoreInv, StoreTypeOK
  <2>2. \A u \in Thread, i \in Index : u # t => copies'[<<u, i, 0>>] = copies[<<u, i, 0>>]
    BY <1>4, <1>5
  <2>. QED BY <1>1, <2>1, <2>2, TargetedFrame DEF localVars
<1>12. Dooming' /\ CpReady'
  <2>1. pc[Console] \in {"rm", "rmb"} \cup Copying => pc'[Console] = pc[Console]
    BY <1>1, <1>3 DEF StoreInv, StoreTypeOK, Thread, Copying
  <2>2. pc'[Console] \in {"rm", "rmb"} \cup Copying => pc[Console] = pc'[Console]
    BY <1>1, <1>3 DEF StoreInv, StoreTypeOK, Thread, Copying
  <2>3. table \subseteq table'
    BY <1>1
  <2>4. \A h \in table, i \in Index, c \in {0, 1} : copies'[<<h, i, c>>] = copies[<<h, i, c>>]
    BY <1>2, <1>4, <1>5 DEF StoreInv, StoreTypeOK
  <2>5. Dooming'
    <3>1. \A s \in doomed : s[1] \in table /\ copies[s] # NoLoc => copies'[s] # NoLoc
      <4>. SUFFICES ASSUME NEW s \in doomed, s[1] \in table
                    PROVE  copies'[s] = copies[s]
        OBVIOUS
      <4>1. s = <<s[1], s[2], s[3]>> /\ s[2] \in Index /\ s[3] \in {0, 1}
        BY SlotParts DEF StoreInv, StoreTypeOK
      <4>2. copies'[<<s[1], s[2], s[3]>>] = copies[<<s[1], s[2], s[3]>>]
        BY <2>4, <4>1
      <4>. QED BY <4>1, <4>2
    <3>. QED BY <1>1, <2>1, <2>2, <2>3, <3>1 DEF StoreInv, Dooming, consoleVars
  <2>6. CpReady'
    <3>. SUFFICES ASSUME pc'[Console] \in Copying PROVE CpReady'
      BY DEF CpReady
    <3>1. /\ cp \in [file : File, index : Index, from : Node \cup {NoNode},
                     half : {0, 1}, to : Location]
          /\ cp.file \in table
          /\ Copy(cp.file, cp.index, cp.half) = NoLoc
          /\ Copy(cp.file, cp.index, 1 - cp.half).node # cp.to.node
      BY <2>2 DEF StoreInv, CpReady
    <3>2. cp.index \in Index /\ cp.half \in {0, 1} /\ 1 - cp.half \in {0, 1}
      BY <3>1
    <3>3. /\ copies'[<<cp.file, cp.index, cp.half>>] = NoLoc
          /\ copies'[<<cp.file, cp.index, 1 - cp.half>>].node # cp.to.node
      BY <2>4, <3>1, <3>2 DEF Copy
    <3>4. cp' = cp /\ cp.file \in table'
      BY <1>1, <2>3, <3>1 DEF consoleVars
    <3>. QED BY <3>1, <3>3, <3>4 DEF CpReady, Copy
  <2>. QED BY <2>5, <2>6
<1>13. Apart'
  <2>. SUFFICES ASSUME NEW h \in Holder, NEW i \in Index,
                       copies'[<<h, i, 0>>] # NoLoc, copies'[<<h, i, 1>>] # NoLoc
                PROVE  copies'[<<h, i, 0>>].node # copies'[<<h, i, 1>>].node
    BY DEF Apart, Copy
  <2>1. \/ \A c \in {0, 1} : copies'[<<h, i, c>>] = copies[<<t, i, c>>]
        \/ \A c \in {0, 1} : copies'[<<h, i, c>>] = copies[<<h, i, c>>]
    BY <1>4
  <2>. QED BY <1>5, <2>1 DEF StoreInv, Apart, Copy
<1>. QED BY <1>6, <1>7, <1>8, <1>9, <1>10, <1>11, <1>12, <1>13 DEF StoreInv

\* RacingFree keeps StoreInv.
LEMMA RacingFreeKeeps ==
  ASSUME StoreInv, NEW t \in Storer, NEW s \in doomed, RacingFree(t, s)
  PROVE  StoreInv'
<1>. DEFINE n == target[t]
<1>. DEFINE cur == Current(t)
<1>. DEFINE c == Half(t)
<1>. DEFINE removing == pc[Console] = "rmb"
<1>1. PICK b \in Bit(n), l \in {NoLoc, copies[s]} :
        /\ copies' = [copies EXCEPT ![<<t, cur, c>>] = Loc(n, b), ![s] = l]
        /\ removing \/ l = copies[s]
  BY DEF RacingFree
<1>2. /\ pc[t] = "alloc" /\ pc[Console] \in {"rm", "rmb"} /\ t # Console
      /\ t \in Thread /\ t \in Holder /\ t \notin File /\ Console \in Thread
      /\ doomed' = doomed \ {s}
      /\ pc' = [pc EXCEPT ![t] = "deliver", ![Console] = IF removing THEN "idle" ELSE @]
      /\ UNCHANGED <<linkVars, dataVars, table, src, cpmut, countVars, path, localVars,
                     cp, inbox>>
  BY StoreAssumption DEF RacingFree, Thread, Holder
<1>3. /\ n \in Node /\ n # Copy(t, cur, 0).node /\ cur \in Index /\ c \in {0, 1}
  BY <1>2, CurrentInIndex DEF StoreInv, Targeted, Half, Distributing
<1>4. /\ s \in Slot /\ s[1] \in table /\ s[1] \in File /\ s[1] \in Holder /\ s[1] \notin Thread
      /\ s[1] # t /\ s = <<s[1], s[2], s[3]>> /\ s[2] \in Index /\ s[3] \in {0, 1}
  BY <1>2, StoreAssumption, SlotParts DEF StoreInv, StoreTypeOK, Dooming, Holder
<1>5. Loc(n, b) \in Location /\ Loc(n, b).node = n /\ Loc(n, b) # NoLoc
  BY <1>3, BitInt, LocFacts
<1>pcs. /\ pc'[t] = "deliver"
        /\ removing => pc'[Console] = "idle"
        /\ ~removing => pc'[Console] = pc[Console]
        /\ \A u \in Thread : u # t /\ u # Console => pc'[u] = pc[u]
  <2>. DEFINE label == IF removing THEN "idle" ELSE pc[Console]
  <2>1. /\ pc' = [pc EXCEPT ![t] = "deliver", ![Console] = label]
    BY <1>2
  <2>2. pc \in [Thread -> {pc[u] : u \in Thread}]
    BY DEF StoreInv, StoreTypeOK
  <2>3. (removing => label = "idle") /\ (~removing => label = pc[Console])
    OBVIOUS
  <2>. HIDE DEF label
  <2>. QED BY <1>2, <2>1, <2>2, <2>3
<1>6. copies' \in [Slot -> Location \cup {NoLoc}]
  BY <1>1, <1>5 DEF StoreInv, StoreTypeOK
<1>. HIDE DEF n, cur, c
<1>7. \A h \in Holder, i \in Index, d \in {0, 1} :
        copies'[<<h, i, d>>] = IF <<h, i, d>> = s THEN l
                               ELSE IF h = t /\ i = cur /\ d = c THEN Loc(n, b)
                               ELSE copies[<<h, i, d>>]
  BY <1>1, <1>4, SlotFacts DEF StoreInv, StoreTypeOK
<1>8. \A u \in Thread, i \in Index, d \in {0, 1} :
        copies'[<<u, i, d>>] = IF u = t /\ i = cur /\ d = c THEN Loc(n, b)
                               ELSE copies[<<u, i, d>>]
  <2>1. \A u \in Thread : u \in Holder /\ (\A i, d : <<u, i, d>> # s)
    BY <1>4 DEF Holder
  <2>. QED BY <1>7, <2>1
<1>9. \A f \in File, i \in Index, d \in {0, 1} :
        copies'[<<f, i, d>>] \in {NoLoc, copies[<<f, i, d>>]}
  <2>1. \A f \in File : f \in Holder /\ f # t
    BY <1>2 DEF Holder
  <2>2. l = NoLoc \/ l = copies[s]
    BY <1>1
  <2>. QED BY <1>7, <2>1, <2>2
<1>10. StoreTypeOK' /\ waiter' \in Thread \cup {Nobody}
  <2>1. bitmap' \in [Node -> SUBSET Int]
    <3>1. PICK a \in Bit(n) :
            \E B \in {bitmap[n] \cup {a}, bitmap[n] \ {copies[s].blockno},
                      (bitmap[n] \cup {a}) \ {copies[s].blockno}} :
              bitmap' = [bitmap EXCEPT ![n] = B]
      BY DEF RacingFree, n
    <3>2. bitmap[n] \in SUBSET Int /\ a \in Int
      BY <1>3, BitInt DEF StoreInv, StoreTypeOK
    <3>. QED BY <1>3, <3>1, <3>2 DEF StoreInv, StoreTypeOK
  <2>2. free' \in [Node -> Int] /\ libre' \in [Node -> Int]
    BY <1>3 DEF RacingFree, StoreInv, StoreTypeOK, n
  <2>. QED BY <1>2, <1>6, <2>1, <2>2
           DEF StoreInv, StoreTypeOK, linkVars, dataVars, countVars, localVars
<1>11. Control'
  BY <1>2, <1>pcs, StoreAssumption
     DEF Thread, StoreInv, StoreTypeOK, Control, Storing, Copying, Distributing, localVars
<1>12. Locked'
  BY <1>2 DEF StoreInv, StoreTypeOK, Locked, Distributing, countVars
<1>13. Drafts'
  <2>. SUFFICES ASSUME NEW u \in Thread, NEW i \in Index
                PROVE  /\ pc'[u] \notin Distributing =>
                            \A d \in {0, 1} : copies'[<<u, i, d>>] = NoLoc
                       /\ copies'[<<u, i, 0>>] = NoLoc => copies'[<<u, i, 1>>] = NoLoc
    BY DEF Drafts, Copy
  <2>1. pc'[u] \notin Distributing => u # t /\ pc[u] \notin Distributing
    BY <1>2 DEF StoreInv, StoreTypeOK, Distributing
  <2>2. c = 0 \/ (c = 1 /\ copies[<<t, cur, 0>>] # NoLoc)
    BY DEF c, Half, cur, Copy
  <2>. QED BY <1>5, <1>8, <2>1, <2>2 DEF StoreInv, Drafts, Copy
<1>14. Absent'
  BY <1>2, <1>9, AbsentFrame DEF StoreInv, Absent, Copy
<1>15. Targeted'
  <2>1. \A u \in Thread : pc'[u] = "alloc" => u # t /\ pc[u] = "alloc"
    BY <1>2 DEF StoreInv, StoreTypeOK
  <2>2. \A u \in Thread, i \in Index : u # t => copies'[<<u, i, 0>>] = copies[<<u, i, 0>>]
    BY <1>8
  <2>. QED BY <1>2, <2>1, <2>2, TargetedFrame DEF localVars
<1>16. Dooming'
  <2>1. CASE removing
    <3>1. doomed' = {} /\ pc'[Console] = "idle"
      BY <1>2, <1>pcs, <2>1 DEF StoreInv, Dooming
    <3>. QED BY <3>1 DEF Dooming
  <2>2. CASE ~removing
    <3>1. pc[Console] = "rm" /\ pc'[Console] = "rm" /\ l = copies[s]
      BY <1>1, <1>2, <1>pcs, <2>2
    <3>2. \A r \in doomed : copies[r] # NoLoc => copies'[r] # NoLoc
      BY <1>1, <1>4, <1>5, <3>1 DEF StoreInv, StoreTypeOK
    <3>. QED BY <1>2, <3>1, <3>2 DEF StoreInv, Dooming
  <2>. QED BY <2>1, <2>2
<1>17. CpReady'
  BY <1>2 DEF StoreInv, StoreTypeOK, CpReady, Copying
<1>18. Apart'
  <2>. SUFFICES ASSUME NEW h \in Holder, NEW i \in Index,
                       copies'[<<h, i, 0>>] # NoLoc, copies'[<<h, i, 1>>] # NoLoc
                PROVE  copies'[<<h, i, 0>>].node # copies'[<<h, i, 1>>].node
    BY DEF Apart, Copy
  <2>1. CASE h = t /\ i = cur
    <3>1. CASE c = 0
      BY <1>2, <1>8, <2>1, <3>1 DEF StoreInv, Drafts, c, Half, cur, Copy
    <3>2. CASE c = 1
      BY <1>2, <1>3, <1>5, <1>8, <2>1, <3>2 DEF Copy
    <3>. QED BY <1>3, <3>1, <3>2
  <2>2. CASE h \in Thread /\ ~(h = t /\ i = cur)
    BY <1>8, <2>2 DEF StoreInv, Apart, Copy
  <2>3. CASE h \in File
    BY <1>9, <2>3 DEF StoreInv, Apart, Copy, Holder
  <2>. QED BY <2>1, <2>2, <2>3 DEF Holder
<1>. QED BY <1>10, <1>11, <1>12, <1>13, <1>14, <1>15, <1>16, <1>17, <1>18 DEF StoreInv
-----------------------------------------------------------------------------
(* The theorems.                                                           *)

\* The initial state satisfies StoreInv.
LEMMA InitStoreInv == Init => StoreInv
<1>. SUFFICES ASSUME Init PROVE StoreInv
  OBVIOUS
<1>1. StoreTypeOK
  BY StoreAssumption DEF Init, StoreTypeOK, Location, NoLoc
<1>2. \A t \in Thread : pc[t] = IF t = Console THEN "idle" ELSE "new"
  BY DEF Init
<1>3. Control /\ Locked
  BY <1>2, StoreAssumption DEF Init, Control, Locked, Storing, Distributing, Copying, Thread
<1>4. \A h \in Holder, i \in Index, c \in {0, 1} : Copy(h, i, c) = NoLoc
  BY SlotFacts DEF Init, Copy
<1>5. Drafts /\ Absent /\ Apart
  BY <1>4 DEF Drafts, Absent, Apart, Holder
<1>6. Targeted
  BY <1>2 DEF Targeted
<1>7. Dooming /\ CpReady
  BY <1>2 DEF Init, Dooming, CpReady, Copying, Thread
<1>. QED BY <1>1, <1>3, <1>5, <1>6, <1>7 DEF Init, StoreInv

\* A stuttering step keeps StoreInv.
LEMMA StutterStoreInv == StoreInv /\ UNCHANGED vars => StoreInv'
<1>. SUFFICES ASSUME StoreInv, UNCHANGED vars PROVE StoreInv'
  OBVIOUS
<1>. USE DEF vars, nodeVars, linkVars, dataVars, tableVars, countVars, localVars,
             consoleVars
<1>1. StoreTypeOK' /\ waiter' \in Thread \cup {Nobody}
  BY DEF StoreInv, StoreTypeOK
<1>2. Control' /\ Locked' /\ Dooming' /\ CpReady'
  BY DEF StoreInv, Control, Locked, Dooming, CpReady, Copy
<1>3. Drafts' /\ Absent' /\ Targeted' /\ Apart'
  BY CopiesFrame
<1>. QED BY <1>1, <1>2, <1>3 DEF StoreInv

\* filetable_cpfrom, whoever runs it, keeps StoreInv.
LEMMA CpfromKeeps ==
  ASSUME StoreInv, NEW t \in Thread, Cpfrom(t)
  PROVE  StoreInv'
  BY LockKeeps, PlanKeeps, AbortKeeps, BalanceKeeps, FullKeeps, AllocKeeps, DeliverKeeps, FinishKeeps
     DEF Cpfrom

\* Every step of the store keeps StoreInv.
LEMMA NextStoreInv == StoreInv /\ Next => StoreInv'
<1>. SUFFICES ASSUME StoreInv, Next PROVE StoreInv'
  OBVIOUS
<1>1. CASE \E t \in Storer : StorerStep(t)
  BY <1>1, RequestKeeps, WriteLocalKeeps, CpfromKeeps, ReplyKeeps
     DEF StorerStep, Thread
<1>2. CASE Operator
  BY <1>2, CmdCpfromKeeps, CmdRmKeeps, CmdRmBlockKeeps, CmdCpblockKeeps DEF Operator
<1>3. CASE ConsoleStep
  BY <1>3, CpfromKeeps, RmCopyKeeps, RmBlockKeeps, RmEndKeeps, CpAskKeeps, CpReceiveKeeps,
     CpPutKeeps DEF ConsoleStep, Thread
<1>4. CASE Race
  BY <1>4, RacingFreeKeeps DEF Race
<1>5. CASE \E n \in Node : Handler(n) \/ Write(n) \/ Drop(n) \/ Reconnect(n)
  BY <1>5, NetworkKeeps DEF Handler
<1>. QED BY <1>1, <1>2, <1>3, <1>4, <1>5 DEF Next

\* StoreInv holds in every state, whatever the operator types.
THEOREM StoreInvariant == Spec => []StoreInv
<1>1. Init => StoreInv
  BY InitStoreInv
<1>2. StoreInv /\ [Next]_vars => StoreInv'
  BY NextStoreInv, StutterStoreInv
<1>. QED BY <1>1, <1>2, PTL DEF Spec

\* The types of the store's tables (nodelist.c, filetable.c).
THEOREM StoreTypes == Spec => []StoreTypeOK
<1>1. StoreInv => StoreTypeOK
  BY DEF StoreInv
<1>. QED BY <1>1, StoreInvariant, PTL

\* The two copies of a block are never on one node: what balance_node's choice
\* and cmd_cpblock's check are for, through every interleaving of the threads.
THEOREM MirrorsStayApart == Spec => []MirrorsApart
<1>1. StoreInv => MirrorsApart
  <2>. SUFFICES ASSUME StoreInv, NEW s \in Live,
                       Copy(s[1], s[2], 1 - s[3]) # NoLoc
                PROVE  Copy(s[1], s[2], 1 - s[3]).node # copies[s].node
    BY DEF MirrorsApart
  <2>1. s \in Slot /\ copies[s] # NoLoc
    BY DEF Live
  <2>2. /\ s[1] \in Holder /\ s[2] \in Index /\ s[3] \in {0, 1}
        /\ Copy(s[1], s[2], s[3]) = copies[s]
    BY <2>1, SlotParts
  <2>. QED BY <2>1, <2>2 DEF StoreInv, Apart
<1>. QED BY <1>1, StoreInvariant, PTL

\* The counter of sent blocks and the thread it wakes belong to the thread that
\* distributes a file: cpmut lets no other store in (filetable.c).
THEOREM WaiterOwnsTheCounter == Spec => []WaiterIsOwner
<1>1. StoreInv => WaiterIsOwner
  BY DEF StoreInv, Locked, WaiterIsOwner, Distributing
<1>. QED BY <1>1, StoreInvariant, PTL
-----------------------------------------------------------------------------
(* SpaceInv: the bitmaps, the counters of free blocks and the copies agree. *)
(* The bitmap changes in Alloc and CpPut, which add a live copy, and in      *)
(* RmCopy and RmBlock, which take one away; Finish and RmEnd move and forget *)
(* copies; every other step leaves the blocks alone (QuietStep).             *)

\* The definition of Live, spelled out.
LEMMA LiveFacts ==
  ASSUME NEW s
  PROVE  s \in Live <=>
           /\ s \in Slot /\ copies[s] # NoLoc
           /\ ~(pc[Console] = "rm" /\ s[1] = path[Console] /\ s \notin doomed)
  BY DEF Live, Released

\* A location is its node and its block number.
LEMMA LocEqual ==
  ASSUME NEW l \in Location, NEW m \in Location, l.node = m.node, l.blockno = m.blockno
  PROVE  l = m
  BY DEF Location

\* A live copy has a location on a node.
LEMMA LiveLocation ==
  ASSUME StoreInv, NEW s \in Live
  PROVE  /\ s \in Slot /\ copies[s] \in Location
         /\ copies[s].node \in Node /\ copies[s].blockno \in Int
<1>1. s \in Slot /\ copies[s] \in Location
  BY LiveFacts DEF StoreInv, StoreTypeOK
<1>. QED BY <1>1, LocFacts

\* The bitmap of a node is a finite set no larger than the node.
LEMMA BitmapFinite ==
  ASSUME InRange, NEW n \in Node
  PROVE  /\ IsFiniteSet(bitmap[n]) /\ Cardinality(bitmap[n]) \in Nat
         /\ Total[n] \in Nat \ {0}
<1>1. Total[n] \in Nat \ {0}
  BY StoreAssumption
<1>2. IsFiniteSet(0 .. Total[n] - 1)
  BY <1>1, FS_Interval
<1>3. bitmap[n] \subseteq 0 .. Total[n] - 1
  BY DEF InRange
<1>4. IsFiniteSet(bitmap[n])
  BY <1>2, <1>3, FS_Subset
<1>. QED BY <1>1, <1>4, FS_CardinalityType

\* If the counter of a node is not zero, bitmap_firstzero finds a free block.
LEMMA FirstZeroFree ==
  ASSUME InRange, FreeIsComplement, NEW n \in Node, free[n] # 0,
         NEW b \in Bit(n), FirstZero(n, b)
  PROVE  b \in (0 .. Total[n] - 1) \ bitmap[n]
<1>1. Total[n] \in Nat \ {0} /\ bitmap[n] \subseteq 0 .. Total[n] - 1
  BY StoreAssumption DEF InRange
<1>2. Cardinality(0 .. Total[n] - 1) = Total[n]
  BY <1>1, FS_Interval
<1>3. (0 .. Total[n] - 1) \ bitmap[n] # {}
  <2>. SUFFICES ASSUME (0 .. Total[n] - 1) \ bitmap[n] = {} PROVE FALSE
    OBVIOUS
  <2>1. bitmap[n] = 0 .. Total[n] - 1
    BY <1>1
  <2>2. free[n] = Total[n] - Cardinality(bitmap[n])
    BY DEF FreeIsComplement
  <2>. QED BY <1>1, <1>2, <2>1, <2>2
<1>. QED BY <1>3 DEF FirstZero

\* Marking a free block and decrementing the counter agree.
LEMMA MarkCounts ==
  ASSUME StoreInv, InRange, FreeIsComplement, NEW l \in Location, Mark(l),
         l.blockno \in (0 .. Total[l.node] - 1) \ bitmap[l.node]
  PROVE  /\ InRange' /\ FreeIsComplement'
         /\ \A n \in Node : bitmap'[n] = IF n = l.node THEN bitmap[n] \cup {l.blockno}
                                                       ELSE bitmap[n]
<1>1. l.node \in Node
  BY LocFacts
<1>2. /\ \A n \in Node : bitmap'[n] = IF n = l.node THEN bitmap[n] \cup {l.blockno}
                                                    ELSE bitmap[n]
      /\ \A n \in Node : free'[n] = IF n = l.node THEN free[n] - 1 ELSE free[n]
  BY <1>1 DEF Mark, StoreInv, StoreTypeOK
<1>3. InRange'
  <2>1. \A n \in Node : bitmap[n] \subseteq 0 .. Total[n] - 1
    BY DEF InRange
  <2>. SUFFICES ASSUME NEW n \in Node PROVE bitmap'[n] \subseteq 0 .. Total[n] - 1
    BY DEF InRange
  <2>2. CASE n = l.node
    <3>1. l.blockno \in 0 .. Total[n] - 1
      BY <2>2
    <3>2. bitmap'[n] = bitmap[n] \cup {l.blockno}
      BY <1>2, <2>2
    <3>. QED BY <2>1, <3>1, <3>2
  <2>3. CASE n # l.node
    BY <1>2, <2>1, <2>3
  <2>. QED BY <2>2, <2>3
<1>4. \A n \in Node : n = l.node => Cardinality(bitmap'[n]) = Cardinality(bitmap[n]) + 1
  <2>1. Cardinality(bitmap[l.node] \cup {l.blockno}) = Cardinality(bitmap[l.node]) + 1
    BY <1>1, BitmapFinite, FS_AddElement
  <2>. QED BY <1>1, <1>2, <2>1
<1>5. FreeIsComplement'
  <2>. SUFFICES ASSUME NEW n \in Node
                PROVE  free'[n] = Total[n] - Cardinality(bitmap'[n])
    BY DEF FreeIsComplement
  <2>1. free[n] = Total[n] - Cardinality(bitmap[n])
    BY DEF FreeIsComplement
  <2>2. Cardinality(bitmap[n]) \in Nat /\ Total[n] \in Nat
    BY BitmapFinite
  <2>3. CASE n = l.node
    BY <1>2, <1>4, <2>1, <2>2, <2>3
  <2>4. CASE n # l.node
    BY <1>2, <2>1, <2>4
  <2>. QED BY <2>3, <2>4
<1>. QED BY <1>2, <1>3, <1>5

\* Unmarking a marked block and incrementing the counter agree.
LEMMA UnmarkCounts ==
  ASSUME StoreInv, InRange, FreeIsComplement, NEW l \in Location, Unmark(l),
         l.blockno \in bitmap[l.node]
  PROVE  /\ InRange' /\ FreeIsComplement'
         /\ \A n \in Node : bitmap'[n] = IF n = l.node THEN bitmap[n] \ {l.blockno}
                                                       ELSE bitmap[n]
<1>1. l.node \in Node
  BY LocFacts
<1>2. /\ \A n \in Node : bitmap'[n] = IF n = l.node THEN bitmap[n] \ {l.blockno}
                                                    ELSE bitmap[n]
      /\ \A n \in Node : free'[n] = IF n = l.node THEN free[n] + 1 ELSE free[n]
  BY <1>1 DEF Unmark, StoreInv, StoreTypeOK
<1>3. InRange'
  BY <1>2 DEF InRange
<1>4. \A n \in Node : n = l.node => Cardinality(bitmap'[n]) = Cardinality(bitmap[n]) - 1
  <2>1. Cardinality(bitmap[l.node] \ {l.blockno}) = Cardinality(bitmap[l.node]) - 1
    BY <1>1, BitmapFinite, FS_RemoveElement
  <2>. QED BY <1>1, <1>2, <2>1
<1>5. FreeIsComplement'
  <2>. SUFFICES ASSUME NEW n \in Node
                PROVE  free'[n] = Total[n] - Cardinality(bitmap'[n])
    BY DEF FreeIsComplement
  <2>1. free[n] = Total[n] - Cardinality(bitmap[n])
    BY DEF FreeIsComplement
  <2>2. Cardinality(bitmap[n]) \in Nat /\ Total[n] \in Nat
    BY BitmapFinite
  <2>3. CASE n = l.node
    BY <1>2, <1>4, <2>1, <2>2, <2>3
  <2>4. CASE n # l.node
    BY <1>2, <2>1, <2>4
  <2>. QED BY <2>3, <2>4
<1>. QED BY <1>2, <1>3, <1>5

\* The blocks of Live' are those of Live, one to one, or fewer.
LEMMA FewerLive ==
  ASSUME SpaceInv, UNCHANGED <<bitmap, free>>, Quiet', CpFree',
         Live' \subseteq Live, \A s \in Live' : copies'[s] = copies[s]
  PROVE  SpaceInv'
<1>1. InRange' /\ FreeIsComplement'
  BY DEF SpaceInv, InRange, FreeIsComplement
<1>2. BlocksMarked' /\ NoSharing'
  BY DEF SpaceInv, BlocksMarked, NoSharing
<1>. QED BY <1>1, <1>2 DEF SpaceInv

\* A block that was free and is marked becomes live as the copy in slot s.
LEMMA OneMoreLive ==
  ASSUME StoreInv, SpaceInv, Quiet', CpFree',
         NEW l \in Location, Mark(l),
         l.blockno \in (0 .. Total[l.node] - 1) \ bitmap[l.node],
         NEW s, copies'[s] = l,
         \A r \in Live' : r = s \/ (r \in Live /\ copies'[r] = copies[r])
  PROVE  SpaceInv'
<1>1. /\ InRange' /\ FreeIsComplement'
      /\ \A n \in Node : bitmap'[n] = IF n = l.node THEN bitmap[n] \cup {l.blockno}
                                                    ELSE bitmap[n]
  BY MarkCounts DEF SpaceInv
<1>2. \A r \in Live : copies[r].node \in Node /\ copies[r].blockno \in bitmap[copies[r].node]
  BY LiveLocation DEF SpaceInv, BlocksMarked
<1>3. l.node \in Node
  BY LocFacts
<1>4. BlocksMarked'
  BY <1>1, <1>2, <1>3 DEF BlocksMarked
<1>5. NoSharing'
  BY <1>2 DEF SpaceInv, NoSharing
<1>. QED BY <1>1, <1>4, <1>5 DEF SpaceInv

\* The copy in slot s is live no more, and its block is unmarked.
LEMMA OneLessLive ==
  ASSUME StoreInv, SpaceInv, Quiet', CpFree',
         NEW s \in Live, Unmark(copies[s]),
         \A r \in Live' : r # s /\ r \in Live /\ copies'[r] = copies[r]
  PROVE  SpaceInv'
<1>. DEFINE l == copies[s]
<1>1. l \in Location /\ l.node \in Node /\ l.blockno \in bitmap[l.node]
  BY LiveLocation DEF SpaceInv, BlocksMarked
<1>2. /\ InRange' /\ FreeIsComplement'
      /\ \A n \in Node : bitmap'[n] = IF n = l.node THEN bitmap[n] \ {l.blockno}
                                                    ELSE bitmap[n]
  BY <1>1, UnmarkCounts DEF SpaceInv
<1>3. NoSharing'
  BY DEF SpaceInv, NoSharing
<1>4. BlocksMarked'
  <2>. SUFFICES ASSUME NEW r \in Live'
                PROVE  copies'[r].blockno \in bitmap'[copies'[r].node]
    BY DEF BlocksMarked
  <2>1. r # s /\ r \in Live /\ copies'[r] = copies[r]
    OBVIOUS
  <2>2. copies[r] \in Location /\ copies[r].node \in Node /\ copies[r] # l
    BY <2>1, LiveLocation DEF SpaceInv, NoSharing
  <2>3. copies[r].node # l.node \/ copies[r].blockno # l.blockno
    BY <1>1, <2>2, LocEqual
  <2>4. copies[r].blockno \in bitmap[copies[r].node]
    BY <2>1 DEF SpaceInv, BlocksMarked
  <2>. QED BY <1>2, <2>1, <2>2, <2>3, <2>4
<1>. QED BY <1>2, <1>3, <1>4 DEF SpaceInv

\* Steps that change no block: the console goes on with what it was doing, or
\* goes into or out of filetable_cpfrom.
LEMMA QuietStep ==
  ASSUME StoreInv, SpaceInv, UNCHANGED <<bitmap, free, copies, doomed, cp>>,
         \/ pc'[Console] = pc[Console] /\ path'[Console] = path[Console]
         \/ /\ pc[Console] \notin {"rm", "rmb"}
            /\ pc'[Console] \in Storing \cup {"idle"}
         \/ pc[Console] \in Copying /\ pc'[Console] \in Copying
  PROVE  SpaceInv'
<1>1. Quiet'
  BY DEF StoreInv, Dooming, SpaceInv, Quiet, Copying, Storing, Distributing
<1>2. CpFree'
  BY DEF SpaceInv, CpFree, Copying, Storing, Distributing
<1>3. Live' = Live
  BY DEF Live, Released, Copying, Storing, Distributing
<1>. QED BY <1>1, <1>2, <1>3, FewerLive

\* Alloc keeps SpaceInv.
LEMMA AllocSpace ==
  ASSUME Discipline, StoreInv, SpaceInv, NEW t \in Thread, Alloc(t)
  PROVE  SpaceInv'
<1>. DEFINE n == target[t]
<1>. DEFINE cur == Current(t)
<1>. DEFINE c == Half(t)
<1>1. /\ pc[t] = "alloc" /\ n \in Node /\ path[t] \in File /\ cur \in Index /\ c \in {0, 1}
      /\ free[n] # 0
  BY CurrentInIndex
     DEF StoreInv, Alloc, Targeted, Control, Storing, Distributing, Half
<1>2. PICK b \in Bit(n) :
        /\ FirstZero(n, b) /\ Mark(Loc(n, b))
        /\ copies' = [copies EXCEPT ![<<t, cur, c>>] = Loc(n, b)]
  BY DEF Alloc
<1>3. /\ pc' = [pc EXCEPT ![t] = "deliver"] /\ UNCHANGED <<path, doomed, cp>>
  BY DEF Alloc, Goto, consoleVars
<1>. HIDE DEF n, cur, c
<1>4. b \in (0 .. Total[n] - 1) \ bitmap[n]
  BY <1>1, <1>2, FirstZeroFree DEF SpaceInv
<1>5. Loc(n, b) \in Location /\ Loc(n, b).node = n /\ Loc(n, b).blockno = b
  BY <1>1, <1>2, BitInt, LocFacts
<1>6. <<t, cur, c>> \in Slot
  BY <1>1, SlotFacts DEF Holder
<1>7. pc[Console] \notin {"rm"} \cup Copying /\ pc'[Console] \notin {"rm"} \cup Copying
  BY <1>1, <1>3 DEF StoreInv, StoreTypeOK, SpaceInv, Quiet, Storing, Distributing,
                    Copying, Thread
<1>8. Quiet'
  BY <1>1, <1>3 DEF StoreInv, StoreTypeOK, SpaceInv, Quiet, Storing, Distributing, Thread
<1>9. CpFree'
  BY <1>7 DEF CpFree
<1>10. copies'[<<t, cur, c>>] = Loc(n, b)
  BY <1>2, <1>6 DEF StoreInv, StoreTypeOK
<1>11. \A r \in Live' : r = <<t, cur, c>> \/ (r \in Live /\ copies'[r] = copies[r])
  <2>1. \A r \in Slot : r # <<t, cur, c>> => copies'[r] = copies[r]
    BY <1>2 DEF StoreInv, StoreTypeOK
  <2>. QED BY <1>7, <2>1 DEF Live, Released
<1>. QED BY <1>2, <1>4, <1>5, <1>8, <1>9, <1>10, <1>11, OneMoreLive

\* Finish keeps SpaceInv.
LEMMA FinishSpace ==
  ASSUME Discipline, StoreInv, SpaceInv, NEW t \in Thread, Finish(t)
  PROVE  SpaceInv'
<1>. DEFINE f == path[t]
<1>. DEFINE added == Added(t)
<1>1. /\ pc[t] = "send" /\ Return(t)
      /\ copies' = [s \in Slot |->
                      CASE s[1] = t -> NoLoc
                        [] s[1] = f /\ added -> Copy(t, s[2], s[3])
                        [] OTHER -> copies[s]]
      /\ UNCHANGED <<bitmap, free, path, doomed, cp>>
  BY DEF Finish, nodeVars, consoleVars
<1>2. /\ f \in File /\ f \notin Thread /\ (added => f \notin table) /\ added \in BOOLEAN
  BY <1>1, StoreAssumption DEF StoreInv, Control, Storing, Distributing, Added, Success
<1>3. PICK l \in {"idle", "reply"} :
        /\ pc' = [pc EXCEPT ![t] = l]
        /\ (l = "idle" => t = Console) /\ (l = "reply" => t # Console)
  BY <1>1 DEF Return, Goto
<1>. HIDE DEF f, added
<1>4. pc[Console] \notin {"rm"} \cup Copying /\ pc'[Console] \notin {"rm"} \cup Copying
  BY <1>1, <1>3 DEF StoreInv, StoreTypeOK, SpaceInv, Quiet, Storing, Distributing,
                    Copying, Thread
<1>5. Quiet'
  BY <1>1, <1>3 DEF StoreInv, StoreTypeOK, SpaceInv, Quiet, Storing, Distributing, Thread
<1>6. CpFree'
  BY <1>4 DEF CpFree
<1>7. InRange' /\ FreeIsComplement'
  BY <1>1 DEF SpaceInv, InRange, FreeIsComplement
\* Every copy that is live after the step was live before it, in the slot it
\* had in t's t_yfile or in the one it still has.
<1>. DEFINE old(s) == IF s[1] = f /\ added THEN <<t, s[2], s[3]>> ELSE s
<1>8. \A s \in Live' : old(s) \in Live /\ copies'[s] = copies[old(s)] /\ s[1] # t
  <2>. SUFFICES ASSUME NEW s \in Live'
                PROVE  old(s) \in Live /\ copies'[s] = copies[old(s)] /\ s[1] # t
    OBVIOUS
  <2>1. s \in Slot /\ copies'[s] # NoLoc
    BY DEF Live
  <2>2. s[1] # t
    BY <1>1, <1>2, <2>1
  <2>3. CASE s[1] = f /\ added
    <3>1. copies'[s] = copies[<<t, s[2], s[3]>>]
      BY <1>1, <2>1, <2>2, <2>3 DEF Copy
    <3>2. <<t, s[2], s[3]>> \in Slot
      BY <2>1, SlotParts, SlotFacts DEF Holder
    <3>. QED BY <1>4, <2>1, <2>2, <2>3, <3>1, <3>2 DEF Live, Released
  <2>4. CASE ~(s[1] = f /\ added)
    <3>1. copies'[s] = copies[s]
      BY <1>1, <1>2, <2>1, <2>2, <2>4
    <3>. QED BY <1>4, <2>1, <2>2, <2>4, <3>1 DEF Live, Released
  <2>. QED BY <2>3, <2>4
<1>9. \A s, r \in Live' : s # r => old(s) # old(r)
  <2>. SUFFICES ASSUME NEW s \in Live', NEW r \in Live', old(s) = old(r) PROVE s = r
    OBVIOUS
  <2>1. /\ s = <<s[1], s[2], s[3]>> /\ r = <<r[1], r[2], r[3]>>
        /\ s[1] # t /\ r[1] # t
    BY <1>8, SlotParts DEF Live
  <2>2. CASE s[1] = f /\ added /\ r[1] = f
    <3>1. <<t, s[2], s[3]>> = <<t, r[2], r[3]>>
      BY <2>2
    <3>. QED BY <2>1, <2>2, <3>1
  <2>3. CASE s[1] = f /\ added /\ r[1] # f
    <3>1. <<t, s[2], s[3]>> = r
      BY <2>3
    <3>. QED BY <2>1, <3>1
  <2>4. CASE r[1] = f /\ added /\ s[1] # f
    <3>1. <<t, r[2], r[3]>> = s
      BY <2>4
    <3>. QED BY <2>1, <3>1
  <2>5. CASE ~added \/ (s[1] # f /\ r[1] # f)
    BY <2>5
  <2>. QED BY <2>2, <2>3, <2>4, <2>5
<1>. HIDE DEF old
<1>10. BlocksMarked' /\ NoSharing'
  BY <1>1, <1>8, <1>9 DEF SpaceInv, BlocksMarked, NoSharing
<1>. QED BY <1>5, <1>6, <1>7, <1>10 DEF SpaceInv

\* CmdRm keeps SpaceInv.
LEMMA CmdRmSpace ==
  ASSUME Discipline, StoreInv, SpaceInv, NEW f \in File, CmdRm(f)
  PROVE  SpaceInv'
<1>1. /\ pc[Console] = "idle" /\ pc' = [pc EXCEPT ![Console] = "rm"] /\ Console \in Thread
      /\ path' = [path EXCEPT ![Console] = f] /\ "rm" \in ConsoleOps
      /\ doomed' = {s \in Slot : s[1] = f /\ copies[s] # NoLoc}
      /\ UNCHANGED <<bitmap, free, copies>>
  BY DEF CmdRm, Command, Goto, Thread, nodeVars, tableVars
<1>2. pc'[Console] = "rm" /\ path'[Console] = f
  BY <1>1 DEF StoreInv, StoreTypeOK
<1>3. Quiet'
  BY <1>1 DEF Discipline, Quiet
<1>4. CpFree'
  BY <1>2 DEF CpFree, Copying
<1>5. Live' \subseteq Live
  BY <1>1 DEF Live, Released
<1>. QED BY <1>1, <1>3, <1>4, <1>5, FewerLive DEF Live

\* RmCopy keeps SpaceInv.
LEMMA RmCopySpace ==
  ASSUME Discipline, StoreInv, SpaceInv, NEW s \in doomed, RmCopy(s)
  PROVE  SpaceInv'
<1>1. /\ pc[Console] = "rm" /\ doomed' = doomed \ {s} /\ Unmark(copies[s])
      /\ UNCHANGED <<copies, pc, path>>
  BY DEF RmCopy, tableVars
<1>2. s \in Live /\ s[1] = path[Console]
  BY <1>1 DEF StoreInv, StoreTypeOK, Dooming, Live, Released
<1>3. Quiet'
  BY <1>1 DEF SpaceInv, Quiet, Storing, Distributing
<1>4. CpFree'
  BY <1>1 DEF CpFree, Copying
<1>5. \A r \in Live' : r # s /\ r \in Live /\ copies'[r] = copies[r]
  BY <1>1, <1>2 DEF Live, Released
<1>. QED BY <1>1, <1>2, <1>3, <1>4, <1>5, OneLessLive

\* RmEnd keeps SpaceInv.
LEMMA RmEndSpace ==
  ASSUME Discipline, StoreInv, SpaceInv, RmEnd
  PROVE  SpaceInv'
<1>. DEFINE f == path[Console]
<1>1. /\ pc[Console] = "rm" /\ pc' = [pc EXCEPT ![Console] = "idle"] /\ doomed = {}
      /\ copies' = [s \in Slot |-> IF s[1] = f THEN NoLoc ELSE copies[s]]
      /\ Console \in Thread
      /\ UNCHANGED <<bitmap, free, path, doomed, cp>>
  BY DEF RmEnd, Goto, nodeVars, consoleVars, Thread
<1>2. pc'[Console] = "idle"
  BY <1>1 DEF StoreInv, StoreTypeOK
<1>3. Quiet' /\ CpFree'
  BY <1>1, <1>2 DEF Quiet, CpFree, Copying
<1>4. \A s \in Live' : s \in Live /\ copies'[s] = copies[s]
  BY <1>1 DEF Live, Released
<1>. QED BY <1>1, <1>3, <1>4, FewerLive

\* CmdRmBlock keeps SpaceInv.
LEMMA CmdRmBlockSpace ==
  ASSUME Discipline, StoreInv, SpaceInv, NEW s \in File \X Index \X {0, 1}, CmdRmBlock(s)
  PROVE  SpaceInv'
<1>1. /\ pc[Console] = "idle" /\ pc' = [pc EXCEPT ![Console] = "rmb"] /\ Console \in Thread
      /\ "rmblock" \in ConsoleOps
      /\ UNCHANGED <<bitmap, free, copies, path>>
  BY DEF CmdRmBlock, Command, Goto, Thread, nodeVars, tableVars
<1>2. pc'[Console] = "rmb"
  BY <1>1 DEF StoreInv, StoreTypeOK
<1>3. Quiet'
  BY <1>1 DEF Discipline, Quiet
<1>4. CpFree'
  BY <1>2 DEF CpFree, Copying
<1>5. Live' \subseteq Live
  BY <1>1, <1>2 DEF Live, Released
<1>. QED BY <1>1, <1>3, <1>4, <1>5, FewerLive

\* RmBlock keeps SpaceInv.
LEMMA RmBlockSpace ==
  ASSUME Discipline, StoreInv, SpaceInv, NEW s \in doomed, RmBlock(s)
  PROVE  SpaceInv'
<1>1. /\ pc[Console] = "rmb" /\ pc' = [pc EXCEPT ![Console] = "idle"]
      /\ doomed' = {} /\ Unmark(copies[s]) /\ copies' = [copies EXCEPT ![s] = NoLoc]
      /\ Console \in Thread
  BY DEF RmBlock, Goto, Thread
<1>2. s \in Live
  BY <1>1 DEF StoreInv, StoreTypeOK, Dooming, Live, Released
<1>3. pc'[Console] = "idle"
  BY <1>1 DEF StoreInv, StoreTypeOK
<1>4. Quiet' /\ CpFree'
  BY <1>1, <1>3 DEF Quiet, CpFree, Copying
<1>5. \A r \in Live' : r # s /\ r \in Live /\ copies'[r] = copies[r]
  <2>1. copies'[s] = NoLoc /\ \A r \in Slot : r # s => copies'[r] = copies[r]
    BY <1>1, <1>2 DEF StoreInv, StoreTypeOK, Live
  <2>. QED BY <1>1, <2>1 DEF Live, Released
<1>. QED BY <1>1, <1>2, <1>4, <1>5, OneLessLive

\* CmdCpblock keeps SpaceInv.
LEMMA CmdCpblockSpace ==
  ASSUME Discipline, StoreInv, SpaceInv,
         NEW f \in File, NEW i \in Index, NEW n \in Node, CmdCpblock(f, i, n)
  PROVE  SpaceInv'
<1>1. /\ pc[Console] = "idle" /\ "cpblock" \in ConsoleOps /\ Console \in Thread
      /\ UNCHANGED <<bitmap, free, copies, path, doomed>>
  BY DEF CmdCpblock, Command, nodeVars, tableVars, Thread
<1>2. PICK b \in 0 .. Total[n] - 1 :
        /\ FirstZero(n, b)
        /\ \/ UNCHANGED <<cp, pc>>
           \/ cp'.to = Loc(n, b) /\ pc' = [pc EXCEPT ![Console] = "cpask"]
  BY DEF CmdCpblock, Goto
<1>3. b \in Int /\ b \in (0 .. Total[n] - 1) \ bitmap[n]
  BY <1>2, StoreAssumption DEF FirstZero
<1>4. CASE UNCHANGED <<cp, pc>>
  BY <1>1, <1>4, QuietStep
<1>5. CASE cp'.to = Loc(n, b) /\ pc' = [pc EXCEPT ![Console] = "cpask"]
  <2>1. pc'[Console] = "cpask"
    BY <1>1, <1>5 DEF StoreInv, StoreTypeOK
  <2>2. Quiet'
    BY <1>1 DEF Discipline, Quiet
  <2>3. CpFree'
    BY <1>1, <1>3, <1>5, LocFacts DEF CpFree
  <2>4. Live' \subseteq Live
    BY <1>1, <2>1 DEF Live, Released
  <2>. QED BY <1>1, <2>2, <2>3, <2>4, FewerLive
<1>. QED BY <1>2, <1>4, <1>5

\* CpPut keeps SpaceInv.
LEMMA CpPutSpace ==
  ASSUME Discipline, StoreInv, SpaceInv, CpPut
  PROVE  SpaceInv'
<1>. DEFINE s == <<cp.file, cp.index, cp.half>>
<1>1. /\ pc[Console] = "cpput" /\ pc' = [pc EXCEPT ![Console] = "idle"] /\ Console \in Thread
      /\ copies' = [copies EXCEPT ![s] = cp.to] /\ Mark(cp.to)
      /\ UNCHANGED <<path, doomed>>
  BY DEF CpPut, Goto, Thread
<1>2. s \in Slot /\ cp.to \in Location
  BY <1>1, SlotFacts DEF StoreInv, CpReady, Copying, Holder
<1>3. cp.to.blockno \in (0 .. Total[cp.to.node] - 1) \ bitmap[cp.to.node]
  BY <1>1 DEF SpaceInv, CpFree, Copying
<1>4. pc'[Console] = "idle" /\ doomed = {}
  BY <1>1 DEF StoreInv, StoreTypeOK, Dooming
<1>5. Quiet' /\ CpFree'
  BY <1>1, <1>4 DEF Quiet, CpFree, Copying
<1>. HIDE DEF s
<1>6. copies'[s] = cp.to /\ \A r \in Slot : r # s => copies'[r] = copies[r]
  BY <1>1, <1>2 DEF StoreInv, StoreTypeOK
<1>7. \A r \in Live' : r = s \/ (r \in Live /\ copies'[r] = copies[r])
  BY <1>1, <1>6 DEF Live, Released
<1>. QED BY <1>1, <1>2, <1>3, <1>5, <1>6, <1>7, OneMoreLive

\* Abort keeps SpaceInv.
LEMMA AbortSpace ==
  ASSUME Discipline, StoreInv, SpaceInv, NEW t \in Thread, Abort(t)
  PROVE  SpaceInv'
<1>1. /\ pc[t] = "plan" /\ pc' = [u \in Thread |-> "exit"] /\ doomed' = {}
      /\ UNCHANGED <<bitmap, free, copies, path, cp>>
  BY DEF Abort, nodeVars, tableVars
<1>2. Console \in Thread /\ pc'[Console] = "exit"
  BY <1>1 DEF Thread
<1>3. pc[Console] # "rm"
  BY <1>1, StoreAssumption DEF SpaceInv, Quiet, Storing, Distributing, Thread
<1>4. Quiet' /\ CpFree'
  BY <1>1, <1>2 DEF Quiet, CpFree, Copying
<1>5. Live' \subseteq Live
  BY <1>1, <1>3 DEF Live, Released
<1>. QED BY <1>1, <1>4, <1>5, FewerLive DEF Live

\* filetable_cpfrom, whoever runs it, keeps SpaceInv.
LEMMA CpfromSpace ==
  ASSUME Discipline, StoreInv, SpaceInv, NEW t \in Thread, Cpfrom(t)
  PROVE  SpaceInv'
<1>1. CASE Lock(t) \/ Plan(t) \/ Balance(t) \/ Full(t) \/ Deliver(t)
  <2>1. pc[t] \in Storing /\ UNCHANGED <<bitmap, free, copies, doomed, cp, path>>
    BY <1>1 DEF Lock, Plan, Balance, Full, Deliver, Storing, Distributing, nodeVars,
                tableVars, consoleVars
  <2>2. \E l \in Storing \cup {"idle"} : pc' = [pc EXCEPT ![t] = l] \/ pc' = pc
    BY <1>1 DEF Lock, Plan, Balance, Full, Deliver, Goto, Return, Storing, Distributing
  <2>3. \/ pc'[Console] = pc[Console]
        \/ /\ pc[Console] \notin {"rm", "rmb"}
           /\ pc'[Console] \in Storing \cup {"idle"}
    BY <2>1, <2>2 DEF StoreInv, StoreTypeOK, Storing, Distributing, Thread
  <2>. QED BY <2>1, <2>3, QuietStep
<1>. QED BY <1>1, AllocSpace, FinishSpace, AbortSpace DEF Cpfrom

\* A worker_handler keeps SpaceInv.
LEMMA StorerSpace ==
  ASSUME Discipline, StoreInv, SpaceInv, NEW t \in Storer, StorerStep(t)
  PROVE  SpaceInv'
<1>1. t \in Thread /\ t # Console
  BY StoreAssumption DEF Thread
<1>2. CASE Reply(t) \/ WriteLocal(t) \/ \E f \in File : Request(t, f)
  <2>1. /\ UNCHANGED <<bitmap, free, copies, doomed, cp>>
        /\ \E l : pc' = [pc EXCEPT ![t] = l]
        /\ path' = path \/ \E f : path' = [path EXCEPT ![t] = f]
    BY <1>2 DEF Reply, WriteLocal, Request, Goto, nodeVars, tableVars, consoleVars
  <2>2. pc'[Console] = pc[Console] /\ path'[Console] = path[Console]
    BY <1>1, <2>1 DEF StoreInv, StoreTypeOK, Thread
  <2>. QED BY <2>1, <2>2, QuietStep
<1>. QED BY <1>1, <1>2, CpfromSpace DEF StorerStep

\* Giving a command keeps SpaceInv.
LEMMA OperatorSpace ==
  ASSUME Discipline, StoreInv, SpaceInv, Operator
  PROVE  SpaceInv'
<1>1. ASSUME NEW f \in File, CmdCpfrom(f)
      PROVE  SpaceInv'
  <2>1. /\ UNCHANGED <<bitmap, free, copies, doomed, cp>>
        /\ pc[Console] = "idle" /\ pc' = [pc EXCEPT ![Console] = "lock"]
    BY <1>1 DEF CmdCpfrom, Command, Goto, nodeVars, tableVars, consoleVars
  <2>2. pc'[Console] = "lock"
    BY <2>1 DEF StoreInv, StoreTypeOK, Thread
  <2>. QED BY <2>1, <2>2, QuietStep DEF Storing
<1>. QED BY <1>1, CmdRmSpace, CmdRmBlockSpace, CmdCpblockSpace DEF Operator

\* Carrying a command out keeps SpaceInv.
LEMMA ConsoleSpace ==
  ASSUME Discipline, StoreInv, SpaceInv, ConsoleStep
  PROVE  SpaceInv'
<1>1. CASE CpAsk \/ CpReceive
  <2>1. /\ UNCHANGED <<bitmap, free, copies, doomed, cp>>
        /\ pc[Console] \in Copying
        /\ \E l \in Copying : pc' = [pc EXCEPT ![Console] = l]
    BY <1>1 DEF CpAsk, CpReceive, Goto, nodeVars, tableVars, consoleVars, Copying
  <2>2. pc'[Console] \in Copying
    BY <2>1 DEF StoreInv, StoreTypeOK, Thread
  <2>. QED BY <2>1, <2>2, QuietStep
<1>. QED BY <1>1, CpfromSpace, RmCopySpace, RmBlockSpace, RmEndSpace, CpPutSpace
         DEF ConsoleStep, Thread

\* Under Discipline an allocation and a release never overlap.
LEMMA NoRace ==
  ASSUME StoreInv, SpaceInv
  PROVE  ~Race
  BY DEF Race, RacingFree, SpaceInv, Quiet

\* The handlers, the DataNodes and the network keep SpaceInv (server.c).
LEMMA NetworkSpace ==
  ASSUME StoreInv, SpaceInv, NEW n \in Node,
         HandleSend(n) \/ HandleRecv(n) \/ Write(n) \/ Drop(n) \/ Reconnect(n)
  PROVE  SpaceInv'
<1>1. UNCHANGED <<bitmap, free, copies, doomed, cp, pc, path>>
  BY DEF HandleSend, HandleRecv, Write, Drop, Reconnect, nodeVars, tableVars, consoleVars
<1>. QED BY <1>1, QuietStep

\* The initial state satisfies SpaceInv.
LEMMA InitSpaceInv == Init => SpaceInv
<1>. SUFFICES ASSUME Init PROVE SpaceInv
  OBVIOUS
<1>1. pc[Console] = "idle" /\ doomed = {}
  BY DEF Init, Thread
<1>2. Live = {}
  BY DEF Init, Live
<1>3. Quiet /\ InRange /\ CpFree
  BY <1>1, StoreAssumption DEF Init, Quiet, InRange, CpFree, Copying
<1>4. FreeIsComplement
  BY StoreAssumption, FS_EmptySet DEF Init, FreeIsComplement
<1>. QED BY <1>2, <1>3, <1>4 DEF SpaceInv, BlocksMarked, NoSharing

\* Every step of the store keeps SpaceInv, under Discipline.
LEMMA NextSpaceInv ==
  ASSUME Discipline, StoreInv, SpaceInv, [Next]_vars
  PROVE  SpaceInv'
<1>1. CASE UNCHANGED vars
  <2>1. UNCHANGED <<bitmap, free, copies, doomed, cp, pc, path>>
    BY <1>1 DEF vars, nodeVars, tableVars, consoleVars
  <2>. QED BY <2>1, QuietStep
<1>2. CASE Next
  BY <1>2, StorerSpace, OperatorSpace, ConsoleSpace, NoRace, NetworkSpace DEF Next, Handler
<1>. QED BY <1>1, <1>2

\* As long as no two threads change the bitmaps but inside cpmut, the bitmaps,
\* the counters and the copies agree.
THEOREM SpaceInvariant == Discipline => (Spec => []SpaceInv)
<1>. SUFFICES ASSUME Discipline PROVE Spec => []SpaceInv
  OBVIOUS
<1>1. Init => SpaceInv
  BY InitSpaceInv
<1>2. StoreInv /\ SpaceInv /\ [Next]_vars => SpaceInv'
  BY NextSpaceInv
<1>. QED BY <1>1, <1>2, StoreInvariant, PTL DEF Spec

\* No block of a node is handed out to two copies (nodelist.c, filetable.c),
\* as long as rm, rm -b and cpblock are not used while a worker may store.
THEOREM BlocksAreNotShared == Discipline => (Spec => []NoSharing)
<1>. SUFFICES ASSUME Discipline PROVE Spec => []NoSharing
  OBVIOUS
<1>1. SpaceInv => NoSharing
  BY DEF SpaceInv
<1>. QED BY <1>1, SpaceInvariant, PTL

\* The block of every copy is marked in the bitmap of its node.
THEOREM CopiesAreMarked == Discipline => (Spec => []BlocksMarked)
<1>. SUFFICES ASSUME Discipline PROVE Spec => []BlocksMarked
  OBVIOUS
<1>1. SpaceInv => BlocksMarked
  BY DEF SpaceInv
<1>. QED BY <1>1, SpaceInvariant, PTL

\* free_blocks counts the zeros of the bitmap (nodelist_freeblocks).
THEOREM CountersAgree == Discipline => (Spec => []FreeIsComplement)
<1>. SUFFICES ASSUME Discipline PROVE Spec => []FreeIsComplement
  OBVIOUS
<1>1. SpaceInv => FreeIsComplement
  BY DEF SpaceInv
<1>. QED BY <1>1, SpaceInvariant, PTL
-----------------------------------------------------------------------------
(***************************************************************************)
(* What becomes of a stored file, on top of StoreInv and SpaceInv: its     *)
(* entry is not replaced, it has all its blocks (Tallies, KeptInv), they   *)
(* were sent before the block file went (SentInv), they read back          *)
(* (ReadInv), and so the whole file does (Origin).                         *)
(***************************************************************************)

-----------------------------------------------------------------------------
(* Free blocks.                                                            *)

\* nodelist_freeblocks and Room are sums.
LEMMA SumsOfBlocks ==
  /\ Room = SumOf(Space, Node)
  /\ FreeBlocks = SumOf(free, {n \in Node : Active(n)})
  BY DEF Room, FreeBlocks, SumOf

\* Room as the sum of a function that is that of a state.
RoomAdds == \A f : f = Space => Room = SumOf(f, Node)

\* It is, in every state.
LEMMA RoomIsSum == RoomAdds
  BY SumsOfBlocks DEF RoomAdds

\* So it is in the next.
LEMMA RoomIsSumNext == RoomAdds'
  BY RoomIsSum, PTL

\* A sum of natural numbers is one.
LEMMA SumNat ==
  ASSUME NEW f, \A n \in Node : f[n] \in Nat
  PROVE  SumOf(f, Node) \in Nat
<1>. DEFINE z == [n \in Node |-> 0]
<1>1. IsFiniteSet(Node)
  BY StoreAssumption
<1>2. SumOf(z, Node) = 0
  BY <1>1, SumZero
<1>3. \A n \in Node : z[n] \in Int /\ f[n] \in Int /\ z[n] <= f[n]
  OBVIOUS
<1>. HIDE DEF z
<1>4. SumOf(z, Node) <= SumOf(f, Node)
  BY <1>1, <1>3, SumBelow
<1>5. SumOf(f, Node) \in Int
  BY <1>1, <1>3, SumType
<1>. QED BY <1>2, <1>4, <1>5

\* Room grows with the connections and with the free blocks.
LEMMA RoomGrows ==
  ASSUME StoreTypeOK, StoreTypeOK',
         \A n \in Node : Active(n) => Active(n)' /\ free[n] <= free'[n]
  PROVE  Room \in Nat /\ Room' \in Nat /\ Room <= Room'
<1>1. PICK f : f = Space
  OBVIOUS
<1>2. PICK g : g = Space'
  OBVIOUS
<1>3. \A n \in Node : f[n] \in Nat /\ g[n] \in Nat /\ f[n] <= g[n]
  BY <1>1, <1>2 DEF Space, StoreTypeOK
<1>4. IsFiniteSet(Node)
  BY StoreAssumption
<1>5. SumOf(f, Node) <= SumOf(g, Node)
  BY <1>3, <1>4, SumBelow
<1>6. SumOf(f, Node) \in Nat /\ SumOf(g, Node) \in Nat
  BY <1>3, SumNat
<1>7. Room = SumOf(f, Node) /\ Room' = SumOf(g, Node)
  <2>1. \A e : e = Space' => Room' = SumOf(e, Node)
    BY RoomIsSumNext DEF RoomAdds
  <2>. QED BY <1>1, <1>2, <2>1, RoomIsSum DEF RoomAdds
<1>. QED BY <1>5, <1>6, <1>7

\* Taking one block takes one from Room at most.
LEMMA RoomShrinks ==
  ASSUME StoreTypeOK, StoreTypeOK', NEW m \in Node,
         \A n \in Node : Active(n) => Active(n)',
         \A n \in Node \ {m} : free[n] <= free'[n],
         free[m] - 1 <= free'[m]
  PROVE  Room \in Nat /\ Room' \in Nat /\ Room <= Room' + 1
<1>1. PICK f : f = Space
  OBVIOUS
<1>2. PICK g : g = Space'
  OBVIOUS
<1>. DEFINE h == [n \in Node |-> IF n = m THEN g[n] + 1 ELSE g[n]]
<1>3. \A n \in Node : f[n] \in Nat /\ g[n] \in Nat /\ h[n] \in Int /\ f[n] <= h[n]
  BY <1>1, <1>2 DEF Space, StoreTypeOK
<1>4. IsFiniteSet(Node)
  BY StoreAssumption
<1>5. \A n \in Node : f[n] \in Int /\ g[n] \in Int /\ h[n] \in Int /\ f[n] <= h[n]
  BY <1>3
<1>6. h[m] = g[m] + 1 /\ \A n \in Node \ {m} : g[n] = h[n]
  OBVIOUS
<1>. HIDE DEF h
<1>7. SumOf(f, Node) <= SumOf(h, Node)
  BY <1>4, <1>5, SumBelow
<1>8. SumOf(h, Node) = SumOf(g, Node) + h[m] - g[m]
  <2>1. \A n \in Node : g[n] \in Int /\ h[n] \in Int
    BY <1>5
  <2>2. \A n \in Node \ {m} : g[n] = h[n]
    BY <1>6
  <2>. QED BY <1>4, <2>1, <2>2, SumChanges
<1>9. SumOf(f, Node) \in Nat /\ SumOf(g, Node) \in Nat
  BY <1>3, SumNat
<1>10. Room = SumOf(f, Node) /\ Room' = SumOf(g, Node)
  <2>1. \A e : e = Space' => Room' = SumOf(e, Node)
    BY RoomIsSumNext DEF RoomAdds
  <2>. QED BY <1>1, <1>2, <2>1, RoomIsSum DEF RoomAdds
<1>11. g[m] \in Int
  BY <1>3
<1>12. h[m] - g[m] = 1
  BY <1>6, <1>11
<1>. QED BY <1>7, <1>8, <1>9, <1>10, <1>11, <1>12, <1>6

\* While there is Room, an active node has a free block.
LEMMA RoomFound ==
  ASSUME StoreTypeOK, Room > 0
  PROVE  \E n \in Node : Active(n) /\ free[n] > 0
<1>1. SUFFICES ASSUME \A n \in Node : ~(Active(n) /\ free[n] > 0) PROVE FALSE
  OBVIOUS
<1>2. \A n \in Node : Space[n] = 0
  BY <1>1 DEF Space
<1>3. Room = 0
  BY <1>2, StoreAssumption, SumsOfBlocks, SumZero
<1>. QED BY <1>3

\* The blocks that add_blocks_from_file counts are there to be taken.
LEMMA FreeBlocksAreRoom ==
  ASSUME StoreTypeOK
  PROVE  FreeBlocks \in Int /\ Room \in Nat /\ FreeBlocks <= Room
<1>. DEFINE A == {n \in Node : Active(n)}
<1>1. IsFiniteSet(Node) /\ IsFiniteSet(A) /\ A \subseteq Node
  BY StoreAssumption, FS_Subset
<1>2. /\ \A n \in Node : Space[n] \in Int /\ Space[n] >= 0
      /\ \A n \in A : free[n] \in Int /\ free[n] <= Space[n]
  BY DEF Space, StoreTypeOK
<1>. HIDE DEF A
<1>3. SumOf(free, A) \in Int /\ SumOf(Space, A) \in Int /\ SumOf(Space, Node) \in Int
  BY <1>1, <1>2, SumType
<1>4. SumOf(free, A) <= SumOf(Space, A)
  BY <1>1, <1>2, SumBelow
<1>5. SumOf(Space, A) <= SumOf(Space, Node)
  BY <1>1, <1>2, SumWider
<1>6. SumOf(Space, Node) \in Nat
  BY <1>2, SumNat
<1>. QED BY <1>3, <1>4, <1>5, <1>6, SumsOfBlocks DEF A

\* Fractions with positive denominators, compared across.
LEMMA Crosswise ==
  ASSUME NEW a \in Int, NEW b \in Int, NEW c \in Int,
         NEW x \in Nat \ {0}, NEW y \in Nat \ {0}, NEW z \in Nat \ {0},
         a * y >= b * x, b * z >= c * y
  PROVE  a * z >= c * x
<1>1. \A u, v \in Int, w \in Nat : u >= v => u * w >= v * w
  OBVIOUS
<1>2. (a * y) * z >= (b * x) * z /\ (b * z) * x >= (c * y) * x
  BY <1>1
<1>3. (a * y) * z = (a * z) * y /\ (b * x) * z = (b * z) * x /\ (c * y) * x = (c * x) * y
  OBVIOUS
<1>4. (a * z) * y >= (c * x) * y
  BY <1>2, <1>3
<1>5. \A u, v \in Int : u * y >= v * y => u >= v
  <2>. SUFFICES ASSUME NEW u \in Int, NEW v \in Int, u * y >= v * y, ~(u >= v) PROVE FALSE
    OBVIOUS
  <2>1. v >= u + 1
    OBVIOUS
  <2>2. v * y >= (u + 1) * y
    BY <1>1, <2>1
  <2>3. (u + 1) * y = u * y + y
    OBVIOUS
  <2>. QED BY <2>2, <2>3
<1>6. a * z \in Int /\ c * x \in Int
  OBVIOUS
<1>. QED BY <1>4, <1>5, <1>6

\* Of any nodes one is the emptiest (nodelist.c, by which balance_node sorts).
LEMMA EmptiestExists ==
  ASSUME StoreTypeOK, NEW A, A \subseteq Node, A # {}
  PROVE  \E n \in A : \A m \in A : Emptier(n, m)
<1>. DEFINE B == {T \in SUBSET A : T # {} /\ ~ \E n \in T : \A m \in T : Emptier(n, m)}
<1>1. SUFFICES ASSUME B # {} PROVE FALSE
  OBVIOUS
<1>2. IsFiniteSet(A)
  BY StoreAssumption, FS_Subset
<1>3. PICK T \in B : \A x \in T : T \ {x} \notin B
  <2>1. B \subseteq SUBSET A
    OBVIOUS
  <2>. HIDE DEF B
  <2>. QED BY <1>1, <1>2, <2>1, SmallestSet
<1>4. PICK x \in T : TRUE
  BY <1>3
<1>5. T \subseteq Node /\ \A n \in Node : free[n] \in Int /\ Total[n] \in Nat \ {0}
  BY <1>3, StoreAssumption DEF StoreTypeOK
<1>6. \A n \in Node : Emptier(n, n)
  BY <1>5 DEF Emptier
<1>7. CASE T \ {x} = {}
  BY <1>3, <1>5, <1>6, <1>7
<1>8. CASE T \ {x} # {}
  <2>1. PICK y \in T \ {x} : \A m \in T \ {x} : Emptier(y, m)
    BY <1>3, <1>4, <1>8
  <2>2. CASE Emptier(y, x)
    BY <1>3, <2>1, <2>2
  <2>3. CASE ~Emptier(y, x)
    <3>1. Emptier(x, y)
      BY <1>4, <1>5, <2>1, <2>3 DEF Emptier
    <3>2. \A m \in T \ {x} : Emptier(x, m)
      BY <1>4, <1>5, <2>1, <3>1, Crosswise DEF Emptier
    <3>. QED BY <1>3, <1>5, <1>6, <3>2
  <2>. QED BY <2>2, <2>3
<1>. QED BY <1>7, <1>8
-----------------------------------------------------------------------------
(* Every block of a stored file has a copy.                                *)

\* A path is not a thread; both hold copies.
LEMMA HoldersApart ==
  /\ File \subseteq Holder /\ Thread \subseteq Holder
  /\ \A f \in File, t \in Thread : f # t
  BY StoreAssumption DEF Holder

\* cpmut lets one thread into add_blocks_from_file.
LEMMA OnlyOne ==
  ASSUME StoreInv, NEW t \in Thread, pc[t] \in {"plan"} \cup Distributing
  PROVE  \A u \in Thread : pc[u] \in {"plan"} \cup Distributing => u = t
  BY DEF StoreInv, Locked

\* Steps that keep the entries, their copies, and what they were cut from.
LEMMA KeepsFrame ==
  ASSUME StoreInv, Entered, KeepsACopy,
         \A f \in table' : f \in table /\ src'[f] = src[f],
         \A f \in table', i \in Index, c \in {0, 1} :
           copies[<<f, i, c>>] # NoLoc => copies'[<<f, i, c>>] # NoLoc,
         \A t \in Storer : pc[t] \in Through => source'[t] = source[t]
  PROVE  KeepsACopy'
<1>. SUFFICES ASSUME NEW f \in table', NEW i \in Index, i < Length(f)'
              PROVE  \E c \in {0, 1} : Copy(f, i, c)' # NoLoc
  BY DEF KeepsACopy
<1>1. f \in table /\ src'[f] = src[f]
  OBVIOUS
<1>2. src[f] # Console => source'[src[f]] = source[src[f]]
  BY <1>1 DEF Entered, Thread
<1>3. Length(f)' = Length(f)
  BY <1>1, <1>2 DEF Length, Blocks
<1>4. PICK c \in {0, 1} : Copy(f, i, c) # NoLoc
  BY <1>1, <1>3 DEF KeepsACopy
<1>5. copies'[<<f, i, c>>] # NoLoc
  BY <1>4 DEF Copy
<1>. QED BY <1>5 DEF Copy

\* Steps that add no entry and let no thread begin again.
LEMMA EnteredFrame ==
  ASSUME Entered, \A f \in table' : f \in table /\ src'[f] = src[f],
         \A t \in Storer : pc[t] \in Through => pc'[t] \in Through,
         pc'[Console] \in Distributing =>
           /\ pc[Console] \in Distributing /\ path'[Console] = path[Console]
           /\ source'[Console] = source[Console]
  PROVE  Entered'
  BY DEF Entered

\* Steps that leave the copies of what rm -b works on.
LEMMA SpareFrame ==
  ASSUME Spare,
         pc'[Console] = "rmb" =>
           /\ pc[Console] = "rmb" /\ doomed' \subseteq doomed
           /\ \A s \in doomed, c \in {0, 1} :
                copies[<<s[1], s[2], c>>] # NoLoc => copies'[<<s[1], s[2], c>>] # NoLoc
  PROVE  Spare'
  BY DEF Spare, Copy

\* A thread that does not move while others do not take its room.
LEMMA FirstFrame ==
  ASSUME StoreInv, StoreInv', NEW t \in Thread, First(t), pc[t] \in Distributing,
         pc'[t] = pc[t], next'[t] = next[t], source'[t] = source[t], target'[t] = target[t],
         \A i \in Index : copies'[<<t, i, 0>>] = copies[<<t, i, 0>>],
         \A n \in Node : Active(n) => Active(n)' /\ free[n] <= free'[n]
  PROVE  First(t)'
<1>1. Room \in Nat /\ Room' \in Nat /\ Room <= Room'
  BY RoomGrows DEF StoreInv
<1>2. next[t] \in Nat /\ Blocks(source[t]) \in Int
  BY StoreAssumption DEF StoreInv, Control, Blocks, LocalFile
<1>3. \A i \in Index : Placed(t, i)' = Placed(t, i) /\ Copy(t, i, 0)' = Copy(t, i, 0)
  BY DEF Placed, Copy
<1>4. Blocks(source[t])' = Blocks(source[t])
  BY DEF Blocks
<1>5. pc[t] = "alloc" /\ Active(target[t]) /\ free[target[t]] > 0
        => Active(target[t])' /\ free'[target'[t]] > 0
  <2>1. pc[t] = "alloc" => target[t] \in Node
    BY DEF StoreInv, Targeted
  <2>2. \A n \in Node : free[n] \in Int /\ free'[n] \in Int
    BY DEF StoreInv, StoreTypeOK
  <2>. QED BY <2>1, <2>2 DEF Active
<1>. QED BY <1>1, <1>2, <1>3, <1>4, <1>5 DEF First

\* Steps of the console, the handlers and the network that change no copies.
LEMMA KeptFrame ==
  ASSUME StoreInv, StoreInv', KeptInv, UNCHANGED <<table, src, copies>>,
         \A t \in Thread : pc'[t] \in Distributing =>
           /\ pc[t] = pc'[t] /\ next'[t] = next[t] /\ target'[t] = target[t]
           /\ source'[t] = source[t] /\ path'[t] = path[t] /\ toSend' = toSend,
         \A t \in Thread : Scarce(t) /\ pc'[t] \in Distributing =>
           \A n \in Node : Active(n) => Active(n)' /\ free[n] <= free'[n],
         \A t \in Storer : pc[t] \in Through => pc'[t] \in Through /\ source'[t] = source[t],
         pc'[Console] = "rmb" => pc[Console] = "rmb" /\ doomed' \subseteq doomed
  PROVE  KeptInv'
<1>1. Console \in Thread
  BY DEF Thread
<1>2. Entered'
  BY <1>1, EnteredFrame DEF KeptInv
<1>3. Spare'
  BY SpareFrame DEF KeptInv
<1>4. KeepsACopy'
  BY KeepsFrame DEF KeptInv
<1>5. FirstPass'
  <2>. SUFFICES ASSUME NEW t \in Thread, Scarce(t)' PROVE First(t)'
    BY DEF FirstPass
  <2>1. pc'[t] \in Distributing
    BY DEF Scarce
  <2>2. Scarce(t)
    BY <2>1 DEF Scarce, Blocks
  <2>3. First(t)
    BY <2>2 DEF KeptInv, FirstPass
  <2>. QED BY <2>1, <2>2, <2>3, FirstFrame
<1>. QED BY <1>2, <1>3, <1>4, <1>5 DEF KeptInv

\* What a worker_handler does outside the distribution keeps KeptInv.
LEMMA WorkerKept ==
  ASSUME StoreInv, StoreInv', KeptInv, NEW t \in Storer,
         (\E f \in File : Request(t, f)) \/ WriteLocal(t) \/ Reply(t)
  PROVE  KeptInv'
<1>. t \in Thread /\ t # Console
  BY StoreAssumption DEF Thread
<1>1. /\ UNCHANGED <<table, src, copies, next, target, source, free, handler, up, doomed, toSend>>
      /\ \E l \in {"done", "write", "lock"} : pc' = [pc EXCEPT ![t] = l] /\ (pc[t] = "reply" => l = "done")
      /\ pc[t] \in {"new", "write", "reply"}
      /\ \A u \in Thread : u # t => path'[u] = path[u]
  BY DEF Request, WriteLocal, Reply, Goto, nodeVars, linkVars, dataVars, tableVars, localVars,
         countVars, consoleVars, StoreInv, StoreTypeOK
<1>2. \A u \in Thread : pc'[u] \in Distributing => pc'[u] = pc[u] /\ path'[u] = path[u]
  BY <1>1 DEF StoreInv, StoreTypeOK, Distributing
<1>3. \A u \in Storer : pc[u] \in Through => pc'[u] \in Through
  BY <1>1 DEF StoreInv, StoreTypeOK, Through, Thread
<1>4. \A n \in Node : (Active(n) => Active(n)') /\ free[n] <= free'[n]
  BY <1>1 DEF Active, StoreInv, StoreTypeOK
<1>5. pc'[Console] = pc[Console] /\ doomed' \subseteq doomed
  BY <1>1
<1>. QED BY <1>1, <1>2, <1>3, <1>4, <1>5, KeptFrame

\* Waiting for cpmut keeps KeptInv.
LEMMA LockKept ==
  ASSUME StoreInv, StoreInv', KeptInv, NEW t \in Thread, Lock(t)
  PROVE  KeptInv'
<1>1. /\ UNCHANGED <<table, src, copies, next, target, source, free, handler, up, doomed, path>>
      /\ UNCHANGED toSend
      /\ pc' = [pc EXCEPT ![t] = "plan"] /\ pc[t] = "lock"
  BY DEF Lock, Goto, nodeVars, linkVars, dataVars, tableVars, countVars, localVars, consoleVars
<1>2. \A u \in Thread : pc'[u] \in Distributing => pc'[u] = pc[u]
  BY <1>1 DEF StoreInv, StoreTypeOK, Distributing
<1>3. \A u \in Storer : pc[u] \in Through => pc'[u] \in Through
  BY <1>1 DEF StoreInv, StoreTypeOK, Through, Thread
<1>4. \A n \in Node : (Active(n) => Active(n)') /\ free[n] <= free'[n]
  BY <1>1 DEF Active, StoreInv, StoreTypeOK
<1>5. pc'[Console] = "rmb" => pc[Console] = "rmb" /\ doomed' \subseteq doomed
  BY <1>1 DEF StoreInv, StoreTypeOK, Thread
<1>. QED BY <1>1, <1>2, <1>3, <1>4, <1>5, KeptFrame

\* The end of the FileSystem keeps KeptInv.
LEMMA AbortKept ==
  ASSUME StoreInv, StoreInv', KeptInv, NEW t \in Thread, Abort(t)
  PROVE  KeptInv'
<1>1. /\ UNCHANGED <<table, src, copies, source>>
      /\ pc' = [u \in Thread |-> "exit"] /\ doomed' = {}
  BY DEF Abort, tableVars, localVars
<1>2. \A u \in Thread : pc'[u] = "exit"
  BY <1>1
<1>3. \A u \in Thread : pc'[u] \notin Distributing
  BY <1>2 DEF Distributing
<1>4. \A u \in Storer : pc'[u] \in Through
  BY <1>2 DEF Through, Thread
<1>5. pc'[Console] # "rmb"
  BY <1>2 DEF Thread
<1>. QED BY <1>1, <1>3, <1>4, <1>5, KeptFrame

\* Commands that only begin, and what cpblock does before it adds its copy.
LEMMA ConsoleKept ==
  ASSUME StoreInv, StoreInv', KeptInv,
         \/ \E f \in File : CmdCpfrom(f) \/ CmdRm(f)
         \/ \E f \in File, i \in Index, n \in Node : CmdCpblock(f, i, n)
         \/ CpAsk \/ CpReceive
  PROVE  KeptInv'
<1>. Console \in Thread
  BY DEF Thread
<1>1. /\ UNCHANGED <<table, src, copies, next, target, source, free, up, toSend>>
      /\ pc[Console] \in {"idle", "cpask", "cpwait"}
      /\ \/ UNCHANGED pc
         \/ \E l \in {"lock", "rm", "cpask", "cpwait", "cpput"} : pc' = [pc EXCEPT ![Console] = l]
      /\ \A u \in Thread : u # Console => path'[u] = path[u]
  <2>. USE DEF Command, Goto, nodeVars, dataVars, tableVars, countVars, localVars
  <2>1. ASSUME NEW f \in File, CmdCpfrom(f) \/ CmdRm(f)
        PROVE  <1>1!:
    BY <2>1 DEF CmdCpfrom, CmdRm, StoreInv, StoreTypeOK
  <2>2. ASSUME NEW f \in File, NEW i \in Index, NEW n \in Node, CmdCpblock(f, i, n)
        PROVE  <1>1!:
    BY <2>2 DEF CmdCpblock
  <2>3. CpAsk \/ CpReceive => <1>1!:
    BY DEF CpAsk, CpReceive
  <2>. QED BY <2>1, <2>2, <2>3
<1>2. \A u \in Thread : pc'[u] \in Distributing => pc'[u] = pc[u] /\ path'[u] = path[u]
  BY <1>1 DEF StoreInv, StoreTypeOK, Distributing
<1>3. \A u \in Storer : pc[u] \in Through => pc'[u] \in Through
  BY <1>1, StoreAssumption DEF StoreInv, StoreTypeOK, Through, Thread
<1>4. UNCHANGED handler \/ \E n \in Node : Ping({n})
  BY DEF CmdCpfrom, CmdRm, CmdCpblock, CpAsk, CpReceive, linkVars
<1>5. \A n \in Node : Active(n) => Active(n)'
  BY <1>1, <1>4 DEF Active, Ping, StoreInv, StoreTypeOK
<1>6. \A n \in Node : free[n] <= free'[n]
  BY <1>1 DEF StoreInv, StoreTypeOK
<1>7. pc'[Console] # "rmb"
  BY <1>1 DEF StoreInv, StoreTypeOK
<1>. QED BY <1>1, <1>2, <1>3, <1>5, <1>6, <1>7, KeptFrame

\* rm releases a copy: the table and the copies stay as they are until its end.
LEMMA RmCopyKept ==
  ASSUME StoreInv, StoreInv', KeptInv, NEW s \in doomed, RmCopy(s)
  PROVE  KeptInv'
<1>1. /\ UNCHANGED <<table, src, copies, next, target, source, handler, up, pc, path, toSend>>
      /\ Unmark(copies[s]) /\ pc[Console] = "rm" /\ doomed' = doomed \ {s}
  BY DEF RmCopy, linkVars, dataVars, tableVars, countVars, localVars
<1>2. \A n \in Node : (Active(n) => Active(n)') /\ free[n] <= free'[n]
  BY <1>1 DEF Active, Unmark, StoreInv, StoreTypeOK
<1>. QED BY <1>1, <1>2, KeptFrame

\* The handlers, the DataNodes and the network; no connection is lost during a
\* distribution that may lack room.
LEMMA NetworkKept ==
  ASSUME StoreInv, StoreInv', KeptInv, Undisturbed, NEW n \in Node,
         HandleSend(n) \/ HandleRecv(n) \/ Write(n) \/ Drop(n) \/ Reconnect(n)
  PROVE  KeptInv'
<1>1. UNCHANGED <<table, src, copies, next, target, source, free, pc, path, doomed, toSend>>
  BY DEF HandleSend, HandleRecv, Write, Drop, Reconnect, nodeVars, linkVars, tableVars,
         countVars, localVars, consoleVars
<1>2. \A m \in Node : handler'[m] = handler[m] \/ (Active(m) => handler'[m])
  BY DEF HandleSend, HandleRecv, Write, Drop, Reconnect, linkVars, dataVars
<1>3. ASSUME NEW t \in Thread, Scarce(t), NEW m \in Node
      PROVE  (Active(m) => Active(m)') /\ free[m] <= free'[m]
  <2>1. up[m] => up'[m]
    BY <1>3 DEF Undisturbed
  <2>. QED BY <1>1, <1>2, <2>1 DEF Active, StoreInv, StoreTypeOK
<1>. QED BY <1>1, <1>3, KeptFrame

\* Steps of the console and the races leave a thread's own state alone.
LEMMA OthersFirst ==
  ASSUME StoreInv, StoreInv', KeptInv, NEW t \in Thread, Scarce(t)',
         pc'[t] = pc[t], UNCHANGED <<next, source, target, handler, up, toSend>>,
         \A i \in Index : copies'[<<t, i, 0>>] = copies[<<t, i, 0>>],
         \A n \in Node : free[n] <= free'[n]
  PROVE  First(t)'
<1>1. Scarce(t) /\ pc[t] \in Distributing
  BY DEF Scarce, Blocks
<1>2. First(t)
  BY <1>1 DEF KeptInv, FirstPass
<1>3. \A n \in Node : Active(n) => Active(n)' /\ free[n] <= free'[n]
  BY DEF Active
<1>. QED BY <1>1, <1>2, <1>3, FirstFrame

\* The entry of a file goes when rm has released its copies.
LEMMA RmEndKept ==
  ASSUME StoreInv, StoreInv', KeptInv, RmEnd
  PROVE  KeptInv'
<1>. DEFINE f == path[Console]
<1>0. Console \in Thread
  BY DEF Thread
<1>1. /\ UNCHANGED <<next, source, target, handler, up, free, path, toSend>>
      /\ table' = table \ {f} /\ src' = [src EXCEPT ![f] = Nobody]
      /\ copies' = [s \in Slot |-> IF s[1] = f THEN NoLoc ELSE copies[s]]
      /\ pc[Console] = "rm" /\ pc' = [pc EXCEPT ![Console] = "idle"]
  BY DEF RmEnd, Goto, nodeVars, linkVars, dataVars, countVars, localVars
<1>2. f \in table /\ table \subseteq File
  BY <1>1 DEF StoreInv, Dooming, StoreTypeOK
<1>3. \A t \in Thread : t # f
  BY <1>2, StoreAssumption
<1>4. \A h \in Holder, i \in Index, c \in {0, 1} :
        h # f => copies'[<<h, i, c>>] = copies[<<h, i, c>>]
  BY <1>1, SlotFacts
<1>5. \A g \in table' : g \in table /\ g # f /\ src'[g] = src[g] /\ g \in Holder
  BY <1>1, <1>2 DEF StoreInv, StoreTypeOK, Holder
<1>6. /\ \A t \in Thread : t # Console => pc'[t] = pc[t]
      /\ pc'[Console] = "idle"
  BY <1>0, <1>1 DEF StoreInv, StoreTypeOK
<1>7. Entered'
  <2>1. \A t \in Storer : pc[t] \in Through => pc'[t] \in Through
    BY <1>6, StoreAssumption DEF Thread
  <2>2. pc'[Console] \notin Distributing
    BY <1>6 DEF Distributing
  <2>. QED BY <1>5, <2>1, <2>2, EnteredFrame DEF KeptInv
<1>8. Spare'
  BY <1>6 DEF Spare
<1>9. KeepsACopy'
  BY <1>1, <1>4, <1>5, KeepsFrame DEF KeptInv
<1>10. FirstPass'
  <2>. SUFFICES ASSUME NEW t \in Thread, Scarce(t)' PROVE First(t)'
    BY DEF FirstPass
  <2>1. pc'[t] = pc[t]
    BY <1>6 DEF Scarce, Distributing
  <2>2. t \in Holder /\ t # f
    BY <1>3 DEF Holder
  <2>3. \A n \in Node : free[n] <= free'[n]
    BY <1>1 DEF StoreInv, StoreTypeOK
  <2>4. \A i \in Index : copies'[<<t, i, 0>>] = copies[<<t, i, 0>>]
    BY <1>4, <2>2
  <2>. QED BY <1>1, <2>1, <2>3, <2>4, OthersFirst
<1>. QED BY <1>7, <1>8, <1>9, <1>10 DEF KeptInv

\* rm -b begins with one of two copies.
LEMMA CmdRmBlockKept ==
  ASSUME StoreInv, StoreInv', KeptInv, NEW s \in File \X Index \X {0, 1}, CmdRmBlock(s)
  PROVE  KeptInv'
<1>1. /\ UNCHANGED <<table, src, copies, next, source, target, handler, up, free, path, toSend>>
      /\ doomed' = {s} /\ Removable(s)
      /\ pc[Console] = "idle" /\ pc' = [pc EXCEPT ![Console] = "rmb"]
  BY DEF CmdRmBlock, Command, Goto, nodeVars, linkVars, dataVars, tableVars, countVars, localVars
<1>2. /\ \A t \in Thread : t # Console => pc'[t] = pc[t]
      /\ pc'[Console] = "rmb"
  BY <1>1 DEF StoreInv, StoreTypeOK, Thread
<1>3. Entered'
  <2>1. \A t \in Storer : pc[t] \in Through => pc'[t] \in Through
    BY <1>2, StoreAssumption DEF Thread
  <2>2. pc'[Console] \notin Distributing
    BY <1>2 DEF Distributing
  <2>. QED BY <1>1, <2>1, <2>2, EnteredFrame DEF KeptInv
<1>4. Spare'
  BY <1>1 DEF Spare, Removable, Copy
<1>5. KeepsACopy'
  BY <1>1, KeepsFrame DEF KeptInv
<1>6. FirstPass'
  <2>. SUFFICES ASSUME NEW t \in Thread, Scarce(t)' PROVE First(t)'
    BY DEF FirstPass
  <2>1. pc'[t] = pc[t]
    BY <1>2 DEF Scarce, Distributing
  <2>2. \A n \in Node : free[n] <= free'[n]
    BY <1>1 DEF StoreInv, StoreTypeOK
  <2>. QED BY <1>1, <2>1, <2>2, OthersFirst
<1>. QED BY <1>3, <1>4, <1>5, <1>6 DEF KeptInv

\* Taking one of two copies of a block leaves every block a copy.
LEMMA OneOfTwo ==
  ASSUME StoreInv, Spare, KeepsACopy, pc[Console] = "rmb", NEW s \in doomed
  PROVE  /\ s \in Slot /\ s[1] \in table /\ doomed = {s}
         /\ \A c \in {0, 1} : Copy(s[1], s[2], c) # NoLoc
         /\ \A f \in table, i \in Index : i < Length(f) =>
              \E c \in {0, 1} : <<f, i, c>> # s /\ Copy(f, i, c) # NoLoc
<1>1. s \in Slot /\ s[1] \in table /\ doomed = {s}
  BY DEF StoreInv, Dooming
<1>2. s = <<s[1], s[2], s[3]>> /\ s[3] \in {0, 1}
  BY <1>1, SlotParts
<1>3. \A c \in {0, 1} : Copy(s[1], s[2], c) # NoLoc
  BY DEF Spare
<1>4. ASSUME NEW f \in table, NEW i \in Index, i < Length(f)
      PROVE  \E c \in {0, 1} : <<f, i, c>> # s /\ Copy(f, i, c) # NoLoc
  <2>1. CASE f = s[1] /\ i = s[2]
    <3>1. 1 - s[3] \in {0, 1} /\ 1 - s[3] # s[3]
      BY <1>2
    <3>2. <<f, i, 1 - s[3]>> # s /\ Copy(f, i, 1 - s[3]) # NoLoc
      BY <1>2, <1>3, <2>1, <3>1
    <3>. QED BY <3>1, <3>2
  <2>2. CASE ~(f = s[1] /\ i = s[2])
    BY <1>4, <2>2 DEF KeepsACopy
  <2>. QED BY <2>1, <2>2
<1>. QED BY <1>1, <1>3, <1>4

\* The number of blocks of an entry does not change while it is there.
LEMMA LengthSame ==
  ASSUME Entered, NEW f \in table, src'[f] = src[f],
         \A t \in Storer : pc[t] \in Through => source'[t] = source[t]
  PROVE  Length(f)' = Length(f)
<1>1. src[f] # Console => source'[src[f]] = source[src[f]]
  BY DEF Entered, Thread
<1>. QED BY <1>1 DEF Length, Blocks

\* rm -b releases one of two copies.
LEMMA RmBlockKept ==
  ASSUME StoreInv, StoreInv', KeptInv, NEW s \in doomed, RmBlock(s)
  PROVE  KeptInv'
<1>0. Console \in Thread
  BY DEF Thread
<1>1. /\ UNCHANGED <<table, src, next, source, target, handler, up, path, toSend>>
      /\ pc[Console] = "rmb" /\ pc' = [pc EXCEPT ![Console] = "idle"]
      /\ Unmark(copies[s]) /\ copies' = [copies EXCEPT ![s] = NoLoc]
  BY DEF RmBlock, Goto, linkVars, dataVars, countVars, localVars
<1>2. /\ \A t \in Thread : t # Console => pc'[t] = pc[t]
      /\ pc'[Console] = "idle"
  BY <1>0, <1>1 DEF StoreInv, StoreTypeOK
<1>3. /\ s \in Slot /\ s[1] \in table
      /\ \A f \in table, i \in Index : i < Length(f) =>
           \E c \in {0, 1} : <<f, i, c>> # s /\ Copy(f, i, c) # NoLoc
  BY <1>1, OneOfTwo DEF KeptInv
<1>4. \A r \in Slot : r # s => copies'[r] = copies[r]
  BY <1>1 DEF StoreInv, StoreTypeOK
<1>5. Entered'
  <2>1. \A t \in Storer : pc[t] \in Through => pc'[t] \in Through
    BY <1>2, StoreAssumption DEF Thread
  <2>2. pc'[Console] \notin Distributing
    BY <1>2 DEF Distributing
  <2>. QED BY <1>1, <2>1, <2>2, EnteredFrame DEF KeptInv
<1>6. Spare'
  BY <1>2 DEF Spare
<1>7. KeepsACopy'
  <2>. SUFFICES ASSUME NEW f \in table, NEW i \in Index, i < Length(f)'
                PROVE  \E c \in {0, 1} : Copy(f, i, c)' # NoLoc
    BY <1>1 DEF KeepsACopy
  <2>1. Length(f)' = Length(f)
    BY <1>1, LengthSame DEF KeptInv
  <2>2. PICK c \in {0, 1} : <<f, i, c>> # s /\ Copy(f, i, c) # NoLoc
    BY <1>3, <2>1
  <2>3. <<f, i, c>> \in Slot
    BY SlotFacts DEF StoreInv, StoreTypeOK, Holder
  <2>. QED BY <1>4, <2>2, <2>3 DEF Copy
<1>8. FirstPass'
  <2>. SUFFICES ASSUME NEW t \in Thread, Scarce(t)' PROVE First(t)'
    BY DEF FirstPass
  <2>1. pc'[t] = pc[t]
    BY <1>2 DEF Scarce, Distributing
  <2>2. \A n \in Node : free[n] <= free'[n]
    BY <1>1 DEF Unmark, StoreInv, StoreTypeOK
  <2>3. s[1] # t /\ t \in Holder
    BY <1>3, HoldersApart DEF StoreInv, StoreTypeOK
  <2>4. \A i \in Index : <<t, i, 0>> # s /\ <<t, i, 0>> \in Slot
    <3>1. s = <<s[1], s[2], s[3]>>
      BY <1>3, SlotParts
    <3>2. ASSUME NEW i \in Index PROVE <<t, i, 0>> # s
      BY <2>3, <3>1
    <3>3. ASSUME NEW i \in Index PROVE <<t, i, 0>> \in Slot
      BY <2>3, SlotFacts
    <3>. QED BY <3>2, <3>3
  <2>5. \A i \in Index : copies'[<<t, i, 0>>] = copies[<<t, i, 0>>]
    BY <1>4, <2>4
  <2>. QED BY <1>1, <2>1, <2>2, <2>5, OthersFirst
<1>. QED BY <1>5, <1>6, <1>7, <1>8 DEF KeptInv

\* A small number is its own remainder.
LEMMA ModSmall ==
  ASSUME NEW a \in Nat, NEW b \in Nat, a < b
  PROVE  a % b = a
  OBVIOUS

\* nodelist_addblock, also in a race: block next of the first pass is placed.
LEMMA AllocFirst ==
  ASSUME StoreInv, StoreInv', KeptInv, NEW t \in Thread, Scarce(t), pc[t] = "alloc", pc'[t] = "deliver",
         UNCHANGED <<next, source, handler, up>>,
         free[target[t]] - 1 <= free'[target[t]],
         \A n \in Node \ {target[t]} : free[n] <= free'[n],
         \A i \in Index : i # Current(t) \/ Half(t) # 0
                            => copies'[<<t, i, 0>>] = copies[<<t, i, 0>>],
         Half(t) = 0 => copies'[<<t, Current(t), 0>>] # NoLoc
  PROVE  First(t)'
<1>. DEFINE all == Blocks(source[t])
<1>1. First(t) /\ pc[t] \in Distributing /\ target[t] \in Node
  BY DEF KeptInv, FirstPass, Distributing, StoreInv, Targeted
<1>2. next[t] \in Nat /\ all \in Nat
  BY <1>1, StoreAssumption DEF StoreInv, Control, Blocks, LocalFile
<1>3. Room \in Nat /\ Room' \in Nat /\ Room <= Room' + 1
  <2>1. \A n \in Node : Active(n) => Active(n)'
    BY DEF Active
  <2>. QED BY <1>1, <2>1, RoomShrinks DEF StoreInv
<1>4. next[t] < all => Current(t) = next[t]
  BY <1>2, ModSmall DEF Current
<1>5. \A i \in Index : /\ Placed(t, i) <=> i < next[t]
                       /\ Placed(t, i)' <=> i < next[t] \/ i = next[t]
  BY DEF Placed
<1>6. \A i \in Index : copies[<<t, i, 0>>] # NoLoc => copies'[<<t, i, 0>>] # NoLoc
  BY DEF Half, Copy
<1>7. Current(t) \in Index /\ (Half(t) # 0 => copies[<<t, Current(t), 0>>] # NoLoc)
  BY <1>1, CurrentInIndex DEF Half, Copy, StoreInv
<1>8. copies'[<<t, Current(t), 0>>] # NoLoc
  BY <1>6, <1>7
<1>9. \A i \in Index : i < all /\ Placed(t, i)' => copies'[<<t, i, 0>>] # NoLoc
  <2>. SUFFICES ASSUME NEW i \in Index, i < all, Placed(t, i)'
                PROVE  copies'[<<t, i, 0>>] # NoLoc
    OBVIOUS
  <2>1. CASE i = next[t]
    BY <1>4, <1>8, <2>1
  <2>2. CASE i < next[t]
    BY <1>1, <1>5, <1>6, <2>2 DEF First, Copy
  <2>. QED BY <1>5, <2>1, <2>2
<1>10. next[t] < all => \A i \in Index : ~Placed(t, i)' => copies'[<<t, i, 0>>] = NoLoc
  <2>. SUFFICES ASSUME next[t] < all, NEW i \in Index, ~Placed(t, i)'
                PROVE  copies'[<<t, i, 0>>] = NoLoc
    OBVIOUS
  <2>1. i # Current(t) /\ ~Placed(t, i)
    BY <1>4, <1>5
  <2>. QED BY <1>1, <2>1 DEF First, Copy
<1>11. next[t] < all => all - next[t] <= Room' + 1
  <2>1. next[t] < all => all - next[t] <= Room + 0
    BY <1>1 DEF First
  <2>. HIDE DEF all
  <2>2. \A a, n, r, s \in Nat : a - n <= r + 0 /\ r <= s + 1 => a - n <= s + 1
    OBVIOUS
  <2>. QED BY <1>2, <1>3, <2>1, <2>2
<1>12. Blocks(source[t])' = all
  BY DEF Blocks
<1>. HIDE DEF all
<1>. QED BY <1>9, <1>10, <1>11, <1>12 DEF First, Copy

\* While one thread distributes no other does.
LEMMA OnlyFirst ==
  ASSUME StoreInv, NEW t \in Thread, pc[t] \in {"plan"} \cup Distributing,
         \A u \in Thread : u # t /\ pc'[u] \in Distributing => pc[u] \in Distributing,
         Scarce(t)' => First(t)'
  PROVE  FirstPass'
<1>. SUFFICES ASSUME NEW u \in Thread, Scarce(u)' PROVE First(u)'
  BY DEF FirstPass
<1>1. u = t
  BY OnlyOne DEF Scarce
<1>. QED BY <1>1

\* Steps by which a thread stays in add_blocks_from_file, and adds copies.
LEMMA StoringFrame ==
  ASSUME StoreInv, StoreInv', KeptInv, NEW t \in Thread, pc[t] \in Distributing,
         pc'[t] \in Distributing, UNCHANGED <<table, src, source, path, doomed>>,
         \A u \in Thread : u # t => pc'[u] = pc[u],
         \A h \in Holder, i \in Index, c \in {0, 1} :
           copies[<<h, i, c>>] # NoLoc => copies'[<<h, i, c>>] # NoLoc,
         Scarce(t)' => First(t)'
  PROVE  KeptInv'
<1>0. \A u \in Storer : pc[u] \in Through => pc'[u] \in Through
  BY DEF Through, Distributing, Thread
<1>1. Entered'
  <2>1. pc'[Console] \in Distributing => pc[Console] \in Distributing
    BY DEF Thread
  <2>. QED BY <1>0, <2>1, EnteredFrame DEF KeptInv
<1>2. Spare'
  <2>1. pc'[Console] = "rmb" => pc[Console] = "rmb"
    BY DEF Thread, Distributing
  <2>2. pc[Console] = "rmb" => \A s \in doomed : s[1] \in Holder /\ s[2] \in Index
    BY SlotParts DEF StoreInv, Dooming
  <2>. QED BY <2>1, <2>2, SpareFrame DEF KeptInv
<1>3. KeepsACopy'
  <2>1. \A f \in table' : f \in Holder
    BY HoldersApart DEF StoreInv, StoreTypeOK
  <2>. QED BY <2>1, KeepsFrame DEF KeptInv
<1>4. FirstPass'
  BY OnlyFirst
<1>. QED BY <1>1, <1>2, <1>3, <1>4 DEF KeptInv

\* The type of the numbers of a distribution.
LEMMA PassTypes ==
  ASSUME StoreInv, NEW t \in Thread, pc[t] \in Distributing
  PROVE  next[t] \in Nat /\ Blocks(source[t]) \in Nat \ {0} /\ Blocks(source[t]) <= MaxBlocks
         /\ MaxBlocks \in Nat
  BY StoreAssumption DEF StoreInv, Control, Blocks, LocalFile

\* A node found full: only after the first pass, if the store is scarce.
LEMMA FullKept ==
  ASSUME StoreInv, StoreInv', KeptInv, NEW t \in Thread, Full(t)
  PROVE  KeptInv'
<1>1. /\ UNCHANGED <<table, src, copies, source, path, doomed, toSend>>
      /\ pc[t] = "alloc" /\ free[target[t]] = 0
      /\ pc' = [pc EXCEPT ![t] = "send"] /\ next' = [next EXCEPT ![t] = @ + 1]
  BY DEF Full, Goto, tableVars, countVars, consoleVars
<1>2. pc[t] \in Distributing /\ pc'[t] = "send" /\ pc'[t] \in Distributing
  BY <1>1 DEF StoreInv, StoreTypeOK, Distributing
<1>3. \A u \in Thread : u # t => pc'[u] = pc[u]
  BY <1>1 DEF StoreInv, StoreTypeOK
<1>4. next[t] \in Nat /\ Blocks(source[t]) \in Nat /\ next'[t] = next[t] + 1
  BY <1>1, <1>2, PassTypes DEF StoreInv, Control
<1>5. ASSUME Scarce(t)' PROVE First(t)'
  <2>1. Blocks(source[t])' = Blocks(source[t])
    BY <1>1 DEF Blocks
  <2>2. First(t)
    BY <1>1, <1>2, <1>5, <2>1 DEF Scarce, KeptInv, FirstPass
  <2>3. ~(next[t] < Blocks(source[t]))
    BY <1>1, <2>2 DEF First
  <2>4. ~(next'[t] < Blocks(source[t]))
    BY <1>4, <2>3
  <2>5. \A i \in Index : i < Blocks(source[t]) => Placed(t, i)
    BY <1>4, <2>3 DEF Placed, Index
  <2>6. \A i \in Index : i < Blocks(source[t]) => Copy(t, i, 0)' # NoLoc
    BY <1>1, <2>2, <2>5 DEF First, Copy
  <2>. QED BY <2>1, <2>4, <2>6 DEF First
<1>. QED BY <1>1, <1>2, <1>3, <1>5, StoringFrame

\* The block that was placed is handed to its node.
LEMMA DeliverKept ==
  ASSUME StoreInv, StoreInv', KeptInv, NEW t \in Thread, Deliver(t)
  PROVE  KeptInv'
<1>1. /\ UNCHANGED <<table, src, copies, source, path, doomed, free, handler, up, toSend>>
      /\ pc[t] = "deliver"
      /\ pc' = [pc EXCEPT ![t] = "send"] /\ next' = [next EXCEPT ![t] = @ + 1]
  BY DEF Deliver, Goto, tableVars, countVars, consoleVars, nodeVars, dataVars
<1>2. pc[t] \in Distributing /\ pc'[t] = "send" /\ pc'[t] \in Distributing
  BY <1>1 DEF StoreInv, StoreTypeOK, Distributing
<1>3. \A u \in Thread : u # t => pc'[u] = pc[u]
  BY <1>1 DEF StoreInv, StoreTypeOK
<1>4. next[t] \in Nat /\ Blocks(source[t]) \in Nat /\ next'[t] = next[t] + 1
  BY <1>1, <1>2, PassTypes DEF StoreInv, Control
<1>5. ASSUME Scarce(t)' PROVE First(t)'
  <2>1. Blocks(source[t])' = Blocks(source[t])
    BY <1>1 DEF Blocks
  <2>2. First(t)
    BY <1>1, <1>2, <1>5, <2>1 DEF Scarce, KeptInv, FirstPass
  <2>3. \A i \in Index : Placed(t, i)' <=> Placed(t, i)
    BY <1>1, <1>2, <1>4 DEF Placed, Index
  <2>4. Room \in Nat /\ Room' \in Nat /\ Room <= Room'
    <3>1. \A n \in Node : Active(n) => Active(n)' /\ free[n] <= free'[n]
      BY <1>1 DEF Active, StoreInv, StoreTypeOK
    <3>. QED BY <3>1, RoomGrows DEF StoreInv
  <2>5. next'[t] < Blocks(source[t]) => Blocks(source[t]) - next'[t] <= Room'
    <3>1. next[t] < Blocks(source[t]) => Blocks(source[t]) - next[t] <= Room + 1
      BY <1>1, <2>2 DEF First
    <3>. QED BY <1>4, <2>4, <3>1
  <2>6. \A i \in Index : i < Blocks(source[t]) /\ Placed(t, i)' => Copy(t, i, 0)' # NoLoc
    BY <1>1, <2>2, <2>3 DEF First, Copy
  <2>7. next'[t] < Blocks(source[t]) => \A i \in Index : ~Placed(t, i)' => Copy(t, i, 0)' = NoLoc
    <3>1. next'[t] < Blocks(source[t]) => next[t] < Blocks(source[t])
      BY <1>4
    <3>. QED BY <1>1, <2>2, <2>3, <3>1 DEF First, Copy
  <2>. QED BY <1>2, <2>1, <2>4, <2>5, <2>6, <2>7 DEF First
<1>. QED BY <1>1, <1>2, <1>3, <1>5, StoringFrame

\* The step by which add_blocks_from_file begins: the blocks fit once.
LEMMA PlanKept ==
  ASSUME StoreInv, StoreInv', KeptInv, NEW t \in Thread, Plan(t)
  PROVE  KeptInv'
<1>1. /\ UNCHANGED <<table, src, copies, path, doomed, free, up>>
      /\ pc[t] = "plan" /\ Ping(Node)
      /\ next' = [next EXCEPT ![t] = 0] /\ source' = [source EXCEPT ![t] = LocalOf(t)]
      /\ IF FreeBlocks < Blocks(LocalOf(t)) THEN Return(t) ELSE Goto(t, "send")
  BY DEF Plan, tableVars, consoleVars, nodeVars, dataVars
<1>2. /\ \A u \in Thread : u # t => pc'[u] = pc[u] /\ source'[u] = source[u]
      /\ next'[t] = 0 /\ source'[t] = LocalOf(t)
      /\ IF FreeBlocks < Blocks(LocalOf(t))
         THEN pc'[t] = IF t = Console THEN "idle" ELSE "reply"
         ELSE pc'[t] = "send"
  BY <1>1 DEF Return, Goto, StoreInv, StoreTypeOK, Control
<1>3. \A u \in Storer : pc[u] \in Through => u # t /\ pc'[u] \in Through /\ source'[u] = source[u]
  BY <1>1, <1>2 DEF Through, Thread
<1>4. Entered'
  <2>1. \A f \in table : src[f] \in Thread /\ (src[f] \in Storer => pc'[src[f]] \in Through)
    BY <1>3 DEF KeptInv, Entered
  <2>2. ASSUME pc'[Console] \in Distributing
        PROVE  source'[Console].file = path'[Console]
    <3>1. CASE t = Console
      BY <1>1, <1>2, <3>1 DEF LocalOf
    <3>2. CASE t # Console
      BY <1>1, <1>2, <2>2, <3>2 DEF KeptInv, Entered, Thread
    <3>. QED BY <3>1, <3>2
  <2>. QED BY <1>1, <2>1, <2>2 DEF Entered
<1>5. Spare'
  <2>1. pc'[Console] = "rmb" => pc[Console] = "rmb"
    BY <1>2 DEF Thread
  <2>. QED BY <1>1, <2>1, SpareFrame DEF KeptInv
<1>6. KeepsACopy'
  BY <1>1, <1>3, KeepsFrame DEF KeptInv
<1>7. ASSUME Scarce(t)' PROVE First(t)'
  <2>1. pc'[t] = "send" /\ ~(FreeBlocks < Blocks(LocalOf(t)))
    BY <1>2, <1>7 DEF Scarce, Distributing
  <2>2. FreeBlocks \in Int /\ FreeBlocks <= Room /\ Room \in Nat
    BY FreeBlocksAreRoom DEF StoreInv
  <2>3. Room' \in Nat /\ Room <= Room'
    <3>1. \A n \in Node : Active(n) => Active(n)' /\ free[n] <= free'[n]
      BY <1>1 DEF Ping, Active, StoreInv, StoreTypeOK
    <3>. QED BY <3>1, RoomGrows DEF StoreInv
  <2>4. Blocks(source[t])' \in Nat /\ Blocks(source[t])' = Blocks(LocalOf(t))
    <3>1. Blocks(source[t])' = Blocks(LocalOf(t))
      BY <1>2 DEF Blocks
    <3>2. source'[t] \in LocalFile
      BY <1>7 DEF StoreInv, Control, Scarce
    <3>3. Blocks(LocalOf(t)) \in Nat
      BY <1>2, <3>2, StoreAssumption DEF Blocks, LocalFile
    <3>. QED BY <3>1, <3>3
  <2>5. \A i \in Index : Copy(t, i, 0)' = NoLoc
    BY <1>1 DEF StoreInv, Drafts, Copy, Distributing
  <2>6. \A i \in Index : ~Placed(t, i)'
    BY <1>2, <2>1 DEF Placed, Index
  <2>7. next'[t] < Blocks(source[t])' => Blocks(source[t])' - next'[t] <= Room'
    BY <1>2, <2>1, <2>2, <2>3, <2>4
  <2>. QED BY <2>1, <2>3, <2>4, <2>5, <2>6, <2>7 DEF First
<1>8. FirstPass'
  BY <1>1, <1>2, <1>7, OnlyFirst
<1>. QED BY <1>4, <1>5, <1>6, <1>8 DEF KeptInv

\* In the first pass balance_node finds a node, and one with a free block.
LEMMA BalanceFinds ==
  ASSUME StoreInv, KeptInv, NEW t \in Thread, Scarce(t), pc[t] = "send",
         next[t] < Blocks(source[t])
  PROVE  LET active == {n \in Others(t) : Active(n)}
             top    == {n \in Others(t) : \A m \in active : Emptier(n, m)}
         IN  /\ {n \in top : Active(n)} # {}
             /\ \A n \in top : free[n] > 0
<1>. DEFINE active == {n \in Others(t) : Active(n)}
            top == {n \in Others(t) : \A m \in active : Emptier(n, m)}
<1>1. pc[t] \in Distributing /\ First(t)
  BY DEF Distributing, KeptInv, FirstPass
<1>2. next[t] \in Nat /\ Blocks(source[t]) \in Nat \ {0} /\ Current(t) \in Index
  BY <1>1, PassTypes, CurrentInIndex DEF StoreInv
<1>3. Current(t) = next[t]
  BY <1>2, ModSmall DEF Current
<1>4. ~Placed(t, Current(t))
  BY <1>2, <1>3 DEF Placed
<1>5. Copy(t, Current(t), 0) = NoLoc
  BY <1>1, <1>2, <1>4 DEF First
<1>6. Others(t) = Node
  BY <1>5, LocFacts, StoreAssumption DEF Others
<1>7. Room > 0
  <2>1. Blocks(source[t]) - next[t] <= Room + 0
    BY <1>1 DEF First
  <2>2. Room \in Nat
    BY FreeBlocksAreRoom DEF StoreInv
  <2>. QED BY <1>2, <2>1, <2>2
<1>8. PICK m \in Node : Active(m) /\ free[m] > 0
  BY <1>7, RoomFound DEF StoreInv
<1>9. m \in active
  BY <1>6, <1>8
<1>10. PICK n \in active : \A k \in active : Emptier(n, k)
  <2>1. active \subseteq Node /\ active # {}
    BY <1>6, <1>9
  <2>. HIDE DEF active
  <2>. QED BY <2>1, EmptiestExists DEF StoreInv
<1>11. n \in top /\ Active(n)
  BY <1>10
<1>12. ASSUME NEW k \in top PROVE free[k] > 0
  <2>1. Emptier(k, m) /\ k \in Node
    BY <1>6, <1>9
  <2>2. /\ free[k] \in Int /\ free[m] \in Int /\ Total[k] \in Nat \ {0} /\ Total[m] \in Nat \ {0}
    BY <1>8, <2>1, StoreAssumption DEF StoreInv, StoreTypeOK
  <2>3. free[m] * Total[k] > 0
    BY <1>8, <2>2
  <2>4. free[k] * Total[m] > 0
    BY <2>1, <2>2, <2>3 DEF Emptier
  <2>. QED BY <2>2, <2>4
<1>. QED BY <1>11, <1>12

\* balance_node keeps KeptInv: it finds a node for every block of the first pass.
LEMMA BalanceKept ==
  ASSUME StoreInv, StoreInv', KeptInv, NEW t \in Thread, Balance(t)
  PROVE  KeptInv'
<1>. DEFINE active == {n \in Others(t) : Active(n)}
            top == {n \in Others(t) : \A m \in active : Emptier(n, m)}
            best == {n \in top : Active(n)}
<1>1. /\ UNCHANGED <<table, src, copies, source, path, doomed, free, up, toSend>>
      /\ pc[t] = "send" /\ \E Q \in SUBSET Others(t) : Ping(Q)
      /\ IF best = {} THEN next' = [next EXCEPT ![t] = @ + 1] /\ UNCHANGED pc
         ELSE /\ \E n \in best : target' = [target EXCEPT ![t] = n]
              /\ pc' = [pc EXCEPT ![t] = "alloc"] /\ UNCHANGED next
  BY DEF Balance, Goto, nodeVars, dataVars, tableVars, countVars, consoleVars
<1>2. pc[t] \in Distributing
  BY <1>1 DEF Distributing
<1>3. /\ \A u \in Thread : u # t => pc'[u] = pc[u]
      /\ pc'[t] \in {"send", "alloc"} /\ pc'[t] \in Distributing
  BY <1>1 DEF StoreInv, StoreTypeOK, Distributing
<1>4. /\ next[t] \in Nat /\ Blocks(source[t]) \in Nat
      /\ Blocks(source[t])' = Blocks(source[t])
  BY <1>1, <1>2, PassTypes DEF Blocks
<1>5. \A n \in Node : Active(n) => Active(n)'
  BY <1>1 DEF Ping, Active, StoreInv, StoreTypeOK
<1>6. Room \in Nat /\ Room' \in Nat /\ Room <= Room'
  <2>1. \A n \in Node : Active(n) => Active(n)' /\ free[n] <= free'[n]
    BY <1>1, <1>5 DEF StoreInv, StoreTypeOK
  <2>. QED BY <2>1, RoomGrows DEF StoreInv
<1>7. Scarce(t) /\ next[t] < Blocks(source[t]) => best # {} /\ \A n \in top : free[n] > 0
  BY <1>1, BalanceFinds
<1>8. top \subseteq Node
  BY DEF Others
<1>9. \A i \in Index : Copy(t, i, 0)' = Copy(t, i, 0)
  BY <1>1 DEF Copy
<1>. HIDE DEF best, top, active
<1>10. ASSUME Scarce(t)' PROVE First(t)'
  <2>0. Scarce(t) /\ First(t)
    BY <1>1, <1>2, <1>4, <1>10 DEF Scarce, KeptInv, FirstPass
  <2>1. CASE best = {}
    <3>1. next'[t] = next[t] + 1 /\ ~(next[t] < Blocks(source[t]))
      BY <1>1, <1>7, <2>0, <2>1 DEF StoreInv, Control
    <3>2. ~(next'[t] < Blocks(source[t]))
      BY <1>4, <3>1
    <3>3. \A i \in Index : i < Blocks(source[t]) => Placed(t, i)
      BY <1>4, <3>1 DEF Placed, Index
    <3>. QED BY <1>4, <1>9, <2>0, <3>2, <3>3 DEF First
  <2>2. CASE best # {}
    <3>1. PICK n \in best : target' = [target EXCEPT ![t] = n]
      BY <1>1, <2>2
    <3>2. target'[t] = n /\ next'[t] = next[t] /\ pc'[t] = "alloc"
      BY <1>1, <2>2, <3>1 DEF StoreInv, StoreTypeOK
    <3>3. n \in Node /\ Active(n) /\ n \in top
      BY <1>8 DEF best
    <3>4. Active(n)' /\ free'[n] = free[n]
      BY <1>1, <1>5, <3>3
    <3>5. next[t] < Blocks(source[t]) => Active(target[t])' /\ free'[target'[t]] > 0
      BY <1>7, <2>0, <3>2, <3>3, <3>4 DEF Active
    <3>6. \A i \in Index : Placed(t, i)' <=> Placed(t, i)
      BY <1>1, <3>2 DEF Placed
    <3>7. next[t] < Blocks(source[t]) => Blocks(source[t]) - next[t] <= Room'
      <4>1. next[t] < Blocks(source[t]) => Blocks(source[t]) - next[t] <= Room + 0
        BY <1>1, <2>0 DEF First
      <4>. QED BY <1>4, <1>6, <4>1
    <3>. QED BY <1>4, <1>6, <1>9, <2>0, <3>2, <3>5, <3>6, <3>7 DEF First
  <2>. QED BY <2>1, <2>2
<1>. QED BY <1>1, <1>2, <1>3, <1>9, <1>10, StoringFrame

\* A block is allocated and the copy filled.
LEMMA AllocKept ==
  ASSUME StoreInv, StoreInv', KeptInv, NEW t \in Thread, Alloc(t)
  PROVE  KeptInv'
<1>. DEFINE n == target[t]
<1>1. PICK b \in Bit(n) :
        /\ Mark(Loc(n, b))
        /\ copies' = [copies EXCEPT ![<<t, Current(t), Half(t)>>] = Loc(n, b)]
        /\ UNCHANGED <<table, src, source, path, doomed, next, handler, up, toSend>>
        /\ pc[t] = "alloc" /\ pc' = [pc EXCEPT ![t] = "deliver"]
  BY DEF Alloc, Goto, linkVars, dataVars, countVars, localVars, consoleVars
<1>2. pc[t] \in Distributing /\ pc'[t] = "deliver" /\ pc'[t] \in Distributing
  BY <1>1 DEF StoreInv, StoreTypeOK, Distributing
<1>3. \A u \in Thread : u # t => pc'[u] = pc[u]
  BY <1>1 DEF StoreInv, StoreTypeOK
<1>4. n \in Node /\ b \in Int /\ Loc(n, b) \in Location /\ Loc(n, b) # NoLoc /\ Loc(n, b).node = n
  <2>1. n \in Node
    BY <1>1 DEF StoreInv, Targeted
  <2>. QED BY <2>1, BitInt, LocFacts
<1>5. \A s \in Slot : copies'[s] = IF s = <<t, Current(t), Half(t)>> THEN Loc(n, b) ELSE copies[s]
  BY <1>1 DEF StoreInv, StoreTypeOK
<1>6. \A h \in Holder, i \in Index, c \in {0, 1} :
        copies[<<h, i, c>>] # NoLoc => copies'[<<h, i, c>>] # NoLoc
  BY <1>4, <1>5, SlotFacts
<1>7. Current(t) \in Index /\ t \in Holder /\ Half(t) \in {0, 1}
  BY <1>2, CurrentInIndex, HoldersApart DEF StoreInv, Half
<1>8. ASSUME Scarce(t)' PROVE First(t)'
  <2>0. Scarce(t)
    BY <1>1, <1>2, <1>8 DEF Scarce, Blocks
  <2>1. free[n] - 1 <= free'[n] /\ \A m \in Node \ {n} : free[m] <= free'[m]
    BY <1>1, <1>4 DEF Mark, StoreInv, StoreTypeOK
  <2>2. \A i \in Index : i # Current(t) \/ Half(t) # 0 => copies'[<<t, i, 0>>] = copies[<<t, i, 0>>]
    BY <1>5, <1>7, SlotFacts
  <2>3. Half(t) = 0 => copies'[<<t, Current(t), 0>>] # NoLoc
    BY <1>4, <1>5, <1>7, SlotFacts
  <2>. QED BY <1>1, <1>2, <2>0, <2>1, <2>2, <2>3, AllocFirst
<1>. QED BY <1>1, <1>2, <1>3, <1>6, <1>8, StoringFrame

\* An allocation that overlaps a release: the two touch copies of their own.
LEMMA RacingKept ==
  ASSUME StoreInv, StoreInv', KeptInv, NEW t \in Storer, NEW s \in doomed, RacingFree(t, s)
  PROVE  KeptInv'
<1>. DEFINE n == target[t]
            cur == Current(t)
            half == Half(t)
            removing == pc[Console] = "rmb"
<1>0. t \in Thread /\ Console \in Thread /\ t # Console /\ t \in Holder
  BY StoreAssumption, HoldersApart DEF Thread
<1>1. /\ UNCHANGED <<table, src, next, source, target, handler, up, path, toSend>>
      /\ pc[t] = "alloc" /\ pc[Console] \in {"rm", "rmb"}
      /\ pc' = [pc EXCEPT ![t] = "deliver", ![Console] = IF removing THEN "idle" ELSE @]
      /\ \E d \in {-1, 0, 1} : free' = [free EXCEPT ![n] = @ + d]
      /\ \E b \in Bit(n) :
           copies' = [copies EXCEPT ![<<t, cur, half>>] = Loc(n, b),
                                    ![s] = IF removing THEN NoLoc ELSE @]
  BY DEF RacingFree, linkVars, dataVars, countVars, localVars
<1>2. PICK b \in Bit(n) :
        copies' = [copies EXCEPT ![<<t, cur, half>>] = Loc(n, b),
                                 ![s] = IF removing THEN NoLoc ELSE @]
  BY <1>1
<1>3. n \in Node /\ Loc(n, b) # NoLoc
  <2>1. n \in Node
    BY <1>0, <1>1 DEF StoreInv, Targeted
  <2>. QED BY <2>1, BitInt, LocFacts
<1>4. cur \in Index /\ half \in {0, 1} /\ pc[t] \in Distributing
  BY <1>0, <1>1, CurrentInIndex DEF StoreInv, Half, Distributing
<1>5. s \in Slot /\ s[1] \in table /\ s[1] # t
  <2>1. s \in Slot /\ s[1] \in table
    BY <1>1 DEF StoreInv, Dooming, StoreTypeOK
  <2>. QED BY <1>0, <2>1, HoldersApart DEF StoreInv, StoreTypeOK
<1>6. \A i \in Index, c \in {0, 1} : <<t, i, c>> # s
  BY <1>5, SlotParts
<1>. HIDE DEF n, cur, half, removing
<1>7. \A r \in Slot : copies'[r] = IF r = <<t, cur, half>> THEN Loc(n, b)
                                   ELSE IF r = s /\ removing THEN NoLoc ELSE copies[r]
  BY <1>2, <1>4, <1>6 DEF StoreInv, StoreTypeOK
<1>8. /\ pc'[t] = "deliver" /\ pc'[Console] \in {"idle", "rm"}
      /\ removing => pc'[Console] = "idle"
      /\ \A u \in Thread : u # t /\ u # Console => pc'[u] = pc[u]
  BY <1>0, <1>1 DEF StoreInv, StoreTypeOK, removing
<1>9. \A u \in Storer : pc[u] \in Through => pc'[u] \in Through
  BY <1>1, <1>8, StoreAssumption DEF Through, Thread
<1>10. Entered'
  <2>1. pc'[Console] \notin Distributing
    BY <1>8 DEF Distributing
  <2>. QED BY <1>1, <1>9, <2>1, EnteredFrame DEF KeptInv
<1>11. Spare'
  BY <1>8 DEF Spare
<1>12. KeepsACopy'
  <2>. SUFFICES ASSUME NEW f \in table, NEW i \in Index, i < Length(f)'
                PROVE  \E c \in {0, 1} : Copy(f, i, c)' # NoLoc
    BY <1>1 DEF KeepsACopy
  <2>1. Length(f)' = Length(f)
    BY <1>1, LengthSame DEF KeptInv
  <2>2. PICK c \in {0, 1} : (removing => <<f, i, c>> # s) /\ Copy(f, i, c) # NoLoc
    <3>1. CASE removing
      BY <2>1, <3>1, OneOfTwo DEF KeptInv, removing
    <3>2. CASE ~removing
      BY <2>1, <3>2 DEF KeptInv, KeepsACopy
    <3>. QED BY <3>1, <3>2
  <2>3. <<f, i, c>> \in Slot
    BY SlotFacts, HoldersApart DEF StoreInv, StoreTypeOK
  <2>. QED BY <1>3, <1>7, <2>2, <2>3 DEF Copy
<1>13. ASSUME Scarce(t)' PROVE First(t)'
  <2>0. Scarce(t)
    BY <1>1, <1>4, <1>13 DEF Scarce, Blocks
  <2>1. free[n] - 1 <= free'[n] /\ \A m \in Node \ {n} : free[m] <= free'[m]
    BY <1>1, <1>3 DEF StoreInv, StoreTypeOK
  <2>2. \A i \in Index : i # cur \/ half # 0 => copies'[<<t, i, 0>>] = copies[<<t, i, 0>>]
    <3>1. \A i \in Index : <<t, i, 0>> \in Slot
      BY <1>0, SlotFacts
    <3>. QED BY <1>6, <1>7, <3>1
  <2>3. half = 0 => copies'[<<t, cur, 0>>] # NoLoc
    <3>1. <<t, cur, 0>> \in Slot
      BY <1>0, <1>4, SlotFacts
    <3>. QED BY <1>3, <1>7, <3>1
  <2>. QED BY <1>0, <1>1, <1>8, <2>0, <2>1, <2>2, <2>3, AllocFirst DEF n, cur, half
<1>14. FirstPass'
  <2>1. \A u \in Thread : u # t /\ pc'[u] \in Distributing => pc[u] \in Distributing
    BY <1>8 DEF Distributing
  <2>. QED BY <1>0, <1>4, <1>13, <2>1, OnlyFirst
<1>. QED BY <1>10, <1>11, <1>12, <1>14 DEF KeptInv

\* cpblock adds a copy; no store that may lack room is on then.
LEMMA CpPutKept ==
  ASSUME StoreInv, StoreInv', KeptInv, Undisturbed, CpPut
  PROVE  KeptInv'
<1>0. Console \in Thread
  BY DEF Thread
<1>1. /\ UNCHANGED <<table, src, source, path, toSend>>
      /\ pc[Console] = "cpput" /\ pc' = [pc EXCEPT ![Console] = "idle"]
      /\ copies' = [copies EXCEPT ![<<cp.file, cp.index, cp.half>>] = cp.to]
  BY DEF CpPut, Goto, countVars, localVars
<1>2. pc'[Console] = "idle" /\ \A t \in Thread : t # Console => pc'[t] = pc[t]
  BY <1>0, <1>1 DEF StoreInv, StoreTypeOK
<1>3. \A t \in Thread : ~Scarce(t)
  BY <1>1, <1>2 DEF Undisturbed
<1>4. pc'[Console] \notin Distributing /\ \A t \in Thread : ~Scarce(t)'
  <2>1. pc'[Console] \notin Distributing
    BY <1>2 DEF Distributing
  <2>. QED BY <1>1, <1>2, <1>3, <2>1 DEF Scarce, Blocks
<1>5. cp.to # NoLoc
  BY <1>1, LocFacts DEF StoreInv, CpReady, Copying
<1>6. Entered'
  <2>1. \A t \in Storer : pc[t] \in Through => pc'[t] \in Through
    BY <1>2, StoreAssumption DEF Thread
  <2>. QED BY <1>0, <1>1, <1>4, <2>1, EnteredFrame DEF KeptInv
<1>7. Spare' /\ FirstPass'
  BY <1>2, <1>4 DEF Spare, FirstPass
<1>8. KeepsACopy'
  <2>1. ASSUME NEW f \in table, NEW i \in Index, NEW c \in {0, 1}, copies[<<f, i, c>>] # NoLoc
        PROVE  copies'[<<f, i, c>>] # NoLoc
    <3>1. <<f, i, c>> \in Slot
      BY SlotFacts, HoldersApart DEF StoreInv, StoreTypeOK
    <3>. QED BY <1>1, <1>5, <2>1, <3>1 DEF StoreInv, StoreTypeOK
  <2>. QED BY <1>1, <2>1, KeepsFrame DEF KeptInv
<1>. QED BY <1>6, <1>7, <1>8 DEF KeptInv

\* filetable_add: the entry has every block.  Either every call saved a block, or
\* there was room for those of the first pass.
LEMMA FinishKept ==
  ASSUME StoreInv, StoreInv', KeptInv, Tallies, NEW t \in Thread, Finish(t)
  PROVE  KeptInv'
<1>. DEFINE f == path[t]
            added == Added(t)
<1>0. Console \in Thread /\ t \in Holder
  BY HoldersApart DEF Thread
<1>1. /\ UNCHANGED <<source, doomed, path>>
      /\ pc[t] = "send" /\ next[t] = 2 * Blocks(source[t])
      /\ table' = IF added THEN table \cup {f} ELSE table
      /\ src' = IF added THEN [src EXCEPT ![f] = t] ELSE src
      /\ copies' = [s \in Slot |->
                      CASE s[1] = t -> NoLoc
                        [] s[1] = f /\ added -> Copy(t, s[2], s[3])
                        [] OTHER -> copies[s]]
      /\ pc' = [pc EXCEPT ![t] = IF t = Console THEN "idle" ELSE "reply"]
  BY DEF Finish, Return, Goto, localVars, consoleVars
<1>2. /\ pc[t] \in Distributing /\ pc[t] \in Storing
      /\ Tally(t) /\ (Scarce(t) => First(t))
      /\ added => saved[t] = toSend
  BY <1>1 DEF Storing, Distributing, KeptInv, FirstPass, Tallies, Added, Success
<1>3. f \in File /\ f \in Holder /\ (added => f \notin table)
  BY <1>2, HoldersApart DEF StoreInv, Control, Added
<1>4. /\ pc'[t] = IF t = Console THEN "idle" ELSE "reply"
      /\ \A u \in Thread : u # t => pc'[u] = pc[u]
  BY <1>1 DEF StoreInv, StoreTypeOK
<1>5. \A u \in Thread : pc'[u] \notin Distributing
  <2>1. pc'[t] \notin Distributing
    BY <1>4 DEF Distributing
  <2>. QED BY <1>2, <1>4, <2>1, OnlyOne
<1>6. \A u \in Storer : (pc[u] \in Through => pc'[u] \in Through) /\ (u = t => pc'[u] \in Through)
  BY <1>4, StoreAssumption DEF Through, Thread
<1>. HIDE DEF f, added
<1>7. \A g \in table : g \in File /\ g \in Holder /\ g # t
  BY HoldersApart DEF StoreInv, StoreTypeOK
<1>8. /\ table' \subseteq table \cup {f} /\ (f \in table' /\ f \notin table => added)
      /\ \A g \in table : src'[g] = src[g]
      /\ added => src'[f] = t
  BY <1>1, <1>3 DEF StoreInv, StoreTypeOK
<1>9. Entered'
  <2>1. \A g \in table' : src'[g] \in Thread
    BY <1>8 DEF KeptInv, Entered
  <2>2. \A g \in table' : src'[g] \in Storer => pc'[src'[g]] \in Through
    BY <1>6, <1>8 DEF KeptInv, Entered
  <2>. QED BY <1>0, <1>5, <2>1, <2>2 DEF Entered
<1>10. Spare'
  <2>1. pc'[Console] = "rmb" => pc[Console] = "rmb"
    BY <1>0, <1>4
  <2>2. ASSUME pc[Console] = "rmb", NEW s \in doomed, NEW c \in {0, 1},
               copies[<<s[1], s[2], c>>] # NoLoc
        PROVE  copies'[<<s[1], s[2], c>>] # NoLoc
    <3>1. s \in Slot /\ s[1] \in table
      BY <2>2 DEF StoreInv, Dooming
    <3>2. s[1] # t /\ ~(s[1] = f /\ added) /\ s[2] \in Index
      BY <1>3, <1>7, <3>1, SlotParts
    <3>3. <<s[1], s[2], c>> \in Slot
      BY <1>7, <3>1, <3>2, SlotFacts
    <3>. QED BY <1>1, <2>2, <3>2, <3>3
  <2>. QED BY <1>1, <2>1, <2>2, SpareFrame DEF KeptInv
<1>11. KeepsACopy'
  <2>. SUFFICES ASSUME NEW g \in table', NEW i \in Index, i < Length(g)'
                PROVE  \E c \in {0, 1} : copies'[<<g, i, c>>] # NoLoc
    BY DEF KeepsACopy, Copy
  <2>1. CASE g \in table
    <3>1. Length(g)' = Length(g)
      BY <1>1, <1>8, <2>1, LengthSame DEF KeptInv
    <3>2. PICK c \in {0, 1} : copies[<<g, i, c>>] # NoLoc
      BY <2>1, <3>1 DEF KeptInv, KeepsACopy, Copy
    <3>3. g # t /\ ~(g = f /\ added) /\ <<g, i, c>> \in Slot
      BY <1>3, <1>7, <2>1, SlotFacts
    <3>. QED BY <1>1, <3>2, <3>3
  <2>2. CASE g \notin table
    <3>1. g = f /\ added /\ src'[f] = t
      BY <1>8, <2>2
    <3>2. source[t] \in LocalFile /\ Blocks(source[t]) > 0
      BY <1>2 DEF StoreInv, Control
    <3>3. t = Console => source[t].file = f
      BY <1>2 DEF KeptInv, Entered, f
    <3>4. Length(g)' = Blocks(source[t])
      <4>1. src'[g] = t /\ (t = Console => source[t].file = g)
        BY <3>1, <3>3
      <4>. QED BY <1>1, <3>2, <4>1 DEF Length, Blocks
    <3>5. i < Blocks(source[t]) /\ i < next[t]
      <4>1. i \in Nat /\ Blocks(source[t]) \in Nat
        BY <1>2, PassTypes DEF Index
      <4>. QED BY <1>1, <3>4, <4>1
    <3>6. copies[<<t, i, 0>>] # NoLoc
      <4>1. CASE Scarce(t)
        BY <1>2, <3>5, <4>1 DEF First, Placed, Copy
      <4>2. CASE ~Scarce(t)
        <5>1. saved[t] = next[t]
          BY <1>1, <1>2, <3>1, <4>2 DEF Scarce
        <5>. QED BY <1>2, <3>5, <5>1 DEF Tally, Placed, Copy
      <4>. QED BY <4>1, <4>2
    <3>7. <<f, i, 0>> \in Slot /\ f # t
      BY <1>3, HoldersApart, SlotFacts
    <3>. QED BY <1>1, <3>1, <3>6, <3>7 DEF Copy
  <2>. QED BY <2>1, <2>2
<1>12. FirstPass'
  BY <1>5 DEF FirstPass, Scarce
<1>. QED BY <1>9, <1>10, <1>11, <1>12 DEF KeptInv

\* Steps that do not move a thread through add_blocks_from_file.
LEMMA TallyFrame ==
  ASSUME Tallies, saved' = saved,
         \A t \in Thread : pc'[t] \in Distributing =>
           /\ pc'[t] = pc[t] /\ next'[t] = next[t] /\ source'[t] = source[t]
           /\ \A i \in Index : copies[<<t, i, 0>>] # NoLoc => copies'[<<t, i, 0>>] # NoLoc
  PROVE  Tallies'
<1>. SUFFICES ASSUME NEW t \in Thread, pc'[t] \in Distributing PROVE Tally(t)'
  BY DEF Tallies
<1>1. Tally(t)
  BY DEF Tallies
<1>2. Blocks(source[t])' = Blocks(source[t]) /\ \A i \in Index : Placed(t, i)' <=> Placed(t, i)
  BY DEF Blocks, Placed
<1>. QED BY <1>1, <1>2 DEF Tally, Copy

\* Steps of the one thread that is in add_blocks_from_file.
LEMMA TallyOne ==
  ASSUME StoreInv, NEW t \in Thread, pc[t] \in {"plan"} \cup Distributing,
         saved' \in [Thread -> Nat], \A u \in Thread : u # t => pc'[u] = pc[u],
         pc'[t] \in Distributing => Tally(t)'
  PROVE  Tallies'
<1>1. \A u \in Thread : pc'[u] \in Distributing => u = t
  BY OnlyOne
<1>. QED BY <1>1 DEF Tallies

\* A call of send_block that places nothing (best = {}, or the node is full).
LEMMA TallySkip ==
  ASSUME StoreInv, Tallies, NEW t \in Thread, pc[t] \in Distributing,
         next' = [next EXCEPT ![t] = @ + 1], saved' = saved
  PROVE  Tally(t)'
<1>1. next[t] \in Nat /\ next'[t] = next[t] + 1
  BY PassTypes DEF StoreInv, Control
<1>2. saved[t] \in Nat /\ saved[t] <= next[t]
  BY DEF Tallies, Tally
<1>3. saved'[t] <= next'[t] /\ saved'[t] # next'[t]
  BY <1>1, <1>2
<1>. QED BY <1>3 DEF Tally

\* nodelist_addblock, also in a race, gives the block a first copy if it has none.
LEMMA TallyAlloc ==
  ASSUME StoreInv, Tallies, NEW t \in Thread, pc[t] = "alloc",
         UNCHANGED <<next, source, saved>>,
         \A i \in Index : copies[<<t, i, 0>>] # NoLoc => copies'[<<t, i, 0>>] # NoLoc,
         copies'[<<t, Current(t), 0>>] # NoLoc
  PROVE  Tally(t)'
<1>1. Tally(t) /\ pc[t] \in Distributing
  BY DEF Tallies, Distributing
<1>2. next[t] \in Nat /\ Blocks(source[t]) \in Nat /\ Blocks(source[t])' = Blocks(source[t])
  BY <1>1, PassTypes DEF Blocks
<1>3. ASSUME saved[t] = next[t], NEW i \in Index, i < Blocks(source[t]), Placed(t, i)'
      PROVE  copies'[<<t, i, 0>>] # NoLoc
  <2>1. CASE i < next[t]
    BY <1>1, <1>3, <2>1 DEF Tally, Placed, Copy
  <2>2. CASE i = next[t]
    <3>1. Current(t) = i
      BY <1>2, <1>3, <2>2, ModSmall DEF Current
    <3>. QED BY <3>1
  <2>. QED BY <1>3, <2>1, <2>2 DEF Placed
<1>. QED BY <1>1, <1>2, <1>3 DEF Tally, Copy

\* A thread's steps in filetable_cpfrom keep the tallies.
LEMMA CpfromTallied ==
  ASSUME StoreInv, StoreInv', Tallies, NEW t \in Thread, Cpfrom(t)
  PROVE  Tallies'
<1>0. pc \in [Thread -> {"new", "idle", "exit", "write", "lock", "plan", "send", "alloc",
                       "deliver", "reply", "done", "rm", "rmb", "cpask", "cpwait", "cpput"}]
  BY DEF StoreInv, StoreTypeOK
<1>1. CASE Lock(t)
  <2>1. pc' = [pc EXCEPT ![t] = "plan"] /\ UNCHANGED <<saved, next, source, copies>>
    BY <1>1 DEF Lock, Goto, localVars, tableVars
  <2>2. \A u \in Thread : pc'[u] \in Distributing => pc'[u] = pc[u]
    BY <1>0, <2>1 DEF Distributing
  <2>. QED BY <2>1, <2>2, TallyFrame
<1>2. CASE Abort(t)
  <2>1. saved' = saved /\ \A u \in Thread : pc'[u] = "exit"
    BY <1>2 DEF Abort, localVars
  <2>. QED BY <2>1, TallyFrame DEF Distributing
<1>3. CASE Plan(t)
  <2>1. /\ pc[t] = "plan" /\ \E l \in {"idle", "reply", "send"} : pc' = [pc EXCEPT ![t] = l]
        /\ next' = [next EXCEPT ![t] = 0] /\ saved' = [saved EXCEPT ![t] = 0]
    BY <1>3 DEF Plan, Return, Goto
  <2>2. /\ saved' \in [Thread -> Nat] /\ saved'[t] = 0 /\ next'[t] = 0 /\ pc'[t] # "deliver"
        /\ \A u \in Thread : u # t => pc'[u] = pc[u]
    BY <1>0, <2>1 DEF Tallies, StoreInv, Control
  <2>3. Tally(t)'
    BY <2>2 DEF Tally, Placed, Index
  <2>. QED BY <2>1, <2>2, <2>3, TallyOne
<1>4. CASE Balance(t)
  <2>1. /\ pc[t] = "send" /\ UNCHANGED <<saved, source, copies>>
        /\ \/ next' = [next EXCEPT ![t] = @ + 1] /\ UNCHANGED pc
           \/ UNCHANGED next /\ pc' = [pc EXCEPT ![t] = "alloc"]
    BY <1>4 DEF Balance, Goto, tableVars
  <2>2. pc[t] \in Distributing /\ (\A u \in Thread : u # t => pc'[u] = pc[u])
    BY <1>0, <2>1 DEF Distributing
  <2>3. Tally(t)'
    <3>1. CASE next' = [next EXCEPT ![t] = @ + 1]
      BY <2>1, <2>2, <3>1, TallySkip
    <3>2. CASE UNCHANGED next /\ pc' = [pc EXCEPT ![t] = "alloc"]
      <4>1. pc'[t] = "alloc"
        BY <1>0, <3>2
      <4>. QED BY <2>1, <2>2, <3>2, <4>1 DEF Tallies, Tally, Placed, Copy, Blocks
    <3>. QED BY <2>1, <3>1, <3>2
  <2>. QED BY <2>1, <2>2, <2>3, TallyOne DEF Tallies
<1>5. CASE Full(t)
  <2>1. /\ pc[t] = "alloc" /\ next' = [next EXCEPT ![t] = @ + 1] /\ saved' = saved
        /\ pc' = [pc EXCEPT ![t] = "send"]
    BY <1>5 DEF Full, Goto
  <2>2. pc[t] \in Distributing /\ (\A u \in Thread : u # t => pc'[u] = pc[u])
    BY <1>0, <2>1 DEF Distributing
  <2>3. Tally(t)'
    BY <2>1, <2>2, TallySkip
  <2>. QED BY <2>1, <2>2, <2>3, TallyOne DEF Tallies
<1>6. CASE Alloc(t)
  <2>. DEFINE n == target[t]
  <2>1. PICK b \in Bit(n) :
          /\ copies' = [copies EXCEPT ![<<t, Current(t), Half(t)>>] = Loc(n, b)]
          /\ UNCHANGED <<saved, source, next>>
          /\ pc[t] = "alloc" /\ pc' = [pc EXCEPT ![t] = "deliver"]
    BY <1>6 DEF Alloc, Goto, localVars
  <2>2. pc[t] \in Distributing /\ (\A u \in Thread : u # t => pc'[u] = pc[u])
    BY <1>0, <2>1 DEF Distributing
  <2>3. Loc(n, b) # NoLoc
    <3>1. n \in Node
      BY <2>1 DEF StoreInv, Targeted
    <3>. QED BY <3>1, BitInt, LocFacts
  <2>4. Current(t) \in Index /\ t \in Holder /\ Half(t) \in {0, 1}
    BY <2>2, CurrentInIndex, HoldersApart DEF StoreInv, Half
  <2>5. /\ \A i \in Index : copies[<<t, i, 0>>] # NoLoc => copies'[<<t, i, 0>>] # NoLoc
        /\ copies'[<<t, Current(t), 0>>] # NoLoc
    <3>1. \A s \in Slot : copies'[s] = IF s = <<t, Current(t), Half(t)>> THEN Loc(n, b) ELSE copies[s]
      BY <2>1 DEF StoreInv, StoreTypeOK
    <3>2. \A i \in Index : <<t, i, 0>> \in Slot
      BY <2>4, SlotFacts
    <3>. QED BY <2>3, <2>4, <3>1, <3>2 DEF Half, Copy
  <2>6. Tally(t)'
    BY <2>1, <2>5, TallyAlloc
  <2>. QED BY <2>1, <2>2, <2>6, TallyOne DEF Tallies
<1>7. CASE Deliver(t)
  <2>1. /\ pc[t] = "deliver" /\ pc' = [pc EXCEPT ![t] = "send"] /\ UNCHANGED <<copies, source>>
        /\ next' = [next EXCEPT ![t] = @ + 1] /\ saved' = [saved EXCEPT ![t] = @ + 1]
    BY <1>7 DEF Deliver, Goto, tableVars
  <2>2. pc[t] \in Distributing /\ pc'[t] = "send" /\ (\A u \in Thread : u # t => pc'[u] = pc[u])
    BY <1>0, <2>1 DEF Distributing
  <2>3. /\ next[t] \in Nat /\ next'[t] = next[t] + 1
        /\ saved[t] \in Nat /\ saved'[t] = saved[t] + 1 /\ saved' \in [Thread -> Nat]
    BY <2>1, <2>2, PassTypes DEF StoreInv, Control, Tallies
  <2>4. Tally(t) /\ Blocks(source[t])' = Blocks(source[t])
    BY <2>1, <2>2 DEF Tallies, Blocks
  <2>5. \A i \in Index : Placed(t, i)' <=> Placed(t, i)
    BY <2>1, <2>2, <2>3 DEF Placed, Index
  <2>6. saved'[t] <= next'[t] /\ (saved'[t] = next'[t] => saved[t] = next[t])
    BY <2>3, <2>4 DEF Tally
  <2>7. Tally(t)'
    BY <2>1, <2>4, <2>5, <2>6 DEF Tally, Copy
  <2>. QED BY <2>2, <2>3, <2>7, TallyOne
<1>8. CASE Finish(t)
  <2>1. /\ pc[t] = "send" /\ saved' = saved
        /\ pc' = [pc EXCEPT ![t] = IF t = Console THEN "idle" ELSE "reply"]
    BY <1>8 DEF Finish, Return, Goto, localVars
  <2>2. /\ pc[t] \in Distributing /\ pc'[t] \notin Distributing
        /\ \A u \in Thread : u # t => pc'[u] = pc[u]
    BY <1>0, <2>1 DEF Distributing
  <2>. QED BY <2>1, <2>2, TallyOne DEF Tallies
<1>. QED BY <1>1, <1>2, <1>3, <1>4, <1>5, <1>6, <1>7, <1>8 DEF Cpfrom

\* An allocation that overlaps a release keeps the tallies.
LEMMA RacingTallied ==
  ASSUME StoreInv, Tallies, NEW t \in Storer, NEW s \in doomed, RacingFree(t, s)
  PROVE  Tallies'
<1>. DEFINE n == target[t]
            removing == pc[Console] = "rmb"
<1>0. t \in Thread /\ Console \in Thread /\ t # Console /\ t \in Holder
  BY StoreAssumption, HoldersApart DEF Thread
<1>1. PICK b \in Bit(n) :
        /\ copies' = [copies EXCEPT ![<<t, Current(t), Half(t)>>] = Loc(n, b),
                                    ![s] = IF removing THEN NoLoc ELSE @]
        /\ UNCHANGED <<saved, source, next>> /\ pc[t] = "alloc" /\ pc[Console] \in {"rm", "rmb"}
        /\ pc' = [pc EXCEPT ![t] = "deliver", ![Console] = IF removing THEN "idle" ELSE @]
  BY DEF RacingFree, localVars
<1>2. Loc(n, b) # NoLoc
  <2>1. n \in Node
    BY <1>0, <1>1 DEF StoreInv, Targeted
  <2>. QED BY <2>1, BitInt, LocFacts
<1>3. Current(t) \in Index /\ Half(t) \in {0, 1} /\ pc[t] \in Distributing
  BY <1>0, <1>1, CurrentInIndex DEF StoreInv, Half, Distributing
<1>4. \A i \in Index, c \in {0, 1} : <<t, i, c>> # s
  <2>1. s \in Slot /\ s[1] \in table
    BY <1>1 DEF StoreInv, Dooming, StoreTypeOK
  <2>2. s[1] # t
    BY <1>0, <2>1, HoldersApart DEF StoreInv, StoreTypeOK
  <2>. QED BY <2>1, <2>2, SlotParts
<1>. HIDE DEF n, removing
<1>5. /\ \A i \in Index : copies[<<t, i, 0>>] # NoLoc => copies'[<<t, i, 0>>] # NoLoc
      /\ copies'[<<t, Current(t), 0>>] # NoLoc
  <2>1. \A r \in Slot : r # s => copies'[r] = IF r = <<t, Current(t), Half(t)>> THEN Loc(n, b)
                                               ELSE copies[r]
    BY <1>1 DEF StoreInv, StoreTypeOK
  <2>2. \A i \in Index : <<t, i, 0>> \in Slot /\ <<t, i, 0>> # s
    BY <1>0, <1>4, SlotFacts
  <2>. QED BY <1>2, <1>3, <2>1, <2>2 DEF Half, Copy
<1>6. Tally(t)'
  BY <1>0, <1>1, <1>5, TallyAlloc
<1>7. \A u \in Thread : pc'[u] \in Distributing => u = t
  <2>1. \A u \in Thread : u # t /\ pc'[u] \in Distributing => pc[u] \in Distributing
    BY <1>0, <1>1 DEF StoreInv, StoreTypeOK, Distributing, removing
  <2>. QED BY <1>0, <1>3, <2>1, OnlyOne
<1>. QED BY <1>1, <1>6, <1>7 DEF Tallies

\* Every other step leaves the threads that distribute where they are, and
\* their copies to them.
LEMMA NextTallied ==
  ASSUME StoreInv, StoreInv', Tallies, Next
  PROVE  Tallies'
<1>0. /\ pc \in [Thread -> {"new", "idle", "exit", "write", "lock", "plan", "send", "alloc",
                          "deliver", "reply", "done", "rm", "rmb", "cpask", "cpwait", "cpput"}]
      /\ Console \in Thread /\ Storer \subseteq Thread
  BY DEF StoreInv, StoreTypeOK, Thread
<1>1. ASSUME UNCHANGED <<saved, next, source>>,
             UNCHANGED pc \/ \E t \in Thread, l \in {"done", "write", "lock", "idle", "rm", "rmb",
                                                   "cpask", "cpwait", "cpput"} :
                              pc' = [pc EXCEPT ![t] = l],
             \A t \in Thread, i \in Index : copies'[<<t, i, 0>>] = copies[<<t, i, 0>>]
      PROVE  Tallies'
  <2>1. \A u \in Thread : pc'[u] \in Distributing => pc'[u] = pc[u]
    BY <1>0, <1>1 DEF Distributing
  <2>. QED BY <1>1, <2>1, TallyFrame
<1>2. CASE \E t \in Storer : StorerStep(t)
  <2>. SUFFICES ASSUME NEW t \in Storer, StorerStep(t) PROVE Tallies'
    BY <1>2
  <2>1. CASE (\E f \in File : Request(t, f)) \/ WriteLocal(t) \/ Reply(t)
    BY <1>0, <1>1, <2>1 DEF Request, WriteLocal, Reply, Goto, tableVars, localVars
  <2>. QED BY <1>0, <2>1, CpfromTallied DEF StorerStep
<1>3. CASE Operator
  <2>1. /\ UNCHANGED <<saved, next, source, copies>>
        /\ UNCHANGED pc \/ \E l \in {"lock", "rm", "rmb", "cpask"} : pc' = [pc EXCEPT ![Console] = l]
    <3>. USE DEF Goto, tableVars, localVars
    <3>1. ASSUME NEW f \in File, CmdCpfrom(f) \/ CmdRm(f) PROVE <2>1!:
      BY <3>1 DEF CmdCpfrom, CmdRm
    <3>2. ASSUME NEW r \in File \X Index \X {0, 1}, CmdRmBlock(r) PROVE <2>1!:
      BY <3>2 DEF CmdRmBlock
    <3>3. ASSUME NEW f \in File, NEW i \in Index, NEW n \in Node, CmdCpblock(f, i, n) PROVE <2>1!:
      BY <3>3 DEF CmdCpblock
    <3>. QED BY <1>3, <3>1, <3>2, <3>3 DEF Operator
  <2>. QED BY <1>0, <1>1, <2>1
<1>4. CASE ConsoleStep
  <2>1. CASE Cpfrom(Console)
    BY <1>0, <2>1, CpfromTallied
  <2>2. ASSUME NEW s \in doomed, RmCopy(s) PROVE Tallies'
    BY <1>1, <2>2 DEF RmCopy, tableVars, localVars
  <2>3. CASE CpAsk \/ CpReceive
    BY <1>0, <1>1, <2>3 DEF CpAsk, CpReceive, Goto, tableVars, localVars
  <2>4. ASSUME NEW s \in doomed, RmBlock(s) PROVE Tallies'
    <3>1. /\ UNCHANGED <<saved, next, source>> /\ pc[Console] = "rmb"
          /\ pc' = [pc EXCEPT ![Console] = "idle"] /\ copies' = [copies EXCEPT ![s] = NoLoc]
      BY <2>4 DEF RmBlock, Goto, localVars
    <3>2. s \in Slot /\ s[1] \in File
      BY <3>1 DEF StoreInv, Dooming, StoreTypeOK
    <3>3. \A t \in Thread, i \in Index : <<t, i, 0>> \in Slot /\ <<t, i, 0>> # s
      <4>1. s = <<s[1], s[2], s[3]>>
        BY <3>2, SlotParts
      <4>2. ASSUME NEW t \in Thread, NEW i \in Index PROVE <<t, i, 0>> # s
        <5>1. t # s[1]
          BY <3>2, HoldersApart
        <5>. QED BY <4>1, <5>1
      <4>3. ASSUME NEW t \in Thread, NEW i \in Index PROVE <<t, i, 0>> \in Slot
        BY HoldersApart, SlotFacts
      <4>. QED BY <4>2, <4>3
    <3>4. \A t \in Thread, i \in Index : copies'[<<t, i, 0>>] = copies[<<t, i, 0>>]
      BY <3>1, <3>3 DEF StoreInv, StoreTypeOK
    <3>. QED BY <1>0, <1>1, <3>1, <3>4
  <2>5. CASE RmEnd
    <3>1. /\ UNCHANGED <<saved, next, source>> /\ pc' = [pc EXCEPT ![Console] = "idle"]
          /\ copies' = [s \in Slot |-> IF s[1] = path[Console] THEN NoLoc ELSE copies[s]]
          /\ path[Console] \in File
      BY <2>5 DEF RmEnd, Goto, localVars, StoreInv, Dooming, StoreTypeOK
    <3>2. \A t \in Thread, i \in Index : <<t, i, 0>> \in Slot /\ t # path[Console]
      BY <3>1, HoldersApart, SlotFacts
    <3>3. \A t \in Thread, i \in Index : copies'[<<t, i, 0>>] = copies[<<t, i, 0>>]
      BY <3>1, <3>2
    <3>. QED BY <1>0, <1>1, <3>1, <3>3
  <2>6. CASE CpPut
    <3>1. /\ UNCHANGED <<saved, next, source>> /\ pc[Console] = "cpput"
          /\ pc' = [pc EXCEPT ![Console] = "idle"]
          /\ copies' = [copies EXCEPT ![<<cp.file, cp.index, cp.half>>] = cp.to]
      BY <2>6 DEF CpPut, Goto, localVars
    <3>2. cp.file \in File
      BY <3>1 DEF StoreInv, CpReady, Copying, StoreTypeOK
    <3>3. \A t \in Thread, i \in Index :
            <<t, i, 0>> \in Slot /\ <<t, i, 0>> # <<cp.file, cp.index, cp.half>>
      BY <3>2, HoldersApart, SlotFacts
    <3>4. \A t \in Thread, i \in Index : copies'[<<t, i, 0>>] = copies[<<t, i, 0>>]
      BY <3>1, <3>3 DEF StoreInv, StoreTypeOK
    <3>. QED BY <1>0, <1>1, <3>1, <3>4
  <2>. QED BY <1>4, <2>1, <2>2, <2>3, <2>4, <2>5, <2>6 DEF ConsoleStep
<1>5. CASE Race
  BY <1>5, RacingTallied DEF Race
<1>6. CASE \E n \in Node : Handler(n) \/ Write(n) \/ Drop(n) \/ Reconnect(n)
  BY <1>1, <1>6 DEF Handler, HandleSend, HandleRecv, Write, Drop, Reconnect, tableVars, localVars
<1>. QED BY <1>2, <1>3, <1>4, <1>5, <1>6 DEF Next

\* What a store counted as saved was placed, whatever fails meanwhile (saved in
\* add_blocks_from_file).
THEOREM AllTallied == Spec => []Tallies
<1>1. Init => Tallies
  BY DEF Init, Tallies, Distributing, Thread
<1>2. StoreInv /\ StoreInv' /\ Tallies /\ [Next]_vars => Tallies'
  <2>1. ASSUME Tallies, UNCHANGED vars PROVE Tallies'
    BY <2>1, TallyFrame DEF vars, tableVars, localVars
  <2>. QED BY <2>1, NextTallied
<1>3. Spec => []StoreInv
  BY StoreInvariant
<1>. QED BY <1>1, <1>2, <1>3, PTL DEF Spec

\* An empty store has no entries.
LEMMA InitKept == Init => KeptInv
<1>. SUFFICES ASSUME Init PROVE KeptInv
  OBVIOUS
<1>1. table = {} /\ \A t \in Thread : pc[t] \in {"idle", "new"}
  BY DEF Init
<1>2. Console \in Thread /\ \A t \in Thread : pc[t] \notin Distributing
  BY <1>1 DEF Thread, Distributing
<1>. QED BY <1>1, <1>2 DEF KeptInv, Entered, Spare, FirstPass, Scarce, KeepsACopy

\* Stuttering keeps KeptInv.
LEMMA StutterKept ==
  ASSUME StoreInv, StoreInv', KeptInv, UNCHANGED vars
  PROVE  KeptInv'
<1>1. UNCHANGED <<table, src, copies, pc, next, target, source, path, handler, up, free, doomed>>
      /\ UNCHANGED toSend
  BY DEF vars, nodeVars, linkVars, dataVars, tableVars, countVars, localVars, consoleVars
<1>2. \A n \in Node : (Active(n) => Active(n)') /\ free[n] <= free'[n]
  BY <1>1 DEF Active, StoreInv, StoreTypeOK
<1>. QED BY <1>1, <1>2, KeptFrame

\* Every step keeps KeptInv as long as the stores that may lack room are
\* undisturbed.
LEMMA NextKept ==
  ASSUME StoreInv, StoreInv', KeptInv, Tallies, Undisturbed, Next
  PROVE  KeptInv'
<1>0. \A t \in Thread : Cpfrom(t) => KeptInv'
  BY LockKept, PlanKept, AbortKept, BalanceKept, FullKept, AllocKept, DeliverKept, FinishKept
     DEF Cpfrom
<1>1. CASE \E t \in Storer : StorerStep(t)
  BY <1>0, <1>1, WorkerKept DEF StorerStep, Thread
<1>2. CASE Operator
  BY <1>2, ConsoleKept, CmdRmBlockKept DEF Operator
<1>3. CASE ConsoleStep
  BY <1>0, <1>3, RmCopyKept, RmBlockKept, RmEndKept, ConsoleKept, CpPutKept
     DEF ConsoleStep, Thread
<1>4. CASE Race
  BY <1>4, RacingKept DEF Race
<1>5. CASE \E n \in Node : Handler(n) \/ Write(n) \/ Drop(n) \/ Reconnect(n)
  BY <1>5, NetworkKept DEF Handler
<1>. QED BY <1>1, <1>2, <1>3, <1>4, <1>5 DEF Next

\* Every block of every stored file has a copy, of any number of files, nodes
\* and threads, whatever is removed meanwhile, however the updates race and
\* whatever connections are lost; only while a file is distributed that found no
\* room for two copies of every block must no connection be lost and cpblock add
\* no copy (filetable.c add_blocks_from_file, filetable_rm_block).
THEOREM EveryBlockKept == Spec /\ [][Undisturbed]_vars => []KeepsACopy
<1>1. Init => KeptInv
  BY InitKept
<1>2. StoreInv /\ StoreInv' /\ KeptInv /\ Tallies /\ [Next]_vars /\ [Undisturbed]_vars => KeptInv'
  BY NextKept, StutterKept
<1>3. KeptInv => KeepsACopy
  BY DEF KeptInv
<1>4. Spec => []StoreInv
  BY StoreInvariant
<1>5. Spec => []Tallies
  BY AllTallied
<1>. QED BY <1>1, <1>2, <1>3, <1>4, <1>5, PTL DEF Spec

\* A step that changes src adds an entry or removes one.
LEMMA SourcesChange ==
  ASSUME StoreInv, Next, NEW f \in table, f \in table'
  PROVE  src'[f] = src[f]
<1>. USE DEF tableVars
<1>. table \subseteq File /\ src \in [File -> Thread \cup {Nobody}]
  BY DEF StoreInv, StoreTypeOK
<1>1. ASSUME NEW t \in Thread, Cpfrom(t) PROVE src'[f] = src[f]
  <2>1. CASE Finish(t)
    BY <2>1 DEF Finish, Added
  <2>2. CASE Lock(t) \/ Plan(t) \/ Abort(t) \/ Balance(t) \/ Full(t) \/ Alloc(t) \/ Deliver(t)
    BY <2>2 DEF Lock, Plan, Abort, Balance, Full, Alloc, Deliver
  <2>. QED BY <1>1, <2>1, <2>2 DEF Cpfrom
<1>2. CASE \E t \in Storer : StorerStep(t)
  BY <1>1, <1>2 DEF StorerStep, Thread, Request, WriteLocal, Reply
<1>3. CASE Operator
  BY <1>3 DEF Operator, CmdCpfrom, CmdRm, CmdRmBlock, CmdCpblock
<1>4. CASE ConsoleStep
  <2>1. CASE RmEnd
    BY <2>1 DEF RmEnd
  <2>2. CASE (\E s \in doomed : RmCopy(s) \/ RmBlock(s)) \/ CpAsk \/ CpReceive \/ CpPut
    BY <2>2 DEF RmCopy, RmBlock, CpAsk, CpReceive, CpPut
  <2>. QED BY <1>1, <1>4, <2>1, <2>2 DEF ConsoleStep, Thread
<1>5. CASE Race
  BY <1>5 DEF Race, RacingFree
<1>6. CASE \E n \in Node : Handler(n) \/ Write(n) \/ Drop(n) \/ Reconnect(n)
  BY <1>6 DEF Handler, HandleSend, HandleRecv, Write, Drop, Reconnect
<1>. QED BY <1>2, <1>3, <1>4, <1>5, <1>6 DEF Next

\* The entry of a path is never replaced by another file while it is there, in
\* any interleaving of workers, rm and losses (filetable_add, filetable_remove).
THEOREM EntriesStay == Spec => EntriesAreStable
<1>1. StoreInv /\ [Next]_vars => [\A f \in table \cap table' : src'[f] = src[f]]_vars
  BY SourcesChange
<1>2. Spec => []StoreInv
  BY StoreInvariant
<1>. QED BY <1>1, <1>2, PTL DEF Spec, EntriesAreStable
-----------------------------------------------------------------------------
(* The last block of a store is sent before its block file goes.           *)

\* What a store may still take, as the sum of a function that is that of a state.
LeftAdds == \A t \in Thread : \A f : f = Takes(t) => Left(t) = SumOf(f, Node)

\* Left is a sum.
LEMMA LeftIsSum == LeftAdds
  BY DEF LeftAdds, Left, SumOf

\* LeftIsSum, in the next state.
LEMMA LeftIsSumNext == LeftAdds'
  BY LeftIsSum, PTL

\* As long as the counters are right they are not negative.
LEMMA FreeNat ==
  ASSUME SpaceInv, NEW n \in Node
  PROVE  free[n] \in Nat
<1>1. Total[n] \in Nat \ {0} /\ bitmap[n] \subseteq 0 .. Total[n] - 1
  BY StoreAssumption DEF SpaceInv, InRange
<1>2. IsFiniteSet(0 .. Total[n] - 1)
  BY <1>1, FS_Interval
<1>4. Cardinality(0 .. Total[n] - 1) = Total[n]
  BY <1>1, FS_Interval
<1>3. Cardinality(bitmap[n]) <= Total[n] /\ Cardinality(bitmap[n]) \in Nat
  BY <1>1, <1>2, <1>4, FS_Subset, FS_CardinalityType
<1>. QED BY <1>1, <1>3 DEF SpaceInv, FreeIsComplement

\* Left is not negative.
LEMMA LeftNat ==
  ASSUME SpaceInv, NEW t \in Thread
  PROVE  Left(t) \in Nat
<1>1. PICK f : f = Takes(t)
  OBVIOUS
<1>2. \A n \in Node : f[n] \in Nat
  BY <1>1, FreeNat DEF Takes
<1>3. SumOf(f, Node) \in Nat
  BY <1>2, SumNat
<1>. QED BY <1>1, <1>3, LeftIsSum DEF LeftAdds

\* Left falls with what may be taken.
LEMMA LeftFalls ==
  ASSUME StoreTypeOK, StoreTypeOK', NEW t \in Thread,
         \A n \in Node : Takes(t)'[n] <= Takes(t)[n]
  PROVE  Left(t) \in Int /\ Left(t)' \in Int /\ Left(t)' <= Left(t)
<1>1. PICK f : f = Takes(t)
  OBVIOUS
<1>2. PICK g : g = Takes(t)'
  OBVIOUS
<1>3. \A n \in Node : f[n] \in Int /\ g[n] \in Int /\ g[n] <= f[n]
  BY <1>1, <1>2 DEF Takes, StoreTypeOK
<1>4. IsFiniteSet(Node)
  BY StoreAssumption
<1>5. SumOf(g, Node) <= SumOf(f, Node) /\ SumOf(f, Node) \in Int /\ SumOf(g, Node) \in Int
  BY <1>3, <1>4, SumBelow, SumType
<1>6. Left(t) = SumOf(f, Node) /\ Left(t)' = SumOf(g, Node)
  <2>1. \A e : e = Takes(t)' => Left(t)' = SumOf(e, Node)
    BY LeftIsSumNext DEF LeftAdds
  <2>. QED BY <1>1, <1>2, <2>1, LeftIsSum DEF LeftAdds
<1>. QED BY <1>5, <1>6

\* An allocation takes one of them.
LEMMA LeftTaken ==
  ASSUME StoreTypeOK, StoreTypeOK', NEW t \in Thread, NEW m \in Node,
         \A n \in Node \ {m} : Takes(t)'[n] <= Takes(t)[n],
         Takes(t)'[m] <= Takes(t)[m] - 1
  PROVE  Left(t) \in Int /\ Left(t)' \in Int /\ Left(t)' <= Left(t) - 1
<1>1. PICK f : f = Takes(t)
  OBVIOUS
<1>2. PICK g : g = Takes(t)'
  OBVIOUS
<1>. DEFINE h == [n \in Node |-> IF n = m THEN f[n] - 1 ELSE f[n]]
<1>3. h[m] = f[m] - 1 /\ \A n \in Node \ {m} : f[n] = h[n]
  OBVIOUS
<1>4. \A n \in Node : f[n] \in Int /\ g[n] \in Int /\ h[n] \in Int /\ g[n] <= h[n]
  BY <1>1, <1>2 DEF Takes, StoreTypeOK
<1>. HIDE DEF h
<1>5. IsFiniteSet(Node)
  BY StoreAssumption
<1>6. SumOf(g, Node) <= SumOf(h, Node) /\ SumOf(f, Node) \in Int /\ SumOf(g, Node) \in Int
  BY <1>4, <1>5, SumBelow, SumType
<1>7. SumOf(h, Node) = SumOf(f, Node) + h[m] - f[m]
  <2>1. \A x \in Node : f[x] \in Int /\ h[x] \in Int
    BY <1>4
  <2>2. \A x \in Node \ {m} : f[x] = h[x]
    BY <1>3
  <2>3. SumOf(f, Node) = f[m] + SumOf(f, Node \ {m})
    BY <1>5, <2>1, SumTakes
  <2>4. SumOf(h, Node) = h[m] + SumOf(h, Node \ {m})
    BY <1>5, <2>1, SumTakes
  <2>5. IsFiniteSet(Node \ {m})
    BY <1>5, FS_Subset
  <2>6. SumOf(f, Node \ {m}) = SumOf(h, Node \ {m})
    BY <2>2, <2>5, SumSame
  <2>7. SumOf(h, Node \ {m}) \in Int /\ f[m] \in Int /\ h[m] \in Int
    BY <2>1, <2>5, SumType
  <2>. QED BY <2>3, <2>4, <2>6, <2>7
<1>8. h[m] - f[m] = -1 /\ h[m] \in Int /\ f[m] \in Int
  BY <1>3, <1>4
<1>9. Left(t) = SumOf(f, Node) /\ Left(t)' = SumOf(g, Node)
  <2>1. \A e : e = Takes(t)' => Left(t)' = SumOf(e, Node)
    BY LeftIsSumNext DEF LeftAdds
  <2>. QED BY <1>1, <1>2, <2>1, LeftIsSum DEF LeftAdds
<1>. QED BY <1>6, <1>7, <1>8, <1>9

\* A thread that does not move, while no node joins and nobody frees blocks.
LEMMA CountsFrame ==
  ASSUME StoreInv, StoreInv', SpaceInv, SpaceInv', SentInv, NEW t \in Thread,
         pc[t] \in Distributing, pc'[t] = pc[t],
         UNCHANGED <<mbox, sent, toSend, sleep, saved, next, target, source>>,
         \A n \in Node : (Active(n)' => Active(n)) /\ free'[n] <= free[n]
  PROVE  Counts(t)'
<1>1. \A n \in Node : Takes(t)'[n] <= Takes(t)[n]
  BY FreeNat DEF Takes, StoreInv, StoreTypeOK
<1>2. Left(t) \in Int /\ Left(t)' \in Int /\ Left(t)' <= Left(t)
  BY <1>1, LeftFalls DEF StoreInv
<1>3. Sending' = Sending /\ Blocks(source[t])' = Blocks(source[t])
  BY DEF Sending, Blocks
<1>4. Counts(t) /\ saved[t] \in Nat
  BY DEF SentInv
<1>5. \A n \in Sending : mbox'[n] = mbox[n]
  OBVIOUS
<1>6. LET now == IF pc[t] = "deliver" THEN 1 ELSE 0
      IN  toSend = 2 * Blocks(source[t]) \/ Left(t)' + saved[t] + now <= toSend
  BY <1>2, <1>4 DEF Counts
<1>. QED BY <1>3, <1>4, <1>5, <1>6 DEF Counts

\* Nobody distributes while rm or rm -b release blocks.
LEMMA RemovingAlone ==
  ASSUME SpaceInv, pc[Console] \in {"rm", "rmb"}
  PROVE  ~AnyDistributes
  BY DEF SpaceInv, Quiet, Storing, Distributing, AnyDistributes, Thread

\* Steps that let each thread's distribution be.
LEMMA SentFrame ==
  ASSUME StoreInv, StoreInv', SpaceInv, SpaceInv', SentInv,
         UNCHANGED <<mbox, sent, toSend, sleep, saved, next, target, source>>,
         \A t \in Thread : pc[t] \in Distributing \/ pc'[t] \in Distributing => pc'[t] = pc[t],
         pc'[Console] \notin Copying,
         AnyDistributes => \A n \in Node : (Active(n)' => Active(n)) /\ free'[n] <= free[n]
  PROVE  SentInv'
<1>1. ASSUME NEW t \in Thread, pc'[t] \in Distributing PROVE Counts(t)'
  <2>1. pc[t] \in Distributing /\ pc'[t] = pc[t]
    BY <1>1
  <2>2. \A n \in Node : (Active(n)' => Active(n)) /\ free'[n] <= free[n]
    BY <2>1 DEF AnyDistributes
  <2>. QED BY <2>1, <2>2, CountsFrame
<1>2. \A t \in Thread : pc'[t] \notin Distributing => sleep'[t] = 0
  BY DEF SentInv
<1>3. ~AnyDistributes' => Sending' = {}
  BY DEF SentInv, AnyDistributes, Sending
<1>4. sleep' \in [Thread -> Nat] /\ saved' \in [Thread -> Nat] /\ mbox' = [n \in Node |-> mbox'[n]]
  BY DEF SentInv
<1>. QED BY <1>1, <1>2, <1>3, <1>4 DEF SentInv

\* Steps of the thread that is in add_blocks_from_file.
LEMMA OneSends ==
  ASSUME StoreInv, SentInv, NEW t \in Thread, pc[t] \in {"plan"} \cup Distributing,
         \A u \in Thread : u # t => pc'[u] = pc[u] /\ sleep'[u] = sleep[u],
         IF pc'[t] \in Distributing THEN Counts(t)' ELSE sleep'[t] = 0 /\ Sending' = {},
         pc'[t] \notin Copying,
         sleep' \in [Thread -> Nat], saved' \in [Thread -> Nat], mbox' = [n \in Node |-> mbox'[n]]
  PROVE  SentInv'
<1>1. \A u \in Thread : u # t => pc[u] \notin Distributing /\ pc'[u] \notin Distributing
  BY OnlyOne
<1>2. \A u \in Thread : pc'[u] \in Distributing => Counts(u)'
  BY <1>1
<1>3. \A u \in Thread : pc'[u] \notin Distributing => sleep'[u] = 0
  BY <1>1 DEF SentInv
<1>4. ~AnyDistributes' => Sending' = {}
  BY DEF AnyDistributes
<1>5. pc'[Console] \notin Copying
  BY DEF SentInv, Thread
<1>. QED BY <1>2, <1>3, <1>4, <1>5 DEF SentInv

\* The smaller of two.
LEMMA MinOfTwo ==
  ASSUME NEW a \in Int, NEW b \in Int
  PROVE  Min({a, b}) = IF a <= b THEN a ELSE b
  BY DEF Min

\* filetable_cpfrom begins to count: what may be taken is what it expects.
LEMMA PlanSent ==
  ASSUME StoreInv, StoreInv', SpaceInv, SpaceInv', SentInv, NEW t \in Thread, Plan(t)
  PROVE  SentInv'
<1>. DEFINE blocks == Blocks(LocalOf(t))
<1>1. /\ UNCHANGED <<mbox, sleep, free, up>> /\ Ping(Node)
      /\ pc[t] = "plan" /\ (blocks > 0 \/ FreeBlocks < blocks)
      /\ sent' = 0 /\ toSend' = Expected(blocks)
      /\ next' = [next EXCEPT ![t] = 0] /\ saved' = [saved EXCEPT ![t] = 0]
      /\ source' = [source EXCEPT ![t] = LocalOf(t)]
      /\ pc' = [pc EXCEPT ![t] = IF FreeBlocks < blocks
                                 THEN IF t = Console THEN "idle" ELSE "reply" ELSE "send"]
  BY DEF Plan, Return, Goto, nodeVars, dataVars
<1>2. /\ \A u \in Thread : u # t => pc'[u] = pc[u] /\ sleep'[u] = sleep[u]
      /\ pc'[t] = IF FreeBlocks < blocks
                  THEN IF t = Console THEN "idle" ELSE "reply" ELSE "send"
      /\ next'[t] = 0 /\ saved'[t] = 0 /\ source'[t] = LocalOf(t)
      /\ saved' \in [Thread -> Nat] /\ sleep' \in [Thread -> Nat]
      /\ mbox' = [n \in Node |-> mbox'[n]]
  BY <1>1 DEF StoreInv, StoreTypeOK, Control, SentInv
<1>3. Sending = {} /\ Sending' = {} /\ sleep'[t] = 0 /\ sleep[t] = 0
  <2>1. ~AnyDistributes
    BY <1>1, OnlyOne DEF AnyDistributes, Distributing
  <2>. QED BY <1>1, <2>1 DEF SentInv, Sending, Distributing
<1>4. ASSUME pc'[t] \in Distributing PROVE Counts(t)'
  <2>1. pc'[t] = "send" /\ ~(FreeBlocks < blocks)
    BY <1>2, <1>4 DEF Distributing
  <2>2. FreeBlocks \in Int
    BY FreeBlocksAreRoom DEF StoreInv
  <2>3. blocks \in Nat \ {0} /\ Blocks(source[t])' = blocks
    <3>1. source'[t] \in LocalFile /\ Blocks(source[t])' = blocks
      BY <1>2, <1>4 DEF StoreInv, Control, Blocks
    <3>2. blocks \in Nat
      BY <1>2, <3>1, StoreAssumption DEF Blocks, LocalFile
    <3>. QED BY <1>1, <2>1, <2>2, <3>1, <3>2
  <2>. HIDE DEF blocks
  <2>4. toSend' = IF FreeBlocks <= 2 * blocks THEN FreeBlocks ELSE 2 * blocks
    <3>1. 2 * blocks \in Int
      BY <2>3
    <3>. QED BY <1>1, <2>2, <3>1, MinOfTwo DEF Expected
  <2>5. toSend' \in Nat \ {0}
    BY <2>1, <2>2, <2>3, <2>4
  <2>6. Left(t)' \in Int /\ Left(t)' <= FreeBlocks
    <3>1. PICK g : g = Takes(t)'
      OBVIOUS
    <3>2. PICK A : A = {n \in Node : Active(n)}
      OBVIOUS
    <3>3. \A n \in Node : (Active(n)' => n \in A) /\ free'[n] = free[n]
      BY <1>1, <3>2 DEF Active, Ping, StoreInv, StoreTypeOK
    <3>4. \A n \in Node : g[n] \in Int /\ free[n] \in Nat /\ g[n] <= free[n] /\ (n \notin A => g[n] = 0)
      BY <2>1, <3>1, <3>3, FreeNat DEF Takes
    <3>5. IsFiniteSet(Node) /\ IsFiniteSet(A) /\ A \subseteq Node
      BY <3>2, StoreAssumption, FS_Subset
    <3>6. SumOf(g, Node) = SumOf(g, A)
      BY <3>4, <3>5, SumSupport
    <3>7. SumOf(g, A) <= SumOf(free, A) /\ SumOf(g, A) \in Int
      <4>1. \A n \in A : g[n] \in Int /\ free[n] \in Int /\ g[n] <= free[n]
        BY <3>4, <3>5
      <4>. QED BY <3>5, <4>1, SumBelow, SumType
    <3>8. Left(t)' = SumOf(g, Node)
      BY <3>1, LeftIsSumNext DEF LeftAdds
    <3>9. FreeBlocks = SumOf(free, A)
      BY <3>2, SumsOfBlocks
    <3>. QED BY <3>6, <3>7, <3>8, <3>9
  <2>7. Cardinality(Sending') = 0
    BY <1>3, FS_EmptySet
  <2>8. sleep'[t] = IF sent' = toSend' THEN 1 ELSE 0
    BY <1>1, <1>3, <2>5
  <2>9. toSend' = 2 * blocks \/ Left(t)' + 0 + 0 <= toSend'
    BY <2>2, <2>3, <2>4, <2>6
  <2>. QED BY <1>1, <1>2, <1>3, <2>1, <2>3, <2>5, <2>7, <2>8, <2>9 DEF Counts
<1>5. pc'[t] \notin Copying
  BY <1>2 DEF Copying
<1>. QED BY <1>1, <1>2, <1>3, <1>4, <1>5, OneSends

\* Nothing has been sent that was not saved, and less than all while something
\* waits.
LEMMA SentBelow ==
  ASSUME StoreInv, SpaceInv, SentInv, NEW t \in Thread, pc[t] \in Distributing
  PROVE  /\ IsFiniteSet(Sending) /\ Cardinality(Sending) \in Nat
         /\ Counts(t) /\ saved[t] \in Nat /\ sent \in Nat /\ toSend \in Nat \ {0}
         /\ saved[t] <= toSend
<1>1. IsFiniteSet(Sending) /\ Cardinality(Sending) \in Nat
  BY StoreAssumption, FS_Subset, FS_CardinalityType DEF Sending
<1>2. Counts(t) /\ saved[t] \in Nat /\ Left(t) \in Nat
  BY LeftNat DEF SentInv
<1>3. next[t] \in Nat /\ Blocks(source[t]) \in Nat
  BY PassTypes
<1>4. sent \in Nat /\ toSend \in Nat \ {0}
  BY <1>2 DEF Counts
<1>5. PICK now \in {0, 1} :
        /\ saved[t] + now <= next[t] + now /\ next[t] + now <= 2 * Blocks(source[t])
        /\ toSend = 2 * Blocks(source[t]) \/ Left(t) + saved[t] + now <= toSend
  BY <1>2 DEF Counts
<1>6. saved[t] <= toSend
  BY <1>2, <1>3, <1>4, <1>5
<1>. QED BY <1>1, <1>2, <1>4, <1>6

\* balance_node: the node it takes is one that could be taken.
LEMMA BalanceSent ==
  ASSUME StoreInv, StoreInv', SpaceInv, SpaceInv', SentInv, NEW t \in Thread, Balance(t)
  PROVE  SentInv'
<1>1. /\ UNCHANGED <<mbox, sleep, free, up, sent, toSend, saved, source>>
      /\ pc[t] = "send" /\ next[t] < 2 * Blocks(source[t])
      /\ \E Q \in SUBSET Others(t) : Ping(Q)
      /\ \/ next' = [next EXCEPT ![t] = @ + 1] /\ UNCHANGED pc
         \/ \E n \in Node : /\ Active(n) /\ target' = [target EXCEPT ![t] = n]
                            /\ pc' = [pc EXCEPT ![t] = "alloc"] /\ UNCHANGED next
  BY DEF Balance, Goto, nodeVars, dataVars, countVars, Others
<1>2. pc[t] \in Distributing /\ pc'[t] \in {"send", "alloc"} /\ pc'[t] \in Distributing
  BY <1>1 DEF Distributing, StoreInv, StoreTypeOK
<1>3. /\ Counts(t) /\ saved[t] \in Nat /\ next[t] \in Nat /\ Blocks(source[t]) \in Nat
      /\ toSend \in Nat
  BY <1>2, SentBelow, PassTypes
<1>4. \A n \in Node : Active(n)' => Active(n)
  BY <1>1 DEF Active, Ping, StoreInv, StoreTypeOK
<1>5. pc'[t] = "alloc" => Active(target'[t]) /\ next'[t] = next[t]
  BY <1>1 DEF StoreInv, StoreTypeOK
<1>6. \A n \in Node : Takes(t)'[n] <= Takes(t)[n]
  BY <1>1, <1>4, <1>5, FreeNat DEF Takes
<1>7. Left(t) \in Int /\ Left(t)' \in Int /\ Left(t)' <= Left(t)
  BY <1>6, LeftFalls DEF StoreInv
<1>8. next'[t] \in {next[t], next[t] + 1}
  BY <1>1 DEF StoreInv, Control
<1>9. saved'[t] <= next'[t] /\ next'[t] <= 2 * Blocks(source[t])
  <2>1. saved[t] + 0 <= next[t] + 0
    BY <1>1, <1>3 DEF Counts
  <2>. QED BY <1>1, <1>3, <1>8, <2>1
<1>10. toSend = 2 * Blocks(source[t]) \/ Left(t)' + saved[t] + 0 <= toSend
  <2>1. toSend = 2 * Blocks(source[t]) \/ Left(t) + saved[t] + 0 <= toSend
    BY <1>1, <1>3 DEF Counts
  <2>. QED BY <1>3, <1>7, <2>1
<1>11. Sending' = Sending /\ Blocks(source[t])' = Blocks(source[t])
  BY <1>1 DEF Sending, Blocks
<1>12. Counts(t)'
  <2>1. pc'[t] # "deliver" /\ pc[t] # "deliver"
    BY <1>1, <1>2
  <2>2. saved'[t] + 0 <= next'[t] + 0 /\ next'[t] + 0 <= 2 * Blocks(source[t])
    BY <1>1, <1>3, <1>8, <1>9
  <2>3. pc'[t] = "alloc" => next'[t] < 2 * Blocks(source[t])
    BY <1>1, <1>5
  <2>4. sent' + Cardinality(Sending') <= saved'[t] /\ sent' \in Nat /\ toSend' \in Nat \ {0}
    BY <1>1, <1>3, <1>11 DEF Counts
  <2>5. sleep'[t] = IF sent' = toSend' THEN 1 ELSE 0
    BY <1>1, <1>3 DEF Counts
  <2>6. \A n \in Sending' : mbox'[n].op = "send" /\ mbox'[n].from = t
    BY <1>1, <1>3, <1>11 DEF Counts
  <2>. QED BY <1>1, <1>10, <1>11, <2>1, <2>2, <2>3, <2>4, <2>5, <2>6 DEF Counts
<1>13. \A u \in Thread : u # t => pc'[u] = pc[u] /\ sleep'[u] = sleep[u]
  BY <1>1 DEF StoreInv, StoreTypeOK
<1>14. /\ sleep' \in [Thread -> Nat] /\ saved' \in [Thread -> Nat]
       /\ mbox' = [n \in Node |-> mbox'[n]]
  BY <1>1 DEF SentInv
<1>15. pc'[t] \notin Copying
  BY <1>2 DEF Copying
<1>. QED BY <1>2, <1>12, <1>13, <1>14, <1>15, OneSends

\* A node found full is passed over.
LEMMA FullSent ==
  ASSUME StoreInv, StoreInv', SpaceInv, SpaceInv', SentInv, NEW t \in Thread, Full(t)
  PROVE  SentInv'
<1>1. /\ UNCHANGED <<mbox, sleep, free, up, handler, sent, toSend, saved, source>>
      /\ pc[t] = "alloc" /\ pc' = [pc EXCEPT ![t] = "send"]
      /\ next' = [next EXCEPT ![t] = @ + 1]
  BY DEF Full, Goto, nodeVars, dataVars, countVars, linkVars
<1>2. pc[t] \in Distributing /\ pc'[t] = "send" /\ pc'[t] \in Distributing
  BY <1>1 DEF Distributing, StoreInv, StoreTypeOK
<1>3. /\ Counts(t) /\ saved[t] \in Nat /\ next[t] \in Nat /\ Blocks(source[t]) \in Nat
      /\ toSend \in Nat
  BY <1>2, SentBelow, PassTypes
<1>4. \A n \in Node : Takes(t)'[n] <= Takes(t)[n]
  BY <1>1, <1>2, FreeNat DEF Takes, Active
<1>5. Left(t) \in Int /\ Left(t)' \in Int /\ Left(t)' <= Left(t)
  BY <1>4, LeftFalls DEF StoreInv
<1>6. next'[t] = next[t] + 1
  BY <1>1 DEF StoreInv, Control
<1>7. saved'[t] + 0 <= next'[t] + 0 /\ next'[t] + 0 <= 2 * Blocks(source[t])
  <2>1. saved[t] + 0 <= next[t] + 0 /\ next[t] < 2 * Blocks(source[t])
    BY <1>1, <1>3 DEF Counts
  <2>. QED BY <1>1, <1>3, <1>6, <2>1
<1>8. toSend = 2 * Blocks(source[t]) \/ Left(t)' + saved[t] + 0 <= toSend
  <2>1. toSend = 2 * Blocks(source[t]) \/ Left(t) + saved[t] + 0 <= toSend
    BY <1>1, <1>3 DEF Counts
  <2>. QED BY <1>3, <1>5, <2>1
<1>9. Sending' = Sending /\ Blocks(source[t])' = Blocks(source[t])
  BY <1>1 DEF Sending, Blocks
<1>10. Counts(t)'
  <2>1. sent' + Cardinality(Sending') <= saved'[t] /\ sent' \in Nat /\ toSend' \in Nat \ {0}
    BY <1>1, <1>3, <1>9 DEF Counts
  <2>2. sleep'[t] = IF sent' = toSend' THEN 1 ELSE 0
    BY <1>1, <1>3 DEF Counts
  <2>3. \A n \in Sending' : mbox'[n].op = "send" /\ mbox'[n].from = t
    BY <1>1, <1>3, <1>9 DEF Counts
  <2>. QED BY <1>1, <1>2, <1>7, <1>8, <1>9, <2>1, <2>2, <2>3 DEF Counts
<1>11. \A u \in Thread : u # t => pc'[u] = pc[u] /\ sleep'[u] = sleep[u]
  BY <1>1 DEF StoreInv, StoreTypeOK
<1>12. /\ sleep' \in [Thread -> Nat] /\ saved' \in [Thread -> Nat]
       /\ mbox' = [n \in Node |-> mbox'[n]]
  BY <1>1 DEF SentInv
<1>13. pc'[t] \notin Copying
  BY <1>2 DEF Copying
<1>. QED BY <1>2, <1>10, <1>11, <1>12, <1>13, OneSends

\* nodelist_addblock takes one of the blocks that may be taken.
LEMMA AllocSent ==
  ASSUME StoreInv, StoreInv', SpaceInv, SpaceInv', SentInv, NEW t \in Thread, Alloc(t)
  PROVE  SentInv'
<1>. DEFINE m == target[t]
<1>1. /\ UNCHANGED <<mbox, sleep, up, handler, sent, toSend, saved, source, next>>
      /\ pc[t] = "alloc" /\ pc' = [pc EXCEPT ![t] = "deliver"]
      /\ free[m] # 0 /\ \E b \in Bit(m) : Mark(Loc(m, b))
  BY DEF Alloc, Goto, dataVars, countVars, linkVars, localVars
<1>2. pc[t] \in Distributing /\ pc'[t] = "deliver" /\ pc'[t] \in Distributing
  BY <1>1 DEF Distributing, StoreInv, StoreTypeOK
<1>3. /\ Counts(t) /\ saved[t] \in Nat /\ next[t] \in Nat /\ Blocks(source[t]) \in Nat
      /\ toSend \in Nat
  BY <1>2, SentBelow, PassTypes
<1>4. m \in Node
  BY <1>1 DEF StoreInv, Targeted
<1>5. free' = [free EXCEPT ![m] = @ - 1] /\ free[m] \in Nat \ {0}
  BY <1>1, <1>4, BitInt, LocFacts, FreeNat DEF Mark
<1>6. Left(t) \in Int /\ Left(t)' \in Int /\ Left(t)' <= Left(t) - 1
  <2>1. \A n \in Node \ {m} : free'[n] = free[n] /\ free[n] \in Nat
    BY <1>5, FreeNat DEF StoreInv, StoreTypeOK
  <2>2. free'[m] = free[m] - 1
    BY <1>4, <1>5 DEF StoreInv, StoreTypeOK
  <2>3. \A n \in Node \ {m} : Takes(t)'[n] <= Takes(t)[n]
    BY <1>1, <1>2, <2>1 DEF Takes, Active
  <2>4. Takes(t)[m] = free[m]
    BY <1>1, <1>4 DEF Takes
  <2>5. Takes(t)'[m] \in {free[m] - 1, 0}
    BY <1>2, <1>4, <2>2 DEF Takes
  <2>6. Takes(t)'[m] <= Takes(t)[m] - 1
    BY <1>5, <2>4, <2>5
  <2>. QED BY <1>4, <2>3, <2>6, LeftTaken DEF StoreInv
<1>7. saved[t] + 1 <= next[t] + 1 /\ next[t] + 1 <= 2 * Blocks(source[t])
  <2>1. saved[t] + 0 <= next[t] + 0 /\ next[t] < 2 * Blocks(source[t])
    BY <1>1, <1>3 DEF Counts
  <2>. QED BY <1>3, <2>1
<1>8. toSend = 2 * Blocks(source[t]) \/ Left(t)' + saved[t] + 1 <= toSend
  <2>1. toSend = 2 * Blocks(source[t]) \/ Left(t) + saved[t] + 0 <= toSend
    BY <1>1, <1>3 DEF Counts
  <2>. QED BY <1>3, <1>6, <2>1
<1>9. Sending' = Sending /\ Blocks(source[t])' = Blocks(source[t])
  BY <1>1 DEF Sending, Blocks
<1>10. Counts(t)'
  <2>1. sent' + Cardinality(Sending') <= saved'[t] /\ sent' \in Nat /\ toSend' \in Nat \ {0}
    BY <1>1, <1>3, <1>9 DEF Counts
  <2>2. sleep'[t] = IF sent' = toSend' THEN 1 ELSE 0
    BY <1>1, <1>3 DEF Counts
  <2>3. \A n \in Sending' : mbox'[n].op = "send" /\ mbox'[n].from = t
    BY <1>1, <1>3, <1>9 DEF Counts
  <2>. QED BY <1>1, <1>2, <1>7, <1>8, <1>9, <2>1, <2>2, <2>3 DEF Counts
<1>11. \A u \in Thread : u # t => pc'[u] = pc[u] /\ sleep'[u] = sleep[u]
  BY <1>1 DEF StoreInv, StoreTypeOK
<1>12. /\ sleep' \in [Thread -> Nat] /\ saved' \in [Thread -> Nat]
       /\ mbox' = [n \in Node |-> mbox'[n]]
  BY <1>1 DEF SentInv
<1>13. pc'[t] \notin Copying
  BY <1>2 DEF Copying
<1>. QED BY <1>2, <1>10, <1>11, <1>12, <1>13, OneSends

\* thread_send: one more is saved, and waits unless the node has no handler.
LEMMA DeliverSent ==
  ASSUME StoreInv, StoreInv', SpaceInv, SpaceInv', SentInv, NEW t \in Thread, Deliver(t)
  PROVE  SentInv'
<1>. DEFINE m == target[t]
<1>1. PICK msg :
        /\ SendTo(m, msg) /\ msg.op = "send" /\ msg.from = t
        /\ UNCHANGED <<free, up, handler, sleep, sent, toSend, source>>
        /\ pc[t] = "deliver" /\ pc' = [pc EXCEPT ![t] = "send"]
        /\ next' = [next EXCEPT ![t] = @ + 1] /\ saved' = [saved EXCEPT ![t] = @ + 1]
  BY DEF Deliver, Goto, nodeVars, dataVars, countVars
<1>2. pc[t] \in Distributing /\ pc'[t] = "send" /\ pc'[t] \in Distributing
  BY <1>1 DEF Distributing, StoreInv, StoreTypeOK
<1>3. /\ Counts(t) /\ saved[t] \in Nat /\ next[t] \in Nat /\ Blocks(source[t]) \in Nat
      /\ toSend \in Nat /\ sent \in Nat
      /\ IsFiniteSet(Sending) /\ Cardinality(Sending) \in Nat
  BY <1>2, SentBelow, PassTypes
<1>4. next'[t] = next[t] + 1 /\ saved'[t] = saved[t] + 1 /\ saved' \in [Thread -> Nat]
  BY <1>1 DEF StoreInv, Control, SentInv
<1>5. mbox' = [n \in Node |-> mbox'[n]]
  BY <1>1 DEF SendTo, SentInv
<1>6. Sending' \subseteq Sending \cup {m}
  BY <1>1 DEF SendTo, Sending, SentInv
<1>7. Cardinality(Sending') \in Nat /\ Cardinality(Sending') <= Cardinality(Sending) + 1
  <2>1. IsFiniteSet(Sending \cup {m})
    BY <1>3, FS_AddElement
  <2>2. Cardinality(Sending \cup {m}) \in {Cardinality(Sending), Cardinality(Sending) + 1}
    BY <1>3, FS_AddElement
  <2>3. Cardinality(Sending') \in Nat /\ Cardinality(Sending') <= Cardinality(Sending \cup {m})
    BY <1>6, <2>1, FS_Subset, FS_CardinalityType
  <2>. QED BY <1>3, <2>2, <2>3
<1>8. ASSUME NEW n \in Sending' PROVE mbox'[n].op = "send" /\ mbox'[n].from = t
  <2>1. CASE n = m /\ mbox'[m] = msg
    BY <1>1, <2>1
  <2>2. CASE mbox'[n] = mbox[n]
    <3>1. n \in Sending
      BY <2>2 DEF Sending
    <3>. QED BY <1>3, <2>2, <3>1 DEF Counts
  <2>3. mbox'[n] = mbox[n] \/ (n = m /\ mbox'[m] = msg)
    BY <1>1 DEF SendTo, SentInv, Sending
  <2>. QED BY <2>1, <2>2, <2>3
<1>9. \A n \in Node : Takes(t)'[n] <= Takes(t)[n]
  BY <1>1, <1>2, FreeNat DEF Takes, Active
<1>10. Left(t) \in Int /\ Left(t)' \in Int /\ Left(t)' <= Left(t)
  BY <1>9, LeftFalls DEF StoreInv
<1>11. PICK now \in {1} :
         /\ saved[t] + now <= next[t] + now /\ next[t] + now <= 2 * Blocks(source[t])
         /\ toSend = 2 * Blocks(source[t]) \/ Left(t) + saved[t] + now <= toSend
         /\ sent + Cardinality(Sending) <= saved[t]
  BY <1>1, <1>3 DEF Counts
<1>12. Blocks(source[t])' = Blocks(source[t])
  BY <1>1 DEF Blocks
<1>13. Counts(t)'
  <2>1. sent' + Cardinality(Sending') <= saved'[t] /\ sent' \in Nat /\ toSend' \in Nat \ {0}
    <3>1. toSend \in Nat \ {0}
      BY <1>3 DEF Counts
    <3>. QED BY <1>1, <1>3, <1>4, <1>7, <1>11, <3>1
  <2>2. sleep'[t] = IF sent' = toSend' THEN 1 ELSE 0
    BY <1>1, <1>3 DEF Counts
  <2>3. saved'[t] + 0 <= next'[t] + 0 /\ next'[t] + 0 <= 2 * Blocks(source[t])
    BY <1>3, <1>4, <1>11
  <2>4. toSend = 2 * Blocks(source[t]) \/ Left(t)' + saved'[t] + 0 <= toSend
    BY <1>3, <1>4, <1>10, <1>11
  <2>. QED BY <1>1, <1>2, <1>8, <1>12, <2>1, <2>2, <2>3, <2>4 DEF Counts
<1>14. \A u \in Thread : u # t => pc'[u] = pc[u] /\ sleep'[u] = sleep[u]
  BY <1>1 DEF StoreInv, StoreTypeOK
<1>15. sleep' \in [Thread -> Nat] /\ pc'[t] \notin Copying
  BY <1>1, <1>2 DEF SentInv, Copying
<1>. QED BY <1>2, <1>4, <1>5, <1>13, <1>14, <1>15, OneSends

\* thread_suspend: the thread that is woken has seen its last block sent.
LEMMA FinishSent ==
  ASSUME StoreInv, StoreInv', SpaceInv, SpaceInv', SentInv, NEW t \in Thread, Finish(t)
  PROVE  SentInv'
<1>1. /\ UNCHANGED <<mbox, saved>>
      /\ pc[t] = "send" /\ sleep[t] > 0 /\ sleep' = [sleep EXCEPT ![t] = @ - 1]
      /\ pc' = [pc EXCEPT ![t] = IF t = Console THEN "idle" ELSE "reply"]
  BY DEF Finish, Return, Goto, localVars, linkVars
<1>2. pc[t] \in Distributing /\ sleep \in [Thread -> Nat]
  BY <1>1 DEF Distributing, SentInv
<1>3. /\ Counts(t) /\ saved[t] <= toSend /\ saved[t] \in Nat /\ toSend \in Nat /\ sent \in Nat
      /\ IsFiniteSet(Sending) /\ Cardinality(Sending) \in Nat
  BY <1>2, SentBelow
<1>4. sent = toSend /\ sleep[t] = 1
  BY <1>1, <1>3 DEF Counts
<1>5. Cardinality(Sending) = 0
  <2>1. sent + Cardinality(Sending) <= saved[t]
    BY <1>3 DEF Counts
  <2>. QED BY <1>3, <1>4, <2>1
<1>6. Sending = {}
  BY <1>3, <1>5, FS_EmptySet
<1>7. Sending' = {}
  BY <1>1, <1>6 DEF Sending
<1>8. /\ pc'[t] \in {"idle", "reply"} /\ sleep'[t] = 0 /\ sleep' \in [Thread -> Nat]
      /\ \A u \in Thread : u # t => pc'[u] = pc[u] /\ sleep'[u] = sleep[u]
  BY <1>1, <1>2, <1>4 DEF StoreInv, StoreTypeOK
<1>9. saved' \in [Thread -> Nat] /\ mbox' = [n \in Node |-> mbox'[n]]
  BY <1>1 DEF SentInv
<1>10. pc'[t] \notin Copying /\ pc'[t] \notin Distributing
  BY <1>8 DEF Copying, Distributing
<1>. QED BY <1>2, <1>7, <1>8, <1>9, <1>10, OneSends

\* datanode_handler sends a block and counts it; at the last one it wakes bsent.th.
LEMMA HandleSent ==
  ASSUME StoreInv, StoreInv', SpaceInv, SpaceInv', SentInv, NEW m \in Node, HandleSend(m)
  PROVE  SentInv'
<1>1. /\ UNCHANGED <<free, up, handler, saved, toSend, waiter, pc, next, source, target>>
      /\ mbox[m] # NoMsg /\ mbox' = [mbox EXCEPT ![m] = NoMsg]
      /\ sent' = sent + 1
      /\ sleep' = IF sent + 1 = toSend THEN [sleep EXCEPT ![waiter] = @ + 1] ELSE sleep
  BY DEF HandleSend, SentBlock, nodeVars, localVars
<1>2. m \in Sending
  BY <1>1 DEF Sending
<1>3. PICK t \in Thread : pc[t] \in Distributing
  BY <1>2 DEF SentInv, AnyDistributes
<1>4. /\ Counts(t) /\ saved[t] <= toSend /\ saved[t] \in Nat /\ toSend \in Nat /\ sent \in Nat
      /\ IsFiniteSet(Sending) /\ Cardinality(Sending) \in Nat
  BY <1>3, SentBelow
<1>5. waiter = t
  BY <1>3 DEF StoreInv, Locked
<1>6. Sending' = Sending \ {m}
  BY <1>1, <1>2 DEF Sending, SentInv
<1>7. Cardinality(Sending') = Cardinality(Sending) - 1 /\ Cardinality(Sending) >= 1
  <2>1. Cardinality(Sending \ {m}) = Cardinality(Sending) - 1 /\ IsFiniteSet(Sending \ {m})
    BY <1>2, <1>4, FS_RemoveElement
  <2>2. Cardinality(Sending \ {m}) \in Nat
    BY <2>1, FS_CardinalityType
  <2>. QED BY <1>4, <1>6, <2>1, <2>2
<1>8. sent + Cardinality(Sending) <= saved[t]
  BY <1>4 DEF Counts
<1>9. sent < toSend /\ sleep[t] = 0
  <2>1. sent < toSend
    BY <1>4, <1>7, <1>8
  <2>. QED BY <1>4, <2>1 DEF Counts
<1>10. /\ sleep' \in [Thread -> Nat] /\ sleep'[t] = IF sent' = toSend' THEN 1 ELSE 0
       /\ \A u \in Thread : u # t => sleep'[u] = sleep[u]
  BY <1>1, <1>5, <1>9 DEF SentInv
<1>11. Left(t)' = Left(t)
  <2>1. PICK f : f = Takes(t)
    OBVIOUS
  <2>2. f = Takes(t)'
    BY <1>1, <2>1 DEF Takes, Active
  <2>. QED BY <2>1, <2>2, LeftIsSum, LeftIsSumNext DEF LeftAdds
<1>12. Counts(t)'
  <2>1. sent' + Cardinality(Sending') <= saved'[t] /\ sent' \in Nat
    BY <1>1, <1>4, <1>7, <1>8
  <2>2. \A n \in Sending' : mbox'[n].op = "send" /\ mbox'[n].from = t
    <3>1. \A n \in Sending' : n \in Sending /\ mbox'[n] = mbox[n]
      BY <1>1, <1>6 DEF Sending
    <3>. QED BY <1>4, <3>1 DEF Counts
  <2>3. Blocks(source[t])' = Blocks(source[t])
    BY <1>1 DEF Blocks
  <2>. QED BY <1>1, <1>4, <1>10, <1>11, <2>1, <2>2, <2>3 DEF Counts
<1>13. saved' \in [Thread -> Nat] /\ mbox' = [n \in Node |-> mbox'[n]]
  BY <1>1 DEF SentInv
<1>14. pc'[t] = pc[t] /\ pc'[t] \notin Copying /\ \A u \in Thread : pc'[u] = pc[u]
  BY <1>1, <1>3 DEF Distributing, Copying
<1>. QED BY <1>3, <1>10, <1>12, <1>13, <1>14, OneSends

\* What happens outside the distribution, and what Discipline and ConsoleOps
\* exclude.
LEMMA RestSent ==
  ASSUME StoreInv, StoreInv', SpaceInv, SpaceInv', SentInv, "cpblock" \notin ConsoleOps,
         NoneJoins, Next,
         ~ \E t \in Thread : \/ Plan(t) \/ Balance(t) \/ Full(t) \/ Alloc(t)
                             \/ Deliver(t) \/ Finish(t),
         ~ \E n \in Node : HandleSend(n)
  PROVE  SentInv'
<1>. DEFINE Frame ==
       /\ UNCHANGED <<mbox, sent, toSend, sleep, saved, next, target, source>>
       /\ \A t \in Thread : pc[t] \in Distributing \/ pc'[t] \in Distributing => pc'[t] = pc[t]
       /\ pc'[Console] \notin Copying
       /\ AnyDistributes => \A n \in Node : (Active(n)' => Active(n)) /\ free'[n] <= free[n]
<1>. USE DEF nodeVars, linkVars, dataVars, countVars, localVars
<1>0. Console \in Thread /\ Console \notin Storer /\ Storer \subseteq Thread
  BY StoreAssumption DEF Thread
<1>1. /\ \A n \in Node : free[n] <= free[n]
      /\ pc[Console] \notin Copying /\ pc \in [Thread -> {"new", "idle", "exit", "write", "lock",
           "plan", "send", "alloc", "deliver", "reply", "done", "rm", "rmb", "cpask", "cpwait",
           "cpput"}]
  BY DEF StoreInv, StoreTypeOK, SentInv
<1>2. CASE \E t \in Storer : (\E f \in File : Request(t, f)) \/ WriteLocal(t) \/ Reply(t)
  <2>1. PICK t \in Storer : (\E f \in File : Request(t, f)) \/ WriteLocal(t) \/ Reply(t)
    BY <1>2
  <2>2. /\ UNCHANGED <<mbox, sent, toSend, sleep, saved, next, target, source, handler, up, free>>
        /\ pc[t] \in {"new", "write", "reply"}
        /\ \E l \in {"done", "write", "lock"} : pc' = [pc EXCEPT ![t] = l]
    BY <2>1 DEF Request, WriteLocal, Reply, Goto
  <2>3. Frame
    BY <1>0, <1>1, <2>2 DEF Distributing, Copying, Active
  <2>. QED BY <2>3, SentFrame
<1>3. CASE \E t \in Thread : Lock(t)
  <2>1. PICK t \in Thread : Lock(t)
    BY <1>3
  <2>2. /\ UNCHANGED <<mbox, sent, toSend, sleep, saved, next, target, source, handler, up, free>>
        /\ pc[t] = "lock" /\ pc' = [pc EXCEPT ![t] = "plan"]
    BY <2>1 DEF Lock, Goto
  <2>3. Frame
    BY <1>0, <1>1, <2>2 DEF Distributing, Copying, Active
  <2>. QED BY <2>3, SentFrame
<1>4. CASE \E t \in Thread : Abort(t)
  <2>1. PICK t \in Thread : Abort(t)
    BY <1>4
  <2>2. /\ UNCHANGED <<mbox, sent, toSend, sleep, saved, next, target, source>>
        /\ pc[t] = "plan" /\ pc' = [u \in Thread |-> "exit"]
    BY <2>1 DEF Abort
  <2>3. \A u \in Thread : pc[u] \notin Distributing /\ pc'[u] = "exit"
    BY <2>2, OnlyOne DEF Distributing
  <2>4. Frame
    BY <1>0, <2>2, <2>3 DEF Distributing, Copying, AnyDistributes
  <2>. QED BY <2>4, SentFrame
<1>5. CASE Operator
  <2>1. /\ UNCHANGED <<mbox, sent, toSend, sleep, saved, next, target, source, handler, up, free>>
        /\ pc[Console] = "idle"
        /\ \E l \in {"lock", "rm", "rmb"} : pc' = [pc EXCEPT ![Console] = l]
    BY <1>5 DEF Operator, CmdCpfrom, CmdRm, CmdRmBlock, CmdCpblock, Command, Goto
  <2>2. Frame
    BY <1>0, <1>1, <2>1 DEF Distributing, Copying, Active
  <2>. QED BY <2>2, SentFrame
<1>6. CASE RmEnd \/ \E s \in doomed : RmCopy(s) \/ RmBlock(s)
  <2>1. /\ UNCHANGED <<mbox, sent, toSend, sleep, saved, next, target, source>>
        /\ pc[Console] \in {"rm", "rmb"}
        /\ UNCHANGED pc \/ pc' = [pc EXCEPT ![Console] = "idle"]
    BY <1>6 DEF RmEnd, RmCopy, RmBlock, Goto
  <2>2. ~AnyDistributes
    BY <2>1, RemovingAlone
  <2>3. Frame
    BY <1>0, <1>1, <2>1, <2>2 DEF Distributing, Copying
  <2>. QED BY <2>3, SentFrame
<1>7. CASE \E n \in Node : Write(n) \/ Drop(n) \/ Reconnect(n)
  <2>1. PICK n \in Node : Write(n) \/ Drop(n) \/ Reconnect(n)
    BY <1>7
  <2>2. UNCHANGED <<mbox, sent, toSend, sleep, saved, next, target, source, free, pc>>
    BY <2>1 DEF Write, Drop, Reconnect
  <2>3. ASSUME AnyDistributes, NEW m \in Node, Active(m)' PROVE Active(m)
    BY <2>1, <2>3 DEF Write, Drop, Reconnect, NoneJoins, Active, StoreInv, StoreTypeOK
  <2>4. Frame
    BY <1>1, <2>2, <2>3
  <2>. QED BY <2>4, SentFrame
<1>8. ~ \E n \in Node : HandleRecv(n)
  <2>. SUFFICES ASSUME NEW n \in Node, HandleRecv(n) PROVE FALSE
    OBVIOUS
  <2>1. n \in Sending /\ mbox[n].op = "recv"
    BY DEF HandleRecv, Sending
  <2>. QED BY <2>1 DEF SentInv, AnyDistributes, Counts
<1>9. ~CpAsk /\ ~CpReceive /\ ~CpPut
  BY <1>1 DEF CpAsk, CpReceive, CpPut, Copying
<1>10. ~Race
  BY NoRace
<1>. HIDE DEF Frame
<1>. QED BY <1>0, <1>2, <1>3, <1>4, <1>5, <1>6, <1>7, <1>8, <1>9, <1>10
         DEF Next, StorerStep, Cpfrom, ConsoleStep, Handler, Thread

\* Every step keeps SentInv.
LEMMA NextSent ==
  ASSUME StoreInv, StoreInv', SpaceInv, SpaceInv', SentInv, "cpblock" \notin ConsoleOps,
         NoneJoins, Next
  PROVE  SentInv'
  BY PlanSent, BalanceSent, FullSent, AllocSent, DeliverSent, FinishSent, HandleSent, RestSent

\* Stuttering keeps SentInv.
LEMMA StutterSent ==
  ASSUME StoreInv, StoreInv', SpaceInv, SpaceInv', SentInv, UNCHANGED vars
  PROVE  SentInv'
<1>1. /\ UNCHANGED <<mbox, sent, toSend, sleep, saved, next, target, source, pc, handler, up, free>>
  BY DEF vars, nodeVars, linkVars, dataVars, countVars, localVars
<1>2. \A n \in Node : (Active(n)' => Active(n)) /\ free'[n] <= free[n]
  BY <1>1 DEF Active, StoreInv, StoreTypeOK
<1>3. pc'[Console] \notin Copying
  BY <1>1 DEF SentInv
<1>. QED BY <1>1, <1>2, <1>3, SentFrame

\* At the start nothing waits.
LEMMA InitSent == Init => SentInv
<1>. SUFFICES ASSUME Init PROVE SentInv
  OBVIOUS
<1>1. \A t \in Thread : pc[t] \notin Distributing
  BY DEF Init, Distributing
<1>2. pc[Console] \notin Copying
  BY DEF Init, Copying, Thread
<1>3. Sending = {} /\ mbox = [n \in Node |-> mbox[n]]
  BY DEF Init, Sending
<1>4. /\ sleep \in [Thread -> Nat] /\ saved \in [Thread -> Nat]
      /\ \A t \in Thread : sleep[t] = 0
  BY DEF Init
<1>. QED BY <1>1, <1>2, <1>3, <1>4 DEF SentInv, AnyDistributes

\* A block that waits to be sent points into a block file that is still mapped,
\* for any nodes, files and threads, when blocks are released and copied only
\* while no worker may store and no DataNode connects during a distribution
\* (filetable.c filetable_sentblock, add_blocks_from_file; thread_suspend).
THEOREM SentInTheirTime ==
  Discipline /\ "cpblock" \notin ConsoleOps
    => (Spec /\ [][NoneJoins]_vars => []NothingSentAfterUnmap)
<1>. SUFFICES ASSUME Discipline, "cpblock" \notin ConsoleOps
              PROVE  Spec /\ [][NoneJoins]_vars => []NothingSentAfterUnmap
  OBVIOUS
<1>1. Init => SentInv
  BY InitSent
<1>2. /\ StoreInv /\ StoreInv' /\ SpaceInv /\ SpaceInv' /\ SentInv
      /\ [Next]_vars /\ [NoneJoins]_vars
      => SentInv'
  BY NextSent, StutterSent
<1>3. SentInv => NothingSentAfterUnmap
  <2>. SUFFICES ASSUME SentInv, NEW n \in Node, mbox[n] # NoMsg PROVE Mapped(mbox[n])
    BY DEF NothingSentAfterUnmap
  <2>1. n \in Sending
    BY DEF Sending
  <2>2. PICK t \in Thread : pc[t] \in Distributing
    BY <2>1 DEF SentInv, AnyDistributes
  <2>3. mbox[n].from = t
    BY <2>1, <2>2 DEF SentInv, Counts
  <2>. QED BY <2>2, <2>3 DEF Mapped, Distributing
<1>4. Spec => []StoreInv
  BY StoreInvariant
<1>5. Spec => []SpaceInv
  BY SpaceInvariant
<1>. QED BY <1>1, <1>2, <1>3, <1>4, <1>5, PTL DEF Spec
-----------------------------------------------------------------------------
(* What a stored file reads back as.                                       *)

\* The places of a queue of blocks that hold block b, and what a read of b
\* returns when q is applied to d first.
Hits(q, b) == {k \in DOMAIN q : q[k].blockno = b}
ReadOf(q, d, b) == IF Hits(q, b) = {} THEN d[b] ELSE q[Max(Hits(q, b))].content

\* Reads, by its parts.
LEMMA ReadsParts ==
  ASSUME NEW l
  PROVE  Reads(l) = ReadOf(Pending(l.node), disk[l.node], l.blockno)
  BY DEF Reads, ReadOf, Hits

\* A finite set of integers has a largest element.
LEMMA LargestExists ==
  ASSUME NEW H, H \subseteq Int, IsFiniteSet(H), H # {}
  PROVE  \E x \in H : \A y \in H : x >= y
<1>. DEFINE B == {T \in SUBSET H : T # {} /\ ~ \E x \in T : \A y \in T : x >= y}
<1>1. SUFFICES ASSUME B # {} PROVE FALSE
  OBVIOUS
<1>2. PICK T \in B : \A x \in T : T \ {x} \notin B
  <2>1. B \subseteq SUBSET H
    OBVIOUS
  <2>. HIDE DEF B
  <2>. QED BY <1>1, <2>1, SmallestSet
<1>3. T \subseteq H /\ T # {} /\ ~ \E x \in T : \A y \in T : x >= y
  BY <1>2
<1>4. PICK x \in T : TRUE
  BY <1>3
<1>5. CASE T \ {x} = {}
  BY <1>3, <1>4, <1>5
<1>6. CASE T \ {x} # {}
  <2>1. PICK y \in T \ {x} : \A z \in T \ {x} : y >= z
    BY <1>2, <1>3, <1>4, <1>6
  <2>2. x \in Int /\ y \in Int /\ \A z \in T : z \in Int
    BY <1>3, <1>4
  <2>3. CASE y >= x
    BY <1>3, <2>1, <2>3
  <2>4. CASE x >= y
    <3>1. \A z \in T : x >= z
      BY <2>1, <2>2, <2>4
    <3>. QED BY <1>3, <1>4, <3>1
  <2>. QED BY <2>2, <2>3, <2>4
<1>. QED BY <1>5, <1>6

\* Max finds it.
LEMMA MaxIs ==
  ASSUME NEW H, H \subseteq Int, NEW x \in H, \A y \in H : x >= y
  PROVE  Max(H) = x
<1>. DEFINE Largest(z) == z \in H /\ \A y \in H : z >= y
<1>1. Largest(x)
  OBVIOUS
<1>2. Max(H) = CHOOSE z : Largest(z)
  BY Zenon DEF Max
<1>. HIDE DEF Largest
<1>3. Largest(Max(H))
  BY <1>1, <1>2
<1>4. PICK m : m = Max(H)
  OBVIOUS
<1>5. m \in H /\ m >= x /\ x >= m
  BY <1>3, <1>4 DEF Largest
<1>. QED BY <1>4, <1>5

\* The hits of a queue are places of it.
LEMMA HitsFinite ==
  ASSUME NEW R, NEW q \in Seq(R), NEW b
  PROVE  Hits(q, b) \subseteq 1 .. Len(q) /\ IsFiniteSet(Hits(q, b)) /\ Len(q) \in Nat
<1>1. Hits(q, b) \subseteq 1 .. Len(q) /\ Len(q) \in Nat
  BY DEF Hits
<1>2. IsFiniteSet(1 .. Len(q))
  BY <1>1, FS_Interval
<1>. QED BY <1>1, <1>2, FS_Subset

\* A block at the end of the queue is what a read of it returns.
LEMMA ReadAppended ==
  ASSUME NEW R, NEW q \in Seq(R), NEW e \in R, NEW d, NEW b
  PROVE  ReadOf(Append(q, e), d, b) = IF e.blockno = b THEN e.content ELSE ReadOf(q, d, b)
<1>. DEFINE a == Append(q, e)
<1>1. /\ a \in Seq(R) /\ Len(q) \in Nat /\ DOMAIN q = 1 .. Len(q)
      /\ Len(a) = Len(q) + 1 /\ DOMAIN a = 1 .. Len(q) + 1
      /\ a[Len(q) + 1] = e /\ \A k \in 1 .. Len(q) : a[k] = q[k]
  OBVIOUS
<1>. HIDE DEF a
<1>2. Hits(q, b) \subseteq 1 .. Len(q) /\ Hits(a, b) \subseteq 1 .. Len(q) + 1
  BY <1>1 DEF Hits
<1>3. CASE e.blockno = b
  <2>1. Len(q) + 1 \in Hits(a, b)
    BY <1>1, <1>3 DEF Hits
  <2>2. Max(Hits(a, b)) = Len(q) + 1
    <3>1. Hits(a, b) \subseteq Int /\ \A k \in Hits(a, b) : Len(q) + 1 >= k
      BY <1>1, <1>2
    <3>. QED BY <2>1, <3>1, MaxIs
  <2>. QED BY <1>1, <1>3, <2>1, <2>2 DEF ReadOf, a
<1>4. CASE e.blockno # b
  <2>1. Hits(a, b) = Hits(q, b)
    BY <1>1, <1>4 DEF Hits
  <2>2. Hits(q, b) # {} => Max(Hits(q, b)) \in 1 .. Len(q)
    <3>. SUFFICES ASSUME Hits(q, b) # {} PROVE Max(Hits(q, b)) \in 1 .. Len(q)
      OBVIOUS
    <3>1. Hits(q, b) \subseteq Int /\ IsFiniteSet(Hits(q, b))
      BY <1>2, HitsFinite
    <3>2. PICK k \in Hits(q, b) : \A j \in Hits(q, b) : k >= j
      BY <3>1, LargestExists
    <3>. QED BY <1>2, <3>1, <3>2, MaxIs
  <2>. QED BY <1>1, <1>4, <2>1, <2>2 DEF ReadOf, a
<1>. QED BY <1>3, <1>4

\* Applying the first block of the queue changes no read.
LEMMA ReadApplied ==
  ASSUME NEW R, NEW q \in Seq(R), q # <<>>, NEW D, NEW d, d = [x \in D |-> d[x]], NEW b \in D
  PROVE  ReadOf(Tail(q), [d EXCEPT ![Head(q).blockno] = Head(q).content], b) = ReadOf(q, d, b)
<1>. DEFINE a == Tail(q)
<1>1. PICK c : c = [d EXCEPT ![Head(q).blockno] = Head(q).content]
  OBVIOUS
<1>2. /\ Len(q) \in Nat \ {0} /\ DOMAIN q = 1 .. Len(q) /\ DOMAIN a = 1 .. Len(q) - 1
      /\ Head(q) = q[1] /\ \A k \in 1 .. Len(q) - 1 : a[k] = q[k + 1]
  OBVIOUS
<1>3. c[b] = IF q[1].blockno = b THEN q[1].content ELSE d[b]
  BY <1>1, <1>2
<1>. HIDE DEF a
<1>4. \A k \in Hits(q, b) : k = 1 \/ k - 1 \in Hits(a, b)
  BY <1>2 DEF Hits
<1>5. \A k \in Hits(a, b) : k + 1 \in Hits(q, b)
  BY <1>2 DEF Hits
<1>6. Hits(q, b) \subseteq 1 .. Len(q) /\ Hits(a, b) \subseteq 1 .. Len(q) - 1
  BY <1>2 DEF Hits
<1>7. 1 \in Hits(q, b) <=> q[1].blockno = b
  BY <1>2 DEF Hits
<1>8. CASE Hits(a, b) = {}
  <2>1. CASE 1 \in Hits(q, b)
    <3>1. Hits(q, b) \subseteq Int /\ \A k \in Hits(q, b) : 1 >= k
      BY <1>2, <1>4, <1>6, <1>8
    <3>2. Max(Hits(q, b)) = 1
      BY <2>1, <3>1, MaxIs
    <3>. QED BY <1>1, <1>3, <1>7, <1>8, <2>1, <3>2 DEF ReadOf, a
  <2>2. CASE 1 \notin Hits(q, b)
    <3>1. Hits(q, b) = {}
      BY <1>4, <1>8, <2>2
    <3>. QED BY <1>1, <1>3, <1>7, <1>8, <2>2, <3>1 DEF ReadOf, a
  <2>. QED BY <2>1, <2>2
<1>9. CASE Hits(a, b) # {}
  <2>1. Hits(a, b) \subseteq Int /\ IsFiniteSet(Hits(a, b)) /\ Hits(q, b) \subseteq Int
    <3>0. PICK z \in Int : z = Len(q) - 1
      BY <1>2
    <3>1. IsFiniteSet(1 .. z)
      BY FS_Interval
    <3>2. IsFiniteSet(Hits(a, b))
      BY <1>6, <3>0, <3>1, FS_Subset
    <3>. QED BY <1>2, <1>6, <3>2
  <2>2. PICK m \in Hits(a, b) : \A k \in Hits(a, b) : m >= k
    BY <1>9, <2>1, LargestExists
  <2>3. m \in 1 .. Len(q) - 1 /\ m + 1 \in Hits(q, b)
    BY <1>5, <1>6, <2>2
  <2>4. \A k \in Hits(q, b) : m + 1 >= k
    <3>. SUFFICES ASSUME NEW k \in Hits(q, b) PROVE m + 1 >= k
      OBVIOUS
    <3>1. k \in Nat
      BY <1>2, <1>6
    <3>2. CASE k = 1
      BY <1>2, <2>3, <3>2
    <3>3. CASE k - 1 \in Hits(a, b)
      BY <1>2, <2>2, <2>3, <3>1, <3>3
    <3>. QED BY <1>4, <3>2, <3>3
  <2>5. Max(Hits(a, b)) = m /\ Max(Hits(q, b)) = m + 1
    BY <2>1, <2>2, <2>3, <2>4, MaxIs
  <2>6. Hits(q, b) # {}
    BY <2>3
  <2>. QED BY <1>1, <1>2, <1>9, <2>3, <2>5, <2>6 DEF ReadOf, a
<1>. QED BY <1>8, <1>9

\* Reads, by its parts, for any values of the queue and of the disk.
ReadsBy ==
  \A l, q, d : q = Pending(l.node) /\ d = disk[l.node] => Reads(l) = ReadOf(q, d, l.blockno)

\* Every state's Reads is ReadOf.
LEMMA ReadsAre == ReadsBy
  BY DEF ReadsBy, Reads, ReadOf, Hits

\* So is the next state's.
LEMMA ReadsAreNext == ReadsBy'
  BY ReadsAre, PTL

\* A live copy is on a block of its node's disk.
LEMMA LivePlaces ==
  ASSUME StoreInv, SpaceInv, NEW s \in Live
  PROVE  /\ s \in Slot /\ copies[s] \in Location /\ copies[s].node \in Node
         /\ copies[s].blockno \in 0 .. Total[copies[s].node] - 1
<1>1. s \in Slot /\ copies[s] \in Location /\ copies[s].node \in Node
  BY LiveLocation
<1>. QED BY <1>1 DEF SpaceInv, BlocksMarked, InRange

\* The blocks of the disks.
Place == {l \in Location : l.blockno \in 0 .. Total[l.node] - 1}

\* Contents holds as long as every read returns what it did and every copy was
\* there before, of the same content.
LEMMA ContentsFrame ==
  ASSUME StoreInv, SpaceInv, Contents,
         \A l \in Place : Reads(l)' = Reads(l),
         \A s \in Live' : ~Undelivered(s)' =>
           \E r \in Live : /\ ~Undelivered(r) /\ r[2] = s[2] /\ copies[r] = copies'[s]
                           /\ Owner(r[1]) = Owner(s[1])'
  PROVE  Contents'
<1>1. SUFFICES ASSUME NEW s \in Live', ~Undelivered(s)', NEW l, l = copies'[s]
               PROVE  Reads(l)' = Token(Owner(s[1])', s[2])
  BY DEF Contents, Token
<1>2. PICK r \in Live : /\ ~Undelivered(r) /\ r[2] = s[2] /\ copies[r] = l
                        /\ Owner(r[1]) = Owner(s[1])'
  BY <1>1
<1>3. l \in Place
  BY <1>2, LivePlaces DEF Place
<1>4. Reads(l) = Token(Owner(r[1]), r[2])
  BY <1>2 DEF Contents
<1>. QED BY <1>2, <1>3, <1>4

\* The threads' local files stay theirs.
LEMMA LocalsFrame ==
  ASSUME Locals,
         \A t \in Storer : pc'[t] \in Storing => pc[t] \in Storing /\ path'[t] = path[t],
         \A t \in Storer : pc'[t] \in {"lock", "plan"} =>
           /\ pc[t] \in {"lock", "plan"}
           /\ local'[Base[path[t]]] = local[Base[path[t]]],
         \A t \in Thread : pc'[t] \in Distributing =>
           /\ pc[t] \in Distributing
           /\ path'[t] = path[t] /\ source'[t] = source[t]
  PROVE  Locals'
<1>1. \A t \in Storer : pc'[t] \in Storing => path'[t] \in Wants[t]
  BY DEF Locals
<1>2. \A t \in Storer : pc'[t] \in {"lock", "plan"} => path'[t] = path[t]
  BY DEF Storing
<1>3. \A t \in Storer : pc'[t] \in {"lock", "plan"} =>
        local'[Base[path'[t]]] = [by |-> t, file |-> path'[t]]
  BY <1>2 DEF Locals, OwnFile
<1>4. \A t \in Thread : pc'[t] \in Distributing => source'[t] = [by |-> t, file |-> path'[t]]
  BY DEF Locals, OwnFile
<1>. QED BY <1>1, <1>3, <1>4 DEF Locals, OwnFile

\* Steps that send nothing change no read.
LEMMA SameReads ==
  ASSUME Carried, UNCHANGED <<mbox, wire, disk>>
  PROVE  Carried' /\ \A l : Reads(l)' = Reads(l)
<1>1. Carried'
  BY DEF Carried
<1>2. \A l : Reads(l)' = Reads(l)
  BY DEF Reads, Pending
<1>. QED BY <1>1, <1>2

\* Steps that change no read and neither begin nor end a delivery.
LEMMA ReadFrame ==
  ASSUME StoreInv, SpaceInv, ReadInv, Running', Locals', Carried',
         \A l \in Place : Reads(l)' = Reads(l),
         Live' \subseteq Live, \A s \in Live' : copies'[s] = copies[s],
         \A s \in Live' : Owner(s[1])' = Owner(s[1]),
         \A t \in Thread : pc'[t] = "deliver" <=> pc[t] = "deliver",
         \A t \in Thread : pc[t] = "deliver" =>
           /\ next'[t] = next[t] /\ target'[t] = target[t] /\ source'[t] = source[t]
           /\ \A i \in Index, c \in {0, 1} : copies'[<<t, i, c>>] = copies[<<t, i, c>>]
  PROVE  ReadInv'
<1>2. \A t \in Thread : pc[t] = "deliver" =>
        /\ Current(t) \in Index /\ Current(t)' = Current(t) /\ LastHalf(t)' = LastHalf(t)
        /\ LastHalf(t) \in {0, 1}
  <2>. SUFFICES ASSUME NEW t \in Thread, pc[t] = "deliver"
                PROVE  /\ Current(t) \in Index /\ Current(t)' = Current(t)
                       /\ LastHalf(t)' = LastHalf(t) /\ LastHalf(t) \in {0, 1}
    OBVIOUS
  <2>1. Current(t) \in Index
    BY CurrentInIndex DEF StoreInv, Distributing
  <2>2. Current(t)' = Current(t)
    BY DEF Current
  <2>. QED BY <2>1, <2>2 DEF LastHalf, Copy
<1>3. Chosen'
  <2>. SUFFICES ASSUME NEW t \in Thread, pc'[t] = "deliver"
                PROVE  /\ copies'[<<t, Current(t)', LastHalf(t)'>>] # NoLoc
                       /\ copies'[<<t, Current(t)', LastHalf(t)'>>].node = target'[t]
    BY DEF Chosen
  <2>1. PICK i \in Index, c \in {0, 1} : i = Current(t) /\ c = LastHalf(t)
    BY <1>2
  <2>2. copies[<<t, i, c>>] # NoLoc /\ copies[<<t, i, c>>].node = target[t]
    BY <2>1 DEF ReadInv, Chosen
  <2>3. pc[t] = "deliver" /\ copies'[<<t, i, c>>] = copies[<<t, i, c>>] /\ target'[t] = target[t]
    OBVIOUS
  <2>4. i = Current(t)' /\ c = LastHalf(t)'
    BY <1>2, <2>1, <2>3
  <2>. QED BY <2>2, <2>3, <2>4
<1>4. \A s : Undelivered(s)' <=> Undelivered(s)
  BY <1>2 DEF Undelivered
<1>5. Contents'
  BY <1>4, ContentsFrame DEF ReadInv
<1>. QED BY <1>3, <1>5 DEF ReadInv

\* A copy being released stays so until the end of rm.
LEMMA SameLive ==
  ASSUME UNCHANGED <<copies, doomed>>,
         pc[Console] = "rm" => pc'[Console] = "rm" /\ path'[Console] = path[Console]
  PROVE  Live' \subseteq Live
  BY DEF Live, Released

\* Steps that leave the copies, the sources and the handlers alone.
LEMMA ReadSame ==
  ASSUME StoreInv, SpaceInv, ReadInv, Locals',
         UNCHANGED <<copies, doomed, mbox, wire, disk, src, source>>,
         \A n \in Node : handler[n] => handler'[n],
         \A t \in Thread : pc[t] = "exit" => pc'[t] = "exit",
         pc[Console] = "rm" => pc'[Console] = "rm" /\ path'[Console] = path[Console],
         \A t \in Thread : pc'[t] = "deliver" <=> pc[t] = "deliver",
         \A t \in Thread : pc[t] = "deliver" => next'[t] = next[t] /\ target'[t] = target[t]
  PROVE  ReadInv'
<1>1. Running'
  BY DEF ReadInv, Running
<1>2. Live' \subseteq Live
  BY SameLive
<1>3. \A s : Owner(s[1])' = Owner(s[1])
  BY DEF Owner
<1>4. Carried' /\ \A l : Reads(l)' = Reads(l)
  BY SameReads DEF ReadInv
<1>. QED BY <1>1, <1>2, <1>3, <1>4, ReadFrame

\* worker_handler before and after filetable_cpfrom (server.c).
LEMMA WorkerRead ==
  ASSUME OwnNames, StoreInv, SpaceInv, ReadInv, NEW t \in Storer,
         (\E f \in File : Request(t, f)) \/ WriteLocal(t) \/ Reply(t)
  PROVE  ReadInv'
<1>0. t \in Thread /\ t # Console /\ \A u \in Storer : u \in Thread
  BY StoreAssumption DEF Thread
<1>1. /\ UNCHANGED <<copies, doomed, mbox, wire, disk, src, source, handler, next, target>>
      /\ \E f \in Wants[t], l \in {"write", "lock", "done"} :
           /\ path' = [path EXCEPT ![t] = f] \/ UNCHANGED path
           /\ pc' = [pc EXCEPT ![t] = l]
      /\ pc[t] \in {"new", "write", "reply"}
  <2>1. pc[t] \in {"write", "reply"} => \E f \in Wants[t] : TRUE
    BY DEF ReadInv, Locals, Storing
  <2>. QED BY <2>1 DEF Request, WriteLocal, Reply, Goto, linkVars, dataVars, tableVars,
                       localVars, consoleVars
<1>2. pc'[Console] = pc[Console] /\ \A u \in Thread : u # t => pc'[u] = pc[u]
  BY <1>1, <1>0 DEF StoreInv, StoreTypeOK
<1>3. pc'[t] \in {"write", "lock", "done"}
  BY <1>1, <1>0 DEF StoreInv, StoreTypeOK
<1>4. path'[Console] = path[Console] /\ \A u \in Thread : u # t => path'[u] = path[u]
  <2>1. PICK f \in Wants[t] : path' = [path EXCEPT ![t] = f] \/ path' = path
    BY <1>1
  <2>2. path \in [Thread -> File \cup {NoFile}] /\ Console \in Thread
    BY DEF StoreInv, StoreTypeOK, Thread
  <2>. QED BY <1>0, <2>1, <2>2
<1>5. Locals'
  <2>1. \A u \in Storer : u # t /\ pc[u] \in Storing /\ pc[t] \in {"write", "reply"}
          => Base[path[u]] # Base[path[t]]
    BY DEF OwnNames, ReadInv, Locals, Storing
  <2>2. ASSUME NEW u \in Storer, u # t, pc'[u] \in {"lock", "plan"}
        PROVE  local'[Base[path[u]]] = local[Base[path[u]]]
    <3>1. pc[u] \in Storing /\ pc[u] \in {"lock", "plan"}
      BY <1>0, <1>2, <2>2 DEF Storing
    <3>2. CASE \E f \in File : Request(t, f)
      BY <3>2 DEF Request, localVars
    <3>3. CASE WriteLocal(t) \/ Reply(t)
      <4>1. pc[t] \in {"write", "reply"}
        BY <3>3 DEF WriteLocal, Reply
      <4>2. Base[path[u]] # Base[path[t]]
        BY <2>1, <2>2, <3>1, <4>1
      <4>3. path[u] \in File /\ Base[path[u]] \in File
        BY <1>0, <3>1, StoreAssumption DEF StoreInv, Control
      <4>. QED BY <3>3, <4>2, <4>3 DEF WriteLocal, Reply, StoreInv, StoreTypeOK
    <3>. QED BY <3>2, <3>3
  <2>3. pc'[t] \in Storing => path'[t] \in Wants[t]
    <3>1. CASE \E f \in File : Request(t, f)
      BY <1>0, <3>1 DEF Request, StoreInv, StoreTypeOK
    <3>2. CASE WriteLocal(t) \/ Reply(t)
      BY <3>2 DEF WriteLocal, Reply, ReadInv, Locals, Storing
    <3>. QED BY <3>1, <3>2
  <2>4. pc'[t] \in {"lock", "plan"} => local'[Base[path'[t]]] = [by |-> t, file |-> path'[t]]
    <3>1. CASE WriteLocal(t)
      <4>1. path[t] \in File /\ Base[path[t]] \in File
        BY <1>0, <3>1, StoreAssumption DEF WriteLocal, Storing, StoreInv, Control
      <4>. QED BY <3>1, <4>1 DEF WriteLocal, StoreInv, StoreTypeOK
    <3>2. CASE ~WriteLocal(t)
      <4>1. pc'[t] \notin {"lock", "plan"}
        BY <1>0, <3>2 DEF Request, Reply, Goto, StoreInv, StoreTypeOK
      <4>. QED BY <4>1
    <3>. QED BY <3>1, <3>2
  <2>5. \A u \in Storer : pc'[u] \in Storing => path'[u] \in Wants[u]
    BY <1>0, <1>2, <1>4, <2>3 DEF ReadInv, Locals
  <2>6. \A u \in Storer : pc'[u] \in {"lock", "plan"} =>
          local'[Base[path'[u]]] = [by |-> u, file |-> path'[u]]
    BY <1>0, <1>2, <1>4, <2>2, <2>4 DEF ReadInv, Locals, OwnFile
  <2>7. \A u \in Thread : pc'[u] \in Distributing => source'[u] = [by |-> u, file |-> path'[u]]
    BY <1>1, <1>2, <1>3, <1>4 DEF ReadInv, Locals, OwnFile, Distributing
  <2>. QED BY <2>5, <2>6, <2>7 DEF Locals, OwnFile
<1>6. \A u \in Thread : /\ pc[u] = "exit" => pc'[u] = "exit"
                        /\ pc'[u] = "deliver" <=> pc[u] = "deliver"
  BY <1>1, <1>2, <1>3
<1>. QED BY <1>1, <1>2, <1>4, <1>5, <1>6, ReadSame

\* With the connections up a ping ends no handler.
LEMMA PingKeeps ==
  ASSUME Connected, NEW S, Ping(S)
  PROVE  \A n \in Node : handler[n] => handler'[n]
  BY DEF Connected, Ping

\* Lock, Balance and Full move one thread inside filetable_cpfrom.
LEMMA CpfromRead ==
  ASSUME Connected, StoreInv, SpaceInv, ReadInv, NEW t \in Thread,
         Lock(t) \/ Balance(t) \/ Full(t)
  PROVE  ReadInv'
<1>1. /\ UNCHANGED <<copies, doomed, mbox, wire, disk, src, source, path, local>>
      /\ pc[t] \in {"lock", "send", "alloc"}
      /\ \E l \in {"plan", "send", "alloc"} : pc' = [pc EXCEPT ![t] = l]
      /\ pc[t] = "lock" => pc' = [pc EXCEPT ![t] = "plan"]
      /\ next' = [next EXCEPT ![t] = @ + 1] \/ next' = next
      /\ (\E n \in Node : target' = [target EXCEPT ![t] = n]) \/ target' = target
      /\ handler' = handler \/ \E Q : Ping(Q)
  <2>1. CASE Lock(t)
    BY <2>1 DEF Lock, Goto, linkVars, dataVars, tableVars, localVars, consoleVars
  <2>2. CASE Full(t)
    BY <2>2 DEF Full, Goto, linkVars, dataVars, tableVars, consoleVars
  <2>3. CASE Balance(t)
    <3>1. /\ UNCHANGED <<copies, doomed, mbox, wire, disk, src, source, path, local>>
          /\ pc[t] = "send" /\ \E Q : Ping(Q)
          /\ pc' = pc \/ pc' = [pc EXCEPT ![t] = "alloc"]
          /\ next' = [next EXCEPT ![t] = @ + 1] \/ next' = next
      BY <2>3 DEF Balance, Goto, dataVars, tableVars, consoleVars
    <3>2. (\E n \in Node : target' = [target EXCEPT ![t] = n]) \/ target' = target
      BY <2>3 DEF Balance, Others
    <3>3. pc = [pc EXCEPT ![t] = "send"]
      BY <3>1 DEF StoreInv, StoreTypeOK
    <3>. QED BY <3>1, <3>2, <3>3
  <2>. QED BY <2>1, <2>2, <2>3
<1>2. Console \in Thread /\ \A u \in Thread : u # t => pc'[u] = pc[u]
  BY <1>1 DEF Thread, StoreInv, StoreTypeOK
<1>3. pc'[t] \in {"plan", "send", "alloc"} /\ (pc[t] = "lock" => pc'[t] = "plan")
  BY <1>1 DEF StoreInv, StoreTypeOK
<1>4. \A u \in Thread : u # t => next'[u] = next[u] /\ target'[u] = target[u]
  <2>1. next \in [Thread -> Nat] /\ target \in [Thread -> Node \cup {NoNode}]
    BY DEF StoreInv, StoreTypeOK, Control
  <2>. QED BY <1>1, <2>1
<1>5. Locals'
  <2>1. \A u \in Thread : /\ pc'[u] \in Storing => pc[u] \in Storing
                          /\ pc'[u] \in Distributing => pc[u] \in Distributing \cup {"lock"}
    BY <1>1, <1>2, <1>3 DEF Storing, Distributing
  <2>2. pc[t] # "lock" \/ pc'[t] \notin Distributing
    BY <1>3 DEF Distributing
  <2>3. pc[t] # "lock" => pc'[t] # "plan"
    BY <1>1 DEF StoreInv, StoreTypeOK, Lock, Balance, Full, Goto
  <2>4. \A u \in Thread : pc'[u] \in {"lock", "plan"} => pc[u] \in {"lock", "plan"}
    BY <1>2, <1>3, <2>3
  <2>5. \A u \in Thread : pc'[u] \in Distributing => pc[u] \in Distributing
    BY <1>2, <2>1, <2>2
  <2>6. \A u \in Storer : u \in Thread
    BY DEF Thread
  <2>. QED BY <1>1, <2>1, <2>4, <2>5, <2>6, LocalsFrame DEF ReadInv
<1>6. \A n \in Node : handler[n] => handler'[n]
  BY <1>1, PingKeeps
<1>7. \A u \in Thread : /\ pc[u] = "exit" => pc'[u] = "exit"
                        /\ pc'[u] = "deliver" <=> pc[u] = "deliver"
                        /\ pc[u] = "deliver" => u # t
  BY <1>1, <1>2, <1>3
<1>8. pc[Console] = "rm" => pc'[Console] = "rm"
  BY <1>1, <1>2
<1>. QED BY <1>1, <1>4, <1>5, <1>6, <1>7, <1>8, ReadSame

\* A thread that plans has no copies yet, and opens its own local file.
LEMMA PlanRead ==
  ASSUME Connected, StoreInv, SpaceInv, ReadInv, NEW t \in Thread, Plan(t)
  PROVE  ReadInv'
<1>1. /\ UNCHANGED <<copies, doomed, mbox, wire, disk, src, path, local, target>>
      /\ pc[t] = "plan" /\ Ping(Node)
      /\ \E l \in {"idle", "reply", "send"} : pc' = [pc EXCEPT ![t] = l]
      /\ t \in Storer => \E l \in {"reply", "send"} : pc' = [pc EXCEPT ![t] = l]
      /\ next' = [next EXCEPT ![t] = 0] /\ source' = [source EXCEPT ![t] = LocalOf(t)]
  BY StoreAssumption DEF Plan, Return, Goto, dataVars, tableVars, consoleVars
<1>2. Console \in Thread /\ \A u \in Thread : u # t => pc'[u] = pc[u]
  BY <1>1 DEF Thread, StoreInv, StoreTypeOK
<1>3. pc'[t] \in {"idle", "reply", "send"} /\ (t \in Storer => pc'[t] # "idle")
  BY <1>1 DEF StoreInv, StoreTypeOK
<1>4. \A u \in Thread : u # t => next'[u] = next[u] /\ source'[u] = source[u]
  BY <1>1 DEF StoreInv, StoreTypeOK, Control
<1>5. source'[t] = OwnFile(t)
  <2>1. source'[t] = LocalOf(t)
    BY <1>1 DEF StoreInv, StoreTypeOK
  <2>2. LocalOf(t) = OwnFile(t)
    BY <1>1 DEF LocalOf, OwnFile, ReadInv, Locals, Thread
  <2>. QED BY <2>1, <2>2
<1>6. Locals'
  <2>1. \A u \in Storer : u \in Thread
    BY DEF Thread
  <2>2. \A u \in Storer : pc'[u] \in Storing => path'[u] \in Wants[u]
    BY <1>1, <1>2, <2>1 DEF ReadInv, Locals, Storing
  <2>3. \A u \in Storer : pc'[u] \in {"lock", "plan"} => local'[Base[path'[u]]] = [by |-> u, file |-> path'[u]]
    BY <1>1, <1>2, <1>3, <2>1 DEF ReadInv, Locals, OwnFile
  <2>4. \A u \in Thread : pc'[u] \in Distributing => source'[u] = [by |-> u, file |-> path'[u]]
    BY <1>1, <1>2, <1>4, <1>5 DEF ReadInv, Locals, OwnFile
  <2>. QED BY <2>2, <2>3, <2>4 DEF Locals, OwnFile
<1>7. \A u \in Thread : /\ pc[u] = "exit" => pc'[u] = "exit"
                        /\ pc'[u] = "deliver" <=> pc[u] = "deliver"
                        /\ pc[u] = "deliver" => u # t
  BY <1>1, <1>2, <1>3
<1>8. \A n \in Node : handler[n] => handler'[n]
  BY <1>1, PingKeeps
<1>9. Running'
  BY <1>7, <1>8 DEF ReadInv, Running
<1>10. Live' \subseteq Live
  BY <1>1, <1>2, SameLive
<1>11. \A s \in Live' : s[1] # t
  <2>. SUFFICES ASSUME NEW s \in Live, s[1] = t PROVE FALSE
    BY <1>10
  <2>1. s \in Slot /\ copies[s] # NoLoc
    BY LiveFacts
  <2>2. s[2] \in Index /\ s[3] \in {0, 1} /\ Copy(t, s[2], s[3]) = copies[s]
    BY <2>1, SlotParts
  <2>. QED BY <1>1, <2>1, <2>2 DEF StoreInv, Drafts, Distributing
<1>12. \A s \in Live' : Owner(s[1])' = Owner(s[1])
  BY <1>1, <1>4, <1>11 DEF Owner
<1>13. Carried' /\ \A l : Reads(l)' = Reads(l)
  BY <1>1, SameReads DEF ReadInv
<1>. QED BY <1>1, <1>4, <1>6, <1>7, <1>9, <1>10, <1>12, <1>13, ReadFrame

\* The end of the FileSystem sends nothing.
LEMMA AbortRead ==
  ASSUME Discipline, StoreInv, SpaceInv, ReadInv, NEW t \in Thread, Abort(t)
  PROVE  ReadInv'
<1>1. /\ pc[t] = "plan" /\ pc' = [u \in Thread |-> "exit"]
      /\ UNCHANGED <<copies, mbox, wire, disk, src, source>>
  BY DEF Abort, dataVars, tableVars, localVars
<1>2. \A u \in Thread : pc'[u] = "exit" /\ pc[u] # "deliver"
  BY <1>1, OnlyOne DEF Distributing
<1>3. Running' /\ Locals'
  <2>1. \A u \in Storer : u \in Thread
    BY DEF Thread
  <2>. QED BY <1>2, <2>1 DEF Running, Locals, Storing, Distributing
<1>4. pc[Console] # "rm"
  BY <1>1 DEF SpaceInv, Quiet, Storing, Distributing, Thread
<1>5. Live' \subseteq Live
  BY <1>1, <1>4 DEF Live, Released
<1>6. \A s : Owner(s[1])' = Owner(s[1])
  BY <1>1 DEF Owner
<1>7. \A s \in Live' : copies'[s] = copies[s]
  BY <1>1
<1>8. Carried' /\ \A l : Reads(l)' = Reads(l)
  BY <1>1, SameReads DEF ReadInv
<1>. QED BY <1>1, <1>2, <1>3, <1>5, <1>6, <1>7, <1>8, ReadFrame

\* What the console's moves between its commands leave alone.
LEMMA ConsoleMoves ==
  ASSUME StoreInv, SpaceInv, ReadInv, UNCHANGED <<mbox, wire, disk, source, handler, next, target, local>>,
         pc[Console] \in {"idle", "rm", "rmb"},
         pc' = pc \/ \E l \in {"idle", "lock", "rm", "rmb"} : pc' = [pc EXCEPT ![Console] = l],
         \A t \in Storer : path'[t] = path[t],
         Live' \subseteq Live, \A s \in Live' : copies'[s] = copies[s],
         \A s \in Live' : Owner(s[1])' = Owner(s[1]),
         \A t \in Thread, i \in Index, c \in {0, 1} : copies'[<<t, i, c>>] = copies[<<t, i, c>>]
  PROVE  ReadInv'
<1>1. Console \in Thread /\ \A t \in Thread : t # Console => t \in Storer /\ pc'[t] = pc[t]
  BY DEF Thread, StoreInv, StoreTypeOK
<1>2. pc'[Console] \in {"idle", "lock", "rm", "rmb"}
  BY <1>1 DEF StoreInv, StoreTypeOK
<1>3. \A t \in Storer : t \in Thread /\ t # Console
  BY StoreAssumption DEF Thread
<1>4. Locals'
  <2>1. \A t \in Thread : pc'[t] \in Distributing => pc[t] = pc'[t] /\ t \in Storer
    BY <1>1, <1>2 DEF Distributing
  <2>2. \A t \in Storer : pc'[t] = pc[t]
    BY <1>1, <1>3
  <2>. QED BY <2>1, <2>2, LocalsFrame DEF ReadInv
<1>5. \A t \in Thread : /\ pc[t] = "exit" => pc'[t] = "exit"
                        /\ pc'[t] = "deliver" <=> pc[t] = "deliver"
  BY <1>1, <1>2
<1>6. Running'
  BY <1>5 DEF ReadInv, Running
<1>7. Carried' /\ \A l : Reads(l)' = Reads(l)
  BY SameReads DEF ReadInv
<1>. QED BY <1>4, <1>5, <1>6, <1>7, ReadFrame

\* Giving a command, and releasing the first copies of a file.
LEMMA CommandRead ==
  ASSUME StoreInv, SpaceInv, ReadInv,
         \/ \E f \in File : CmdCpfrom(f) \/ CmdRm(f)
         \/ \E s \in File \X Index \X {0, 1} : CmdRmBlock(s)
         \/ \E s \in doomed : RmCopy(s)
  PROVE  ReadInv'
<1>0. Console \in Thread /\ \A t \in Storer : t \in Thread /\ t # Console
  BY StoreAssumption DEF Thread
<1>1. /\ UNCHANGED <<copies, src, mbox, wire, disk, source, handler, next, target, local>>
      /\ pc[Console] \in {"idle", "rm"}
      /\ pc' = pc \/ \E l \in {"idle", "lock", "rm", "rmb"} : pc' = [pc EXCEPT ![Console] = l]
      /\ path' = path \/ \E f \in File : path' = [path EXCEPT ![Console] = f]
      /\ pc[Console] = "rm" => UNCHANGED <<pc, path>> /\ doomed' \subseteq doomed
  BY DEF CmdCpfrom, CmdRm, CmdRmBlock, RmCopy, Command, Goto, linkVars, dataVars, tableVars,
         localVars
<1>2. \A t \in Storer : path'[t] = path[t]
  BY <1>0, <1>1 DEF StoreInv, StoreTypeOK
<1>3. Live' \subseteq Live
  BY <1>1 DEF Live, Released
<1>4. \A s : Owner(s[1])' = Owner(s[1])
  BY <1>1 DEF Owner
<1>5. \A s : copies'[s] = copies[s]
  BY <1>1
<1>. QED BY <1>1, <1>2, <1>3, <1>4, <1>5, ConsoleMoves

\* The end of rm, and rm -b, take copies away.
LEMMA RemovalRead ==
  ASSUME StoreInv, SpaceInv, ReadInv, RmEnd \/ \E s \in doomed : RmBlock(s)
  PROVE  ReadInv'
<1>1. CASE RmEnd
  <2>. DEFINE f == path[Console]
  <2>1. /\ UNCHANGED <<mbox, wire, disk, source, handler, next, target, local, path, doomed>>
        /\ pc[Console] = "rm" /\ pc' = [pc EXCEPT ![Console] = "idle"] /\ doomed = {}
        /\ src' = [src EXCEPT ![f] = Nobody]
        /\ copies' = [s \in Slot |-> IF s[1] = f THEN NoLoc ELSE copies[s]]
    BY <1>1 DEF RmEnd, Goto, linkVars, dataVars, localVars, consoleVars
  <2>2. f \in File
    BY <2>1 DEF StoreInv, StoreTypeOK, Dooming
  <2>. HIDE DEF f
  <2>3. \A s \in Slot : copies'[s] = IF s[1] = f THEN NoLoc ELSE copies[s]
    BY <2>1
  <2>4. \A s \in Live' : s \in Slot /\ s[1] # f /\ copies'[s] = copies[s] /\ copies[s] # NoLoc
    BY <2>3 DEF Live
  <2>5. Live' \subseteq Live
    BY <2>4 DEF Live, Released, f
  <2>6. \A s \in Live' : Owner(s[1])' = Owner(s[1])
    <3>1. \A h : h # f => src'[h] = src[h]
      BY <2>1 DEF StoreInv, StoreTypeOK
    <3>. QED BY <2>1, <2>4, <3>1 DEF Owner
  <2>7. \A t \in Thread, i \in Index, c \in {0, 1} : copies'[<<t, i, c>>] = copies[<<t, i, c>>]
    BY <2>2, <2>3, SlotFacts, HoldersApart
  <2>. QED BY <2>1, <2>4, <2>5, <2>6, <2>7, ConsoleMoves
<1>2. CASE \E s \in doomed : RmBlock(s)
  <2>1. PICK s \in doomed :
        /\ UNCHANGED <<mbox, wire, disk, source, handler, next, target, local, path, src>>
        /\ pc[Console] = "rmb" /\ pc' = [pc EXCEPT ![Console] = "idle"]
        /\ copies' = [copies EXCEPT ![s] = NoLoc]
    BY <1>2 DEF RmBlock, Goto, linkVars, dataVars, localVars
  <2>2. s \in Slot /\ s[1] \in File
    BY <2>1 DEF StoreInv, StoreTypeOK, Dooming
  <2>3. \A r \in Slot : copies'[r] = IF r = s THEN NoLoc ELSE copies[r]
    BY <2>1 DEF StoreInv, StoreTypeOK
  <2>4. \A r \in Live' : r \in Slot /\ r # s /\ copies'[r] = copies[r] /\ copies[r] # NoLoc
    BY <2>3 DEF Live
  <2>5. Live' \subseteq Live
    BY <2>1, <2>4 DEF Live, Released
  <2>6. \A r : Owner(r[1])' = Owner(r[1])
    BY <2>1 DEF Owner
  <2>7. \A t \in Thread, i \in Index, c \in {0, 1} : copies'[<<t, i, c>>] = copies[<<t, i, c>>]
    <3>. SUFFICES ASSUME NEW t \in Thread, NEW i \in Index, NEW c \in {0, 1}
                  PROVE  copies'[<<t, i, c>>] = copies[<<t, i, c>>]
      OBVIOUS
    <3>1. <<t, i, c>> \in Slot /\ <<t, i, c>>[1] # s[1]
      BY <2>2, SlotFacts, HoldersApart
    <3>. QED BY <2>3, <3>1
  <2>8. /\ pc' = pc \/ \E l \in {"idle", "lock", "rm", "rmb"} : pc' = [pc EXCEPT ![Console] = l]
        /\ \A t \in Storer : path'[t] = path[t]
        /\ \A r \in Live' : copies'[r] = copies[r]
    BY <2>1, <2>4
  <2>9. UNCHANGED <<mbox, wire, disk, source, handler, next, target, local>> /\ pc[Console] \in {"idle", "rm", "rmb"}
    BY <2>1
  <2>. QED BY <2>5, <2>6, <2>7, <2>8, <2>9, ConsoleMoves
<1>. QED BY <1>1, <1>2

\* What travels is a queue of blocks.
Packet == [blockno : Int, content : Data]

\* The queue of a node, by its parts.
LEMMA PendingType ==
  ASSUME Carried, NEW n \in Node
  PROVE  /\ wire[n] \in Seq(Packet) /\ Pending(n) \in Seq(Packet)
         /\ mbox[n] = NoMsg => Pending(n) = wire[n]
         /\ mbox[n] # NoMsg => /\ mbox[n].blockno \in Int /\ mbox[n].content \in Data
<1>1. mbox[n] \in Message \cup {NoMsg} /\ wire[n] \in Seq(Packet)
  BY DEF Carried, Packet
<1>2. CASE mbox[n] = NoMsg
  BY <1>1, <1>2 DEF Pending
<1>3. CASE mbox[n] # NoMsg
  <2>1. mbox[n].blockno \in Int /\ mbox[n].content \in Data
    BY <1>1, <1>3 DEF Message
  <2>2. [blockno |-> mbox[n].blockno, content |-> mbox[n].content] \in Packet
    BY <2>1 DEF Packet
  <2>3. Append(wire[n], [blockno |-> mbox[n].blockno, content |-> mbox[n].content]) \in Seq(Packet)
    BY <1>1, <2>2
  <2>. QED BY <1>1, <1>3, <2>1, <2>3 DEF Pending
<1>. QED BY <1>2, <1>3

\* The handlers' and the DataNodes' steps keep everything but the reads.
LEMMA NetworkRead ==
  ASSUME StoreInv, SpaceInv, ReadInv, Carried',
         \A l \in Place : Reads(l)' = Reads(l),
         UNCHANGED <<copies, doomed, src, source, pc, path, local, handler, next, target>>
  PROVE  ReadInv'
<1>1. Locals'
  BY DEF ReadInv, Locals, OwnFile
<1>2. Running'
  BY DEF ReadInv, Running
<1>3. Live' \subseteq Live
  BY SameLive
<1>4. \A s : Owner(s[1])' = Owner(s[1])
  BY DEF Owner
<1>. QED BY <1>1, <1>2, <1>3, <1>4, ReadFrame

\* A block waiting to be sent belongs to a store that still distributes.
LEMMA SendsAreMapped ==
  ASSUME SentInv, NEW m \in Node, mbox[m] # NoMsg
  PROVE  mbox[m].op = "send" /\ Mapped(mbox[m])
<1>1. m \in Sending
  BY DEF Sending
<1>2. PICK t \in Thread : pc[t] \in Distributing
  BY <1>1 DEF SentInv, AnyDistributes
<1>3. mbox[m].op = "send" /\ mbox[m].from = t
  BY <1>1, <1>2 DEF SentInv, Counts
<1>. QED BY <1>2, <1>3 DEF Mapped, Distributing

\* NODE_SEND: the block moves from the handler's slot to the connection.
LEMMA HandleRead ==
  ASSUME Connected, StoreInv, SpaceInv, SentInv, ReadInv, NEW m \in Node, HandleSend(m)
  PROVE  ReadInv'
<1>. DEFINE e == [blockno |-> mbox[m].blockno, content |-> mbox[m].content]
<1>1. /\ UNCHANGED <<copies, doomed, src, source, pc, path, local, handler, next, target, disk>>
      /\ mbox[m] # NoMsg /\ mbox[m].op = "send"
      /\ mbox' = [mbox EXCEPT ![m] = NoMsg]
      /\ wire' = [wire EXCEPT ![m] = Append(@, e)]
  BY SendsAreMapped DEF HandleSend, Connected, tableVars, localVars, consoleVars
<1>2. Carried
  BY DEF ReadInv
<1>3. e \in Packet
  BY <1>1, <1>2, PendingType DEF Packet
<1>4. Pending(m) = Append(wire[m], e)
  BY <1>1 DEF Pending
<1>. HIDE DEF e
<1>5. \A n \in Node : /\ mbox'[n] = IF n = m THEN NoMsg ELSE mbox[n]
                      /\ wire'[n] = IF n = m THEN Append(wire[n], e) ELSE wire[n]
  <2>1. mbox = [n \in Node |-> mbox[n]] /\ wire = [n \in Node |-> wire[n]]
    BY <1>2 DEF SentInv, Carried
  <2>. QED BY <1>1, <2>1
<1>6. Append(wire[m], e) \in Seq(Packet)
  BY <1>2, <1>3, PendingType
<1>7. Carried'
  BY <1>1, <1>2, <1>5, <1>6 DEF Carried, Packet
<1>8. \A n \in Node : Pending(n)' = Pending(n)
  BY <1>4, <1>5 DEF Pending
<1>9. \A l \in Place : Reads(l)' = Reads(l)
  <2>. SUFFICES ASSUME NEW l \in Place PROVE Reads(l)' = Reads(l)
    OBVIOUS
  <2>1. l.node \in Node
    BY LocFacts DEF Place
  <2>2. PICK q : q = Pending(l.node)
    OBVIOUS
  <2>3. q = Pending(l.node)'
    BY <1>8, <2>1, <2>2
  <2>. QED BY <1>1, <2>2, <2>3, ReadsAre, ReadsAreNext DEF ReadsBy
<1>. QED BY <1>1, <1>7, <1>9, NetworkRead

\* Write: the DataNode applies the oldest block.
LEMMA WriteRead ==
  ASSUME StoreInv, SpaceInv, ReadInv, NEW m \in Node, Write(m)
  PROVE  ReadInv'
<1>1. /\ UNCHANGED <<copies, doomed, src, source, pc, path, local, handler, next, target, mbox>>
      /\ wire[m] # <<>> /\ wire' = [wire EXCEPT ![m] = Tail(@)]
      /\ disk' = [disk EXCEPT ![m][Head(wire[m]).blockno] = Head(wire[m]).content]
  BY DEF Write, linkVars, tableVars, localVars, consoleVars
<1>2. Carried
  BY DEF ReadInv
<1>3. wire[m] \in Seq(Packet) /\ wire[m] # <<>>
  BY <1>1, <1>2, PendingType
<1>4. /\ \A n \in Node : wire'[n] = IF n = m THEN Tail(wire[n]) ELSE wire[n]
      /\ \A n \in Node : n # m => disk'[n] = disk[n]
      /\ disk'[m] = [disk[m] EXCEPT ![Head(wire[m]).blockno] = Head(wire[m]).content]
  <2>1. /\ wire = [n \in Node |-> wire[n]]
        /\ disk = [n \in Node |-> [b \in 0 .. Total[n] - 1 |-> disk[n][b]]]
    BY <1>2 DEF Carried
  <2>2. DOMAIN disk = Node /\ DOMAIN wire = Node
    BY <2>1
  <2>. QED BY <1>1, <2>2
<1>5. Tail(wire[m]) \in Seq(Packet)
  BY <1>3
<1>6. Carried'
  <2>1. \A n \in Node : wire'[n] \in Seq(Packet)
    BY <1>2, <1>4, <1>5, PendingType
  <2>2. wire' = [n \in Node |-> wire'[n]]
    BY <1>1, <1>2 DEF Carried
  <2>3. disk' = [n \in Node |-> [b \in 0 .. Total[n] - 1 |-> disk'[n][b]]]
    <3>1. \A n \in Node : disk[n] = [b \in 0 .. Total[n] - 1 |-> disk[n][b]]
      BY <1>2 DEF Carried
    <3>2. \A n \in Node : disk'[n] = [b \in 0 .. Total[n] - 1 |-> disk'[n][b]]
      BY <1>4, <3>1
    <3>3. DOMAIN disk' = Node /\ disk' = [n \in Node |-> disk'[n]]
      BY <1>1, <1>2 DEF Carried
    <3>. QED BY <3>2, <3>3
  <2>4. \A n \in Node : mbox'[n] \in Message \cup {NoMsg}
    BY <1>1, <1>2 DEF Carried
  <2>. QED BY <2>1, <2>2, <2>3, <2>4 DEF Carried, Packet
<1>7. \A l \in Place : Reads(l)' = Reads(l)
  <2>. SUFFICES ASSUME NEW l \in Place PROVE Reads(l)' = Reads(l)
    OBVIOUS
  <2>1. l.node \in Node /\ l.blockno \in 0 .. Total[l.node] - 1
    BY LocFacts DEF Place
  <2>2. PICK q, q2, d, d2 : /\ q = Pending(l.node) /\ q2 = Pending(l.node)'
                            /\ d = disk[l.node] /\ d2 = disk'[l.node]
    OBVIOUS
  <2>3. Reads(l) = ReadOf(q, d, l.blockno) /\ Reads(l)' = ReadOf(q2, d2, l.blockno)
    BY <2>2, ReadsAre, ReadsAreNext DEF ReadsBy
  <2>4. CASE l.node # m
    <3>1. q2 = q /\ d2 = d
      BY <1>1, <1>4, <2>1, <2>2, <2>4 DEF Pending
    <3>. QED BY <2>3, <3>1
  <2>5. CASE l.node = m
    <3>1. q \in Seq(Packet)
      BY <1>2, <2>1, <2>2, PendingType
    <3>2. q # <<>> /\ q2 = Tail(q) /\ Head(q) = Head(wire[m])
      <4>1. CASE mbox[m] = NoMsg \/ mbox[m].op # "send"
        BY <1>1, <1>4, <2>2, <2>5, <4>1, <1>3 DEF Pending
      <4>2. CASE mbox[m] # NoMsg /\ mbox[m].op = "send"
        <5>. DEFINE e == [blockno |-> mbox[m].blockno, content |-> mbox[m].content]
        <5>1. q = Append(wire[m], e) /\ q2 = Append(Tail(wire[m]), e)
          BY <1>1, <1>4, <2>2, <2>5, <4>2 DEF Pending
        <5>2. e \in Packet
          BY <1>2, <4>2, PendingType DEF Packet
        <5>. HIDE DEF e
        <5>. QED BY <1>3, <5>1, <5>2
      <4>. QED BY <4>1, <4>2
    <3>3. d2 = [d EXCEPT ![Head(q).blockno] = Head(q).content]
      BY <1>4, <2>2, <2>5, <3>2
    <3>4. d = [b \in 0 .. Total[m] - 1 |-> d[b]]
      BY <1>2, <2>2, <2>5 DEF Carried
    <3>5. l.blockno \in 0 .. Total[m] - 1
      BY <2>1, <2>5
    <3>6. ReadOf(Tail(q), [d EXCEPT ![Head(q).blockno] = Head(q).content], l.blockno)
            = ReadOf(q, d, l.blockno)
      <4>1. PICK D : D = 0 .. Total[m] - 1
        OBVIOUS
      <4>2. d = [b \in D |-> d[b]] /\ l.blockno \in D
        BY <3>4, <3>5, <4>1
      <4>. QED BY <3>1, <3>2, <4>2, ReadApplied
    <3>. QED BY <2>3, <3>2, <3>3, <3>6
  <2>. QED BY <2>4, <2>5
<1>. QED BY <1>1, <1>6, <1>7, NetworkRead

\* While a thread distributes a file the console removes none.
LEMMA NotRemoving ==
  ASSUME SpaceInv, NEW t \in Thread, pc[t] \in Distributing
  PROVE  pc[Console] # "rm"
  BY DEF SpaceInv, Quiet, Storing, Distributing, Thread

\* The copy being delivered is one of the thread's own, on its target.
LEMMA DeliveredCopy ==
  ASSUME StoreInv, SpaceInv, ReadInv, NEW t \in Thread, pc[t] = "deliver"
  PROVE  \E s \in Live :
           /\ s = <<t, Current(t), LastHalf(t)>> /\ s[1] = t /\ s[2] = Current(t)
           /\ Current(t) \in Index /\ copies[s] \in Location /\ target[t] \in Node
           /\ copies[s].node = target[t] /\ copies[s].blockno \in Int
           /\ copies[s] = IF Copy(t, Current(t), 1) # NoLoc THEN Copy(t, Current(t), 1)
                          ELSE Copy(t, Current(t), 0)
           /\ \A r \in Live : Undelivered(r) => r = s
<1>1. PICK i \in Index, c \in {0, 1} : i = Current(t) /\ c = LastHalf(t)
  BY CurrentInIndex DEF StoreInv, Distributing, LastHalf
<1>2. PICK s \in Slot : s = <<t, i, c>>
  BY HoldersApart, SlotFacts
<1>3. copies[s] # NoLoc /\ copies[s].node = target[t]
  BY <1>1, <1>2 DEF ReadInv, Chosen
<1>4. s \in Live
  BY <1>2, <1>3, NotRemoving, LiveFacts DEF Distributing
<1>5. copies[s] \in Location /\ copies[s].node \in Node /\ copies[s].blockno \in Int
  BY <1>4, LiveLocation
<1>6. copies[s] = IF Copy(t, Current(t), 1) # NoLoc THEN Copy(t, Current(t), 1)
                  ELSE Copy(t, Current(t), 0)
  BY <1>1, <1>2 DEF LastHalf, Copy
<1>7. \A r : Undelivered(r) => r = s
  <2>1. \A u \in Thread : pc[u] = "deliver" => u = t
    BY OnlyOne DEF Distributing
  <2>. QED BY <1>1, <1>2, <2>1 DEF Undelivered
<1>8. s[1] = t /\ s[2] = Current(t) /\ s = <<t, Current(t), LastHalf(t)>>
  BY <1>1, <1>2
<1>9. Current(t) \in Index /\ target[t] \in Node
  BY <1>1, <1>3, <1>5
<1>. QED BY <1>3, <1>4, <1>5, <1>6, <1>7, <1>8, <1>9

\* Pending, for any value of the slot and of the connection.
QueueIs ==
  \A n, x, w : x = mbox[n] /\ w = wire[n] =>
    Pending(n) = IF x = NoMsg \/ x.op # "send" THEN w
                 ELSE Append(w, [blockno |-> x.blockno, content |-> x.content])

\* So are the queues of this state and of the next.
LEMMA QueuesAre == QueueIs
  BY DEF QueueIs, Pending

\* So is the queue of the next state.
LEMMA QueuesAreNext == QueueIs'
  BY QueuesAre, PTL

\* thread_send of a NODE_SEND: the delivered copy reads back as its block, and
\* no other copy is on that block.
LEMMA DeliverRead ==
  ASSUME StoreInv, SpaceInv, SentInv, ReadInv, NEW t \in Thread, Deliver(t)
  PROVE  ReadInv'
<1>0. PICK m, w : m = target[t] /\ w = Token(source[t], Current(t))
  OBVIOUS
<1>1. /\ UNCHANGED <<copies, doomed, src, source, path, local, handler, wire, disk>>
      /\ pc[t] = "deliver" /\ pc' = [pc EXCEPT ![t] = "send"]
  BY DEF Deliver, Goto, dataVars, tableVars, consoleVars
<1>2. PICK s \in Live :
        /\ s[1] = t /\ s[2] = Current(t) /\ Current(t) \in Index
        /\ copies[s] \in Location /\ m \in Node
        /\ copies[s].node = m /\ copies[s].blockno \in Int
        /\ copies[s] = IF Copy(t, Current(t), 1) # NoLoc THEN Copy(t, Current(t), 1)
                       ELSE Copy(t, Current(t), 0)
        /\ \A r \in Live : Undelivered(r) => r = s
  BY <1>0, <1>1, DeliveredCopy
<1>3. PICK l0 : l0 = copies[s]
  OBVIOUS
<1>. DEFINE msg == [op |-> "send", blockno |-> l0.blockno, from |-> t, content |-> w]
            e == [blockno |-> l0.blockno, content |-> w]
<1>4. w \in Data
  <2>1. source[t] \in LocalFile
    BY <1>1 DEF StoreInv, Control, Distributing
  <2>. QED BY <1>0, <1>2, <2>1 DEF Token, Data, LocalFile
<1>5. msg \in Message /\ e \in Packet /\ msg # NoMsg
  BY <1>2, <1>3, <1>4, MessageAssumption DEF Message, Packet
<1>6. mbox[m] = NoMsg /\ mbox' = [mbox EXCEPT ![m] = msg]
  <2>1. handler[m]
    BY <1>1, <1>2 DEF ReadInv, Running
  <2>. QED BY <1>0, <1>2, <1>3, <2>1 DEF Deliver, SendTo, Block
<1>7. Carried
  BY DEF ReadInv
<1>8. \A n \in Node : mbox'[n] = IF n = m THEN msg ELSE mbox[n]
  <2>1. mbox = [n \in Node |-> mbox[n]]
    BY DEF SentInv
  <2>. QED BY <1>6, <2>1
<1>9. Pending(m) = wire[m] /\ Pending(m)' = Append(wire[m], e)
  <2>1. Pending(m) = wire[m]
    BY <1>6 DEF Pending
  <2>2. PICK x, y : x = mbox'[m] /\ y = wire'[m]
    OBVIOUS
  <2>3. x = msg /\ y = wire[m]
    BY <1>1, <1>2, <1>8, <2>2
  <2>4. x # NoMsg /\ x.op = "send" /\ [blockno |-> x.blockno, content |-> x.content] = e
    BY <1>5, <2>3
  <2>. HIDE DEF msg, e
  <2>5. Pending(m)' = Append(y, e)
    BY <2>2, <2>4, QueuesAreNext DEF QueueIs
  <2>. QED BY <2>1, <2>3, <2>5
<1>10. \A n \in Node \ {m} : Pending(n)' = Pending(n)
  BY <1>1, <1>8 DEF Pending
<1>11. Carried'
  <2>1. \A n \in Node : mbox'[n] \in Message \cup {NoMsg}
    BY <1>5, <1>7, <1>8 DEF Carried
  <2>. QED BY <1>1, <1>7, <2>1 DEF Carried
<1>. HIDE DEF msg, e
<1>12. e.blockno = l0.blockno /\ e.content = w
  BY DEF e
<1>13. t \in Thread /\ pc'[t] = "send" /\ \A u \in Thread : u # t => pc'[u] = pc[u] /\ pc[u] # "deliver"
  BY <1>1, OnlyOne DEF StoreInv, StoreTypeOK, Distributing
<1>14. Running' /\ Chosen'
  <2>1. Running'
    BY <1>1, <1>13 DEF ReadInv, Running
  <2>2. \A u \in Thread : pc'[u] # "deliver"
    BY <1>13
  <2>. QED BY <2>1, <2>2 DEF Chosen
<1>15. Locals'
  <2>1. \A u \in Thread : /\ pc'[u] \in Storing => pc[u] \in Storing
                          /\ pc'[u] \in Distributing => pc[u] \in Distributing
                          /\ pc'[u] \in {"lock", "plan"} => pc[u] \in {"lock", "plan"}
    BY <1>1, <1>13 DEF Storing, Distributing
  <2>2. \A u \in Storer : u \in Thread
    BY DEF Thread
  <2>. QED BY <1>1, <2>1, <2>2, LocalsFrame DEF ReadInv
<1>16. Live' \subseteq Live
  <2>1. pc[Console] # "rm"
    BY <1>1, NotRemoving DEF Distributing
  <2>. QED BY <1>1, <2>1, SameLive
<1>17. Contents'
  <2>1. SUFFICES ASSUME NEW r \in Live', NEW l, l = copies'[r]
                 PROVE  Reads(l)' = Token(Owner(r[1])', r[2])
    BY DEF Contents, Token
  <2>2. r \in Live /\ l = copies[r] /\ Owner(r[1])' = Owner(r[1])
    BY <1>1, <1>16, <2>1 DEF Owner
  <2>3. l \in Location /\ l.node \in Node
    BY <2>2, LiveLocation
  <2>4. PICK q, q2, d : q = Pending(l.node) /\ q2 = Pending(l.node)' /\ d = disk[l.node]
    OBVIOUS
  <2>5. Reads(l) = ReadOf(q, d, l.blockno) /\ Reads(l)' = ReadOf(q2, d, l.blockno)
    BY <1>1, <2>4, ReadsAre, ReadsAreNext DEF ReadsBy
  <2>6. l.node # m => q2 = q
    BY <1>10, <2>3, <2>4
  <2>7. l.node = m => ReadOf(q2, d, l.blockno) = IF l0.blockno = l.blockno THEN w
                                                 ELSE ReadOf(q, d, l.blockno)
    <3>. SUFFICES ASSUME l.node = m
                  PROVE  ReadOf(q2, d, l.blockno) = IF l0.blockno = l.blockno THEN w
                                                    ELSE ReadOf(q, d, l.blockno)
      OBVIOUS
    <3>1. q \in Seq(Packet) /\ q2 = Append(q, e)
      BY <1>7, <1>9, <2>3, <2>4, PendingType
    <3>. QED BY <1>5, <1>12, <3>1, ReadAppended
  <2>8. CASE r = s
    <3>1. l = l0 /\ l.node = m
      BY <1>2, <1>3, <2>2, <2>8
    <3>2. Owner(r[1]) = source[t]
      BY <1>2, <2>8 DEF Owner
    <3>. QED BY <1>0, <1>2, <2>2, <2>5, <2>7, <2>8, <3>1, <3>2
  <2>9. CASE r # s
    <3>1. l # l0
      BY <1>3, <2>2, <2>9 DEF SpaceInv, NoSharing
    <3>2. l.node = m => l.blockno # l0.blockno
      BY <1>2, <1>3, <2>3, <3>1, LocEqual
    <3>3. Reads(l) = Token(Owner(r[1]), r[2])
      BY <1>2, <2>2, <2>9 DEF ReadInv, Contents
    <3>. QED BY <2>2, <2>5, <2>6, <2>7, <3>2, <3>3
  <2>. QED BY <2>8, <2>9
<1>. QED BY <1>11, <1>14, <1>15, <1>17 DEF ReadInv

\* nodelist_addblock fills the copy that thread_send then delivers.
LEMMA AllocRead ==
  ASSUME Discipline, StoreInv, SpaceInv, ReadInv, NEW t \in Thread, Alloc(t)
  PROVE  ReadInv'
<1>1. PICK n, i, c, b :
        /\ n = target[t] /\ i = Current(t) /\ c = Half(t) /\ b \in Bit(n)
        /\ copies' = [copies EXCEPT ![<<t, i, c>>] = Loc(n, b)]
  BY DEF Alloc
<1>2. /\ UNCHANGED <<doomed, src, source, path, local, handler, next, target, mbox, wire, disk>>
      /\ pc[t] = "alloc" /\ pc' = [pc EXCEPT ![t] = "deliver"]
  BY DEF Alloc, Goto, linkVars, dataVars, localVars, consoleVars
<1>3. n \in Node /\ b \in Int /\ i \in Index /\ c \in {0, 1}
  <2>1. n \in Node
    BY <1>1, <1>2, NotRemoving DEF StoreInv, Targeted, StoreTypeOK
  <2>. QED BY <1>1, <1>2, <2>1, BitInt, CurrentInIndex DEF StoreInv, Half, Distributing
<1>4. PICK s \in Slot : s = <<t, i, c>> /\ s[1] = t /\ s[2] = i
  BY <1>3, HoldersApart, SlotFacts
<1>5. PICK l \in Location : l = Loc(n, b) /\ l.node = n /\ l # NoLoc
  BY <1>3, LocFacts
<1>6. \A r \in Slot : copies'[r] = IF r = s THEN l ELSE copies[r]
  BY <1>1, <1>4, <1>5 DEF StoreInv, StoreTypeOK
<1>7. pc'[t] = "deliver" /\ \A u \in Thread : u # t => pc'[u] = pc[u] /\ pc[u] # "deliver"
  BY <1>2, OnlyOne DEF StoreInv, StoreTypeOK, Distributing
<1>8. Current(t)' = i
  BY <1>1, <1>2 DEF Current
<1>9. LastHalf(t)' = c
  <2>1. <<t, i, 1>> \in Slot /\ (<<t, i, 1>> = s <=> c = 1)
    BY <1>3, <1>4, HoldersApart, SlotFacts
  <2>2. c = 0 => copies[<<t, i, 1>>] = NoLoc
    BY <1>1, <1>3 DEF Half, StoreInv, Drafts, Copy
  <2>3. LastHalf(t)' = IF copies'[<<t, i, 1>>] # NoLoc THEN 1 ELSE 0
    BY <1>8 DEF LastHalf, Copy
  <2>. QED BY <1>3, <1>5, <1>6, <2>1, <2>2, <2>3
<1>10. Chosen'
  <2>. SUFFICES ASSUME NEW u \in Thread, pc'[u] = "deliver"
                PROVE  /\ copies'[<<u, Current(u)', LastHalf(u)'>>] # NoLoc
                       /\ copies'[<<u, Current(u)', LastHalf(u)'>>].node = target'[u]
    BY DEF Chosen
  <2>1. u = t
    BY <1>7
  <2>. QED BY <1>1, <1>2, <1>4, <1>5, <1>6, <1>8, <1>9, <2>1
<1>11. Undelivered(s)' /\ \A r : ~Undelivered(r)
  <2>1. Undelivered(s)'
    BY <1>4, <1>7, <1>8, <1>9 DEF Undelivered
  <2>2. \A u \in Thread : pc[u] # "deliver"
    BY <1>2, <1>7
  <2>. QED BY <2>1, <2>2 DEF Undelivered
<1>12. \A r \in Live' : r # s => r \in Live /\ copies'[r] = copies[r]
  <2>1. pc[Console] # "rm"
    BY <1>2, NotRemoving DEF Distributing
  <2>. QED BY <1>6, <2>1 DEF Live, Released
<1>13. Carried' /\ \A k : Reads(k)' = Reads(k)
  BY <1>2, SameReads DEF ReadInv
<1>14. \A r : Owner(r[1])' = Owner(r[1])
  BY <1>2 DEF Owner
<1>15. Contents'
  <2>1. \A r \in Live' : ~Undelivered(r)' => r \in Live /\ copies'[r] = copies[r]
    BY <1>11, <1>12
  <2>. QED BY <1>11, <1>13, <1>14, <2>1, ContentsFrame DEF ReadInv
<1>16. Locals'
  <2>1. \A u \in Thread : /\ pc'[u] \in Storing => pc[u] \in Storing
                          /\ pc'[u] \in Distributing => pc[u] \in Distributing
                          /\ pc'[u] \in {"lock", "plan"} => pc[u] \in {"lock", "plan"}
    BY <1>2, <1>7 DEF Storing, Distributing
  <2>2. \A u \in Storer : u \in Thread
    BY DEF Thread
  <2>. QED BY <1>2, <2>1, <2>2, LocalsFrame DEF ReadInv
<1>17. Running'
  BY <1>2 DEF ReadInv, Running
<1>. QED BY <1>10, <1>13, <1>15, <1>16, <1>17 DEF ReadInv

\* filetable_add hands the thread's copies to the path they are of.
LEMMA FinishRead ==
  ASSUME Discipline, StoreInv, SpaceInv, ReadInv, NEW t \in Thread, Finish(t)
  PROVE  ReadInv'
<1>. DEFINE added == Added(t)
<1>1. PICK f :
        /\ f = path[t]
        /\ src' = IF added THEN [src EXCEPT ![f] = t] ELSE src
        /\ copies' = [s \in Slot |-> CASE s[1] = t -> NoLoc
                                       [] s[1] = f /\ added -> Copy(t, s[2], s[3])
                                       [] OTHER -> copies[s]]
  BY DEF Finish
<1>. HIDE DEF added
<1>2. /\ UNCHANGED <<doomed, source, path, local, handler, next, target, mbox, wire, disk>>
      /\ pc[t] = "send" /\ pc' = [pc EXCEPT ![t] = IF t = Console THEN "idle" ELSE "reply"]
  BY DEF Finish, Return, Goto, linkVars, dataVars, localVars, consoleVars
<1>3. f \in File
  BY <1>1, <1>2 DEF StoreInv, Control, Storing, Distributing
<1>4. \A u \in Thread : u # t => pc'[u] = pc[u] /\ pc[u] # "deliver"
  BY <1>2, OnlyOne DEF StoreInv, StoreTypeOK, Distributing
<1>5. pc'[t] = IF t = Console THEN "idle" ELSE "reply"
  BY <1>2 DEF StoreInv, StoreTypeOK
<1>6. \A u \in Thread : pc[u] # "deliver" /\ pc'[u] # "deliver"
  BY <1>2, <1>4, <1>5
<1>7. Chosen' /\ \A s : ~Undelivered(s)
  BY <1>6 DEF Chosen, Undelivered
<1>8. pc[Console] # "rm"
  BY <1>2, NotRemoving DEF Distributing
<1>9. \A s \in Slot : s \in Live <=> copies[s] # NoLoc
  BY <1>8, LiveFacts
<1>10. \A s \in Live' : s \in Slot /\ copies'[s] # NoLoc
  BY DEF Live
<1>11. \A u \in Thread : u # f
  BY <1>3, HoldersApart
<1>12. \A s \in Live' : \E r \in Live : /\ r[2] = s[2] /\ copies[r] = copies'[s]
                                       /\ Owner(r[1]) = Owner(s[1])'
  <2>. SUFFICES ASSUME NEW s \in Slot, copies'[s] # NoLoc
                PROVE  \E r \in Live : /\ r[2] = s[2] /\ copies[r] = copies'[s]
                                       /\ Owner(r[1]) = Owner(s[1])'
    BY <1>10
  <2>1. s[1] # t /\ copies'[s] = IF s[1] = f /\ added THEN Copy(t, s[2], s[3]) ELSE copies[s]
    <3>1. copies'[s] = CASE s[1] = t -> NoLoc
                         [] s[1] = f /\ added -> Copy(t, s[2], s[3])
                         [] OTHER -> copies[s]
      BY <1>1
    <3>2. CASE s[1] = t
      BY <1>11, <3>1, <3>2
    <3>. QED BY <3>1, <3>2
  <2>2. CASE s[1] = f /\ added
    <3>1. s[2] \in Index /\ s[3] \in {0, 1}
      BY SlotParts
    <3>2. PICK r \in Slot : r = <<t, s[2], s[3]>> /\ r[1] = t /\ r[2] = s[2]
      BY <3>1, HoldersApart, SlotFacts
    <3>3. copies[r] = copies'[s] /\ r \in Live
      BY <1>9, <2>1, <2>2, <3>2 DEF Copy
    <3>4. src'[f] = t
      BY <1>1, <1>3, <2>2 DEF StoreInv, StoreTypeOK
    <3>5. Owner(s[1])' = [by |-> t, file |-> f]
      BY <1>11, <2>2, <3>4 DEF Owner
    <3>6. Owner(r[1]) = [by |-> t, file |-> f]
      BY <1>1, <1>2, <3>2 DEF Owner, ReadInv, Locals, OwnFile, Distributing
    <3>. QED BY <3>2, <3>3, <3>5, <3>6
  <2>3. CASE ~(s[1] = f /\ added)
    <3>1. s \in Live /\ copies'[s] = copies[s]
      BY <1>9, <2>1, <2>3
    <3>2. Owner(s[1])' = Owner(s[1])
      <4>1. src'[s[1]] = src[s[1]]
        BY <1>1, <2>3 DEF StoreInv, StoreTypeOK
      <4>. QED BY <1>2, <4>1 DEF Owner
    <3>. QED BY <3>1, <3>2
  <2>. QED BY <2>2, <2>3
<1>13. Carried' /\ \A k : Reads(k)' = Reads(k)
  BY <1>2, SameReads DEF ReadInv
<1>14. Contents'
  BY <1>7, <1>12, <1>13, ContentsFrame DEF ReadInv
<1>15. Locals'
  <2>1. \A u \in Thread : /\ pc'[u] \in Storing => pc[u] \in Storing
                          /\ pc'[u] \in Distributing => pc[u] \in Distributing
                          /\ pc'[u] \in {"lock", "plan"} => pc[u] \in {"lock", "plan"}
    BY <1>2, <1>4, <1>5 DEF Storing, Distributing
  <2>2. \A u \in Storer : u \in Thread
    BY DEF Thread
  <2>. QED BY <1>2, <2>1, <2>2, LocalsFrame DEF ReadInv
<1>16. Running'
  BY <1>2 DEF ReadInv, Running
<1>. QED BY <1>7, <1>13, <1>14, <1>15, <1>16 DEF ReadInv

\* Every step keeps ReadInv: with the connections up, no cpblock and no two
\* workers' files of one name.
LEMMA NextRead ==
  ASSUME Discipline, "cpblock" \notin ConsoleOps, OwnNames, Connected, Connected',
         StoreInv, SpaceInv, SentInv, ReadInv, Next
  PROVE  ReadInv'
<1>0. Console \in Thread /\ \A t \in Storer : t \in Thread
  BY DEF Thread
<1>1. ASSUME NEW t \in Thread, Cpfrom(t) PROVE ReadInv'
  BY <1>1, CpfromRead, PlanRead, AbortRead, AllocRead, DeliverRead, FinishRead DEF Cpfrom
<1>2. CASE \E t \in Storer : StorerStep(t)
  BY <1>0, <1>1, <1>2, WorkerRead DEF StorerStep
<1>3. CASE Operator
  BY <1>3, CommandRead DEF Operator, CmdCpblock, Command
<1>4. CASE ConsoleStep
  <2>1. ~(CpAsk \/ CpReceive \/ CpPut)
    BY DEF SentInv, Copying, CpAsk, CpReceive, CpPut
  <2>. QED BY <1>0, <1>1, <1>4, <2>1, CommandRead, RemovalRead DEF ConsoleStep
<1>5. ASSUME NEW n \in Node, Handler(n) \/ Write(n) \/ Drop(n) \/ Reconnect(n)
      PROVE  ReadInv'
  <2>1. ~HandleRecv(n)
    BY SendsAreMapped DEF HandleRecv
  <2>2. ~Drop(n)
    <3>1. up' = [up EXCEPT ![n] = FALSE] => ~up'[n]
      BY DEF StoreInv, StoreTypeOK
    <3>. QED BY <3>1 DEF Drop, Connected
  <2>3. ~Reconnect(n)
    BY DEF Reconnect, Connected
  <2>. QED BY <1>5, <2>1, <2>2, <2>3, HandleRead, WriteRead DEF Handler
<1>. QED BY <1>2, <1>3, <1>4, <1>5, NoRace DEF Next

\* So does stuttering.
LEMMA StutterRead ==
  ASSUME StoreInv, SpaceInv, ReadInv, UNCHANGED vars
  PROVE  ReadInv'
<1>1. UNCHANGED <<copies, doomed, src, source, pc, path, local, handler, next, target, mbox,
                  wire, disk>>
  BY DEF vars, linkVars, dataVars, tableVars, localVars, consoleVars
<1>2. Carried' /\ \A k : Reads(k)' = Reads(k)
  BY <1>1, SameReads DEF ReadInv
<1>. QED BY <1>1, <1>2, NetworkRead

\* A freshly started store is empty and connected.
LEMMA InitRead == Init => ReadInv
<1>. SUFFICES ASSUME Init PROVE ReadInv
  OBVIOUS
<1>1. \A t \in Thread : pc[t] \notin Storing
  BY DEF Init, Storing, Distributing
<1>2. Running /\ Locals /\ Chosen
  <2>1. Running
    BY DEF Init, Running
  <2>2. \A t \in Storer : t \in Thread
    BY DEF Thread
  <2>. QED BY <1>1, <2>1, <2>2 DEF Locals, Chosen, Storing, Distributing
<1>3. Carried
  <2>1. <<>> \in Seq(Packet)
    OBVIOUS
  <2>. QED BY <2>1 DEF Init, Carried, Packet
<1>4. Contents
  BY DEF Init, Contents, Live
<1>. QED BY <1>2, <1>3, <1>4 DEF ReadInv

\* A stored file reads back from every one of its copies as the local file it
\* was stored from, whatever was removed, reused and stored meanwhile: as long
\* as the connections hold, nobody uses cpblock, and no two workers store files
\* of one name (filetable.c, nodelist.c, server.c).
THEOREM StoredFilesReadBack ==
  Discipline /\ "cpblock" \notin ConsoleOps /\ OwnNames
    => (Spec /\ []Connected => []ReadsBack)
<1>. SUFFICES ASSUME Discipline, "cpblock" \notin ConsoleOps, OwnNames
              PROVE  Spec /\ []Connected => []ReadsBack
  OBVIOUS
<1>1. Init => SentInv /\ ReadInv
  BY InitSent, InitRead
<1>2. Connected => NoneJoins
  BY DEF Connected, NoneJoins
<1>3. StoreInv /\ StoreInv' /\ SpaceInv /\ SpaceInv' /\ Connected /\ Connected' /\ [Next]_vars
        /\ SentInv /\ ReadInv => SentInv' /\ ReadInv'
  BY <1>2, NextSent, StutterSent, NextRead, StutterRead
<1>4. StoreInv /\ ReadInv => ReadsBack
  <2>. SUFFICES ASSUME StoreInv, ReadInv, NEW f \in table, NEW i \in Index, NEW c \in {0, 1},
                       ~Removing(f), Copy(f, i, c) # NoLoc
                PROVE  Good(f, i, c)
    BY DEF ReadsBack
  <2>1. f \in File /\ f \in Holder /\ f \notin Thread
    BY HoldersApart DEF StoreInv, StoreTypeOK
  <2>2. PICK s \in Slot : s = <<f, i, c>> /\ s[1] = f /\ s[2] = i
    BY <2>1, SlotFacts
  <2>3. s \in Live
    BY <2>2, LiveFacts DEF Removing, Copy
  <2>4. ~Undelivered(s)
    <3>1. \A t \in Thread : \A j, k : <<t, j, k>> # s
      BY <2>1, <2>2
    <3>. QED BY <3>1 DEF Undelivered
  <2>5. Reads(copies[s]) = Token(Owner(f), i)
    BY <2>2, <2>3, <2>4 DEF ReadInv, Contents
  <2>6. Owner(f) = [by |-> src[f], file |-> f]
    BY <2>1 DEF Owner
  <2>. QED BY <2>2, <2>5, <2>6 DEF Good, Copy
<1>5. Spec => []StoreInv /\ []SpaceInv
  BY StoreInvariant, SpaceInvariant, PTL
<1>. QED BY <1>1, <1>3, <1>4, <1>5, PTL DEF Spec

\* Only the step that opens a local file changes what a thread stores, and only
\* filetable_add makes entries.
LEMMA OriginsChange ==
  ASSUME StoreInv, Next
  PROVE  /\ \A u \in Thread : source'[u] # source[u] => pc[u] = "plan"
         /\ \A f \in table' : f \in table \/ \E t \in Thread : Finish(t)
<1>. USE DEF tableVars, localVars
<1>1. ASSUME NEW t \in Thread, Cpfrom(t)
      PROVE  /\ \A u \in Thread : source'[u] # source[u] => pc[u] = "plan"
             /\ \A f \in table' : f \in table \/ \E v \in Thread : Finish(v)
  <2>1. CASE Finish(t)
    BY <2>1 DEF Finish
  <2>2. CASE Plan(t)
    BY <2>2 DEF Plan, StoreInv, Control
  <2>3. CASE Lock(t) \/ Abort(t) \/ Balance(t) \/ Full(t) \/ Alloc(t) \/ Deliver(t)
    BY <2>3 DEF Lock, Abort, Balance, Full, Alloc, Deliver
  <2>. QED BY <1>1, <2>1, <2>2, <2>3 DEF Cpfrom
<1>2. CASE \E t \in Storer : StorerStep(t)
  BY <1>1, <1>2 DEF StorerStep, Thread, Request, WriteLocal, Reply
<1>3. CASE Operator
  BY <1>3 DEF Operator, CmdCpfrom, CmdRm, CmdRmBlock, CmdCpblock
<1>4. CASE ConsoleStep
  <2>1. CASE RmEnd
    BY <2>1 DEF RmEnd
  <2>2. CASE (\E s \in doomed : RmCopy(s) \/ RmBlock(s)) \/ CpAsk \/ CpReceive \/ CpPut
    BY <2>2 DEF RmCopy, RmBlock, CpAsk, CpReceive, CpPut
  <2>. QED BY <1>1, <1>4, <2>1, <2>2 DEF ConsoleStep, Thread
<1>5. CASE Race
  BY <1>5 DEF Race, RacingFree
<1>6. CASE \E n \in Node : Handler(n) \/ Write(n) \/ Drop(n) \/ Reconnect(n)
  BY <1>6 DEF Handler, HandleSend, HandleRecv, Write, Drop, Reconnect
<1>. QED BY <1>2, <1>3, <1>4, <1>5, <1>6 DEF Next

\* An entry keeps its origin.
LEMMA OriginKept ==
  ASSUME StoreInv, Entered, Origin, ReadInv, Next
  PROVE  Origin'
<1>. SUFFICES ASSUME NEW f \in table'
              PROVE  /\ Blocks([by |-> src'[f], file |-> f]) > 0
                     /\ src'[f] \in Storer => source'[src'[f]] = [by |-> src'[f], file |-> f]
  BY DEF Origin, Blocks
<1>1. CASE f \in table
  <2>1. src'[f] = src[f]
    BY <1>1, SourcesChange
  <2>2. src[f] \in Storer => source'[src[f]] = source[src[f]]
    <3>1. src[f] \in Storer => pc[src[f]] # "plan" /\ src[f] \in Thread
      BY <1>1 DEF Entered, Through, Thread
    <3>. QED BY <3>1, OriginsChange
  <2>. QED BY <1>1, <2>1, <2>2 DEF Origin
<1>2. CASE f \notin table
  <2>1. PICK t \in Thread : Finish(t)
    BY <1>2, OriginsChange
  <2>2. f = path[t] /\ src'[f] = t /\ source' = source /\ pc[t] = "send"
    <3>1. f = path[t] /\ Added(t)
      BY <1>2, <2>1 DEF Finish
    <3>2. src' = [src EXCEPT ![path[t]] = t] /\ source' = source /\ pc[t] = "send"
      BY <2>1, <3>1 DEF Finish, localVars
    <3>3. f \in File /\ src \in [File -> Thread \cup {Nobody}]
      BY <3>1, <3>2 DEF StoreInv, StoreTypeOK, Control, Storing, Distributing
    <3>. QED BY <3>1, <3>2, <3>3
  <2>3. source[t] = OwnFile(t) /\ Blocks(source[t]) > 0
    BY <2>2 DEF ReadInv, Locals, Distributing, StoreInv, Control
  <2>. QED BY <2>2, <2>3 DEF OwnFile
<1>. QED BY <1>1, <1>2

\* With its blocks, its copies and its origin known, a stored file is readable.
LEMMA Readable ==
  ASSUME StoreInv, KeptInv, Origin, ReadsBack
  PROVE  EveryBlockReadable
<1>. SUFFICES ASSUME NEW f \in table, ~Removing(f)
              PROVE  \E l \in LocalFile :
                       /\ Blocks(l) = Length(f)
                       /\ \A i \in 0 .. Length(f) - 1 : \E c \in {0, 1} :
                            Copy(f, i, c) # NoLoc /\ Reads(Copy(f, i, c)) = Token(l, i)
  BY DEF EveryBlockReadable
<1>. DEFINE l == [by |-> src[f], file |-> f]
<1>1. f \in File /\ src[f] \in Thread
  BY DEF KeptInv, Entered, StoreInv, StoreTypeOK
<1>2. l \in LocalFile /\ Blocks(l) = NumBlocks[f]
  <2>1. Blocks(l) > 0
    BY DEF Origin
  <2>. QED BY <1>1, <2>1 DEF LocalFile, Blocks
<1>3. Length(f) = NumBlocks[f]
  <2>1. CASE src[f] = Console
    BY <2>1 DEF Length
  <2>2. CASE src[f] # Console
    <3>1. source[src[f]] = l
      BY <1>1, <2>2 DEF Origin, Thread
    <3>. QED BY <1>2, <2>2, <3>1 DEF Length
  <2>. QED BY <2>1, <2>2
<1>4. NumBlocks[f] \in 0 .. MaxBlocks /\ MaxBlocks \in Nat
  BY <1>1, StoreAssumption
<1>5. ASSUME NEW i \in 0 .. Length(f) - 1
      PROVE  \E c \in {0, 1} : Copy(f, i, c) # NoLoc /\ Reads(Copy(f, i, c)) = Token(l, i)
  <2>1. i \in Index /\ i < Length(f)
    BY <1>3, <1>4 DEF Index
  <2>2. PICK c \in {0, 1} : Copy(f, i, c) # NoLoc
    BY <2>1 DEF KeptInv, KeepsACopy
  <2>3. Good(f, i, c)
    BY <2>1, <2>2 DEF ReadsBack
  <2>. QED BY <2>2, <2>3 DEF Good
<1>. QED BY <1>2, <1>3, <1>5

\* Every block of every stored file can be read, and is that of the local file
\* it was stored from, as long as the connections hold, nobody uses cpblock, and
\* no two workers store files of one name (filetable.c, nodelist.c, server.c).
THEOREM StoredFilesAreReadable ==
  Discipline /\ "cpblock" \notin ConsoleOps /\ OwnNames
    => (Spec /\ []Connected => []EveryBlockReadable)
<1>. SUFFICES ASSUME Discipline, "cpblock" \notin ConsoleOps, OwnNames
              PROVE  Spec /\ []Connected => []EveryBlockReadable
  OBVIOUS
<1>1. Init => SentInv /\ ReadInv /\ KeptInv /\ Origin
  <2>1. Init => Origin
    BY DEF Init, Origin
  <2>. QED BY <2>1, InitSent, InitRead, InitKept
<1>2. Connected' /\ SentInv => Undisturbed
  BY DEF Connected, SentInv, Undisturbed, Copying
<1>3. StoreInv /\ StoreInv' /\ SpaceInv /\ SpaceInv' /\ Tallies /\ Connected /\ Connected'
        /\ [Next]_vars /\ SentInv /\ ReadInv /\ KeptInv /\ Origin
        => SentInv' /\ ReadInv' /\ KeptInv' /\ Origin'
  <2>. SUFFICES ASSUME StoreInv, StoreInv', SpaceInv, SpaceInv', Tallies, Connected, Connected',
                       [Next]_vars, SentInv, ReadInv, KeptInv, Origin
                PROVE  SentInv' /\ ReadInv' /\ KeptInv' /\ Origin'
    OBVIOUS
  <2>1. NoneJoins
    BY DEF Connected, NoneJoins
  <2>2. CASE Next
    BY <1>2, <2>1, <2>2, NextSent, NextRead, NextKept, OriginKept DEF KeptInv
  <2>3. CASE UNCHANGED vars
    <3>1. Origin'
      BY <2>3 DEF vars, tableVars, localVars, Origin
    <3>. QED BY <2>1, <2>3, <3>1, StutterSent, StutterRead, StutterKept
  <2>. QED BY <2>2, <2>3
<1>4. Spec => []StoreInv /\ []SpaceInv /\ []Tallies
  BY StoreInvariant, SpaceInvariant, AllTallied, PTL
<1>5. Spec /\ []Connected => []ReadsBack
  BY StoredFilesReadBack
<1>6. StoreInv /\ KeptInv /\ Origin /\ ReadsBack => EveryBlockReadable
  BY Readable
<1>. QED BY <1>1, <1>3, <1>4, <1>5, <1>6, PTL DEF Spec
=============================================================================
