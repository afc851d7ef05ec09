---------------------------- MODULE MasterProofs ----------------------------
(***************************************************************************)
(* Proofs about module MasterThreads: for any number of blocks, any nodes  *)
(* and any limit of threads, a thread that was killed answers nothing, and *)
(* no permit of sem is lost.  Proofs about the Workers of MasterAndWorkers: *)
(* for any requests, nodes, data and programs, a child whose temporary     *)
(* names are its own produces the lines it was asked for, in order, and    *)
(* leaves no temporary file.                                               *)
(***************************************************************************)
EXTENDS MasterAndWorkers, FoldProofs, FiniteSetTheorems, WellFoundedInduction, TLAPS

\* The types, with the permits not yet bounded.
Types ==
  /\ pc \in [Hilo -> {"none", "connect", "wait", "send", "push", "suspend", "finish",
                      "header", "content", "exited"}]
  /\ response \in [Hilo -> {0, -1}]
  /\ listed \in [Hilo -> BOOLEAN] /\ active \in [Hilo -> BOOLEAN]
  /\ alive \in [Hilo -> BOOLEAN] /\ sleep \in [Hilo -> Nat]
  /\ created \in 0 .. NumHilos /\ toList \in Hilo \cup {NoHilo}
  /\ mutex \in {"free", "node_drop"} /\ sem \in Nat
  /\ sem_send \in Nat /\ sem_recv \in Nat
  /\ sender \in Hilo \cup {NoHilo} /\ data \in Node
  /\ dpc \in {"receive", "lock", "kill", "join", "resume"} /\ got \in Node
  /\ who \in Hilo \cup {NoHilo} /\ victims \subseteq Hilo
  /\ yama \in Seq([hilo : Hilo, part : {"header", "content"}])
  /\ up \subseteq Node /\ crashed \in BOOLEAN

\* Only threads that were created are listed; node_drop has the mutex from its
\* scan to the resumption of the thread that reported, and kills somebody.
Order ==
  /\ \A h \in Hilo : pc[h] = "none" <=> h > created
  /\ \A h \in Hilo : listed[h] => h <= created
  /\ toList # NoHilo => toList <= created
  /\ mutex = "node_drop" <=> dpc \in {"kill", "join", "resume"}
  /\ dpc \in {"kill", "join"} => victims # {}

\* h has written nothing to the socket to YAMA.
Silent(h) == \A i \in 1 .. Len(yama) : yama[i].hilo # h

\* A thread whose entry is active was not killed and has not begun to answer; one
\* that was killed will not, and has ended unless node_drop waits for it; those
\* node_drop still has to kill are active.
Quiet ==
  /\ \A h \in Hilo :
       active[h] => alive[h] /\ pc[h] \notin {"header", "content", "exited"} /\ Silent(h)
  /\ \A h \in Hilo :
       ~alive[h] => /\ pc[h] \notin {"header", "content"} /\ Silent(h)
                    /\ pc[h] # "exited" => dpc = "join" /\ h = Victim
  /\ \A h \in victims :
       listed[h] /\ (dpc = "kill" \/ (dpc = "join" /\ h # Victim) => active[h])
  /\ dpc = "join" => ~alive[Victim]

\* The inductive invariant.
MasterInv == Types /\ Order /\ Quiet /\ PermitsKept
-----------------------------------------------------------------------------
\* The first victim is one.
LEMMA VictimIsOne ==
  ASSUME victims \subseteq Hilo, victims # {}
  PROVE  Victim \in victims
<1>1. IsWellFoundedOn(OpToRel(<, Nat), Nat)
  BY NatLessThanWellFounded
<1>2. victims \subseteq Nat
  BY MasterAssumption DEF Hilo
<1>3. PICK h \in victims : \A k \in victims : ~ (<<k, h>> \in OpToRel(<, Nat))
  BY <1>1, <1>2, WFMin
<1>4. \A k \in victims : ~ (k < h)
  BY <1>2, <1>3, Zenon DEF OpToRel
<1>5. \A k \in victims : h <= k
  BY <1>2, <1>4
<1> QED
  BY <1>5 DEF Victim

\* The first victim stays the first while the victims are the same.
LEMMA VictimKept ==
  ASSUME victims' = victims
  PROVE  Victim' = Victim
BY DEF Victim
-----------------------------------------------------------------------------
\* Every step keeps the types.
LEMMA TypesStep == Types /\ Order /\ [Next]_vars => Types'
<1> SUFFICES ASSUME Types, Order, [Next]_vars PROVE Types'
  OBVIOUS
<1> USE MasterAssumption
<1> USE DEF threadVars, listVars, mainVars, boxVars, dropVars
<1>1. CASE Create
  BY <1>1 DEF Types, Create, Goto, Hilo
<1>2. CASE PutInList
  BY <1>2 DEF Types, PutInList
<1>3. CASE DropReceive
  BY <1>3 DEF Types, DropReceive
<1>4. CASE DropScan
  BY <1>4 DEF Types, DropScan, Others
<1>5. CASE DropKill
  <2>1. Victim \in Hilo
    BY <1>5, VictimIsOne DEF Types, Order, DropKill
  <2>2. \/ UNCHANGED <<pc, sleep>>
        \/ pc' = [pc EXCEPT ![Victim] = "push"] /\ UNCHANGED sleep
        \/ sleep' = [sleep EXCEPT ![Victim] = @ + 1] /\ UNCHANGED pc
    BY <1>5 DEF DropKill, Goto
  <2>3. sleep' \in [Hilo -> Nat]
    BY <2>1, <2>2 DEF Types
  <2>4. pc' \in [Hilo -> {"none", "connect", "wait", "send", "push", "suspend", "finish",
                        "header", "content", "exited"}]
    BY <2>1, <2>2 DEF Types
  <2>5. active' \in [Hilo -> BOOLEAN] /\ alive' \in [Hilo -> BOOLEAN] /\ dpc' = "join"
    BY <1>5, <2>1 DEF Types, DropKill
  <2>6. UNCHANGED <<response, listed, mainVars, boxVars, mutex, got, who, victims, sem, yama,
                    up, crashed>>
    BY <1>5 DEF DropKill
  <2> QED
    BY <2>3, <2>4, <2>5, <2>6 DEF Types
<1>6. CASE DropJoin
  BY <1>6 DEF Types, DropJoin, Freed
<1>7. CASE DropResume
  <2>1. sleep' \in [Hilo -> Nat]
    <3>1. CASE who \in Hilo
      BY <1>7, <3>1 DEF Types, DropResume
    <3>2. CASE who \notin Hilo
      <4>1. sleep' = sleep
        BY <1>7, <3>2 DEF Types, DropResume
      <4> QED
        BY <4>1 DEF Types
    <3> QED
      BY <3>1, <3>2
  <2> QED
    BY <1>7, <2>1 DEF Types, DropResume
<1>8. ASSUME NEW h \in Hilo, Connect(h) PROVE Types'
  BY <1>8 DEF Types, Connect, Continue, Goto
<1>9. ASSUME NEW h \in Hilo, Receive(h) PROVE Types'
  BY <1>9 DEF Types, Receive, Continue, Goto
<1>10. ASSUME NEW h \in Hilo, Send(h) PROVE Types'
  BY <1>10 DEF Types, Send, Goto
<1>11. ASSUME NEW h \in Hilo, Suspend(h) PROVE Types'
  BY <1>11 DEF Types, Suspend, Goto
<1>12. ASSUME NEW h \in Hilo, Finish(h) PROVE Types'
  BY <1>12 DEF Types, Finish, MayFinish, Goto
<1>13. ASSUME NEW h \in Hilo, SendHeader(h) PROVE Types'
  BY <1>13 DEF Types, SendHeader, Write, Goto
<1>14. ASSUME NEW h \in Hilo, SendContent(h) PROVE Types'
  BY <1>14 DEF Types, SendContent, Write, Goto
<1>15. ASSUME NEW n \in Node, WorkerLost(n) PROVE Types'
  BY <1>15 DEF Types, WorkerLost
<1>16. CASE UNCHANGED vars
  BY <1>16 DEF Types, vars
<1> QED
  BY <1>1, <1>2, <1>3, <1>4, <1>5, <1>6, <1>7, <1>8, <1>9, <1>10, <1>11, <1>12, <1>13,
     <1>14, <1>15, <1>16 DEF Next, Drop, Step

\* Every step keeps the order of creation, listing and killing.
LEMMA OrderStep == Types /\ Order /\ [Next]_vars => Order'
<1> SUFFICES ASSUME Types, Order, [Next]_vars PROVE Order'
  OBVIOUS
<1> USE MasterAssumption
<1> USE DEF threadVars, listVars, mainVars, boxVars, dropVars
<1>1. CASE Create
  <2>1. created \in 0 .. NumHilos /\ created + 1 \in Hilo /\ created' = created + 1
    BY <1>1 DEF Types, Create, Hilo
  <2>2. \A h \in Hilo : h \in Nat
    BY DEF Hilo
  <2>3. /\ pc' = [pc EXCEPT ![created + 1] = "connect"] /\ toList' = created + 1
        /\ UNCHANGED <<listed, mutex, dpc, victims>>
    BY <1>1 DEF Create, Goto
  <2> QED
    BY <2>1, <2>2, <2>3 DEF Types, Order
<1>2. CASE PutInList
  BY <1>2 DEF Types, Order, PutInList
<1>3. CASE DropReceive
  BY <1>3 DEF Types, Order, DropReceive
<1>4. CASE DropScan
  BY <1>4 DEF Types, Order, DropScan, Others
<1>5. CASE DropKill
  BY <1>5 DEF Types, Order, DropKill, Goto
<1>6. CASE DropJoin
  BY <1>6 DEF Types, Order, DropJoin, Freed
<1>7. CASE DropResume
  BY <1>7 DEF Types, Order, DropResume
<1>8. ASSUME NEW h \in Hilo, Connect(h) PROVE Order'
  BY <1>8 DEF Types, Order, Connect, Continue, Goto
<1>9. ASSUME NEW h \in Hilo, Receive(h) PROVE Order'
  BY <1>9 DEF Types, Order, Receive, Continue, Goto
<1>10. ASSUME NEW h \in Hilo, Send(h) PROVE Order'
  BY <1>10 DEF Types, Order, Send, Goto
<1>11. ASSUME NEW h \in Hilo, Suspend(h) PROVE Order'
  BY <1>11 DEF Types, Order, Suspend, Goto
<1>12. ASSUME NEW h \in Hilo, Finish(h) PROVE Order'
  BY <1>12 DEF Types, Order, Finish, MayFinish, Goto
<1>13. ASSUME NEW h \in Hilo, SendHeader(h) PROVE Order'
  BY <1>13 DEF Types, Order, SendHeader, Write, Goto
<1>14. ASSUME NEW h \in Hilo, SendContent(h) PROVE Order'
  BY <1>14 DEF Types, Order, SendContent, Write, Goto
<1>15. ASSUME NEW n \in Node, WorkerLost(n) PROVE Order'
  BY <1>15 DEF Types, Order, WorkerLost
<1>16. CASE UNCHANGED vars
  BY <1>16 DEF Types, Order, vars
<1> QED
  BY <1>1, <1>2, <1>3, <1>4, <1>5, <1>6, <1>7, <1>8, <1>9, <1>10, <1>11, <1>12, <1>13,
     <1>14, <1>15, <1>16 DEF Next, Drop, Step

\* Every step keeps killed threads quiet.
LEMMA QuietStep == Types /\ Order /\ Quiet /\ [Next]_vars => Quiet'
<1> SUFFICES ASSUME Types, Order, Quiet, [Next]_vars PROVE Quiet'
  OBVIOUS
<1> USE MasterAssumption
<1> USE DEF threadVars, listVars, mainVars, boxVars, dropVars
<1>1. CASE Create
  <2>1. created + 1 \in Hilo /\ pc[created + 1] = "none"
    BY <1>1 DEF Types, Order, Create, Hilo
  <2>2. ~listed[created + 1] /\ created + 1 \notin victims
    BY <1>1, <2>1 DEF Types, Order, Quiet, Create, Hilo
  <2>3. /\ pc' = [pc EXCEPT ![created + 1] = "connect"]
        /\ UNCHANGED <<listed, active, alive, yama, dpc, victims>> /\ Victim' = Victim
    BY <1>1, VictimKept DEF Create, Goto
  <2>4. alive[created + 1]
    BY <2>1, <2>2, VictimIsOne DEF Types, Order, Quiet
  <2> QED
    BY <2>1, <2>2, <2>3, <2>4 DEF Types, Quiet, Silent
<1>2. CASE PutInList
  BY <1>2, VictimKept DEF Types, Order, Quiet, Silent, PutInList
<1>3. CASE DropReceive
  BY <1>3, VictimKept DEF Types, Order, Quiet, Silent, DropReceive
<1>4. CASE DropScan
  <2>1. /\ dpc = "lock" /\ dpc' \in {"receive", "resume", "kill"}
        /\ UNCHANGED <<pc, alive, listed, active, yama>>
        /\ victims' = victims \/ victims' = Others(got, sender)
        /\ dpc' = "kill" => victims' = Others(got, sender)
    BY <1>4 DEF DropScan
  <2> QED
    BY <2>1 DEF Types, Quiet, Silent, Others
<1>5. CASE DropKill
  <2>1. Victim \in victims /\ Victim \in Hilo /\ Victim' = Victim
    BY <1>5, VictimIsOne, VictimKept DEF Types, Order, DropKill
  <2>2. /\ active' = [active EXCEPT ![Victim] = FALSE] /\ alive' = [alive EXCEPT ![Victim] = FALSE]
        /\ dpc = "kill" /\ dpc' = "join" /\ UNCHANGED <<listed, victims, yama>>
        /\ pc' = pc \/ pc' = [pc EXCEPT ![Victim] = "push"]
    BY <1>5 DEF DropKill, Goto
  <2> QED
    BY <2>1, <2>2 DEF Types, Quiet, Silent
<1>6. CASE DropJoin
  <2>1. /\ dpc = "join" /\ pc[Victim] = "exited" /\ victims' = victims \ {Victim}
        /\ dpc' \in {"resume", "kill"} /\ UNCHANGED <<pc, alive, listed, active, yama>>
    BY <1>6 DEF DropJoin
  <2> QED
    BY <2>1 DEF Types, Quiet, Silent
<1>7. CASE DropResume
  BY <1>7, VictimKept DEF Types, Order, Quiet, Silent, DropResume
<1>8. ASSUME NEW h \in Hilo, Connect(h) PROVE Quiet'
  <2>1. /\ pc[h] = "connect"
        /\ \E l \in {"wait", "send"} : pc' = [pc EXCEPT ![h] = IF alive[h] THEN l ELSE "exited"]
        /\ UNCHANGED <<alive, listed, active, yama, dpc, victims>> /\ Victim' = Victim
    BY <1>8, VictimKept DEF Connect, Continue, Goto
  <2> QED
    BY <2>1 DEF Types, Quiet, Silent
<1>9. ASSUME NEW h \in Hilo, Receive(h) PROVE Quiet'
  <2>1. /\ pc[h] = "wait"
        /\ \E l \in {"finish", "send"} : pc' = [pc EXCEPT ![h] = IF alive[h] THEN l ELSE "exited"]
        /\ UNCHANGED <<alive, listed, active, yama, dpc, victims>> /\ Victim' = Victim
    BY <1>9, VictimKept DEF Receive, Continue, Goto
  <2> QED
    BY <2>1 DEF Types, Quiet, Silent
<1>10. ASSUME NEW h \in Hilo, Send(h) PROVE Quiet'
  BY <1>10, VictimKept DEF Types, Order, Quiet, Silent, Send, Goto
<1>11. ASSUME NEW h \in Hilo, Suspend(h) PROVE Quiet'
  BY <1>11, VictimKept DEF Types, Order, Quiet, Silent, Suspend, Goto
<1>12. ASSUME NEW h \in Hilo, Finish(h) PROVE Quiet'
  BY <1>12, VictimKept DEF Types, Order, Quiet, Silent, Finish, MayFinish, Goto
<1>13. ASSUME NEW h \in Hilo, SendHeader(h) PROVE Quiet'
  <2>1. /\ yama' = Append(yama, [hilo |-> h, part |-> "header"])
        /\ pc[h] = "header" /\ pc' = [pc EXCEPT ![h] = "content"]
        /\ UNCHANGED <<alive, listed, active, dpc, victims>> /\ Victim' = Victim
    BY <1>13, VictimKept DEF SendHeader, Write, Goto
  <2>2. ASSUME NEW k \in Hilo, k # h, Silent(k) PROVE Silent(k)'
    BY <2>1, <2>2 DEF Types, Silent
  <2>3. ~active[h] /\ alive[h]
    BY <2>1 DEF Quiet
  <2> QED
    BY <2>1, <2>2, <2>3 DEF Types, Quiet
<1>14. ASSUME NEW h \in Hilo, SendContent(h) PROVE Quiet'
  <2>1. /\ yama' = Append(yama, [hilo |-> h, part |-> "content"])
        /\ pc[h] = "content" /\ pc' = [pc EXCEPT ![h] = "exited"]
        /\ UNCHANGED <<alive, listed, active, dpc, victims>> /\ Victim' = Victim
    BY <1>14, VictimKept DEF SendContent, Write, Goto
  <2>2. ASSUME NEW k \in Hilo, k # h, Silent(k) PROVE Silent(k)'
    BY <2>1, <2>2 DEF Types, Silent
  <2>3. ~active[h] /\ alive[h]
    BY <2>1 DEF Quiet
  <2> QED
    BY <2>1, <2>2, <2>3 DEF Types, Quiet
<1>15. ASSUME NEW n \in Node, WorkerLost(n) PROVE Quiet'
  BY <1>15, VictimKept DEF Quiet, Silent, WorkerLost
<1>16. CASE UNCHANGED vars
  BY <1>16, VictimKept DEF Quiet, Silent, vars
<1> QED
  BY <1>1, <1>2, <1>3, <1>4, <1>5, <1>6, <1>7, <1>8, <1>9, <1>10, <1>11, <1>12, <1>13,
     <1>14, <1>15, <1>16 DEF Next, Drop, Step

\* Three ways to keep PermitsKept.
LEMMA HoldersFinite ==
  ASSUME Types, Order
  PROVE  Holders \subseteq Hilo /\ IsFiniteSet(Holders) /\ Cardinality(Holders) \in Nat
<1>1. Holders \subseteq Hilo
  BY VictimIsOne DEF Types, Order, Holders
<1>2. IsFiniteSet(Hilo)
  BY MasterAssumption, FS_Interval DEF Hilo
<1> QED
  BY <1>1, <1>2, FS_Subset, FS_CardinalityType

\* A permit that a new thread takes is not lost.
LEMMA PermitTaken ==
  ASSUME Types, Order, PermitsKept, NEW h, h \notin Holders,
         Holders' = Holders \cup {h}, sem' = sem - 1
  PROVE  PermitsKept'
<1>1. Cardinality(Holders') = Cardinality(Holders) + 1
  BY HoldersFinite, FS_AddElement
<1> QED
  BY <1>1, HoldersFinite DEF PermitsKept, Types

\* A permit that a thread that has ended gives back is not lost.
LEMMA PermitGiven ==
  ASSUME Types, Order, PermitsKept, NEW h \in Holders,
         Holders' = Holders \ {h}, sem' = sem + 1
  PROVE  PermitsKept'
<1>1. Cardinality(Holders') = Cardinality(Holders) - 1
  BY HoldersFinite, FS_RemoveElement
<1> QED
  BY <1>1, HoldersFinite DEF PermitsKept, Types

\* Permits nobody moves are not lost.
LEMMA PermitsUnmoved ==
  ASSUME PermitsKept, Holders' = Holders, sem' = sem
  PROVE  PermitsKept'
BY DEF PermitsKept

\* Every step keeps the permits.
LEMMA PermitsStep == Types /\ Order /\ Quiet /\ PermitsKept /\ [Next]_vars => PermitsKept'
<1> SUFFICES ASSUME Types, Order, Quiet, PermitsKept, [Next]_vars PROVE PermitsKept'
  OBVIOUS
<1> USE MasterAssumption
<1> USE DEF threadVars, listVars, mainVars, boxVars, dropVars
<1>1. CASE Create
  <2>1. created + 1 \in Hilo /\ pc[created + 1] = "none" /\ ~listed[created + 1]
    BY <1>1 DEF Types, Order, Create, Hilo
  <2>2. created + 1 \notin Holders
    BY <2>1, VictimIsOne DEF Types, Order, Quiet, Holders
  <2>3. /\ pc' = [pc EXCEPT ![created + 1] = "connect"] /\ sem' = sem - 1
        /\ UNCHANGED dpc /\ Victim' = Victim
    BY <1>1, VictimKept DEF Create, Goto
  <2>4. Holders' = Holders \cup {created + 1}
    BY <2>1, <2>3 DEF Types, Holders
  <2> QED
    BY <2>2, <2>3, <2>4, PermitTaken
<1>2. CASE PutInList
  <2>1. UNCHANGED <<pc, sem, dpc, victims>> /\ Victim' = Victim
    BY <1>2, VictimKept DEF PutInList
  <2>2. Holders' = Holders
    BY <2>1 DEF Holders
  <2> QED
    BY <2>1, <2>2, PermitsUnmoved
<1>3. CASE DropReceive
  <2>1. UNCHANGED <<pc, sem>> /\ dpc = "receive" /\ dpc' = "lock"
    BY <1>3 DEF DropReceive
  <2>2. Holders' = Holders
    BY <2>1 DEF Holders
  <2> QED
    BY <2>1, <2>2, PermitsUnmoved
<1>4. CASE DropScan
  <2>1. UNCHANGED <<pc, sem>> /\ dpc # "join" /\ dpc' # "join"
    BY <1>4 DEF DropScan
  <2>2. Holders' = Holders
    BY <2>1 DEF Holders
  <2> QED
    BY <2>1, <2>2, PermitsUnmoved
<1>5. CASE DropKill
  <2>1. Victim \in victims /\ Victim \in Hilo /\ Victim' = Victim
    BY <1>5, VictimIsOne, VictimKept DEF Types, Order, DropKill
  <2>2. /\ dpc = "kill" /\ dpc' = "join" /\ sem' = sem
        /\ pc' = pc \/ (pc[Victim] = "send" /\ pc' = [pc EXCEPT ![Victim] = "push"])
    BY <1>5 DEF DropKill, Goto
  <2>3. pc[Victim] \notin {"none", "exited"}
    BY <2>1, <2>2 DEF Types, Order, Quiet, Hilo
  <2>4. Holders' = Holders
    BY <2>1, <2>2, <2>3 DEF Types, Holders
  <2> QED
    BY <2>2, <2>4, PermitsUnmoved
<1>6. CASE DropJoin
  <2>1. /\ dpc = "join" /\ pc[Victim] = "exited" /\ dpc' # "join"
        /\ sem' = sem + 1 /\ pc' = pc
    BY <1>6 DEF DropJoin, Freed
  <2>2. Victim \in Holders /\ Holders' = Holders \ {Victim}
    BY <2>1 DEF Holders
  <2> QED
    BY <2>1, <2>2, PermitGiven
<1>7. CASE DropResume
  <2>1. UNCHANGED <<pc, sem>> /\ dpc # "join" /\ dpc' # "join"
    BY <1>7 DEF DropResume
  <2>2. Holders' = Holders
    BY <2>1 DEF Holders
  <2> QED
    BY <2>1, <2>2, PermitsUnmoved
<1>8. ASSUME NEW h \in Hilo, Connect(h) PROVE PermitsKept'
  <2>1. /\ pc[h] = "connect"
        /\ \E l \in {"wait", "send", "finish"} :
             pc' = [pc EXCEPT ![h] = IF alive[h] THEN l ELSE "exited"]
        /\ sem' = sem /\ dpc' = dpc /\ Victim' = Victim
    BY <1>8, VictimKept DEF Connect, Continue, Goto
  <2>2. ~alive[h] => dpc = "join" /\ h = Victim
    BY <2>1 DEF Quiet
  <2>3. Holders' = Holders
    BY <2>1, <2>2 DEF Types, Holders
  <2> QED
    BY <2>1, <2>3, PermitsUnmoved
<1>9. ASSUME NEW h \in Hilo, Receive(h) PROVE PermitsKept'
  <2>1. /\ pc[h] = "wait"
        /\ \E l \in {"wait", "send", "finish"} :
             pc' = [pc EXCEPT ![h] = IF alive[h] THEN l ELSE "exited"]
        /\ sem' = sem /\ dpc' = dpc /\ Victim' = Victim
    BY <1>9, VictimKept DEF Receive, Continue, Goto
  <2>2. ~alive[h] => dpc = "join" /\ h = Victim
    BY <2>1 DEF Quiet
  <2>3. Holders' = Holders
    BY <2>1, <2>2 DEF Types, Holders
  <2> QED
    BY <2>1, <2>3, PermitsUnmoved
<1>10. ASSUME NEW h \in Hilo, Send(h) PROVE PermitsKept'
  <2>1. /\ pc[h] \in {"send", "push"} /\ pc' = [pc EXCEPT ![h] = "suspend"]
        /\ sem' = sem /\ dpc' = dpc /\ Victim' = Victim
    BY <1>10, VictimKept DEF Send, Goto
  <2>2. ~alive[h] => dpc = "join" /\ h = Victim
    BY <2>1 DEF Quiet
  <2>3. Holders' = Holders
    BY <2>1, <2>2 DEF Types, Holders
  <2> QED
    BY <2>1, <2>3, PermitsUnmoved
<1>11. ASSUME NEW h \in Hilo, Suspend(h) PROVE PermitsKept'
  <2>1. /\ pc[h] = "suspend"
        /\ \E l \in {"wait", "send", "finish"} :
             pc' = [pc EXCEPT ![h] = IF alive[h] THEN l ELSE "exited"]
        /\ sem' = sem /\ dpc' = dpc /\ Victim' = Victim
    BY <1>11, VictimKept DEF Suspend, Goto
  <2>2. ~alive[h] => dpc = "join" /\ h = Victim
    BY <2>1 DEF Quiet
  <2>3. Holders' = Holders
    BY <2>1, <2>2 DEF Types, Holders
  <2> QED
    BY <2>1, <2>3, PermitsUnmoved
<1>12. ASSUME NEW h \in Hilo, Finish(h) PROVE PermitsKept'
  <2>1. /\ pc[h] = "finish" /\ (pc' = pc \/ pc' = [pc EXCEPT ![h] = "header"])
        /\ sem' = sem /\ dpc' = dpc /\ Victim' = Victim
    BY <1>12, VictimKept DEF Finish, Goto
  <2>2. ~alive[h] => dpc = "join" /\ h = Victim
    BY <2>1 DEF Quiet
  <2>3. Holders' = Holders
    BY <2>1, <2>2 DEF Types, Holders
  <2> QED
    BY <2>1, <2>3, PermitsUnmoved
<1>13. ASSUME NEW h \in Hilo, SendHeader(h) PROVE PermitsKept'
  <2>1. /\ pc[h] = "header" /\ pc' = [pc EXCEPT ![h] = "content"]
        /\ sem' = sem /\ dpc' = dpc /\ Victim' = Victim
    BY <1>13, VictimKept DEF SendHeader, Goto
  <2>2. ~alive[h] => dpc = "join" /\ h = Victim
    BY <2>1 DEF Quiet
  <2>3. Holders' = Holders
    BY <2>1, <2>2 DEF Types, Holders
  <2> QED
    BY <2>1, <2>3, PermitsUnmoved
<1>14. ASSUME NEW h \in Hilo, SendContent(h) PROVE PermitsKept'
  <2>1. /\ pc[h] = "content" /\ pc' = [pc EXCEPT ![h] = "exited"]
        /\ sem' = sem + 1 /\ dpc' = dpc /\ Victim' = Victim
    BY <1>14, VictimKept DEF SendContent, Goto
  <2>2. alive[h] /\ (dpc = "join" => h # Victim)
    BY <2>1 DEF Quiet
  <2>3. h \in Holders /\ Holders' = Holders \ {h}
    BY <2>1, <2>2 DEF Types, Holders
  <2> QED
    BY <2>1, <2>3, PermitGiven
<1>15. ASSUME NEW n \in Node, WorkerLost(n) PROVE PermitsKept'
  <2>1. UNCHANGED <<pc, sem, dpc, victims>> /\ Victim' = Victim
    BY <1>15, VictimKept DEF WorkerLost
  <2>2. Holders' = Holders
    BY <2>1 DEF Holders
  <2> QED
    BY <2>1, <2>2, PermitsUnmoved
<1>16. CASE UNCHANGED vars
  <2>1. UNCHANGED <<pc, sem, dpc, victims>> /\ Victim' = Victim
    BY <1>16, VictimKept DEF vars
  <2>2. Holders' = Holders
    BY <2>1 DEF Holders
  <2> QED
    BY <2>1, <2>2, PermitsUnmoved
<1> QED
  BY <1>1, <1>2, <1>3, <1>4, <1>5, <1>6, <1>7, <1>8, <1>9, <1>10, <1>11, <1>12, <1>13,
     <1>14, <1>15, <1>16 DEF Next, Drop, Step

\* The invariant holds at first.
LEMMA MasterInit == Init => MasterInv
<1> SUFFICES ASSUME Init PROVE MasterInv
  OBVIOUS
<1> USE MasterAssumption
<1>1. Types
  <2>1. /\ pc \in [Hilo -> {"none", "connect", "wait", "send", "push", "suspend", "finish",
                         "header", "content", "exited"}]
        /\ response \in [Hilo -> {0, -1}] /\ sleep \in [Hilo -> Nat]
        /\ listed \in [Hilo -> BOOLEAN] /\ active \in [Hilo -> BOOLEAN]
        /\ alive \in [Hilo -> BOOLEAN]
    BY DEF Init
  <2>2. /\ created \in 0 .. NumHilos /\ sem \in Nat /\ sem_send \in Nat /\ sem_recv \in Nat
        /\ yama \in Seq([hilo : Hilo, part : {"header", "content"}])
        /\ data \in Node /\ got \in Node
    BY DEF Init
  <2> QED
    BY <2>1, <2>2 DEF Init, Types
<1>2. Order
  BY DEF Init, Order, Hilo
<1>3. Quiet
  BY DEF Init, Quiet, Silent
<1>4. PermitsKept
  <2>1. Holders = {}
    BY DEF Init, Holders
  <2> QED
    BY <2>1, FS_EmptySet DEF Init, PermitsKept
<1> QED
  BY <1>1, <1>2, <1>3, <1>4 DEF MasterInv

\* The invariant holds in every behaviour, however threads are created, listed,
\* lose their Workers and are killed (manejadores.c, funcionesMaster.c).
THEOREM MasterInvariant == Spec => []MasterInv
<1>1. MasterInv /\ [Next]_vars => MasterInv'
  BY TypesStep, OrderStep, QuietStep, PermitsStep DEF MasterInv
<1> QED
  BY <1>1, MasterInit, PTL DEF Spec

\* The types of MasterThreads hold in every behaviour, and sem is never above its
\* initial value.
THEOREM MasterTypes == Spec => []TypeOK
<1>1. MasterInv => TypeOK
  <2> SUFFICES ASSUME MasterInv PROVE TypeOK
    OBVIOUS
  <2>1. sem \in 0 .. Limit
    BY HoldersFinite, MasterAssumption DEF MasterInv, PermitsKept, Types
  <2> QED
    BY <2>1 DEF MasterInv, Types, TypeOK
<1> QED
  BY <1>1, MasterInvariant, PTL

\* A thread that node_drop killed answers nothing to YAMA (kill_thread).
THEOREM KilledNeverAnswers == Spec => []KilledIsSilent
<1>1. MasterInv => KilledIsSilent
  BY DEF MasterInv, Quiet, Silent, KilledIsSilent
<1> QED
  BY <1>1, MasterInvariant, PTL

\* No permit of sem is lost or made, whatever threads are killed.
THEOREM PermitsNeverLost == Spec => []PermitsKept
<1>1. MasterInv => PermitsKept
  BY DEF MasterInv
<1> QED
  BY <1>1, MasterInvariant, PTL
-----------------------------------------------------------------------------
(***************************************************************************)
(* The Workers.  First what sort, path_merge and the programs make of their *)
(* lines: NumOf(x, s) counts line x in s, and a sequence in order is known  *)
(* by its counts.  Then the inductive invariant and its steps.              *)
(***************************************************************************)
\* The Workers' operators of the library are the library's.
LEMMA WorkersOperators ==
  /\ \A S : W!Cardinality(S) = Cardinality(S)
  /\ \A s : W!FlattenSeq(s) = FlattenSeq(s)
<1>1. \A S : W!Cardinality(S) = Cardinality(S)
  BY Zenon DEF W!Cardinality, Cardinality
<1>2. \A s : W!FlattenSeq(s) = FlattenSeq(s)
  BY Zenon DEF W!FlattenSeq, FlattenSeq
<1>. QED BY <1>1, <1>2

\* How often x is in s, and whether s is in order.
NumOf(x, s) == Cardinality({i \in 1 .. Len(s) : s[i] = x})
Ascends(s) == \A i, j \in 1 .. Len(s) : i < j => s[i] <= s[j]

\* t has the lines of s, where g puts them.
Rearranged(s, t, g) ==
  /\ \A i \in 1 .. Len(s) : g[i] \in 1 .. Len(t) /\ t[g[i]] = s[i]
  /\ \A i, j \in 1 .. Len(s) : g[i] = g[j] => i = j
  /\ \A k \in 1 .. Len(t) : \E i \in 1 .. Len(s) : g[i] = k

\* Lines that are put elsewhere are as many of each kind.
LEMMA NumMoved ==
  ASSUME NEW s \in Seq(Nat), NEW t \in Seq(Nat), NEW x, NEW g, Rearranged(s, t, g)
  PROVE  NumOf(x, t) = NumOf(x, s)
<1>. DEFINE S == {i \in 1 .. Len(s) : s[i] = x}
            T == {i \in 1 .. Len(t) : t[i] = x}
            h == [i \in S |-> g[i]]
<1>o. /\ \A i \in 1 .. Len(s) : g[i] \in 1 .. Len(t) /\ t[g[i]] = s[i]
      /\ \A i, j \in 1 .. Len(s) : g[i] = g[j] => i = j
      /\ \A k \in 1 .. Len(t) : \E i \in 1 .. Len(s) : g[i] = k
  BY DEF Rearranged
<1>1. IsFiniteSet(S)
  <2>1. IsFiniteSet(1 .. Len(s)) /\ S \in SUBSET (1 .. Len(s))
    BY FS_Interval
  <2>. QED BY <2>1, FS_Subset
<1>2. h \in Bijection(S, T)
  <2>1. h \in [S -> T]
    BY <1>o
  <2>2. \A i, j \in S : h[i] = h[j] => i = j
    BY <1>o
  <2>3. ASSUME NEW k \in T
        PROVE  \E i \in S : h[i] = k
    <3>1. PICK i \in 1 .. Len(s) : g[i] = k
      BY <1>o
    <3>2. i \in S /\ h[i] = k
      BY <1>o, <3>1
    <3>. HIDE DEF h, S
    <3>. QED BY <3>2
  <2>. HIDE DEF h, S, T
  <2>. QED BY <2>1, <2>2, <2>3 DEF Bijection, Injection, Surjection, IsInjective
<1>3. ExistsBijection(S, T)
  BY <1>2 DEF ExistsBijection
<1>. HIDE DEF S, T
<1>4. Cardinality(T) = Cardinality(S)
  BY <1>1, <1>3, FS_Bijection
<1>. QED BY <1>4 DEF NumOf, S, T

\* A line is in a sequence if it is there once at least.
LEMMA NumType ==
  ASSUME NEW s \in Seq(Nat), NEW x
  PROVE  NumOf(x, s) \in Nat /\ (NumOf(x, s) # 0 <=> \E i \in 1 .. Len(s) : s[i] = x)
<1>. DEFINE S == {i \in 1 .. Len(s) : s[i] = x}
<1>1. IsFiniteSet(S)
  <2>1. IsFiniteSet(1 .. Len(s)) /\ S \in SUBSET (1 .. Len(s))
    BY FS_Interval
  <2>. QED BY <2>1, FS_Subset
<1>2. S = {} <=> ~ \E i \in 1 .. Len(s) : s[i] = x
  OBVIOUS
<1>. HIDE DEF S
<1>3. Cardinality(S) \in Nat /\ (Cardinality(S) = 0 <=> S = {})
  BY <1>1, FS_CardinalityType, FS_EmptySet
<1>. QED BY <1>2, <1>3 DEF NumOf, S

\* t has the lines of s, where g puts them, and one more at p.
OneMore(s, t, g, p) ==
  /\ p \in 1 .. Len(t)
  /\ \A i \in 1 .. Len(s) : g[i] \in 1 .. Len(t) /\ t[g[i]] = s[i] /\ g[i] # p
  /\ \A i, j \in 1 .. Len(s) : g[i] = g[j] => i = j
  /\ \A k \in 1 .. Len(t) : k # p => \E i \in 1 .. Len(s) : g[i] = k

\* A line more is one more of its kind.
LEMMA NumMore ==
  ASSUME NEW s \in Seq(Nat), NEW t \in Seq(Nat), NEW x, NEW g, NEW p, OneMore(s, t, g, p)
  PROVE  NumOf(x, t) = NumOf(x, s) + (IF t[p] = x THEN 1 ELSE 0)
<1>. DEFINE S == {i \in 1 .. Len(s) : s[i] = x}
            T == {i \in 1 .. Len(t) : t[i] = x}
            h == [i \in S |-> g[i]]
<1>o. /\ p \in 1 .. Len(t)
      /\ \A i \in 1 .. Len(s) : g[i] \in 1 .. Len(t) /\ t[g[i]] = s[i] /\ g[i] # p
      /\ \A i, j \in 1 .. Len(s) : g[i] = g[j] => i = j
      /\ \A k \in 1 .. Len(t) : k # p => \E i \in 1 .. Len(s) : g[i] = k
  BY DEF OneMore
<1>1. IsFiniteSet(S) /\ IsFiniteSet(T)
  <2>1. IsFiniteSet(1 .. Len(s)) /\ S \in SUBSET (1 .. Len(s))
    BY FS_Interval
  <2>2. IsFiniteSet(1 .. Len(t)) /\ T \in SUBSET (1 .. Len(t))
    BY FS_Interval
  <2>. QED BY <2>1, <2>2, FS_Subset
<1>2. h \in Bijection(S, T \ {p})
  <2>1. h \in [S -> T \ {p}]
    BY <1>o
  <2>2. \A i, j \in S : h[i] = h[j] => i = j
    BY <1>o
  <2>3. ASSUME NEW k \in T \ {p}
        PROVE  \E i \in S : h[i] = k
    <3>1. PICK i \in 1 .. Len(s) : g[i] = k
      BY <1>o
    <3>2. i \in S /\ h[i] = k
      BY <1>o, <3>1
    <3>. HIDE DEF h, S
    <3>. QED BY <3>2
  <2>. HIDE DEF h, S, T
  <2>. QED BY <2>1, <2>2, <2>3 DEF Bijection, Injection, Surjection, IsInjective
<1>3. ExistsBijection(S, T \ {p})
  BY <1>2 DEF ExistsBijection
<1>p. p \in T <=> t[p] = x
  BY <1>o
<1>. HIDE DEF S, T
<1>4. Cardinality(T \ {p}) = Cardinality(S)
  BY <1>1, <1>3, FS_Bijection
<1>5. /\ Cardinality(T \ {p}) = IF p \in T THEN Cardinality(T) - 1 ELSE Cardinality(T)
      /\ Cardinality(T) \in Nat /\ Cardinality(S) \in Nat
  BY <1>1, FS_RemoveElement, FS_CardinalityType
<1>6. Cardinality(T) = Cardinality(S) + (IF t[p] = x THEN 1 ELSE 0)
  BY <1>4, <1>5, <1>p
<1>. QED BY <1>6 DEF NumOf, S, T

\* A line before the others, or after them.
LEMMA NumFirst ==
  ASSUME NEW s \in Seq(Nat), s # <<>>, NEW x
  PROVE  NumOf(x, s) = NumOf(x, Tail(s)) + (IF Head(s) = x THEN 1 ELSE 0)
<1>. DEFINE t == Tail(s)
            g == [i \in 1 .. Len(t) |-> i + 1]
            one == 1
<1>1. /\ t \in Seq(Nat) /\ Len(s) \in Nat /\ Len(t) = Len(s) - 1 /\ Head(s) = s[1]
      /\ \A i \in 1 .. Len(t) : t[i] = s[i + 1]
  OBVIOUS
<1>2. one \in 1 .. Len(s) /\ s[one] = Head(s)
  BY <1>1
<1>. HIDE DEF t
<1>3. \A i \in 1 .. Len(t) : g[i] \in 1 .. Len(s) /\ s[g[i]] = t[i] /\ g[i] # one
  BY <1>1
<1>4. \A i, j \in 1 .. Len(t) : g[i] = g[j] => i = j
  BY <1>1
<1>5. \A k \in 1 .. Len(s) : k # one => \E i \in 1 .. Len(t) : g[i] = k
  <2>1. ASSUME NEW k \in 1 .. Len(s), k # one PROVE k - 1 \in 1 .. Len(t) /\ g[k - 1] = k
    BY <1>1, <2>1
  <2>. QED BY <2>1
<1>. HIDE DEF g, one
<1>m. OneMore(t, s, g, one)
  BY <1>2, <1>3, <1>4, <1>5 DEF OneMore
<1>6. NumOf(x, s) = NumOf(x, t) + (IF s[one] = x THEN 1 ELSE 0)
  BY <1>1, <1>m, NumMore
<1>. QED BY <1>2, <1>6 DEF t

\* A line after the others.
LEMMA NumLast ==
  ASSUME NEW s \in Seq(Nat), NEW y \in Nat, NEW x
  PROVE  NumOf(x, Append(s, y)) = NumOf(x, s) + (IF y = x THEN 1 ELSE 0)
<1>. DEFINE t == Append(s, y)
            g == [i \in 1 .. Len(s) |-> i]
            last == Len(s) + 1
<1>1. /\ t \in Seq(Nat) /\ Len(s) \in Nat /\ Len(t) = Len(s) + 1 /\ t[last] = y
      /\ last \in 1 .. Len(t) /\ \A i \in 1 .. Len(s) : t[i] = s[i]
  OBVIOUS
<1>3. \A i \in 1 .. Len(s) : g[i] \in 1 .. Len(t) /\ t[g[i]] = s[i] /\ g[i] # last
  BY <1>1
<1>4. \A i, j \in 1 .. Len(s) : g[i] = g[j] => i = j
  BY <1>1
<1>5. \A k \in 1 .. Len(t) : k # last => \E i \in 1 .. Len(s) : g[i] = k
  BY <1>1
<1>. HIDE DEF g, t, last
<1>m. OneMore(s, t, g, last)
  BY <1>1, <1>3, <1>4, <1>5 DEF OneMore
<1>6. NumOf(x, t) = NumOf(x, s) + (IF t[last] = x THEN 1 ELSE 0)
  BY <1>1, <1>m, NumMore
<1>. QED BY <1>1, <1>6 DEF t

\* Two sequences in order with the same lines are the same.
LEMMA SortedOnce ==
  ASSUME NEW s0 \in Seq(Nat), NEW t0 \in Seq(Nat), Ascends(s0), Ascends(t0),
         \A x \in Nat : NumOf(x, s0) = NumOf(x, t0)
  PROVE  s0 = t0
<1>. DEFINE Pair(s, t) == /\ Ascends(s) /\ Ascends(t) /\ s # t
                          /\ \A x \in Nat : NumOf(x, s) = NumOf(x, t)
            B == {n \in Nat : \E s, t \in Seq(Nat) : Len(s) = n /\ Pair(s, t)}
<1>1. SUFFICES ASSUME s0 # t0 PROVE FALSE
  OBVIOUS
<1>2. B # {}
  <2>1. Len(s0) \in B
    BY <1>1
  <2>. QED BY <2>1
<1>3. PICK n \in B : \A j \in B : ~ (j < n)
  <2>1. B \subseteq Nat
    OBVIOUS
  <2>2. IsWellFoundedOn(OpToRel(<, Nat), Nat)
    BY NatLessThanWellFounded
  <2>. HIDE DEF B
  <2>3. PICK k \in B : \A j \in B : ~ (<<j, k>> \in OpToRel(<, Nat))
    BY <1>2, <2>1, <2>2, WFMin
  <2>. QED BY <2>1, <2>3, Zenon DEF OpToRel
<1>4. PICK s \in Seq(Nat), t \in Seq(Nat) : Len(s) = n /\ Pair(s, t)
  BY <1>3
<1>5. ASSUME NEW u \in Seq(Nat), NEW v \in Seq(Nat), \A x \in Nat : NumOf(x, u) = NumOf(x, v),
             NEW i \in 1 .. Len(u)
      PROVE  \E j \in 1 .. Len(v) : v[j] = u[i]
  <2>1. u[i] \in Nat
    OBVIOUS
  <2>2. NumOf(u[i], u) # 0
    BY NumType
  <2>3. NumOf(u[i], v) # 0
    BY <1>5, <2>1, <2>2
  <2>. QED BY <2>3, NumType
<1>6. s # <<>> /\ t # <<>>
  <2>1. CASE s = <<>>
    <3>1. Len(s) = 0 /\ t # <<>>
      BY <1>4, <2>1
    <3>2. 1 \in 1 .. Len(t)
      BY <3>1
    <3>3. \E j \in 1 .. Len(s) : s[j] = t[1]
      BY <1>4, <1>5, <3>2
    <3>. QED BY <3>1, <3>3
  <2>2. CASE t = <<>>
    <3>1. Len(t) = 0 /\ s # <<>>
      BY <1>4, <2>2
    <3>2. 1 \in 1 .. Len(s)
      BY <3>1
    <3>3. \E j \in 1 .. Len(t) : t[j] = s[1]
      BY <1>4, <1>5, <3>2
    <3>. QED BY <3>1, <3>3
  <2>. QED BY <2>1, <2>2
<1>7. Head(s) = Head(t)
  <2>1. 1 \in 1 .. Len(s) /\ 1 \in 1 .. Len(t) /\ s[1] = Head(s) /\ t[1] = Head(t)
    BY <1>6
  <2>2. PICK j \in 1 .. Len(t) : t[j] = s[1]
    BY <1>4, <1>5, <2>1
  <2>3. PICK i \in 1 .. Len(s) : s[i] = t[1]
    BY <1>4, <1>5, <2>1
  <2>4. t[1] \in Nat /\ s[1] \in Nat
    BY <1>4, <2>1
  <2>5. t[1] <= t[j]
    <3>1. 1 < j => t[1] <= t[j]
      BY <1>4, <2>1 DEF Ascends
    <3>. QED BY <2>4, <3>1
  <2>6. s[1] <= s[i]
    <3>1. 1 < i => s[1] <= s[i]
      BY <1>4, <2>1 DEF Ascends
    <3>. QED BY <2>4, <3>1
  <2>7. t[1] = s[1]
    BY <2>2, <2>3, <2>4, <2>5, <2>6
  <2>. QED BY <2>1, <2>7
<1>8. ASSUME NEW u \in Seq(Nat), u # <<>>, Ascends(u)
      PROVE  Ascends(Tail(u)) /\ Tail(u) \in Seq(Nat) /\ Len(Tail(u)) = Len(u) - 1
  <2>1. /\ Tail(u) \in Seq(Nat) /\ Len(Tail(u)) = Len(u) - 1 /\ Len(u) \in Nat
        /\ \A i \in 1 .. Len(u) - 1 : Tail(u)[i] = u[i + 1] /\ i + 1 \in 1 .. Len(u)
    BY <1>8
  <2>2. ASSUME NEW i \in 1 .. Len(u) - 1, NEW j \in 1 .. Len(u) - 1, i < j
        PROVE  u[i + 1] <= u[j + 1]
    BY <1>8, <2>1, <2>2 DEF Ascends
  <2>. QED BY <2>1, <2>2 DEF Ascends
<1>9. Pair(Tail(s), Tail(t))
  <2>1. \A x \in Nat : NumOf(x, Tail(s)) = NumOf(x, Tail(t))
    <3>1. ASSUME NEW x \in Nat
          PROVE  NumOf(x, Tail(s)) = NumOf(x, Tail(t))
      <4>1. NumOf(x, s) = NumOf(x, Tail(s)) + (IF Head(s) = x THEN 1 ELSE 0)
        BY <1>6, NumFirst
      <4>2. NumOf(x, t) = NumOf(x, Tail(t)) + (IF Head(t) = x THEN 1 ELSE 0)
        BY <1>6, NumFirst
      <4>3. NumOf(x, Tail(s)) \in Nat /\ NumOf(x, Tail(t)) \in Nat
        BY <1>4, <1>6, <1>8, NumType
      <4>4. NumOf(x, s) = NumOf(x, t)
        BY <1>4
      <4>. QED BY <1>7, <4>1, <4>2, <4>3, <4>4
    <3>. QED BY <3>1
  <2>2. Tail(s) # Tail(t)
    <3>1. SUFFICES ASSUME Tail(s) = Tail(t) PROVE s = t
      BY <1>4
    <3>2. ASSUME NEW u \in Seq(Nat), u # <<>>
          PROVE  /\ Len(u) \in Nat /\ Len(u) = Len(Tail(u)) + 1 /\ u[1] = Head(u)
                 /\ \A i \in 1 .. Len(u) : i # 1 => u[i] = Tail(u)[i - 1]
      BY <3>2
    <3>3. Len(s) = Len(t)
      BY <1>6, <3>1, <3>2
    <3>4. ASSUME NEW i \in 1 .. Len(s)
          PROVE  s[i] = t[i]
      <4>1. i # 1 => s[i] = Tail(s)[i - 1] /\ t[i] = Tail(t)[i - 1]
        BY <1>6, <3>2, <3>3
      <4>2. s[1] = t[1]
        BY <1>6, <1>7, <3>2
      <4>. QED BY <3>1, <4>1, <4>2
    <3>. QED BY <3>3, <3>4, SeqEqual
  <2>. QED BY <1>4, <1>6, <1>8, <2>1, <2>2
<1>10. Len(Tail(s)) \in B /\ Len(Tail(s)) < n
  <2>1. Len(Tail(s)) \in Nat /\ Len(Tail(s)) < n /\ Tail(s) \in Seq(Nat) /\ Tail(t) \in Seq(Nat)
    BY <1>4, <1>6, <1>8
  <2>. HIDE DEF Pair
  <2>. QED BY <1>9, <2>1
<1>. HIDE DEF B, Pair
<1>. QED BY <1>3, <1>10
\* What sort makes is in order and has the lines there were.
LEMMA SortedSorts ==
  ASSUME NEW s \in Seq(Nat)
  PROVE  /\ W!Sorted(s) \in Seq(Nat) /\ Ascends(W!Sorted(s))
         /\ \A x \in Nat : NumOf(x, W!Sorted(s)) = NumOf(x, s)
<1>. DEFINE n == Len(s)
            D == 1 .. n
            Upto(k) == {i \in D : W!Before(s, i, k)}
            place == [k \in D |-> W!Place(s, k)]
<1>1. n \in Nat /\ DOMAIN s = D /\ s \in [D -> Nat] /\ IsFiniteSet(D) /\ Cardinality(D) = n
  <2>1. n \in Nat /\ DOMAIN s = D /\ s \in [D -> Nat]
    OBVIOUS
  <2>2. IsFiniteSet(D) /\ Cardinality(D) = n
    <3>1. IsFiniteSet(1 .. n) /\ Cardinality(1 .. n) = IF 1 > n THEN 0 ELSE n - 1 + 1
      <4>. HIDE DEF n
      <4>. QED BY <2>1, FS_Interval
    <3>. QED BY <2>1, <3>1
  <2>. QED BY <2>1, <2>2
<1>2. \A k \in D : IsFiniteSet(Upto(k)) /\ Cardinality(Upto(k)) \in Nat
  BY <1>1, FS_Subset, FS_CardinalityType
<1>3. \A k \in D : place[k] = Cardinality(Upto(k))
  <2>1. \A S : W!Cardinality(S) = Cardinality(S)
    BY WorkersOperators
  <2>. QED BY <1>1, <2>1 DEF W!Place
<1>4. ASSUME NEW k \in D
      PROVE  place[k] \in D
  <2>1. k \in Upto(k)
    BY <1>1 DEF W!Before
  <2>2. Cardinality(Upto(k)) # 0
    <3>. HIDE DEF Upto
    <3>. QED BY <1>2, <2>1, FS_EmptySet
  <2>3. Cardinality(Upto(k)) <= n
    <3>1. Upto(k) \in SUBSET D
      OBVIOUS
    <3>. HIDE DEF Upto
    <3>. QED BY <1>1, <3>1, FS_Subset
  <2>4. place[k] = Cardinality(Upto(k)) /\ Cardinality(Upto(k)) \in Nat
    BY <1>2, <1>3
  <2>. HIDE DEF Upto, place
  <2>. QED BY <1>1, <2>2, <2>3, <2>4
<1>5. ASSUME NEW k \in D, NEW l \in D, k # l, W!Before(s, k, l)
      PROVE  place[k] < place[l]
  <2>1. Upto(k) \in SUBSET Upto(l)
    <3>1. ASSUME NEW i \in Upto(k) PROVE W!Before(s, i, l)
      <4>1. i \in D /\ W!Before(s, i, k) /\ s[i] \in Nat /\ s[k] \in Nat /\ s[l] \in Nat
        BY <1>1
      <4>. QED BY <1>1, <1>5, <4>1 DEF W!Before
    <3>. QED BY <3>1
  <2>2. l \in Upto(l) /\ l \notin Upto(k)
    BY <1>1, <1>5 DEF W!Before
  <2>. HIDE DEF Upto
  <2>3. Cardinality(Upto(k)) <= Cardinality(Upto(l)) /\ Cardinality(Upto(k)) # Cardinality(Upto(l))
    BY <1>2, <2>1, <2>2, FS_Subset
  <2>. QED BY <1>2, <1>3, <2>3
<1>6. \A k, l \in D : k # l => W!Before(s, k, l) \/ W!Before(s, l, k)
  BY <1>1 DEF W!Before
<1>7. \A k, l \in D : place[k] = place[l] => k = l
  BY <1>4, <1>5, <1>6
<1>8. \A j \in D : \E k \in D : place[k] = j
  <2>1. place \in [D -> D]
    BY <1>4
  <2>. HIDE DEF D, place
  <2>2. place \in Injection(D, D)
    BY <1>7, <2>1 DEF Injection, IsInjective
  <2>3. place \in Surjection(D, D)
    BY <1>1, <2>2, FS_Injection
  <2>. QED BY <2>3 DEF Surjection
<1>. DEFINE at(j) == CHOOSE k \in D : W!Place(s, k) = j
            t == [j \in D |-> s[at(j)]]
<1>9. \A j \in D : at(j) \in D /\ place[at(j)] = j
  <2>1. ASSUME NEW j \in D PROVE \E k \in D : W!Place(s, k) = j
    BY <1>8
  <2>2. \A j \in D : at(j) \in D /\ W!Place(s, at(j)) = j
    BY <2>1
  <2>. HIDE DEF at
  <2>. QED BY <2>2
<1>10. t = W!Sorted(s)
  BY <1>1 DEF W!Sorted
<1>. HIDE DEF at, place
<1>11. t \in Seq(Nat) /\ Len(t) = n /\ \A j \in D : t[j] = s[at(j)]
  BY <1>1, <1>9
<1>. HIDE DEF t
<1>12. Ascends(t)
  <2>1. ASSUME NEW i \in D, NEW j \in D, i < j PROVE t[i] <= t[j]
    <3>1. SUFFICES ASSUME ~ (s[at(i)] <= s[at(j)]) PROVE FALSE
      BY <1>11
    <3>2. s[at(i)] \in Nat /\ s[at(j)] \in Nat
      BY <1>1, <1>9
    <3>3. W!Before(s, at(j), at(i))
      BY <3>1, <3>2 DEF W!Before
    <3>4. at(j) # at(i)
      BY <3>1, <3>2
    <3>5. place[at(j)] < place[at(i)]
      BY <1>5, <1>9, <3>3, <3>4
    <3>6. place[at(j)] = j /\ place[at(i)] = i
      BY <1>9
    <3>. QED BY <2>1, <3>5, <3>6
  <2>. QED BY <1>11, <2>1 DEF Ascends
<1>13. ASSUME NEW x \in Nat
       PROVE  NumOf(x, t) = NumOf(x, s)
  <2>1. \A i \in 1 .. Len(s) : place[i] \in 1 .. Len(t) /\ t[place[i]] = s[i]
    BY <1>4, <1>7, <1>9, <1>11
  <2>2. \A k \in 1 .. Len(t) : \E i \in 1 .. Len(s) : t[k] = s[i] /\ place[i] = k
    BY <1>9, <1>11
  <2>3. Rearranged(s, t, place)
    BY <1>7, <2>1, <2>2 DEF Rearranged
  <2>. QED BY <1>11, <2>3, NumMoved
<1>. QED BY <1>10, <1>11, <1>12, <1>13

\* What a program has let through of the first lines.
KeptLine(program, kept, x) == IF x \in program THEN Append(kept, x) ELSE kept
Kept(h, program, s) ==
  /\ h \in [0 .. Len(s) -> Seq(Nat)] /\ h[0] = <<>>
  /\ \A k \in 1 .. Len(s) : h[k] = KeptLine(program, h[k - 1], s[k])

\* Keep goes through the lines one after the other.
LEMMA KeepRuns ==
  ASSUME NEW program, NEW s \in Seq(Nat)
  PROVE  \E h : Kept(h, program, s) /\ W!Keep(program, s) = h[Len(s)]
<1>. DEFINE n == Len(s)
            V == Seq(Nat)
            base == <<>>
            F == [x \in V \X (1 .. n) |-> KeptLine(program, x[1], s[x[2]])]
            Iter(it) == it = [t \in SUBSET (1 .. n) |->
                               IF t = {} THEN base
                               ELSE KeptLine(program, it[t \ {Max(t)}], s[Max(t)])]
            it0 == CHOOSE it : Iter(it)
<1>1. n \in Nat /\ s \in [1 .. n -> Nat] /\ DOMAIN s = 1 .. n
  OBVIOUS
<1>b. base \in V
  OBVIOUS
<1>2. F \in [V \X (1 .. n) -> V]
  <2>1. ASSUME NEW x \in V \X (1 .. n) PROVE KeptLine(program, x[1], s[x[2]]) \in V
    <3>1. x[1] \in Seq(Nat) /\ s[x[2]] \in Nat
      BY <1>1
    <3>. QED BY <3>1, AppendProperties DEF KeptLine
  <2>. QED BY <2>1
<1>3. PICK g : Runs(g, F, base, 1 .. n)
  BY <1>1, RunExists
<1>4. g \in [SUBSET (1 .. n) -> V]
  <2>. HIDE DEF V, F, base, n
  <2>. QED BY <1>1, <1>b, <1>2, <1>3, RunType
<1>m. \A t \in SUBSET (1 .. n) : t # {} => Max(t) \in 1 .. n
  BY <1>1, MaxIsIn
<1>5. Iter(g)
  <2>1. ASSUME NEW t \in SUBSET (1 .. n), t # {}
        PROVE  F[<<g[t \ {Max(t)}], Max(t)>>] = KeptLine(program, g[t \ {Max(t)}], s[Max(t)])
    BY <1>4, <1>m, <2>1
  <2>. HIDE DEF F, base
  <2>. QED BY <1>3, <2>1 DEF Runs
<1>6. Iter(it0)
  BY <1>5
<1>7. W!Keep(program, s) = it0[1 .. n]
  BY <1>1 DEF W!Keep, KeptLine, W!FoldLeft, W!MapThenFoldSet, W!Max, Max
<1>. HIDE DEF it0
<1>8. Runs(it0, F, base, 1 .. n)
  <2>1. ASSUME NEW t \in SUBSET (1 .. n), t # {}, it0[t \ {Max(t)}] \in V
        PROVE  it0[t] = F[<<it0[t \ {Max(t)}], Max(t)>>]
    BY <1>6, <1>m, <2>1
  <2>2. it0[{}] = base /\ it0 = [t \in SUBSET (1 .. n) |-> it0[t]]
    BY <1>6
  <2>. HIDE DEF F, Iter, n, base, V
  <2>. QED BY <1>1, <1>b, <1>2, <2>1, <2>2, RunsLike
<1>9. PICK h : Along(h, F, base, V, n, it0[1 .. n])
  <2>. HIDE DEF F, n, base, V
  <2>. QED BY <1>1, <1>b, <1>2, <1>8, RunsAlong
<1>10. ASSUME NEW k \in 1 .. n
       PROVE  h[k] = KeptLine(program, h[k - 1], s[k])
  <2>1. h[k] = F[<<h[k - 1], k>>]
    <3>. HIDE DEF F, base, V
    <3>. QED BY <1>9 DEF Along
  <2>2. h[k - 1] \in V
    <3>1. k - 1 \in 0 .. n
      BY <1>1
    <3>. QED BY <1>9, <3>1 DEF Along
  <2>. QED BY <2>1, <2>2
<1>11. h \in [0 .. n -> V] /\ h[0] = base /\ h[n] = it0[1 .. n]
  <2>. HIDE DEF F, base, V
  <2>. QED BY <1>9 DEF Along
<1>. QED BY <1>7, <1>10, <1>11 DEF Kept

\* A program keeps the order of the lines, and lets all of a kind through or none.
LEMMA KeepKeeps ==
  ASSUME NEW program, NEW s \in Seq(Nat)
  PROVE  /\ W!Keep(program, s) \in Seq(Nat)
         /\ \A x \in Nat : NumOf(x, W!Keep(program, s)) = IF x \in program THEN NumOf(x, s) ELSE 0
         /\ Ascends(s) => Ascends(W!Keep(program, s))
<1>. DEFINE n == Len(s)
            first(k) == SubSeq(s, 1, k)
<1>1. PICK h : Kept(h, program, s) /\ W!Keep(program, s) = h[Len(s)]
  BY KeepRuns
<1>2. n \in Nat /\ s \in [1 .. n -> Nat]
  OBVIOUS
<1>3. /\ h \in [0 .. n -> Seq(Nat)] /\ h[0] = <<>> /\ W!Keep(program, s) = h[n]
      /\ \A k \in 1 .. n : h[k] = KeptLine(program, h[k - 1], s[k])
  BY <1>1 DEF Kept
<1>4. \A k \in 0 .. n : first(k) \in Seq(Nat) /\ Len(first(k)) = k
                        /\ \A i \in 1 .. k : first(k)[i] = s[i]
  BY <1>2
<1>5. first(n) = s /\ first(0) = <<>>
  BY <1>2
<1>6. \A k \in 0 .. n - 1 : first(k + 1) = Append(first(k), s[k + 1])
  BY <1>2
<1>. HIDE DEF first
<1>. DEFINE OK(k) ==
       /\ \A x \in Nat : NumOf(x, h[k]) = IF x \in program THEN NumOf(x, first(k)) ELSE 0
       /\ \A i \in 1 .. Len(h[k]) : \E m \in 1 .. k : h[k][i] = s[m]
       /\ Ascends(s) => Ascends(h[k])
            S == {k \in Nat : OK(k)}
<1>z. \A x : NumOf(x, <<>>) = 0
  <2>1. <<>> \in Seq(Nat) /\ Len(<<>>) = 0
    OBVIOUS
  <2>2. ASSUME NEW x PROVE NumOf(x, <<>>) = 0
    <3>1. ~ \E i \in 1 .. Len(<<>>) : <<>>[i] = x
      BY <2>1
    <3>. QED BY <2>1, <3>1, NumType
  <2>. QED BY <2>2
<1>7. 0 \in S
  <2>1. Len(<<>>) = 0
    OBVIOUS
  <2>2. Ascends(<<>>)
    BY <2>1 DEF Ascends
  <2>. QED BY <1>3, <1>5, <1>z, <2>1, <2>2
<1>8. ASSUME NEW k \in 0 .. n - 1, k \in S
      PROVE  k + 1 \in S
  <2>. DEFINE y == s[k + 1]
  <2>1. k + 1 \in 1 .. n /\ k \in 0 .. n /\ (k + 1) - 1 = k /\ y \in Nat
    BY <1>2
  <2>2. h[k + 1] = KeptLine(program, h[k], y) /\ h[k] \in Seq(Nat)
    BY <1>3, <2>1
  <2>3. OK(k)
    BY <1>8
  <2>4. \A x \in Nat : NumOf(x, first(k + 1)) = NumOf(x, first(k)) + (IF y = x THEN 1 ELSE 0)
    <3>1. first(k) \in Seq(Nat) /\ first(k + 1) = Append(first(k), y)
      BY <1>4, <1>6, <2>1
    <3>. DEFINE old == first(k)
                new == first(k + 1)
    <3>2. old \in Seq(Nat) /\ new = Append(old, y)
      BY <3>1
    <3>. HIDE DEF y, old, new
    <3>3. \A x \in Nat : NumOf(x, Append(old, y)) = NumOf(x, old) + (IF y = x THEN 1 ELSE 0)
      BY <2>1, <3>2, NumLast
    <3>4. \A x \in Nat : NumOf(x, new) = NumOf(x, old) + (IF y = x THEN 1 ELSE 0)
      BY <3>2, <3>3
    <3>. QED BY <3>4 DEF old, new
  <2>5. \A x \in Nat : NumOf(x, first(k)) \in Nat /\ NumOf(x, h[k]) \in Nat
    BY <1>4, <2>1, <2>2, NumType
  <2>6. CASE y \notin program
    <3>1. h[k + 1] = h[k]
      BY <2>2, <2>6 DEF KeptLine
    <3>2. \A x \in Nat : NumOf(x, h[k + 1]) = IF x \in program THEN NumOf(x, first(k + 1)) ELSE 0
      <4>1. ASSUME NEW x \in Nat
            PROVE  NumOf(x, h[k]) = IF x \in program THEN NumOf(x, first(k + 1)) ELSE 0
        <5>1. NumOf(x, h[k]) = IF x \in program THEN NumOf(x, first(k)) ELSE 0
          BY <2>3
        <5>2. x \in program => NumOf(x, first(k + 1)) = NumOf(x, first(k)) + 0
          BY <2>4, <2>6
        <5>. QED BY <2>5, <5>1, <5>2
      <4>. QED BY <3>1, <4>1
    <3>3. OK(k + 1)
      BY <2>1, <2>3, <3>1, <3>2
    <3>. QED BY <2>1, <3>3
  <2>7. CASE y \in program
    <3>1. h[k + 1] = Append(h[k], y)
      BY <2>2, <2>7 DEF KeptLine
    <3>2. \A x \in Nat : NumOf(x, h[k + 1]) = IF x \in program THEN NumOf(x, first(k + 1)) ELSE 0
      <4>1. ASSUME NEW x \in Nat
            PROVE  NumOf(x, h[k + 1]) = IF x \in program THEN NumOf(x, first(k + 1)) ELSE 0
        <5>1. NumOf(x, h[k]) = IF x \in program THEN NumOf(x, first(k)) ELSE 0
          BY <2>3
        <5>2. NumOf(x, Append(h[k], y)) = NumOf(x, h[k]) + (IF y = x THEN 1 ELSE 0)
          BY <2>1, <2>2, NumLast
        <5>3. NumOf(x, first(k + 1)) = NumOf(x, first(k)) + (IF y = x THEN 1 ELSE 0)
          BY <2>4
        <5>4. NumOf(x, first(k)) \in Nat /\ NumOf(x, h[k]) \in Nat
          BY <2>5
        <5>. HIDE DEF y
        <5>5. NumOf(x, h[k + 1]) = NumOf(x, h[k]) + (IF y = x THEN 1 ELSE 0)
          BY <3>1, <5>2
        <5>6. CASE x \in program
          BY <5>1, <5>3, <5>5, <5>6
        <5>7. CASE x \notin program
          <6>1. y # x
            BY <2>7, <5>7
          <6>. QED BY <5>1, <5>5, <5>7, <6>1
        <5>. QED BY <5>6, <5>7
      <4>. QED BY <4>1
    <3>. DEFINE new == h[k + 1]
                old == h[k]
    <3>3. /\ Len(old) \in Nat /\ Len(new) = Len(old) + 1
          /\ \A i \in 1 .. Len(old) : new[i] = old[i] /\ old[i] \in Nat
          /\ new[Len(old) + 1] = y
      <4>. HIDE DEF old, y
      <4>1. new = Append(old, y) /\ old \in Seq(Nat) /\ y \in Nat
        BY <2>1, <2>2, <3>1 DEF old
      <4>. HIDE DEF new
      <4>. QED BY <4>1
    <3>. HIDE DEF new, old, y
    <3>4. ASSUME NEW i \in 1 .. Len(new)
          PROVE  \E m \in 1 .. k + 1 : new[i] = s[m]
      <4>1. CASE i = Len(old) + 1
        BY <2>1, <3>3, <4>1 DEF y
      <4>2. CASE i # Len(old) + 1
        <5>1. i \in 1 .. Len(old)
          BY <3>3, <4>2
        <5>2. PICK m \in 1 .. k : old[i] = s[m]
          BY <2>3, <5>1 DEF old
        <5>. QED BY <2>1, <3>3, <5>1, <5>2
      <4>. QED BY <4>1, <4>2
    <3>5. ASSUME Ascends(s), NEW i \in 1 .. Len(new), NEW j \in 1 .. Len(new), i < j
          PROVE  new[i] <= new[j]
      <4>1. i \in 1 .. Len(old)
        BY <3>3, <3>5
      <4>2. CASE j = Len(old) + 1
        <5>1. PICK m \in 1 .. k : old[i] = s[m]
          BY <2>3, <4>1 DEF old
        <5>2. s[m] <= s[k + 1]
          BY <1>2, <2>1, <3>5 DEF Ascends
        <5>. QED BY <3>3, <4>1, <4>2, <5>1, <5>2 DEF y
      <4>3. CASE j # Len(old) + 1
        <5>1. j \in 1 .. Len(old) /\ Ascends(old)
          BY <2>3, <3>3, <3>5, <4>3 DEF old
        <5>2. old[i] <= old[j]
          BY <3>5, <4>1, <5>1 DEF Ascends
        <5>. QED BY <3>3, <4>1, <5>1, <5>2
      <4>. QED BY <4>2, <4>3
    <3>6. Ascends(s) => Ascends(new)
      BY <3>5 DEF Ascends
    <3>7. OK(k + 1)
      BY <3>2, <3>4, <3>6 DEF new
    <3>. QED BY <2>1, <3>7
  <2>. QED BY <2>6, <2>7
<1>. HIDE DEF S
<1>9. 0 .. n \subseteq S
  <2>. HIDE DEF n
  <2>. QED BY <1>2, <1>7, <1>8, CountUp
<1>10. n \in S
  BY <1>2, <1>9
<1>11. OK(n)
  BY <1>10 DEF S
<1>12. h[n] \in Seq(Nat)
  BY <1>2, <1>3
<1>. QED BY <1>3, <1>5, <1>11, <1>12

\* Lines put one after the other.
LEMMA NumConcat ==
  ASSUME NEW s \in Seq(Nat), NEW t \in Seq(Nat), NEW x
  PROVE  NumOf(x, s \o t) = NumOf(x, s) + NumOf(x, t)
<1>. DEFINE u == s \o t
            m == Len(s)
            n == Len(t)
            S == {i \in 1 .. m : s[i] = x}
            T == {i \in 1 .. n : t[i] = x}
            U == {i \in 1 .. m + n : u[i] = x}
            R == {i \in m + 1 .. m + n : u[i] = x}
            h == [i \in T |-> i + m]
<1>1. /\ u \in Seq(Nat) /\ Len(u) = m + n /\ m \in Nat /\ n \in Nat
      /\ \A i \in 1 .. m + n : u[i] = IF i <= m THEN s[i] ELSE t[i - m]
  BY ConcatProperties
<1>. HIDE DEF u, m, n
<1>2. U = S \cup R /\ S \cap R = {}
  BY <1>1
<1>3. IsFiniteSet(S) /\ IsFiniteSet(T)
  <2>1. /\ IsFiniteSet(1 .. m) /\ S \in SUBSET (1 .. m)
        /\ IsFiniteSet(1 .. n) /\ T \in SUBSET (1 .. n)
    <3>1. IsFiniteSet(1 .. m) /\ IsFiniteSet(1 .. n)
      <4>1. 1 \in Int /\ m \in Int /\ n \in Int
        BY <1>1
      <4>2. \A k \in Int : IsFiniteSet(1 .. k)
        BY <4>1, FS_Interval
      <4>. QED BY <4>1, <4>2
    <3>. QED BY <3>1
  <2>. QED BY <2>1, FS_Subset
<1>4. h \in Bijection(T, R)
  <2>1. h \in [T -> R]
    <3>1. ASSUME NEW i \in T PROVE i + m \in R
      <4>1. i \in 1 .. n /\ t[i] = x
        OBVIOUS
      <4>2. i + m \in 1 .. m + n /\ ~ (i + m <= m) /\ (i + m) - m = i /\ i + m \in m + 1 .. m + n
        BY <1>1, <4>1
      <4>3. u[i + m] = t[i]
        BY <1>1, <4>2
      <4>. QED BY <4>1, <4>2, <4>3
    <3>. HIDE DEF T, R
    <3>. QED BY <3>1
  <2>2. \A i, j \in T : h[i] = h[j] => i = j
    BY <1>1
  <2>3. ASSUME NEW k \in R
        PROVE  \E i \in T : h[i] = k
    <3>1. k - m \in T
      BY <1>1
    <3>2. h[k - m] = (k - m) + m /\ (k - m) + m = k
      BY <1>1, <3>1
    <3>3. h[k - m] = k
      BY <3>2
    <3>. HIDE DEF h, T
    <3>. QED BY <3>1, <3>3
  <2>. HIDE DEF h, R, T
  <2>. QED BY <2>1, <2>2, <2>3 DEF Bijection, Injection, Surjection, IsInjective
<1>5. ExistsBijection(T, R)
  BY <1>4 DEF ExistsBijection
<1>. HIDE DEF S, T, R, U
<1>6. IsFiniteSet(R) /\ Cardinality(R) = Cardinality(T)
  BY <1>3, <1>5, FS_Bijection
<1>7. Cardinality(S \cup R) = Cardinality(S) + Cardinality(R) - Cardinality(S \cap R)
  BY <1>3, <1>6, FS_Union
<1>8. Cardinality(S \cap R) = 0 /\ Cardinality(S) \in Nat /\ Cardinality(R) \in Nat
  BY <1>2, <1>3, <1>6, FS_EmptySet, FS_CardinalityType
<1>9. Cardinality(U) = Cardinality(S) + Cardinality(T)
  BY <1>2, <1>6, <1>7, <1>8
<1>10. NumOf(x, u) = Cardinality(U)
  BY <1>1 DEF NumOf, U
<1>11. NumOf(x, s) = Cardinality(S) /\ NumOf(x, t) = Cardinality(T)
  BY DEF NumOf, S, T, m, n
<1>. QED BY <1>9, <1>10, <1>11 DEF u

\* How often x is in all of m.
Nums(x, m) == [i \in 1 .. Len(m) |-> NumOf(x, m[i])]
NumAll(x, m) == SumOf(Nums(x, m), 1 .. Len(m))

\* Such a number is one of lines that are there.
LEMMA NumAllType ==
  ASSUME NEW m \in Seq(Seq(Nat)), NEW x \in Nat
  PROVE  /\ NumAll(x, m) \in Int /\ IsFiniteSet(1 .. Len(m)) /\ Len(m) \in Nat
         /\ \A i \in 1 .. Len(m) : m[i] \in Seq(Nat) /\ Nums(x, m)[i] \in Nat
         /\ NumAll(x, m) # 0 => \E i \in 1 .. Len(m) : NumOf(x, m[i]) # 0
<1>. DEFINE D == 1 .. Len(m)
            f == Nums(x, m)
<1>1. IsFiniteSet(D) /\ Len(m) \in Nat
  BY FS_Interval
<1>2. \A i \in D : m[i] \in Seq(Nat) /\ f[i] = NumOf(x, m[i])
  BY DEF Nums
<1>. HIDE DEF f, D
<1>3. \A i \in D : f[i] \in Nat
  <2>1. ASSUME NEW i \in D PROVE f[i] \in Nat
    <3>1. NumOf(x, m[i]) \in Nat
      BY <1>2, NumType
    <3>. QED BY <1>2, <3>1
  <2>. QED BY <2>1
<1>4. SumOf(f, D) \in Int
  BY <1>1, <1>3, SumType
<1>5. SumOf(f, D) # 0 => \E i \in D : f[i] # 0
  BY <1>1, SumZero
<1>6. NumAll(x, m) = SumOf(f, D)
  BY DEF NumAll, f, D
<1>. QED BY <1>1, <1>2, <1>3, <1>4, <1>5, <1>6 DEF f, D

\* FlattenSeq loses no line and adds none.
LEMMA NumFlatten ==
  ASSUME NEW m \in Seq(Seq(Nat))
  PROVE  /\ FlattenSeq(m) \in Seq(Nat)
         /\ \A x \in Nat : NumOf(x, FlattenSeq(m)) = NumAll(x, m)
<1>. DEFINE n == Len(m)
            f == CHOOSE g : Flattens(g, m)
<1>c. n \in Nat /\ m \in [1 .. n -> Seq(Nat)]
  OBVIOUS
<1>1. Flattens(f, m)
  BY FlattenExists
<1>2. n # 0 => FlattenSeq(m) = f[n]
  BY DEF FlattenSeq, Flattens
<1>3. n = 0 => FlattenSeq(m) = m
  BY DEF FlattenSeq
<1>4. ASSUME NEW k \in 1 .. n
      PROVE  f[k] = IF k = 1 THEN m[k] ELSE f[k - 1] \o m[k]
  <2>. HIDE DEF f
  <2>. QED BY <1>1 DEF Flattens
<1>. HIDE DEF f, n
<1>. DEFINE OK(k) == f[k] \in Seq(Nat) /\ \A x \in Nat : NumOf(x, f[k]) = SumOf(Nums(x, m), 1 .. k)
            S == {k \in Nat : k = 0 \/ OK(k)}
<1>5. ASSUME NEW x \in Nat, NEW k \in 1 .. n
      PROVE  /\ SumOf(Nums(x, m), 1 .. k) = NumOf(x, m[k]) + SumOf(Nums(x, m), 1 .. k - 1)
             /\ SumOf(Nums(x, m), 1 .. k - 1) \in Int /\ NumOf(x, m[k]) \in Nat
             /\ SumOf(Nums(x, m), 1 .. 0) = 0
  <2>. DEFINE D == 1 .. k
              g == Nums(x, m)
  <2>1. /\ IsFiniteSet(D) /\ IsFiniteSet(D \ {k}) /\ k \in D /\ D \ {k} = 1 .. k - 1
        /\ \A i \in D : g[i] \in Int /\ g[i] = NumOf(x, m[i]) /\ NumOf(x, m[i]) \in Nat
    <3>1. IsFiniteSet(D) /\ k \in D /\ D \ {k} = 1 .. k - 1
      <4>1. k \in Int /\ 1 \in Int
        BY <1>c
      <4>2. IsFiniteSet(D)
        BY <4>1, FS_Interval
      <4>. QED BY <1>c, <4>2
    <3>2. IsFiniteSet(D \ {k})
      BY <3>1, FS_RemoveElement
    <3>3. \A i \in D : i \in 1 .. Len(m)
      BY <1>c DEF n
    <3>4. \A i \in D : g[i] \in Nat /\ g[i] = NumOf(x, m[i])
      BY <3>3, NumAllType DEF Nums
    <3>. QED BY <3>1, <3>2, <3>4
  <2>. HIDE DEF D, g
  <2>2. SumOf(g, D) = g[k] + SumOf(g, D \ {k})
    BY <2>1, SumTakes
  <2>3. SumOf(g, D \ {k}) \in Int
    BY <2>1, SumType
  <2>4. SumOf(g, 1 .. 0) = 0
    <3>1. 1 .. 0 = {}
      OBVIOUS
    <3>. QED BY <3>1, SumEmpty
  <2>. QED BY <2>1, <2>2, <2>3, <2>4 DEF D, g
<1>6. ASSUME NEW k \in 0 .. n - 1, k \in S
      PROVE  k + 1 \in S
  <2>. DEFINE new == m[k + 1]
              old == f[k]
              next == f[k + 1]
  <2>1. k + 1 \in 1 .. n /\ (k + 1) - 1 = k /\ k \in Nat /\ new \in Seq(Nat)
    BY <1>c
  <2>2. next = IF k + 1 = 1 THEN new ELSE old \o new
    <3>1. f[k + 1] = IF k + 1 = 1 THEN m[k + 1] ELSE f[(k + 1) - 1] \o m[k + 1]
      BY <1>4, <2>1
    <3>. QED BY <2>1, <3>1
  <2>3. ASSUME NEW x \in Nat
        PROVE  /\ SumOf(Nums(x, m), 1 .. k + 1) = NumOf(x, new) + SumOf(Nums(x, m), 1 .. k)
               /\ SumOf(Nums(x, m), 1 .. k) \in Int /\ NumOf(x, new) \in Nat
               /\ SumOf(Nums(x, m), 1 .. 0) = 0
    <3>1. /\ SumOf(Nums(x, m), 1 .. k + 1) = NumOf(x, m[k + 1]) + SumOf(Nums(x, m), 1 .. (k + 1) - 1)
          /\ SumOf(Nums(x, m), 1 .. (k + 1) - 1) \in Int /\ NumOf(x, m[k + 1]) \in Nat
          /\ SumOf(Nums(x, m), 1 .. 0) = 0
      BY <1>5, <2>1
    <3>. QED BY <2>1, <3>1
  <2>4. k # 0 => OK(k)
    BY <1>6
  <2>5. CASE k = 0
    <3>1. next = new
      BY <2>2, <2>5
    <3>2. \A x \in Nat : NumOf(x, new) = SumOf(Nums(x, m), 1 .. k + 1)
      BY <2>3, <2>5
    <3>3. next \in Seq(Nat) /\ \A x \in Nat : NumOf(x, next) = SumOf(Nums(x, m), 1 .. k + 1)
      BY <2>1, <3>1, <3>2
    <3>. QED BY <2>1, <3>3
  <2>6. CASE k # 0
    <3>0. k + 1 # 1 /\ old \in Seq(Nat)
      BY <2>1, <2>4, <2>6
    <3>1. next = old \o new /\ old \in Seq(Nat)
      <4>. HIDE DEF next, old, new
      <4>. QED BY <2>2, <3>0
    <3>2. ASSUME NEW x \in Nat
          PROVE  NumOf(x, next) = SumOf(Nums(x, m), 1 .. k + 1)
      <4>1. NumOf(x, old) = SumOf(Nums(x, m), 1 .. k)
        BY <2>4, <2>6
      <4>. HIDE DEF new, old, next
      <4>2. NumOf(x, old \o new) = NumOf(x, old) + NumOf(x, new)
        BY <2>1, <3>1, NumConcat
      <4>. QED BY <2>3, <3>1, <4>1, <4>2
    <3>3. next \in Seq(Nat)
      <4>. HIDE DEF new, old, next
      <4>. QED BY <2>1, <3>1, ConcatProperties
    <3>. QED BY <2>1, <3>2, <3>3
  <2>. QED BY <2>5, <2>6
<1>7. 0 \in S
  OBVIOUS
<1>. HIDE DEF S
<1>8. n \in S
  <2>1. 0 .. n \subseteq S
    BY <1>c, <1>6, <1>7, CountUp
  <2>. QED BY <1>c, <2>1
<1>9. CASE n = 0
  <2>1. m = <<>> /\ m \in Seq(Nat)
    BY <1>9 DEF n
  <2>2. ASSUME NEW x \in Nat
        PROVE  NumOf(x, m) = NumAll(x, m)
    <3>1. NumAll(x, m) = SumOf(Nums(x, m), {})
      <4>1. 1 .. Len(m) = {}
        BY <1>9 DEF n
      <4>. QED BY <4>1 DEF NumAll
    <3>2. ~ \E i \in 1 .. Len(m) : m[i] = x
      BY <1>9 DEF n
    <3>. QED BY <2>1, <3>1, <3>2, SumEmpty, NumType
  <2>. QED BY <1>3, <1>9, <2>1, <2>2
<1>10. CASE n # 0
  <2>1. OK(n)
    BY <1>8, <1>10 DEF S
  <2>2. \A x \in Nat : NumAll(x, m) = SumOf(Nums(x, m), 1 .. n)
    BY DEF NumAll, n
  <2>. QED BY <1>2, <1>10, <2>1, <2>2
<1>. QED BY <1>9, <1>10

\* path_merge: what is left of the files after a line is taken, and how much it is.
Files == Seq(Seq(Nat))
NoneLeft(m) == \A i \in DOMAIN m : m[i] = <<>>
Taken(m) == [m EXCEPT ![W!Least(m)] = Tail(@)]
Lens(m) == [i \in 1 .. Len(m) |-> Len(m[i])]
Size(m) == SumOf(Lens(m), 1 .. Len(m))

\* The line taken is the first of its file, and no file has a lesser one.
LEMMA LeastIs ==
  ASSUME NEW m \in Files, ~ NoneLeft(m)
  PROVE  /\ W!Least(m) \in 1 .. Len(m) /\ m[W!Least(m)] # <<>>
         /\ \A j \in 1 .. Len(m) : m[j] # <<>> => Head(m[W!Least(m)]) <= Head(m[j])
<1>. DEFINE D == {i \in 1 .. Len(m) : m[i] # <<>>}
            H == {Head(m[i]) : i \in D}
<1>1. DOMAIN m = 1 .. Len(m) /\ \A i \in 1 .. Len(m) : m[i] \in Seq(Nat)
  BY DEF Files
<1>2. H \subseteq Nat /\ H # {}
  <2>1. \A i \in D : Head(m[i]) \in Nat
    BY <1>1, HeadTailProperties
  <2>2. D # {}
    BY <1>1 DEF NoneLeft
  <2>. QED BY <2>1, <2>2
<1>3. PICK h \in H : \A j \in H : ~ (j < h)
  <2>1. IsWellFoundedOn(OpToRel(<, Nat), Nat)
    BY NatLessThanWellFounded
  <2>. HIDE DEF H
  <2>2. PICK k \in H : \A j \in H : ~ (<<j, k>> \in OpToRel(<, Nat))
    BY <1>2, <2>1, WFMin
  <2>. QED BY <1>2, <2>2, Zenon DEF OpToRel
<1>4. \A j \in H : h <= j
  <2>. HIDE DEF H
  <2>. QED BY <1>2, <1>3
<1>5. PICK i \in D : h = Head(m[i])
  OBVIOUS
<1>6. \E k \in DOMAIN m :
        /\ m[k] # <<>>
        /\ \A j \in DOMAIN m : m[j] # <<>> => Head(m[k]) <= Head(m[j])
  BY <1>1, <1>4, <1>5
<1>7. /\ W!Least(m) \in DOMAIN m /\ m[W!Least(m)] # <<>>
      /\ \A j \in DOMAIN m : m[j] # <<>> => Head(m[W!Least(m)]) <= Head(m[j])
  BY <1>6 DEF W!Least
<1>. QED BY <1>1, <1>7

\* What path_merge has left after a line.
LEMMA TakenIs ==
  ASSUME NEW m \in Files, ~ NoneLeft(m)
  PROVE  /\ Taken(m) \in Files /\ Len(Taken(m)) = Len(m) /\ Len(m) \in Nat
         /\ Taken(m)[W!Least(m)] = Tail(m[W!Least(m)])
         /\ \A i \in 1 .. Len(m) \ {W!Least(m)} : Taken(m)[i] = m[i]
         /\ m[W!Least(m)] \in Seq(Nat) /\ Tail(m[W!Least(m)]) \in Seq(Nat)
         /\ Head(m[W!Least(m)]) \in Nat
<1>. DEFINE y == W!Least(m)
            n == Len(m)
<1>1. y \in 1 .. n /\ m[y] # <<>>
  BY LeastIs
<1>2. m[y] \in Seq(Nat) /\ n \in Nat /\ m \in [1 .. n -> Seq(Nat)]
  BY <1>1 DEF Files
<1>3. Tail(m[y]) \in Seq(Nat) /\ Head(m[y]) \in Nat
  BY <1>1, <1>2, HeadTailProperties
<1>4. Taken(m) = [m EXCEPT ![y] = Tail(m[y])]
  BY DEF Taken
<1>. HIDE DEF y, n
<1>5. Taken(m) \in [1 .. n -> Seq(Nat)]
  BY <1>1, <1>2, <1>3, <1>4
<1>6. Taken(m) \in Files /\ Len(Taken(m)) = n
  BY <1>2, <1>5 DEF Files
<1>7. Taken(m)[y] = Tail(m[y]) /\ \A i \in 1 .. n \ {y} : Taken(m)[i] = m[i]
  BY <1>1, <1>2, <1>4
<1>. QED BY <1>2, <1>3, <1>6, <1>7 DEF y, n

\* A line taken is a line less.
LEMMA SizeIs ==
  ASSUME NEW m \in Files
  PROVE  Size(m) \in Nat /\ (~ NoneLeft(m) => Size(m) # 0 /\ Size(Taken(m)) = Size(m) - 1)
<1>. DEFINE D == 1 .. Len(m)
            zero == [i \in D |-> 0]
<1>1. ASSUME NEW k \in Files
      PROVE  /\ Len(k) \in Nat /\ IsFiniteSet(1 .. Len(k))
             /\ \A i \in 1 .. Len(k) : Lens(k)[i] = Len(k[i]) /\ Len(k[i]) \in Nat
  <2>1. Len(k) \in Nat /\ \A i \in 1 .. Len(k) : k[i] \in Seq(Nat)
    BY DEF Files
  <2>2. IsFiniteSet(1 .. Len(k))
    <3>1. 1 \in Int /\ Len(k) \in Int
      BY <2>1
    <3>. QED BY <3>1, FS_Interval
  <2>. QED BY <2>1, <2>2 DEF Lens
<1>2. ASSUME NEW k \in Files
      PROVE  Size(k) \in Nat
  <2>. DEFINE E == 1 .. Len(k)
              f == Lens(k)
              none == [i \in E |-> 0]
  <2>1. IsFiniteSet(E) /\ \A i \in E : f[i] \in Nat /\ none[i] = 0
    BY <1>1
  <2>. HIDE DEF E, f, none
  <2>2. SumOf(f, E) \in Int /\ SumOf(none, E) = 0
    BY <2>1, SumType, SumZero
  <2>3. SumOf(none, E) <= SumOf(f, E)
    <3>1. \A i \in E : none[i] \in Int /\ f[i] \in Int /\ none[i] <= f[i]
      BY <2>1
    <3>. QED BY <2>1, <3>1, SumBelow
  <2>. QED BY <2>2, <2>3 DEF Size, E, f
<1>3. ASSUME ~ NoneLeft(m)
      PROVE  Size(m) # 0 /\ Size(Taken(m)) = Size(m) - 1
  <2>. DEFINE y == W!Least(m)
              f == Lens(m)
              g == Lens(Taken(m))
  <2>1. y \in D /\ m[y] # <<>>
    BY <1>3, LeastIs
  <2>2. /\ Taken(m) \in Files /\ Len(Taken(m)) = Len(m) /\ m[y] \in Seq(Nat)
        /\ Taken(m)[y] = Tail(m[y]) /\ \A i \in D \ {y} : Taken(m)[i] = m[i]
    BY <1>3, TakenIs
  <2>3. Len(Tail(m[y])) = Len(m[y]) - 1
    BY <2>1, <2>2, HeadTailProperties
  <2>4. IsFiniteSet(D) /\ \A i \in D : f[i] = Len(m[i]) /\ Len(m[i]) \in Nat
    BY <1>1
  <2>5. \A i \in D : g[i] = Len(Taken(m)[i]) /\ Len(Taken(m)[i]) \in Nat
    BY <1>1, <2>2
  <2>6. Size(m) = SumOf(f, D) /\ Size(Taken(m)) = SumOf(g, D)
    BY <2>2 DEF Size
  <2>. HIDE DEF D, f, g, y
  <2>7. \A i \in D : f[i] \in Int /\ g[i] \in Int
    BY <2>4, <2>5
  <2>8. \A i \in D \ {y} : f[i] = g[i]
    BY <2>2, <2>4, <2>5
  <2>9. SumOf(g, D) = SumOf(f, D) + g[y] - f[y]
    <3>1. IsFiniteSet(D) /\ y \in D
      BY <2>1, <2>4
    <3>. QED BY <2>7, <2>8, <3>1, SumChanges
  <2>10. g[y] = f[y] - 1 /\ f[y] \in Nat
    BY <2>1, <2>2, <2>3, <2>4, <2>5
  <2>11. Size(m) \in Nat /\ Size(Taken(m)) \in Nat
    BY <1>2, <2>2
  <2>. QED BY <2>6, <2>9, <2>10, <2>11
<1>. QED BY <1>2, <1>3

\* g merges the files of at most n lines as Merge says.
Small(n) == {m \in Files : Size(m) < n}
MergeStep(g, m) == IF NoneLeft(m) THEN <<>> ELSE <<Head(m[W!Least(m)])>> \o g[Taken(m)]
Merges(g, S) == \A m \in S : g[m] = MergeStep(g, m)

\* A line in front of others.
LEMMA OnFront ==
  ASSUME NEW l \in Nat, NEW r \in Seq(Nat), NEW s, s = <<l>> \o r
  PROVE  /\ s \in Seq(Nat) /\ s # <<>> /\ Head(s) = l /\ Tail(s) = r
         /\ Len(s) = Len(r) + 1 /\ Len(r) \in Nat /\ s[1] = l
         /\ \A i \in 1 .. Len(r) : s[i + 1] = r[i]
<1>1. <<l>> \in Seq(Nat) /\ Len(<<l>>) = 1 /\ <<l>>[1] = l
  OBVIOUS
<1>2. s \in Seq(Nat) /\ Len(s) = 1 + Len(r) /\ Len(r) \in Nat
  BY <1>1
<1>3. s[1] = l
  BY <1>1, <1>2
<1>4. ASSUME NEW i \in 1 .. Len(r)
      PROVE  s[i + 1] = r[i]
  BY <1>1, <1>2
<1>5. s # <<>> /\ Head(s) = l
  BY <1>2, <1>3
<1>6. Tail(s) = r
  <2>1. Tail(s) \in Seq(Nat) /\ Len(Tail(s)) = Len(r)
    BY <1>2, <1>5
  <2>2. \A i \in 1 .. Len(r) : Tail(s)[i] = s[i + 1]
    BY <1>2, <1>5
  <2>3. Tail(s) \in [1 .. Len(r) -> Nat] /\ r \in [1 .. Len(r) -> Nat]
    <3>1. \A q \in Seq(Nat) : q \in [1 .. Len(q) -> Nat]
      OBVIOUS
    <3>. QED BY <2>1, <3>1
  <2>4. \A i \in 1 .. Len(r) : Tail(s)[i] = r[i]
    BY <1>4, <2>2
  <2>. QED BY <2>3, <2>4
<1>. QED BY <1>2, <1>3, <1>4, <1>5, <1>6

\* What is left of files after a line is taken is smaller.
LEMMA TakenSmall ==
  ASSUME NEW n \in Nat, NEW m \in Small(n), ~ NoneLeft(m)
  PROVE  Taken(m) \in Small(n) /\ Size(Taken(m)) < Size(m) /\ n # 0 /\ Taken(m) \in Small(n - 1)
<1>1. m \in Files /\ Size(m) < n
  BY DEF Small
<1>2. Size(m) \in Nat /\ Size(m) # 0 /\ Size(Taken(m)) = Size(m) - 1
  BY <1>1, SizeIs
<1>3. Taken(m) \in Files
  BY <1>1, TakenIs
<1>. QED BY <1>1, <1>2, <1>3 DEF Small

\* Of some files, the ones with the fewest lines.
LEMMA SmallFirst ==
  ASSUME NEW B, B \subseteq Files, B # {}
  PROVE  \E m \in B : \A k \in B : ~ (Size(k) < Size(m))
<1>. DEFINE N == {Size(m) : m \in B}
<1>1. N \subseteq Nat /\ N # {}
  BY SizeIs
<1>2. PICK s \in N : \A j \in N : ~ (j < s)
  <2>1. IsWellFoundedOn(OpToRel(<, Nat), Nat)
    BY NatLessThanWellFounded
  <2>. HIDE DEF N
  <2>2. PICK k \in N : \A j \in N : ~ (<<j, k>> \in OpToRel(<, Nat))
    BY <1>1, <2>1, WFMin
  <2>. QED BY <1>1, <2>2, Zenon DEF OpToRel
<1>3. PICK m \in B : s = Size(m)
  OBVIOUS
<1>4. \A k \in B : Size(k) \in N
  OBVIOUS
<1>. HIDE DEF N
<1>. QED BY <1>2, <1>3, <1>4

\* Two such functions agree.
LEMMA MergesAgree ==
  ASSUME NEW n \in Nat, NEW g, NEW h, Merges(g, Small(n)), Merges(h, Small(n))
  PROVE  \A m \in Small(n) : g[m] = h[m]
<1>. DEFINE B == {m \in Small(n) : g[m] # h[m]}
<1>1. SUFFICES ASSUME B # {} PROVE FALSE
  OBVIOUS
<1>2. PICK m \in B : \A k \in B : ~ (Size(k) < Size(m))
  <2>1. B \subseteq Files
    BY DEF Small
  <2>. HIDE DEF B
  <2>. QED BY <1>1, <2>1, SmallFirst
<1>3. g[m] = MergeStep(g, m) /\ h[m] = MergeStep(h, m)
  BY DEF Merges
<1>4. ~ NoneLeft(m)
  BY <1>3 DEF MergeStep
<1>5. Taken(m) \in Small(n) /\ Size(Taken(m)) < Size(m)
  BY <1>4, TakenSmall
<1>6. g[Taken(m)] = h[Taken(m)]
  BY <1>2, <1>5
<1>. QED BY <1>3, <1>6 DEF MergeStep

\* For files of any size there is a merge of them.
LEMMA MergesExist ==
  ASSUME NEW n \in Nat
  PROVE  \E g : Merges(g, Small(n))
<1>. DEFINE S == {k \in Nat : \E g : Merges(g, Small(k))}
<1>1. 0 \in S
  <2>1. Small(0) = {}
    BY SizeIs DEF Small
  <2>. QED BY <2>1 DEF Merges
<1>2. ASSUME NEW k \in 0 .. n - 1, k \in S
      PROVE  k + 1 \in S
  <2>1. PICK g : Merges(g, Small(k))
    BY <1>2
  <2>. DEFINE new == [m \in Small(k + 1) |-> MergeStep(g, m)]
  <2>2. k \in Nat /\ k + 1 \in Nat /\ (k + 1) - 1 = k
    OBVIOUS
  <2>3. \A m \in Small(k) : m \in Small(k + 1)
    BY <2>2, SizeIs DEF Small
  <2>4. \A m \in Small(k) : new[m] = g[m]
    BY <2>1, <2>3 DEF Merges
  <2>5. ASSUME NEW m \in Small(k + 1)
        PROVE  new[m] = MergeStep(new, m)
    <3>1. new[m] = MergeStep(g, m)
      OBVIOUS
    <3>2. ~ NoneLeft(m) => Taken(m) \in Small(k)
      BY <2>2, TakenSmall
    <3>3. ~ NoneLeft(m) => new[Taken(m)] = g[Taken(m)]
      BY <2>4, <3>2
    <3>. HIDE DEF new
    <3>. QED BY <3>1, <3>3 DEF MergeStep
  <2>6. Merges(new, Small(k + 1))
    <3>. HIDE DEF new
    <3>. QED BY <2>5 DEF Merges
  <2>. QED BY <2>2, <2>6
<1>. HIDE DEF S
<1>3. n \in S
  <2>1. 0 .. n \subseteq S
    BY <1>1, <1>2, CountUp
  <2>. QED BY <2>1
<1>. QED BY <1>3 DEF S

\* The recursion of Merge defines something.
LEMMA MergeIs ==
  ASSUME NEW m \in Files
  PROVE  W!Merge[m] = MergeStep(W!Merge, m)
<1>. DEFINE level(n) == CHOOSE g : Merges(g, Small(n))
            all == [k \in Files |-> level(Size(k) + 1)[k]]
<1>1. \A n \in Nat : Merges(level(n), Small(n))
  BY MergesExist
<1>2. ASSUME NEW k \in Files
      PROVE  all[k] = MergeStep(all, k)
  <2>. DEFINE s == Size(k) + 1
  <2>1. s \in Nat /\ k \in Small(s)
    BY SizeIs DEF Small
  <2>2. all[k] = level(s)[k]
    OBVIOUS
  <2>. HIDE DEF level
  <2>3. level(s)[k] = MergeStep(level(s), k)
    BY <1>1, <2>1 DEF Merges
  <2>4. ASSUME ~ NoneLeft(k)
        PROVE  level(s)[Taken(k)] = all[Taken(k)]
    <3>. DEFINE t == Size(Taken(k)) + 1
    <3>1. Taken(k) \in Files /\ Size(Taken(k)) \in Nat
      BY <2>4, TakenIs, SizeIs
    <3>2. t \in Nat /\ Taken(k) \in Small(t) /\ t < s
      BY <2>1, <2>4, <3>1, TakenSmall DEF Small
    <3>3. Merges(level(s), Small(t))
      <4>1. \A i \in Small(t) : i \in Small(s)
        BY <2>1, <3>2, SizeIs DEF Small
      <4>. HIDE DEF t, s
      <4>. QED BY <1>1, <2>1, <4>1 DEF Merges
    <3>4. all[Taken(k)] = level(t)[Taken(k)]
      BY <3>1
    <3>. HIDE DEF t, s, all
    <3>5. \A i \in Small(t) : level(s)[i] = level(t)[i]
      BY <1>1, <3>2, <3>3, MergesAgree
    <3>. QED BY <3>2, <3>4, <3>5
  <2>. HIDE DEF all, s
  <2>. QED BY <2>2, <2>3, <2>4 DEF MergeStep
<1>. DEFINE Is(M) == M = [files \in Files |-> MergeStep(M, files)]
<1>3. Is(all)
  <2>1. all = [k \in Files |-> all[k]]
    OBVIOUS
  <2>. HIDE DEF all
  <2>. QED BY <1>2, <2>1
<1>4. Is(W!Merge)
  <2>1. W!Merge = CHOOSE M : Is(M)
    BY DEF W!Merge, MergeStep, NoneLeft, Taken, Files
  <2>. HIDE DEF Is, all
  <2>. QED BY <1>3, <2>1
<1>. QED BY <1>4

\* A file whose lines are in order, without its first.
LEMMA TailAscends ==
  ASSUME NEW u \in Seq(Nat), u # <<>>, Ascends(u)
  PROVE  Ascends(Tail(u)) /\ \A i \in 1 .. Len(u) : Head(u) <= u[i]
<1>1. /\ Tail(u) \in Seq(Nat) /\ Len(Tail(u)) = Len(u) - 1 /\ Len(u) \in Nat /\ u[1] = Head(u)
      /\ \A i \in 1 .. Len(u) - 1 : Tail(u)[i] = u[i + 1] /\ i + 1 \in 1 .. Len(u)
      /\ \A i \in 1 .. Len(u) : u[i] \in Nat
  OBVIOUS
<1>2. ASSUME NEW i \in 1 .. Len(u) - 1, NEW j \in 1 .. Len(u) - 1, i < j
      PROVE  u[i + 1] <= u[j + 1]
  BY <1>1, <1>2 DEF Ascends
<1>3. ASSUME NEW i \in 1 .. Len(u)
      PROVE  Head(u) <= u[i]
  BY <1>1 DEF Ascends
<1>. QED BY <1>1, <1>2, <1>3 DEF Ascends

\* path_merge loses no line and adds none, and files in order make one in order.
LEMMA MergeMerges ==
  ASSUME NEW m0 \in Files
  PROVE  /\ W!Merge[m0] \in Seq(Nat)
         /\ \A x \in Nat : NumOf(x, W!Merge[m0]) = NumAll(x, m0)
         /\ (\A i \in 1 .. Len(m0) : Ascends(m0[i])) => Ascends(W!Merge[m0])
<1>. DEFINE Right(m) ==
              /\ W!Merge[m] \in Seq(Nat)
              /\ \A x \in Nat : NumOf(x, W!Merge[m]) = NumAll(x, m)
              /\ (\A i \in 1 .. Len(m) : Ascends(m[i])) => Ascends(W!Merge[m])
            B == {m \in Files : ~ Right(m)}
<1>1. SUFFICES ASSUME B # {} PROVE FALSE
  OBVIOUS
<1>2. PICK m \in B : \A k \in B : ~ (Size(k) < Size(m))
  <2>. HIDE DEF Right
  <2>1. B \subseteq Files
    OBVIOUS
  <2>. HIDE DEF B
  <2>. QED BY <1>1, <2>1, SmallFirst
<1>3. m \in Files /\ ~ Right(m)
  OBVIOUS
<1>4. W!Merge[m] = MergeStep(W!Merge, m)
  BY <1>3, MergeIs
<1>5. CASE NoneLeft(m)
  <2>1. W!Merge[m] = <<>> /\ <<>> \in Seq(Nat) /\ Len(<<>>) = 0
    BY <1>4, <1>5 DEF MergeStep
  <2>2. Ascends(<<>>)
    BY <2>1 DEF Ascends
  <2>3. ASSUME NEW x \in Nat
        PROVE  NumOf(x, <<>>) = 0 /\ NumAll(x, m) = 0
    <3>1. NumOf(x, <<>>) = 0
      <4>1. ~ \E i \in 1 .. Len(<<>>) : <<>>[i] = x
        BY <2>1
      <4>. QED BY <2>1, <4>1, NumType
    <3>2. \A i \in 1 .. Len(m) : m[i] = <<>>
      BY <1>3, <1>5 DEF NoneLeft, Files
    <3>3. m \in Seq(Seq(Nat))
      BY <1>3 DEF Files
    <3>. QED BY <3>1, <3>2, <3>3, NumAllType
  <2>. QED BY <1>3, <2>1, <2>2, <2>3
<1>6. CASE ~ NoneLeft(m)
  <2>. DEFINE y == W!Least(m)
              k == Taken(m)
              l == Head(m[y])
              rest == W!Merge[k]
              new == W!Merge[m]
  <2>1. /\ y \in 1 .. Len(m) /\ m[y] # <<>>
        /\ \A j \in 1 .. Len(m) : m[j] # <<>> => l <= Head(m[j])
    BY <1>3, <1>6, LeastIs
  <2>2. /\ k \in Files /\ Len(k) = Len(m) /\ Len(m) \in Nat /\ k[y] = Tail(m[y])
        /\ \A i \in 1 .. Len(m) \ {y} : k[i] = m[i]
        /\ m[y] \in Seq(Nat) /\ Tail(m[y]) \in Seq(Nat) /\ l \in Nat
    BY <1>3, <1>6, TakenIs
  <2>3. Right(k)
    <3>1. Size(k) < Size(m)
      BY <1>3, <1>6, SizeIs
    <3>. HIDE DEF Right, k
    <3>2. k \notin B
      BY <1>2, <3>1
    <3>. QED BY <2>2, <3>2
  <2>4. new = <<l>> \o rest
    BY <1>4, <1>6 DEF MergeStep
  <2>5. rest \in Seq(Nat) /\ (\A x \in Nat : NumOf(x, rest) = NumAll(x, k))
        /\ ((\A i \in 1 .. Len(k) : Ascends(k[i])) => Ascends(rest))
    BY <2>3
  <2>6. \A i \in 1 .. Len(m) : m[i] \in Seq(Nat) /\ k[i] \in Seq(Nat)
    BY <1>3, <2>2 DEF Files
  <2>m. m \in Seq(Seq(Nat)) /\ k \in Seq(Seq(Nat))
    BY <1>3, <2>2 DEF Files
  <2>. HIDE DEF rest, k, new, l, y, Right
  <2>7. /\ new \in Seq(Nat) /\ new # <<>> /\ Head(new) = l /\ Tail(new) = rest
        /\ Len(new) = Len(rest) + 1 /\ Len(rest) \in Nat /\ new[1] = l
        /\ \A i \in 1 .. Len(rest) : new[i + 1] = rest[i]
    <3>1. l \in Nat /\ rest \in Seq(Nat)
      BY <2>2, <2>5
    <3>. QED BY <2>4, <3>1, OnFront
  <2>8. ASSUME NEW x \in Nat
        PROVE  NumOf(x, new) = NumAll(x, m)
    <3>. DEFINE f == Nums(x, k)
                g == Nums(x, m)
                D == 1 .. Len(m)
    <3>1. NumOf(x, new) = NumOf(x, rest) + (IF l = x THEN 1 ELSE 0)
      BY <2>7, NumFirst
    <3>2. NumOf(x, m[y]) = NumOf(x, Tail(m[y])) + (IF l = x THEN 1 ELSE 0)
      <4>1. NumOf(x, m[y]) = NumOf(x, Tail(m[y])) + (IF Head(m[y]) = x THEN 1 ELSE 0)
        BY <2>1, <2>2, NumFirst
      <4>. QED BY <4>1 DEF l
    <3>3. IsFiniteSet(D) /\ \A i \in D : f[i] \in Nat /\ g[i] \in Nat
      <4>1. IsFiniteSet(D) /\ \A i \in D : g[i] \in Nat
        BY <2>m, NumAllType
      <4>2. \A i \in 1 .. Len(k) : f[i] \in Nat
        BY <2>m, NumAllType
      <4>. QED BY <2>2, <4>1, <4>2
    <3>4. \A i \in D : f[i] = NumOf(x, k[i]) /\ g[i] = NumOf(x, m[i])
      BY <2>2 DEF Nums
    <3>5. NumAll(x, m) = SumOf(g, D) /\ NumAll(x, k) = SumOf(f, D)
      BY <2>2 DEF NumAll
    <3>6. NumAll(x, k) \in Int /\ NumOf(x, Tail(m[y])) \in Nat
      BY <2>2, <2>m, NumAllType, NumType
    <3>. HIDE DEF f, g, D
    <3>7. y \in D /\ \A i \in D \ {y} : f[i] = g[i]
      BY <2>1, <2>2, <3>4 DEF D
    <3>8. SumOf(g, D) = SumOf(f, D) + g[y] - f[y]
      <4>1. \A i \in D : f[i] \in Int /\ g[i] \in Int
        BY <3>3
      <4>2. IsFiniteSet(D) /\ y \in D
        BY <3>3, <3>7
      <4>3. \A i \in D \ {y} : f[i] = g[i]
        BY <3>7
      <4>. QED BY <4>1, <4>2, <4>3, SumChanges
    <3>9. g[y] = f[y] + (IF l = x THEN 1 ELSE 0) /\ f[y] \in Nat
      BY <2>2, <3>2, <3>3, <3>4, <3>7
    <3>10. NumOf(x, rest) = NumAll(x, k)
      BY <2>5
    <3>. QED BY <3>1, <3>5, <3>6, <3>8, <3>9, <3>10
  <2>9. ASSUME \A i \in 1 .. Len(m) : Ascends(m[i])
        PROVE  Ascends(new)
    <3>1. \A i \in 1 .. Len(k) : Ascends(k[i])
      <4>1. Ascends(Tail(m[y]))
        BY <2>1, <2>2, <2>9, TailAscends
      <4>. QED BY <2>2, <2>9, <4>1
    <3>2. Ascends(rest)
      BY <2>5, <3>1
    <3>3. ASSUME NEW j \in 1 .. Len(m), NEW i \in 1 .. Len(m[j])
          PROVE  l <= m[j][i] /\ m[j][i] \in Nat
      <4>1. m[j] \in Seq(Nat) /\ m[j] # <<>>
        BY <2>6, <3>3
      <4>2. l <= Head(m[j]) /\ Head(m[j]) \in Nat /\ m[j][i] \in Nat
        BY <2>1, <4>1, HeadTailProperties
      <4>3. Head(m[j]) <= m[j][i]
        BY <2>9, <4>1, TailAscends
      <4>. QED BY <2>2, <4>2, <4>3
    <3>4. ASSUME NEW i \in 1 .. Len(rest)
          PROVE  l <= rest[i]
      <4>1. rest[i] \in Nat
        BY <2>5
      <4>2. NumOf(rest[i], rest) # 0
        BY <2>5, NumType
      <4>3. NumAll(rest[i], k) # 0
        BY <2>5, <4>1, <4>2
      <4>4. PICK j \in 1 .. Len(k) : NumOf(rest[i], k[j]) # 0
        BY <2>m, <4>1, <4>3, NumAllType
      <4>5. k[j] \in Seq(Nat) /\ j \in 1 .. Len(m)
        BY <2>2, <2>6, <4>4
      <4>6. PICK q \in 1 .. Len(k[j]) : k[j][q] = rest[i]
        BY <4>4, <4>5, NumType
      <4>7. CASE j # y
        <5>1. k[j] = m[j]
          BY <2>2, <4>5, <4>7
        <5>. QED BY <3>3, <4>5, <4>6, <5>1
      <4>8. CASE j = y
        <5>1. /\ k[j] = Tail(m[y]) /\ q + 1 \in 1 .. Len(m[y])
              /\ Tail(m[y])[q] = m[y][q + 1]
          <6>1. k[j] = Tail(m[y]) /\ q \in 1 .. Len(Tail(m[y]))
            BY <2>2, <4>6, <4>8
          <6>. DEFINE u == m[y]
          <6>2. u \in Seq(Nat) /\ u # <<>> /\ q \in 1 .. Len(Tail(u))
            BY <2>1, <2>2, <6>1
          <6>. HIDE DEF u
          <6>3. q + 1 \in 1 .. Len(u) /\ Tail(u)[q] = u[q + 1]
            BY <6>2
          <6>. QED BY <6>1, <6>3 DEF u
        <5>. QED BY <2>1, <3>3, <4>6, <5>1
      <4>. QED BY <4>7, <4>8
    <3>5. ASSUME NEW i \in 1 .. Len(new), NEW j \in 1 .. Len(new), i < j
          PROVE  new[i] <= new[j]
      <4>1. j - 1 \in 1 .. Len(rest) /\ new[j] = rest[j - 1]
        <5>1. j - 1 \in 1 .. Len(rest) /\ (j - 1) + 1 = j
          BY <2>7, <3>5
        <5>. QED BY <2>7, <5>1
      <4>2. CASE i = 1
        BY <2>7, <3>4, <4>1, <4>2
      <4>3. CASE i # 1
        <5>1. i - 1 \in 1 .. Len(rest) /\ (i - 1) + 1 = i /\ i - 1 < j - 1
          BY <2>7, <3>5, <4>3
        <5>2. new[i] = rest[i - 1]
          BY <2>7, <5>1
        <5>. QED BY <3>2, <4>1, <5>1, <5>2 DEF Ascends
      <4>. QED BY <4>2, <4>3
    <3>. QED BY <3>5 DEF Ascends
  <2>10. Right(m)
    <3>1. new \in Seq(Nat)
      BY <2>7
    <3>. QED BY <2>8, <2>9, <3>1 DEF Right, new
  <2>. QED BY <1>3, <2>10
<1>. HIDE DEF Right
<1>. QED BY <1>5, <1>6

\* A program that filters what files in order were merged into makes what it
\* would make, sorted, of all their lines.
LEMMA KeepMerged ==
  ASSUME NEW program, NEW m \in Files, \A i \in 1 .. Len(m) : Ascends(m[i])
  PROVE  W!Keep(program, W!Merge[m]) = W!Sorted(W!Keep(program, FlattenSeq(m)))
<1>. DEFINE s == W!Merge[m]
            f == FlattenSeq(m)
            t == W!Sorted(W!Keep(program, f))
<1>1. s \in Seq(Nat) /\ Ascends(s) /\ \A x \in Nat : NumOf(x, s) = NumAll(x, m)
  BY MergeMerges
<1>2. f \in Seq(Nat) /\ \A x \in Nat : NumOf(x, f) = NumAll(x, m)
  <2>1. m \in Seq(Seq(Nat))
    BY DEF Files
  <2>. QED BY <2>1, NumFlatten
<1>. HIDE DEF s, f
<1>3. /\ W!Keep(program, s) \in Seq(Nat) /\ Ascends(W!Keep(program, s))
      /\ \A x \in Nat : NumOf(x, W!Keep(program, s)) = IF x \in program THEN NumOf(x, s) ELSE 0
  BY <1>1, KeepKeeps
<1>4. /\ W!Keep(program, f) \in Seq(Nat)
      /\ \A x \in Nat : NumOf(x, W!Keep(program, f)) = IF x \in program THEN NumOf(x, f) ELSE 0
  BY <1>2, KeepKeeps
<1>5. t \in Seq(Nat) /\ Ascends(t) /\ \A x \in Nat : NumOf(x, t) = NumOf(x, W!Keep(program, f))
  BY <1>4, SortedSorts
<1>. HIDE DEF t
<1>6. \A x \in Nat : NumOf(x, W!Keep(program, s)) = NumOf(x, t)
  BY <1>1, <1>2, <1>3, <1>4, <1>5
<1>7. W!Keep(program, s) = t
  BY <1>3, <1>5, <1>6, SortedOnce
<1>. QED BY <1>7 DEF s, f, t

\* The same of a single file, which is not merged.
LEMMA KeepSingle ==
  ASSUME NEW program, NEW s \in Seq(Nat), Ascends(s)
  PROVE  W!Keep(program, s) = W!Sorted(W!Keep(program, FlattenSeq(<<s>>)))
<1>. DEFINE t == W!Sorted(W!Keep(program, s))
<1>1. FlattenSeq(<<s>>) = s
  <2>. DEFINE m == <<s>>
              f == CHOOSE g : Flattens(g, m)
  <2>1. m \in Seq(Seq(Nat)) /\ Len(m) = 1 /\ m[1] = s
    OBVIOUS
  <2>2. Flattens(f, m)
    BY <2>1, FlattenExists
  <2>3. FlattenSeq(m) = f[1]
    BY <2>1 DEF FlattenSeq, Flattens
  <2>. HIDE DEF f, m
  <2>4. f[1] = s
    BY <2>1, <2>2 DEF Flattens
  <2>. QED BY <2>3, <2>4 DEF m
<1>2. /\ W!Keep(program, s) \in Seq(Nat) /\ Ascends(W!Keep(program, s))
  BY KeepKeeps
<1>3. t \in Seq(Nat) /\ Ascends(t) /\ \A x \in Nat : NumOf(x, t) = NumOf(x, W!Keep(program, s))
  BY <1>2, SortedSorts
<1>. HIDE DEF t
<1>4. W!Keep(program, s) = t
  BY <1>2, <1>3, SortedOnce
<1>. QED BY <1>1, <1>4 DEF t
-----------------------------------------------------------------------------
(* The inductive invariant of the Workers.                                  *)

\* Before a child serves the request, and before it has taken its names.
Early == {"never", "unsent", "queued"}
Labels == Early \cup {"pre", "script", "create", "fetch", "receive", "stuck", "exit", "merge",
                      "check", "run", "failed", "ran", "clean", "done", "map", "offer"}
OrderedLines == {s \in Seq(Nat) : Ascends(s)}
Content == {None} \cup {W!Program(r) : r \in Request} \cup [is : {"data"}, lines : OrderedLines]
Result == [by : Request \cup {None}, lines : OrderedLines]

WorkerTypes ==
  /\ job \in Jobs /\ child \in [Request -> Labels]
  /\ seed \in [Request -> Nat] /\ draw \in [Request -> Nat]
  /\ script \in [Request -> W!Name \cup {None}] /\ pre \in [Request -> W!Name \cup {None}]
  /\ peer \in [Request -> Nat] /\ fetched \in [Request -> Seq(OrderedLines)]
  /\ tmp \in [Node -> [W!Name -> Content]]
  /\ output \in [Request -> Result \cup {None}]
  /\ stored \in [Request -> Seq(Nat) \cup {None}]
  /\ resp \in [Request -> {"none", "ok", "error", "no FileSystem", "not stored"}]

\* A name is of the second its child began from, and no name is taken twice.
Named(r) ==
  /\ \A name \in {script[r], pre[r]} \ {None} :
       name[1] = seed[r] /\ name[2] <= draw[r]
  /\ script[r] = pre[r] => script[r] = None

\* Which names a child has where it is.
NamesAt(r) ==
  /\ Op[r] = "store" => script[r] = None /\ pre[r] = None
  /\ child[r] \in Early \cup {"script"} => script[r] = None
  /\ child[r] \in Early => pre[r] = None
  /\ child[r] = "pre" => /\ pre[r] = None
                         /\ \/ Op[r] = "local" /\ script[r] = None
                            \/ Op[r] = "global" /\ script[r] # None /\ Len(W!Ins(r)) > 1
  /\ child[r] \in {"script", "create"} => (pre[r] = None <=> Op[r] # "local")
  /\ child[r] \in {"create", "fetch", "receive", "merge", "check", "run"} =>
       script[r] # None
  /\ child[r] \in {"fetch", "receive", "merge"} => pre[r] # None
  /\ child[r] \in {"check", "run"} =>
       CASE Op[r] = "transform" -> pre[r] = None
         [] Op[r] = "local" -> pre[r] # None
         [] OTHER -> pre[r] = None => Len(W!Ins(r)) = 1

\* What the inputs hold.
InputFiles(r) == [k \in DOMAIN W!Ins(r) |-> output[W!Ins(r)[k]].lines]

\* A child has its inputs' files, those of other Workers as it fetches them.
Fetching(r) ==
  /\ child[r] \in Early \cup {"pre", "script", "create"} => peer[r] = 1 /\ fetched[r] = <<>>
  /\ child[r] \in {"fetch", "receive"} =>
       /\ Op[r] = "global" /\ peer[r] \in 1 .. Len(W!Ins(r)) /\ Len(fetched[r]) = peer[r] - 1
       /\ \A k \in 1 .. peer[r] - 1 : fetched[r][k] = InputFiles(r)[k]
  /\ child[r] = "merge" /\ Op[r] = "global" => fetched[r] = InputFiles(r)
  /\ child[r] = "merge" => Op[r] \in {"local", "global"}

\* A request is sent after its inputs were answered, and what it was answered
\* OK for stays.
Progress(r) ==
  /\ child[r] # "never" => r \in job.sent
  /\ child[r] \notin {"never", "unsent"} => \A k \in DOMAIN W!Ins(r) : resp[W!Ins(r)[k]] = "ok"
  /\ resp[r] # "none" => child[r] \in {"clean", "done"}
  /\ (resp[r] = "ok" \/ child[r] = "ran") /\ Op[r] # "store" => output[r] # None
  /\ Op[r] = "store" => child[r] \in Early \cup {"map", "offer", "exit", "done"}
  /\ child[r] \in {"map", "offer"} => Op[r] = "store"
  /\ Op[r] = "store" /\ resp[r] = "ok" => stored[r] = output[W!Ins(r)[1]].lines

\* A temporary file is of a child that has not ended.
Owned ==
  \A n \in Node, name \in W!Name : tmp[n][name] # None =>
    \E q \in Request : At[q] = n /\ child[q] # "done" /\ name \in {script[q], pre[q]}

\* A child alone with its names finds its program, and the file it reduces, as
\* it wrote them.
Undisturbed(r) ==
  W!Alone(r) =>
    /\ child[r] \in {"fetch", "receive", "merge", "check", "run"} \/ (child[r] = "pre" /\ Op[r] = "global") =>
         tmp[At[r]][script[r]] = W!Program(r)
    /\ child[r] \in {"check", "run"} /\ pre[r] # None =>
         tmp[At[r]][pre[r]] = W!Data(W!Merge[InputFiles(r)])
    /\ child[r] = "ran" \/ (child[r] = "clean" /\ resp[r] = "ok") =>
         output[r] = [by |-> r, lines |-> W!Wanted(r)]

WorkerInv ==
  /\ WorkerTypes /\ Owned
  /\ \A r \in Request : Named(r) /\ NamesAt(r) /\ Fetching(r) /\ Progress(r) /\ Undisturbed(r)

-----------------------------------------------------------------------------
\* The parts of a request that are fixed.
LEMMA Requests ==
  ASSUME W!JobsAreSound, WorkerTypes, NEW r \in Request
  PROVE  /\ At[r] \in Node /\ Op[r] \in {"transform", "local", "global", "store"}
         /\ W!Ins(r) \in Seq({q \in Request : Op[q] # "store"})
         /\ Len(W!Ins(r)) \in Nat /\ DOMAIN W!Ins(r) = 1 .. Len(W!Ins(r))
         /\ \A k \in 1 .. Len(W!Ins(r)) : W!Ins(r)[k] \in Request /\ Op[W!Ins(r)[k]] # "store"
         /\ r \in job.sent /\ Op[r] \in {"global", "store"} => Len(W!Ins(r)) >= 1
         /\ Op[r] = "transform" => W!Slice(r) \in Seq(Nat)
         /\ Op[r] = "transform" =>
              W!Slice(r) = SubSeq(DataBin[At[r]], Block[r] * BlockSize + 1,
                                Block[r] * BlockSize + Bytes[r])
<1>1. /\ job \in Jobs /\ At[r] \in Node /\ Op[r] \in {"transform", "local", "global", "store"}
      /\ W!Ins(r) \in Seq({q \in Request : Op[q] # "store"})
      /\ r \in job.sent /\ Op[r] \in {"global", "store"} => W!Ins(r) # <<>>
  BY DEF W!JobsAreSound, WorkerTypes, W!Ins
<1>2. /\ Len(W!Ins(r)) \in Nat /\ DOMAIN W!Ins(r) = 1 .. Len(W!Ins(r))
      /\ \A k \in 1 .. Len(W!Ins(r)) : W!Ins(r)[k] \in Request /\ Op[W!Ins(r)[k]] # "store"
      /\ W!Ins(r) # <<>> => Len(W!Ins(r)) >= 1
  <2>. DEFINE Q == {q \in Request : Op[q] # "store"}
  <2>1. W!Ins(r) \in Seq(Q)
    BY <1>1
  <2>. HIDE DEF Q
  <2>2. /\ Len(W!Ins(r)) \in Nat /\ DOMAIN W!Ins(r) = 1 .. Len(W!Ins(r))
        /\ \A k \in 1 .. Len(W!Ins(r)) : W!Ins(r)[k] \in Q
        /\ W!Ins(r) # <<>> => Len(W!Ins(r)) >= 1
    BY <2>1
  <2>. QED BY <2>2 DEF Q
<1>3. ASSUME Op[r] = "transform"
      PROVE  /\ W!Slice(r) \in Seq(Nat)
             /\ W!Slice(r) = SubSeq(DataBin[At[r]], Block[r] * BlockSize + 1,
                                  Block[r] * BlockSize + Bytes[r])
  <2>. DEFINE d == DataBin[At[r]]
              b == Block[r] * BlockSize
              c == Bytes[r]
  <2>1. d \in Seq(Nat) /\ Block[r] \in Nat /\ BlockSize \in Nat /\ c \in Nat /\ b + c <= Len(d)
    BY <1>1, <1>3 DEF W!JobsAreSound
  <2>2. b \in Nat
    BY <2>1
  <2>3. W!Slice(r) = SubSeq(d, (b + c) - c + 1, b + c)
    BY DEF W!Slice
  <2>. HIDE DEF d, b, c
  <2>4. (b + c) - c + 1 = b + 1
    BY <2>1, <2>2
  <2>5. SubSeq(d, b + 1, b + c) \in Seq(Nat)
    BY <2>1, <2>2
  <2>. QED BY <2>3, <2>4, <2>5 DEF d, b, c
<1>. QED BY <1>1, <1>2, <1>3

\* What a child works on is there.
LEMMA InputsThere ==
  ASSUME W!JobsAreSound, WorkerInv, NEW r \in Request, child[r] \notin {"never", "unsent"}
  PROVE  /\ \A k \in 1 .. Len(W!Ins(r)) :
              /\ W!Ins(r)[k] \in Request /\ resp[W!Ins(r)[k]] = "ok" /\ child[W!Ins(r)[k]] \in {"clean", "done"}
              /\ output[W!Ins(r)[k]] \in Result /\ output[W!Ins(r)[k]].lines \in OrderedLines
         /\ Op[r] \in {"global", "store"} => Len(W!Ins(r)) >= 1
         /\ InputFiles(r) \in Seq(OrderedLines) /\ Len(InputFiles(r)) = Len(W!Ins(r))
         /\ \A k \in 1 .. Len(W!Ins(r)) : InputFiles(r)[k] = output[W!Ins(r)[k]].lines
<1>1. /\ Len(W!Ins(r)) \in Nat /\ DOMAIN W!Ins(r) = 1 .. Len(W!Ins(r))
      /\ \A k \in 1 .. Len(W!Ins(r)) : W!Ins(r)[k] \in Request /\ Op[W!Ins(r)[k]] # "store"
      /\ r \in job.sent /\ Op[r] \in {"global", "store"} => Len(W!Ins(r)) >= 1
  BY Requests DEF WorkerInv
<1>2. Progress(r)
  BY DEF WorkerInv
<1>3. r \in job.sent /\ \A k \in 1 .. Len(W!Ins(r)) : resp[W!Ins(r)[k]] = "ok"
  BY <1>1, <1>2 DEF Progress
<1>4. ASSUME NEW k \in 1 .. Len(W!Ins(r))
      PROVE  /\ child[W!Ins(r)[k]] \in {"clean", "done"}
             /\ output[W!Ins(r)[k]] \in Result /\ output[W!Ins(r)[k]].lines \in OrderedLines
  <2>. DEFINE q == W!Ins(r)[k]
  <2>1. q \in Request /\ Op[q] # "store" /\ resp[q] = "ok"
    BY <1>1, <1>3
  <2>. HIDE DEF q
  <2>2. Progress(q)
    BY <2>1 DEF WorkerInv
  <2>3. child[q] \in {"clean", "done"} /\ output[q] # None
    BY <2>1, <2>2 DEF Progress
  <2>4. output[q] \in Result
    BY <2>1, <2>3 DEF WorkerInv, WorkerTypes
  <2>5. output[q].lines \in OrderedLines
    BY <2>4 DEF Result
  <2>. QED BY <2>3, <2>4, <2>5 DEF q
<1>5. /\ InputFiles(r) \in Seq(OrderedLines) /\ Len(InputFiles(r)) = Len(W!Ins(r))
      /\ \A k \in 1 .. Len(W!Ins(r)) : InputFiles(r)[k] = output[W!Ins(r)[k]].lines
  <2>. DEFINE f == InputFiles(r)
              n == Len(W!Ins(r))
  <2>1. f = [k \in 1 .. n |-> output[W!Ins(r)[k]].lines]
    BY <1>1 DEF InputFiles
  <2>2. n \in Nat /\ \A k \in 1 .. n : output[W!Ins(r)[k]].lines \in OrderedLines
    BY <1>1, <1>4
  <2>. HIDE DEF f, n
  <2>3. f \in Seq(OrderedLines) /\ Len(f) = n /\ \A k \in 1 .. n : f[k] = output[W!Ins(r)[k]].lines
    BY <2>1, <2>2
  <2>. QED BY <2>3 DEF f, n
<1>. QED BY <1>1, <1>3, <1>4, <1>5

\* What the programs make is in order.
LEMMA OrderedMade ==
  /\ \A s \in Seq(Nat) : W!Sorted(s) \in OrderedLines
  /\ \A m \in Seq(OrderedLines) :
       /\ W!Merge[m] \in OrderedLines /\ m \in Files
       /\ \A i \in 1 .. Len(m) : m[i] \in Seq(Nat) /\ Ascends(m[i])
  /\ \A program : \A s \in OrderedLines : W!Keep(program, s) \in OrderedLines
  /\ \A program : \A s \in Seq(Nat) : W!Keep(program, s) \in Seq(Nat)
  /\ <<>> \in OrderedLines
<1>1. ASSUME NEW s \in Seq(Nat) PROVE W!Sorted(s) \in OrderedLines
  BY SortedSorts DEF OrderedLines
<1>2. ASSUME NEW m \in Seq(OrderedLines)
      PROVE  /\ W!Merge[m] \in OrderedLines /\ m \in Files
             /\ \A i \in 1 .. Len(m) : m[i] \in Seq(Nat) /\ Ascends(m[i])
  <2>1. \A i \in 1 .. Len(m) : m[i] \in OrderedLines
    OBVIOUS
  <2>2. \A i \in 1 .. Len(m) : m[i] \in Seq(Nat) /\ Ascends(m[i])
    BY <2>1 DEF OrderedLines
  <2>3. m \in Files
    <3>1. Len(m) \in Nat /\ m = [i \in 1 .. Len(m) |-> m[i]]
      OBVIOUS
    <3>. QED BY <2>2, <3>1 DEF Files
  <2>4. W!Merge[m] \in Seq(Nat) /\ Ascends(W!Merge[m])
    BY <2>2, <2>3, MergeMerges
  <2>. QED BY <2>2, <2>3, <2>4 DEF OrderedLines
<1>3. ASSUME NEW program, NEW s \in Seq(Nat)
      PROVE  W!Keep(program, s) \in Seq(Nat) /\ (Ascends(s) => Ascends(W!Keep(program, s)))
  BY KeepKeeps
<1>4. ASSUME NEW program, NEW s \in OrderedLines
      PROVE  W!Keep(program, s) \in OrderedLines
  BY <1>3 DEF OrderedLines
<1>5. <<>> \in OrderedLines
  <2>1. <<>> \in Seq(Nat) /\ Len(<<>>) = 0
    OBVIOUS
  <2>. QED BY <2>1 DEF OrderedLines, Ascends
<1>. QED BY <1>1, <1>2, <1>3, <1>4, <1>5

\* The names of temporary files.
LEMMA Names ==
  ASSUME W!JobsAreSound
  PROVE  /\ \A name \in W!Name : name[1] \in Nat /\ name[2] \in Nat /\ name[1] # 0 /\ name[2] # 0
         /\ None \notin W!Name
<1>1. MaxSeconds \in Nat /\ MaxDraws \in Nat /\ None \notin W!Name
  BY DEF W!JobsAreSound
<1>2. ASSUME NEW name \in W!Name
      PROVE  name[1] \in Nat /\ name[2] \in Nat /\ name[1] # 0 /\ name[2] # 0
  <2>1. name[1] \in 1 .. MaxSeconds /\ name[2] \in 1 .. MaxDraws
    BY DEF W!Name
  <2>. QED BY <1>1, <2>1
<1>. QED BY <1>1, <1>2

\* What a pipeline writes has its lines in order.
LEMMA RunMakes ==
  ASSUME W!JobsAreSound, WorkerInv, NEW r \in Request, W!Run(r)
  PROVE  \E x \in Result : output' = [output EXCEPT ![r] = x]
<1>t. WorkerTypes
  BY DEF WorkerInv
<1>r. /\ At[r] \in Node /\ Op[r] \in {"transform", "local", "global", "store"}
      /\ Len(W!Ins(r)) \in Nat
      /\ Op[r] = "transform" => W!Slice(r) \in Seq(Nat)
  BY <1>t, Requests
<1>i. child[r] \notin {"never", "unsent"} =>
        /\ \A k \in 1 .. Len(W!Ins(r)) : output[W!Ins(r)[k]].lines \in OrderedLines
        /\ Op[r] \in {"global", "store"} => Len(W!Ins(r)) >= 1
  BY InputsThere
<1>. USE DEF WorkerTypes
<1>. DEFINE file == tmp[At[r]][script[r]]
            runs == file # None /\ file.is = "program"
            by == IF runs THEN file.of ELSE None
            lines == IF ~runs THEN <<>>
                     ELSE IF Op[r] = "transform" THEN W!Sorted(W!Filter(by, W!Slice(r)))
                     ELSE W!Filter(by, W!Input(r))
<1>1. output' = [output EXCEPT ![r] = [by |-> by, lines |-> lines]]
  BY DEF W!Run
<1>2. script[r] \in W!Name /\ At[r] \in Node /\ child[r] = "run"
  <2>1. NamesAt(r)
    BY DEF WorkerInv
  <2>. QED BY <1>t, <1>r, <2>1 DEF NamesAt, W!Run
<1>3. file \in Content
  BY <1>t, <1>2
<1>4. by \in Request \cup {None}
  <2>. HIDE DEF file
  <2>1. CASE file = None
    BY <2>1
  <2>2. CASE \E q \in Request : file = W!Program(q)
    BY <2>2 DEF W!Program
  <2>3. CASE file \in [is : {"data"}, lines : OrderedLines]
    <3>1. file.is = "data"
      BY <2>3
    <3>. QED BY <3>1
  <2>. QED BY <1>3, <2>1, <2>2, <2>3 DEF Content
<1>5. W!Input(r) \in OrderedLines \/ Op[r] = "transform"
  <2>1. CASE pre[r] = None
    <3>1. Op[r] # "transform" => Op[r] = "global"
      <4>1. NamesAt(r)
        BY DEF WorkerInv
      <4>2. Op[r] # "local" /\ Op[r] # "store"
        <5>1. Op[r] # "store"
          <6>1. Progress(r)
            BY DEF WorkerInv
          <6>. QED BY <1>2, <6>1 DEF Progress, Early
        <5>. QED BY <1>2, <2>1, <4>1, <5>1 DEF NamesAt
      <4>. QED BY <1>r, <4>2
    <3>2. Op[r] # "transform" => Len(W!Ins(r)) \in Nat /\ 1 \in 1 .. Len(W!Ins(r))
      BY <1>r, <1>i, <1>2, <3>1
    <3>3. Op[r] # "transform" => output[W!Ins(r)[1]].lines \in OrderedLines
      BY <1>i, <1>2, <3>2
    <3>. QED BY <2>1, <3>3 DEF W!Input
  <2>2. CASE pre[r] # None
    <3>1. pre[r] \in W!Name
      BY <1>t, <2>2
    <3>2. tmp[At[r]][pre[r]] \in Content
      BY <1>t, <1>2, <3>1
    <3>3. \/ tmp[At[r]][pre[r]] = None
          \/ tmp[At[r]][pre[r]].is = "program"
          \/ tmp[At[r]][pre[r]].lines \in OrderedLines
      <4>1. CASE tmp[At[r]][pre[r]] = None
        BY <4>1
      <4>2. CASE \E q \in Request : tmp[At[r]][pre[r]] = W!Program(q)
        BY <4>2 DEF W!Program
      <4>3. CASE tmp[At[r]][pre[r]] \in [is : {"data"}, lines : OrderedLines]
        BY <4>3
      <4>. QED BY <3>2, <4>1, <4>2, <4>3 DEF Content
    <3>. QED BY <2>2, <3>3, OrderedMade DEF W!Input
  <2>. QED BY <2>1, <2>2
<1>6. lines \in OrderedLines
  <2>1. Op[r] = "transform" => W!Filter(by, W!Slice(r)) \in Seq(Nat)
    <3>1. Op[r] = "transform" => W!Slice(r) \in Seq(Nat)
      BY <1>r
    <3>2. \A program : \A s \in Seq(Nat) : W!Keep(program, s) \in Seq(Nat)
      BY OrderedMade
    <3>. HIDE DEF by
    <3>. QED BY <3>1, <3>2 DEF W!Filter
  <2>2. Op[r] # "transform" => W!Filter(by, W!Input(r)) \in OrderedLines
    <3>1. \A program : \A s \in OrderedLines : W!Keep(program, s) \in OrderedLines
      BY OrderedMade
    <3>. HIDE DEF by
    <3>. QED BY <1>5, <3>1 DEF W!Filter
  <2>. HIDE DEF by, runs
  <2>. QED BY <2>1, <2>2, OrderedMade
<1>. HIDE DEF file, runs, by, lines
<1>7. [by |-> by, lines |-> lines] \in Result
  BY <1>4, <1>6 DEF Result
<1>. QED BY <1>1, <1>7

\* A file is not None.
LEMMA ResultIsNot == ASSUME W!JobsAreSound PROVE None \notin Result
<1>1. None \notin [by : Request \cup {None}, lines : Seq(Nat)]
  BY DEF W!JobsAreSound
<1>2. ASSUME NEW x \in Result
      PROVE  x \in [by : Request \cup {None}, lines : Seq(Nat)]
  BY DEF Result, OrderedLines
<1>. QED BY <1>1, <1>2

\* A step keeps the types.
LEMMA WorkerTypesStep ==
  ASSUME W!JobsAreSound, WorkerInv, W!Next
  PROVE  WorkerTypes'
<1>w. WorkerTypes
  BY DEF WorkerInv
<1>r. \A r \in Request :
        /\ At[r] \in Node /\ Op[r] \in {"transform", "local", "global", "store"}
        /\ Len(W!Ins(r)) \in Nat
        /\ Op[r] = "transform" => W!Slice(r) \in Seq(Nat)
  BY <1>w, Requests
<1>i. \A r \in Request : child[r] \notin {"never", "unsent"} =>
        /\ \A k \in 1 .. Len(W!Ins(r)) : output[W!Ins(r)[k]].lines \in OrderedLines
        /\ Op[r] \in {"global", "store"} => Len(W!Ins(r)) >= 1
        /\ InputFiles(r) \in Seq(OrderedLines)
  BY InputsThere
<1>. USE DEF WorkerTypes, W!Goto, W!nameVars, W!fileVars
<1>t. WorkerTypes
  BY <1>w
<1>l. /\ Early \subseteq Labels
      /\ \A l \in {"pre", "script", "create", "fetch", "receive", "stuck", "exit", "merge", "check",
                  "run", "failed", "ran", "clean", "done", "map", "offer", "queued"} : l \in Labels
  BY DEF Labels, Early
<1>1. ASSUME NEW r \in Request, W!Send(r) \/ W!Fork(r) PROVE WorkerTypes'
  <2>1. CASE W!Send(r)
    BY <1>t, <1>l, <2>1 DEF W!Send
  <2>2. CASE W!Fork(r)
    <3>1. PICK label \in {"pre", "map", "script"} : child' = [child EXCEPT ![r] = label]
      BY <2>2 DEF W!Fork
    <3>2. /\ job' = job /\ seed' = seed /\ draw' = draw /\ script' = script /\ pre' = pre
          /\ peer' = peer /\ fetched' = fetched /\ tmp' = tmp /\ output' = output
          /\ stored' = stored /\ resp' = resp
      BY <2>2 DEF W!Fork
    <3>. QED BY <1>t, <1>l, <3>1, <3>2
  <2>. QED BY <1>1, <2>1, <2>2
<1>2. ASSUME NEW r \in Request, W!NamePre(r) \/ W!NameScript(r) PROVE WorkerTypes'
  <2>1. PICK name \in W!Name : /\ W!Draw(r, name)
                               /\ \/ pre' = [pre EXCEPT ![r] = name] /\ script' = script
                                  \/ script' = [script EXCEPT ![r] = name] /\ pre' = pre
    <3>1. CASE W!NamePre(r)
      BY <3>1 DEF W!NamePre
    <3>2. CASE W!NameScript(r)
      BY <3>2 DEF W!NameScript
    <3>. QED BY <1>2, <3>1, <3>2
  <2>2. seed' \in [Request -> Nat] /\ draw' \in [Request -> Nat]
    <3>1. name[1] \in Nat /\ name[2] \in Nat
      BY Names
    <3>. QED BY <1>t, <2>1, <3>1 DEF W!Draw
  <2>3. script' \in [Request -> W!Name \cup {None}] /\ pre' \in [Request -> W!Name \cup {None}]
    BY <1>t, <2>1
  <2>4. PICK label \in {"script", "fetch", "create"} : child' = [child EXCEPT ![r] = label]
    BY <1>2 DEF W!NamePre, W!NameScript
  <2>5. /\ job' = job /\ peer' = peer /\ fetched' = fetched /\ tmp' = tmp /\ output' = output
        /\ stored' = stored /\ resp' = resp
    BY <1>2 DEF W!NamePre, W!NameScript
  <2>. QED BY <1>t, <1>l, <2>2, <2>3, <2>4, <2>5
<1>3. ASSUME NEW r \in Request, W!CreateScript(r) PROVE WorkerTypes'
  <2>1. W!Program(r) \in Content
    BY DEF Content
  <2>2. tmp' \in [Node -> [W!Name -> Content]]
    <3>1. script[r] \in W!Name \cup {None} /\ tmp' = [tmp EXCEPT ![At[r]][script[r]] = W!Program(r)]
      BY <1>t, <1>3 DEF W!CreateScript, W!Put
    <3>. QED BY <1>r, <1>t, <2>1, <3>1
  <2>. QED BY <1>t, <1>l, <1>3, <2>2 DEF W!CreateScript
<1>4. ASSUME NEW r \in Request, W!OwnFile(r) \/ W!Serve(r) PROVE WorkerTypes'
  <2>1. child[r] \in {"fetch", "receive"} /\ W!Fetched(r)
    BY <1>4 DEF W!OwnFile, W!Serve
  <2>2. peer[r] \in 1 .. Len(W!Ins(r)) /\ Len(W!Ins(r)) \in Nat
    <3>1. Fetching(r)
      BY DEF WorkerInv
    <3>. QED BY <1>r, <2>1, <3>1 DEF Fetching
  <2>3. output[W!Ins(r)[peer[r]]].lines \in OrderedLines
    BY <1>i, <2>1, <2>2
  <2>4. fetched' \in [Request -> Seq(OrderedLines)]
    <3>. DEFINE l == output[W!Ins(r)[peer[r]]].lines
                new == Append(fetched[r], l)
    <3>1. new \in Seq(OrderedLines)
      BY <1>t, <2>3, AppendProperties
    <3>2. fetched' = [fetched EXCEPT ![r] = new]
      BY <2>1 DEF W!Fetched
    <3>. HIDE DEF new
    <3>. QED BY <1>t, <3>1, <3>2
  <2>5. peer' \in [Request -> Nat]
    <3>1. peer' = [peer EXCEPT ![r] = peer[r] + 1] /\ peer[r] + 1 \in Nat
      BY <2>1, <2>2 DEF W!Fetched
    <3>. QED BY <1>t, <3>1
  <2>. QED BY <1>t, <1>l, <1>4, <2>1, <2>4, <2>5 DEF W!OwnFile, W!Serve, W!Fetched
<1>5. ASSUME NEW r \in Request, W!Connect(r) \/ W!ServeFails(r) \/ W!Check(r) PROVE WorkerTypes'
  <2>1. CASE W!Connect(r)
    BY <1>t, <1>l, <2>1 DEF W!Connect
  <2>2. CASE W!ServeFails(r)
    BY <1>t, <1>l, <2>2 DEF W!ServeFails
  <2>3. CASE W!Check(r)
    BY <1>t, <1>l, <2>3 DEF W!Check
  <2>. QED BY <1>5, <2>1, <2>2, <2>3
<1>6. ASSUME NEW r \in Request, W!MergeFiles(r) PROVE WorkerTypes'
  <2>. DEFINE files == IF Op[r] = "local" THEN [k \in DOMAIN W!Ins(r) |-> output[W!Ins(r)[k]].lines]
                       ELSE fetched[r]
  <2>1. files \in Seq(OrderedLines)
    <3>1. InputFiles(r) \in Seq(OrderedLines)
      BY <1>6, <1>i DEF W!MergeFiles
    <3>. QED BY <1>t, <3>1 DEF InputFiles
  <2>. HIDE DEF files
  <2>2. W!Data(W!Merge[files]) \in Content
    BY <2>1, OrderedMade DEF Content, W!Data
  <2>3. tmp' = [tmp EXCEPT ![At[r]][pre[r]] = W!Data(W!Merge[files])]
    BY <1>6 DEF W!MergeFiles, W!Put, files
  <2>4. tmp' \in [Node -> [W!Name -> Content]]
    BY <1>r, <1>t, <2>2, <2>3
  <2>. QED BY <1>t, <1>l, <1>6, <2>4 DEF W!MergeFiles
<1>7. ASSUME NEW r \in Request, W!Run(r) PROVE WorkerTypes'
  <2>1. PICK x \in Result : output' = [output EXCEPT ![r] = x]
    BY <1>7, RunMakes
  <2>2. output' \in [Request -> Result \cup {None}]
    BY <1>t, <2>1
  <2>. QED BY <1>t, <1>l, <1>7, <2>2 DEF W!Run
<1>8. ASSUME NEW r \in Request, W!Answer(r) PROVE WorkerTypes'
  BY <1>t, <1>l, <1>8 DEF W!Answer, W!AnswersError
<1>9. ASSUME NEW r \in Request, W!Clean(r) PROVE WorkerTypes'
  <2>1. tmp' \in [Node -> [W!Name -> Content]]
    <3>. DEFINE cleaned == [name \in W!Name |-> IF name \in W!CleanScript(r) THEN None ELSE tmp[At[r]][name]]
    <3>1. cleaned \in [W!Name -> Content]
      <4>1. tmp[At[r]] \in [W!Name -> Content]
        BY <1>r, <1>t
      <4>2. None \in Content
        BY DEF Content
      <4>. QED BY <4>1, <4>2
    <3>2. tmp' = [tmp EXCEPT ![At[r]] = cleaned]
      BY <1>9 DEF W!Clean
    <3>. HIDE DEF cleaned
    <3>. QED BY <1>r, <1>t, <3>1, <3>2
  <2>. QED BY <1>t, <1>l, <1>9, <2>1 DEF W!Clean
<1>10. ASSUME NEW r \in Request, W!MapResult(r) PROVE WorkerTypes'
  BY <1>t, <1>l, <1>10 DEF W!MapResult
<1>11. ASSUME NEW r \in Request, W!Offer(r) PROVE WorkerTypes'
  <2>1. output[W!Ins(r)[1]].lines \in Seq(Nat)
    <3>1. Op[r] = "store" /\ child[r] = "offer"
      <4>1. Progress(r)
        BY DEF WorkerInv
      <4>. QED BY <1>11, <4>1 DEF Progress, W!Offer
    <3>2. Len(W!Ins(r)) \in Nat /\ 1 \in 1 .. Len(W!Ins(r))
      BY <1>r, <1>i, <3>1
    <3>3. output[W!Ins(r)[1]].lines \in OrderedLines
      BY <1>i, <3>1, <3>2
    <3>. QED BY <3>3 DEF OrderedLines
  <2>2. /\ stored' \in [Request -> Seq(Nat) \cup {None}]
        /\ resp' \in [Request -> {"none", "ok", "error", "no FileSystem", "not stored"}]
    BY <1>t, <1>11, <2>1 DEF W!Offer
  <2>. QED BY <1>t, <1>l, <1>11, <2>2 DEF W!Offer
<1>12. ASSUME NEW n \in Node, W!Kill(n) PROVE WorkerTypes'
  BY <1>t, <1>12 DEF W!Kill
<1>. QED BY <1>1, <1>2, <1>3, <1>4, <1>5, <1>6, <1>7, <1>8, <1>9, <1>10, <1>11, <1>12 DEF W!Next, W!Child

\* What the child that serves a request does.
Moves(c) == W!Send(c) \/ W!Fork(c) \/ W!Child(c)

\* A step is one of a child, or no child moves.
LEMMA Steps ==
  ASSUME [W!Next]_W!vars
  PROVE  \/ \E c \in Request : Moves(c)
         \/ UNCHANGED <<job, child, W!nameVars, peer, fetched, tmp, W!fileVars, resp>>
<1>1. CASE \E c \in Request : W!Send(c) \/ W!Fork(c) \/ W!Child(c)
  BY <1>1 DEF Moves
<1>2. CASE \E n \in Node : W!Kill(n)
  BY <1>2 DEF W!Kill
<1>3. CASE UNCHANGED W!vars
  BY <1>3 DEF W!vars
<1>. QED BY <1>1, <1>2, <1>3 DEF W!Next

\* The other children stay where they are, and have what they had.
LEMMA OthersStay ==
  ASSUME WorkerTypes, NEW c \in Request, Moves(c), NEW r \in Request, r # c
  PROVE  /\ child'[r] = child[r] /\ seed'[r] = seed[r] /\ draw'[r] = draw[r]
         /\ script'[r] = script[r] /\ pre'[r] = pre[r] /\ peer'[r] = peer[r] /\ fetched'[r] = fetched[r]
         /\ output'[r] = output[r] /\ stored'[r] = stored[r] /\ resp'[r] = resp[r]
<1>. DEFINE Fun(f) == f = [q \in Request |-> f[q]]
<1>t. /\ Fun(child) /\ Fun(seed) /\ Fun(draw) /\ Fun(script) /\ Fun(pre) /\ Fun(peer) /\ Fun(fetched)
      /\ Fun(output) /\ Fun(stored) /\ Fun(resp)
  BY DEF WorkerTypes
<1>m. ASSUME NEW f, NEW x, Fun(f)
      PROVE  [f EXCEPT ![c] = x][r] = f[r]
  BY <1>m
<1>. HIDE DEF Fun
<1>g. \A label : [child EXCEPT ![c] = label][r] = child[r]
  BY <1>t, <1>m
<1>1. CASE W!Send(c) \/ W!Fork(c) \/ W!CreateScript(c) \/ W!Connect(c) \/ W!ServeFails(c)
           \/ W!MergeFiles(c) \/ W!Check(c) \/ W!Clean(c)
  BY <1>g, <1>1 DEF W!Send, W!Fork, W!CreateScript, W!Connect, W!ServeFails, W!MergeFiles, W!Check, W!Clean,
                    W!Goto, W!nameVars, W!fileVars
<1>2. CASE W!NamePre(c) \/ W!NameScript(c)
  <2>1. /\ \E x : seed' = [seed EXCEPT ![c] = x]
        /\ \E x : draw' = [draw EXCEPT ![c] = x]
        /\ \E x : script' = [script EXCEPT ![c] = x] \/ script' = script
        /\ \E x : pre' = [pre EXCEPT ![c] = x] \/ pre' = pre
        /\ \E x : child' = [child EXCEPT ![c] = x]
        /\ peer' = peer /\ fetched' = fetched /\ output' = output /\ stored' = stored /\ resp' = resp
    BY <1>2 DEF W!NamePre, W!NameScript, W!Draw, W!Goto, W!fileVars
  <2>. QED BY <1>t, <1>m, <2>1
<1>3. CASE W!OwnFile(c) \/ W!Serve(c)
  <2>1. /\ \E x : peer' = [peer EXCEPT ![c] = x]
        /\ \E x : fetched' = [fetched EXCEPT ![c] = x]
        /\ \E x : child' = [child EXCEPT ![c] = x]
        /\ UNCHANGED W!nameVars /\ output' = output /\ stored' = stored /\ resp' = resp
    BY <1>3 DEF W!OwnFile, W!Serve, W!Fetched, W!Goto, W!fileVars
  <2>. QED BY <1>t, <1>m, <2>1 DEF W!nameVars
<1>4. CASE W!Run(c)
  <2>1. /\ \E x : output' = [output EXCEPT ![c] = x]
        /\ \E x : child' = [child EXCEPT ![c] = x]
        /\ UNCHANGED W!nameVars /\ peer' = peer /\ fetched' = fetched /\ stored' = stored /\ resp' = resp
    BY <1>4 DEF W!Run, W!Goto
  <2>. QED BY <1>t, <1>m, <2>1 DEF W!nameVars
<1>5. CASE W!Answer(c) \/ W!MapResult(c) \/ W!Offer(c)
  <2>1. /\ \E x : resp' = [resp EXCEPT ![c] = x] \/ resp' = resp
        /\ \E x : stored' = [stored EXCEPT ![c] = x] \/ stored' = stored
        /\ \E x : child' = [child EXCEPT ![c] = x]
        /\ UNCHANGED W!nameVars /\ peer' = peer /\ fetched' = fetched /\ output' = output
    BY <1>5 DEF W!Answer, W!MapResult, W!Offer, W!Goto, W!fileVars
  <2>. QED BY <1>t, <1>m, <2>1 DEF W!nameVars
<1>. QED BY <1>1, <1>2, <1>3, <1>4, <1>5 DEF Moves, W!Child

\* What a child that moves was doing, and what it changes for the others.
LEMMA Changes ==
  ASSUME NEW c \in Request, Moves(c)
  PROVE  /\ job' = job
         /\ output' = output \/ W!Run(c)
         /\ UNCHANGED W!nameVars \/ W!NamePre(c) \/ W!NameScript(c)
         /\ tmp' = tmp \/ W!CreateScript(c) \/ W!MergeFiles(c) \/ W!Clean(c)
         /\ UNCHANGED <<peer, fetched>> \/ W!OwnFile(c) \/ W!Serve(c)
         /\ resp' = resp \/ W!Answer(c) \/ W!Offer(c)
         /\ stored' = stored \/ W!Offer(c)
         /\ child[c] # "done"
<1>. USE DEF W!nameVars, W!fileVars
<1>1. CASE W!Send(c) \/ W!Fork(c) \/ W!Connect(c) \/ W!ServeFails(c) \/ W!Check(c) \/ W!MapResult(c)
  BY <1>1 DEF W!Send, W!Fork, W!Connect, W!ServeFails, W!Check, W!MapResult
<1>2. CASE W!NamePre(c) \/ W!NameScript(c)
  BY <1>2 DEF W!NamePre, W!NameScript
<1>3. CASE W!OwnFile(c) \/ W!Serve(c)
  BY <1>3 DEF W!OwnFile, W!Serve
<1>4. CASE W!CreateScript(c) \/ W!MergeFiles(c) \/ W!Clean(c)
  BY <1>4 DEF W!CreateScript, W!MergeFiles, W!Clean
<1>5. CASE W!Run(c)
  BY <1>5 DEF W!Run
<1>6. CASE W!Answer(c)
  BY <1>6 DEF W!Answer, W!AnswersError
<1>7. CASE W!Offer(c)
  BY <1>7 DEF W!Offer
<1>. QED BY <1>1, <1>2, <1>3, <1>4, <1>5, <1>6, <1>7 DEF Moves, W!Child

\* What a request was answered with stays, and so does what it produced.
LEMMA AnsweredStay ==
  ASSUME WorkerTypes, NEW c \in Request, Moves(c), NEW q \in Request, child[q] \in {"clean", "done"}
  PROVE  resp'[q] = resp[q] /\ output'[q] = output[q] /\ child'[q] \in {"clean", "done"}
<1>1. CASE q # c
  BY <1>1, OthersStay
<1>2. CASE q = c
  <2>1. ~ W!Run(c) /\ ~ W!Answer(c) /\ ~ W!Offer(c)
    BY <1>2 DEF W!Run, W!Answer, W!AnswersError, W!Offer
  <2>2. resp' = resp /\ output' = output
    BY <2>1, Changes
  <2>3. W!Clean(c)
    BY <1>2, <2>1 DEF Moves, W!Child, W!Send, W!Fork, W!NamePre, W!NameScript, W!CreateScript, W!OwnFile, W!Connect,
          W!Serve, W!ServeFails, W!MergeFiles, W!Check, W!MapResult
  <2>4. child' = [child EXCEPT ![c] = "done"] /\ child = [r \in Request |-> child[r]]
    BY <2>3 DEF W!Clean, W!Goto, WorkerTypes
  <2>. QED BY <1>2, <2>2, <2>4
<1>. QED BY <1>1, <1>2

\* What a child works on stays.
LEMMA InputsStay ==
  ASSUME W!JobsAreSound, WorkerInv, NEW c \in Request, Moves(c),
         NEW r \in Request, child[r] \notin {"never", "unsent"}
  PROVE  /\ InputFiles(r)' = InputFiles(r) /\ W!Ins(r)' = W!Ins(r)
         /\ \A k \in 1 .. Len(W!Ins(r)) :
              resp'[W!Ins(r)[k]] = "ok" /\ output'[W!Ins(r)[k]] = output[W!Ins(r)[k]]
<1>1. WorkerTypes /\ Len(W!Ins(r)) \in Nat /\ DOMAIN W!Ins(r) = 1 .. Len(W!Ins(r))
  BY Requests DEF WorkerInv
<1>2. job' = job
  BY Changes
<1>3. ASSUME NEW k \in 1 .. Len(W!Ins(r))
      PROVE  resp'[W!Ins(r)[k]] = "ok" /\ output'[W!Ins(r)[k]] = output[W!Ins(r)[k]]
  <2>. DEFINE q == W!Ins(r)[k]
  <2>1. q \in Request /\ resp[q] = "ok" /\ child[q] \in {"clean", "done"}
    BY InputsThere
  <2>. HIDE DEF q
  <2>2. resp'[q] = resp[q] /\ output'[q] = output[q]
    BY <1>1, <2>1, AnsweredStay
  <2>. QED BY <2>1, <2>2 DEF q
<1>4. W!Ins(r)' = W!Ins(r)
  BY <1>2 DEF W!Ins
<1>5. InputFiles(r)' = InputFiles(r)
  BY <1>1, <1>3, <1>4 DEF InputFiles
<1>. QED BY <1>3, <1>4, <1>5

\* How a child takes a name.
LEMMA NameTaken ==
  ASSUME W!JobsAreSound, WorkerInv, NEW c \in Request, W!NamePre(c) \/ W!NameScript(c)
  PROVE  \E name \in W!Name :
           /\ name[1] \in Nat /\ name[2] \in Nat /\ name[1] # 0
           /\ name[2] > draw[c] /\ seed[c] \in {0, name[1]}
           /\ seed' = [seed EXCEPT ![c] = name[1]] /\ draw' = [draw EXCEPT ![c] = name[2]]
           /\ \/ /\ W!NamePre(c) /\ pre[c] = None
                 /\ pre' = [pre EXCEPT ![c] = name] /\ script' = script
              \/ /\ W!NameScript(c) /\ script[c] = None
                 /\ script' = [script EXCEPT ![c] = name] /\ pre' = pre
<1>1. NamesAt(c)
  BY DEF WorkerInv
<1>2. PICK name \in W!Name : /\ W!Draw(c, name)
                             /\ \/ W!NamePre(c) /\ pre' = [pre EXCEPT ![c] = name] /\ script' = script
                                \/ W!NameScript(c) /\ script' = [script EXCEPT ![c] = name] /\ pre' = pre
  <2>1. CASE W!NamePre(c)
    BY <2>1 DEF W!NamePre
  <2>2. CASE W!NameScript(c)
    BY <2>2 DEF W!NameScript
  <2>. QED BY <2>1, <2>2
<1>3. W!NamePre(c) => pre[c] = None
  BY <1>1 DEF NamesAt, W!NamePre
<1>4. W!NameScript(c) => script[c] = None
  BY <1>1 DEF NamesAt, W!NameScript
<1>5. name[1] \in Nat /\ name[2] \in Nat /\ name[1] # 0
  BY Names
<1>6. name[2] > draw[c] /\ seed[c] \in {0, name[1]}
  BY <1>2 DEF W!Draw, W!Temp
<1>. QED BY <1>2, <1>3, <1>4, <1>5, <1>6 DEF W!Draw

\* A step keeps the names of a child its own.
LEMMA NamedStep ==
  ASSUME W!JobsAreSound, WorkerInv, NEW c \in Request, Moves(c), NEW r \in Request
  PROVE  Named(r)'
<1>1. Named(r) /\ WorkerTypes
  BY DEF WorkerInv
<1>2. CASE r # c
  BY <1>1, <1>2, OthersStay DEF Named
<1>3. CASE r = c /\ UNCHANGED W!nameVars
  BY <1>1, <1>3 DEF Named, W!nameVars
<1>4. CASE r = c /\ (W!NamePre(c) \/ W!NameScript(c))
  <2>1. PICK name \in W!Name :
           /\ name[1] \in Nat /\ name[2] \in Nat /\ name[1] # 0
           /\ name[2] > draw[c] /\ seed[c] \in {0, name[1]}
           /\ seed' = [seed EXCEPT ![c] = name[1]] /\ draw' = [draw EXCEPT ![c] = name[2]]
           /\ \/ pre[c] = None /\ pre' = [pre EXCEPT ![c] = name] /\ script' = script
              \/ script[c] = None /\ script' = [script EXCEPT ![c] = name] /\ pre' = pre
    BY <1>4, NameTaken
  <2>2. /\ seed'[c] = name[1] /\ draw'[c] = name[2] /\ draw[c] \in Nat
        /\ \/ pre[c] = None /\ pre'[c] = name /\ script'[c] = script[c]
           \/ script[c] = None /\ script'[c] = name /\ pre'[c] = pre[c]
    BY <1>1, <2>1 DEF WorkerTypes
  <2>3. ASSUME NEW old \in {script[c], pre[c]} \ {None}
        PROVE  old[1] = name[1] /\ old[2] <= name[2] /\ old # name
    <3>1. old[1] = seed[c] /\ old[2] <= draw[c]
      BY <1>1, <1>4 DEF Named
    <3>2. old \in W!Name
      <4>1. script[c] \in W!Name \cup {None} /\ pre[c] \in W!Name \cup {None}
        BY <1>1 DEF WorkerTypes
      <4>. QED BY <2>3, <4>1
    <3>3. old[1] \in Nat /\ old[2] \in Nat /\ old[1] # 0
      BY <3>2, Names
    <3>. QED BY <2>1, <2>2, <3>1, <3>3
  <2>4. name # None
    BY Names
  <2>. QED BY <1>4, <2>1, <2>2, <2>3, <2>4 DEF Named
<1>. QED BY <1>2, <1>3, <1>4, Changes

\* A step keeps what names a child has where it is.
LEMMA NamesAtStep ==
  ASSUME W!JobsAreSound, WorkerInv, NEW c \in Request, Moves(c), NEW r \in Request
  PROVE  NamesAt(r)'
<1>1. NamesAt(r) /\ WorkerTypes /\ Fetching(r) /\ Progress(r)
  BY DEF WorkerInv
<1>2. W!Ins(r)' = W!Ins(r) /\ Op[r] \in {"transform", "local", "global", "store"}
  <2>1. job' = job
    BY Changes
  <2>. QED BY <1>1, <2>1, Requests DEF W!Ins
<1>3. CASE r # c
  BY <1>1, <1>2, <1>3, OthersStay DEF NamesAt
<1>4. CASE r = c
  <2>p. child = [q \in Request |-> child[q]]
    BY <1>1 DEF WorkerTypes
  <2>1. CASE W!Send(c)
    <3>1. child'[r] = "queued" /\ child[r] = "unsent" /\ script'[r] = script[r] /\ pre'[r] = pre[r]
      BY <1>4, <2>p, <2>1 DEF W!Send, W!Goto, W!nameVars
    <3>. QED BY <1>1, <1>2, <3>1 DEF NamesAt, Early
  <2>2. CASE W!Fork(c)
    <3>1. /\ child'[r] = CASE Op[r] = "local" -> "pre" [] Op[r] = "store" -> "map" [] OTHER -> "script"
          /\ child[r] = "queued" /\ script'[r] = script[r] /\ pre'[r] = pre[r]
      BY <1>4, <2>p, <2>2 DEF W!Fork, W!Goto, W!nameVars
    <3>. QED BY <1>1, <1>2, <3>1 DEF NamesAt, Early
  <2>3. CASE W!NamePre(c) \/ W!NameScript(c)
    <3>1. PICK name \in W!Name :
           /\ \/ W!NamePre(c) /\ pre' = [pre EXCEPT ![c] = name] /\ script' = script
              \/ W!NameScript(c) /\ script' = [script EXCEPT ![c] = name] /\ pre' = pre
      BY <2>3, NameTaken
    <3>2. name # None
      BY Names
    <3>3. CASE W!NamePre(c) /\ pre' = [pre EXCEPT ![c] = name] /\ script' = script
      <4>1. /\ child'[r] = IF Op[r] = "local" THEN "script" ELSE "fetch"
            /\ child[r] = "pre" /\ script'[r] = script[r] /\ pre'[r] = name
        BY <1>1, <1>4, <2>p, <3>3 DEF W!NamePre, W!Goto, WorkerTypes
      <4>. QED BY <1>1, <1>2, <3>2, <4>1 DEF NamesAt, Early
    <3>4. CASE W!NameScript(c) /\ script' = [script EXCEPT ![c] = name] /\ pre' = pre
      <4>1. child'[r] = "create" /\ child[r] = "script" /\ script'[r] = name /\ pre'[r] = pre[r]
        BY <1>1, <1>4, <2>p, <3>4 DEF W!NameScript, W!Goto, WorkerTypes
      <4>2. Op[r] # "store"
        BY <1>1, <4>1 DEF Progress, Early
      <4>. QED BY <1>1, <1>2, <3>2, <4>1, <4>2 DEF NamesAt, Early
    <3>. QED BY <3>1, <3>3, <3>4
  <2>4. CASE W!CreateScript(c)
    <3>1. /\ child'[r] = CASE Op[r] = "transform" -> "check"
                        [] Op[r] = "local" -> "merge"
                        [] OTHER -> IF Len(W!Ins(r)) > 1 THEN "pre" ELSE "check"
          /\ child[r] = "create" /\ script'[r] = script[r] /\ pre'[r] = pre[r]
      BY <1>4, <2>p, <2>4 DEF W!CreateScript, W!Goto, W!nameVars
    <3>2. Op[r] = "global" => Len(W!Ins(r)) \in Nat /\ Len(W!Ins(r)) >= 1
      <4>1. child[r] \notin {"never", "unsent"}
        BY <3>1
      <4>. QED BY <1>1, <4>1, Requests, InputsThere
    <3>3. Op[r] # "store"
      BY <1>1, <3>1 DEF Progress, Early
    <3>4. ASSUME Op[r] = "global", ~ (Len(W!Ins(r)) > 1) PROVE Len(W!Ins(r)) = 1
      <4>. DEFINE n == Len(W!Ins(r))
      <4>1. n \in Nat /\ n >= 1 /\ ~ (n > 1)
        BY <3>2, <3>4
      <4>. HIDE DEF n
      <4>2. n = 1
        BY <4>1
      <4>. QED BY <4>2 DEF n
    <3>. QED BY <1>1, <1>2, <3>1, <3>3, <3>4 DEF NamesAt, Early
  <2>5. CASE W!OwnFile(c) \/ W!Connect(c) \/ W!Serve(c) \/ W!ServeFails(c)
    <3>1. /\ child'[r] \in {"fetch", "merge", "receive", "exit", "stuck"}
          /\ child[r] \in {"fetch", "receive"} /\ script'[r] = script[r] /\ pre'[r] = pre[r]
      BY <1>4, <2>p, <2>5 DEF W!OwnFile, W!Connect, W!Serve, W!ServeFails, W!Fetched, W!Goto, W!nameVars
    <3>. QED BY <1>1, <1>2, <3>1 DEF NamesAt, Early
  <2>6. CASE W!MergeFiles(c)
    <3>1. child'[r] = "check" /\ child[r] = "merge" /\ script'[r] = script[r] /\ pre'[r] = pre[r]
      BY <1>4, <2>p, <2>6 DEF W!MergeFiles, W!Goto, W!nameVars
    <3>2. Op[r] \in {"local", "global"}
      BY <1>1, <3>1 DEF Fetching
    <3>. QED BY <1>1, <1>2, <3>1, <3>2 DEF NamesAt, Early
  <2>7. CASE W!Check(c)
    <3>1. child'[r] \in {"run", "failed"} /\ child[r] = "check" /\ script'[r] = script[r] /\ pre'[r] = pre[r]
      BY <1>4, <2>p, <2>7 DEF W!Check, W!Goto, W!nameVars
    <3>. QED BY <1>1, <1>2, <3>1 DEF NamesAt, Early
  <2>8. CASE W!Run(c) \/ W!Answer(c) \/ W!Clean(c) \/ W!MapResult(c) \/ W!Offer(c)
    <3>1. /\ child'[r] \in {"ran", "failed", "clean", "done", "offer", "exit"}
          /\ script'[r] = script[r] /\ pre'[r] = pre[r]
      BY <1>4, <2>p, <2>8 DEF W!Run, W!Answer, W!Clean, W!MapResult, W!Offer, W!Goto, W!nameVars
    <3>. QED BY <1>1, <1>2, <3>1 DEF NamesAt, Early
  <2>. QED BY <2>1, <2>2, <2>3, <2>4, <2>5, <2>6, <2>7, <2>8 DEF Moves, W!Child
<1>. QED BY <1>3, <1>4

\* A step keeps what a leader has fetched.
LEMMA FetchingStep ==
  ASSUME W!JobsAreSound, WorkerInv, NEW c \in Request, Moves(c), NEW r \in Request
  PROVE  Fetching(r)'
<1>1. NamesAt(r) /\ WorkerTypes /\ Fetching(r)
  BY DEF WorkerInv
<1>2. /\ W!Ins(r)' = W!Ins(r) /\ Op[r] \in {"transform", "local", "global", "store"}
      /\ Len(W!Ins(r)) \in Nat
  <2>1. job' = job
    BY Changes
  <2>. QED BY <1>1, <2>1, Requests DEF W!Ins
<1>3. child[r] \notin {"never", "unsent"} => InputFiles(r)' = InputFiles(r)
  BY InputsStay
<1>4. CASE r # c
  <2>1. child'[r] = child[r] /\ peer'[r] = peer[r] /\ fetched'[r] = fetched[r]
    BY <1>1, <1>4, OthersStay
  <2>. QED BY <1>1, <1>2, <1>3, <2>1 DEF Fetching
<1>5. CASE r = c
  <2>p. child = [q \in Request |-> child[q]] /\ peer = [q \in Request |-> peer[q]]
        /\ fetched = [q \in Request |-> fetched[q]]
    BY <1>1 DEF WorkerTypes
  <2>1. CASE W!Send(c) \/ W!Fork(c)
    <3>1. /\ child'[r] \in {"queued", "pre", "map", "script"} /\ child[r] \in Early
          /\ peer'[r] = peer[r] /\ fetched'[r] = fetched[r]
      BY <1>5, <2>p, <2>1 DEF W!Send, W!Fork, W!Goto, Early
    <3>. QED BY <1>1, <3>1 DEF Fetching, Early
  <2>2. CASE W!NamePre(c)
    <3>1. /\ child'[r] = IF Op[r] = "local" THEN "script" ELSE "fetch"
          /\ child[r] = "pre" /\ peer'[r] = peer[r] /\ fetched'[r] = fetched[r]
      BY <1>5, <2>p, <2>2 DEF W!NamePre, W!Goto
    <3>2. peer[r] = 1 /\ fetched[r] = <<>> /\ (Op[r] = "local" \/ (Op[r] = "global" /\ Len(W!Ins(r)) > 1))
      <4>1. peer[r] = 1 /\ fetched[r] = <<>>
        BY <1>1, <3>1 DEF Fetching
      <4>2. Op[r] = "local" \/ (Op[r] = "global" /\ Len(W!Ins(r)) > 1)
        BY <1>1, <3>1 DEF NamesAt
      <4>. QED BY <4>1, <4>2
    <3>3. Len(fetched'[r]) = peer'[r] - 1 /\ peer'[r] = 1 /\ fetched'[r] = <<>>
      BY <3>1, <3>2
    <3>. QED BY <1>2, <3>1, <3>2, <3>3 DEF Fetching, Early
  <2>3. CASE W!NameScript(c) \/ W!CreateScript(c)
    <3>1. /\ child'[r] \in {"create", "check", "merge", "pre"} /\ child[r] \in {"script", "create"}
          /\ child'[r] = "merge" => Op[r] = "local"
          /\ peer'[r] = peer[r] /\ fetched'[r] = fetched[r]
      BY <1>5, <2>p, <2>3 DEF W!NameScript, W!CreateScript, W!Goto
    <3>. QED BY <1>1, <3>1 DEF Fetching, Early
  <2>4. CASE W!OwnFile(c) \/ W!Serve(c)
    <3>. DEFINE line == output[W!Ins(r)[peer[r]]].lines
                n == Len(W!Ins(r))
    <3>1. /\ child[r] \in {"fetch", "receive"} /\ child'[r] = IF peer[r] = n THEN "merge" ELSE "fetch"
          /\ fetched'[r] = Append(fetched[r], line) /\ peer'[r] = peer[r] + 1
      BY <1>5, <2>p, <2>4 DEF W!OwnFile, W!Serve, W!Fetched, W!Goto
    <3>2. /\ Op[r] = "global" /\ peer[r] \in 1 .. n /\ Len(fetched[r]) = peer[r] - 1
          /\ \A k \in 1 .. peer[r] - 1 : fetched[r][k] = InputFiles(r)[k]
      BY <1>1, <3>1 DEF Fetching
    <3>3. /\ InputFiles(r) \in Seq(OrderedLines) /\ Len(InputFiles(r)) = n
          /\ InputFiles(r)[peer[r]] = line /\ line \in OrderedLines
      BY <3>1, <3>2, InputsThere
    <3>4. fetched[r] \in Seq(OrderedLines)
      BY <1>1 DEF WorkerTypes
    <3>5. InputFiles(r)' = InputFiles(r)
      BY <1>3, <3>1
    <3>. HIDE DEF line, n
    <3>6. /\ Len(fetched'[r]) = peer[r] /\ fetched'[r] \in Seq(OrderedLines)
          /\ \A k \in 1 .. peer[r] : fetched'[r][k] = InputFiles(r)[k]
      BY <3>1, <3>2, <3>3, <3>4
    <3>7. n = Len(W!Ins(r)) /\ n \in Nat
      BY <1>2 DEF n
    <3>8. CASE peer[r] = n
      <4>1. fetched'[r] = InputFiles(r)
        BY <3>2, <3>3, <3>6, <3>8, SeqEqual
      <4>. QED BY <3>1, <3>2, <3>5, <3>8, <4>1 DEF Fetching, Early
    <3>9. CASE peer[r] # n
      <4>1. peer'[r] \in 1 .. n /\ peer'[r] - 1 = peer[r]
        BY <3>1, <3>2, <3>7, <3>9
      <4>. QED BY <1>2, <3>1, <3>2, <3>5, <3>6, <3>7, <3>9, <4>1 DEF Fetching, Early
    <3>. QED BY <3>8, <3>9
  <2>5. CASE W!Connect(c)
    <3>1. /\ child'[r] \in {"receive", "exit"} /\ child[r] = "fetch"
          /\ peer'[r] = peer[r] /\ fetched'[r] = fetched[r]
      BY <1>5, <2>p, <2>5 DEF W!Connect, W!Goto
    <3>. QED BY <1>1, <1>2, <1>3, <3>1 DEF Fetching, Early
  <2>6. CASE W!ServeFails(c) \/ W!MergeFiles(c) \/ W!Check(c) \/ W!Run(c) \/ W!Answer(c) \/ W!Clean(c)
             \/ W!MapResult(c) \/ W!Offer(c)
    <3>1. child'[r] \in {"stuck", "check", "run", "failed", "ran", "clean", "done", "offer", "exit"}
      BY <1>5, <2>p, <2>6 DEF W!ServeFails, W!MergeFiles, W!Check, W!Run, W!Answer,
                               W!Clean, W!MapResult, W!Offer, W!Goto
    <3>. QED BY <3>1 DEF Fetching, Early
  <2>. QED BY <2>1, <2>2, <2>3, <2>4, <2>5, <2>6 DEF Moves, W!Child
<1>. QED BY <1>4, <1>5

\* A step keeps the order of requests and answers.
LEMMA ProgressStep ==
  ASSUME W!JobsAreSound, WorkerInv, NEW c \in Request, Moves(c), NEW r \in Request
  PROVE  Progress(r)'
<1>1. NamesAt(r) /\ WorkerTypes /\ Progress(r)
  BY DEF WorkerInv
<1>2. /\ job' = job /\ W!Ins(r)' = W!Ins(r) /\ Op[r] \in {"transform", "local", "global", "store"}
      /\ Len(W!Ins(r)) \in Nat /\ DOMAIN W!Ins(r) = 1 .. Len(W!Ins(r))
  <2>1. job' = job
    BY Changes
  <2>. QED BY <1>1, <2>1, Requests DEF W!Ins
<1>3. child[r] \notin {"never", "unsent"} =>
        /\ \A k \in DOMAIN W!Ins(r) : resp'[W!Ins(r)[k]] = "ok" /\ output'[W!Ins(r)[k]] = output[W!Ins(r)[k]]
        /\ Op[r] = "store" => 1 \in DOMAIN W!Ins(r)
  <2>1. ASSUME child[r] \notin {"never", "unsent"}
        PROVE  \A k \in DOMAIN W!Ins(r) : resp'[W!Ins(r)[k]] = "ok" /\ output'[W!Ins(r)[k]] = output[W!Ins(r)[k]]
    BY <1>2, <2>1, InputsStay
  <2>2. ASSUME child[r] \notin {"never", "unsent"}, Op[r] = "store"
        PROVE  1 \in DOMAIN W!Ins(r)
    <3>1. Len(W!Ins(r)) >= 1
      BY <2>2, InputsThere
    <3>. QED BY <1>2, <3>1
  <2>. QED BY <2>1, <2>2
<1>4. CASE r # c
  <2>1. /\ child'[r] = child[r] /\ resp'[r] = resp[r] /\ output'[r] = output[r] /\ stored'[r] = stored[r]
    BY <1>1, <1>4, OthersStay
  <2>. QED BY <1>1, <1>2, <1>3, <2>1 DEF Progress
<1>5. CASE r = c
  <2>p. /\ child = [q \in Request |-> child[q]] /\ resp = [q \in Request |-> resp[q]]
        /\ output = [q \in Request |-> output[q]] /\ stored = [q \in Request |-> stored[q]]
    BY <1>1 DEF WorkerTypes
  <2>1. CASE W!Send(c)
    <3>1. /\ child'[r] = "queued" /\ child[r] = "unsent" /\ \A k \in DOMAIN W!Ins(r) : resp[W!Ins(r)[k]] = "ok"
          /\ resp' = resp
      BY <1>5, <2>p, <2>1 DEF W!Send, W!Goto
    <3>2. resp'[r] = "none"
      BY <1>1, <3>1 DEF Progress
    <3>. QED BY <1>1, <1>2, <3>1, <3>2 DEF Progress, Early
  <2>2. CASE W!Fork(c)
    <3>1. /\ child'[r] = CASE Op[r] = "local" -> "pre" [] Op[r] = "store" -> "map" [] OTHER -> "script"
          /\ child[r] = "queued" /\ resp' = resp
      BY <1>5, <2>p, <2>2 DEF W!Fork, W!Goto
    <3>2. resp'[r] = "none"
      BY <1>1, <3>1 DEF Progress
    <3>. QED BY <1>1, <1>2, <1>3, <3>1, <3>2 DEF Progress, Early
  <2>3. CASE \/ W!NamePre(c) \/ W!NameScript(c) \/ W!CreateScript(c) \/ W!OwnFile(c) \/ W!Connect(c)
             \/ W!Serve(c) \/ W!ServeFails(c) \/ W!MergeFiles(c) \/ W!Check(c)
    <3>1. /\ child[r] \in {"pre", "script", "create", "fetch", "receive", "merge", "check"}
          /\ child'[r] \in Labels \ {"never", "unsent", "clean", "done", "map", "offer", "ran"}
          /\ resp' = resp
      <4>1. CASE W!NamePre(c) \/ W!NameScript(c) \/ W!CreateScript(c)
        BY <1>5, <2>p, <4>1 DEF W!NamePre, W!NameScript, W!CreateScript, W!Goto, Labels
      <4>2. CASE W!OwnFile(c) \/ W!Connect(c) \/ W!Serve(c)
        BY <1>5, <2>p, <4>2 DEF W!OwnFile, W!Connect, W!Serve, W!Fetched, W!Goto, Labels
      <4>3. CASE W!ServeFails(c) \/ W!MergeFiles(c) \/ W!Check(c)
        BY <1>5, <2>p, <4>3 DEF W!ServeFails, W!MergeFiles, W!Check, W!Goto, Labels
      <4>. QED BY <2>3, <4>1, <4>2, <4>3
    <3>2. resp'[r] = "none" /\ Op[r] # "store"
      BY <1>1, <3>1 DEF Progress, Early
    <3>. QED BY <1>1, <1>2, <1>3, <3>1, <3>2 DEF Progress, Early
  <2>4. CASE W!Run(c)
    <3>1. /\ child[r] = "run" /\ child'[r] \in {"ran", "failed"} /\ resp' = resp /\ stored' = stored
      BY <1>5, <2>p, <2>4 DEF W!Run, W!Goto
    <3>2. output'[r] # None
      <4>1. PICK x \in Result : output' = [output EXCEPT ![r] = x]
        BY <1>5, <2>4, RunMakes
      <4>. QED BY <2>p, <4>1, ResultIsNot
    <3>3. resp'[r] = "none" /\ Op[r] # "store"
      BY <1>1, <3>1 DEF Progress, Early
    <3>. QED BY <1>1, <1>2, <1>3, <3>1, <3>2, <3>3 DEF Progress, Early
  <2>5. CASE W!Answer(c)
    <3>1. /\ child[r] \in {"ran", "failed"} /\ child'[r] = "clean" /\ output' = output
          /\ resp'[r] = IF child[r] = "ran" THEN "ok" ELSE "error"
      BY <1>5, <2>p, <2>5 DEF W!Answer, W!AnswersError, W!Goto, W!fileVars
    <3>2. Op[r] # "store"
      BY <1>1, <3>1 DEF Progress, Early
    <3>. QED BY <1>1, <1>2, <1>3, <3>1, <3>2 DEF Progress, Early
  <2>6. CASE W!Clean(c)
    <3>1. child[r] = "clean" /\ child'[r] = "done" /\ output' = output /\ stored' = stored /\ resp' = resp
      BY <1>5, <2>p, <2>6 DEF W!Clean, W!Goto
    <3>2. Op[r] # "store"
      BY <1>1, <3>1 DEF Progress, Early
    <3>. QED BY <1>1, <1>2, <1>3, <3>1, <3>2 DEF Progress, Early
  <2>7. CASE W!MapResult(c)
    <3>1. child[r] = "map" /\ child'[r] \in {"offer", "exit"} /\ output' = output /\ resp' = resp
      BY <1>5, <2>p, <2>7 DEF W!MapResult, W!Goto, W!fileVars
    <3>2. Op[r] = "store" /\ resp[r] = "none"
      BY <1>1, <3>1 DEF Progress
    <3>. QED BY <1>1, <1>2, <1>3, <3>1, <3>2 DEF Progress, Early
  <2>8. CASE W!Offer(c)
    <3>1. /\ child[r] = "offer" /\ child'[r] = "done" /\ output' = output
          /\ resp'[r] = "ok" => stored'[r] = output[W!Ins(r)[1]].lines
      BY <1>5, <2>p, <2>8 DEF W!Offer, W!Goto
    <3>2. Op[r] = "store"
      BY <1>1, <3>1 DEF Progress
    <3>. QED BY <1>1, <1>2, <1>3, <3>1, <3>2 DEF Progress, Early
  <2>. QED BY <2>1, <2>2, <2>3, <2>4, <2>5, <2>6, <2>7, <2>8 DEF Moves, W!Child
<1>. QED BY <1>4, <1>5

\* Only children that have not ended own temporary files.
LEMMA OwnedStep ==
  ASSUME W!JobsAreSound, WorkerInv, NEW c \in Request, Moves(c)
  PROVE  Owned'
<1>1. WorkerTypes /\ Owned /\ NamesAt(c) /\ Progress(c) /\ None \notin W!Name /\ At[c] \in Node
  BY Names, Requests DEF WorkerInv
<1>p. child = [q \in Request |-> child[q]] /\ \A n \in Node : tmp[n] = [name \in W!Name |-> tmp[n][name]]
  BY <1>1 DEF WorkerTypes
<1>2. ASSUME NEW n \in Node, NEW name \in W!Name, tmp'[n][name] # None, tmp'[n][name] = tmp[n][name]
      PROVE  \E q \in Request : At[q] = n /\ child'[q] # "done" /\ name \in {script'[q], pre'[q]}
  <2>1. PICK q \in Request : At[q] = n /\ child[q] # "done" /\ name \in {script[q], pre[q]}
    BY <1>1, <1>2 DEF Owned
  <2>2. CASE q # c
    BY <1>1, <2>1, <2>2, OthersStay
  <2>3. CASE q = c
    <3>1. name \in {script'[c], pre'[c]}
      <4>1. CASE UNCHANGED W!nameVars
        BY <2>1, <2>3, <4>1 DEF W!nameVars
      <4>2. CASE W!NamePre(c) \/ W!NameScript(c)
        <5>1. PICK x \in W!Name :
                \/ pre[c] = None /\ pre' = [pre EXCEPT ![c] = x] /\ script' = script
                \/ script[c] = None /\ script' = [script EXCEPT ![c] = x] /\ pre' = pre
          BY <4>2, NameTaken
        <5>. QED BY <1>1, <2>1, <2>3, <5>1
      <4>. QED BY <4>1, <4>2, Changes
    <3>2. child'[c] # "done"
      <4>1. ~ W!Clean(c)
        <5>1. ASSUME W!Clean(c) PROVE tmp'[n][name] = None
          <6>1. /\ tmp' = [tmp EXCEPT ![At[c]] =
                      [x \in W!Name |-> IF x \in W!CleanScript(c) THEN None ELSE tmp[At[c]][x]]]
            BY <5>1 DEF W!Clean
          <6>2. name \in W!CleanScript(c) /\ n = At[c]
            BY <1>1, <2>1, <2>3 DEF W!CleanScript
          <6>. QED BY <1>1, <6>1, <6>2 DEF WorkerTypes
        <5>. QED BY <1>2, <5>1
      <4>2. ~ W!Offer(c)
        <5>1. ASSUME W!Offer(c) PROVE FALSE
          <6>1. Op[c] = "store"
            BY <1>1, <5>1 DEF Progress, W!Offer
          <6>2. script[c] = None /\ pre[c] = None
            BY <1>1, <6>1 DEF NamesAt
          <6>. QED BY <1>1, <2>1, <2>3, <6>2
        <5>. QED BY <5>1
      <4>3. child'[c] # "done"
        <5>1. CASE W!Send(c)
          BY <1>p, <5>1 DEF W!Send, W!Goto
        <5>2. CASE W!Fork(c)
          BY <1>p, <5>2 DEF W!Fork, W!Goto
        <5>3. CASE W!NamePre(c)
          BY <1>p, <5>3 DEF W!NamePre, W!Goto
        <5>4. CASE W!NameScript(c)
          BY <1>p, <5>4 DEF W!NameScript, W!Goto
        <5>5. CASE W!CreateScript(c)
          BY <1>p, <5>5 DEF W!CreateScript, W!Goto
        <5>6. CASE W!Connect(c)
          BY <1>p, <5>6 DEF W!Connect, W!Goto
        <5>7. CASE W!OwnFile(c)
          BY <1>p, <5>7 DEF W!OwnFile, W!Fetched, W!Goto
        <5>8. CASE W!Serve(c)
          BY <1>p, <5>8 DEF W!Serve, W!Fetched, W!Goto
        <5>9. CASE W!ServeFails(c)
          BY <1>p, <5>9 DEF W!ServeFails, W!Goto
        <5>10. CASE W!MergeFiles(c)
          BY <1>p, <5>10 DEF W!MergeFiles, W!Goto
        <5>11. CASE W!Check(c)
          BY <1>p, <5>11 DEF W!Check, W!Goto
        <5>12. CASE W!Run(c)
          BY <1>p, <5>12 DEF W!Run, W!Goto
        <5>13. CASE W!Answer(c)
          BY <1>p, <5>13 DEF W!Answer, W!Goto
        <5>14. CASE W!MapResult(c)
          BY <1>p, <5>14 DEF W!MapResult, W!Goto
        <5>. QED BY <4>1, <4>2, <5>1, <5>2, <5>3, <5>4, <5>5, <5>6, <5>7, <5>8, <5>9,
              <5>10, <5>11, <5>12, <5>13, <5>14 DEF Moves, W!Child
      <4>. QED BY <4>3
    <3>. QED BY <2>1, <2>3, <3>1, <3>2
  <2>. QED BY <2>2, <2>3
<1>3. CASE tmp' = tmp
  BY <1>2, <1>3 DEF Owned
<1>4. CASE W!CreateScript(c) \/ W!MergeFiles(c)
  <2>1. /\ \E x : tmp' = [tmp EXCEPT ![At[c]][script[c]] = x] \/ tmp' = [tmp EXCEPT ![At[c]][pre[c]] = x]
        /\ \E label : child' = [child EXCEPT ![c] = label] /\ label # "done"
        /\ script' = script /\ pre' = pre
    BY <1>4 DEF W!CreateScript, W!MergeFiles, W!Put, W!Goto, W!nameVars
  <2>2. ASSUME NEW n \in Node, NEW name \in W!Name, tmp'[n][name] # tmp[n][name]
        PROVE  n = At[c] /\ name \in {script[c], pre[c]}
    <3>0. PICK own \in {script[c], pre[c]} : \E x : tmp' = [tmp EXCEPT ![At[c]][own] = x]
      BY <2>1
    <3>1. PICK x : tmp' = [tmp EXCEPT ![At[c]][own] = x]
      BY <3>0
    <3>2. tmp \in [Node -> [W!Name -> Content]]
      BY <1>1 DEF WorkerTypes
    <3>3. tmp' = [tmp EXCEPT ![At[c]] = [tmp[At[c]] EXCEPT ![own] = x]]
      BY <3>1
    <3>4. CASE n # At[c]
      BY <2>2, <3>2, <3>3, <3>4
    <3>5. CASE n = At[c]
      <4>1. tmp'[n] = [tmp[n] EXCEPT ![own] = x] /\ tmp[n] \in [W!Name -> Content]
        BY <3>2, <3>3, <3>5
      <4>2. name = own
        BY <2>2, <4>1
      <4>. QED BY <3>1, <3>5, <4>2
    <3>. QED BY <3>4, <3>5
  <2>3. child'[c] # "done"
    BY <1>p, <2>1
  <2>. QED BY <1>2, <2>1, <2>2, <2>3 DEF Owned
<1>5. CASE W!Clean(c)
  <2>1. tmp' = [tmp EXCEPT ![At[c]] =
                  [x \in W!Name |-> IF x \in W!CleanScript(c) THEN None ELSE tmp[At[c]][x]]]
    BY <1>5 DEF W!Clean
  <2>2. ASSUME NEW n \in Node, NEW name \in W!Name, tmp'[n][name] # None
        PROVE  tmp'[n][name] = tmp[n][name]
    BY <1>1, <2>1, <2>2 DEF WorkerTypes
  <2>. QED BY <1>2, <2>2 DEF Owned
<1>. QED BY <1>3, <1>4, <1>5, Changes

\* A child that is alone was alone before.
LEMMA AloneBefore ==
  ASSUME W!JobsAreSound, WorkerInv, NEW c \in Request, Moves(c), NEW r \in Request, W!Alone(r)'
  PROVE  W!Alone(r)
<1>1. \A q \in Request : seed[q] \in Nat /\ (seed[q] = 0 \/ seed'[q] = seed[q])
  <2>1. ASSUME NEW q \in Request PROVE seed[q] \in Nat /\ (seed[q] = 0 \/ seed'[q] = seed[q])
    <3>1. seed[q] \in Nat /\ WorkerTypes
      BY DEF WorkerInv, WorkerTypes
    <3>2. CASE q # c
      BY <3>1, <3>2, OthersStay
    <3>3. CASE UNCHANGED W!nameVars
      BY <3>1, <3>3 DEF W!nameVars
    <3>4. CASE q = c /\ (W!NamePre(c) \/ W!NameScript(c))
      <4>1. PICK name \in W!Name : seed[c] \in {0, name[1]} /\ seed' = [seed EXCEPT ![c] = name[1]]
        BY <3>4, NameTaken
      <4>. QED BY <3>1, <3>4, <4>1 DEF WorkerTypes
    <3>. QED BY <3>1, <3>2, <3>3, <3>4, Changes
  <2>. QED BY <2>1
<1>2. ASSUME NEW q \in Request \ {r}, At[q] = At[r], seed[q] # 0
      PROVE  seed[q] # seed[r]
  <2>1. seed'[q] = seed[q]
    BY <1>1, <1>2
  <2>2. seed'[q] # seed'[r]
    BY <1>2, <2>1 DEF W!Alone
  <2>. QED BY <1>1, <1>2, <2>1, <2>2
<1>. QED BY <1>2 DEF W!Alone

\* Another child does not touch the files of one that is alone.
LEMMA OthersApart ==
  ASSUME W!JobsAreSound, WorkerInv, NEW c \in Request, Moves(c), NEW r \in Request, r # c, W!Alone(r),
         NEW name \in {script[r], pre[r]} \ {None}
  PROVE  tmp'[At[r]][name] = tmp[At[r]][name]
<1>1. WorkerTypes /\ Named(r) /\ Named(c) /\ NamesAt(c) /\ Fetching(c)
  BY DEF WorkerInv
<1>2. /\ At[r] \in Node /\ At[c] \in Node /\ tmp \in [Node -> [W!Name -> Content]]
      /\ script[r] \in W!Name \cup {None} /\ pre[r] \in W!Name \cup {None}
      /\ script[c] \in W!Name \cup {None} /\ pre[c] \in W!Name \cup {None}
  BY <1>1, Requests DEF WorkerTypes
<1>3. ASSUME NEW own \in {script[c], pre[c]} \ {None}, At[c] = At[r]
      PROVE  own # name
  <2>1. own[1] = seed[c] /\ name[1] = seed[r] /\ own \in W!Name
    BY <1>1, <1>2 DEF Named
  <2>2. own[1] # 0
    BY <2>1, Names
  <2>3. seed[c] # seed[r]
    BY <1>3, <2>1, <2>2 DEF W!Alone
  <2>. QED BY <2>1, <2>3
<1>4. name \in W!Name
  BY <1>2
<1>5. CASE tmp' = tmp
  BY <1>5
<1>6. CASE W!CreateScript(c) \/ W!MergeFiles(c)
  <2>1. PICK own \in {script[c], pre[c]} \ {None} : \E x : tmp' = [tmp EXCEPT ![At[c]][own] = x]
    <3>1. CASE W!CreateScript(c)
      <4>1. script[c] # None
        BY <1>1, <3>1 DEF NamesAt, W!CreateScript
      <4>. QED BY <3>1, <4>1 DEF W!CreateScript, W!Put
    <3>2. CASE W!MergeFiles(c)
      <4>1. pre[c] # None
        BY <1>1, <3>2 DEF NamesAt, W!MergeFiles
      <4>. QED BY <3>2, <4>1 DEF W!MergeFiles, W!Put
    <3>. QED BY <1>6, <3>1, <3>2
  <2>2. PICK x : tmp' = [tmp EXCEPT ![At[c]][own] = x]
    BY <2>1
  <2>3. tmp' = [tmp EXCEPT ![At[c]] = [tmp[At[c]] EXCEPT ![own] = x]]
    BY <2>2
  <2>4. CASE At[c] # At[r]
    BY <1>2, <2>3, <2>4
  <2>5. CASE At[c] = At[r]
    <3>1. tmp'[At[r]] = [tmp[At[r]] EXCEPT ![own] = x] /\ tmp[At[r]] \in [W!Name -> Content]
      BY <1>2, <2>3, <2>5
    <3>2. own # name
      BY <1>3, <2>5
    <3>. QED BY <1>4, <3>1, <3>2
  <2>. QED BY <2>4, <2>5
<1>7. CASE W!Clean(c)
  <2>1. tmp' = [tmp EXCEPT ![At[c]] =
                  [x \in W!Name |-> IF x \in W!CleanScript(c) THEN None ELSE tmp[At[c]][x]]]
    BY <1>7 DEF W!Clean
  <2>2. At[c] = At[r] => name \notin W!CleanScript(c)
    BY <1>3 DEF W!CleanScript
  <2>. QED BY <1>2, <1>4, <2>1, <2>2
<1>. QED BY <1>5, <1>6, <1>7, Changes

\* A reduction writes what it was asked for when it finds what it wrote.
LEMMA RunsRight ==
  ASSUME W!JobsAreSound, WorkerInv, NEW r \in Request, W!Run(r), W!Alone(r)
  PROVE  output' = [output EXCEPT ![r] = [by |-> r, lines |-> W!Wanted(r)]]
<1>1. WorkerTypes /\ NamesAt(r) /\ Progress(r) /\ Undisturbed(r) /\ child[r] = "run"
  BY DEF WorkerInv, W!Run
<1>2. /\ Op[r] \in {"transform", "local", "global"} /\ Len(W!Ins(r)) \in Nat
      /\ DOMAIN W!Ins(r) = 1 .. Len(W!Ins(r))
      /\ Op[r] = "transform" => W!Slice(r) = SubSeq(DataBin[At[r]], Block[r] * BlockSize + 1,
                                                  Block[r] * BlockSize + Bytes[r])
  <2>1. Op[r] # "store"
    BY <1>1 DEF Progress, Early
  <2>. QED BY <1>1, <2>1, Requests
<1>3. tmp[At[r]][script[r]] = W!Program(r)
  BY <1>1 DEF Undisturbed
<1>4. output' = [output EXCEPT ![r] = [by |-> r,
                   lines |-> IF Op[r] = "transform" THEN W!Sorted(W!Filter(r, W!Slice(r)))
                             ELSE W!Filter(r, W!Input(r))]]
  <2>1. W!Program(r).is = "program" /\ W!Program(r).of = r
    BY DEF W!Program
  <2>2. W!Program(r) # None
    BY DEF W!JobsAreSound
  <2>. HIDE DEF W!Program
  <2>. QED BY <1>3, <2>1, <2>2 DEF W!Run
<1>. DEFINE files == InputFiles(r)
<1>5. files \in Seq(OrderedLines) /\ Len(files) = Len(W!Ins(r)) /\ files \in Files
      /\ \A i \in 1 .. Len(files) : files[i] \in Seq(Nat) /\ Ascends(files[i])
  BY <1>1, InputsThere, OrderedMade
<1>6. Op[r] = "transform" => W!Wanted(r) = W!Sorted(W!Filter(r, W!Slice(r)))
  BY <1>2 DEF W!Wanted
<1>7. Op[r] # "transform" => W!Wanted(r) = W!Sorted(W!Filter(r, FlattenSeq(files)))
  BY WorkersOperators DEF W!Wanted, InputFiles
<1>8. CASE Op[r] = "transform"
  BY <1>4, <1>6, <1>8
<1>9. CASE Op[r] # "transform"
  <2>1. W!Filter(r, W!Input(r)) = W!Sorted(W!Filter(r, FlattenSeq(files)))
    <3>1. CASE pre[r] = None
      <4>1. Len(W!Ins(r)) = 1
        BY <1>1, <1>2, <1>9, <3>1 DEF NamesAt
      <4>2. files = <<files[1]>> /\ files[1] \in Seq(Nat) /\ Ascends(files[1])
        <5>. HIDE DEF files
        <5>. QED BY <1>5, <4>1
      <4>3. W!Input(r) = files[1]
        BY <1>2, <3>1, <4>1 DEF W!Input, InputFiles
      <4>. HIDE DEF files
      <4>4. W!Keep(job.program[r], files[1]) = W!Sorted(W!Keep(job.program[r], FlattenSeq(<<files[1]>>)))
        BY <4>2, KeepSingle
      <4>. QED BY <4>2, <4>3, <4>4 DEF W!Filter
    <3>2. CASE pre[r] # None
      <4>1. tmp[At[r]][pre[r]] = W!Data(W!Merge[files])
        BY <1>1, <3>2 DEF Undisturbed
      <4>. HIDE DEF files
      <4>2. W!Data(W!Merge[files]).is = "data" /\ W!Data(W!Merge[files]).lines = W!Merge[files]
        BY DEF W!Data
      <4>3. W!Data(W!Merge[files]) # None
        <5>1. W!Merge[files] \in Seq(Nat)
          BY <1>5, OrderedMade DEF OrderedLines
        <5>. QED BY <5>1 DEF W!JobsAreSound, W!Data
      <4>4. W!Input(r) = W!Merge[files]
        BY <3>2, <4>1, <4>2, <4>3 DEF W!Input
      <4>5. W!Keep(job.program[r], W!Merge[files]) = W!Sorted(W!Keep(job.program[r], FlattenSeq(files)))
        BY <1>5, KeepMerged
      <4>. QED BY <4>4, <4>5 DEF W!Filter
    <3>. QED BY <3>1, <3>2
  <2>. QED BY <1>4, <1>7, <1>9, <2>1
<1>. QED BY <1>8, <1>9

\* A step keeps what a child that is alone finds.
LEMMA UndisturbedStep ==
  ASSUME W!JobsAreSound, WorkerInv, NEW c \in Request, Moves(c), NEW r \in Request
  PROVE  Undisturbed(r)'
<1>1. SUFFICES ASSUME W!Alone(r)'
               PROVE  /\ child'[r] \in {"fetch", "receive", "merge", "check", "run"}
                           \/ (child'[r] = "pre" /\ Op[r] = "global") =>
                         tmp'[At[r]][script'[r]] = W!Program(r)
                      /\ child'[r] \in {"check", "run"} /\ pre'[r] # None =>
                           tmp'[At[r]][pre'[r]] = W!Data(W!Merge[InputFiles(r)'])
                      /\ child'[r] = "ran" \/ (child'[r] = "clean" /\ resp'[r] = "ok") =>
                           output'[r] = [by |-> r, lines |-> W!Wanted(r)']
  BY DEF Undisturbed, W!Program, W!Data
<1>2. W!Alone(r)
  BY <1>1, AloneBefore
<1>3. WorkerTypes /\ Undisturbed(r) /\ NamesAt(r) /\ Fetching(r) /\ Progress(r) /\ Named(r)
  BY DEF WorkerInv
<1>4. /\ At[r] \in Node /\ Op[r] \in {"transform", "local", "global", "store"}
      /\ Len(W!Ins(r)) \in Nat
  BY <1>3, Requests
<1>5. child[r] \notin {"never", "unsent"} => InputFiles(r)' = InputFiles(r) /\ W!Wanted(r)' = W!Wanted(r)
  <2>1. ASSUME child[r] \notin {"never", "unsent"}
        PROVE  InputFiles(r)' = InputFiles(r)
    BY <2>1, InputsStay
  <2>2. job' = job
    BY Changes
  <2>. DEFINE lines(files) == IF Op[r] = "transform"
                              THEN SubSeq(DataBin[At[r]], Block[r] * BlockSize + 1,
                                          Block[r] * BlockSize + Bytes[r])
                              ELSE FlattenSeq(files)
  <2>3. W!Wanted(r) = W!Sorted(W!Keep(job.program[r], lines(InputFiles(r))))
    BY WorkersOperators DEF W!Wanted, InputFiles, W!Filter
  <2>4. W!Wanted(r)' = W!Sorted(W!Keep(job'.program[r], lines(InputFiles(r)')))
    BY WorkersOperators DEF W!Wanted, InputFiles, W!Filter
  <2>. HIDE DEF lines
  <2>. QED BY <2>1, <2>2, <2>3, <2>4
<1>6. CASE r # c
  <2>1. /\ child'[r] = child[r] /\ script'[r] = script[r] /\ pre'[r] = pre[r]
        /\ resp'[r] = resp[r] /\ output'[r] = output[r]
    BY <1>3, <1>6, OthersStay
  <2>2. \A name \in {script[r], pre[r]} \ {None} : tmp'[At[r]][name] = tmp[At[r]][name]
    BY <1>2, <1>6, OthersApart
  <2>3. child[r] \in {"fetch", "receive", "merge", "check", "run"} \/ (child[r] = "pre" /\ Op[r] = "global")
          => script[r] # None
    BY <1>3 DEF NamesAt
  <2>. QED BY <1>2, <1>3, <1>5, <2>1, <2>2, <2>3 DEF Undisturbed
<1>7. CASE r = c
  <2>p. /\ child = [q \in Request |-> child[q]] /\ resp = [q \in Request |-> resp[q]]
        /\ output = [q \in Request |-> output[q]] /\ script = [q \in Request |-> script[q]]
        /\ pre = [q \in Request |-> pre[q]] /\ tmp \in [Node -> [W!Name -> Content]]
        /\ script[r] \in W!Name \cup {None} /\ pre[r] \in W!Name \cup {None}
    BY <1>3 DEF WorkerTypes
  <2>1. CASE W!Send(c) \/ W!Fork(c)
    <3>1. child'[r] = "queued" \/ (child'[r] \in {"map", "script"}) \/ (child'[r] = "pre" /\ Op[r] = "local")
      BY <1>7, <2>p, <2>1 DEF W!Send, W!Fork, W!Goto
    <3>. QED BY <3>1
  <2>2. CASE W!NamePre(c)
    <3>1. /\ child'[r] = IF Op[r] = "local" THEN "script" ELSE "fetch"
          /\ child[r] = "pre" /\ tmp' = tmp /\ script' = script
      BY <1>7, <2>p, <2>2 DEF W!NamePre, W!Goto
    <3>2. Op[r] = "local" \/ Op[r] = "global"
      BY <1>3, <3>1 DEF NamesAt
    <3>. QED BY <1>2, <1>3, <3>1, <3>2 DEF Undisturbed
  <2>3. CASE W!NameScript(c)
    <3>1. child'[r] = "create"
      BY <1>7, <2>p, <2>3 DEF W!NameScript, W!Goto
    <3>. QED BY <3>1
  <2>4. CASE W!CreateScript(c)
    <3>1. /\ child'[r] = CASE Op[r] = "transform" -> "check"
                        [] Op[r] = "local" -> "merge"
                        [] OTHER -> IF Len(W!Ins(r)) > 1 THEN "pre" ELSE "check"
          /\ tmp' = [tmp EXCEPT ![At[r]][script[r]] = W!Program(r)]
          /\ child[r] = "create" /\ script' = script /\ pre' = pre
      BY <1>7, <2>p, <2>4 DEF W!CreateScript, W!Put, W!Goto, W!nameVars
    <3>2. script[r] \in W!Name /\ (pre[r] = None <=> Op[r] # "local")
      BY <1>3, <2>p, <3>1 DEF NamesAt
    <3>3. tmp'[At[r]][script'[r]] = W!Program(r)
      <4>1. tmp' = [tmp EXCEPT ![At[r]] = [tmp[At[r]] EXCEPT ![script[r]] = W!Program(r)]]
        BY <3>1
      <4>2. tmp'[At[r]] = [tmp[At[r]] EXCEPT ![script[r]] = W!Program(r)] /\ tmp[At[r]] \in [W!Name -> Content]
        BY <1>4, <2>p, <4>1
      <4>. QED BY <3>1, <3>2, <4>2
    <3>. QED BY <3>1, <3>2, <3>3
  <2>5. CASE W!OwnFile(c) \/ W!Connect(c) \/ W!Serve(c) \/ W!ServeFails(c)
    <3>1. /\ child[r] \in {"fetch", "receive"} /\ child'[r] \in {"fetch", "receive", "merge", "exit", "stuck"}
          /\ tmp' = tmp /\ script' = script
      BY <1>7, <2>p, <2>5 DEF W!OwnFile, W!Connect, W!Serve, W!ServeFails, W!Fetched, W!Goto, W!nameVars
    <3>. QED BY <1>2, <1>3, <3>1 DEF Undisturbed
  <2>6. CASE W!MergeFiles(c)
    <3>1. /\ child[r] = "merge" /\ child'[r] = "check" /\ script' = script /\ pre' = pre
          /\ tmp' = [tmp EXCEPT ![At[r]][pre[r]] =
                       W!Data(W!Merge[IF Op[r] = "local" THEN InputFiles(r) ELSE fetched[r]])]
      BY <1>7, <2>p, <2>6 DEF W!MergeFiles, W!Put, W!Goto, W!nameVars, InputFiles
    <3>2. (IF Op[r] = "local" THEN InputFiles(r) ELSE fetched[r]) = InputFiles(r)
      BY <1>3, <3>1 DEF Fetching
    <3>3. /\ script[r] \in W!Name /\ pre[r] \in W!Name /\ script[r] # pre[r]
          /\ tmp[At[r]][script[r]] = W!Program(r)
      BY <1>2, <1>3, <2>p, <3>1 DEF NamesAt, Named, Undisturbed
    <3>. DEFINE x == W!Data(W!Merge[InputFiles(r)])
    <3>4. tmp' = [tmp EXCEPT ![At[r]] = [tmp[At[r]] EXCEPT ![pre[r]] = x]]
      BY <3>1, <3>2
    <3>5. x = W!Data(W!Merge[InputFiles(r)']) /\ child'[r] = "check"
      BY <1>5, <3>1
    <3>. HIDE DEF x
    <3>6. tmp'[At[r]] = [tmp[At[r]] EXCEPT ![pre[r]] = x] /\ tmp[At[r]] \in [W!Name -> Content]
      BY <1>4, <2>p, <3>4
    <3>7. tmp'[At[r]][pre[r]] = x /\ tmp'[At[r]][script[r]] = W!Program(r)
      BY <3>3, <3>6
    <3>. QED BY <3>1, <3>5, <3>7
  <2>7. CASE W!Check(c)
    <3>1. /\ child[r] = "check" /\ child'[r] \in {"failed", "run"} /\ tmp' = tmp /\ script' = script
          /\ pre' = pre
      BY <1>7, <2>p, <2>7 DEF W!Check, W!Goto, W!nameVars
    <3>. QED BY <1>2, <1>3, <1>5, <3>1 DEF Undisturbed
  <2>8. CASE W!Run(c)
    <3>1. child'[r] \in {"ran", "failed"} /\ child[r] = "run"
      BY <1>7, <2>p, <2>8 DEF W!Run, W!Goto
    <3>2. output' = [output EXCEPT ![r] = [by |-> r, lines |-> W!Wanted(r)]]
      BY <1>2, <1>7, <2>8, RunsRight
    <3>3. output'[r] = [by |-> r, lines |-> W!Wanted(r)']
      BY <1>5, <2>p, <3>1, <3>2
    <3>. QED BY <3>1, <3>3
  <2>9. CASE W!Answer(c)
    <3>1. /\ child'[r] = "clean" /\ child[r] \in {"ran", "failed"} /\ output' = output
          /\ resp'[r] = IF child[r] = "ran" THEN "ok" ELSE "error"
      BY <1>7, <2>p, <2>9 DEF W!Answer, W!AnswersError, W!Goto, W!fileVars
    <3>. QED BY <1>2, <1>3, <1>5, <3>1 DEF Undisturbed
  <2>10. CASE W!Clean(c) \/ W!MapResult(c) \/ W!Offer(c)
    <3>1. child'[r] \in {"done", "offer", "exit"}
      BY <1>7, <2>p, <2>10 DEF W!Clean, W!MapResult, W!Offer, W!Goto
    <3>. QED BY <3>1
  <2>. QED BY <1>7, <2>1, <2>2, <2>3, <2>4, <2>5, <2>6, <2>7, <2>8, <2>9, <2>10 DEF Moves, W!Child
<1>. QED BY <1>6, <1>7

\* In the first state no request has been served.
LEMMA WorkerStart == ASSUME W!JobsAreSound, W!Init PROVE WorkerInv
<1>. USE DEF W!Init
<1>1. WorkerTypes
  <2>1. job \in Jobs /\ \A x \in {"never", "unsent"} : x \in Labels
    BY DEF Labels, Early
  <2>2. None \in Content /\ <<>> \in Seq(OrderedLines)
    BY DEF Content
  <2>. QED BY <2>1, <2>2 DEF WorkerTypes
<1>2. Owned
  BY DEF Owned
<1>3. ASSUME NEW r \in Request
      PROVE  /\ script[r] = None /\ pre[r] = None /\ peer[r] = 1 /\ fetched[r] = <<>> /\ resp[r] = "none"
             /\ child[r] \in {"never", "unsent"} /\ (child[r] # "never" => r \in job.sent)
  OBVIOUS
<1>4. ASSUME NEW r \in Request
      PROVE  Named(r) /\ NamesAt(r) /\ Fetching(r) /\ Progress(r) /\ Undisturbed(r)
  <2>1. Named(r)
    BY <1>3 DEF Named
  <2>. DEFINE label == child[r]
  <2>2. NamesAt(r) /\ Fetching(r)
    BY <1>3 DEF NamesAt, Fetching
  <2>3. Progress(r)
    BY <1>3 DEF Progress, Early
  <2>4. Undisturbed(r)
    BY <1>3 DEF Undisturbed
  <2>. QED BY <2>1, <2>2, <2>3, <2>4
<1>. QED BY <1>1, <1>2, <1>4 DEF WorkerInv

\* The invariant is inductive.
LEMMA WorkerStep == ASSUME W!JobsAreSound, WorkerInv, [W!Next]_W!vars PROVE WorkerInv'
<1>1. CASE \E c \in Request : Moves(c)
  <2>1. PICK c \in Request : Moves(c)
    BY <1>1
  <2>2. WorkerTypes'
    BY <2>1, WorkerTypesStep DEF W!Next, Moves
  <2>. QED BY <2>1, <2>2, NamedStep, NamesAtStep, FetchingStep, ProgressStep, OwnedStep,
             UndisturbedStep DEF WorkerInv
<1>2. CASE UNCHANGED <<job, child, W!nameVars, peer, fetched, tmp, W!fileVars, resp>>
  <2>. USE <1>2 DEF W!nameVars, W!fileVars
  <2>1. WorkerTypes' /\ Owned'
    <3>1. WorkerTypes'
      BY DEF WorkerInv, WorkerTypes
    <3>2. Owned'
      BY DEF WorkerInv, Owned
    <3>. QED BY <3>1, <3>2
  <2>2. ASSUME NEW r \in Request
        PROVE  /\ Named(r)' /\ NamesAt(r)' /\ Progress(r)'
               /\ Fetching(r)' /\ Undisturbed(r)'
    <3>1. Named(r) /\ NamesAt(r) /\ Fetching(r) /\ Progress(r) /\ Undisturbed(r)
      BY DEF WorkerInv
    <3>2. Named(r)' /\ NamesAt(r)' /\ Progress(r)'
      BY <3>1 DEF Named, NamesAt, Progress, W!Ins
    <3>3. InputFiles(r)' = InputFiles(r) /\ W!Ins(r)' = W!Ins(r)
      BY DEF InputFiles, W!Ins
    <3>4. Fetching(r)'
      BY <3>1, <3>3 DEF Fetching
    <3>5. W!Alone(r)' <=> W!Alone(r)
      BY DEF W!Alone
    <3>6. W!Wanted(r)' = W!Wanted(r)
      BY DEF W!Wanted, W!Filter, W!Ins
    <3>7. Undisturbed(r)'
      BY <3>1, <3>3, <3>5, <3>6 DEF Undisturbed, W!Program, W!Data
    <3>. QED BY <3>2, <3>4, <3>7
  <2>. QED BY <2>1, <2>2 DEF WorkerInv
<1>. QED BY <1>1, <1>2, Steps

\* A child that has finished, alone with its names, has left no temporary file.
LEMMA NothingIsLeft == ASSUME W!JobsAreSound, WorkerInv PROVE W!NothingLeft
<1>1. SUFFICES ASSUME NEW r \in Request, child[r] = "done", W!Alone(r), NEW name \in W!Name,
                      name[1] = seed[r], tmp[At[r]][name] # None
               PROVE  FALSE
  BY DEF W!NothingLeft
<1>2. Owned /\ WorkerTypes /\ At[r] \in Node
  BY Requests DEF WorkerInv
<1>3. PICK q \in Request : At[q] = At[r] /\ child[q] # "done" /\ name \in {script[q], pre[q]}
  BY <1>1, <1>2 DEF Owned
<1>4. name # None /\ name[1] # 0
  BY Names
<1>5. name[1] = seed[q]
  <2>1. Named(q)
    BY DEF WorkerInv
  <2>. QED BY <1>3, <1>4, <2>1 DEF Named
<1>. QED BY <1>1, <1>3, <1>4, <1>5 DEF W!Alone

\* What is answered OK is right.
LEMMA ResultsAreRight == ASSUME W!JobsAreSound, WorkerInv PROVE W!ResultsRight
<1>1. ASSUME NEW r \in Request
      PROVE  Undisturbed(r) /\ Progress(r)
  BY DEF WorkerInv
<1>. QED BY <1>1 DEF Undisturbed, Progress, W!ResultsRight


\* What the Workers' part of a behaviour keeps.
WorkersPart == part = "workers" => WorkerInv
LEMMA WorkersPartKept == BothSpec => []WorkersPart
<1>1. W!JobsAreSound
  BY WorkerAssumption
<1>2. BothInit => WorkersPart
  BY <1>1, WorkerStart DEF BothInit, WorkersPart
<1>3. ASSUME WorkersPart, [BothNext]_<<vars, workerVars, part>>
      PROVE  WorkersPart'
  <2>1. SUFFICES ASSUME part' = "workers" PROVE WorkerInv'
    BY DEF WorkersPart
  <2>2. part = "workers" /\ [W!Next]_W!vars
    BY <1>3, <2>1 DEF BothNext, workerVars, W!vars, W!nameVars, W!fileVars
  <2>. QED BY <1>1, <1>3, <2>2, WorkerStep DEF WorkersPart
<1>. QED BY <1>2, <1>3, PTL DEF BothSpec

\* A Worker's child that has finished has left none of its temporary files,
\* unless another one of its Worker took its names from the same second
\* (path_temp, path_remove).
THEOREM WorkersLeaveNothing == BothSpec => []NothingLeft
<1>1. WorkersPart => NothingLeft
  BY WorkerAssumption, NothingIsLeft DEF WorkersPart, NothingLeft
<1>. QED BY <1>1, WorkersPartKept, PTL

\* What a request was answered OK for is what its own program makes of the lines
\* of its block, or of all of its inputs, in order (block_transform,
\* reducir_path, path_merge), when its child has its names alone; and what was
\* stored is the result of the last reduction.
THEOREM WorkersProduce == BothSpec => []ResultsRight
<1>1. WorkersPart => ResultsRight
  BY WorkerAssumption, ResultsAreRight DEF WorkersPart, ResultsRight
<1>. QED BY <1>1, WorkersPartKept, PTL
=============================================================================
