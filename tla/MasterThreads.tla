---------------------------- MODULE MasterThreads ---------------------------
(***************************************************************************)
(* The threads of a Master while it transforms (manejadores.c,             *)
(* funcionesMaster.c): the main thread creates one for each block, which   *)
(* asks the Worker, waits and answers to YAMA.  A thread that finds its    *)
(* Worker lost tells the thread node_drop, which kills the others that     *)
(* work on that node and lets it go on, so that YAMA is told once.  The    *)
(* threads share the list hilos, its mutex, the semaphore sem, the mailbox *)
(* of node_drop and the socket to YAMA (Shared/thread.c, protocol.c).      *)
(***************************************************************************)
EXTENDS Integers, Sequences, FiniteSets

CONSTANTS
  NumHilos,  \* blocks of the list that YAMA sent
  Node,      \* the Workers' nodes
  NodoDe,    \* NodoDe[h]: the node of block h
  Limit,     \* the initial value of sem: 30
  MaxLost,   \* bound: Workers lost
  NoHilo     \* no thread

Hilo == 1 .. NumHilos

ASSUME MasterAssumption ==
  /\ NumHilos \in Nat /\ Limit \in Nat \ {0} /\ MaxLost \in Nat
  /\ NodoDe \in [Hilo -> Node] /\ NoHilo \notin Hilo

VARIABLES
  pc,       \* the control point of each thread
  response, \* what the Worker answered it, 0 or -1
  listed, active, \* it is in hilos, and its field active
  alive,    \* the field active of its thread_t: it was not killed
  sleep,    \* its sem_sleep
  created, toList, \* threads created, and the one to put in hilos
  mutex,    \* mutex_hilos: "free" or "node_drop"
  sem,      \* threads that may still be created
  sem_send, sem_recv, sender, data, \* the mailbox of node_drop
  dpc, got, who, victims, \* control point and locals of node_drop
  yama,     \* what was written to the socket to YAMA: headers and contents
  up,       \* the Workers that answer
  crashed   \* actualizar_hilo did not find its thread in hilos

threadVars == <<pc, response, alive, sleep>>
listVars   == <<listed, active>>
mainVars   == <<created, toList>>
boxVars    == <<sem_send, sem_recv, sender, data>>
dropVars   == <<mutex, dpc, got, who, victims>>
vars == <<threadVars, listVars, mainVars, boxVars, dropVars, sem, yama, up, crashed>>
-----------------------------------------------------------------------------
Init ==
  /\ pc = [h \in Hilo |-> "none"] /\ response = [h \in Hilo |-> 0]
  /\ listed = [h \in Hilo |-> FALSE] /\ active = [h \in Hilo |-> TRUE]
  /\ alive = [h \in Hilo |-> TRUE] /\ sleep = [h \in Hilo |-> 0]
  /\ created = 0 /\ toList = NoHilo
  /\ sem = Limit /\ mutex = "free"
  /\ sem_send = 1 /\ sem_recv = 0 /\ sender = NoHilo /\ data \in Node
  /\ dpc = "receive" /\ got = data /\ who = NoHilo /\ victims = {}
  /\ yama = <<>> /\ up = Node /\ crashed = FALSE

Goto(h, label) == pc' = [pc EXCEPT ![h] = label]
-----------------------------------------------------------------------------
(* The main thread: etapa_transformacion.                                  *)

Create ==
  /\ toList = NoHilo /\ created < NumHilos /\ sem > 0
  /\ sem' = sem - 1 /\ created' = created + 1 /\ toList' = created + 1
  /\ Goto(created + 1, "connect")
  /\ UNCHANGED <<response, alive, sleep, listVars, boxVars, dropVars, yama, up, crashed>>

\* The thread runs already.
PutInList ==
  /\ toList # NoHilo /\ mutex = "free"
  /\ listed' = [listed EXCEPT ![toList] = TRUE] /\ toList' = NoHilo
  /\ UNCHANGED <<threadVars, active, created, boxVars, dropVars, sem, yama, up, crashed>>
-----------------------------------------------------------------------------
(* A thread: manejador_transformacion and finalizar_manejador_transf.      *)

\* It goes on with the result r, unless it was killed.
Continue(h, r, label) ==
  /\ response' = [response EXCEPT ![h] = r]
  /\ Goto(h, IF alive[h] THEN label ELSE "exited")
  /\ UNCHANGED <<alive, sleep, listVars, mainVars, boxVars, dropVars, sem, yama, up, crashed>>

Connect(h) ==
  /\ pc[h] = "connect"
  /\ IF NodoDe[h] \in up THEN Continue(h, 0, "wait") ELSE Continue(h, -1, "send")

\* The Worker answers, the connection breaks, or a signal interrupts.
Receive(h) ==
  /\ pc[h] = "wait"
  /\ IF NodoDe[h] \in up THEN Continue(h, 0, "finish") ELSE Continue(h, -1, "send")

\* thread_send to node_drop: a thread interrupted while it waits for room goes
\* on as if there were.
Send(h) ==
  /\ pc[h] \in {"send", "push"}
  /\ IF pc[h] = "push" THEN UNCHANGED sem_send
     ELSE sem_send > 0 /\ sem_send' = sem_send - 1
  /\ sender' = h /\ data' = NodoDe[h] /\ sem_recv' = sem_recv + 1
  /\ Goto(h, "suspend")
  /\ UNCHANGED <<response, alive, sleep, listVars, mainVars, dropVars, sem, yama, up, crashed>>

Suspend(h) ==
  /\ pc[h] = "suspend" /\ sleep[h] > 0
  /\ sleep' = [sleep EXCEPT ![h] = @ - 1]
  /\ Goto(h, IF alive[h] THEN "finish" ELSE "exited")
  /\ UNCHANGED <<response, alive, listVars, mainVars, boxVars, dropVars, sem, yama, up, crashed>>

\* actualizar_hilo, in the mutex.
MayFinish_M(h) == TRUE
MayFinish(h) == mutex = "free"
Finish(h) ==
  /\ pc[h] = "finish" /\ MayFinish(h)
  /\ IF listed[h] /\ active[h]
     THEN /\ active' = [active EXCEPT ![h] = FALSE]
          /\ Goto(h, "header") /\ UNCHANGED crashed
     ELSE crashed' = TRUE /\ UNCHANGED <<active, pc>>
  /\ UNCHANGED <<response, alive, sleep, listed, mainVars, boxVars, dropVars, sem, yama, up>>

\* enviar_resultado_yama: two writes on the socket.
Write(h, part) == yama' = Append(yama, [hilo |-> h, part |-> part])
SendHeader(h) ==
  /\ pc[h] = "header" /\ Write(h, "header") /\ Goto(h, "content")
  /\ UNCHANGED <<response, alive, sleep, listVars, mainVars, boxVars, dropVars, sem, up, crashed>>
SendContent_M(h) ==
  /\ pc[h] = "content" /\ Write(h, "content") /\ Goto(h, "exited")
  /\ UNCHANGED <<response, alive, sleep, listVars, mainVars, boxVars, dropVars, sem, up, crashed>>
SendContent(h) ==
  /\ pc[h] = "content" /\ Write(h, "content") /\ Goto(h, "exited")
  /\ sem' = sem + 1
  /\ UNCHANGED <<response, alive, sleep, listVars, mainVars, boxVars, dropVars, up, crashed>>

Step(h) ==
  \/ Connect(h) \/ Receive(h) \/ Send(h) \/ Suspend(h)
  \/ Finish(h) \/ SendHeader(h) \/ SendContent(h)
-----------------------------------------------------------------------------
(* The thread node_drop.                                                   *)

DropReceive ==
  /\ dpc = "receive" /\ sem_recv > 0
  /\ got' = data /\ sem_recv' = sem_recv - 1 /\ sem_send' = sem_send + 1
  /\ dpc' = "lock"
  /\ UNCHANGED <<threadVars, listVars, mainVars, sender, data, mutex, who, victims,
                 sem, yama, up, crashed>>

\* Whom to kill: the message's sender is read after its data.
Others_M(n, h) == {k \in Hilo : listed[k] /\ NodoDe[k] = n /\ k # h}
Others(n, h)   == {k \in Hilo : listed[k] /\ active[k] /\ NodoDe[k] = n /\ k # h}
DropScan ==
  /\ dpc = "lock" /\ mutex = "free"
  /\ IF listed[sender] /\ active[sender]
     THEN /\ mutex' = "node_drop" /\ who' = sender /\ victims' = Others(got, sender)
          /\ dpc' = IF Others(got, sender) = {} THEN "resume" ELSE "kill"
     ELSE dpc' = "receive" /\ UNCHANGED <<mutex, who, victims>>
  /\ UNCHANGED <<threadVars, listVars, mainVars, boxVars, got, sem, yama, up, crashed>>

\* kill_thread, the first of them: the signal interrupts a semaphore's wait, or
\* comes before it and is lost.
Victim == CHOOSE h \in victims : \A k \in victims : h <= k
DropKill ==
  /\ dpc = "kill"
  /\ active' = [active EXCEPT ![Victim] = FALSE]
  /\ alive' = [alive EXCEPT ![Victim] = FALSE]
  /\ \/ UNCHANGED <<pc, sleep>>
     \/ pc[Victim] = "send" /\ Goto(Victim, "push") /\ UNCHANGED sleep
     \/ pc[Victim] = "suspend" /\ sleep' = [sleep EXCEPT ![Victim] = @ + 1] /\ UNCHANGED pc
  /\ dpc' = "join"
  /\ UNCHANGED <<response, listed, mainVars, boxVars, mutex, got, who, victims, sem,
                 yama, up, crashed>>

\* What kill_thread gives back when the thread has ended.
Freed_M == 0
Freed == 1
DropJoin ==
  /\ dpc = "join" /\ pc[Victim] = "exited"
  /\ sem' = sem + Freed /\ victims' = victims \ {Victim}
  /\ dpc' = IF victims = {Victim} THEN "resume" ELSE "kill"
  /\ UNCHANGED <<threadVars, listVars, mainVars, boxVars, mutex, got, who, yama, up, crashed>>

DropResume ==
  /\ dpc = "resume"
  /\ sleep' = [sleep EXCEPT ![who] = @ + 1]
  /\ mutex' = "free" /\ dpc' = "receive"
  /\ UNCHANGED <<pc, response, alive, listVars, mainVars, boxVars, got, who, victims,
                 sem, yama, up, crashed>>

Drop == DropReceive \/ DropScan \/ DropKill \/ DropJoin \/ DropResume
-----------------------------------------------------------------------------
WorkerLost(n) ==
  /\ n \in up /\ Cardinality(Node \ up) < MaxLost /\ up' = up \ {n}
  /\ UNCHANGED <<threadVars, listVars, mainVars, boxVars, dropVars, sem, yama, crashed>>

Next ==
  \/ ~crashed /\ (Create \/ PutInList \/ Drop \/ \E h \in Hilo : Step(h))
  \/ \E n \in Node : ~crashed /\ WorkerLost(n)

Spec == Init /\ [][Next]_vars

\* The system runs every thread that can run, and a Worker answers or its
\* connection breaks.
FairSpec ==
  /\ Spec /\ WF_vars(~crashed /\ (Create \/ PutInList)) /\ WF_vars(~crashed /\ Drop)
  /\ \A h \in Hilo : WF_vars(~crashed /\ Step(h))
-----------------------------------------------------------------------------
(* Properties.                                                             *)

TypeOK ==
  /\ pc \in [Hilo -> {"none", "connect", "wait", "send", "push", "suspend", "finish",
                      "header", "content", "exited"}]
  /\ response \in [Hilo -> {0, -1}]
  /\ listed \in [Hilo -> BOOLEAN] /\ active \in [Hilo -> BOOLEAN]
  /\ alive \in [Hilo -> BOOLEAN] /\ sleep \in [Hilo -> Nat]
  /\ created \in 0 .. NumHilos /\ toList \in Hilo \cup {NoHilo}
  /\ mutex \in {"free", "node_drop"} /\ sem \in 0 .. Limit
  /\ sem_send \in Nat /\ sem_recv \in Nat
  /\ sender \in Hilo \cup {NoHilo} /\ data \in Node
  /\ dpc \in {"receive", "lock", "kill", "join", "resume"} /\ got \in Node
  /\ who \in Hilo \cup {NoHilo} /\ victims \subseteq Hilo
  /\ yama \in Seq([hilo : Hilo, part : {"header", "content"}])
  /\ up \subseteq Node /\ crashed \in BOOLEAN

\* A thread that node_drop killed answers nothing to YAMA, before or after:
\* what it worked on is done again elsewhere.
KilledIsSilent ==
  \A h \in Hilo : ~alive[h] => \A i \in 1 .. Len(yama) : yama[i].hilo # h

\* A permit of sem is held by each thread that runs, and by one that was killed
\* until kill_thread gives it back: no more than Limit run, and none is lost.
Holders == {h \in Hilo : pc[h] \notin {"none", "exited"}}
           \cup (IF dpc = "join" THEN {Victim} ELSE {})
PermitsKept == sem + Cardinality(Holders) = Limit

\* While no Worker is lost every block of the list is answered, whatever the
\* order the threads run in.
AllAnswered ==
  [](up = Node /\ ~crashed) => \A h \in Hilo : <>(pc[h] = "exited" /\ response[h] = 0)

\* thread_kill returns: a thread that is killed ends (thread.h:86).
KillReturns == dpc = "join" ~> dpc # "join"
=============================================================================
