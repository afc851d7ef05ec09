------------------------------ MODULE JobTable ------------------------------
(***************************************************************************)
(* YAMA: its table of states and its table of loads (funcionesYAMA.c), and *)
(* its single thread, which serves the Masters' sockets (server.c).  Every *)
(* Master runs one job; what it does is the environment: it takes the      *)
(* tasks YAMA sends, and answers each, or drops those of a node that       *)
(* failed and reports one of them.  The FileSystem tells YAMA which nodes  *)
(* are active.  All jobs use one input file.                               *)
(***************************************************************************)
EXTENDS Integers, FiniteSets, Sequences, SequencesExt

CONSTANTS
  Node, NumBlocks, \* as in Assignment
  Copies,     \* Copies[b]: the nodes that keep a copy of block b
  Job,        \* the jobs, each with its Master and its socket
  None,       \* no entry of a job in a node's cargaPorJob
  AnyFails,   \* FALSE: one node fails a job's transformations, before it reduces
  MaxFaults   \* bound: tasks that fail, Masters killed, DataNodes or the file lost

INSTANCE Assignment

ASSUME JobAssumption ==
  /\ IsFiniteSet(Node) /\ IsFiniteSet(Job) /\ None \notin Int
  /\ NumBlocks \in Nat \ {0} /\ MaxFaults \in Nat /\ AnyFails \in BOOLEAN

\* The block of a state that is not a transformation.
Local  == -1
Global == -2
Final  == -3

VARIABLES
  estados,  \* listaEstados; files are the blocks a reduction's input is made of
  known,    \* the nodes of listaCargaPorNodo
  actual,   \* cargaActual of each of them
  porJob,   \* porJob[n][j]: n's entry of job j in cargaPorJob
  activos,  \* listaNodosActivos: the nodes active when YAMA last asked
  yama,     \* "running", or how it stopped
  phase,    \* phase[j]: j's Master, as its socket shows it
  told,     \* told[j]: OP_ERROR_JOB was sent to it
  tasks,    \* tasks[j]: the tasks its threads are working on
  toYama,   \* toYama[j]: its answers, not yet read
  alive, present, \* the active nodes and whether the file exists
  faults,         \* faults so far
  downs           \* of them, DataNodes or the FileSystem lost

loadVars   == <<known, actual, porJob>>
masterVars == <<phase, told, tasks, toYama>>
envVars    == <<alive, present, faults, downs>>
vars == <<estados, loadVars, activos, yama, masterVars, envVars>>
-----------------------------------------------------------------------------
Entry(j, n, b, files) ==
  [job |-> j, nodo |-> n, block |-> b, estado |-> "proceso", files |-> files]
Entries(j, todo) ==
  [i \in DOMAIN todo |-> Entry(j, todo[i].nodo, todo[i].block, {todo[i].block})]

\* The entries of job j, of them those of node n, and those not in error.
OfJob(tab, j)     == {k \in DOMAIN tab : tab[k].job = j}
OfNode(tab, j, n) == {k \in OfJob(tab, j) : tab[k].nodo = n}
Valid(tab, S)     == {k \in S : tab[k].estado # "error"}
AllOk(tab, S)     == \A k \in S : tab[k].estado = "ok"

\* actualizoTablaEstado: the first entry of that job, node and block.
Update(tab, j, t, e) ==
  LET k == SelectInSeq(tab, LAMBDA s : s.job = j /\ s.nodo = t.nodo /\ s.block = t.block)
  IN  [tab EXCEPT ![k].estado = e]

\* actualizarCargaDelNodo, to add: w[n] is the load added to node n.
Charges(j, w) ==
  /\ actual' = [n \in Node |-> actual[n] + w[n]]
  /\ porJob' = [n \in Node |-> [porJob[n] EXCEPT ![j] =
                  IF w[n] = 0 THEN @ ELSE IF @ = None THEN w[n] ELSE @ + w[n]]]

\* actualizarCargaDelNodo, to take away what the nodes of S carry for job j.
Releases(j, S) ==
  /\ actual' = [n \in Node |-> IF n \in S /\ porJob[n][j] # None
                               THEN actual[n] - porJob[n][j] ELSE actual[n]]
  /\ porJob' = [n \in Node |-> IF n \in S THEN [porJob[n] EXCEPT ![j] = None]
                               ELSE porJob[n]]
-----------------------------------------------------------------------------
Init ==
  /\ estados = <<>> /\ known = {} /\ activos = {} /\ yama = "running"
  /\ actual = [n \in Node |-> 0]
  /\ porJob = [n \in Node |-> [j \in Job |-> None]]
  /\ phase = [j \in Job |-> "new"] /\ told = [j \in Job |-> FALSE]
  /\ tasks = [j \in Job |-> {}] /\ toYama = [j \in Job |-> <<>>]
  /\ alive \in SUBSET Node /\ present = TRUE
  /\ faults = 0 /\ downs = 0

Fault == faults < MaxFaults /\ faults' = faults + 1

Stop(how) ==
  /\ yama' = how
  /\ UNCHANGED <<estados, loadVars, activos, phase, told, tasks>>

\* completarPrimeraVez: nodes are added to the table of loads the first time,
\* and when more of them are active than it has.
Completed_M(A) == IF known = {} THEN A ELSE known
Completed(A) ==
  IF known = {} THEN A
  ELSE IF Cardinality(A) > Cardinality(known) THEN known \cup A ELSE known

\* OP_INIT_JOB refused: there is no such file, or no active node.
RefuseJob(j) ==
  /\ phase[j] = "new" /\ yama = "running"
  /\ ~present \/ alive = {}
  /\ activos' = alive
  /\ phase' = [phase EXCEPT ![j] = "running"] /\ told' = [told EXCEPT ![j] = TRUE]
  /\ UNCHANGED <<estados, loadVars, yama, tasks, toYama, envVars>>

\* OP_INIT_JOB: plan, count the loads, fill the table and send the tasks.
InitJob(j) ==
  /\ phase[j] = "new" /\ yama = "running" /\ present /\ alive # {}
  /\ alive \subseteq Completed(alive)
  /\ known' = Completed(alive) /\ activos' = alive
  /\ \E p \in Plans(alive, Copies) :
       LET carga == [n \in Node |-> Cardinality({b \in Block : p[b] = n})]
           todo  == SetToSeq({[nodo |-> p[b], block |-> b] : b \in Block})
       IN
       /\ actual' = [n \in Node |-> actual[n] + carga[n]]
       /\ porJob' = [n \in Node |-> IF n \in alive
                       THEN [porJob[n] EXCEPT ![j] = carga[n]] ELSE porJob[n]]
       /\ estados' = estados \o Entries(j, todo)
       /\ tasks' = [tasks EXCEPT ![j] = Range(todo)]
  /\ phase' = [phase EXCEPT ![j] = "running"]
  /\ UNCHANGED <<yama, told, toYama, envVars>>

\* The planner looks for ever for an active node with a copy of a block, or
\* reads the load of a node that the table of loads does not have.
InitJobFails(j) ==
  /\ phase[j] = "new" /\ yama = "running" /\ present /\ alive # {}
  /\ Stop(IF alive \subseteq Completed(alive) THEN "hung" ELSE "crashed")
  /\ ~(alive \subseteq Completed(alive)) \/ Plans(alive, Copies) = {}
  /\ UNCHANGED <<toYama, envVars>>
-----------------------------------------------------------------------------
(* The answers of a Master.                                                *)

\* The answer that YAMA reads next on j's socket.
Reads(j, blocks, ok) ==
  /\ yama = "running" /\ toYama[j] # <<>>
  /\ Head(toYama[j]).ok = ok /\ Head(toYama[j]).task.block \in blocks
  /\ toYama' = [toYama EXCEPT ![j] = Tail(@)]
Answered(j) == Head(toYama[j]).task

\* eliminarEstadosMultiples.
RemoveStates(j, tab) ==
  /\ Releases(j, {tab[k].nodo : k \in OfJob(tab, j)})
  /\ estados' = [k \in DOMAIN tab |->
                   IF tab[k].job = j THEN [tab[k] EXCEPT !.estado = "error"] ELSE tab[k]]

\* abortarJob.
Abort(j, tab) == RemoveStates(j, tab) /\ told' = [told EXCEPT ![j] = TRUE]

\* A Master that was sent OP_ERROR_JOB takes no packet after it.
Sends(j, S) == tasks' = [tasks EXCEPT ![j] = IF told[j] THEN @ ELSE @ \cup S]

\* verificoFinalizacionTransformacion and BuscoArchivosTemporales.
NodeDone(tab, j, n) == AllOk(tab, Valid(tab, OfNode(tab, j, n)))
Temporals(tab, j, n) ==
  UNION {tab[k].files : k \in {i \in OfNode(tab, j, n) : tab[i].estado = "ok"}}

\* OP_TRANSFORMACION_LISTA: a node whose transformations are done reduces.
TransformOk(j) ==
  LET n   == Answered(j).nodo
      tab == Update(estados, j, Answered(j), "ok")
  IN
  /\ Reads(j, Block, TRUE)
  /\ IF NodeDone(tab, j, n)
     THEN IF n \in activos
          THEN /\ estados' = Append(tab, Entry(j, n, Local, Temporals(tab, j, n)))
               /\ Sends(j, {[nodo |-> n, block |-> Local]}) /\ UNCHANGED yama
          ELSE /\ estados' = tab /\ yama' = "crashed" /\ UNCHANGED tasks
     ELSE estados' = tab /\ UNCHANGED <<tasks, yama>>
  /\ UNCHANGED <<loadVars, activos, phase, told, envVars>>

\* The transformations of job j at node n, whatever their state, and in order.
Lost(j, n) == {k \in OfNode(estados, j, n) : estados[k].block \in Block}
InOrder(S) ==
  CHOOSE s \in [1 .. Cardinality(S) -> S] : \A i, k \in DOMAIN s : i < k => s[i] < s[k]
\* nodoEstaEnLaCopia: the node of a block's other copy, if it is active.
Mirror(b, n) == (Copies[b] \ {n}) \cap alive

\* The first entry of each of them is put in error.
InError(j, n) ==
  [k \in DOMAIN estados |->
     IF k \in Lost(j, n)
        /\ \A i \in Lost(j, n) : estados[i].block = estados[k].block => k <= i
     THEN [estados[k] EXCEPT !.estado = "error"] ELSE estados[k]]

\* The blocks of lost that go to m.
Moved(lost, to, m) == Cardinality({k \in lost : to[estados[k].block] = m})
Freed_M(lost) == 0
Freed(lost) == Cardinality(lost)
\* The loads after a replanning: n loses its entry, and the mirrors get theirs.
MoveLoad(j, n, lost, to) ==
  /\ actual' = [m \in Node |-> actual[m] + Moved(lost, to, m)
                                - (IF m = n THEN Freed(lost) ELSE 0)]
  /\ porJob' = [m \in Node |-> [porJob[m] EXCEPT ![j] =
       IF m = n THEN None
       ELSE IF Moved(lost, to, m) = 0 THEN @
       ELSE IF @ = None THEN Moved(lost, to, m) ELSE @ + Moved(lost, to, m)]]

\* replanificacion: every transformation of the node that failed is done again
\* at the node of the other copy, or the job is aborted.
TransformFailed(j) ==
  LET n    == Answered(j).nodo
      lost == Lost(j, n)
      to   == [b \in {estados[k].block : k \in lost} |-> CHOOSE m \in Mirror(b, n) : TRUE]
      todo == [i \in DOMAIN InOrder(lost) |->
                 LET b == estados[InOrder(lost)[i]].block IN [nodo |-> to[b], block |-> b]]
  IN
  /\ Reads(j, Block, FALSE)
  /\ activos' = alive
  /\ IF ~present \/ \E k \in lost : Mirror(estados[k].block, n) = {}
     THEN Abort(j, estados) /\ UNCHANGED tasks
     ELSE /\ estados' = InError(j, n) \o Entries(j, todo)
          /\ MoveLoad(j, n, lost, to)
          /\ Sends(j, Range(todo)) /\ UNCHANGED told
  /\ UNCHANGED <<known, yama, phase, envVars>>

LocalsDone_M(tab, j) ==
  AllOk(tab, Valid(tab, {k \in OfJob(tab, j) : tab[k].block = Local}))
LocalsDoneAll_M(tab, j) == AllOk(tab, {k \in OfJob(tab, j) : tab[k].block >= Local})
\* verificoFinalizacionRl.
LocalsDone(tab, j) ==
  AllOk(tab, Valid(tab, {k \in OfJob(tab, j) : tab[k].block >= Local}))

\* BuscoNodos, and seleccionarEncargado: the first of them with least load.
Reducers(tab, j) == {k \in OfJob(tab, j) : tab[k].block = Local}
Chief(tab, j) ==
  LET load(k) == actual[tab[k].nodo] IN
  tab[CHOOSE k \in Reducers(tab, j) : \A i \in Reducers(tab, j) :
        load(k) < load(i) \/ (load(k) = load(i) /\ k <= i)].nodo

\* OP_REDUCCION_LOCAL_LISTA: when all nodes are done one of them, the chief,
\* reduces the job.
LocalOk(j) ==
  LET tab   == Update(estados, j, Answered(j), "ok")
      R     == Reducers(tab, j)
      chief == Chief(tab, j)
  IN
  /\ Reads(j, {Local}, TRUE)
  /\ IF LocalsDone(tab, j)
     THEN /\ Charges(j, [n \in Node |-> IF n = chief THEN 1 + (Cardinality(R) - 1) \div 2 ELSE 0])
          /\ IF \A k \in R : tab[k].nodo \in activos
             THEN /\ estados' = Append(tab, Entry(j, chief, Global, UNION {tab[k].files : k \in R}))
                  /\ Sends(j, {[nodo |-> chief, block |-> Global]}) /\ UNCHANGED yama
             ELSE estados' = tab /\ yama' = "crashed" /\ UNCHANGED tasks
     ELSE estados' = tab /\ UNCHANGED <<actual, porJob, tasks, yama>>
  /\ UNCHANGED <<known, activos, phase, told, envVars>>

LocalFailed(j) ==
  /\ Reads(j, {Local}, FALSE) /\ Abort(j, estados)
  /\ UNCHANGED <<known, activos, yama, phase, tasks, envVars>>

\* OP_REDUCCION_GLOBAL_LISTA.
GlobalOk(j) ==
  LET n   == Answered(j).nodo
      tab == Update(estados, j, Answered(j), "ok")
  IN
  /\ Reads(j, {Global}, TRUE)
  /\ IF n \in activos
     THEN /\ estados' = Append(tab, Entry(j, n, Final, {}))
          /\ Sends(j, {[nodo |-> n, block |-> Final]}) /\ UNCHANGED yama
     ELSE estados' = tab /\ yama' = "crashed" /\ UNCHANGED tasks
  /\ UNCHANGED <<loadVars, activos, phase, told, envVars>>

Carriers_M(j, n) == {n}
\* The nodes finalizarJobGlobalEnTablaEstado and
\* eliminarCargasReduccionesLocales take the load of job j from.
Carriers(j, n) ==
  {n} \cup {estados[k].nodo : k \in {i \in OfJob(estados, j) : estados[i].block = Local}}

\* finalizarJobGlobalEnTablaEstado, with the first entry in process.
Finalize(j, e) ==
  LET k == SelectInSeq(estados, LAMBDA s : s.job = j /\ s.estado = "proceso")
  IN  IF k = 0
      THEN yama' = "crashed" /\ UNCHANGED <<estados, actual, porJob>>
      ELSE /\ estados' = [estados EXCEPT ![k].estado = e]
           /\ Releases(j, Carriers(j, estados[k].nodo)) /\ UNCHANGED yama

GlobalFailed(j) ==
  /\ Reads(j, {Global}, FALSE) /\ Finalize(j, "error")
  /\ told' = [told EXCEPT ![j] = TRUE]
  /\ UNCHANGED <<known, activos, phase, tasks, envVars>>

\* OP_ALMACENAMIENTO_LISTA.
Stored(j, ok) ==
  /\ Reads(j, {Final}, ok) /\ Finalize(j, IF ok THEN "ok" ELSE "error")
  /\ UNCHANGED <<known, activos, phase, told, tasks, envVars>>

\* The Master's socket is closed: buscarIdJobParaMasterCaido finds the job if
\* it has an entry in process.
Disconnected(j) ==
  /\ yama = "running" /\ phase[j] = "gone" /\ toYama[j] = <<>>
  /\ phase' = [phase EXCEPT ![j] = "closed"]
  /\ IF \E k \in OfJob(estados, j) : estados[k].estado = "proceso"
     THEN RemoveStates(j, estados) ELSE UNCHANGED <<estados, actual, porJob>>
  /\ UNCHANGED <<known, activos, yama, told, tasks, toYama, envVars>>

\* FinalizarEjecucion: the FileSystem's socket is closed.
FileSystemLost ==
  /\ yama = "running" /\ Fault /\ downs' = downs + 1
  /\ yama' = "exit"
  /\ told' = [j \in Job |-> told[j] \/ (phase[j] = "running"
                 /\ \E k \in OfJob(estados, j) : estados[k].estado = "proceso")]
  /\ UNCHANGED <<estados, loadVars, activos, phase, tasks, toYama, alive, present>>
-----------------------------------------------------------------------------
(* The Masters, the DataNodes and the FileSystem's file.                   *)

Answers(j, t, ok) == toYama' = [toYama EXCEPT ![j] = Append(@, [task |-> t, ok |-> ok])]

\* A thread of the Master got the Worker's answer and sends it to YAMA; the
\* answer to the last task ends the Master.
Done(j, t) ==
  /\ phase[j] = "running" /\ t \in tasks[j]
  /\ tasks' = [tasks EXCEPT ![j] = @ \ {t}] /\ Answers(j, t, TRUE)
  /\ phase' = IF t.block = Final THEN [phase EXCEPT ![j] = "gone"] ELSE phase
  /\ UNCHANGED <<estados, loadVars, activos, yama, told, envVars>>

\* A Worker is lost: the threads of its node are killed, and the one that
\* found out reports it (node_drop); the last two tasks have one thread each.
\* Without AnyFails YAMA reads the failure before any local reduction.
Fail(j, t) ==
  /\ phase[j] = "running" /\ t \in tasks[j]
  /\ Fault
  /\ (t.block \in Block /\ ~AnyFails) =>
       toYama[j] = <<>> /\ \A k \in OfJob(estados, j) :
         estados[k].block \in Block /\ estados[k].estado # "error"
  /\ tasks' = [tasks EXCEPT ![j] =
                 IF t.block >= Local THEN {u \in @ : u.nodo # t.nodo} ELSE @ \ {t}]
  /\ Answers(j, t, FALSE)
  /\ phase' = IF t.block = Final THEN [phase EXCEPT ![j] = "gone"] ELSE phase
  /\ UNCHANGED <<estados, loadVars, activos, yama, told, alive, present, downs>>

\* The Master takes OP_ERROR_JOB, or it sees that YAMA has ended.
End(j) ==
  /\ phase[j] = "running"
  /\ told[j] \/ yama \in {"crashed", "exit"}
  /\ phase' = [phase EXCEPT ![j] = "gone"] /\ tasks' = [tasks EXCEPT ![j] = {}]
  /\ UNCHANGED <<estados, loadVars, activos, yama, told, toYama, envVars>>

\* The Master is killed.
Kill(j) ==
  /\ phase[j] = "running" /\ Fault
  /\ phase' = [phase EXCEPT ![j] = "gone"] /\ tasks' = [tasks EXCEPT ![j] = {}]
  /\ UNCHANGED <<estados, loadVars, activos, yama, told, toYama, alive, present, downs>>

\* The FileSystem loses a DataNode, gets one back, or the file is removed.
NodeDown(n) ==
  /\ n \in alive /\ Fault /\ downs' = downs + 1 /\ alive' = alive \ {n}
  /\ UNCHANGED <<estados, loadVars, activos, yama, masterVars, present>>
NodeUp(n) ==
  /\ n \notin alive /\ alive' = alive \cup {n}
  /\ UNCHANGED <<estados, loadVars, activos, yama, masterVars, present, faults, downs>>
RemoveFile ==
  /\ present /\ Fault /\ present' = FALSE
  /\ UNCHANGED <<estados, loadVars, activos, yama, masterVars, alive, downs>>
-----------------------------------------------------------------------------
\* YAMA's handling of what j's socket holds.
Serve(j) ==
  \/ TransformOk(j) \/ TransformFailed(j) \/ LocalOk(j) \/ LocalFailed(j)
  \/ GlobalOk(j) \/ GlobalFailed(j) \/ Stored(j, TRUE) \/ Stored(j, FALSE)
  \/ Disconnected(j)
Accept(j) == RefuseJob(j) \/ InitJob(j) \/ InitJobFails(j)
Work(j) == \E t \in tasks[j] : Done(j, t) \/ Fail(j, t)

Next ==
  \/ \E j \in Job : Accept(j) \/ Serve(j) \/ Work(j) \/ End(j) \/ Kill(j)
  \/ \E n \in Node : NodeDown(n) \/ NodeUp(n)
  \/ RemoveFile \/ FileSystemLost

Spec == Init /\ [][Next]_vars

\* YAMA keeps serving its sockets, select starves none of them; a Worker
\* answers or its connection breaks; a Master that is told to end ends.
FairSpec ==
  /\ Spec
  /\ \A j \in Job : WF_vars(Serve(j)) /\ WF_vars(Work(j)) /\ WF_vars(End(j))
-----------------------------------------------------------------------------
(* Properties.                                                             *)

\* A node's load is the sum of what it carries for each job: what is added in
\* the planning, the replanning and the choice of a chief is what the ends of
\* the jobs take away.
LoadsAddUp ==
  \A n \in Node :
    actual[n] = MapThenSumSet(LAMBDA j : porJob[n][j],
                              {j \in Job : porJob[n][j] # None})

\* Once YAMA is done with a job no node carries load for it, however it ended.
LoadsReleased ==
  \A j \in Job : phase[j] = "closed" => \A n \in Node : porJob[n][j] \in {None, 0}

Going(j) == phase[j] = "running" /\ ~told[j]

\* The global reduction of a job works on the results of all of its blocks, and
\* no block's result enters it twice: the local reductions that are not in error
\* have no block in common.
GlobalIsExact ==
  \A j \in Job : Going(j) =>
    /\ \A k \in Valid(estados, OfJob(estados, j)) :
         estados[k].block = Global => estados[k].files = Block
    /\ \A k, i \in Valid(estados, OfJob(estados, j)) :
         k # i /\ estados[k].block = estados[i].block
           => estados[k].files \cap estados[i].files = {}

\* YAMA does not crash while the DataNodes stay connected.
YamaSurvives == yama = "crashed" => downs > 0

\* YAMA ends every job it accepts, unless it stops itself.
JobsEnd == \A j \in Job : phase[j] = "running" ~> (phase[j] = "closed" \/ yama # "running")
=============================================================================
