------------------------------- MODULE MCYama --------------------------------
(* Two parts of YAMA for TLC, which share no state: the planner, and two    *)
(* jobs on two nodes.  The first state decides which one a behaviour is     *)
(* about; the other stays in an initial state.                              *)
EXTENDS Planner, TLC

CONSTANTS n1, n2, n3, j1, j2, None

VARIABLES part, estados, known, actual, porJob, activos, yama, phase, told, tasks, toYama,
  alive, present, faults, downs
jobVars == <<estados, known, actual, porJob, activos, yama, phase, told, tasks, toYama,
             alive, present, faults, downs>>

\* Two jobs on one block with two copies.
Pair == {n1, n2}
Mirrored == 0 :> {n1, n2}
Both == {j1, j2}
Jobs == INSTANCE JobTable WITH
  Node <- Pair, Job <- Both, NumBlocks <- 1, Copies <- Mirrored, AnyFails <- FALSE,
  MaxFaults <- 1

\* Nothing is planned, and no job begins.
Unplanned ==
  /\ algoritmo = "CLOCK" /\ lista = <<n1>> /\ copias = [b \in Block |-> {n1}]
  /\ carga = [n \in Node |-> 0] /\ historico = carga
Idle == alive = {}

YamaInit ==
  \/ part = "planner" /\ Init /\ Idle /\ Jobs!Init
  \/ part = "jobs" /\ Unplanned /\ Init /\ Jobs!Init
YamaNext ==
  /\ \/ part = "planner" /\ Next /\ UNCHANGED jobVars
     \/ part = "jobs" /\ Jobs!Next /\ UNCHANGED vars
  /\ UNCHANGED part
\* The loop of YAMA's only thread keeps running.
YamaSpec ==
  YamaInit /\ [][YamaNext]_<<vars, jobVars, part>> /\ WF_vars(part = "planner" /\ Next)

\* planificar returns.
PlanEnds == <>(part = "planner" => Done)

\* YAMA does not crash while the DataNodes stay connected, with two jobs on them.
YamaSurvives == Jobs!YamaSurvives
=============================================================================
