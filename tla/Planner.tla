------------------------------ MODULE Planner -------------------------------
(***************************************************************************)
(* planificar (funcionesYAMA.c), which assigns the blocks of a job's file  *)
(* to the workers, with the algorithm CLOCK or WCLOCK of the configuration *)
(* file.  It walks the array of workers round and round; each worker can   *)
(* take as many blocks as its availability says.  A step is one pass of    *)
(* the loop.  The loads it starts from are whatever the jobs before left.  *)
(***************************************************************************)
EXTENDS Assignment, Sequences

CONSTANTS
  Base,        \* DISP_BASE of the configuration file
  MaxCarga,    \* bound: the load of a worker at the start
  MaxHistorico \* bound: its historical load at the start

ASSUME PlannerAssumption ==
  /\ IsFiniteSet(Node) /\ Base \in Nat \ {0}
  /\ MaxCarga \in Nat /\ MaxHistorico \in Nat

VARIABLES
  algoritmo,  \* algoritmoBalanceo
  carga,      \* cargaActual of each node of listaCargaPorNodo
  cargaMax,   \* obtenerCargaMaxima: the largest of them
  historico,  \* its cargaHistorica
  lista,      \* listaNodosActivos, and the order of the array planificador
  copias,     \* copias[b]: the nodes of lista that keep a copy of block b
  disp,       \* disp[n]: the availability of worker n
  posicion,   \* the worker looked at, as an index of lista
  contador,   \* contadorBloquesSeguidosNoAsignados
  plan        \* plan[b + 1]: the worker that block b went to

given == <<algoritmo, carga, cargaMax, historico, lista, copias>>
vars  == <<given, disp, posicion, contador, plan>>

Lists == UNION {{s \in [1 .. n -> Node] : \A i, k \in 1 .. n : s[i] = s[k] => i = k}
                  : n \in 1 .. Cardinality(Node)}
Activos == {lista[i] : i \in 1 .. Len(lista)}
-----------------------------------------------------------------------------
Disponibilidad(n) ==
  IF algoritmo = "CLOCK" THEN Base ELSE Base + (cargaMax - carga[n])

\* llenarArrayPlanificador starts with worker i rather than k: it is more
\* available, or as available and historically less loaded, or it is first.
Before(i, k) ==
  LET n == lista[i]  m == lista[k]
  IN  \/ Disponibilidad(n) > Disponibilidad(m)
      \/ /\ Disponibilidad(n) = Disponibilidad(m)
         /\ historico[n] < historico[m] \/ (historico[n] = historico[m] /\ i <= k)

Init ==
  /\ algoritmo \in {"CLOCK", "WCLOCK"}
  /\ carga \in [Node -> 0 .. MaxCarga]
  /\ cargaMax \in {carga[n] : n \in Node} /\ \A n \in Node : carga[n] <= cargaMax
  /\ historico \in [Node -> 0 .. MaxHistorico]
  /\ lista \in Lists
  /\ copias \in [Block -> {S \in SUBSET Activos : Cardinality(S) \in {1, 2}}]
  /\ disp = [n \in Activos |-> Disponibilidad(n)]
  /\ posicion \in 1 .. Len(lista)
  /\ \A k \in 1 .. Len(lista) : Before(posicion, k)
  /\ contador = 0 /\ plan = <<>>

\* asigneBloquesDeArchivo.
Done == Len(plan) = NumBlocks

Worker == lista[posicion]

\* planificar goes back to the start of the array.
Following_M(p) == p
Following(p) == IF p = Len(lista) THEN 1 ELSE p + 1
Move == posicion' = Following(posicion) /\ UNCHANGED given

\* The worker has no availability left: it gets Base for the next round.
SkipEmpty_M ==
  /\ ~Done /\ disp[Worker] = 0
  /\ Move /\ UNCHANGED <<disp, contador, plan>>
SkipEmpty ==
  /\ ~Done /\ disp[Worker] = 0
  /\ disp' = [disp EXCEPT ![Worker] = Base]
  /\ contador' = contador + 1
  /\ Move /\ UNCHANGED plan

\* asignoBloque: the worker keeps a copy of the next block.
HasCopy_M(n) == TRUE
HasCopy(n) == n \in copias[Len(plan)]
Assign ==
  /\ ~Done /\ disp[Worker] # 0 /\ HasCopy(Worker)
  /\ disp' = [disp EXCEPT ![Worker] = @ - 1]
  /\ plan' = Append(plan, Worker)
  /\ contador' = 0
  /\ Move

\* avanzoPosicion: it does not; after a round with no assignment, counted from
\* contador, all workers get Base.
Advance ==
  /\ ~Done /\ disp[Worker] # 0 /\ ~HasCopy(Worker)
  /\ IF contador + 1 = Len(lista)
     THEN contador' = 0 /\ disp' = [n \in Activos |-> disp[n] + Base]
     ELSE contador' = contador + 1 /\ UNCHANGED disp
  /\ Move /\ UNCHANGED plan

Next == SkipEmpty \/ Assign \/ Advance

Spec == Init /\ [][Next]_vars
-----------------------------------------------------------------------------
(* Properties.                                                             *)

TypeOK ==
  /\ algoritmo \in {"CLOCK", "WCLOCK"}
  /\ carga \in [Node -> Nat] /\ cargaMax \in Nat /\ historico \in [Node -> Nat]
  /\ lista \in Lists
  /\ copias \in [Block -> (SUBSET Activos) \ {{}}]
  /\ disp \in [Activos -> Nat] /\ posicion \in 1 .. Len(lista)
  /\ contador \in Nat /\ plan \in Seq(Activos) /\ Len(plan) <= NumBlocks

\* The planner is an in-order assignment.
InOrder == INSTANCE InOrderPlan WITH activos <- Activos
ImplementsInOrder == InOrder!Spec

\* When it is done, its plan is one of those module JobTable takes.
PlanIsOne == Done => InOrder!AsFunction \in Plans(Activos, copias)

\* The blocks that worker n got.
Got(n) == Cardinality({i \in 1 .. Len(plan) : plan[i] = n})
\* Of two workers that keep every block neither gets more than its turn and
\* what it was less loaded by: a planning does not turn the loads around.
Even ==
  Done => \A n, m \in Activos :
    (\A b \in Block : {n, m} \subseteq copias[b]) =>
      Got(n) <= Got(m) + 1 + (IF algoritmo = "WCLOCK" /\ carga[n] < carga[m]
                              THEN carga[m] - carga[n] ELSE 0)
=============================================================================
