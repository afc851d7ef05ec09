---------------------------- MODULE PlannerProofs ---------------------------
(***************************************************************************)
(* Proofs about module Planner: for any nodes, blocks, loads and DISP_BASE *)
(* it keeps its types, its plans are even, and it implements module        *)
(* InOrderPlan.                                                            *)
(***************************************************************************)
EXTENDS Planner, FiniteSetTheorems, TLAPS

\* A list of nodes is a function from its positions, which are some.
LEMMA ListsType ==
  ASSUME NEW s \in Lists
  PROVE  /\ s \in Seq(Node) /\ Len(s) \in Nat \ {0}
         /\ s \in [1 .. Len(s) -> Node]
<1>1. PICK n \in 1 .. Cardinality(Node) : s \in [1 .. n -> Node]
  BY DEF Lists
<1>2. n \in Nat \ {0}
  OBVIOUS
<1>3. s \in Seq(Node) /\ Len(s) = n
  BY <1>1, <1>2
<1> QED
  BY <1>1, <1>2, <1>3

\* The active workers are the members of the list.
LEMMA ActivosType ==
  ASSUME lista \in Lists
  PROVE  /\ Activos \subseteq Node
         /\ Activos # {}
         /\ \A i \in 1 .. Len(lista) : lista[i] \in Activos
<1>1. /\ Len(lista) \in Nat \ {0}
      /\ lista \in [1 .. Len(lista) -> Node]
  BY ListsType
<1>2. 1 \in 1 .. Len(lista)
  BY <1>1
<1> QED
  BY <1>1, <1>2 DEF Activos

\* The clock stays on the list.
LEMMA FollowingType ==
  ASSUME lista \in Lists, NEW p \in 1 .. Len(lista)
  PROVE  Following(p) \in 1 .. Len(lista)
BY ListsType DEF Following

\* The types hold at first.
LEMMA TypeInit == Init => TypeOK
<1> SUFFICES ASSUME Init PROVE TypeOK
  OBVIOUS
<1> USE AssignmentAssumption, PlannerAssumption
<1>1. /\ algoritmo \in {"CLOCK", "WCLOCK"} /\ lista \in Lists
      /\ posicion \in 1 .. Len(lista) /\ contador \in Nat
  BY DEF Init
<1>2. carga \in [Node -> Nat] /\ cargaMax \in Nat /\ historico \in [Node -> Nat]
  BY DEF Init
<1>3. copias \in [Block -> (SUBSET Activos) \ {{}}]
  <2>1. copias \in [Block -> {S \in SUBSET Activos : Cardinality(S) \in {1, 2}}]
    BY DEF Init
  <2>2. Cardinality({}) = 0
    BY FS_EmptySet
  <2>3. {S \in SUBSET Activos : Cardinality(S) \in {1, 2}} \subseteq (SUBSET Activos) \ {{}}
    BY <2>2
  <2> QED
    BY <2>1, <2>3
<1>4. disp \in [Activos -> Nat]
  <2>1. \A n \in Node : Disponibilidad(n) \in Nat
    BY <1>2 DEF Disponibilidad, Init
  <2> QED
    BY <2>1, <1>1, ActivosType DEF Init
<1>5. plan \in Seq(Activos) /\ Len(plan) <= NumBlocks
  BY DEF Init
<1> QED
  BY <1>1, <1>2, <1>3, <1>4, <1>5 DEF TypeOK

\* Every step keeps the types.
LEMMA TypeNext == TypeOK /\ [Next]_vars => TypeOK'
<1> SUFFICES ASSUME TypeOK, [Next]_vars PROVE TypeOK'
  OBVIOUS
<1> USE AssignmentAssumption, PlannerAssumption
<1>0. CASE UNCHANGED vars
  BY <1>0 DEF TypeOK, vars, given, Activos
<1>1. ASSUME UNCHANGED given, posicion' = Following(posicion),
             disp' \in [Activos -> Nat], contador' \in Nat,
             plan' \in Seq(Activos), Len(plan') <= NumBlocks
      PROVE  TypeOK'
  <2>1. posicion' \in 1 .. Len(lista)
    BY <1>1, FollowingType DEF TypeOK
  <2>2. Activos' = Activos
    BY <1>1 DEF given, Activos
  <2> QED
    BY <1>1, <2>1, <2>2 DEF TypeOK, given
<1>2. Worker \in Activos
  BY ActivosType DEF TypeOK, Worker
<1>3. CASE SkipEmpty
  <2>1. disp' \in [Activos -> Nat] /\ contador' \in Nat
    BY <1>2, <1>3 DEF SkipEmpty, TypeOK
  <2> QED
    BY <1>1, <1>3, <2>1 DEF SkipEmpty, Move, TypeOK
<1>4. CASE Assign
  <2>1. disp[Worker] \in Nat \ {0}
    BY <1>2, <1>4 DEF Assign, TypeOK
  <2>2. disp' \in [Activos -> Nat] /\ contador' \in Nat
    BY <1>2, <1>4, <2>1 DEF Assign, TypeOK
  <2>3. plan \in Seq(Activos) /\ Len(plan) < NumBlocks
    BY <1>4 DEF Assign, Done, TypeOK
  <2>4. plan' \in Seq(Activos) /\ Len(plan') <= NumBlocks
    BY <1>2, <1>4, <2>3 DEF Assign
  <2> QED
    BY <1>1, <1>4, <2>2, <2>4 DEF Assign, Move
<1>5. CASE Advance
  <2>1. disp' \in [Activos -> Nat] /\ contador' \in Nat
    BY <1>5 DEF Advance, TypeOK
  <2> QED
    BY <1>1, <1>5, <2>1 DEF Advance, Move, TypeOK
<1> QED
  BY <1>0, <1>3, <1>4, <1>5 DEF Next

\* No availability is ever negative, whatever the loads: the loop tests it for
\* zero only (verificarCondicion), and posicion stays inside the array.
THEOREM TypeCorrect == Spec => []TypeOK
<1>1. Init => TypeOK
  BY TypeInit
<1>2. TypeOK /\ [Next]_vars => TypeOK'
  BY TypeNext
<1> QED
  BY <1>1, <1>2, PTL DEF Spec
-----------------------------------------------------------------------------
\* What was assigned went to a worker that keeps the block.
InPlace == \A i \in 1 .. Len(plan) : plan[i] \in copias[i - 1]

\* Every step keeps the blocks that are planned where a copy of them is.
LEMMA InPlaceNext == TypeOK /\ InPlace /\ [Next]_vars => InPlace'
<1> SUFFICES ASSUME TypeOK, InPlace, [Next]_vars PROVE InPlace'
  OBVIOUS
<1>1. CASE UNCHANGED <<plan, copias>>
  BY <1>1 DEF InPlace
<1>2. CASE Assign
  <2>1. plan \in Seq(Activos) /\ plan' = Append(plan, Worker) /\ copias' = copias
    BY <1>2 DEF Assign, Move, given, TypeOK
  <2>2. Worker \in copias[Len(plan)]
    BY <1>2 DEF Assign, HasCopy
  <2>3. /\ Len(plan') = Len(plan) + 1
        /\ \A i \in 1 .. Len(plan) : plan'[i] = plan[i]
        /\ plan'[Len(plan) + 1] = Worker
    BY <2>1
  <2>4. ASSUME NEW i \in 1 .. Len(plan')
        PROVE  plan'[i] \in copias[i - 1]
    <3>1. Len(plan) \in Nat
      BY <2>1
    <3>2. CASE i \in 1 .. Len(plan)
      BY <3>2, <2>3 DEF InPlace
    <3>3. CASE i = Len(plan) + 1
      <4>1. i - 1 = Len(plan)
        BY <3>1, <3>3
      <4> QED
        BY <3>3, <2>2, <2>3, <4>1
    <3> QED
      BY <3>1, <3>2, <3>3, <2>3
  <2> QED
    BY <2>1, <2>4 DEF InPlace
<1>3. CASE SkipEmpty
  BY <1>1, <1>3 DEF SkipEmpty, Move, given
<1>4. CASE Advance
  BY <1>1, <1>4 DEF Advance, Move, given
<1>5. CASE UNCHANGED vars
  BY <1>1, <1>5 DEF vars, given
<1> QED
  BY <1>2, <1>3, <1>4, <1>5 DEF Next

\* When planificar ends, its plan is one of those that module JobTable takes:
\* every block of the file has an active worker that keeps a copy of it.
THEOREM PlanIsOneOfPlans == Spec => []PlanIsOne
<1> USE AssignmentAssumption
<1>1. Init => InPlace
  BY DEF Init, InPlace
<1>2. TypeOK /\ InPlace => PlanIsOne
  <2> SUFFICES ASSUME TypeOK, InPlace, Done
               PROVE  InOrder!AsFunction \in Plans(Activos, copias)
    BY DEF PlanIsOne
  <2>1. \A b \in Block : b + 1 \in 1 .. Len(plan) /\ (b + 1) - 1 = b
    BY DEF Done, Block
  <2>2. \A b \in Block : plan[b + 1] \in Activos
    BY <2>1 DEF TypeOK
  <2>3. \A b \in Block : plan[b + 1] \in copias[b]
    BY <2>1 DEF InPlace
  <2> QED
    BY <2>2, <2>3 DEF Plans, InOrder!AsFunction, InOrder!Block, Block
<1> QED
  BY <1>1, <1>2, TypeCorrect, InPlaceNext, PTL DEF Spec

\* The planner implements the in-order assignment: no block is skipped, taken
\* back, given twice, or given to a worker that has no copy of it.
THEOREM Implements == Spec => ImplementsInOrder
<1> USE AssignmentAssumption
<1>1. Init => InOrder!Init
  <2> SUFFICES ASSUME Init PROVE InOrder!Init
    OBVIOUS
  <2>1. TypeOK /\ plan = <<>>
    BY TypeInit DEF Init
  <2>2. Activos \in (SUBSET Node) \ {{}}
    BY <2>1, ActivosType DEF TypeOK
  <2> QED
    BY <2>1, <2>2 DEF TypeOK, InOrder!Init, InOrder!Block, Block
<1>2. TypeOK /\ [Next]_vars => [InOrder!Next]_(InOrder!vars)
  <2> SUFFICES ASSUME TypeOK, [Next]_vars
               PROVE  [InOrder!Next]_(InOrder!vars)
    OBVIOUS
  <2>1. CASE UNCHANGED <<lista, copias, plan>>
    BY <2>1 DEF InOrder!vars, Activos
  <2>2. CASE Assign
    <3>1. Worker \in Activos
      BY ActivosType DEF TypeOK, Worker
    <3>2. Len(plan) < NumBlocks
      BY <2>2 DEF Assign, Done, TypeOK
    <3>3. UNCHANGED <<Activos, copias>>
      BY <2>2 DEF Assign, Move, given, Activos
    <3>4. InOrder!Assign(Worker)
      BY <2>2, <3>2, <3>3 DEF Assign, HasCopy, InOrder!Assign
    <3> QED
      BY <3>1, <3>4 DEF InOrder!Next
  <2>3. CASE SkipEmpty \/ Advance \/ UNCHANGED vars
    BY <2>1, <2>3 DEF SkipEmpty, Advance, Move, given, vars
  <2> QED
    BY <2>2, <2>3 DEF Next
<1> QED
  BY <1>1, <1>2, TypeCorrect, PTL DEF Spec, ImplementsInOrder, InOrder!Spec
-----------------------------------------------------------------------------
(* Evenness.  A turn of a worker that keeps every block is an assignment or  *)
(* a skip, and two such workers take turns.  So their availabilities differ  *)
(* by what they began with, less the blocks of one more than the other, and  *)
(* less Base for each skip more; who is behind in availability skips first.  *)

\* The worker the array planificador starts with.
Start == CHOOSE p \in 1 .. Len(lista) : \A k \in 1 .. Len(lista) : Before(p, k)
\* Where worker i comes in a round, and whether it had its turn in this one.
Rank(i) == IF i >= Start THEN i - Start ELSE i - Start + Len(lista)
Turn(i) == IF Rank(i) < Rank(posicion) THEN 1 ELSE 0
\* The passes of the loop since the last turn of worker i.
Since(i) == IF posicion > i THEN posicion - i - 1 ELSE posicion - i - 1 + Len(lista)
Keeper(i) == \A b \in Block : lista[i] \in copias[b]

\* Of two workers: the turns one is ahead, the blocks, and what it had at first.
Ahead(i, k) == Turn(i) - Turn(k)
Lead(i, k)  == Got(lista[i]) - Got(lista[k])
Given(i, k) == Disponibilidad(lista[i]) - Disponibilidad(lista[k])
Atleast0(x) == IF x >= 0 THEN x ELSE 0

\* What is said of two workers, in numbers: d is what the one was given more, q
\* its blocks more than its turns more, t its turns more, x and y what they have
\* left.  Once both had their turn it has no more blocks more than d.
Balanced(d, q, t, x, y) ==
  LET more == q + (IF t = 1 /\ y = 0 THEN 1 ELSE 0) - (IF t = -1 /\ x = 0 THEN 1 ELSE 0)
  IN  /\ x - y = d - Base * q - (q + t)
      /\ more <= Atleast0(d) /\ -more <= Atleast0(-d)
Fair(i, k) ==
  Balanced(Given(i, k), Lead(i, k) - Ahead(i, k), Ahead(i, k), disp[lista[i]], disp[lista[k]])

\* A counter that has run for a round since its turn means that i skipped it.
Counted(i) == contador > Since(i) => disp[lista[i]] = Base

EvenInv ==
  /\ Start \in 1 .. Len(lista)
  /\ \A i \in 1 .. Len(lista) : Keeper(i) => Counted(i)
  /\ \A i, k \in 1 .. Len(lista) :
       i # k /\ Keeper(i) /\ Keeper(k) => Fair(i, k)

\* An appended block is one more for the worker it goes to.
LEMMA GotAppend ==
  ASSUME plan \in Seq(Activos), NEW w \in Activos, plan' = Append(plan, w), NEW n
  PROVE  /\ Got(n) \in Nat
         /\ Got(n)' = Got(n) + (IF n = w THEN 1 ELSE 0)
<1> DEFINE S == {i \in 1 .. Len(plan) : plan[i] = n}
           T == {i \in 1 .. Len(plan') : plan'[i] = n}
<1>0. Got(n) = Cardinality(S) /\ Got(n)' = Cardinality(T)
  BY DEF Got
<1>1. /\ Len(plan) \in Nat /\ Len(plan') = Len(plan) + 1
      /\ \A i \in 1 .. Len(plan) : plan'[i] = plan[i]
      /\ plan'[Len(plan) + 1] = w
  OBVIOUS
<1>2. IsFiniteSet(S) /\ Len(plan) + 1 \notin S
  <2>1. IsFiniteSet(1 .. Len(plan))
    BY <1>1, FS_Interval
  <2>2. S \subseteq 1 .. Len(plan)
    OBVIOUS
  <2>3. IsFiniteSet(S)
    BY <2>1, <2>2, FS_Subset
  <2> QED
    BY <1>1, <2>3
<1>3. Cardinality(S) \in Nat
  BY <1>2, FS_CardinalityType
<1>4. Cardinality(S \cup {Len(plan) + 1}) = Cardinality(S) + 1
  BY <1>2, FS_AddElement
<1>5. CASE n = w
  <2>1. T = S \cup {Len(plan) + 1}
    BY <1>1, <1>5
  <2> QED
    BY <1>0, <1>3, <1>4, <1>5, <2>1
<1>6. CASE n # w
  <2>1. T = S
    BY <1>1, <1>6
  <2> QED
    <3> HIDE DEF S, T
    <3> QED
      BY <1>0, <1>3, <1>6, <2>1
<1> QED
  BY <1>5, <1>6

\* What a node was given is a number.
LEMMA GotType ==
  ASSUME plan \in Seq(Activos), NEW n
  PROVE  Got(n) \in Nat
<1>1. Len(plan) \in Nat /\ IsFiniteSet(1 .. Len(plan))
  BY FS_Interval
<1>2. IsFiniteSet({i \in 1 .. Len(plan) : plan[i] = n})
  BY <1>1, FS_Subset
<1> QED
  BY <1>2, FS_CardinalityType DEF Got

\* Two workers that had as many turns: the one with more left got no more of
\* them than it was given.
LEMMA LeftBounds ==
  ASSUME NEW d \in Int, NEW q \in Int, d - Base * q - q > 0
  PROVE  q + 1 <= Atleast0(d)
<1> Base \in Nat \ {0}
  BY PlannerAssumption
<1>1. CASE q >= 0
  <2>1. Base * q >= 0
    BY <1>1
  <2> QED
    BY <1>1, <2>1 DEF Atleast0
<1>2. CASE q < 0
  BY <1>2 DEF Atleast0
<1> QED
  BY <1>1, <1>2

\* What the provers need of products with Base.
LEMMA Products ==
  ASSUME NEW q \in Int
  PROVE  /\ Base * q \in Int
         /\ Base * (q - 1) = Base * q - Base
         /\ Base * (-q) = -(Base * q)
BY PlannerAssumption

\* A difference that is not let below 0 is a number.
LEMMA Atleast0Type ==
  ASSUME NEW d \in Int
  PROVE  Atleast0(d) \in Nat
BY DEF Atleast0

\* It is said of the other one too.
LEMMA BalancedBack ==
  ASSUME NEW d \in Int, NEW q \in Int, NEW t \in {-1, 0, 1}, NEW x \in Nat, NEW y \in Nat,
         Balanced(d, q, t, x, y)
  PROVE  Balanced(-d, -q, -t, y, x)
<1>1. Base * q \in Int /\ Base * (-q) = -(Base * q)
  BY Products
<1>2. -(-d) = d
  OBVIOUS
<1>3. y - x = (-d) - Base * (-q) - ((-q) + (-t))
  BY <1>1 DEF Balanced
<1> QED
  BY <1>2, <1>3 DEF Balanced

\* An assignment to the one that is not ahead.
LEMMA AssignBalances ==
  ASSUME NEW d \in Int, NEW q \in Int, NEW t \in {0, -1}, NEW x \in Nat \ {0}, NEW y \in Nat,
         Balanced(d, q, t, x, y)
  PROVE  Balanced(d, q, t + 1, x - 1, y)
<1>1. Base * q \in Int /\ Atleast0(d) \in Nat /\ Atleast0(-d) \in Nat
  BY Products, Atleast0Type
<1>2. x - y = d - Base * q - (q + t)
  BY DEF Balanced
<1>3. (x - 1) - y = d - Base * q - (q + (t + 1))
  BY <1>1, <1>2
<1>4. CASE t = 0 /\ y = 0
  <2>1. d - Base * q - q > 0
    BY <1>1, <1>2, <1>4
  <2>2. q + 1 <= Atleast0(d)
    BY <2>1, LeftBounds
  <2> QED
    BY <1>1, <1>3, <1>4, <2>2 DEF Balanced
<1>5. CASE ~(t = 0 /\ y = 0)
  BY <1>1, <1>3, <1>5 DEF Balanced
<1> QED
  BY <1>4, <1>5

\* A skip by the one that is not ahead.
LEMMA SkipBalances ==
  ASSUME NEW d \in Int, NEW q \in Int, NEW t \in {0, -1}, NEW y \in Nat,
         Balanced(d, q, t, 0, y)
  PROVE  Balanced(d, q - 1, t + 1, Base, y)
<1>1. /\ Base * q \in Int /\ Atleast0(d) \in Nat /\ Atleast0(-d) \in Nat /\ Base \in Nat \ {0}
      /\ Base * (q - 1) = Base * q - Base /\ Base * (-q) = -(Base * q)
  BY Products, Atleast0Type, PlannerAssumption
<1>2. 0 - y = d - Base * q - (q + t)
  BY DEF Balanced
<1>3. Base - y = d - Base * (q - 1) - ((q - 1) + (t + 1))
  BY <1>1, <1>2
<1>4. CASE t = 0 /\ y # 0
  <2>1. (-d) - Base * (-q) - (-q) > 0
    BY <1>1, <1>2, <1>4
  <2>2. (-q) + 1 <= Atleast0(-d)
    BY <2>1, LeftBounds
  <2> QED
    BY <1>1, <1>3, <1>4, <2>2 DEF Balanced
<1>5. CASE ~(t = 0 /\ y # 0)
  BY <1>1, <1>3, <1>5 DEF Balanced
<1> QED
  BY <1>4, <1>5

\* The array starts with one worker, the one of Init.
LEMMA StartIsPosicion == Init => posicion = Start
<1> SUFFICES ASSUME Init PROVE posicion = Start
  OBVIOUS
<1>1. TypeOK
  BY TypeInit
<1>2. \A n \in Activos : Disponibilidad(n) \in Int /\ historico[n] \in Nat
  BY <1>1, ActivosType, PlannerAssumption DEF TypeOK, Disponibilidad
<1>3. \A i \in 1 .. Len(lista) : lista[i] \in Activos
  BY <1>1, ActivosType DEF TypeOK
<1>4. Len(lista) \in Nat
  BY <1>1, ListsType DEF TypeOK
<1>5. posicion \in 1 .. Len(lista) /\ \A k \in 1 .. Len(lista) : Before(posicion, k)
  BY DEF Init
<1>6. ASSUME NEW p \in 1 .. Len(lista), \A k \in 1 .. Len(lista) : Before(p, k)
      PROVE  p = posicion
  <2>1. Before(p, posicion) /\ Before(posicion, p)
    BY <1>5, <1>6
  <2>2. /\ lista[p] \in Activos /\ lista[posicion] \in Activos
        /\ p \in Nat /\ posicion \in Nat
    BY <1>3, <1>4, <1>5
  <2> QED
    BY <1>2, <2>1, <2>2 DEF Before
<1> QED
  BY <1>5, <1>6 DEF Start

\* What a step changes of the places in a round: the worker looked at has had
\* a turn more.
LEMMA PassMoves ==
  ASSUME TypeOK, Start \in 1 .. Len(lista), Move
  PROVE  /\ Start' = Start
         /\ \A i \in 1 .. Len(lista) :
              /\ Turn(i) \in {0, 1}
              /\ i = posicion => Turn(i) = 0 /\ Since(i)' = 0
              /\ Since(i) \in Nat /\ (i = posicion => Since(i) = Len(lista) - 1)
              /\ i # posicion => Since(i)' = Since(i) + 1 /\ Since(i) < Len(lista) - 1
         /\ \A i, k \in 1 .. Len(lista) :
              Ahead(i, k)' = Ahead(i, k) + (IF i = posicion THEN 1 ELSE 0)
                                         - (IF k = posicion THEN 1 ELSE 0)
<1>1. /\ Len(lista) \in Nat \ {0} /\ posicion \in 1 .. Len(lista)
      /\ posicion' = Following(posicion) /\ lista' = lista
  BY ListsType DEF TypeOK, Move, given
<1>2. Start' = Start
  <2>1. \A p, k : Before(p, k)' = Before(p, k)
    BY DEF Move, given, Before, Disponibilidad
  <2> QED
    BY <1>1, <2>1 DEF Start
<1>3. \A i \in 1 .. Len(lista) :
        /\ Turn(i) \in {0, 1}
        /\ i = posicion => Turn(i) = 0 /\ Since(i)' = 0
        /\ Since(i) \in Nat /\ (i = posicion => Since(i) = Len(lista) - 1)
        /\ i # posicion => Since(i)' = Since(i) + 1 /\ Since(i) < Len(lista) - 1
  BY <1>1, <1>2 DEF Turn, Rank, Since, Following
<1>4. ASSUME NEW i \in 1 .. Len(lista), NEW k \in 1 .. Len(lista)
      PROVE  Ahead(i, k)' = Ahead(i, k) + (IF i = posicion THEN 1 ELSE 0)
                                        - (IF k = posicion THEN 1 ELSE 0)
  <2> DEFINE P == posicion
             L == Len(lista)
             S == Start
  <2>1. \A j \in 1 .. L : Rank(j)' = Rank(j)
    BY <1>1, <1>2 DEF Rank
  <2>2. \A j \in 1 .. L : Rank(j) \in 0 .. L - 1
    BY <1>1 DEF Rank
  <2>3. \A j, m \in 1 .. L : Rank(j) = Rank(m) => j = m
    BY <1>1 DEF Rank
  <2>4. CASE Rank(P) < L - 1
    <3>1. Rank(posicion)' = Rank(P) + 1
      BY <1>1, <1>2, <2>4 DEF Rank, Following
    <3>2. \A j \in 1 .. L : Turn(j)' = Turn(j) + (IF j = P THEN 1 ELSE 0)
      BY <1>1, <2>1, <2>2, <2>3, <3>1 DEF Turn
    <3> QED
      BY <1>3, <3>2 DEF Ahead
  <2>5. CASE Rank(P) = L - 1
    <3>1. Rank(posicion)' = 0
      BY <1>1, <1>2, <2>5 DEF Rank, Following
    <3>2. \A j \in 1 .. L : /\ Turn(j)' = 0
                            /\ Turn(j) = IF j = P THEN 0 ELSE 1
      BY <1>1, <2>1, <2>2, <2>3, <2>5, <3>1 DEF Turn
    <3> QED
      BY <3>2 DEF Ahead
  <2>6. Rank(P) < L - 1 \/ Rank(P) = L - 1
    BY <1>1, <2>2
  <2> QED
    BY <2>4, <2>5, <2>6
<1> QED
  BY <1>2, <1>3, <1>4

\* While nobody is given anything the comparisons stay.
LEMMA StayTheSame ==
  ASSUME TypeOK, UNCHANGED given
  PROVE  /\ \A i \in 1 .. Len(lista) : Keeper(i)' = Keeper(i)
         /\ \A i, k \in 1 .. Len(lista) :
              /\ Given(i, k) \in Int /\ Given(i, k)' = Given(i, k)
              /\ Given(k, i) = -Given(i, k)
<1>1. \A n \in Node : Disponibilidad(n) \in Int /\ Disponibilidad(n)' = Disponibilidad(n)
  BY PlannerAssumption DEF TypeOK, given, Disponibilidad
<1>2. \A i \in 1 .. Len(lista) : lista[i] \in Node /\ lista'[i] = lista[i]
  BY ActivosType DEF TypeOK, given
<1>3. \A i \in 1 .. Len(lista) : Keeper(i)' = Keeper(i)
  BY <1>2 DEF Keeper, given
<1>4. ASSUME NEW i \in 1 .. Len(lista), NEW k \in 1 .. Len(lista)
      PROVE  /\ Given(i, k) \in Int /\ Given(i, k)' = Given(i, k)
             /\ Given(k, i) = -Given(i, k)
  <2>1. Given(i, k)' = Disponibilidad(lista[i])' - Disponibilidad(lista[k])'
    BY DEF Given
  <2>2. /\ Disponibilidad(lista[i])' = Disponibilidad(lista[i])
        /\ Disponibilidad(lista[k])' = Disponibilidad(lista[k])
    BY <1>2 DEF given, Disponibilidad
  <2> QED
    BY <1>1, <1>2, <1>4, <2>1, <2>2 DEF Given
<1> QED
  BY <1>3, <1>4

\* A lead is a number, and what the other one lacks.
LEMMA LeadType ==
  ASSUME TypeOK, NEW i, NEW k
  PROVE  Lead(i, k) \in Int /\ Lead(k, i) = -Lead(i, k)
<1>1. Got(lista[i]) \in Nat /\ Got(lista[k]) \in Nat
  BY GotType DEF TypeOK
<1> QED
  BY <1>1 DEF Lead

\* A turn of worker i keeps what is said of it and any other worker k.
LEMMA TurnKeeps ==
  ASSUME TypeOK, EvenInv, Move,
         NEW i \in 1 .. Len(lista), NEW k \in 1 .. Len(lista),
         i = posicion, k # i, Keeper(i), Keeper(k),
         disp'[lista[k]] = disp[lista[k]],
         \/ disp[lista[i]] = 0 /\ disp'[lista[i]] = Base /\ plan' = plan
         \/ disp[lista[i]] # 0 /\ disp'[lista[i]] = disp[lista[i]] - 1
            /\ plan' = Append(plan, lista[i])
  PROVE  Fair(i, k)'
<1>1. PICK n \in Activos, m \in Activos :
        n = lista[i] /\ m = lista[k] /\ n # m /\ n = lista'[i] /\ m = lista'[k]
  <2>1. \A a, b \in 1 .. Len(lista) : lista[a] = lista[b] => a = b
    BY DEF TypeOK, Lists
  <2> QED
    BY <2>1, ActivosType DEF TypeOK, Move, given
<1>2. disp[n] \in Nat /\ disp[m] \in Nat /\ Base \in Nat \ {0}
  BY <1>1, PlannerAssumption DEF TypeOK
<1>3. Given(i, k) \in Int /\ Given(i, k)' = Given(i, k)
  BY StayTheSame DEF Move
<1>4. Ahead(i, k) \in {0, -1} /\ Ahead(i, k)' = Ahead(i, k) + 1
  <2>1. Start \in 1 .. Len(lista)
    BY DEF EvenInv
  <2>2. Turn(i) = 0 /\ Turn(k) \in {0, 1}
    BY <2>1, PassMoves
  <2>3. Ahead(i, k) \in {0, -1}
    BY <2>2 DEF Ahead
  <2>4. Ahead(i, k)' = Ahead(i, k) + (IF i = posicion THEN 1 ELSE 0)
                                  - (IF k = posicion THEN 1 ELSE 0)
    BY <2>1, PassMoves
  <2> QED
    BY <2>3, <2>4
<1>5. Lead(i, k) \in Int
  BY LeadType
<1>6. Got(n) \in Nat /\ Got(m) \in Nat
  BY GotType DEF TypeOK
<1>7. /\ Lead(i, k) = Got(n) - Got(m)
      /\ Lead(i, k)' = Got(n)' - Got(m)'
  BY <1>1 DEF Lead, Got
<1>8. Balanced(Given(i, k), Lead(i, k) - Ahead(i, k), Ahead(i, k), disp[n], disp[m])
  BY <1>1 DEF EvenInv, Fair
<1>9. SUFFICES Balanced(Given(i, k), Lead(i, k)' - (Ahead(i, k) + 1), Ahead(i, k) + 1,
                        disp'[n], disp[m])
  BY <1>1, <1>3, <1>4 DEF Fair
<1>10. CASE disp[n] = 0
  <2>1. plan' = plan /\ disp'[n] = Base
    BY <1>1, <1>10
  <2>2. Got(n)' = Got(n) /\ Got(m)' = Got(m)
    BY <2>1 DEF Got
  <2>3. Lead(i, k)' - (Ahead(i, k) + 1) = (Lead(i, k) - Ahead(i, k)) - 1
    BY <1>4, <1>6, <1>7, <2>2
  <2>4. Lead(i, k) - Ahead(i, k) \in Int
    BY <1>4, <1>5
  <2> QED
    BY <1>2, <1>3, <1>4, <1>8, <1>10, <2>1, <2>3, <2>4, SkipBalances
<1>11. CASE disp[n] # 0
  <2>1. plan' = Append(plan, n) /\ plan \in Seq(Activos) /\ disp'[n] = disp[n] - 1
    BY <1>1, <1>11 DEF TypeOK
  <2>2. Got(n)' = Got(n) + 1 /\ Got(m)' = Got(m)
    <3>1. /\ Got(n)' = Got(n) + (IF n = n THEN 1 ELSE 0)
          /\ Got(m)' = Got(m) + (IF m = n THEN 1 ELSE 0)
      BY <2>1, GotAppend
    <3> QED
      BY <1>1, <1>6, <3>1
  <2>3. Lead(i, k)' - (Ahead(i, k) + 1) = Lead(i, k) - Ahead(i, k)
    BY <1>4, <1>6, <1>7, <2>2
  <2>4. Lead(i, k) - Ahead(i, k) \in Int
    BY <1>4, <1>5
  <2> QED
    BY <1>2, <1>3, <1>4, <1>8, <1>11, <2>1, <2>3, <2>4, AssignBalances, SMTT(30)
<1> QED
  BY <1>10, <1>11

\* Nothing was given out, and every counter is 0.
LEMMA EvenInit == Init => EvenInv
<1> SUFFICES ASSUME Init PROVE EvenInv
  OBVIOUS
<1>1. TypeOK /\ plan = <<>> /\ contador = 0 /\ posicion = Start
  BY TypeInit, StartIsPosicion DEF Init
<1>2. Start \in 1 .. Len(lista) /\ Len(lista) \in Nat \ {0}
  BY <1>1, ListsType DEF TypeOK
<1>3. ASSUME NEW i \in 1 .. Len(lista) PROVE Counted(i)
  BY <1>1, <1>2 DEF Counted, Since
<1>4. ASSUME NEW i \in 1 .. Len(lista), NEW k \in 1 .. Len(lista)
      PROVE  Fair(i, k)
  <2>1. Rank(posicion) = 0 /\ Turn(i) = 0 /\ Turn(k) = 0
    BY <1>1, <1>2 DEF Rank, Turn
  <2>2. Ahead(i, k) = 0
    BY <2>1 DEF Ahead
  <2>3. \A n : Got(n) = 0
    <3>1. \A n : {j \in 1 .. Len(plan) : plan[j] = n} = {}
      BY <1>1
    <3> QED
      BY <3>1, FS_EmptySet DEF Got
  <2>4. Lead(i, k) = 0
    BY <2>3 DEF Lead
  <2>5. lista[i] \in Activos /\ lista[k] \in Activos /\ Activos \subseteq Node
    BY <1>1, ActivosType DEF TypeOK
  <2>6. \A n \in Node : Disponibilidad(n) \in Int
    BY <1>1, PlannerAssumption DEF TypeOK, Disponibilidad
  <2>7. /\ disp[lista[i]] = Disponibilidad(lista[i])
        /\ disp[lista[k]] = Disponibilidad(lista[k])
    BY <2>5 DEF Init
  <2>8. disp[lista[i]] - disp[lista[k]] = Given(i, k) /\ Given(i, k) \in Int
    BY <2>5, <2>6, <2>7 DEF Given
  <2>9. Atleast0(Given(i, k)) \in Nat /\ Atleast0(-Given(i, k)) \in Nat
    <3>1. -Given(i, k) \in Int
      BY <2>8
    <3> QED
      BY <2>8, <3>1, Atleast0Type
  <2>10. Base * 0 = 0
    BY PlannerAssumption
  <2> QED
    BY <2>2, <2>4, <2>8, <2>9, <2>10 DEF Fair, Balanced
<1> QED
  BY <1>1, <1>2, <1>3, <1>4 DEF EvenInv
\* A pass of the loop keeps what is said of two workers that keep every block.
LEMMA FairNext ==
  ASSUME TypeOK, EvenInv, Next,
         NEW i \in 1 .. Len(lista), NEW k \in 1 .. Len(lista), i # k, Keeper(i), Keeper(k)
  PROVE  Fair(i, k)'
<1>1. /\ Start \in 1 .. Len(lista) /\ Len(lista) \in Nat \ {0} /\ posicion \in 1 .. Len(lista)
      /\ Move
  BY ListsType DEF EvenInv, TypeOK, Next, SkipEmpty, Assign, Advance
<1>2. /\ Given(i, k) \in Int /\ Given(i, k)' = Given(i, k)
      /\ Given(k, i) \in Int /\ Given(k, i)' = Given(k, i) /\ Given(i, k) = -Given(k, i)
  BY <1>1, StayTheSame DEF Move
<1>3. PICK n \in Activos, m \in Activos :
        n = lista[i] /\ m = lista[k] /\ n # m /\ n = lista'[i] /\ m = lista'[k]
  <2>1. \A a, b \in 1 .. Len(lista) : lista[a] = lista[b] => a = b
    BY DEF TypeOK, Lists
  <2> QED
    BY <1>1, <2>1, ActivosType DEF TypeOK, Move, given
<1>4. disp[n] \in Nat /\ disp[m] \in Nat
  BY <1>3 DEF TypeOK
<1>5. CASE SkipEmpty \/ Assign
  <2>1. \/ /\ disp[Worker] = 0 /\ plan' = plan
           /\ disp' = [disp EXCEPT ![Worker] = Base]
        \/ /\ disp[Worker] # 0 /\ plan' = Append(plan, Worker)
           /\ disp' = [disp EXCEPT ![Worker] = @ - 1]
    BY <1>5 DEF SkipEmpty, Assign
  <2>2. Worker \in Activos /\ disp \in [Activos -> Nat]
    BY ActivosType DEF TypeOK, Worker
  <2>3. CASE posicion = i
    <3>1. Worker = n
      BY <1>3, <2>3 DEF Worker
    <3>2. disp'[m] = disp[m]
      BY <1>3, <2>1, <2>2, <3>1
    <3>3. \/ disp[n] = 0 /\ disp'[n] = Base /\ plan' = plan
          \/ disp[n] # 0 /\ disp'[n] = disp[n] - 1 /\ plan' = Append(plan, n)
      BY <2>1, <2>2, <3>1
    <3> QED
      BY <1>1, <1>3, <2>3, <3>2, <3>3, TurnKeeps
  <2>4. CASE posicion = k
    <3>1. Worker = m
      BY <1>3, <2>4 DEF Worker
    <3>2. disp'[n] = disp[n]
      BY <1>3, <2>1, <2>2, <3>1
    <3>3. \/ disp[m] = 0 /\ disp'[m] = Base /\ plan' = plan
          \/ disp[m] # 0 /\ disp'[m] = disp[m] - 1 /\ plan' = Append(plan, m)
      BY <2>1, <2>2, <3>1
    <3>4. Fair(k, i)'
      BY <1>1, <1>3, <2>4, <3>2, <3>3, TurnKeeps
    <3>5. Balanced(Given(k, i), Lead(k, i)' - Ahead(k, i)', Ahead(k, i)', disp'[m], disp'[n])
      BY <1>2, <1>3, <3>4 DEF Fair
    <3>6. /\ Lead(k, i)' \in Int /\ Lead(i, k)' = -(Lead(k, i)')
          /\ Ahead(k, i)' \in {-1, 0, 1} /\ Ahead(i, k)' = -(Ahead(k, i)')
          /\ disp'[m] \in Nat /\ disp'[n] \in Nat
      <4>1. TypeOK'
        BY TypeNext
      <4>2. Got(n)' \in Nat /\ Got(m)' \in Nat
        <5>1. plan' \in Seq(Activos)
          BY <1>1, <4>1 DEF TypeOK, Move, given, Activos
        <5>2. Len(plan') \in Nat /\ IsFiniteSet(1 .. Len(plan'))
          BY <5>1, FS_Interval
        <5>3. \A w : IsFiniteSet({j \in 1 .. Len(plan') : plan'[j] = w})
          BY <5>2, FS_Subset
        <5> QED
          BY <5>3, FS_CardinalityType DEF Got
      <4>3. Lead(i, k)' = Got(n)' - Got(m)' /\ Lead(k, i)' = Got(m)' - Got(n)'
        BY <1>3 DEF Lead, Got
      <4>4. Turn(i)' \in {0, 1} /\ Turn(k)' \in {0, 1}
        BY DEF Turn
      <4>5. Ahead(i, k)' = Turn(i)' - Turn(k)' /\ Ahead(k, i)' = Turn(k)' - Turn(i)'
        BY DEF Ahead
      <4>6. disp' \in [Activos -> Nat]
        BY <1>1, <4>1 DEF TypeOK, Move, given, Activos
      <4> QED
        BY <1>3, <4>2, <4>3, <4>4, <4>5, <4>6
    <3>7. Balanced(-Given(k, i), -(Lead(k, i)' - Ahead(k, i)'), -(Ahead(k, i)'), disp'[n], disp'[m])
      <4>1. Lead(k, i)' - Ahead(k, i)' \in Int
        BY <3>6
      <4> QED
        BY <1>2, <3>5, <3>6, <4>1, BalancedBack
    <3>8. -(Lead(k, i)' - Ahead(k, i)') = Lead(i, k)' - Ahead(i, k)'
      BY <3>6
    <3>9. Balanced(Given(i, k), Lead(i, k)' - Ahead(i, k)', Ahead(i, k)', disp'[n], disp'[m])
      BY <1>2, <3>6, <3>7, <3>8
    <3> QED
      BY <1>2, <1>3, <3>9 DEF Fair
  <2>5. CASE posicion # i /\ posicion # k
    <3>1. Worker # n /\ Worker # m
      <4>1. \A a, b \in 1 .. Len(lista) : lista[a] = lista[b] => a = b
        BY DEF TypeOK, Lists
      <4> QED
        BY <1>1, <1>3, <2>5, <4>1 DEF Worker
    <3>2. disp'[n] = disp[n] /\ disp'[m] = disp[m]
      BY <2>1, <2>2, <3>1
    <3>3. Got(n)' = Got(n) /\ Got(m)' = Got(m)
      <4>1. CASE plan' = plan
        BY <4>1 DEF Got
      <4>2. CASE plan' = Append(plan, Worker)
        <5>1. PICK w \in Activos : w = Worker
          BY <2>2
        <5>2. /\ Got(n) \in Nat /\ Got(n)' = Got(n) + (IF n = w THEN 1 ELSE 0)
              /\ Got(m) \in Nat /\ Got(m)' = Got(m) + (IF m = w THEN 1 ELSE 0)
          BY <4>2, <5>1, GotAppend DEF TypeOK
        <5> QED
          BY <3>1, <5>1, <5>2
      <4> QED
        BY <2>1, <4>1, <4>2
    <3>4. Lead(i, k)' = Lead(i, k)
      BY <1>3, <3>3 DEF Lead, Got
    <3>5. Ahead(i, k)' = Ahead(i, k)
      <4>1. Ahead(i, k)' = Ahead(i, k) + (IF i = posicion THEN 1 ELSE 0)
                                      - (IF k = posicion THEN 1 ELSE 0)
        BY <1>1, PassMoves
      <4>2. Turn(i) \in {0, 1} /\ Turn(k) \in {0, 1}
        BY DEF Turn
      <4>3. Ahead(i, k) \in Int
        BY <4>2 DEF Ahead
      <4> QED
        BY <2>5, <4>1, <4>3
    <3>6. Fair(i, k)
      BY DEF EvenInv
    <3> QED
      BY <1>2, <1>3, <3>2, <3>4, <3>5, <3>6 DEF Fair
  <2> QED
    BY <2>3, <2>4, <2>5
<1>6. CASE Advance
  <2>1. posicion # i /\ posicion # k
    <3>1. Len(plan) \in Block
      <4>1. Len(plan) \in Nat /\ Len(plan) <= NumBlocks /\ Len(plan) # NumBlocks
        BY <1>6 DEF TypeOK, Advance, Done
      <4> QED
        BY <4>1, AssignmentAssumption DEF Block
    <3>2. ~Keeper(posicion)
      BY <1>6, <3>1 DEF Advance, HasCopy, Worker, Keeper
    <3> QED
      BY <3>2
  <2>2. Got(n)' = Got(n) /\ Got(m)' = Got(m)
    BY <1>6 DEF Advance, Got
  <2>3. Lead(i, k)' = Lead(i, k)
    BY <1>3, <2>2 DEF Lead, Got
  <2>4. Ahead(i, k)' = Ahead(i, k)
    <3>1. Ahead(i, k)' = Ahead(i, k) + (IF i = posicion THEN 1 ELSE 0)
                                    - (IF k = posicion THEN 1 ELSE 0)
      BY <1>1, PassMoves
    <3>2. Turn(i) \in {0, 1} /\ Turn(k) \in {0, 1}
      BY DEF Turn
    <3>3. Ahead(i, k) \in Int
      BY <3>2 DEF Ahead
    <3> QED
      BY <2>1, <3>1, <3>3
  <2>5. Balanced(Given(i, k), Lead(i, k) - Ahead(i, k), Ahead(i, k), disp[n], disp[m])
    BY <1>3 DEF EvenInv, Fair
  <2>6. SUFFICES Balanced(Given(i, k), Lead(i, k) - Ahead(i, k), Ahead(i, k), disp'[n], disp'[m])
    BY <1>2, <1>3, <2>3, <2>4 DEF Fair
  <2>7. CASE disp' = disp
    BY <2>5, <2>7
  <2>8. CASE contador + 1 = Len(lista) /\ disp' = [w \in Activos |-> disp[w] + Base]
    <3>1. /\ i # posicion => Since(i) < Len(lista) - 1
          /\ k # posicion => Since(k) < Len(lista) - 1
      BY <1>1, PassMoves
    <3>2. contador = Len(lista) - 1
      BY <1>1, <2>8 DEF TypeOK
    <3>3. contador > Since(i) /\ contador > Since(k)
      <4>1. Since(i) \in Nat /\ Since(k) \in Nat
        BY <1>1, PassMoves
      <4> QED
        BY <1>1, <2>1, <3>1, <3>2, <4>1
    <3>4. disp[n] = Base /\ disp[m] = Base
      BY <1>3, <3>3 DEF EvenInv, Counted
    <3>5. disp'[n] = Base + Base /\ disp'[m] = Base + Base
      BY <2>8, <3>4
    <3>6. Base # 0 /\ Base + Base # 0 /\ Base - Base = (Base + Base) - (Base + Base)
      BY PlannerAssumption
    <3>7. Balanced(Given(i, k), Lead(i, k) - Ahead(i, k), Ahead(i, k), Base, Base)
      BY <2>5, <3>4
    <3> QED
      BY <3>5, <3>6, <3>7 DEF Balanced
  <2> QED
    BY <1>6, <2>7, <2>8 DEF Advance
<1> QED
  BY <1>5, <1>6 DEF Next

\* A pass of the loop counts, or starts counting again.
LEMMA CountedNext ==
  ASSUME TypeOK, EvenInv, Next, NEW i \in 1 .. Len(lista), Keeper(i)
  PROVE  Counted(i)'
<1>1. /\ Start \in 1 .. Len(lista) /\ Len(lista) \in Nat \ {0} /\ posicion \in 1 .. Len(lista)
      /\ Move /\ lista' = lista
  BY ListsType DEF EvenInv, TypeOK, Next, SkipEmpty, Assign, Advance, Move, given
<1>2. /\ Since(i) \in Nat /\ (i = posicion => Since(i)' = 0)
      /\ i # posicion => Since(i)' = Since(i) + 1
  BY <1>1, PassMoves
<1>3. Since(i)' \in Nat
  BY <1>2
<1>4. CASE contador' = 0
  BY <1>3, <1>4 DEF Counted
<1>5. lista[i] \in Activos /\ \A a, b \in 1 .. Len(lista) : lista[a] = lista[b] => a = b
  <2>1. \A a, b \in 1 .. Len(lista) : lista[a] = lista[b] => a = b
    BY DEF TypeOK, Lists
  <2> QED
    BY <2>1, ActivosType DEF TypeOK
<1>6. CASE SkipEmpty
  <2>1. CASE posicion = i
    <3>1. disp'[lista[i]] = Base
      BY <1>5, <1>6, <2>1 DEF SkipEmpty, Worker, TypeOK
    <3> QED
      BY <1>1, <3>1 DEF Counted
  <2>2. CASE posicion # i
    <3>1. disp'[lista[i]] = disp[lista[i]]
      <4>1. Worker # lista[i]
        BY <1>1, <1>5, <2>2 DEF Worker
      <4> QED
        BY <1>5, <1>6, <4>1 DEF SkipEmpty, TypeOK
    <3>2. contador' = contador + 1 /\ contador \in Nat
      BY <1>6 DEF SkipEmpty, TypeOK
    <3>3. Counted(i)
      BY DEF EvenInv
    <3>4. contador' > Since(i)' => contador > Since(i)
      BY <1>2, <2>2, <3>2
    <3> QED
      BY <1>1, <3>1, <3>3, <3>4 DEF Counted
  <2> QED
    BY <2>1, <2>2
<1>7. CASE Assign
  BY <1>4, <1>7 DEF Assign
<1>8. CASE Advance
  <2>1. CASE contador' = contador + 1 /\ disp' = disp
    <3>1. posicion # i
      <4>1. Len(plan) \in Block
        <5>1. Len(plan) \in Nat /\ Len(plan) <= NumBlocks /\ Len(plan) # NumBlocks
          BY <1>8 DEF TypeOK, Advance, Done
        <5> QED
          BY <5>1, AssignmentAssumption DEF Block
      <4>2. ~Keeper(posicion)
        BY <1>8, <4>1 DEF Advance, HasCopy, Worker, Keeper
      <4> QED
        BY <4>2
    <3>2. Counted(i) /\ contador \in Nat
      BY DEF EvenInv, TypeOK
    <3>3. contador' > Since(i)' => contador > Since(i)
      BY <1>2, <2>1, <3>1, <3>2
    <3> QED
      BY <1>1, <2>1, <3>2, <3>3 DEF Counted
  <2> QED
    BY <1>4, <1>8, <2>1 DEF Advance
<1> QED
  BY <1>6, <1>7, <1>8 DEF Next

\* Every step keeps the invariant.
LEMMA EvenNext == TypeOK /\ EvenInv /\ [Next]_vars => EvenInv'
<1> SUFFICES ASSUME TypeOK, EvenInv, [Next]_vars PROVE EvenInv'
  OBVIOUS
<1>1. CASE UNCHANGED vars
  <2>1. /\ lista' = lista /\ posicion' = posicion /\ disp' = disp /\ plan' = plan
        /\ copias' = copias /\ contador' = contador /\ UNCHANGED given
    BY <1>1 DEF vars, given
  <2>2. Start' = Start
    <3>1. \A p, k : Before(p, k)' = Before(p, k)
      BY <2>1 DEF given, Before, Disponibilidad
    <3> QED
      BY <2>1, <3>1 DEF Start
  <2>3. \A i \in 1 .. Len(lista) : Keeper(i)' = Keeper(i) /\ Counted(i)' = Counted(i)
    BY <2>1 DEF Keeper, Counted, Since
  <2>4. ASSUME NEW i \in 1 .. Len(lista), NEW k \in 1 .. Len(lista)
        PROVE  Fair(i, k)' = Fair(i, k)
    <3>1. Ahead(i, k)' = Ahead(i, k)
      BY <2>1, <2>2 DEF Ahead, Turn, Rank
    <3>2. Lead(i, k)' = Lead(i, k)
      BY <2>1 DEF Lead, Got
    <3>3. Given(i, k)' = Given(i, k)
      BY <2>1, StayTheSame
    <3> QED
      BY <2>1, <3>1, <3>2, <3>3 DEF Fair
  <2> QED
    BY <2>1, <2>2, <2>3, <2>4 DEF EvenInv
<1>2. CASE Next
  <2>1. Move /\ Start \in 1 .. Len(lista)
    BY <1>2 DEF EvenInv, Next, SkipEmpty, Assign, Advance
  <2>2. UNCHANGED given /\ lista' = lista
    BY <2>1 DEF Move, given
  <2>3. Start' \in 1 .. Len(lista')
    <3>1. Start' = Start
      BY <2>1, PassMoves
    <3> QED
      BY <2>1, <2>2, <3>1
  <2>4. \A i \in 1 .. Len(lista) : Keeper(i)' = Keeper(i)
    BY <2>2, StayTheSame
  <2>5. \A i \in 1 .. Len(lista) : Keeper(i) => Counted(i)'
    BY <1>2, CountedNext
  <2>6. \A i, k \in 1 .. Len(lista) : i # k /\ Keeper(i) /\ Keeper(k) => Fair(i, k)'
    BY <1>2, FairNext
  <2> QED
    BY <2>2, <2>3, <2>4, <2>5, <2>6 DEF EvenInv
<1> QED
  BY <1>1, <1>2

\* The invariant says what the property does.
LEMMA EvenFollows == TypeOK /\ EvenInv => Even
<1> SUFFICES ASSUME TypeOK, EvenInv, NEW n \in Activos, NEW m \in Activos,
                    \A b \in Block : {n, m} \subseteq copias[b]
             PROVE  Got(n) <= Got(m) + 1 + (IF algoritmo = "WCLOCK" /\ carga[n] < carga[m]
                                            THEN carga[m] - carga[n] ELSE 0)
  BY DEF Even
<1>1. PICK i \in 1 .. Len(lista), k \in 1 .. Len(lista) : n = lista[i] /\ m = lista[k]
  BY DEF Activos
<1>2. Got(n) \in Nat /\ Got(m) \in Nat
  BY GotType DEF TypeOK
<1>3. /\ carga[n] \in Nat /\ carga[m] \in Nat /\ cargaMax \in Nat /\ Base \in Nat
      /\ disp[n] \in Nat /\ disp[m] \in Nat /\ algoritmo \in {"CLOCK", "WCLOCK"}
  BY ActivosType, PlannerAssumption DEF TypeOK
<1>4. CASE n = m
  BY <1>2, <1>3, <1>4
<1>5. CASE n # m
  <2>1. Fair(i, k)
    BY <1>1, <1>5 DEF EvenInv, Keeper
  <2>2. Given(i, k) = IF algoritmo = "CLOCK" THEN 0 ELSE carga[m] - carga[n]
    BY <1>1, <1>3 DEF Given, Disponibilidad
  <2>3. Ahead(i, k) \in {-1, 0, 1}
    <3>1. Turn(i) \in {0, 1} /\ Turn(k) \in {0, 1}
      BY DEF Turn
    <3> QED
      BY <3>1 DEF Ahead
  <2>4. Lead(i, k) = Got(n) - Got(m)
    BY <1>1 DEF Lead
  <2>5. Lead(i, k) - Ahead(i, k) + (IF Ahead(i, k) = 1 /\ disp[m] = 0 THEN 1 ELSE 0)
          - (IF Ahead(i, k) = -1 /\ disp[n] = 0 THEN 1 ELSE 0) <= Atleast0(Given(i, k))
    BY <1>1, <2>1 DEF Fair, Balanced
  <2>6. Lead(i, k) <= Atleast0(Given(i, k)) + 1
    <3>1. Lead(i, k) \in Int /\ Given(i, k) \in Int
      BY <1>2, <1>3, <2>2, <2>4
    <3>2. Atleast0(Given(i, k)) \in Nat
      BY <3>1, Atleast0Type
    <3> QED
      BY <2>3, <2>5, <3>1, <3>2
  <2> QED
    BY <1>2, <1>3, <2>2, <2>4, <2>6 DEF Atleast0
<1> QED
  BY <1>4, <1>5

\* CLOCK and WCLOCK are even, for any loads and any DISP_BASE: of two workers
\* that keep every block neither gets more than one block more than the other
\* and what it was less loaded by, though availabilities are refilled in two ways,
\* by a skip and by a round without assignment.
THEOREM PlansAreEven == Spec => []Even
<1>1. Init => EvenInv
  BY EvenInit
<1>2. TypeOK /\ EvenInv /\ [Next]_vars => EvenInv'
  BY EvenNext
<1>3. TypeOK /\ EvenInv => Even
  BY EvenFollows
<1> QED
  BY <1>1, <1>2, <1>3, TypeCorrect, PTL DEF Spec
=============================================================================
