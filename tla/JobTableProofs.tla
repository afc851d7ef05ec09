--------------------------- MODULE JobTableProofs ---------------------------
(***************************************************************************)
(* Proofs about module JobTable, for any jobs, nodes, blocks and faults.   *)
(***************************************************************************)
EXTENDS JobTable, FoldProofs

Stages == Block \cup {Local, Global, Final}
Task == [nodo : Node, block : Stages]
Answer == [task : Task, ok : BOOLEAN]
State == [job : Job, nodo : Node, block : Stages,
          estado : {"proceso", "ok", "error"}, files : SUBSET Block]

TypeOK ==
  /\ estados \in Seq(State)
  /\ known \subseteq Node /\ activos \subseteq Node
  /\ actual \in [Node -> Int] /\ porJob \in [Node -> [Job -> Nat \cup {None}]]
  /\ yama \in {"running", "crashed", "hung", "exit"}
  /\ phase \in [Job -> {"new", "running", "gone", "closed"}]
  /\ told \in [Job -> BOOLEAN] /\ tasks \in [Job -> SUBSET Task]
  /\ toYama \in [Job -> Seq(Answer)]
  /\ alive \subseteq Node /\ present \in BOOLEAN /\ faults \in Nat /\ downs \in Nat

\* What a job's Master works on or has reported.
Reports(q) == {q[i].task : i \in DOMAIN q}
Reported(j) == Reports(toYama[j])
Outstanding(j) == tasks[j] \cup Reported(j)

\* Each of them has its entry.
Rooted(j) == \A t \in Outstanding(j) : \E k \in OfNode(estados, j, t.nodo) :
  estados[k].block = t.block

Free(j) == \A n \in Node : porJob[n][j] \in {None, 0}

Begun(j) == phase[j] = "new" => OfJob(estados, j) = {} /\ Outstanding(j) = {} /\ Free(j)

InProcess(j) == {k \in OfJob(estados, j) : estados[k].estado = "proceso"}

\* A node with load works on the job, or has a local reduction of it.
Works(j, n) == \E k \in OfNode(estados, j, n) :
  estados[k].estado = "proceso" \/ estados[k].block = Local
Carrying(j) == \A n \in Node : porJob[n][j] \notin {None, 0} => Works(j, n)
Ended(j) == InProcess(j) = {} => Free(j)
Closed(j) == phase[j] = "closed" => toYama[j] = <<>> /\ Free(j)

Sound(j) ==
  /\ Rooted(j) /\ Begun(j) /\ Closed(j)
  /\ yama = "running" => Carrying(j) /\ Ended(j)
IInv == TypeOK /\ \A j \in Job : Sound(j)
-----------------------------------------------------------------------------
(* Operators.                                                              *)

\* A finite set has a first element by f, and by g among those alike in f.
LEMMA LeastOf ==
  ASSUME NEW S, IsFiniteSet(S), S # {}, NEW f, NEW g,
         \A x \in S : f[x] \in Int /\ g[x] \in Int
  PROVE  \E x \in S : \A y \in S : f[x] < f[y] \/ (f[x] = f[y] /\ g[x] <= g[y])
<1>. DEFINE B == {T \in SUBSET S : T # {} /\ ~ \E x \in T : \A y \in T :
                                     f[x] < f[y] \/ (f[x] = f[y] /\ g[x] <= g[y])}
<1>1. SUFFICES ASSUME B # {} PROVE FALSE
  OBVIOUS
<1>2. PICK T \in B : \A x \in T : T \ {x} \notin B
  <2>1. B \subseteq SUBSET S
    OBVIOUS
  <2>. HIDE DEF B
  <2>. QED BY <1>1, <2>1, SmallestSet
<1>3. PICK z : z \in T
  OBVIOUS
<1>4. CASE T = {z}
  <2>1. f[z] = f[z] /\ g[z] <= g[z]
    BY <1>3
  <2>. QED BY <1>4, <2>1
<1>5. CASE T # {z}
  <2>1. T \ {z} # {} /\ T \ {z} \in SUBSET S /\ T \ {z} \notin B
    BY <1>2, <1>3, <1>5
  <2>2. PICK x \in T \ {z} : \A y \in T \ {z} :
          f[x] < f[y] \/ (f[x] = f[y] /\ g[x] <= g[y])
    BY <2>1
  <2>3. x \in S /\ z \in S
    BY <1>3
  <2>4. CASE f[x] < f[z] \/ (f[x] = f[z] /\ g[x] <= g[z])
    <3>1. \A y \in T : f[x] < f[y] \/ (f[x] = f[y] /\ g[x] <= g[y])
      BY <2>2, <2>4
    <3>. QED BY <3>1
  <2>5. CASE ~(f[x] < f[z] \/ (f[x] = f[z] /\ g[x] <= g[z]))
    <3>1. ASSUME NEW y \in T PROVE f[z] < f[y] \/ (f[z] = f[y] /\ g[z] <= g[y])
      <4>1. y = z \/ (f[x] < f[y] \/ (f[x] = f[y] /\ g[x] <= g[y]))
        BY <2>2
      <4>2. y \in S
        OBVIOUS
      <4>. HIDE DEF B
      <4>. QED BY <2>3, <2>5, <4>1, <4>2
    <3>. QED BY <1>3, <3>1
  <2>. QED BY <2>4, <2>5
<1>. QED BY <1>4, <1>5

\* A finite set of integers has a least element.
LEMMA Least ==
  ASSUME NEW S, IsFiniteSet(S), S # {}, S \subseteq Int
  PROVE  \E x \in S : \A y \in S : x <= y
<1>. DEFINE f == [x \in S |-> x]
<1>1. \A x \in S : f[x] \in Int
  OBVIOUS
<1>. HIDE DEF f
<1>2. PICK x \in S : \A y \in S : f[x] < f[y] \/ (f[x] = f[y] /\ f[x] <= f[y])
  BY <1>1, LeastOf
<1>3. \A y \in S : f[y] = y
  BY DEF f
<1>. QED BY <1>2, <1>3

\* What SelectInSeq returns when it picks a position of I.
LEMMA Picked ==
  ASSUME NEW n \in Nat, NEW I, I \subseteq 1 .. n
  PROVE  LET k == IF I # {} THEN Min(I) ELSE 0 IN
         /\ k \in 0 .. n
         /\ IF I = {} THEN k = 0 ELSE k \in I /\ \A i \in I : k <= i
<1>1. IsFiniteSet(I) /\ I \subseteq Int
  <2>1. IsFiniteSet(1 .. n)
    BY FS_Interval
  <2>2. I \subseteq Int
    OBVIOUS
  <2>. QED BY <2>1, <2>2, FS_Subset
<1>2. CASE I # {}
  <2>1. \E x \in I : \A y \in I : x <= y
    BY <1>1, <1>2, Least
  <2>2. Min(I) \in I /\ \A i \in I : Min(I) <= i
    BY <2>1 DEF Min
  <2>3. \A x \in I : x \in 0 .. n
    OBVIOUS
  <2>. QED BY <1>2, <2>2, <2>3
<1>3. CASE I = {}
  <2>1. 0 \in 0 .. n
    OBVIOUS
  <2>. QED BY <1>3, <2>1
<1>. QED BY <1>2, <1>3
\* Where the first entry of j for t is.
At(tab, j, t) ==
  LET I == {i \in 1 .. Len(tab) :
              tab[i].job = j /\ tab[i].nodo = t.nodo /\ tab[i].block = t.block}
  IN  IF I # {} THEN Min(I) ELSE 0

\* actualizoTablaEstado changes the state of that entry.
LEMMA UpdateIs ==
  ASSUME NEW tab, NEW j, NEW t, NEW e
  PROVE  Update(tab, j, t, e) = [tab EXCEPT ![At(tab, j, t)].estado = e]
  BY DEF Update, SelectInSeq, At

\* It is one of that task, if there is any.
LEMMA AtIs ==
  ASSUME NEW tab \in Seq(State), NEW j, NEW t
  PROVE  /\ At(tab, j, t) \in 0 .. Len(tab)
         /\ At(tab, j, t) \in DOMAIN tab => LET k == At(tab, j, t) IN
              tab[k].job = j /\ tab[k].nodo = t.nodo /\ tab[k].block = t.block
         /\ At(tab, j, t) = 0 => \A i \in DOMAIN tab :
              ~(tab[i].job = j /\ tab[i].nodo = t.nodo /\ tab[i].block = t.block)
<1>. DEFINE I == {i \in 1 .. Len(tab) :
                    tab[i].job = j /\ tab[i].nodo = t.nodo /\ tab[i].block = t.block}
<1>1. Len(tab) \in Nat /\ I \subseteq 1 .. Len(tab) /\ DOMAIN tab = 1 .. Len(tab)
  OBVIOUS
<1>2. PICK k : k = IF I # {} THEN Min(I) ELSE 0
  OBVIOUS
<1>3. k \in 0 .. Len(tab) /\ IF I = {} THEN k = 0 ELSE k \in I /\ \A i \in I : k <= i
  <2>. HIDE DEF I
  <2>. QED BY <1>1, <1>2, Picked
<1>4. At(tab, j, t) = k
  BY <1>2 DEF At
<1>5. 0 \notin 1 .. Len(tab)
  OBVIOUS
<1>. QED BY <1>1, <1>3, <1>4, <1>5

\* What an update leaves, and that it reaches an entry of that task.
LEMMA UpdateKeeps ==
  ASSUME NEW tab \in Seq(State), NEW j, NEW t, NEW e \in {"proceso", "ok", "error"}
  PROVE  LET u == Update(tab, j, t, e) IN
         /\ u \in Seq(State) /\ Len(u) = Len(tab)
         /\ \A i \in DOMAIN tab :
              /\ u[i].job = tab[i].job /\ u[i].nodo = tab[i].nodo
              /\ u[i].block = tab[i].block /\ u[i].files = tab[i].files
              /\ u[i] = tab[i] \/ (/\ u[i].estado = e /\ tab[i].job = j
                                   /\ tab[i].nodo = t.nodo /\ tab[i].block = t.block)
<1>1. PICK k : k = At(tab, j, t)
  OBVIOUS
<1>2. PICK u : u = Update(tab, j, t, e)
  OBVIOUS
<1>3. u = [tab EXCEPT ![k].estado = e]
  BY <1>1, <1>2, UpdateIs
<1>4. k \in DOMAIN tab => tab[k].job = j /\ tab[k].nodo = t.nodo /\ tab[k].block = t.block
  BY <1>1, AtIs
<1>5. /\ DOMAIN u = DOMAIN tab
      /\ \A i \in DOMAIN tab : u[i] = IF i = k THEN [tab[i] EXCEPT !.estado = e] ELSE tab[i]
  BY <1>3
<1>6. \A i \in DOMAIN tab : tab[i] \in State
  OBVIOUS
<1>7. \A i \in DOMAIN tab : u[i] \in State
  BY <1>5, <1>6 DEF State
<1>8. DOMAIN tab = 1 .. Len(tab) /\ Len(tab) \in Nat
  OBVIOUS
<1>9. u \in [1 .. Len(tab) -> State]
  BY <1>3, <1>5, <1>7, <1>8
<1>10. u \in Seq(State) /\ Len(u) = Len(tab)
  BY <1>8, <1>9
<1>11. \A i \in DOMAIN tab :
              /\ u[i].job = tab[i].job /\ u[i].nodo = tab[i].nodo
              /\ u[i].block = tab[i].block /\ u[i].files = tab[i].files
              /\ u[i] = tab[i] \/ (/\ u[i].estado = e /\ tab[i].job = j
                                   /\ tab[i].nodo = t.nodo /\ tab[i].block = t.block)
  BY <1>4, <1>5, <1>6 DEF State
<1>. QED BY <1>2, <1>10, <1>11
-----------------------------------------------------------------------------
(* What the steps do to the table.                                         *)

\* The entries of s stay in u, which may have more of job j, and changes only
\* the states of its entries.
Grows(j, s, u) ==
  /\ DOMAIN s \subseteq DOMAIN u
  /\ \A k \in DOMAIN s :
       /\ u[k].job = s[k].job /\ u[k].nodo = s[k].nodo /\ u[k].block = s[k].block
       /\ s[k].job # j => u[k] = s[k]
  /\ \A k \in DOMAIN u \ DOMAIN s : u[k].job = j

\* A table is no change of itself.
LEMMA GrowsSame == ASSUME NEW j, NEW s PROVE Grows(j, s, s)
  BY DEF Grows

\* Two changes in a row are a change.
LEMMA GrowsTwice ==
  ASSUME NEW j, NEW s, NEW u, NEW v, Grows(j, s, u), Grows(j, u, v)
  PROVE  Grows(j, s, v)
  BY DEF Grows

\* The entries of another job stay what they are.
LEMMA GrowsOthers ==
  ASSUME NEW j, NEW s, NEW u, Grows(j, s, u), NEW i, i # j
  PROVE  /\ OfJob(u, i) = OfJob(s, i)
         /\ \A k \in OfJob(s, i) : u[k] = s[k]
         /\ \A n : OfNode(u, i, n) = OfNode(s, i, n)
<1>1. \A k \in DOMAIN u : u[k].job = i => k \in DOMAIN s
  BY DEF Grows
<1>2. OfJob(u, i) = OfJob(s, i) /\ \A k \in OfJob(s, i) : u[k] = s[k]
  BY <1>1 DEF Grows, OfJob
<1>3. \A n : OfNode(u, i, n) = OfNode(s, i, n)
  BY <1>2 DEF OfNode
<1>. QED BY <1>2, <1>3

\* No entry of the job is lost, nor its node and block changed.
LEMMA GrowsOwn ==
  ASSUME NEW j, NEW s, NEW u, Grows(j, s, u), NEW n
  PROVE  \A k \in OfNode(s, j, n) : k \in OfNode(u, j, n) /\ u[k].block = s[k].block
  BY DEF Grows, OfNode, OfJob

\* actualizoTablaEstado changes the state of one entry of the job.
LEMMA UpdateGrows ==
  ASSUME NEW s \in Seq(State), NEW j, NEW t, NEW e \in {"proceso", "ok", "error"}
  PROVE  Update(s, j, t, e) \in Seq(State) /\ Grows(j, s, Update(s, j, t, e))
<1>1. PICK u : u = Update(s, j, t, e)
  OBVIOUS
<1>2. u \in Seq(State) /\ Len(u) = Len(s)
  BY <1>1, UpdateKeeps
<1>3. DOMAIN u = DOMAIN s
  BY <1>2
<1>4. \A i \in DOMAIN s :
        /\ u[i].job = s[i].job /\ u[i].nodo = s[i].nodo /\ u[i].block = s[i].block
        /\ u[i] = s[i] \/ s[i].job = j
  BY <1>1, UpdateKeeps
<1>. QED BY <1>1, <1>2, <1>3, <1>4 DEF Grows

\* agregarAtablaEstado adds an entry of the job at the end.
LEMMA AppendGrows ==
  ASSUME NEW s \in Seq(State), NEW e \in State
  PROVE  /\ Append(s, e) \in Seq(State) /\ Grows(e.job, s, Append(s, e))
         /\ Len(s) + 1 \in DOMAIN Append(s, e) /\ Append(s, e)[Len(s) + 1] = e
<1>1. /\ Append(s, e) \in Seq(State) /\ Len(Append(s, e)) = Len(s) + 1 /\ Len(s) \in Nat
      /\ \A k \in 1 .. Len(s) : Append(s, e)[k] = s[k]
      /\ Append(s, e)[Len(s) + 1] = e
  OBVIOUS
<1>2. DOMAIN s = 1 .. Len(s) /\ DOMAIN Append(s, e) = 1 .. Len(s) + 1
  BY <1>1
<1>. HIDE DEF State
<1>. QED BY <1>1, <1>2 DEF Grows

\* The entries of u after those of s are for the tasks of todo.
Added(j, s, todo, u) ==
  /\ \A k \in DOMAIN s : u[k] = s[k]
  /\ \A i \in DOMAIN todo : Len(s) + i \in DOMAIN u /\
       u[Len(s) + i] = Entry(j, todo[i].nodo, todo[i].block, {todo[i].block})
  /\ \A k \in DOMAIN u \ DOMAIN s : k - Len(s) \in DOMAIN todo

\* Entries are added to a table.
LEMMA ConcatGrows ==
  ASSUME NEW s \in Seq(State), NEW j \in Job, NEW todo \in Seq(Task),
         \A i \in DOMAIN todo : todo[i].block \in Block,
         NEW u, u = s \o Entries(j, todo)
  PROVE  u \in Seq(State) /\ Grows(j, s, u) /\ Added(j, s, todo, u)
<1>1. PICK v : v = Entries(j, todo)
  OBVIOUS
<1>2. Len(todo) \in Nat /\ DOMAIN todo = 1 .. Len(todo)
  OBVIOUS
<1>3. \A i \in DOMAIN todo : v[i] = Entry(j, todo[i].nodo, todo[i].block, {todo[i].block})
  BY <1>1 DEF Entries
<1>4. \A i \in DOMAIN todo : v[i] \in State /\ v[i].job = j
  <2>. TAKE i \in DOMAIN todo
  <2>1. todo[i] \in Task
    BY <1>2
  <2>2. todo[i].nodo \in Node /\ todo[i].block \in Block
    BY <2>1 DEF Task
  <2>3. v[i] = [job |-> j, nodo |-> todo[i].nodo, block |-> todo[i].block,
                estado |-> "proceso", files |-> {todo[i].block}]
    BY <1>3 DEF Entry
  <2>4. {todo[i].block} \in SUBSET Block /\ todo[i].block \in Stages
    BY <2>2 DEF Stages
  <2>. QED BY <2>2, <2>3, <2>4 DEF State
<1>5. v \in [1 .. Len(todo) -> State]
  BY <1>1, <1>2, <1>4 DEF Entries
<1>6. v \in Seq(State) /\ Len(v) = Len(todo)
  BY <1>2, <1>5
<1>7. PICK w : w = s \o v /\ w = u
  BY <1>1
<1>. HIDE DEF State
<1>8. /\ w \in Seq(State) /\ Len(w) = Len(s) + Len(todo) /\ Len(s) \in Nat
      /\ \A k \in 1 .. Len(s) : w[k] = s[k]
      /\ \A k \in 1 .. Len(s) + Len(todo) : k > Len(s) => w[k] = v[k - Len(s)]
  <2>1. Len(s) \in Nat
    OBVIOUS
  <2>2. /\ s \o v \in Seq(State) /\ Len(s \o v) = Len(s) + Len(v)
        /\ \A i \in 1 .. Len(s) + Len(v) :
             (s \o v)[i] = IF i <= Len(s) THEN s[i] ELSE v[i - Len(s)]
    BY <1>6, ConcatProperties
  <2>3. w \in Seq(State) /\ Len(w) = Len(s) + Len(todo)
    BY <1>6, <1>7, <2>2
  <2>4. \A i \in 1 .. Len(s) + Len(todo) :
             w[i] = IF i <= Len(s) THEN s[i] ELSE v[i - Len(s)]
    BY <1>6, <1>7, <2>2
  <2>5. \A k \in 1 .. Len(s) : k \in 1 .. Len(s) + Len(todo) /\ k <= Len(s)
    BY <1>2, <2>1
  <2>6. \A k \in 1 .. Len(s) + Len(todo) : k > Len(s) => ~(k <= Len(s))
    BY <1>2, <2>1
  <2>. QED BY <2>1, <2>3, <2>4, <2>5, <2>6
<1>9. DOMAIN s = 1 .. Len(s) /\ DOMAIN w = 1 .. Len(s) + Len(todo)
  BY <1>8
<1>10. \A k \in DOMAIN w \ DOMAIN s : k - Len(s) \in DOMAIN todo /\ w[k] = v[k - Len(s)]
  BY <1>2, <1>8, <1>9
<1>11. \A i \in DOMAIN todo : Len(s) + i \in DOMAIN w /\ w[Len(s) + i] = v[i]
  <2>. TAKE i \in DOMAIN todo
  <2>1. i \in Int /\ Len(s) + i \in 1 .. Len(s) + Len(todo) /\ Len(s) + i > Len(s)
    BY <1>2, <1>8
  <2>2. (Len(s) + i) - Len(s) = i
    BY <2>1, <1>8
  <2>. QED BY <1>8, <1>9, <2>1, <2>2
<1>12. Grows(j, s, w)
  BY <1>4, <1>8, <1>9, <1>10 DEF Grows
<1>13. Added(j, s, todo, w)
  BY <1>3, <1>8, <1>9, <1>10, <1>11 DEF Added
<1>. QED BY <1>7, <1>8, <1>12, <1>13

\* eliminarEstadosMultiples.
LEMMA ErrorsGrow ==
  ASSUME NEW s \in Seq(State), NEW j, NEW u,
         u = [k \in DOMAIN s |->
                IF s[k].job = j THEN [s[k] EXCEPT !.estado = "error"] ELSE s[k]]
  PROVE  /\ u \in Seq(State) /\ Grows(j, s, u)
         /\ \A k \in OfJob(u, j) : u[k].estado = "error"
<1>1. Len(s) \in Nat /\ DOMAIN s = 1 .. Len(s) /\ \A k \in DOMAIN s : s[k] \in State
  OBVIOUS
<1>2. \A k \in DOMAIN s : u[k] \in State
  BY <1>1 DEF State
<1>3. u \in Seq(State)
  BY <1>1, <1>2
<1>4. \A k \in DOMAIN s :
        /\ u[k].job = s[k].job /\ u[k].nodo = s[k].nodo /\ u[k].block = s[k].block
        /\ s[k].job # j => u[k] = s[k]
        /\ s[k].job = j => u[k].estado = "error"
  BY <1>1 DEF State
<1>5. DOMAIN u = DOMAIN s
  OBVIOUS
<1>. QED BY <1>3, <1>4, <1>5 DEF Grows, OfJob
-----------------------------------------------------------------------------
(* A step of one job leaves the others as they were.                       *)

Others(j) ==
  /\ Grows(j, estados, estados')
  /\ yama' = "running" => yama = "running"
  /\ \A i \in Job \ {j} :
       /\ phase'[i] = phase[i] /\ tasks'[i] = tasks[i] /\ toYama'[i] = toYama[i]
       /\ \A n \in Node : porJob'[n][i] = porJob[n][i]

\* The invariant of a job survives the steps of the others.
LEMMA OthersSound ==
  ASSUME IInv, NEW j \in Job, Others(j), NEW i \in Job \ {j}
  PROVE  Sound(i)'
<1>1. Sound(i)
  BY DEF IInv
<1>2. /\ OfJob(estados', i) = OfJob(estados, i)
      /\ \A k \in OfJob(estados, i) : estados'[k] = estados[k]
      /\ \A n : OfNode(estados', i, n) = OfNode(estados, i, n)
  BY GrowsOthers DEF Others
<1>3. /\ phase'[i] = phase[i] /\ tasks'[i] = tasks[i] /\ toYama'[i] = toYama[i]
      /\ \A n \in Node : porJob'[n][i] = porJob[n][i]
  BY DEF Others
<1>4. Outstanding(i)' = Outstanding(i)
  BY <1>3 DEF Outstanding, Reported, Reports
<1>5. Rooted(i)'
  BY <1>1, <1>2, <1>4 DEF Sound, Rooted, OfNode
<1>6. Free(i)' <=> Free(i)
  BY <1>3 DEF Free
<1>7. InProcess(i)' = InProcess(i)
  BY <1>2 DEF InProcess
<1>8. Begun(i)' /\ Closed(i)'
  BY <1>1, <1>2, <1>3, <1>4, <1>6 DEF Sound, Begun, Closed
<1>9. Carrying(i) => Carrying(i)'
  BY <1>2, <1>3, <1>7 DEF Carrying, Works, OfNode
<1>10. Ended(i) => Ended(i)'
  BY <1>6, <1>7 DEF Ended
<1>. QED BY <1>1, <1>5, <1>8, <1>9, <1>10 DEF Sound, Others

\* A step that keeps the types, leaves the other jobs and keeps j sound keeps
\* the invariant.
LEMMA OneJob ==
  ASSUME IInv, NEW j \in Job, TypeOK', Others(j), Sound(j)'
  PROVE  IInv'
  BY OthersSound DEF IInv

\* So does one that touches no job.
LEMMA NoJob ==
  ASSUME IInv, TypeOK', UNCHANGED <<estados, porJob, phase, tasks, toYama>>,
         yama' = "running" => yama = "running"
  PROVE  IInv'
<1>1. ASSUME NEW j \in Job PROVE Sound(j)'
  <2>1. Sound(j)
    BY DEF IInv
  <2>2. Outstanding(j)' = Outstanding(j) /\ InProcess(j)' = InProcess(j)
    BY DEF Outstanding, Reported, Reports, InProcess
  <2>3. Free(j)' <=> Free(j)
    BY DEF Free
  <2>. QED BY <2>1, <2>2, <2>3 DEF Sound, Rooted, Begun, Closed, Carrying, Works,
       Ended
<1>. QED BY <1>1 DEF IInv
-----------------------------------------------------------------------------
(* The Masters and the FileSystem.                                         *)

\* An answer sent is reported, after those before it.
LEMMA ReportsAppend ==
  ASSUME NEW q \in Seq(Answer), NEW a \in Answer
  PROVE  Append(q, a) \in Seq(Answer) /\ Reports(Append(q, a)) = Reports(q) \cup {a.task}
<1>1. /\ Append(q, a) \in Seq(Answer) /\ Len(Append(q, a)) = Len(q) + 1 /\ Len(q) \in Nat
      /\ \A k \in 1 .. Len(q) : Append(q, a)[k] = q[k]
      /\ Append(q, a)[Len(q) + 1] = a
  BY AppendProperties
<1>2. DOMAIN q = 1 .. Len(q) /\ DOMAIN Append(q, a) = (1 .. Len(q)) \cup {Len(q) + 1}
  BY <1>1
<1>. QED BY <1>1, <1>2 DEF Reports

\* Reading an answer leaves those after it.
LEMMA ReportsTail ==
  ASSUME NEW q \in Seq(Answer), q # <<>>
  PROVE  /\ Head(q) \in Answer /\ Tail(q) \in Seq(Answer)
         /\ Reports(q) = Reports(Tail(q)) \cup {Head(q).task}
<1>1. /\ Head(q) \in Answer /\ Tail(q) \in Seq(Answer) /\ Len(q) \in Nat \ {0}
      /\ Len(Tail(q)) = Len(q) - 1
      /\ \A k \in 1 .. Len(q) - 1 : Tail(q)[k] = q[k + 1]
      /\ Head(q) = q[1]
  BY HeadTailProperties
<1>2. DOMAIN q = 1 .. Len(q) /\ DOMAIN Tail(q) = 1 .. Len(q) - 1
  BY <1>1
<1>3. \A k \in 1 .. Len(q) : k = 1 \/ (k - 1 \in 1 .. Len(q) - 1 /\ k = (k - 1) + 1)
  BY <1>1
<1>4. \A k \in 1 .. Len(q) - 1 : k + 1 \in 1 .. Len(q)
  BY <1>1
<1>5. 1 \in 1 .. Len(q)
  BY <1>1
<1>6. \A k \in DOMAIN Tail(q) : \E i \in DOMAIN q : q[i].task = Tail(q)[k].task
  <2>. TAKE k \in DOMAIN Tail(q)
  <2>1. k + 1 \in DOMAIN q /\ Tail(q)[k] = q[k + 1]
    BY <1>1, <1>2, <1>4
  <2>. QED BY <2>1
<1>7. \A i \in DOMAIN q : q[i].task = Head(q).task
        \/ \E k \in DOMAIN Tail(q) : q[i].task = Tail(q)[k].task
  <2>. TAKE i \in DOMAIN q
  <2>1. CASE i = 1
    BY <1>1, <2>1
  <2>2. CASE i # 1
    <3>1. i - 1 \in 1 .. Len(q) - 1 /\ i = (i - 1) + 1
      BY <1>2, <1>3, <2>2
    <3>2. i - 1 \in DOMAIN Tail(q) /\ Tail(q)[i - 1] = q[i]
      BY <1>1, <1>2, <3>1
    <3>. QED BY <3>2
  <2>. QED BY <2>1, <2>2
<1>8. \E i \in DOMAIN q : q[i].task = Head(q).task
  BY <1>1, <1>2, <1>5
<1>9. \A x : x \in Reports(q) <=> \E i \in DOMAIN q : x = q[i].task
  BY DEF Reports
<1>10. \A x : x \in Reports(Tail(q)) <=> \E i \in DOMAIN Tail(q) : x = Tail(q)[i].task
  BY DEF Reports
<1>11. ASSUME NEW x \in Reports(q) PROVE x \in Reports(Tail(q)) \/ x = Head(q).task
  <2>1. PICK i \in DOMAIN q : x = q[i].task
    BY <1>9
  <2>. QED BY <1>7, <1>10, <2>1
<1>12. ASSUME NEW x \in Reports(Tail(q)) PROVE x \in Reports(q)
  <2>1. PICK k \in DOMAIN Tail(q) : x = Tail(q)[k].task
    BY <1>10
  <2>. QED BY <1>6, <1>9, <2>1
<1>13. Head(q).task \in Reports(q)
  BY <1>8, <1>9
<1>. QED BY <1>1, <1>11, <1>12, <1>13

\* What a Master does with its tasks and answers.
LEMMA MasterStep ==
  ASSUME IInv, NEW j \in Job, TypeOK', UNCHANGED <<estados, porJob, yama>>,
         phase'[j] \notin {"new", "closed"}, Outstanding(j)' \subseteq Outstanding(j),
         \A i \in Job \ {j} :
           phase'[i] = phase[i] /\ tasks'[i] = tasks[i] /\ toYama'[i] = toYama[i]
  PROVE  IInv' /\ Others(j)
<1>1. Sound(j)
  BY DEF IInv
<1>2. InProcess(j)' = InProcess(j)
  BY DEF InProcess
<1>3. Free(j)' <=> Free(j)
  BY DEF Free
<1>4. Rooted(j)'
  BY <1>1 DEF Sound, Rooted
<1>5. Begun(j)' /\ Closed(j)'
  BY DEF Begun, Closed
<1>6. Carrying(j) => Carrying(j)'
  BY DEF Carrying, Works
<1>7. Sound(j)'
  BY <1>1, <1>2, <1>3, <1>4, <1>5, <1>6 DEF Sound, Ended
<1>8. Others(j)
  BY GrowsSame DEF Others
<1>. QED BY <1>7, <1>8, OneJob

\* A Master's answer is about a task it was given.
LEMMA DoneSound == ASSUME IInv, NEW j \in Job, NEW t \in tasks[j], Done(j, t) PROVE IInv' /\ Others(j)
<1>1. TypeOK
  BY DEF IInv
<1>2. t \in Task /\ toYama[j] \in Seq(Answer)
  BY <1>1 DEF TypeOK
<1>3. PICK a : a = [task |-> t, ok |-> TRUE]
  OBVIOUS
<1>4. a \in Answer /\ a.task = t
  BY <1>2, <1>3 DEF Answer
<1>5. toYama' = [toYama EXCEPT ![j] = Append(toYama[j], a)]
  BY <1>3 DEF Done, Answers
<1>6. toYama'[j] \in Seq(Answer) /\ Reports(toYama'[j]) = Reports(toYama[j]) \cup {t}
  <2>1. toYama'[j] = Append(toYama[j], a)
    BY <1>1, <1>5 DEF TypeOK
  <2>. QED BY <1>2, <1>4, <2>1, ReportsAppend
<1>7. /\ tasks' = [tasks EXCEPT ![j] = tasks[j] \ {t}] /\ phase[j] = "running"
      /\ phase' = IF t.block = Final THEN [phase EXCEPT ![j] = "gone"] ELSE phase
      /\ UNCHANGED <<estados, loadVars, activos, yama, told, envVars>>
  BY DEF Done
<1>8. TypeOK'
  BY <1>1, <1>5, <1>6, <1>7 DEF TypeOK, loadVars, envVars
<1>9. Outstanding(j)' \subseteq Outstanding(j)
  BY <1>1, <1>6, <1>7 DEF TypeOK, Outstanding, Reported
<1>10. phase'[j] \notin {"new", "closed"}
  BY <1>1, <1>7 DEF TypeOK
<1>11. \A i \in Job \ {j} :
         phase'[i] = phase[i] /\ tasks'[i] = tasks[i] /\ toYama'[i] = toYama[i]
  BY <1>1, <1>5, <1>7 DEF TypeOK
<1>. QED BY <1>7, <1>8, <1>9, <1>10, <1>11, MasterStep DEF loadVars

\* So is the failure it reports, and the tasks it drops had their entries.
LEMMA FailSound == ASSUME IInv, NEW j \in Job, NEW t \in tasks[j], Fail(j, t) PROVE IInv' /\ Others(j)
<1>1. TypeOK
  BY DEF IInv
<1>2. t \in Task /\ toYama[j] \in Seq(Answer)
  BY <1>1 DEF TypeOK
<1>3. PICK a : a = [task |-> t, ok |-> FALSE]
  OBVIOUS
<1>4. a \in Answer /\ a.task = t
  BY <1>2, <1>3 DEF Answer
<1>5. toYama' = [toYama EXCEPT ![j] = Append(toYama[j], a)]
  BY <1>3 DEF Fail, Answers
<1>6. toYama'[j] \in Seq(Answer) /\ Reports(toYama'[j]) = Reports(toYama[j]) \cup {t}
  <2>1. toYama'[j] = Append(toYama[j], a)
    BY <1>1, <1>5 DEF TypeOK
  <2>. QED BY <1>2, <1>4, <2>1, ReportsAppend
<1>7. PICK S \in SUBSET tasks[j] : tasks' = [tasks EXCEPT ![j] = S]
  <2>1. PICK S : S = IF t.block >= Local THEN {u \in tasks[j] : u.nodo # t.nodo}
                     ELSE tasks[j] \ {t}
    OBVIOUS
  <2>2. S \subseteq tasks[j] /\ tasks' = [tasks EXCEPT ![j] = S]
    BY <2>1 DEF Fail
  <2>. QED BY <2>2
<1>8. /\ phase[j] = "running" /\ faults' = faults + 1
      /\ phase' = IF t.block = Final THEN [phase EXCEPT ![j] = "gone"] ELSE phase
      /\ UNCHANGED <<estados, loadVars, activos, yama, told, alive, present, downs>>
  BY DEF Fail, Fault
<1>9. TypeOK'
  BY <1>1, <1>5, <1>6, <1>7, <1>8 DEF TypeOK, loadVars
<1>10. Outstanding(j)' \subseteq Outstanding(j)
  BY <1>1, <1>6, <1>7 DEF TypeOK, Outstanding, Reported
<1>11. phase'[j] \notin {"new", "closed"}
  BY <1>1, <1>8 DEF TypeOK
<1>12. \A i \in Job \ {j} :
         phase'[i] = phase[i] /\ tasks'[i] = tasks[i] /\ toYama'[i] = toYama[i]
  BY <1>1, <1>5, <1>7, <1>8 DEF TypeOK
<1>. QED BY <1>8, <1>9, <1>10, <1>11, <1>12, MasterStep DEF loadVars

\* A Master that ends leaves the answers it sent.
LEMMA EndSound == ASSUME IInv, NEW j \in Job, End(j) \/ Kill(j) PROVE IInv' /\ Others(j)
<1>1. TypeOK
  BY DEF IInv
<1>2. /\ phase' = [phase EXCEPT ![j] = "gone"] /\ tasks' = [tasks EXCEPT ![j] = {}]
      /\ faults' = faults \/ faults' = faults + 1
      /\ UNCHANGED <<estados, loadVars, activos, yama, told, toYama, alive, present, downs>>
  BY DEF End, Kill, Fault, envVars
<1>3. TypeOK'
  BY <1>1, <1>2 DEF TypeOK, loadVars
<1>4. Outstanding(j)' \subseteq Outstanding(j)
  BY <1>1, <1>2 DEF TypeOK, Outstanding, Reported
<1>5. phase'[j] \notin {"new", "closed"}
  BY <1>1, <1>2 DEF TypeOK
<1>6. \A i \in Job \ {j} :
         phase'[i] = phase[i] /\ tasks'[i] = tasks[i] /\ toYama'[i] = toYama[i]
  BY <1>1, <1>2 DEF TypeOK
<1>. QED BY <1>2, <1>3, <1>4, <1>5, <1>6, MasterStep DEF loadVars

\* The FileSystem's nodes and file are not in the invariant of a job.
LEMMA ClusterSound ==
  ASSUME IInv, \/ \E n \in Node : NodeDown(n) \/ NodeUp(n)
               \/ RemoveFile \/ FileSystemLost
  PROVE  IInv'
<1>1. TypeOK
  BY DEF IInv
<1>2. /\ UNCHANGED <<estados, known, actual, porJob, activos, phase, tasks, toYama>>
      /\ yama' \in {yama, "exit"}
  BY DEF NodeDown, NodeUp, RemoveFile, FileSystemLost, loadVars, masterVars
<1>3. /\ alive' \subseteq Node /\ present' \in BOOLEAN
      /\ faults' \in Nat /\ downs' \in Nat
  <2>1. CASE \E n \in Node : NodeDown(n)
    BY <1>1, <2>1 DEF TypeOK, NodeDown, Fault
  <2>2. CASE \E n \in Node : NodeUp(n)
    BY <1>1, <2>2 DEF TypeOK, NodeUp
  <2>3. CASE RemoveFile \/ FileSystemLost
    <3>1. present' \in BOOLEAN /\ UNCHANGED alive
      BY <1>1, <2>3 DEF TypeOK, RemoveFile, FileSystemLost
    <3>2. faults' = faults + 1 /\ (downs' = downs + 1 \/ UNCHANGED downs)
      BY <2>3 DEF RemoveFile, FileSystemLost, Fault
    <3>. QED BY <1>1, <3>1, <3>2 DEF TypeOK
  <2>. QED BY <2>1, <2>2, <2>3
<1>4. told' \in [Job -> BOOLEAN]
  BY <1>1 DEF TypeOK, NodeDown, NodeUp, RemoveFile, FileSystemLost, masterVars
<1>5. TypeOK'
  BY <1>1, <1>2, <1>3, <1>4 DEF TypeOK
<1>. QED BY <1>2, <1>5, NoJob
-----------------------------------------------------------------------------
(* Sets laid out as sequences.                                             *)

\* An injection from the positions of a set reaches all of it.
LEMMA ReachesAll ==
  ASSUME NEW S, IsFiniteSet(S), NEW s \in [1 .. Cardinality(S) -> S],
         \A i, k \in DOMAIN s : s[i] = s[k] => i = k
  PROVE  s \in Seq(S) /\ \A x \in S : \E i \in DOMAIN s : s[i] = x
<1>1. Cardinality(S) \in Nat
  BY FS_CardinalityType
<1>2. s \in Injection(1 .. Cardinality(S), S)
  BY DEF Injection, IsInjective
<1>3. Cardinality(1 .. Cardinality(S)) = Cardinality(S)
  BY <1>1, FS_Interval
<1>4. s \in Surjection(1 .. Cardinality(S), S)
  BY <1>2, <1>3, FS_Injection
<1>. QED BY <1>1, <1>4 DEF Surjection

\* SetToSeq lays out a finite set as a sequence of its elements.
LEMMA SeqOfSet ==
  ASSUME NEW S, IsFiniteSet(S)
  PROVE  /\ SetToSeq(S) \in Seq(S) /\ Len(SetToSeq(S)) = Cardinality(S)
         /\ \A x \in S : \E i \in DOMAIN SetToSeq(S) : SetToSeq(S)[i] = x
         /\ \A i, k \in DOMAIN SetToSeq(S) : SetToSeq(S)[i] = SetToSeq(S)[k] => i = k
<1>1. ExistsBijection(1 .. Cardinality(S), S) /\ Cardinality(S) \in Nat
  BY FS_CardinalityType
<1>2. \E f \in [1 .. Cardinality(S) -> S] : IsInjective(f)
  BY <1>1 DEF ExistsBijection, Bijection, Injection
<1>3. PICK s : s = SetToSeq(S)
  OBVIOUS
<1>4. s \in [1 .. Cardinality(S) -> S] /\ IsInjective(s)
  BY <1>2, <1>3 DEF SetToSeq
<1>5. \A i, k \in DOMAIN s : s[i] = s[k] => i = k
  BY <1>4 DEF IsInjective
<1>6. s \in Seq(S) /\ \A x \in S : \E i \in DOMAIN s : s[i] = x
  BY <1>4, <1>5, ReachesAll
<1>7. Len(s) = Cardinality(S)
  BY <1>1, <1>4, <1>6
<1>. QED BY <1>3, <1>5, <1>6, <1>7

\* A sequence that lists a set of integers in increasing order.
Ascends(s, S) ==
  s \in [1 .. Cardinality(S) -> S] /\ \A i, k \in DOMAIN s : i < k => s[i] < s[k]

\* A finite set of integers that is not empty has a greatest element.
LEMMA Greatest ==
  ASSUME NEW S, IsFiniteSet(S), S # {}, S \subseteq Int
  PROVE  \E x \in S : \A y \in S : y <= x
<1>. DEFINE f == [x \in S |-> -x]
<1>1. \A x \in S : f[x] \in Int
  OBVIOUS
<1>. HIDE DEF f
<1>2. PICK x \in S : \A y \in S : f[x] < f[y] \/ (f[x] = f[y] /\ f[x] <= f[y])
  BY <1>1, LeastOf
<1>3. \A y \in S : f[y] = -y /\ y \in Int
  BY DEF f
<1>4. \A y \in S : y <= x
  BY <1>2, <1>3
<1>. QED BY <1>4

\* A finite set of integers can be laid out in order.
LEMMA AscentExists ==
  ASSUME NEW S, IsFiniteSet(S), S \subseteq Int
  PROVE  \E s : Ascends(s, S)
<1>. DEFINE B == {T \in SUBSET S : ~ \E s : Ascends(s, T)}
<1>1. SUFFICES ASSUME B # {} PROVE FALSE
  OBVIOUS
<1>2. PICK T \in B : \A x \in T : T \ {x} \notin B
  <2>1. B \subseteq SUBSET S
    OBVIOUS
  <2>. HIDE DEF B
  <2>. QED BY <1>1, <2>1, SmallestSet
<1>3. IsFiniteSet(T) /\ T \subseteq Int
  BY FS_Subset
<1>4. CASE T = {}
  <2>1. Cardinality(T) = 0
    BY <1>4, FS_EmptySet
  <2>2. PICK s : s = [i \in 1 .. 0 |-> 0]
    OBVIOUS
  <2>3. s \in [1 .. 0 -> T] /\ \A i \in DOMAIN s : FALSE
    BY <2>2
  <2>4. Ascends(s, T)
    BY <2>1, <2>3 DEF Ascends
  <2>. QED BY <2>4
<1>5. CASE T # {}
  <2>1. PICK m \in T : \A y \in T : y <= m
    BY <1>3, <1>5, Greatest
  <2>2. PICK r : Ascends(r, T \ {m})
    BY <1>2, <2>1
  <2>3. PICK n : n = Cardinality(T \ {m})
    OBVIOUS
  <2>4. IsFiniteSet(T \ {m}) /\ Cardinality(T) = n + 1 /\ n \in Nat
    <3>1. IsFiniteSet(T \ {m}) /\ n = Cardinality(T) - 1
      BY <1>3, <2>3, FS_RemoveElement
    <3>2. n \in Nat
      BY <2>3, <3>1, FS_CardinalityType
    <3>3. Cardinality(T) \in Nat
      BY <1>3, FS_CardinalityType
    <3>4. \A c, d \in Nat : d = c - 1 => c = d + 1
      OBVIOUS
    <3>. QED BY <3>1, <3>2, <3>3, <3>4
  <2>5. /\ r \in [1 .. n -> T \ {m}]
        /\ \A i, k \in 1 .. n : i < k => r[i] < r[k]
    BY <2>2, <2>3 DEF Ascends
  <2>6. PICK s : s = [i \in 1 .. n + 1 |-> IF i = n + 1 THEN m ELSE r[i]]
    OBVIOUS
  <2>7. \A i \in 1 .. n + 1 : i = n + 1 \/ i \in 1 .. n
    BY <2>4
  <2>8. \A i \in 1 .. n : r[i] \in T /\ r[i] < m
    <3>. TAKE i \in 1 .. n
    <3>1. r[i] \in T \ {m}
      BY <2>5
    <3>2. r[i] \in Int /\ m \in Int /\ r[i] <= m /\ r[i] # m
      BY <1>3, <2>1, <3>1
    <3>. QED BY <3>1, <3>2
  <2>9. DOMAIN s = 1 .. n + 1 /\ s \in [1 .. n + 1 -> T]
    BY <2>1, <2>6, <2>7, <2>8
  <2>10. ASSUME NEW i \in 1 .. n + 1, NEW k \in 1 .. n + 1, i < k PROVE s[i] < s[k]
    <3>1. i \in 1 .. n /\ s[i] = r[i]
      BY <2>4, <2>6, <2>7, <2>10
    <3>. QED BY <2>5, <2>6, <2>7, <2>8, <2>10, <3>1
  <2>11. Ascends(s, T)
    BY <2>4, <2>9, <2>10 DEF Ascends
  <2>. QED BY <2>11
<1>. QED BY <1>4, <1>5

\* InOrder lays out a set of indices in order.
LEMMA InOrderIs ==
  ASSUME NEW S, IsFiniteSet(S), S \subseteq Int
  PROVE  /\ InOrder(S) \in Seq(S) /\ Len(InOrder(S)) = Cardinality(S)
         /\ \A x \in S : \E i \in DOMAIN InOrder(S) : InOrder(S)[i] = x
         /\ \A i, k \in DOMAIN InOrder(S) : InOrder(S)[i] = InOrder(S)[k] => i = k
<1>1. PICK s : s = InOrder(S)
  OBVIOUS
<1>2. PICK r : Ascends(r, S)
  BY AscentExists
<1>3. s \in [1 .. Cardinality(S) -> S] /\ \A i, k \in DOMAIN s : i < k => s[i] < s[k]
  BY <1>1, <1>2 DEF InOrder, Ascends
<1>4. Cardinality(S) \in Nat /\ DOMAIN s = 1 .. Cardinality(S)
  BY <1>3, FS_CardinalityType
<1>5. ASSUME NEW i \in DOMAIN s, NEW k \in DOMAIN s, s[i] = s[k] PROVE i = k
  <2>1. s[i] \in Int /\ s[k] \in Int
    BY <1>3
  <2>2. ~(i < k) /\ ~(k < i)
    BY <1>3, <1>5, <2>1
  <2>3. i \in Int /\ k \in Int
    BY <1>4
  <2>. QED BY <2>2, <2>3
<1>6. s \in Seq(S) /\ \A x \in S : \E i \in DOMAIN s : s[i] = x
  BY <1>3, <1>5, ReachesAll
<1>7. Len(s) = Cardinality(S)
  BY <1>4, <1>6
<1>. QED BY <1>1, <1>5, <1>6, <1>7
-----------------------------------------------------------------------------
(* A job begins.                                                           *)

\* There are finitely many blocks.
LEMMA BlockIsFinite ==
  /\ IsFiniteSet(Block) /\ Cardinality(Block) = NumBlocks /\ 0 \in Block /\ Block \subseteq Nat
  /\ \A b \in Block : b # Local /\ b # Global /\ b # Final
<1>1. 0 \in Int /\ NumBlocks - 1 \in Int /\ ~(0 > NumBlocks - 1)
      /\ (NumBlocks - 1) - 0 + 1 = NumBlocks
  BY JobAssumption
<1>2. IsFiniteSet(Block) /\ Cardinality(Block) = NumBlocks
  BY <1>1, FS_Interval DEF Block
<1>3. 0 \in Block /\ Block \subseteq Nat
  BY JobAssumption DEF Block
<1>. QED BY <1>2, <1>3 DEF Local, Global, Final

\* A job that is refused has no entries and no load.
LEMMA RefuseSound == ASSUME IInv, NEW j \in Job, RefuseJob(j) PROVE IInv' /\ Others(j)
<1>1. TypeOK
  BY DEF IInv
<1>2. /\ phase' = [phase EXCEPT ![j] = "running"] /\ told' = [told EXCEPT ![j] = TRUE]
      /\ activos' = alive
      /\ UNCHANGED <<estados, loadVars, yama, tasks, toYama, envVars>>
  BY DEF RefuseJob
<1>3. TypeOK'
  BY <1>1, <1>2 DEF TypeOK, loadVars, envVars
<1>4. Outstanding(j)' \subseteq Outstanding(j)
  BY <1>2 DEF Outstanding, Reported
<1>5. phase'[j] \notin {"new", "closed"}
  BY <1>1, <1>2 DEF TypeOK
<1>6. \A i \in Job \ {j} :
         phase'[i] = phase[i] /\ tasks'[i] = tasks[i] /\ toYama'[i] = toYama[i]
  BY <1>1, <1>2 DEF TypeOK
<1>. QED BY <1>2, <1>3, <1>4, <1>5, <1>6, MasterStep DEF loadVars

\* A planner that does not end leaves the tables alone.
LEMMA InitFailsSound == ASSUME IInv, NEW j \in Job, InitJobFails(j) PROVE IInv'
<1>1. TypeOK
  BY DEF IInv
<1>2. /\ yama' \in {"hung", "crashed"}
      /\ UNCHANGED <<estados, loadVars, activos, phase, told, tasks, toYama, envVars>>
  BY DEF InitJobFails, Stop
<1>3. TypeOK'
  BY <1>1, <1>2 DEF TypeOK, loadVars, envVars
<1>. QED BY <1>2, <1>3, NoJob DEF loadVars

\* The tasks of a plan, in the order they are sent.
Tasks(p) == {[nodo |-> p[b], block |-> b] : b \in Block}
Sent(p) == SetToSeq(Tasks(p))

\* The tasks of a plan, and their sequence, are one per block.
LEMMA TasksAre ==
  ASSUME NEW p \in [Block -> Node]
  PROVE  /\ IsFiniteSet(Tasks(p)) /\ Sent(p) \in Seq(Task) /\ Range(Sent(p)) = Tasks(p)
         /\ \A i \in DOMAIN Sent(p) : Sent(p)[i].block \in Block
                                     /\ Sent(p)[i].nodo = p[Sent(p)[i].block]
         /\ \A b \in Block : \E i \in DOMAIN Sent(p) :
              Sent(p)[i].block = b /\ Sent(p)[i].nodo = p[b]
         /\ \A i, k \in DOMAIN Sent(p) : Sent(p)[i].block = Sent(p)[k].block => i = k
<1>1. PICK f : f = [b \in Block |-> [nodo |-> p[b], block |-> b]]
  OBVIOUS
<1>2. f \in Surjection(Block, Tasks(p))
  BY <1>1 DEF Tasks, Surjection
<1>3. IsFiniteSet(Tasks(p))
  BY <1>2, BlockIsFinite, FS_Surjection
<1>4. PICK q : q = Sent(p)
  OBVIOUS
<1>5. /\ q \in Seq(Tasks(p)) /\ \A x \in Tasks(p) : \E i \in DOMAIN q : q[i] = x
      /\ \A i, k \in DOMAIN q : q[i] = q[k] => i = k
  BY <1>3, <1>4, SeqOfSet DEF Sent
<1>6. \A i \in DOMAIN q : q[i] \in Tasks(p)
  BY <1>5
<1>7. \A x \in Tasks(p) :
        x \in Task /\ x.block \in Block /\ x = [nodo |-> p[x.block], block |-> x.block]
  BY DEF Tasks, Task, Stages
<1>8. q \in Seq(Task)
  BY <1>5, <1>7
<1>9. Range(q) = Tasks(p)
  BY <1>5, <1>6 DEF Range
<1>10. ASSUME NEW b \in Block PROVE \E i \in DOMAIN q : q[i].block = b /\ q[i].nodo = p[b]
  <2>1. [nodo |-> p[b], block |-> b] \in Tasks(p)
    BY DEF Tasks
  <2>2. PICK i \in DOMAIN q : q[i] = [nodo |-> p[b], block |-> b]
    BY <1>5, <2>1
  <2>. QED BY <2>2
<1>11. ASSUME NEW i \in DOMAIN q, NEW k \in DOMAIN q, q[i].block = q[k].block PROVE i = k
  <2>1. q[i] = [nodo |-> p[q[i].block], block |-> q[i].block]
    BY <1>6, <1>7
  <2>2. q[k] = [nodo |-> p[q[k].block], block |-> q[k].block]
    BY <1>6, <1>7
  <2>3. q[i] = q[k]
    BY <1>11, <2>1, <2>2
  <2>. QED BY <1>5, <2>3
<1>12. \A i \in DOMAIN q : q[i].block \in Block /\ q[i].nodo = p[q[i].block]
  BY <1>6, <1>7
<1>. QED BY <1>3, <1>4, <1>8, <1>9, <1>10, <1>11, <1>12

\* The blocks that a plan gives to a node.
Share(p, n) == {b \in Block : p[b] = n}

\* A node's share of a plan is a natural, and positive just when it has a block.
LEMMA ShareIs ==
  ASSUME NEW p, NEW n
  PROVE  /\ IsFiniteSet(Share(p, n)) /\ Cardinality(Share(p, n)) \in Nat
         /\ Cardinality(Share(p, n)) # 0 => \E b \in Block : p[b] = n
<1>1. Share(p, n) \subseteq Block
  BY DEF Share
<1>2. IsFiniteSet(Share(p, n)) /\ Cardinality(Share(p, n)) \in Nat
  BY <1>1, BlockIsFinite, FS_Subset, FS_CardinalityType
<1>3. Share(p, n) = {} => Cardinality(Share(p, n)) = 0
  BY FS_EmptySet
<1>. QED BY <1>2, <1>3 DEF Share

\* What InitJob does, for the plan it took.
LEMMA InitJobIs ==
  ASSUME TypeOK, NEW j \in Job, InitJob(j)
  PROVE  \E p \in [Block -> Node] :
           /\ p \in Plans(alive, Copies)
           /\ actual' = [n \in Node |-> actual[n] + Cardinality(Share(p, n))]
           /\ porJob' = [n \in Node |-> IF n \in alive
                THEN [porJob[n] EXCEPT ![j] = Cardinality(Share(p, n))] ELSE porJob[n]]
           /\ estados' = estados \o Entries(j, Sent(p))
           /\ tasks' = [tasks EXCEPT ![j] = Range(Sent(p))]
<1>1. PICK p \in Plans(alive, Copies) :
        /\ actual' = [n \in Node |-> actual[n] + [m \in Node |-> Cardinality(Share(p, m))][n]]
        /\ porJob' = [n \in Node |-> IF n \in alive
              THEN [porJob[n] EXCEPT ![j] = [m \in Node |-> Cardinality(Share(p, m))][n]]
              ELSE porJob[n]]
        /\ estados' = estados \o Entries(j, Sent(p))
        /\ tasks' = [tasks EXCEPT ![j] = Range(Sent(p))]
  BY DEF InitJob, Share, Sent, Tasks
<1>2. p \in [Block -> Node]
  BY DEF Plans, TypeOK
<1>. QED BY <1>1, <1>2

\* A job begins with an entry in process for every task, on the nodes with load.
LEMMA InitSound == ASSUME IInv, NEW j \in Job, InitJob(j) PROVE IInv' /\ Others(j)
<1>1. TypeOK /\ Sound(j)
  BY DEF IInv
<1>2. PICK p \in [Block -> Node] :
           /\ p \in Plans(alive, Copies)
           /\ actual' = [n \in Node |-> actual[n] + Cardinality(Share(p, n))]
           /\ porJob' = [n \in Node |-> IF n \in alive
                THEN [porJob[n] EXCEPT ![j] = Cardinality(Share(p, n))] ELSE porJob[n]]
           /\ estados' = estados \o Entries(j, Sent(p))
           /\ tasks' = [tasks EXCEPT ![j] = Range(Sent(p))]
  BY <1>1, InitJobIs
<1>3. /\ phase[j] = "new" /\ phase' = [phase EXCEPT ![j] = "running"]
      /\ known' = Completed(alive) /\ activos' = alive
      /\ UNCHANGED <<yama, told, toYama, envVars>>
  BY DEF InitJob
<1>4. \A n \in Node : Cardinality(Share(p, n)) \in Nat
  BY ShareIs
<1>5. PICK q : q = Sent(p)
  OBVIOUS
<1>6. /\ q \in Seq(Task) /\ Range(q) = Tasks(p)
      /\ \A i \in DOMAIN q : q[i].block \in Block /\ q[i].nodo = p[q[i].block]
      /\ \A b \in Block : \E i \in DOMAIN q : q[i].block = b /\ q[i].nodo = p[b]
  BY <1>5, TasksAre
<1>7. PICK s : s = estados
  OBVIOUS
<1>8. PICK u : u = estados'
  OBVIOUS
<1>9. s \in Seq(State)
  BY <1>1, <1>7 DEF TypeOK
<1>10. /\ u \in Seq(State) /\ Grows(j, s, u)
       /\ \A i \in DOMAIN q : Len(s) + i \in DOMAIN u /\
              u[Len(s) + i] = Entry(j, q[i].nodo, q[i].block, {q[i].block})
  <2>1. u = s \o Entries(j, q)
    BY <1>2, <1>5, <1>7, <1>8
  <2>2. \A i \in DOMAIN q : q[i].block \in Block
    BY <1>6
  <2>3. q \in Seq(Task)
    BY <1>6
  <2>. HIDE DEF State, Task
  <2>4. u \in Seq(State) /\ Grows(j, s, u) /\ Added(j, s, q, u)
    BY <1>9, <2>1, <2>2, <2>3, ConcatGrows
  <2>. QED BY <2>4 DEF Added
<1>11. \A i \in DOMAIN q : \E k \in OfNode(u, j, q[i].nodo) :
         u[k].block = q[i].block /\ u[k].estado = "proceso"
  <2>. TAKE i \in DOMAIN q
  <2>1. Len(s) + i \in DOMAIN u
        /\ u[Len(s) + i] = Entry(j, q[i].nodo, q[i].block, {q[i].block})
    BY <1>10
  <2>2. PICK k \in DOMAIN u : u[k] = Entry(j, q[i].nodo, q[i].block, {q[i].block})
    BY <2>1
  <2>. QED BY <2>2 DEF OfNode, OfJob, Entry
<1>12. Range(q) \subseteq Task
  BY <1>6 DEF Range
<1>13. known' \subseteq Node
  BY <1>1, <1>3 DEF TypeOK, Completed
<1>14. TypeOK'
  <2>1. actual' \in [Node -> Int]
    BY <1>1, <1>2, <1>4 DEF TypeOK
  <2>2. porJob' \in [Node -> [Job -> Nat \cup {None}]]
    BY <1>1, <1>2, <1>4 DEF TypeOK
  <2>3. tasks' \in [Job -> SUBSET Task]
    BY <1>1, <1>2, <1>5, <1>12 DEF TypeOK
  <2>4. estados' \in Seq(State)
    BY <1>8, <1>10
  <2>. HIDE DEF Task, State, Answer
  <2>. QED BY <1>1, <1>3, <1>13, <2>1, <2>2, <2>3, <2>4 DEF TypeOK, envVars
<1>15. Others(j)
  <2>1. Grows(j, estados, estados')
    BY <1>7, <1>8, <1>10
  <2>2. \A i \in Job \ {j} : \A n \in Node : porJob'[n][i] = porJob[n][i]
    BY <1>1, <1>2 DEF TypeOK
  <2>. QED BY <1>1, <1>2, <1>3, <2>1, <2>2 DEF TypeOK, Others
<1>16. Rooted(j)'
  <2>1. SUFFICES ASSUME NEW t \in Outstanding(j)'
                 PROVE  \E k \in OfNode(estados', j, t.nodo) : estados'[k].block = t.block
    BY DEF Rooted
  <2>2. Outstanding(j) = {} /\ Outstanding(j)' \subseteq Range(q) \cup Outstanding(j)
    BY <1>1, <1>2, <1>3, <1>5 DEF Sound, Begun, TypeOK, Outstanding, Reported
  <2>3. PICK i \in DOMAIN q : t = q[i]
    BY <2>2 DEF Range
  <2>. QED BY <1>8, <1>11, <2>3
<1>17. Begun(j)' /\ Closed(j)'
  BY <1>1, <1>3 DEF TypeOK, Begun, Closed
<1>18. Carrying(j)'
  <2>1. SUFFICES ASSUME NEW n \in Node, porJob'[n][j] \notin {None, 0}
                 PROVE  \E k \in OfNode(estados', j, n) : estados'[k].estado = "proceso"
    BY DEF Carrying, Works
  <2>2. Free(j)
    BY <1>1, <1>3 DEF Sound, Begun
  <2>3. porJob'[n][j] = Cardinality(Share(p, n))
    BY <1>1, <1>2, <2>1, <2>2 DEF TypeOK, Free
  <2>4. PICK b \in Block : p[b] = n
    BY <2>1, <2>3, ShareIs
  <2>5. PICK i \in DOMAIN q : q[i].block = b /\ q[i].nodo = n
    BY <1>6, <2>4
  <2>. QED BY <1>8, <1>11, <2>5
<1>19. Ended(j)'
  <2>1. PICK i \in DOMAIN q : q[i].block = 0
    BY <1>6, BlockIsFinite
  <2>2. \E k \in OfNode(u, j, q[i].nodo) : u[k].estado = "proceso"
    BY <1>11
  <2>3. InProcess(j)' # {}
    BY <1>8, <2>2 DEF InProcess, OfNode
  <2>. QED BY <2>3 DEF Ended
<1>20. Sound(j)'
  BY <1>16, <1>17, <1>18, <1>19 DEF Sound
<1>. QED BY <1>14, <1>15, <1>20, OneJob
-----------------------------------------------------------------------------
(* YAMA reads an answer.                                                   *)

\* The answer YAMA reads is about a task of the job that has its entry.
LEMMA ReadsIs ==
  ASSUME IInv, NEW j \in Job, NEW B, NEW ok, Reads(j, B, ok)
  PROVE  /\ yama = "running" /\ toYama' \in [Job -> Seq(Answer)]
         /\ Answered(j) \in Task /\ Answered(j) \in Outstanding(j) /\ Answered(j).block \in B
         /\ Reported(j)' \subseteq Reported(j)
         /\ \A i \in Job \ {j} : toYama'[i] = toYama[i]
         /\ phase[j] \notin {"new", "closed"}
         /\ \E k \in OfNode(estados, j, Answered(j).nodo) :
              estados[k].block = Answered(j).block
<1>1. TypeOK /\ Sound(j)
  BY DEF IInv
<1>2. /\ yama = "running" /\ toYama[j] # <<>> /\ Answered(j).block \in B
      /\ toYama' = [toYama EXCEPT ![j] = Tail(toYama[j])]
  BY DEF Reads, Answered
<1>3. /\ Head(toYama[j]) \in Answer /\ Tail(toYama[j]) \in Seq(Answer)
      /\ Reports(toYama[j]) = Reports(Tail(toYama[j])) \cup {Answered(j)}
  BY <1>1, <1>2, ReportsTail DEF TypeOK, Answered
<1>4. toYama'[j] = Tail(toYama[j]) /\ \A i \in Job \ {j} : toYama'[i] = toYama[i]
  BY <1>1, <1>2 DEF TypeOK
<1>5. Answered(j) \in Task
  BY <1>3 DEF Answered, Answer
<1>6. Reported(j)' \subseteq Reported(j) /\ Answered(j) \in Outstanding(j)
  BY <1>3, <1>4 DEF Reported, Outstanding
<1>7. toYama' \in [Job -> Seq(Answer)]
  BY <1>1, <1>2, <1>3 DEF TypeOK
<1>. QED BY <1>1, <1>2, <1>4, <1>5, <1>6, <1>7 DEF Sound, Begun, Closed, Rooted

\* What YAMA does with it.
LEMMA ServeStep ==
  ASSUME IInv, NEW j \in Job, NEW B, NEW ok, Reads(j, B, ok), UNCHANGED phase,
         TypeOK', Grows(j, estados, estados'),
         \A i \in Job \ {j} :
           tasks'[i] = tasks[i] /\ \A n \in Node : porJob'[n][i] = porJob[n][i],
         \A t \in tasks'[j] \ tasks[j] : \E k \in OfNode(estados', j, t.nodo) :
           estados'[k].block = t.block,
         yama' = "running" => Carrying(j)' /\ Ended(j)'
  PROVE  IInv' /\ Others(j)
<1>1. Sound(j)
  BY DEF IInv
<1>2. /\ yama = "running" /\ Reported(j)' \subseteq Reported(j)
      /\ \A i \in Job \ {j} : toYama'[i] = toYama[i]
      /\ phase[j] \notin {"new", "closed"}
  BY ReadsIs
<1>3. Rooted(j)'
  <2>1. SUFFICES ASSUME NEW t \in Outstanding(j)'
                 PROVE  \E k \in OfNode(estados', j, t.nodo) : estados'[k].block = t.block
    BY DEF Rooted
  <2>2. CASE t \in Outstanding(j)
    <3>1. PICK k \in OfNode(estados, j, t.nodo) : estados[k].block = t.block
      BY <1>1, <2>2 DEF Sound, Rooted
    <3>. QED BY <3>1, GrowsOwn
  <2>3. CASE t \in tasks'[j] \ tasks[j]
    BY <2>3
  <2>. QED BY <1>2, <2>1, <2>2, <2>3 DEF Outstanding
<1>4. Begun(j)' /\ Closed(j)'
  BY <1>2 DEF Begun, Closed
<1>5. Sound(j)'
  BY <1>3, <1>4 DEF Sound
<1>6. Others(j)
  BY <1>2 DEF Others
<1>. QED BY <1>5, <1>6, OneJob

\* Each node with load has still got what it works on, or works on more.
LEMMA Carries ==
  ASSUME NEW j \in Job, Carrying(j), Grows(j, estados, estados'),
         \A n \in Node :
           \/ Works(j, n)' \/ porJob'[n][j] \in {None, 0}
           \/ /\ porJob'[n][j] = porJob[n][j]
              /\ \A k \in OfNode(estados, j, n) : estados'[k].estado = estados[k].estado
  PROVE  Carrying(j)'
<1>1. SUFFICES ASSUME NEW n \in Node, porJob'[n][j] \notin {None, 0},
                      porJob'[n][j] = porJob[n][j],
                      \A k \in OfNode(estados, j, n) : estados'[k].estado = estados[k].estado
               PROVE  Works(j, n)'
  BY DEF Carrying
<1>2. PICK k \in OfNode(estados, j, n) :
        estados[k].estado = "proceso" \/ estados[k].block = Local
  BY <1>1 DEF Carrying, Works
<1>3. k \in OfNode(estados', j, n) /\ estados'[k].block = estados[k].block
  BY GrowsOwn
<1>. QED BY <1>1, <1>2, <1>3 DEF Works

\* The job is over, or its nodes have something in process.
LEMMA FreeIsSound == ASSUME NEW j \in Job, Free(j)' PROVE Carrying(j)' /\ Ended(j)'
  BY DEF Free, Carrying, Ended
\* A Master has no more tasks than it had and was sent.
LEMMA SendsIs ==
  ASSUME TypeOK, NEW j \in Job, NEW S \in SUBSET Task, Sends(j, S)
  PROVE  /\ tasks' \in [Job -> SUBSET Task] /\ \A i \in Job \ {j} : tasks'[i] = tasks[i]
         /\ tasks'[j] \ tasks[j] \subseteq S
<1>1. PICK T \in SUBSET Task :
        T \ tasks[j] \subseteq S /\ tasks' = [tasks EXCEPT ![j] = T]
  <2>1. PICK T : T = IF told[j] THEN tasks[j] ELSE tasks[j] \cup S
    OBVIOUS
  <2>2. tasks[j] \subseteq Task
    BY DEF TypeOK
  <2>3. T \in SUBSET Task /\ T \ tasks[j] \subseteq S
    BY <2>1, <2>2
  <2>4. tasks' = [tasks EXCEPT ![j] = T]
    BY <2>1 DEF Sends
  <2>. QED BY <2>3, <2>4
<1>. QED BY <1>1 DEF TypeOK

\* A stage to a node is a set of tasks.
LEMMA SendsOne ==
  ASSUME NEW n \in Node, NEW b \in Stages
  PROVE  {[nodo |-> n, block |-> b]} \in SUBSET Task
  BY DEF Task

\* u is s with at most the entries of t changed, and with an entry alike e.
Advanced(s, u, j, t, e) ==
  /\ \E k \in OfNode(u, j, e.nodo) : u[k].block = e.block /\ u[k].estado = "proceso"
  /\ \A k \in OfJob(s, j) : s[k].nodo # t.nodo \/ s[k].block # t.block => u[k] = s[k]

\* The entry of an answer is updated, and one for the next stage is added.
LEMMA NextStage ==
  ASSUME NEW s \in Seq(State), NEW j \in Job, NEW t, NEW e \in State, e.job = j,
         e.estado = "proceso", NEW u, u = Append(Update(s, j, t, "ok"), e)
  PROVE  u \in Seq(State) /\ Grows(j, s, u) /\ Advanced(s, u, j, t, e)
<1>1. PICK v : v = Update(s, j, t, "ok")
  OBVIOUS
<1>2. v \in Seq(State) /\ Grows(j, s, v)
  BY <1>1, UpdateGrows
<1>3. \A i \in DOMAIN s : v[i] = s[i] \/ (s[i].nodo = t.nodo /\ s[i].block = t.block)
  BY <1>1, UpdateKeeps
<1>4. u = Append(v, e)
  BY <1>1
<1>5. /\ u \in Seq(State) /\ Grows(j, v, u)
      /\ Len(v) + 1 \in DOMAIN u /\ u[Len(v) + 1] = e
  BY <1>2, <1>4, AppendGrows
<1>6. \A i \in DOMAIN v : u[i] = v[i]
  BY <1>2, <1>4, AppendProperties
<1>7. Grows(j, s, u)
  BY <1>2, <1>5, GrowsTwice
<1>8. \E k \in OfNode(u, j, e.nodo) : u[k].block = e.block /\ u[k].estado = "proceso"
  BY <1>5 DEF OfNode, OfJob
<1>9. \A k \in OfJob(s, j) : s[k].nodo # t.nodo \/ s[k].block # t.block => u[k] = s[k]
  BY <1>2, <1>3, <1>6 DEF Grows, OfJob
<1>. QED BY <1>5, <1>7, <1>8, <1>9 DEF Advanced

\* The files of a node's transformations are blocks.
LEMMA TemporalsType ==
  ASSUME NEW s \in Seq(State), NEW j, NEW n PROVE Temporals(s, j, n) \subseteq Block
<1>1. \A k \in DOMAIN s : s[k] \in State
  OBVIOUS
<1>2. \A k \in DOMAIN s : s[k].files \subseteq Block
  BY <1>1 DEF State
<1>. QED BY <1>2 DEF Temporals, OfNode, OfJob

\* A new entry has its type.
LEMMA EntryType ==
  ASSUME NEW j \in Job, NEW n \in Node, NEW b \in Stages, NEW f \in SUBSET Block
  PROVE  /\ Entry(j, n, b, f) \in State /\ Entry(j, n, b, f).job = j
         /\ Entry(j, n, b, f).estado = "proceso"
         /\ Entry(j, n, b, f).nodo = n /\ Entry(j, n, b, f).block = b
  BY DEF Entry, State

\* A node whose transformations are not done has one in process.
LEMMA NotDone ==
  ASSUME NEW s \in Seq(State), NEW S, S \subseteq DOMAIN s, ~AllOk(s, Valid(s, S))
  PROVE  \E k \in S : s[k].estado = "proceso"
<1>1. PICK k \in S : s[k].estado # "error" /\ s[k].estado # "ok"
  BY DEF AllOk, Valid
<1>2. s[k] \in State
  OBVIOUS
<1>. QED BY <1>1, <1>2 DEF State

\* A node that is done with its transformations has its local reduction in process.
LEMMA TransformOkSound == ASSUME IInv, NEW j \in Job, TransformOk(j) PROVE IInv' /\ Others(j)
<1>1. TypeOK /\ Sound(j)
  BY DEF IInv
<1>2. PICK t : t = Answered(j)
  OBVIOUS
<1>3. PICK s : s = estados
  OBVIOUS
<1>4. PICK v : v = Update(s, j, t, "ok")
  OBVIOUS
<1>5. PICK e : e = Entry(j, t.nodo, Local, Temporals(v, j, t.nodo))
  OBVIOUS
<1>6. /\ Reads(j, Block, TRUE)
      /\ \/ /\ NodeDone(v, j, t.nodo) /\ t.nodo \in activos
            /\ estados' = Append(v, e)
            /\ Sends(j, {[nodo |-> t.nodo, block |-> Local]}) /\ UNCHANGED yama
         \/ estados' = v /\ yama' = "crashed" /\ UNCHANGED tasks
         \/ ~NodeDone(v, j, t.nodo) /\ estados' = v /\ UNCHANGED <<tasks, yama>>
      /\ UNCHANGED <<loadVars, activos, phase, told, envVars>>
  BY <1>2, <1>3, <1>4, <1>5 DEF TransformOk
<1>7. /\ toYama' \in [Job -> Seq(Answer)] /\ t \in Task /\ t.block \in Block
      /\ yama = "running"
  BY <1>2, <1>6, ReadsIs
<1>8. s \in Seq(State)
  BY <1>1, <1>3 DEF TypeOK
<1>9. v \in Seq(State) /\ Grows(j, s, v)
  BY <1>4, <1>8, UpdateGrows
<1>10. t.nodo \in Node /\ Local \in Stages
  BY <1>7 DEF Task, Stages
<1>11. e \in State /\ e.job = j /\ e.estado = "proceso" /\ e.nodo = t.nodo /\ e.block = Local
  BY <1>5, <1>9, <1>10, EntryType, TemporalsType
<1>12. /\ known' = known /\ actual' = actual /\ porJob' = porJob /\ activos' = activos
       /\ phase' = phase /\ told' = told /\ alive' = alive /\ present' = present
       /\ faults' = faults /\ downs' = downs
  BY <1>6 DEF loadVars, envVars
<1>13. CASE /\ estados' = Append(v, e) /\ UNCHANGED yama
            /\ Sends(j, {[nodo |-> t.nodo, block |-> Local]})
  <2>1. /\ estados' \in Seq(State) /\ Grows(j, s, estados')
        /\ \E k \in OfNode(estados', j, t.nodo) :
             estados'[k].block = Local /\ estados'[k].estado = "proceso"
        /\ \A k \in OfJob(s, j) : s[k].nodo # t.nodo => estados'[k] = s[k]
    <3>1. estados' = Append(Update(s, j, t, "ok"), e)
      BY <1>4, <1>13
    <3>2. /\ estados' \in Seq(State) /\ Grows(j, s, estados')
          /\ Advanced(s, estados', j, t, e)
      BY <1>8, <1>11, <3>1, NextStage
    <3>. QED BY <1>11, <3>2 DEF Advanced
  <2>2. /\ tasks' \in [Job -> SUBSET Task] /\ \A i \in Job \ {j} : tasks'[i] = tasks[i]
        /\ tasks'[j] \ tasks[j] \subseteq {[nodo |-> t.nodo, block |-> Local]}
    BY <1>1, <1>10, <1>13, SendsIs, SendsOne
  <2>3. TypeOK'
    BY <1>1, <1>7, <1>12, <1>13, <2>1, <2>2 DEF TypeOK
  <2>4. Carrying(j)'
    <3>1. Works(j, t.nodo)'
      BY <2>1 DEF Works
    <3>2. \A n \in Node : n # t.nodo => \A k \in OfNode(estados, j, n) :
            estados'[k].estado = estados[k].estado
      BY <1>3, <2>1 DEF OfNode
    <3>. QED BY <1>1, <1>3, <1>7, <1>12, <2>1, <3>1, <3>2, Carries DEF Sound
  <2>5. Ended(j)'
    BY <2>1 DEF Ended, InProcess, OfNode
  <2>6. \A x \in tasks'[j] \ tasks[j] : \E k \in OfNode(estados', j, x.nodo) :
          estados'[k].block = x.block
    BY <2>1, <2>2
  <2>. QED BY <1>3, <1>6, <1>12, <2>1, <2>2, <2>3, <2>4, <2>5, <2>6, ServeStep
<1>14. CASE \/ estados' = v /\ yama' = "crashed" /\ UNCHANGED tasks
            \/ ~NodeDone(v, j, t.nodo) /\ estados' = v /\ UNCHANGED <<tasks, yama>>
  <2>1. TypeOK'
    BY <1>1, <1>7, <1>9, <1>12, <1>14 DEF TypeOK
  <2>2. ASSUME yama' = "running" PROVE Carrying(j)' /\ Ended(j)'
    <3>1. ~AllOk(v, Valid(v, OfNode(v, j, t.nodo))) /\ estados' = v
      BY <1>14, <2>2 DEF NodeDone
    <3>2. \E k \in OfNode(v, j, t.nodo) : v[k].estado = "proceso"
      BY <1>9, <3>1, NotDone DEF OfNode, OfJob
    <3>3. Works(j, t.nodo)' /\ Ended(j)'
      BY <3>1, <3>2 DEF Works, Ended, InProcess, OfNode
    <3>4. \A i \in DOMAIN s : v[i] = s[i] \/ s[i].nodo = t.nodo
      BY <1>4, <1>8, UpdateKeeps
    <3>5. \A n \in Node : n # t.nodo => \A k \in OfNode(estados, j, n) :
            estados'[k].estado = estados[k].estado
      BY <1>3, <3>1, <3>4 DEF OfNode, OfJob
    <3>6. Carrying(j)'
      BY <1>1, <1>3, <1>7, <1>9, <1>12, <3>1, <3>3, <3>5, Carries DEF Sound
    <3>. QED BY <3>3, <3>6
  <2>. QED BY <1>3, <1>6, <1>9, <1>12, <1>14, <2>1, <2>2, ServeStep
<1>. QED BY <1>6, <1>13, <1>14
\* The chief is the node of a local reduction of the job.
LEMMA ChiefIs ==
  ASSUME TypeOK, NEW s \in Seq(State), NEW j, Reducers(s, j) # {}
  PROVE  /\ IsFiniteSet(Reducers(s, j)) /\ Cardinality(Reducers(s, j)) \in Nat \ {0}
         /\ \E k \in Reducers(s, j) : Chief(s, j) = s[k].nodo
<1>1. PICK R : R = Reducers(s, j)
  OBVIOUS
<1>2. R \subseteq 1 .. Len(s) /\ Len(s) \in Nat
  BY <1>1 DEF Reducers, OfJob
<1>3. IsFiniteSet(1 .. Len(s))
  BY <1>2, FS_Interval
<1>4. IsFiniteSet(R)
  BY <1>2, <1>3, FS_Subset
<1>5. Cardinality(R) \in Nat /\ Cardinality(R) # 0
  BY <1>1, <1>4, FS_CardinalityType, FS_EmptySet
<1>6. PICK f : f = [k \in R |-> actual[s[k].nodo]]
  OBVIOUS
<1>7. PICK g : g = [k \in R |-> k]
  OBVIOUS
<1>8. \A k \in R : s[k].nodo \in Node
  <2>1. \A k \in R : s[k] \in State
    BY <1>2
  <2>. QED BY <2>1 DEF State
<1>9. \A k \in R : f[k] = actual[s[k].nodo] /\ g[k] = k /\ f[k] \in Int /\ g[k] \in Int
  BY <1>2, <1>6, <1>7, <1>8 DEF TypeOK
<1>10. \E k \in R : \A i \in R : f[k] < f[i] \/ (f[k] = f[i] /\ g[k] <= g[i])
  BY <1>1, <1>4, <1>9, LeastOf
<1>11. \E k \in R : \A i \in R : actual[s[k].nodo] < actual[s[i].nodo]
          \/ (actual[s[k].nodo] = actual[s[i].nodo] /\ k <= i)
  BY <1>9, <1>10
<1>12. \E k \in R : Chief(s, j) = s[k].nodo
  BY <1>1, <1>11 DEF Chief
<1>. QED BY <1>1, <1>4, <1>5, <1>12

\* The loads after the chief took its.
LEMMA ChargesIs ==
  ASSUME TypeOK, NEW j \in Job, NEW w \in [Node -> Nat], Charges(j, w)
  PROVE  /\ actual' \in [Node -> Int] /\ porJob' \in [Node -> [Job -> Nat \cup {None}]]
         /\ \A n \in Node :
              /\ actual'[n] = actual[n] + w[n]
              /\ \A i \in Job \ {j} : porJob'[n][i] = porJob[n][i]
              /\ porJob'[n][j] = IF w[n] = 0 THEN porJob[n][j]
                   ELSE IF porJob[n][j] = None THEN w[n] ELSE porJob[n][j] + w[n]
<1>1. /\ actual' = [n \in Node |-> actual[n] + w[n]]
      /\ porJob' = [n \in Node |-> [porJob[n] EXCEPT ![j] = IF w[n] = 0 THEN porJob[n][j]
                      ELSE IF porJob[n][j] = None THEN w[n] ELSE porJob[n][j] + w[n]]]
  BY DEF Charges, TypeOK
<1>2. \A n \in Node : actual[n] \in Int /\ w[n] \in Nat /\ porJob[n] \in [Job -> Nat \cup {None}]
  BY DEF TypeOK
<1>3. \A n \in Node : (IF w[n] = 0 THEN porJob[n][j]
        ELSE IF porJob[n][j] = None THEN w[n] ELSE porJob[n][j] + w[n]) \in Nat \cup {None}
  BY <1>2
<1>4. actual' \in [Node -> Int]
  BY <1>1, <1>2
<1>. QED BY <1>1, <1>2, <1>3, <1>4

\* The load of a reduction.
Weight(s, j, n) == IF n = Chief(s, j) THEN 1 + (Cardinality(Reducers(s, j)) - 1) \div 2 ELSE 0

\* The chief, which takes more load, has a local reduction of the job.
LEMMA LocalOkSound == ASSUME IInv, NEW j \in Job, LocalOk(j) PROVE IInv' /\ Others(j)
<1>1. TypeOK /\ Sound(j)
  BY DEF IInv
<1>2. PICK t : t = Answered(j)
  OBVIOUS
<1>3. PICK s : s = estados
  OBVIOUS
<1>4. PICK v : v = Update(s, j, t, "ok")
  OBVIOUS
<1>5. PICK c : c = Chief(v, j)
  OBVIOUS
<1>6. PICK e : e = Entry(j, c, Global, UNION {v[k].files : k \in Reducers(v, j)})
  OBVIOUS
<1>7. PICK w : w = [n \in Node |-> Weight(v, j, n)]
  OBVIOUS
<1>8. /\ Reads(j, {Local}, TRUE)
      /\ \/ /\ Charges(j, w) /\ estados' = Append(v, e)
            /\ Sends(j, {[nodo |-> c, block |-> Global]}) /\ UNCHANGED yama
         \/ Charges(j, w) /\ estados' = v /\ yama' = "crashed" /\ UNCHANGED tasks
         \/ ~LocalsDone(v, j) /\ estados' = v /\ UNCHANGED <<actual, porJob, tasks, yama>>
      /\ UNCHANGED <<known, activos, phase, told, envVars>>
  BY <1>2, <1>3, <1>4, <1>5, <1>6, <1>7 DEF LocalOk, Weight
<1>9. /\ toYama' \in [Job -> Seq(Answer)] /\ t \in Task /\ t.block = Local
      /\ yama = "running" /\ \E k \in OfNode(s, j, t.nodo) : s[k].block = Local
  <2>1. /\ toYama' \in [Job -> Seq(Answer)] /\ t \in Task /\ t.block \in {Local}
        /\ yama = "running" /\ \E k \in OfNode(s, j, t.nodo) : s[k].block = t.block
    BY <1>2, <1>3, <1>8, ReadsIs
  <2>. QED BY <2>1
<1>10. s \in Seq(State)
  BY <1>1, <1>3 DEF TypeOK
<1>11. v \in Seq(State) /\ Grows(j, s, v)
  BY <1>4, <1>10, UpdateGrows
<1>12. Reducers(v, j) # {}
  BY <1>9, <1>11, GrowsOwn DEF Reducers, OfNode
<1>13. /\ Cardinality(Reducers(v, j)) \in Nat \ {0}
       /\ \E k \in Reducers(v, j) : c = v[k].nodo
  BY <1>1, <1>5, <1>11, <1>12, ChiefIs
<1>14. \A k \in Reducers(v, j) : v[k] \in State
  BY <1>11 DEF Reducers, OfJob
<1>15. c \in Node /\ UNION {v[k].files : k \in Reducers(v, j)} \subseteq Block
  BY <1>13, <1>14 DEF State
<1>16. Global \in Stages
  BY DEF Stages
<1>17. e \in State /\ e.job = j /\ e.estado = "proceso" /\ e.nodo = c /\ e.block = Global
  BY <1>6, <1>15, <1>16, EntryType
<1>18. \A n \in Node : Weight(v, j, n) \in Nat /\ (n # c => Weight(v, j, n) = 0)
  <2>1. \A r \in Nat \ {0} : 1 + (r - 1) \div 2 \in Nat
    OBVIOUS
  <2>. QED BY <1>5, <1>13, <2>1 DEF Weight
<1>19. w \in [Node -> Nat] /\ \A n \in Node : n # c => w[n] = 0
  BY <1>7, <1>18
<1>20. /\ known' = known /\ activos' = activos
       /\ phase' = phase /\ told' = told /\ alive' = alive /\ present' = present
       /\ faults' = faults /\ downs' = downs
  BY <1>8 DEF envVars
<1>21. ASSUME Charges(j, w)
       PROVE  /\ actual' \in [Node -> Int] /\ porJob' \in [Node -> [Job -> Nat \cup {None}]]
              /\ \A i \in Job \ {j} : \A n \in Node : porJob'[n][i] = porJob[n][i]
              /\ \A n \in Node : n # c => porJob'[n][j] = porJob[n][j]
  BY <1>1, <1>19, <1>21, ChargesIs
<1>22. CASE /\ Charges(j, w) /\ estados' = Append(v, e)
            /\ Sends(j, {[nodo |-> c, block |-> Global]}) /\ UNCHANGED yama
  <2>1. /\ estados' \in Seq(State) /\ Grows(j, s, estados')
        /\ \E k \in OfNode(estados', j, c) :
             estados'[k].block = Global /\ estados'[k].estado = "proceso"
        /\ \A k \in OfJob(s, j) : s[k].block # Local => estados'[k] = s[k]
    <3>1. estados' = Append(Update(s, j, t, "ok"), e)
      BY <1>4, <1>22
    <3>2. /\ estados' \in Seq(State) /\ Grows(j, s, estados')
          /\ Advanced(s, estados', j, t, e)
      BY <1>10, <1>17, <3>1, NextStage
    <3>. QED BY <1>9, <1>17, <3>2 DEF Advanced
  <2>2. /\ tasks' \in [Job -> SUBSET Task] /\ \A i \in Job \ {j} : tasks'[i] = tasks[i]
        /\ tasks'[j] \ tasks[j] \subseteq {[nodo |-> c, block |-> Global]}
    BY <1>1, <1>15, <1>16, <1>22, SendsIs, SendsOne
  <2>3. TypeOK'
    BY <1>1, <1>9, <1>20, <1>21, <1>22, <2>1, <2>2 DEF TypeOK
  <2>4. Carrying(j)'
    <3>1. Works(j, c)'
      BY <2>1 DEF Works
    <3>2. ASSUME NEW n \in Node, n # c
          PROVE  \/ Works(j, n)' \/ porJob'[n][j] \in {None, 0}
                 \/ /\ porJob'[n][j] = porJob[n][j]
                    /\ \A k \in OfNode(estados, j, n) : estados'[k].estado = estados[k].estado
      <4>1. CASE \E k \in OfNode(s, j, n) : s[k].block = Local
        BY <2>1, <4>1, GrowsOwn DEF Works
      <4>2. CASE ~ \E k \in OfNode(s, j, n) : s[k].block = Local
        BY <1>3, <1>21, <1>22, <2>1, <3>2, <4>2 DEF OfNode
      <4>. QED BY <4>1, <4>2
    <3>. QED BY <1>1, <1>3, <1>9, <2>1, <3>1, <3>2, Carries DEF Sound
  <2>5. Ended(j)'
    BY <2>1 DEF Ended, InProcess, OfNode
  <2>6. \A x \in tasks'[j] \ tasks[j] : \E k \in OfNode(estados', j, x.nodo) :
          estados'[k].block = x.block
    BY <2>1, <2>2
  <2>. QED BY <1>3, <1>8, <1>20, <1>21, <1>22, <2>1, <2>2, <2>3, <2>4, <2>5, <2>6, ServeStep
<1>23. CASE Charges(j, w) /\ estados' = v /\ yama' = "crashed" /\ UNCHANGED tasks
  <2>1. TypeOK'
    BY <1>1, <1>9, <1>11, <1>20, <1>21, <1>23 DEF TypeOK
  <2>. QED BY <1>3, <1>8, <1>11, <1>20, <1>21, <1>23, <2>1, ServeStep
<1>24. CASE ~LocalsDone(v, j) /\ estados' = v /\ UNCHANGED <<actual, porJob, tasks, yama>>
  <2>1. TypeOK'
    BY <1>1, <1>9, <1>11, <1>20, <1>24 DEF TypeOK
  <2>2. \E k \in OfJob(v, j) : v[k].estado = "proceso"
    <3>1. PICK S : S = {k \in OfJob(v, j) : v[k].block >= Local}
      OBVIOUS
    <3>2. ~AllOk(v, Valid(v, S)) /\ S \subseteq OfJob(v, j)
      BY <1>24, <3>1 DEF LocalsDone
    <3>. QED BY <1>11, <3>2, NotDone DEF OfJob
  <2>3. Ended(j)'
    BY <1>24, <2>2 DEF Ended, InProcess
  <2>4. Carrying(j)'
    <3>1. \A i \in DOMAIN s : v[i] = s[i] \/ (s[i].nodo = t.nodo /\ s[i].block = Local)
      BY <1>4, <1>9, <1>10, UpdateKeeps
    <3>2. Works(j, t.nodo)'
      BY <1>9, <1>11, <1>24, GrowsOwn DEF Works
    <3>3. \A n \in Node : n # t.nodo => \A k \in OfNode(estados, j, n) :
            estados'[k].estado = estados[k].estado
      BY <1>3, <1>24, <3>1 DEF OfNode, OfJob
    <3>. QED BY <1>1, <1>3, <1>9, <1>11, <1>24, <3>2, <3>3, Carries DEF Sound
  <2>. QED BY <1>3, <1>8, <1>11, <1>20, <1>24, <2>1, <2>3, <2>4, ServeStep
<1>. QED BY <1>8, <1>22, <1>23, <1>24
\* The job goes to its last stage where its global reduction was.
LEMMA GlobalOkSound == ASSUME IInv, NEW j \in Job, GlobalOk(j) PROVE IInv' /\ Others(j)
<1>1. TypeOK /\ Sound(j)
  BY DEF IInv
<1>2. PICK t : t = Answered(j)
  OBVIOUS
<1>3. PICK s : s = estados
  OBVIOUS
<1>4. PICK v : v = Update(s, j, t, "ok")
  OBVIOUS
<1>5. PICK e : e = Entry(j, t.nodo, Final, {})
  OBVIOUS
<1>6. /\ Reads(j, {Global}, TRUE)
      /\ \/ /\ estados' = Append(v, e)
            /\ Sends(j, {[nodo |-> t.nodo, block |-> Final]}) /\ UNCHANGED yama
         \/ estados' = v /\ yama' = "crashed" /\ UNCHANGED tasks
      /\ UNCHANGED <<loadVars, activos, phase, told, envVars>>
  BY <1>2, <1>3, <1>4, <1>5 DEF GlobalOk
<1>7. /\ toYama' \in [Job -> Seq(Answer)] /\ t \in Task /\ t.block \in {Global}
      /\ yama = "running"
  BY <1>2, <1>6, ReadsIs
<1>8. s \in Seq(State)
  BY <1>1, <1>3 DEF TypeOK
<1>9. v \in Seq(State) /\ Grows(j, s, v)
  BY <1>4, <1>8, UpdateGrows
<1>10. t.nodo \in Node /\ Final \in Stages /\ {} \in SUBSET Block
  BY <1>7 DEF Task, Stages
<1>11. e \in State /\ e.job = j /\ e.estado = "proceso" /\ e.nodo = t.nodo /\ e.block = Final
  BY <1>5, <1>10, EntryType
<1>12. /\ known' = known /\ actual' = actual /\ porJob' = porJob /\ activos' = activos
       /\ phase' = phase /\ told' = told /\ alive' = alive /\ present' = present
       /\ faults' = faults /\ downs' = downs
  BY <1>6 DEF loadVars, envVars
<1>13. CASE /\ estados' = Append(v, e) /\ UNCHANGED yama
            /\ Sends(j, {[nodo |-> t.nodo, block |-> Final]})
  <2>1. /\ estados' \in Seq(State) /\ Grows(j, s, estados')
        /\ \E k \in OfNode(estados', j, t.nodo) :
             estados'[k].block = Final /\ estados'[k].estado = "proceso"
        /\ \A k \in OfJob(s, j) : s[k].nodo # t.nodo => estados'[k] = s[k]
    <3>1. estados' = Append(Update(s, j, t, "ok"), e)
      BY <1>4, <1>13
    <3>2. /\ estados' \in Seq(State) /\ Grows(j, s, estados')
          /\ Advanced(s, estados', j, t, e)
      BY <1>8, <1>11, <3>1, NextStage
    <3>. QED BY <1>11, <3>2 DEF Advanced
  <2>2. /\ tasks' \in [Job -> SUBSET Task] /\ \A i \in Job \ {j} : tasks'[i] = tasks[i]
        /\ tasks'[j] \ tasks[j] \subseteq {[nodo |-> t.nodo, block |-> Final]}
    BY <1>1, <1>10, <1>13, SendsIs, SendsOne
  <2>3. TypeOK'
    BY <1>1, <1>7, <1>12, <1>13, <2>1, <2>2 DEF TypeOK
  <2>4. Carrying(j)'
    <3>1. Works(j, t.nodo)'
      BY <2>1 DEF Works
    <3>2. \A n \in Node : n # t.nodo => \A k \in OfNode(estados, j, n) :
            estados'[k].estado = estados[k].estado
      BY <1>3, <2>1 DEF OfNode
    <3>. QED BY <1>1, <1>3, <1>7, <1>12, <2>1, <3>1, <3>2, Carries DEF Sound
  <2>5. Ended(j)'
    BY <2>1 DEF Ended, InProcess, OfNode
  <2>6. \A x \in tasks'[j] \ tasks[j] : \E k \in OfNode(estados', j, x.nodo) :
          estados'[k].block = x.block
    BY <2>1, <2>2
  <2>. QED BY <1>3, <1>6, <1>12, <2>1, <2>2, <2>3, <2>4, <2>5, <2>6, ServeStep
<1>14. CASE estados' = v /\ yama' = "crashed" /\ UNCHANGED tasks
  <2>1. TypeOK'
    BY <1>1, <1>7, <1>9, <1>12, <1>14 DEF TypeOK
  <2>. QED BY <1>3, <1>6, <1>9, <1>12, <1>14, <2>1, ServeStep
<1>. QED BY <1>6, <1>13, <1>14

\* Nodes lose their entry of a job.
LEMMA ReleasesIs ==
  ASSUME TypeOK, NEW j \in Job, NEW S, Releases(j, S)
  PROVE  /\ actual' \in [Node -> Int] /\ porJob' \in [Node -> [Job -> Nat \cup {None}]]
         /\ \A i \in Job \ {j} : \A n \in Node : porJob'[n][i] = porJob[n][i]
         /\ \A n \in Node : porJob'[n][j] = IF n \in S THEN None ELSE porJob[n][j]
         /\ \A n \in Node : actual'[n] = IF n \in S /\ porJob[n][j] # None
                                         THEN actual[n] - porJob[n][j] ELSE actual[n]
<1>1. /\ actual' = [n \in Node |-> IF n \in S /\ porJob[n][j] # None
                               THEN actual[n] - porJob[n][j] ELSE actual[n]]
      /\ porJob' = [n \in Node |-> IF n \in S THEN [porJob[n] EXCEPT ![j] = None]
                               ELSE porJob[n]]
  BY DEF Releases
<1>2. \A n \in Node : actual[n] \in Int /\ porJob[n] \in [Job -> Nat \cup {None}]
  BY DEF TypeOK
<1>3. \A n \in Node : porJob[n][j] # None => porJob[n][j] \in Nat
  BY <1>2
<1>4. actual' \in [Node -> Int]
  BY <1>1, <1>2, <1>3
<1>. QED BY <1>1, <1>2, <1>4

\* All entries of a job are put in error, and no node carries load for it.
LEMMA RemoveIs ==
  ASSUME TypeOK, NEW j \in Job, Carrying(j), RemoveStates(j, estados)
  PROVE  /\ estados' \in Seq(State) /\ Grows(j, estados, estados') /\ Free(j)'
         /\ actual' \in [Node -> Int] /\ porJob' \in [Node -> [Job -> Nat \cup {None}]]
         /\ \A i \in Job \ {j} : \A n \in Node : porJob'[n][i] = porJob[n][i]
<1>1. PICK S : S = {estados[k].nodo : k \in OfJob(estados, j)}
  OBVIOUS
<1>2. /\ Releases(j, S)
      /\ estados' = [k \in DOMAIN estados |-> IF estados[k].job = j
                       THEN [estados[k] EXCEPT !.estado = "error"] ELSE estados[k]]
  BY <1>1 DEF RemoveStates
<1>3. estados' \in Seq(State) /\ Grows(j, estados, estados')
  BY <1>2, ErrorsGrow DEF TypeOK
<1>4. /\ actual' \in [Node -> Int] /\ porJob' \in [Node -> [Job -> Nat \cup {None}]]
      /\ \A i \in Job \ {j} : \A n \in Node : porJob'[n][i] = porJob[n][i]
      /\ \A n \in Node : porJob'[n][j] = IF n \in S THEN None ELSE porJob[n][j]
  BY <1>2, ReleasesIs
<1>5. ASSUME NEW n \in Node PROVE porJob'[n][j] \in {None, 0}
  <2>1. CASE n \in S
    BY <1>4, <2>1
  <2>2. CASE n \notin S
    <3>1. OfNode(estados, j, n) = {}
      BY <1>1, <2>2 DEF OfNode
    <3>2. porJob[n][j] \in {None, 0}
      BY <3>1 DEF Carrying, Works
    <3>. QED BY <1>4, <2>2, <3>2
  <2>. QED BY <2>1, <2>2
<1>6. Free(j)'
  BY <1>5 DEF Free
<1>. QED BY <1>3, <1>4, <1>6

\* A failed local reduction aborts the job, which then has no load.
LEMMA LocalFailedSound == ASSUME IInv, NEW j \in Job, LocalFailed(j) PROVE IInv' /\ Others(j)
<1>1. TypeOK /\ Sound(j)
  BY DEF IInv
<1>2. /\ Reads(j, {Local}, FALSE) /\ RemoveStates(j, estados)
      /\ told' = [told EXCEPT ![j] = TRUE]
      /\ UNCHANGED <<known, activos, yama, phase, tasks, envVars>>
  BY DEF LocalFailed, Abort
<1>3. yama = "running" /\ toYama' \in [Job -> Seq(Answer)]
  BY <1>2, ReadsIs
<1>4. /\ estados' \in Seq(State) /\ Grows(j, estados, estados') /\ Free(j)'
      /\ actual' \in [Node -> Int] /\ porJob' \in [Node -> [Job -> Nat \cup {None}]]
      /\ \A i \in Job \ {j} : \A n \in Node : porJob'[n][i] = porJob[n][i]
  BY <1>1, <1>2, <1>3, RemoveIs DEF Sound
<1>5. TypeOK'
  BY <1>1, <1>2, <1>3, <1>4 DEF TypeOK, envVars
<1>. QED BY <1>2, <1>4, <1>5, ServeStep, FreeIsSound

\* The job of a Master that is gone has no load, for what is in process is removed.
LEMMA DisconnectedSound == ASSUME IInv, NEW j \in Job, Disconnected(j) PROVE IInv' /\ Others(j)
<1>1. TypeOK /\ Sound(j)
  BY DEF IInv
<1>2. /\ yama = "running" /\ phase[j] = "gone" /\ toYama[j] = <<>>
      /\ phase' = [phase EXCEPT ![j] = "closed"]
      /\ UNCHANGED <<known, activos, yama, told, tasks, toYama, envVars>>
  BY DEF Disconnected
<1>3. /\ estados' \in Seq(State) /\ Grows(j, estados, estados') /\ Free(j)'
      /\ actual' \in [Node -> Int] /\ porJob' \in [Node -> [Job -> Nat \cup {None}]]
      /\ \A i \in Job \ {j} : \A n \in Node : porJob'[n][i] = porJob[n][i]
  <2>1. CASE RemoveStates(j, estados)
    BY <1>1, <1>2, <2>1, RemoveIs DEF Sound
  <2>2. CASE InProcess(j) = {} /\ UNCHANGED <<estados, actual, porJob>>
    <3>1. Free(j)
      BY <1>1, <1>2, <2>2 DEF Sound, Ended
    <3>2. Free(j)'
      BY <2>2, <3>1 DEF Free
    <3>. QED BY <1>1, <2>2, <3>2, GrowsSame DEF TypeOK
  <2>3. RemoveStates(j, estados) \/ (InProcess(j) = {} /\ UNCHANGED <<estados, actual, porJob>>)
    BY DEF Disconnected, InProcess
  <2>. QED BY <2>1, <2>2, <2>3
<1>4. TypeOK'
  BY <1>1, <1>2, <1>3 DEF TypeOK, envVars
<1>5. phase'[j] = "closed"
  BY <1>1, <1>2 DEF TypeOK
<1>6. Rooted(j)'
  <2>1. Outstanding(j)' = Outstanding(j)
    BY <1>2 DEF Outstanding, Reported, Reports
  <2>2. SUFFICES ASSUME NEW t \in Outstanding(j)
                 PROVE  \E k \in OfNode(estados', j, t.nodo) : estados'[k].block = t.block
    BY <2>1 DEF Rooted
  <2>3. PICK k \in OfNode(estados, j, t.nodo) : estados[k].block = t.block
    BY <1>1 DEF Sound, Rooted
  <2>. QED BY <1>3, <2>3, GrowsOwn
<1>7. Begun(j)' /\ Closed(j)'
  BY <1>2, <1>3, <1>5 DEF Begun, Closed
<1>8. Sound(j)'
  BY <1>3, <1>6, <1>7, FreeIsSound DEF Sound
<1>9. Others(j)
  BY <1>1, <1>2, <1>3 DEF TypeOK, Others
<1>. QED BY <1>4, <1>8, <1>9, OneJob
\* Where the first entry of j in process is.
FirstOf(s, j) ==
  LET I == {i \in 1 .. Len(s) : s[i].job = j /\ s[i].estado = "proceso"}
  IN  IF I # {} THEN Min(I) ELSE 0

\* An entry in process is found if there is one.
LEMMA FirstIs ==
  ASSUME NEW s \in Seq(State), NEW j
  PROVE  /\ FirstOf(s, j) # 0 => /\ FirstOf(s, j) \in OfJob(s, j)
                                 /\ s[FirstOf(s, j)].estado = "proceso"
         /\ FirstOf(s, j) = 0 => \A k \in OfJob(s, j) : s[k].estado # "proceso"
<1>. DEFINE I == {i \in 1 .. Len(s) : s[i].job = j /\ s[i].estado = "proceso"}
<1>1. Len(s) \in Nat /\ I \subseteq 1 .. Len(s) /\ DOMAIN s = 1 .. Len(s)
  OBVIOUS
<1>2. PICK k : k = IF I # {} THEN Min(I) ELSE 0
  OBVIOUS
<1>3. IF I = {} THEN k = 0 ELSE k \in I
  <2>. HIDE DEF I
  <2>. QED BY <1>1, <1>2, Picked
<1>4. FirstOf(s, j) = k
  BY <1>2 DEF FirstOf
<1>5. 0 \notin 1 .. Len(s)
  OBVIOUS
<1>. QED BY <1>1, <1>3, <1>4, <1>5 DEF OfJob

\* An entry of the table takes another state.
LEMMA StateGrows ==
  ASSUME NEW s \in Seq(State), NEW k \in DOMAIN s, NEW e \in {"proceso", "ok", "error"},
         NEW u, u = [s EXCEPT ![k].estado = e]
  PROVE  /\ u \in Seq(State) /\ Grows(s[k].job, s, u)
         /\ \A i \in DOMAIN s \ {k} : u[i] = s[i]
<1>1. /\ DOMAIN u = DOMAIN s
      /\ \A i \in DOMAIN s : u[i] = IF i = k THEN [s[i] EXCEPT !.estado = e] ELSE s[i]
  OBVIOUS
<1>2. \A i \in DOMAIN s : s[i] \in State
  OBVIOUS
<1>3. \A i \in DOMAIN s :
        /\ u[i] \in State
        /\ u[i].job = s[i].job /\ u[i].nodo = s[i].nodo /\ u[i].block = s[i].block
  BY <1>1, <1>2 DEF State
<1>4. u \in [1 .. Len(s) -> State] /\ Len(s) \in Nat
  BY <1>1, <1>3
<1>5. u \in Seq(State)
  BY <1>4
<1>. QED BY <1>1, <1>3, <1>5 DEF Grows

\* The end of the global reduction, or of the storing.
LEMMA FinalizeStep ==
  ASSUME IInv, NEW j \in Job, NEW B, NEW ok, Reads(j, B, ok),
         NEW e \in {"ok", "error"}, Finalize(j, e), told' \in [Job -> BOOLEAN],
         UNCHANGED <<known, activos, phase, tasks, envVars>>
  PROVE  IInv' /\ Others(j)
<1>1. TypeOK /\ Sound(j)
  BY DEF IInv
<1>2. yama = "running" /\ toYama' \in [Job -> Seq(Answer)]
  BY ReadsIs
<1>3. PICK k : k = FirstOf(estados, j)
  OBVIOUS
<1>4. IF k = 0
      THEN yama' = "crashed" /\ UNCHANGED <<estados, actual, porJob>>
      ELSE /\ estados' = [estados EXCEPT ![k].estado = e]
           /\ Releases(j, Carriers(j, estados[k].nodo)) /\ UNCHANGED yama
  BY <1>3 DEF Finalize, SelectInSeq, FirstOf
<1>5. CASE k = 0
  <2>1. TypeOK'
    BY <1>1, <1>2, <1>4, <1>5 DEF TypeOK, envVars
  <2>. QED BY <1>4, <1>5, <2>1, ServeStep, GrowsSame
<1>6. CASE k # 0
  <2>1. k \in OfJob(estados, j)
    BY <1>1, <1>3, <1>6, FirstIs DEF TypeOK
  <2>2. /\ estados' \in Seq(State) /\ Grows(j, estados, estados')
        /\ \A i \in DOMAIN estados \ {k} : estados'[i] = estados[i]
    <3>1. estados \in Seq(State) /\ k \in DOMAIN estados /\ estados[k].job = j
      BY <1>1, <2>1 DEF TypeOK, OfJob
    <3>2. estados' = [estados EXCEPT ![k].estado = e] /\ e \in {"proceso", "ok", "error"}
      BY <1>4, <1>6
    <3>. QED BY <3>1, <3>2, StateGrows
  <2>3. PICK S : S = Carriers(j, estados[k].nodo)
    OBVIOUS
  <2>4. /\ actual' \in [Node -> Int] /\ porJob' \in [Node -> [Job -> Nat \cup {None}]]
        /\ \A i \in Job \ {j} : \A n \in Node : porJob'[n][i] = porJob[n][i]
        /\ \A n \in Node : porJob'[n][j] = IF n \in S THEN None ELSE porJob[n][j]
    BY <1>1, <1>4, <1>6, <2>3, ReleasesIs
  <2>5. estados[k].nodo \in S
        /\ \A i \in OfJob(estados, j) : estados[i].block = Local => estados[i].nodo \in S
    BY <2>3 DEF Carriers
  <2>6. TypeOK'
    BY <1>1, <1>2, <1>4, <1>6, <2>2, <2>4 DEF TypeOK, envVars
  <2>7. Carrying(j) /\ Carrying(j)'
    <3>1. ASSUME NEW n \in Node, n \notin S
          PROVE  \A i \in OfNode(estados, j, n) : estados'[i].estado = estados[i].estado
      BY <2>2, <2>5, <3>1 DEF OfNode, OfJob
    <3>2. Carrying(j)
      BY <1>1, <1>2 DEF Sound
    <3>. QED BY <2>2, <2>4, <3>1, <3>2, Carries
  <2>8. Ended(j)'
    <3>1. SUFFICES ASSUME InProcess(j)' = {}, NEW n \in Node
                   PROVE  porJob'[n][j] \in {None, 0}
      BY DEF Ended, Free
    <3>2. SUFFICES ASSUME n \notin S, porJob[n][j] \notin {None, 0} PROVE FALSE
      BY <2>4
    <3>3. PICK i \in OfNode(estados, j, n) :
            estados[i].estado = "proceso" \/ estados[i].block = Local
      BY <2>7, <3>2 DEF Carrying, Works
    <3>4. i # k /\ estados[i].estado = "proceso" /\ i \in DOMAIN estados
      BY <2>5, <3>2, <3>3 DEF OfNode, OfJob
    <3>5. i \in OfNode(estados', j, n) /\ estados'[i].estado = "proceso"
      BY <2>2, <3>3, <3>4, GrowsOwn
    <3>. QED BY <3>1, <3>5 DEF InProcess, OfNode
  <2>. QED BY <2>2, <2>4, <2>6, <2>7, <2>8, ServeStep
<1>. QED BY <1>5, <1>6

\* A failed global reduction ends the job as its last stage would.
LEMMA GlobalFailedSound == ASSUME IInv, NEW j \in Job, GlobalFailed(j) PROVE IInv' /\ Others(j)
<1>1. TypeOK
  BY DEF IInv
<1>2. /\ Reads(j, {Global}, FALSE) /\ Finalize(j, "error")
      /\ told' = [told EXCEPT ![j] = TRUE]
      /\ UNCHANGED <<known, activos, phase, tasks, envVars>>
  BY DEF GlobalFailed
<1>3. told' \in [Job -> BOOLEAN]
  BY <1>1, <1>2 DEF TypeOK
<1>. QED BY <1>2, <1>3, FinalizeStep

\* The last stage ends the job: its nodes with load are those Finalize takes it from.
LEMMA StoredSound ==
  ASSUME IInv, NEW j \in Job, NEW ok \in BOOLEAN, Stored(j, ok) PROVE IInv' /\ Others(j)
<1>1. TypeOK
  BY DEF IInv
<1>2. PICK e : e = IF ok THEN "ok" ELSE "error"
  OBVIOUS
<1>3. /\ Reads(j, {Final}, ok) /\ Finalize(j, e) /\ e \in {"ok", "error"}
      /\ UNCHANGED <<known, activos, phase, told, tasks, envVars>>
  BY <1>2 DEF Stored
<1>4. told' \in [Job -> BOOLEAN]
  BY <1>1, <1>3 DEF TypeOK
<1>. QED BY <1>3, <1>4, FinalizeStep
-----------------------------------------------------------------------------
(* A replanning.                                                           *)

\* The transformations of a node are finitely many entries, each of a block.
LEMMA LostIs ==
  ASSUME TypeOK, NEW j \in Job, NEW n
  PROVE  /\ IsFiniteSet(Lost(j, n)) /\ Lost(j, n) \subseteq OfNode(estados, j, n)
         /\ Lost(j, n) \subseteq Int /\ \A k \in Lost(j, n) : estados[k].block \in Block
<1>1. Lost(j, n) \subseteq OfNode(estados, j, n)
      /\ \A k \in Lost(j, n) : estados[k].block \in Block
  BY DEF Lost
<1>2. OfNode(estados, j, n) \subseteq 1 .. Len(estados) /\ Len(estados) \in Nat
  BY DEF TypeOK, OfNode, OfJob
<1>3. IsFiniteSet(1 .. Len(estados)) /\ 1 .. Len(estados) \subseteq Int
  BY <1>2, FS_Interval
<1>4. Lost(j, n) \subseteq 1 .. Len(estados)
  BY <1>1, <1>2
<1>5. IsFiniteSet(Lost(j, n))
  BY <1>3, <1>4, FS_Subset
<1>. QED BY <1>1, <1>3, <1>4, <1>5

\* Where the blocks of lost go, and the tasks that this makes, in order.
Target(lost, n) ==
  [b \in {estados[k].block : k \in lost} |-> CHOOSE m \in Mirror(b, n) : TRUE]
Again(lost, to) ==
  [i \in DOMAIN InOrder(lost) |->
     [nodo |-> to[estados[InOrder(lost)[i]].block], block |-> estados[InOrder(lost)[i]].block]]

\* What replanning does: it aborts the job, or moves the transformations of the node.
LEMMA TransformFailedIs ==
  ASSUME NEW j \in Job, TransformFailed(j),
         NEW n, n = Answered(j).nodo, NEW lost, lost = Lost(j, n),
         NEW to, to = Target(lost, n)
  PROVE  /\ Reads(j, Block, FALSE) /\ activos' = alive
         /\ UNCHANGED <<known, yama, phase, envVars>>
         /\ \/ Abort(j, estados) /\ UNCHANGED tasks
            \/ /\ \A k \in lost : Mirror(estados[k].block, n) # {}
               /\ estados' = InError(j, n) \o Entries(j, Again(lost, to))
               /\ MoveLoad(j, n, lost, to)
               /\ Sends(j, Range(Again(lost, to))) /\ UNCHANGED told
<1>1. LET N == Answered(j).nodo
          L == Lost(j, N)
      IN
      /\ Reads(j, Block, FALSE) /\ activos' = alive
      /\ UNCHANGED <<known, yama, phase, envVars>>
      /\ \/ Abort(j, estados) /\ UNCHANGED tasks
         \/ /\ \A k \in L : Mirror(estados[k].block, N) # {}
            /\ estados' = InError(j, N) \o Entries(j, Again(L, Target(L, N)))
            /\ MoveLoad(j, N, L, Target(L, N))
            /\ Sends(j, Range(Again(L, Target(L, N)))) /\ UNCHANGED told
  BY DEF TransformFailed, Target, Again
<1>. QED BY <1>1

\* A block is moved to an active node that keeps it and is not the one that failed.
LEMMA TargetIs ==
  ASSUME TypeOK, NEW lost, NEW n, \A k \in lost : Mirror(estados[k].block, n) # {},
         NEW to, to = Target(lost, n)
  PROVE  \A k \in lost : to[estados[k].block] \in Mirror(estados[k].block, n)
                        /\ to[estados[k].block] \in Node \ {n}
<1>1. \A k \in lost : to[estados[k].block] = CHOOSE m \in Mirror(estados[k].block, n) : TRUE
  BY DEF Target
<1>2. \A k \in lost : to[estados[k].block] \in Mirror(estados[k].block, n)
  BY <1>1
<1>3. \A b : Mirror(b, n) \subseteq Node \ {n}
  BY DEF Mirror, TypeOK
<1>. QED BY <1>2, <1>3

\* The new tasks: one for each of lost.
LEMMA AgainIs ==
  ASSUME TypeOK, NEW j \in Job, NEW n, NEW lost, lost = Lost(j, n), NEW to,
         \A k \in lost : to[estados[k].block] \in Node,
         NEW q, q = Again(lost, to)
  PROVE  /\ q \in Seq(Task) /\ Len(q) = Cardinality(lost)
         /\ \A i \in DOMAIN q : /\ InOrder(lost)[i] \in lost
                                /\ q[i].block = estados[InOrder(lost)[i]].block
                                /\ q[i].nodo = to[q[i].block]
         /\ \A k \in lost : \E i \in DOMAIN q : InOrder(lost)[i] = k
         /\ \A i, h \in DOMAIN q : InOrder(lost)[i] = InOrder(lost)[h] => i = h
<1>1. IsFiniteSet(lost) /\ lost \subseteq Int /\ \A k \in lost : estados[k].block \in Block
  BY LostIs
<1>2. PICK r : r = InOrder(lost)
  OBVIOUS
<1>3. /\ r \in Seq(lost) /\ Len(r) = Cardinality(lost)
      /\ \A x \in lost : \E i \in DOMAIN r : r[i] = x
      /\ \A i, k \in DOMAIN r : r[i] = r[k] => i = k
  BY <1>1, <1>2, InOrderIs
<1>4. DOMAIN r = 1 .. Len(r) /\ Len(r) \in Nat /\ \A i \in DOMAIN r : r[i] \in lost
  BY <1>3
<1>5. q = [i \in DOMAIN r |-> [nodo |-> to[estados[r[i]].block], block |-> estados[r[i]].block]]
  BY <1>2 DEF Again
<1>6. \A i \in DOMAIN r : /\ q[i].block = estados[r[i]].block
                          /\ q[i].nodo = to[estados[r[i]].block]
  BY <1>5
<1>7. \A i \in DOMAIN r : q[i] \in Task
  <2>. TAKE i \in DOMAIN r
  <2>1. r[i] \in lost
    BY <1>4
  <2>2. estados[r[i]].block \in Stages /\ to[estados[r[i]].block] \in Node
    BY <1>1, <2>1 DEF Stages
  <2>3. q[i] = [nodo |-> to[estados[r[i]].block], block |-> estados[r[i]].block]
    BY <1>5
  <2>. QED BY <2>2, <2>3 DEF Task
<1>8. q \in [1 .. Len(r) -> Task]
  BY <1>4, <1>5, <1>7
<1>9. q \in Seq(Task) /\ Len(q) = Len(r) /\ DOMAIN q = DOMAIN r
  BY <1>4, <1>8
<1>. QED BY <1>2, <1>3, <1>4, <1>6, <1>9

\* The failed ones are put in error.
LEMMA InErrorIs ==
  ASSUME TypeOK, NEW j \in Job, NEW n
  PROVE  /\ InError(j, n) \in Seq(State) /\ Grows(j, estados, InError(j, n))
         /\ Len(InError(j, n)) = Len(estados)
         /\ \A k \in DOMAIN estados : k \notin Lost(j, n) => InError(j, n)[k] = estados[k]
<1>1. PICK s : s = estados
  OBVIOUS
<1>2. PICK F : F = {k \in Lost(j, n) :
        \A i \in Lost(j, n) : estados[i].block = estados[k].block => k <= i}
  OBVIOUS
<1>3. PICK v : v = InError(j, n)
  OBVIOUS
<1>4. v = [k \in DOMAIN s |-> IF k \in F THEN [s[k] EXCEPT !.estado = "error"] ELSE s[k]]
  BY <1>1, <1>2, <1>3 DEF InError
<1>5. s \in Seq(State) /\ \A k \in DOMAIN s : s[k] \in State
  BY <1>1 DEF TypeOK
<1>6. \A k \in DOMAIN s :
        /\ v[k] \in State
        /\ v[k].job = s[k].job /\ v[k].nodo = s[k].nodo /\ v[k].block = s[k].block
        /\ k \notin F => v[k] = s[k]
  BY <1>4, <1>5 DEF State
<1>7. DOMAIN v = DOMAIN s /\ DOMAIN s = 1 .. Len(s) /\ Len(s) \in Nat
  BY <1>4, <1>5
<1>8. v \in [1 .. Len(s) -> State]
  BY <1>4, <1>6, <1>7
<1>9. v \in Seq(State) /\ Len(v) = Len(s)
  BY <1>7, <1>8
<1>10. \A k \in F : k \in Lost(j, n) /\ s[k].job = j
  <2>1. F \subseteq Lost(j, n)
    BY <1>2
  <2>2. Lost(j, n) \subseteq OfNode(estados, j, n)
    BY LostIs
  <2>. QED BY <1>1, <2>1, <2>2 DEF OfNode, OfJob
<1>11. Grows(j, s, v)
  BY <1>6, <1>7, <1>10 DEF Grows
<1>12. \A k \in DOMAIN s : k \notin Lost(j, n) => v[k] = s[k]
  BY <1>6, <1>10
<1>. QED BY <1>1, <1>3, <1>9, <1>11, <1>12

\* The loads it moves.
LEMMA MovedIs ==
  ASSUME NEW lost, IsFiniteSet(lost), NEW to, NEW m
  PROVE  /\ Moved(lost, to, m) \in Nat
         /\ Moved(lost, to, m) # 0 => \E k \in lost : to[estados[k].block] = m
<1>1. PICK S : S = {k \in lost : to[estados[k].block] = m}
  OBVIOUS
<1>2. Cardinality(S) \in Nat /\ (S = {} => Cardinality(S) = 0)
  BY <1>1, FS_Subset, FS_CardinalityType, FS_EmptySet
<1>. QED BY <1>1, <1>2 DEF Moved

NewLoad(j, n, lost, to, m) ==
  IF m = n THEN None
  ELSE IF Moved(lost, to, m) = 0 THEN porJob[m][j]
  ELSE IF porJob[m][j] = None THEN Moved(lost, to, m)
  ELSE porJob[m][j] + Moved(lost, to, m)

Moving(j, n, lost, to) ==
  \A m \in Node :
    /\ porJob'[m][j] = NewLoad(j, n, lost, to, m)
    /\ actual'[m] = actual[m] + Moved(lost, to, m)
                     - (IF m = n THEN Cardinality(lost) ELSE 0)

\* The loads after the transformations of a node were moved.
LEMMA MoveLoadIs ==
  ASSUME TypeOK, NEW j \in Job, NEW n, NEW lost, IsFiniteSet(lost), NEW to,
         MoveLoad(j, n, lost, to)
  PROVE  /\ actual' \in [Node -> Int] /\ porJob' \in [Node -> [Job -> Nat \cup {None}]]
         /\ \A i \in Job \ {j} : \A m \in Node : porJob'[m][i] = porJob[m][i]
         /\ Moving(j, n, lost, to)
<1>1. \A m \in Node : /\ Moved(lost, to, m) \in Nat /\ actual[m] \in Int
                      /\ porJob[m] \in [Job -> Nat \cup {None}]
  BY MovedIs DEF TypeOK
<1>2. Cardinality(lost) \in Nat
  BY FS_CardinalityType
<1>3. /\ actual' = [m \in Node |-> actual[m] + Moved(lost, to, m)
                                - (IF m = n THEN Cardinality(lost) ELSE 0)]
      /\ porJob' = [m \in Node |-> [porJob[m] EXCEPT ![j] = NewLoad(j, n, lost, to, m)]]
  BY DEF MoveLoad, Freed, TypeOK, NewLoad
<1>4. \A m \in Node : NewLoad(j, n, lost, to, m) \in Nat \cup {None}
  BY <1>1 DEF NewLoad
<1>5. actual' \in [Node -> Int]
  BY <1>1, <1>2, <1>3
<1>6. Moving(j, n, lost, to)
  BY <1>1, <1>3 DEF Moving
<1>. QED BY <1>1, <1>3, <1>4, <1>5, <1>6
\* The mirrors that take over have their entries in process, and the node that failed no load.
LEMMA TransformFailedSound == ASSUME IInv, NEW j \in Job, TransformFailed(j) PROVE IInv' /\ Others(j)
<1>1. TypeOK /\ Sound(j)
  BY DEF IInv
<1>2. PICK n : n = Answered(j).nodo
  OBVIOUS
<1>3. PICK lost : lost = Lost(j, n)
  OBVIOUS
<1>4. PICK to : to = Target(lost, n)
  OBVIOUS
<1>5. PICK q : q = Again(lost, to)
  OBVIOUS
<1>6. /\ Reads(j, Block, FALSE) /\ activos' = alive
      /\ UNCHANGED <<known, yama, phase, envVars>>
      /\ \/ Abort(j, estados) /\ UNCHANGED tasks
         \/ /\ \A k \in lost : Mirror(estados[k].block, n) # {}
            /\ estados' = InError(j, n) \o Entries(j, q)
            /\ MoveLoad(j, n, lost, to)
            /\ Sends(j, Range(q)) /\ UNCHANGED told
  BY <1>2, <1>3, <1>4, <1>5, TransformFailedIs
<1>7. /\ yama = "running" /\ toYama' \in [Job -> Seq(Answer)] /\ Answered(j).block \in Block
      /\ \E k \in OfNode(estados, j, n) : estados[k].block = Answered(j).block
  BY <1>2, <1>6, ReadsIs
<1>8. CASE Abort(j, estados) /\ UNCHANGED tasks
  <2>1. RemoveStates(j, estados) /\ told' = [told EXCEPT ![j] = TRUE] /\ UNCHANGED tasks
    BY <1>8 DEF Abort
  <2>2. /\ estados' \in Seq(State) /\ Grows(j, estados, estados') /\ Free(j)'
        /\ actual' \in [Node -> Int] /\ porJob' \in [Node -> [Job -> Nat \cup {None}]]
        /\ \A i \in Job \ {j} : \A m \in Node : porJob'[m][i] = porJob[m][i]
    BY <1>1, <1>7, <2>1, RemoveIs DEF Sound
  <2>3. TypeOK'
    BY <1>1, <1>6, <1>7, <2>1, <2>2 DEF TypeOK, envVars
  <2>. QED BY <1>6, <2>1, <2>2, <2>3, ServeStep, FreeIsSound
<1>9. CASE /\ \A k \in lost : Mirror(estados[k].block, n) # {}
           /\ estados' = InError(j, n) \o Entries(j, q)
           /\ MoveLoad(j, n, lost, to)
           /\ Sends(j, Range(q)) /\ UNCHANGED told
  <2>1. /\ IsFiniteSet(lost) /\ lost \subseteq OfNode(estados, j, n)
        /\ \A k \in lost : estados[k].block \in Block
    BY <1>1, <1>3, LostIs
  <2>2. \A k \in lost : to[estados[k].block] \in Node \ {n}
    BY <1>1, <1>4, <1>9, TargetIs
  <2>3. /\ q \in Seq(Task)
        /\ \A i \in DOMAIN q : /\ InOrder(lost)[i] \in lost
                               /\ q[i].block = estados[InOrder(lost)[i]].block
                               /\ q[i].nodo = to[q[i].block]
        /\ \A k \in lost : \E i \in DOMAIN q : InOrder(lost)[i] = k
    BY <1>1, <1>3, <1>5, <2>2, AgainIs
  <2>4. \A i \in DOMAIN q : q[i].block \in Block
    BY <2>1, <2>3
  <2>5. PICK v : v = InError(j, n)
    OBVIOUS
  <2>6. /\ v \in Seq(State) /\ Grows(j, estados, v)
        /\ \A k \in DOMAIN estados : k \notin lost => v[k] = estados[k]
    BY <1>1, <1>3, <2>5, InErrorIs
  <2>7. /\ estados' \in Seq(State) /\ Grows(j, v, estados') /\ Added(j, v, q, estados')
    BY <1>9, <2>3, <2>4, <2>5, <2>6, ConcatGrows
  <2>8. Grows(j, estados, estados')
    BY <2>6, <2>7, GrowsTwice
  <2>9. \A i \in DOMAIN q : \E k \in OfNode(estados', j, q[i].nodo) :
          estados'[k].block = q[i].block /\ estados'[k].estado = "proceso"
    <3>. TAKE i \in DOMAIN q
    <3>1. PICK k \in DOMAIN estados' :
            estados'[k] = Entry(j, q[i].nodo, q[i].block, {q[i].block})
      BY <2>7 DEF Added
    <3>. QED BY <3>1 DEF OfNode, OfJob, Entry
  <2>10. /\ actual' \in [Node -> Int] /\ porJob' \in [Node -> [Job -> Nat \cup {None}]]
         /\ \A i \in Job \ {j} : \A m \in Node : porJob'[m][i] = porJob[m][i]
         /\ \A m \in Node : porJob'[m][j] = NewLoad(j, n, lost, to, m)
    <3>1. TypeOK /\ IsFiniteSet(lost) /\ MoveLoad(j, n, lost, to)
      BY <1>1, <1>9, <2>1
    <3>2. actual' \in [Node -> Int] /\ porJob' \in [Node -> [Job -> Nat \cup {None}]]
      BY <3>1, MoveLoadIs
    <3>3. \A i \in Job \ {j} : \A m \in Node : porJob'[m][i] = porJob[m][i]
      BY <3>1, MoveLoadIs
    <3>4. Moving(j, n, lost, to)
      BY <3>1, MoveLoadIs
    <3>. QED BY <3>2, <3>3, <3>4 DEF Moving
  <2>11. Range(q) \in SUBSET Task /\ \A x \in Range(q) : \E i \in DOMAIN q : x = q[i]
    BY <2>3 DEF Range
  <2>12. /\ tasks' \in [Job -> SUBSET Task] /\ \A i \in Job \ {j} : tasks'[i] = tasks[i]
         /\ tasks'[j] \ tasks[j] \subseteq Range(q)
    BY <1>1, <1>9, <2>11, SendsIs
  <2>13. TypeOK'
    BY <1>1, <1>6, <1>7, <1>9, <2>7, <2>10, <2>12 DEF TypeOK, envVars
  <2>14. \A x \in tasks'[j] \ tasks[j] : \E k \in OfNode(estados', j, x.nodo) :
           estados'[k].block = x.block
    BY <2>9, <2>11, <2>12
  <2>15. Carrying(j)'
    <3>1. ASSUME NEW m \in Node
          PROVE  \/ Works(j, m)' \/ porJob'[m][j] \in {None, 0}
                 \/ /\ porJob'[m][j] = porJob[m][j]
                    /\ \A k \in OfNode(estados, j, m) : estados'[k].estado = estados[k].estado
      <4>1. CASE m = n
        BY <2>10, <4>1 DEF NewLoad
      <4>2. CASE m # n /\ Moved(lost, to, m) = 0
        <5>1. \A k \in OfNode(estados, j, m) : k \notin lost /\ k \in DOMAIN estados
          BY <2>1, <4>2 DEF OfNode, OfJob
        <5>2. \A k \in DOMAIN v : estados'[k] = v[k]
          BY <2>7 DEF Added
        <5>3. DOMAIN estados \subseteq DOMAIN v
          BY <2>6 DEF Grows
        <5>4. \A k \in OfNode(estados, j, m) : estados'[k] = estados[k]
          BY <2>6, <5>1, <5>2, <5>3
        <5>. QED BY <2>10, <4>2, <5>4 DEF NewLoad
      <4>3. CASE Moved(lost, to, m) # 0
        <5>1. PICK k \in lost : to[estados[k].block] = m
          BY <2>1, <4>3, MovedIs
        <5>2. PICK i \in DOMAIN q : InOrder(lost)[i] = k
          BY <2>3
        <5>3. q[i].nodo = m
          BY <2>3, <5>1, <5>2
        <5>. QED BY <2>9, <5>3 DEF Works
      <4>. QED BY <4>1, <4>2, <4>3
    <3>. QED BY <1>1, <1>7, <2>8, <3>1, Carries DEF Sound
  <2>16. Ended(j)'
    <3>1. PICK k \in lost : TRUE
      BY <1>3, <1>7 DEF Lost
    <3>2. PICK i \in DOMAIN q : InOrder(lost)[i] = k
      BY <2>3
    <3>3. InProcess(j)' # {}
      BY <2>9, <3>2 DEF InProcess, OfNode
    <3>. QED BY <3>3 DEF Ended
  <2>. QED BY <1>6, <2>7, <2>8, <2>10, <2>12, <2>13, <2>14, <2>15, <2>16, ServeStep
<1>. QED BY <1>6, <1>8, <1>9
-----------------------------------------------------------------------------
(* The invariant.                                                          *)

\* The invariant holds at the start.
LEMMA Starts == Init => IInv
<1>. SUFFICES ASSUME Init PROVE IInv
  OBVIOUS
<1>1. TypeOK
  <2>1. estados \in Seq(State) /\ <<>> \in Seq(Answer)
    BY DEF Init
  <2>. QED BY <2>1 DEF Init, TypeOK
<1>2. ASSUME NEW j \in Job PROVE Sound(j)
  <2>1. OfJob(estados, j) = {} /\ InProcess(j) = {} /\ Outstanding(j) = {}
    <3>1. DOMAIN estados = {}
      BY DEF Init
    <3>2. DOMAIN toYama[j] = {} /\ tasks[j] = {}
      BY DEF Init
    <3>. QED BY <3>1, <3>2 DEF OfJob, InProcess, Outstanding, Reported, Reports
  <2>2. Free(j) /\ phase[j] = "new"
    BY DEF Init, Free
  <2>. QED BY <2>1, <2>2 DEF Sound, Rooted, Begun, Closed, Carrying, Ended, Free
<1>. QED BY <1>1, <1>2 DEF IInv

\* Every step keeps it.
LEMMA Steps == IInv /\ [Next]_vars => IInv'
<1>. SUFFICES ASSUME IInv, [Next]_vars PROVE IInv'
  OBVIOUS
<1>1. CASE UNCHANGED vars
  <2>1. UNCHANGED <<estados, known, actual, porJob, activos, yama, phase, told, tasks,
                    toYama, alive, present, faults, downs>>
    BY <1>1 DEF vars, loadVars, masterVars, envVars
  <2>2. TypeOK'
    BY <2>1 DEF IInv, TypeOK
  <2>. QED BY <2>1, <2>2, NoJob
<1>2. ASSUME NEW j \in Job, Accept(j) PROVE IInv'
  BY <1>2, RefuseSound, InitSound, InitFailsSound DEF Accept
<1>3. ASSUME NEW j \in Job, Serve(j) PROVE IInv'
  <2>1. TRUE \in BOOLEAN /\ FALSE \in BOOLEAN
    OBVIOUS
  <2>. QED BY <1>3, <2>1, TransformOkSound, TransformFailedSound, LocalOkSound,
         LocalFailedSound, GlobalOkSound, GlobalFailedSound, StoredSound,
         DisconnectedSound DEF Serve
<1>4. ASSUME NEW j \in Job, Work(j) PROVE IInv'
  BY <1>4, DoneSound, FailSound DEF Work
<1>5. ASSUME NEW j \in Job, End(j) \/ Kill(j) PROVE IInv'
  BY <1>5, EndSound
<1>. QED BY <1>1, <1>2, <1>3, <1>4, <1>5, ClusterSound DEF Next

\* The table of states and the table of loads have their types.
THEOREM TypeCorrect == Spec => []TypeOK
<1>1. IInv => TypeOK
  BY DEF IInv
<1>. QED BY <1>1, Starts, Steps, PTL DEF Spec

\* Once YAMA is done with a job no node carries load for it: whether it was
\* stored, aborted, replanned or cut off, on any nodes, with any other jobs.
THEOREM LoadsReleasedAlways == Spec => []LoadsReleased
<1>1. IInv => LoadsReleased
  BY DEF IInv, Sound, Closed, Free, LoadsReleased
<1>. QED BY <1>1, Starts, Steps, PTL DEF Spec
-----------------------------------------------------------------------------
(* Every load added is taken away.                                         *)

\* Nothing of job j failed, and it does not reduce yet.
Pristine(j) == \A k \in OfJob(estados, j) :
  estados[k].block \in Block /\ estados[k].estado # "error"

\* The failure of a node's transformations is read first, while the table has
\* them all, and the Master does nothing more at that node.
Failure(a) == ~a.ok /\ a.task.block \in Block
Reporting(j) == \A i \in DOMAIN toYama[j] : Failure(toYama[j][i]) =>
  LET n == toYama[j][i].task.nodo IN
  /\ i = 1 /\ Pristine(j)
  /\ \A t \in tasks[j] : t.nodo # n
  /\ \A k \in DOMAIN toYama[j] : k # i => toYama[j][k].task.nodo # n

\* A job that reduces, or with an entry that failed for good, has no such
\* failure any more; before that each node's load is its entries.
Load(n, j) == IF porJob[n][j] = None THEN 0 ELSE porJob[n][j]
Loads(n) == [j \in Job |-> Load(n, j)]
Dropped(j, k) == estados[k].estado = "error" /\ \A t \in Outstanding(j) :
  t.nodo # estados[k].nodo \/ t.block # estados[k].block
Spent(j) == \E k \in OfJob(estados, j) : estados[k].block \notin Block \/ Dropped(j, k)
Matched(j) == \A n \in Node : Load(n, j) = Cardinality(OfNode(estados, j, n))
Settled(j) == Spent(j) \/ phase[j] = "closed" \/ (Pristine(j) /\ Matched(j))

AddUp == \A n \in Node : actual[n] = SumOf(Loads(n), Job)
Accounted == AddUp /\ \A j \in Job : Reporting(j) /\ Settled(j)

\* What a node carries for a job is a natural.
LEMMA LoadType ==
  ASSUME TypeOK, NEW n \in Node, NEW j \in Job
  PROVE  Load(n, j) \in Nat /\ (porJob[n][j] = None => Load(n, j) = 0)
         /\ (porJob[n][j] # None => Load(n, j) = porJob[n][j])
  BY JobAssumption DEF TypeOK, Load

\* A sum of loads changes as the load of the one job does.
LEMMA AddUpStays ==
  ASSUME TypeOK, TypeOK', AddUp, NEW j \in Job,
         \A i \in Job \ {j} : \A n \in Node : porJob'[n][i] = porJob[n][i],
         \A n \in Node : actual'[n] = actual[n] + Load(n, j)' - Load(n, j)
  PROVE  AddUp'
<1>. SUFFICES ASSUME NEW n \in Node PROVE actual'[n] = SumOf(Loads(n)', Job)
  BY DEF AddUp
<1>1. PICK f : f = Loads(n)
  OBVIOUS
<1>2. PICK g : g = Loads(n)'
  OBVIOUS
<1>3. \A i \in Job : f[i] = Load(n, i) /\ g[i] = Load(n, i)'
  BY <1>1, <1>2 DEF Loads
<1>4. \A i \in Job : Load(n, i) \in Nat
  BY LoadType
<1>5. \A i \in Job : Load(n, i)' \in Nat
  BY JobAssumption DEF TypeOK, Load
<1>6. \A i \in Job \ {j} : Load(n, i)' = Load(n, i)
  BY DEF Load
<1>7. \A i \in Job : f[i] \in Int /\ g[i] \in Int
  BY <1>3, <1>4, <1>5
<1>8. \A i \in Job \ {j} : f[i] = g[i]
  BY <1>3, <1>6
<1>9. IsFiniteSet(Job)
  BY JobAssumption
<1>10. SumOf(g, Job) = SumOf(f, Job) + g[j] - f[j]
  BY <1>7, <1>8, <1>9, SumChanges
<1>11. actual[n] = SumOf(f, Job)
  BY <1>1 DEF AddUp
<1>12. actual'[n] = actual[n] + g[j] - f[j]
  BY <1>3
<1>. QED BY <1>2, <1>10, <1>11, <1>12

\* A step of one job leaves the accounts of the others.
LEMMA OthersAccounted ==
  ASSUME NEW j \in Job, Others(j), NEW i \in Job \ {j}, Reporting(i), Settled(i)
  PROVE  Reporting(i)' /\ Settled(i)'
<1>1. /\ OfJob(estados', i) = OfJob(estados, i)
      /\ \A k \in OfJob(estados, i) : estados'[k] = estados[k]
      /\ \A n : OfNode(estados', i, n) = OfNode(estados, i, n)
  BY GrowsOthers DEF Others
<1>2. /\ phase'[i] = phase[i] /\ tasks'[i] = tasks[i] /\ toYama'[i] = toYama[i]
      /\ \A n \in Node : porJob'[n][i] = porJob[n][i]
  BY DEF Others
<1>3. Outstanding(i)' = Outstanding(i)
  BY <1>2 DEF Outstanding, Reported, Reports
<1>4. Pristine(i)' <=> Pristine(i)
  BY <1>1 DEF Pristine
<1>5. Reporting(i)'
  BY <1>2, <1>4 DEF Reporting
<1>6. Spent(i) => Spent(i)'
  BY <1>1, <1>3 DEF Spent, Dropped
<1>7. Matched(i) => Matched(i)'
  BY <1>1, <1>2 DEF Matched, Load
<1>. QED BY <1>2, <1>4, <1>5, <1>6, <1>7 DEF Settled

\* A step of one job that balances its loads keeps the account of all.
LEMMA OneAccounted ==
  ASSUME IInv, IInv', Accounted, NEW j \in Job, Others(j), Reporting(j)', Settled(j)',
         \A n \in Node : actual'[n] = actual[n] + Load(n, j)' - Load(n, j)
  PROVE  Accounted'
<1>1. TypeOK /\ TypeOK'
  BY DEF IInv
<1>2. \A i \in Job \ {j} : \A n \in Node : porJob'[n][i] = porJob[n][i]
  BY DEF Others
<1>3. AddUp'
  BY <1>1, <1>2, AddUpStays DEF Accounted
<1>4. \A i \in Job \ {j} : Reporting(i)' /\ Settled(i)'
  BY OthersAccounted DEF Accounted
<1>. QED BY <1>3, <1>4 DEF Accounted

\* So does a step that leaves the tables alone.
LEMMA NoneAccounted ==
  ASSUME Accounted, UNCHANGED <<estados, actual, porJob, phase, tasks, toYama>>
  PROVE  Accounted'
<1>1. AddUp'
  BY DEF Accounted, AddUp, Loads, Load
<1>2. ASSUME NEW j \in Job PROVE Reporting(j)' /\ Settled(j)'
  <2>1. Pristine(j)' <=> Pristine(j)
    BY DEF Pristine
  <2>2. Outstanding(j)' = Outstanding(j)
    BY DEF Outstanding, Reported, Reports
  <2>3. Reporting(j)'
    BY <2>1 DEF Accounted, Reporting
  <2>4. Spent(j)' <=> Spent(j)
    BY <2>2 DEF Spent, Dropped
  <2>5. Matched(j)' <=> Matched(j)
    BY DEF Matched, Load
  <2>. QED BY <2>1, <2>3, <2>4, <2>5 DEF Accounted, Settled
<1>. QED BY <1>1, <1>2 DEF Accounted

\* A job that is spent stays so.
LEMMA SpentStays ==
  ASSUME NEW j \in Job, Spent(j), Grows(j, estados, estados'),
         \A k \in OfJob(estados, j) : estados[k].block \in Block /\ Dropped(j, k)
           => estados'[k].estado = "error",
         \A t \in Outstanding(j)' : t \in Outstanding(j) \/ t.block \notin Block
  PROVE  Spent(j)'
<1>1. PICK k \in OfJob(estados, j) : estados[k].block \notin Block \/ Dropped(j, k)
  BY DEF Spent
<1>2. /\ k \in OfJob(estados', j) /\ estados'[k].block = estados[k].block
      /\ estados'[k].nodo = estados[k].nodo
  BY DEF Grows, OfJob
<1>3. CASE estados[k].block \notin Block
  BY <1>2, <1>3 DEF Spent
<1>4. CASE estados[k].block \in Block /\ Dropped(j, k)
  <2>1. estados'[k].estado = "error"
    BY <1>4
  <2>2. ASSUME NEW t \in Outstanding(j)'
        PROVE  t.nodo # estados'[k].nodo \/ t.block # estados'[k].block
    BY <1>2, <1>4 DEF Dropped
  <2>3. Dropped(j, k)'
    BY <2>1, <2>2 DEF Dropped
  <2>. QED BY <1>2, <2>3 DEF Spent
<1>. QED BY <1>1, <1>3, <1>4

\* A job that reduces is spent.
LEMMA ReducesIsSpent ==
  ASSUME NEW j \in Job, Grows(j, estados, estados'),
         \E k \in OfJob(estados, j) : estados[k].block \notin Block
  PROVE  Spent(j)'
  BY DEF Grows, OfJob, Spent

\* After an answer is read there is no failure of a transformation left.
LEMMA ReportingServed ==
  ASSUME IInv, NEW j \in Job, Reporting(j), NEW B, NEW ok, Reads(j, B, ok)
  PROVE  Reporting(j)'
<1>1. toYama[j] \in Seq(Answer) /\ toYama[j] # <<>>
  BY DEF IInv, TypeOK, Reads
<1>2. toYama'[j] = Tail(toYama[j])
  BY DEF IInv, TypeOK, Reads
<1>3. /\ Len(Tail(toYama[j])) = Len(toYama[j]) - 1 /\ Len(toYama[j]) \in Nat \ {0}
      /\ \A k \in 1 .. Len(toYama[j]) - 1 : Tail(toYama[j])[k] = toYama[j][k + 1]
      /\ Tail(toYama[j]) \in Seq(Answer)
  BY <1>1, HeadTailProperties
<1>4. ASSUME NEW i \in DOMAIN toYama'[j] PROVE ~Failure(toYama'[j][i])
  <2>1. /\ i \in 1 .. Len(toYama[j]) - 1 /\ i + 1 \in 1 .. Len(toYama[j]) /\ i + 1 # 1
    BY <1>2, <1>3
  <2>2. toYama'[j][i] = toYama[j][i + 1] /\ i + 1 \in DOMAIN toYama[j]
    BY <1>1, <1>2, <1>3, <2>1
  <2>. QED BY <2>1, <2>2 DEF Reporting
<1>. QED BY <1>4 DEF Reporting
\* The load of j at each node changes as the node's does.
Balanced(j) == \A n \in Node : actual'[n] = actual[n] + Load(n, j)' - Load(n, j)

\* What is released from the sum is what the entries carried.
LEMMA ReleasesBalance ==
  ASSUME TypeOK, NEW j \in Job, NEW S, Releases(j, S) PROVE Balanced(j)
<1>1. \A n \in Node :
        /\ porJob'[n][j] = IF n \in S THEN None ELSE porJob[n][j]
        /\ actual'[n] = IF n \in S /\ porJob[n][j] # None
                        THEN actual[n] - porJob[n][j] ELSE actual[n]
  BY ReleasesIs
<1>2. \A n \in Node : actual[n] \in Int /\ (porJob[n][j] = None \/ porJob[n][j] \in Nat)
  BY DEF TypeOK
<1>. QED BY <1>1, <1>2 DEF Balanced, Load

\* What is added to the sum is added to the entries.
LEMMA ChargesBalance ==
  ASSUME TypeOK, NEW j \in Job, NEW w \in [Node -> Nat], Charges(j, w) PROVE Balanced(j)
<1>1. \A n \in Node :
        /\ actual'[n] = actual[n] + w[n]
        /\ porJob'[n][j] = IF w[n] = 0 THEN porJob[n][j]
             ELSE IF porJob[n][j] = None THEN w[n] ELSE porJob[n][j] + w[n]
  BY ChargesIs
<1>2. \A n \in Node : /\ actual[n] \in Int /\ w[n] \in Nat
                      /\ porJob[n][j] = None \/ porJob[n][j] \in Nat
  BY DEF TypeOK
<1>3. None \notin Int
  BY JobAssumption
<1>4. ASSUME NEW n \in Node PROVE actual'[n] = actual[n] + Load(n, j)' - Load(n, j)
  <2>1. CASE porJob[n][j] = None
    BY <1>1, <1>2, <1>3, <2>1 DEF Load
  <2>2. CASE porJob[n][j] \in Nat
    <3>1. porJob'[n][j] = porJob[n][j] + w[n]
      BY <1>1, <1>2, <1>3, <2>2
    <3>. QED BY <1>1, <1>2, <1>3, <2>2, <3>1 DEF Load
  <2>. QED BY <1>2, <2>1, <2>2
<1>. QED BY <1>4 DEF Balanced

\* Loads that stay are balanced.
LEMMA SameBalance ==
  ASSUME TypeOK, NEW j \in Job, UNCHANGED <<actual, porJob>> PROVE Balanced(j)
<1>1. \A n \in Node : actual[n] \in Int /\ Load(n, j) \in Nat
  BY LoadType DEF TypeOK
<1>2. \A n \in Node : Load(n, j)' = Load(n, j)
  BY DEF Load
<1>. QED BY <1>1, <1>2 DEF Balanced

\* The answer is to a reduction, or to the storing.
LEMMA ReducingAccounted ==
  ASSUME IInv, IInv', Accounted, NEW j \in Job, Others(j), Balanced(j),
         NEW B, NEW ok, Reads(j, B, ok), B \cap Block = {}
  PROVE  Accounted'
<1>1. Reporting(j)'
  BY ReportingServed DEF Accounted
<1>2. \E k \in OfNode(estados, j, Answered(j).nodo) : estados[k].block \in B
  BY ReadsIs
<1>3. \E k \in OfJob(estados, j) : estados[k].block \notin Block
  BY <1>2 DEF OfNode
<1>4. Settled(j)'
  BY <1>3, ReducesIsSpent DEF Others, Settled
<1>. QED BY <1>1, <1>4, OneAccounted DEF Balanced

\* The stages are no blocks.
LEMMA Apart == {Local} \cap Block = {} /\ {Global} \cap Block = {} /\ {Final} \cap Block = {}
  BY BlockIsFinite

\* What the chief takes is added to its entry and to the sum.
LEMMA LocalOkAccounted ==
  ASSUME IInv, Accounted, NEW j \in Job, LocalOk(j) PROVE Accounted'
<1>1. TypeOK
  BY DEF IInv
<1>2. IInv' /\ Others(j)
  BY LocalOkSound
<1>3. Reads(j, {Local}, TRUE)
  BY DEF LocalOk
<1>4. PICK v : v = Update(estados, j, Answered(j), "ok")
  OBVIOUS
<1>5. PICK w : w = [n \in Node |-> Weight(v, j, n)]
  OBVIOUS
<1>6. Charges(j, w) \/ UNCHANGED <<actual, porJob>>
  BY <1>4, <1>5 DEF LocalOk, Weight
<1>7. Cardinality(Reducers(v, j)) \in Nat \ {0}
  <2>1. \E k \in OfNode(estados, j, Answered(j).nodo) : estados[k].block = Answered(j).block
    BY <1>3, ReadsIs
  <2>2. Answered(j).block \in {Local}
    BY <1>3, ReadsIs
  <2>3. v \in Seq(State) /\ Grows(j, estados, v)
    BY <1>1, <1>4, UpdateGrows DEF TypeOK
  <2>4. Reducers(v, j) # {}
    BY <2>1, <2>2, <2>3, GrowsOwn DEF Reducers, OfNode
  <2>. QED BY <1>1, <2>3, <2>4, ChiefIs
<1>8. w \in [Node -> Nat]
  <2>1. \A r \in Nat \ {0} : 1 + (r - 1) \div 2 \in Nat
    OBVIOUS
  <2>2. \A n \in Node : Weight(v, j, n) \in Nat
    BY <1>7, <2>1 DEF Weight
  <2>. QED BY <1>5, <2>2
<1>9. Balanced(j)
  BY <1>1, <1>6, <1>8, ChargesBalance, SameBalance
<1>. QED BY <1>2, <1>3, <1>9, Apart, ReducingAccounted

\* An abort gives back what the entries carried.
LEMMA LocalFailedAccounted ==
  ASSUME IInv, Accounted, NEW j \in Job, LocalFailed(j) PROVE Accounted'
<1>1. TypeOK
  BY DEF IInv
<1>2. IInv' /\ Others(j)
  BY LocalFailedSound
<1>3. Reads(j, {Local}, FALSE) /\ \E S : Releases(j, S)
  BY DEF LocalFailed, Abort, RemoveStates
<1>4. Balanced(j)
  BY <1>1, <1>3, ReleasesBalance
<1>. QED BY <1>2, <1>3, <1>4, Apart, ReducingAccounted

\* The last stage begins with the load of the global reduction.
LEMMA GlobalOkAccounted ==
  ASSUME IInv, Accounted, NEW j \in Job, GlobalOk(j) PROVE Accounted'
<1>1. TypeOK
  BY DEF IInv
<1>2. IInv' /\ Others(j)
  BY GlobalOkSound
<1>3. Reads(j, {Global}, TRUE) /\ UNCHANGED <<actual, porJob>>
  BY DEF GlobalOk, loadVars
<1>4. Balanced(j)
  BY <1>1, <1>3, SameBalance
<1>. QED BY <1>2, <1>3, <1>4, Apart, ReducingAccounted

\* The end of a job gives back what the entries of its nodes carried.
LEMMA FinalizeAccounted ==
  ASSUME IInv, Accounted, NEW j \in Job,
         GlobalFailed(j) \/ Stored(j, TRUE) \/ Stored(j, FALSE)
  PROVE  Accounted'
<1>1. TypeOK
  BY DEF IInv
<1>2. IInv' /\ Others(j)
  <2>1. TRUE \in BOOLEAN /\ FALSE \in BOOLEAN
    OBVIOUS
  <2>. QED BY <2>1, GlobalFailedSound, StoredSound
<1>3. PICK B \in {{Global}, {Final}} : \E ok : Reads(j, B, ok)
  BY DEF GlobalFailed, Stored
<1>4. PICK e : Finalize(j, e)
  BY DEF GlobalFailed, Stored
<1>5. UNCHANGED <<actual, porJob>> \/ \E S : Releases(j, S)
  BY <1>4 DEF Finalize
<1>6. Balanced(j)
  BY <1>1, <1>5, ReleasesBalance, SameBalance
<1>7. B \cap Block = {}
  BY <1>3, Apart
<1>. QED BY <1>2, <1>3, <1>6, <1>7, ReducingAccounted
\* Steps of the Masters.
LEMMA MasterAccounted ==
  ASSUME IInv, IInv', Accounted, NEW j \in Job, Others(j), Reporting(j)',
         UNCHANGED <<estados, actual, porJob>>, phase[j] # "closed",
         Outstanding(j)' \subseteq Outstanding(j)
  PROVE  Accounted'
<1>1. Spent(j) => Spent(j)'
  BY DEF Spent, Dropped
<1>2. Pristine(j) /\ Matched(j) => Pristine(j)' /\ Matched(j)'
  BY DEF Pristine, Matched, Load
<1>3. Settled(j)'
  BY <1>1, <1>2 DEF Accounted, Settled
<1>4. Balanced(j)
  BY SameBalance DEF IInv
<1>. QED BY <1>3, <1>4, OneAccounted DEF Balanced

\* An answer that is no failure of a transformation.
LEMMA AnswerReported ==
  ASSUME NEW j \in Job, Reporting(j), UNCHANGED estados, toYama[j] \in Seq(Answer),
         NEW a \in Answer, ~Failure(a), a.task \in tasks[j],
         toYama'[j] = Append(toYama[j], a), tasks'[j] \subseteq tasks[j]
  PROVE  Reporting(j)'
<1>1. PICK q : q = toYama[j]
  OBVIOUS
<1>2. PICK r : r = toYama'[j]
  OBVIOUS
<1>3. /\ Len(r) = Len(q) + 1 /\ Len(q) \in Nat /\ r[Len(q) + 1] = a
      /\ \A k \in 1 .. Len(q) : r[k] = q[k]
      /\ r \in Seq(Answer)
  BY <1>1, <1>2, AppendProperties
<1>4. \A k \in DOMAIN r : (k \in DOMAIN q /\ r[k] = q[k]) \/ r[k] = a
  BY <1>1, <1>3
<1>5. Pristine(j)' <=> Pristine(j)
  BY DEF Pristine
<1>6. ASSUME NEW i \in DOMAIN r, Failure(r[i])
      PROVE  /\ i = 1 /\ Pristine(j)'
             /\ \A t \in tasks'[j] : t.nodo # r[i].task.nodo
             /\ \A k \in DOMAIN r : k # i => r[k].task.nodo # r[i].task.nodo
  <2>1. i \in DOMAIN q /\ r[i] = q[i]
    BY <1>4, <1>6
  <2>2. /\ i = 1 /\ Pristine(j) /\ \A t \in tasks[j] : t.nodo # q[i].task.nodo
        /\ \A k \in DOMAIN q : k # i => q[k].task.nodo # q[i].task.nodo
    BY <1>1, <1>6, <2>1 DEF Reporting
  <2>3. a.task.nodo # q[i].task.nodo
    BY <2>2
  <2>. QED BY <1>4, <1>5, <2>1, <2>2, <2>3
<1>. QED BY <1>2, <1>6 DEF Reporting

\* A Master's answer leaves the loads alone.
LEMMA DoneAccounted ==
  ASSUME IInv, Accounted, NEW j \in Job, NEW t \in tasks[j], Done(j, t) PROVE Accounted'
<1>1. TypeOK
  BY DEF IInv
<1>2. IInv' /\ Others(j)
  BY DoneSound
<1>3. t \in Task /\ toYama[j] \in Seq(Answer)
  BY <1>1 DEF TypeOK
<1>4. PICK a : a = [task |-> t, ok |-> TRUE]
  OBVIOUS
<1>5. a \in Answer /\ a.task = t /\ ~Failure(a)
  BY <1>3, <1>4 DEF Answer, Failure
<1>6. toYama'[j] = Append(toYama[j], a)
  BY <1>1, <1>4 DEF TypeOK, Done, Answers
<1>7. tasks'[j] = tasks[j] \ {t} /\ UNCHANGED <<estados, actual, porJob>> /\ phase[j] = "running"
  BY <1>1 DEF TypeOK, Done, loadVars
<1>8. Reporting(j)'
  BY <1>3, <1>5, <1>6, <1>7, AnswerReported DEF Accounted
<1>9. Outstanding(j)' \subseteq Outstanding(j)
  BY <1>3, <1>5, <1>6, <1>7, ReportsAppend DEF Outstanding, Reported
<1>. QED BY <1>2, <1>7, <1>8, <1>9, MasterAccounted

\* A failure of a transformation comes before the reductions, and is the only one.
LEMMA FailAccounted ==
  ASSUME ~AnyFails, IInv, Accounted, NEW j \in Job, NEW t \in tasks[j], Fail(j, t)
  PROVE  Accounted'
<1>1. TypeOK
  BY DEF IInv
<1>2. IInv' /\ Others(j)
  BY FailSound
<1>3. t \in Task /\ toYama[j] \in Seq(Answer)
  BY <1>1 DEF TypeOK
<1>4. PICK a : a = [task |-> t, ok |-> FALSE]
  OBVIOUS
<1>5. a \in Answer /\ a.task = t /\ (Failure(a) <=> t.block \in Block)
  BY <1>3, <1>4 DEF Answer, Failure
<1>6. toYama'[j] = Append(toYama[j], a)
  BY <1>1, <1>4 DEF TypeOK, Fail, Answers
<1>7. /\ tasks'[j] = IF t.block >= Local THEN {u \in tasks[j] : u.nodo # t.nodo}
                     ELSE tasks[j] \ {t}
      /\ UNCHANGED <<estados, actual, porJob>> /\ phase[j] = "running"
  BY <1>1 DEF TypeOK, Fail, loadVars
<1>8. Reporting(j)'
  <2>1. CASE t.block \notin Block
    BY <1>3, <1>5, <1>6, <1>7, <2>1, AnswerReported DEF Accounted
  <2>2. CASE t.block \in Block
    <3>1. toYama[j] = <<>> /\ Pristine(j)
      BY <2>2 DEF Fail, Pristine
    <3>2. PICK r : r = toYama'[j]
      OBVIOUS
    <3>7. r \in Seq(Answer) /\ Len(r) = Len(toYama[j]) + 1 /\ r[Len(toYama[j]) + 1] = a
      BY <1>3, <1>5, <1>6, <3>2, AppendProperties
    <3>8. Len(toYama[j]) = 0
      BY <3>1
    <3>3. t.block >= Local
      <4>1. \A b \in Nat : b >= -1
        OBVIOUS
      <4>2. t.block \in Nat
        BY <2>2, BlockIsFinite
      <4>. QED BY <4>1, <4>2 DEF Local
    <3>4. \A u \in tasks'[j] : u.nodo # t.nodo
      BY <1>7, <3>3
    <3>5. Pristine(j)'
      BY <1>7, <3>1 DEF Pristine
    <3>6. DOMAIN toYama'[j] = {1} /\ toYama'[j][1] = a
      BY <3>2, <3>7, <3>8
    <3>. QED BY <1>5, <3>4, <3>5, <3>6 DEF Reporting
  <2>. QED BY <2>1, <2>2
<1>9. Outstanding(j)' \subseteq Outstanding(j)
  BY <1>3, <1>5, <1>6, <1>7, ReportsAppend DEF Outstanding, Reported
<1>. QED BY <1>2, <1>7, <1>8, <1>9, MasterAccounted

\* The queue of answers is as it was, and no task is added.
LEMMA SameReporting ==
  ASSUME NEW j \in Job, Reporting(j), UNCHANGED <<estados, toYama>>, tasks'[j] \subseteq tasks[j]
  PROVE  Reporting(j)'
<1>1. Pristine(j)' <=> Pristine(j)
  BY DEF Pristine
<1>. QED BY <1>1 DEF Reporting

\* Its end leaves the loads alone.
LEMMA EndAccounted ==
  ASSUME IInv, Accounted, NEW j \in Job, End(j) \/ Kill(j) \/ RefuseJob(j) PROVE Accounted'
<1>1. TypeOK
  BY DEF IInv
<1>2. IInv' /\ Others(j)
  BY EndSound, RefuseSound
<1>3. /\ tasks'[j] \subseteq tasks[j] /\ phase[j] # "closed"
      /\ UNCHANGED <<estados, actual, porJob, toYama>>
  BY <1>1 DEF TypeOK, End, Kill, RefuseJob, loadVars
<1>4. Reporting(j)'
  BY <1>3, SameReporting DEF Accounted
<1>5. Outstanding(j)' \subseteq Outstanding(j)
  BY <1>3 DEF Outstanding, Reported, Reports
<1>. QED BY <1>2, <1>3, <1>4, <1>5, MasterAccounted

\* The removal of a job's entries gives back what they carried.
LEMMA DisconnectedAccounted ==
  ASSUME IInv, Accounted, NEW j \in Job, Disconnected(j) PROVE Accounted'
<1>1. TypeOK
  BY DEF IInv
<1>2. IInv' /\ Others(j)
  BY DisconnectedSound
<1>3. /\ phase'[j] = "closed" /\ toYama'[j] = <<>>
      /\ UNCHANGED <<actual, porJob>> \/ \E S : Releases(j, S)
  BY <1>1 DEF TypeOK, Disconnected, RemoveStates
<1>4. Balanced(j)
  BY <1>1, <1>3, ReleasesBalance, SameBalance
<1>5. Reporting(j)' /\ Settled(j)'
  BY <1>3 DEF Reporting, Settled
<1>. QED BY <1>2, <1>4, <1>5, OneAccounted DEF Balanced

\* A plan's tasks are as many at each node as the blocks it gives to it.
LEMMA InitJobAccounted ==
  ASSUME IInv, Accounted, NEW j \in Job, InitJob(j) PROVE Accounted'
<1>1. TypeOK /\ Sound(j)
  BY DEF IInv
<1>2. IInv' /\ Others(j)
  BY InitSound
<1>3. PICK p \in [Block -> Node] :
           /\ p \in Plans(alive, Copies)
           /\ actual' = [n \in Node |-> actual[n] + Cardinality(Share(p, n))]
           /\ porJob' = [n \in Node |-> IF n \in alive
                THEN [porJob[n] EXCEPT ![j] = Cardinality(Share(p, n))] ELSE porJob[n]]
           /\ estados' = estados \o Entries(j, Sent(p))
           /\ tasks' = [tasks EXCEPT ![j] = Range(Sent(p))]
  BY <1>1, InitJobIs
<1>4. phase[j] = "new" /\ UNCHANGED toYama
  BY DEF InitJob
<1>5. OfJob(estados, j) = {} /\ Outstanding(j) = {} /\ Free(j)
  BY <1>1, <1>4 DEF Sound, Begun
<1>6. PICK q : q = Sent(p)
  OBVIOUS
<1>7. /\ q \in Seq(Task)
      /\ \A i \in DOMAIN q : q[i].block \in Block /\ q[i].nodo = p[q[i].block]
      /\ \A b \in Block : \E i \in DOMAIN q : q[i].block = b /\ q[i].nodo = p[b]
      /\ \A i, k \in DOMAIN q : q[i].block = q[k].block => i = k
  BY <1>6, TasksAre
<1>8. PICK s : s = estados
  OBVIOUS
<1>9. PICK u : u = estados'
  OBVIOUS
<1>10. s \in Seq(State) /\ u = s \o Entries(j, q)
  BY <1>1, <1>3, <1>6, <1>8, <1>9 DEF TypeOK
<1>11. u \in Seq(State) /\ Grows(j, s, u) /\ Added(j, s, q, u)
  BY <1>7, <1>10, ConcatGrows
<1>12. Len(s) \in Nat /\ DOMAIN s = 1 .. Len(s) /\ DOMAIN q \subseteq Nat \ {0}
       /\ DOMAIN u \subseteq Nat
  BY <1>7, <1>10, <1>11
<1>13. \A k \in OfJob(u, j) : k - Len(s) \in DOMAIN q /\ k = Len(s) + (k - Len(s))
  <2>1. \A k \in OfJob(u, j) : k \in DOMAIN u /\ u[k].job = j
    BY DEF OfJob
  <2>2. \A k \in DOMAIN s : s[k].job # j
    BY <1>5, <1>8 DEF OfJob
  <2>3. \A k \in OfJob(u, j) : k \in DOMAIN u \ DOMAIN s
    BY <1>11, <2>1, <2>2 DEF Grows
  <2>. QED BY <1>11, <1>12, <2>1, <2>3 DEF Added
<1>14. \A i \in DOMAIN q : Len(s) + i \in DOMAIN u
         /\ u[Len(s) + i] = Entry(j, q[i].nodo, q[i].block, {q[i].block})
  BY <1>11 DEF Added
<1>15. \A k \in OfJob(u, j) : /\ u[k].block \in Block /\ u[k].estado = "proceso"
                              /\ u[k].nodo = p[u[k].block]
  <2>. TAKE k \in OfJob(u, j)
  <2>1. PICK i \in DOMAIN q : k = Len(s) + i
    BY <1>13
  <2>2. u[k] = Entry(j, q[i].nodo, q[i].block, {q[i].block})
    BY <1>14, <2>1
  <2>. QED BY <1>7, <2>2 DEF Entry
<1>16. Pristine(j)'
  BY <1>9, <1>15 DEF Pristine
<1>17. ASSUME NEW n \in Node PROVE Cardinality(OfNode(u, j, n)) = Cardinality(Share(p, n))
  <2>1. PICK f : f = [k \in OfNode(u, j, n) |-> u[k].block]
    OBVIOUS
  <2>2. \A k \in OfNode(u, j, n) : k \in OfJob(u, j) /\ u[k].nodo = n
    BY DEF OfNode
  <2>3. f \in [OfNode(u, j, n) -> Share(p, n)]
    BY <1>15, <2>1, <2>2 DEF Share
  <2>4. ASSUME NEW k \in OfNode(u, j, n), NEW h \in OfNode(u, j, n), f[k] = f[h] PROVE k = h
    <3>1. PICK i \in DOMAIN q : k = Len(s) + i
      BY <1>13, <2>2
    <3>2. PICK g \in DOMAIN q : h = Len(s) + g
      BY <1>13, <2>2
    <3>3. u[k].block = q[i].block /\ u[h].block = q[g].block
      <4>1. u[k] = Entry(j, q[i].nodo, q[i].block, {q[i].block})
        BY <1>14, <3>1
      <4>2. u[h] = Entry(j, q[g].nodo, q[g].block, {q[g].block})
        BY <1>14, <3>2
      <4>. QED BY <4>1, <4>2 DEF Entry
    <3>4. i = g
      BY <1>7, <2>1, <2>4, <3>3
    <3>. QED BY <3>1, <3>2, <3>4
  <2>5. ASSUME NEW b \in Share(p, n) PROVE \E k \in OfNode(u, j, n) : f[k] = b
    <3>1. PICK i \in DOMAIN q : q[i].block = b /\ q[i].nodo = n
      BY <1>7 DEF Share
    <3>2. PICK k \in DOMAIN u : u[k] = Entry(j, q[i].nodo, q[i].block, {q[i].block})
      BY <1>14
    <3>3. k \in OfNode(u, j, n) /\ u[k].block = b
      BY <3>1, <3>2 DEF OfNode, OfJob, Entry
    <3>. QED BY <2>1, <3>3
  <2>6. f \in Bijection(OfNode(u, j, n), Share(p, n))
    BY <2>3, <2>4, <2>5 DEF Bijection, Injection, Surjection, IsInjective
  <2>7. IsFiniteSet(Share(p, n))
    BY ShareIs
  <2>8. f \in Injection(OfNode(u, j, n), Share(p, n))
        /\ f \in Surjection(OfNode(u, j, n), Share(p, n))
    BY <2>6 DEF Bijection
  <2>. QED BY <2>7, <2>8, FS_Injection
<1>18. \A n \in Node : Load(n, j) = 0
  BY <1>5 DEF Free, Load
<1>19. \A n \in Node : Load(n, j)' = Cardinality(Share(p, n))
  <2>. TAKE n \in Node
  <2>1. CASE n \in alive
    <3>1. porJob'[n][j] = Cardinality(Share(p, n))
      BY <1>1, <1>3, <2>1 DEF TypeOK
    <3>2. Cardinality(Share(p, n)) # None
      BY ShareIs, JobAssumption
    <3>. QED BY <3>1, <3>2 DEF Load
  <2>2. CASE n \notin alive
    <3>1. Share(p, n) = {}
      BY <1>3, <2>2 DEF Share, Plans
    <3>2. porJob'[n][j] = porJob[n][j]
      BY <1>1, <1>3, <2>2 DEF TypeOK
    <3>3. Load(n, j)' = Load(n, j)
      BY <3>2 DEF Load
    <3>. QED BY <1>18, <3>1, <3>3, FS_EmptySet
  <2>. QED BY <2>1, <2>2
<1>20. Matched(j)'
  BY <1>9, <1>17, <1>19 DEF Matched
<1>21. Balanced(j)
  <2>1. \A n \in Node : actual[n] \in Int /\ Cardinality(Share(p, n)) \in Nat
    BY <1>1, ShareIs DEF TypeOK
  <2>2. \A n \in Node : actual'[n] = actual[n] + Cardinality(Share(p, n))
    BY <1>3
  <2>. QED BY <1>18, <1>19, <2>1, <2>2 DEF Balanced
<1>22. Reporting(j)'
  <2>1. \A i \in DOMAIN toYama[j] : toYama[j][i].task \in Outstanding(j)
    BY DEF Outstanding, Reported, Reports
  <2>2. DOMAIN toYama'[j] = {}
    BY <1>4, <1>5, <2>1
  <2>. QED BY <2>2 DEF Reporting
<1>. QED BY <1>2, <1>16, <1>20, <1>21, <1>22, OneAccounted DEF Balanced, Settled
\* A transformation that is done leaves the loads alone.
LEMMA TransformOkAccounted ==
  ASSUME IInv, Accounted, NEW j \in Job, TransformOk(j) PROVE Accounted'
<1>1. TypeOK
  BY DEF IInv
<1>2. IInv' /\ Others(j)
  BY TransformOkSound
<1>3. PICK t : t = Answered(j)
  OBVIOUS
<1>4. PICK s : s = estados
  OBVIOUS
<1>5. PICK v : v = Update(s, j, t, "ok")
  OBVIOUS
<1>6. PICK e : e = Entry(j, t.nodo, Local, Temporals(v, j, t.nodo))
  OBVIOUS
<1>7. /\ Reads(j, Block, TRUE) /\ UNCHANGED <<actual, porJob>>
      /\ \/ estados' = Append(v, e) /\ Sends(j, {[nodo |-> t.nodo, block |-> Local]})
         \/ estados' = v /\ UNCHANGED tasks
  BY <1>3, <1>4, <1>5, <1>6 DEF TransformOk, loadVars
<1>8. /\ t \in Task /\ t \in Outstanding(j) /\ phase[j] # "closed"
      /\ Reported(j)' \subseteq Reported(j)
  BY <1>3, <1>7, ReadsIs
<1>9. s \in Seq(State)
  BY <1>1, <1>4 DEF TypeOK
<1>10. v \in Seq(State) /\ Grows(j, s, v)
  BY <1>5, <1>9, UpdateGrows
<1>11. t.nodo \in Node /\ Local \in Stages
  BY <1>8 DEF Task, Stages
<1>12. e \in State /\ e.job = j /\ e.estado = "proceso" /\ e.block = Local /\ e.nodo = t.nodo
  BY <1>6, <1>10, <1>11, EntryType, TemporalsType
<1>13. Reporting(j)' /\ Balanced(j)
  BY <1>1, <1>7, ReportingServed, SameBalance DEF Accounted
<1>14. CASE estados' = Append(v, e) /\ Sends(j, {[nodo |-> t.nodo, block |-> Local]})
  <2>1. estados' = Append(Update(s, j, t, "ok"), e)
    BY <1>5, <1>14
  <2>2. Advanced(s, estados', j, t, e)
    BY <1>9, <1>12, <2>1, NextStage
  <2>3. \E k \in OfJob(estados', j) : estados'[k].block = Local
    BY <1>12, <2>2 DEF Advanced, OfNode
  <2>4. Spent(j)'
    BY <2>3, BlockIsFinite DEF Spent
  <2>. QED BY <1>2, <1>13, <2>4, OneAccounted DEF Balanced, Settled
<1>15. CASE estados' = v /\ UNCHANGED tasks
  <2>1. /\ Len(v) = Len(s)
        /\ \A i \in DOMAIN s : v[i] = s[i] \/ (/\ v[i].estado = "ok" /\ s[i].nodo = t.nodo
                                               /\ s[i].block = t.block)
    BY <1>5, <1>9, UpdateKeeps
  <2>2. DOMAIN v = DOMAIN s
    BY <1>9, <1>10, <2>1
  <2>3. Outstanding(j)' \subseteq Outstanding(j)
    BY <1>8, <1>15 DEF Outstanding
  <2>4. CASE Spent(j)
    <3>1. \A k \in OfJob(estados, j) : Dropped(j, k) => estados'[k].estado = "error"
      BY <1>4, <1>8, <1>15, <2>1 DEF OfJob, Dropped
    <3>2. Spent(j)'
      BY <1>4, <1>10, <1>15, <2>3, <2>4, <3>1, SpentStays
    <3>. QED BY <1>2, <1>13, <3>2, OneAccounted DEF Balanced, Settled
  <2>5. CASE Pristine(j) /\ Matched(j)
    <3>1. OfJob(v, j) = OfJob(s, j) /\ \A n : OfNode(v, j, n) = OfNode(s, j, n)
      BY <1>10, <2>2 DEF Grows, OfJob, OfNode
    <3>2. Pristine(j)'
      <4>1. \A k \in OfJob(s, j) : s[k].block \in Block /\ s[k].estado # "error"
        BY <1>4, <2>5 DEF Pristine
      <4>2. \A k \in OfJob(s, j) : v[k].block = s[k].block /\ v[k].estado # "error"
        BY <1>10, <2>1, <4>1 DEF Grows, OfJob
      <4>. QED BY <1>15, <3>1, <4>1, <4>2 DEF Pristine
    <3>3. Matched(j)'
      BY <1>4, <1>7, <1>15, <2>5, <3>1 DEF Matched, Load
    <3>. QED BY <1>2, <1>13, <3>2, <3>3, OneAccounted DEF Balanced, Settled
  <2>. QED BY <1>8, <2>4, <2>5 DEF Accounted, Settled
<1>. QED BY <1>7, <1>14, <1>15

\* While YAMA replans, nothing more is to come from the node that failed.
LEMMA NothingMore ==
  ASSUME IInv, NEW j \in Job, Reporting(j), Reads(j, Block, FALSE)
  PROVE  /\ Pristine(j)
         /\ \A t \in tasks[j] \cup Reported(j)' : t.nodo # Answered(j).nodo
<1>1. PICK q : q = toYama[j]
  OBVIOUS
<1>2. q \in Seq(Answer) /\ q # <<>> /\ toYama'[j] = Tail(q)
  BY <1>1 DEF IInv, TypeOK, Reads
<1>3. /\ Len(Tail(q)) = Len(q) - 1 /\ Len(q) \in Nat \ {0} /\ Head(q) = q[1]
      /\ \A k \in 1 .. Len(q) - 1 : Tail(q)[k] = q[k + 1]
      /\ Tail(q) \in Seq(Answer)
  BY <1>2, HeadTailProperties
<1>4. 1 \in DOMAIN q /\ Failure(q[1]) /\ q[1].task = Answered(j)
  <2>1. 1 \in 1 .. Len(q)
    BY <1>3
  <2>2. Head(q).ok = FALSE /\ Head(q).task.block \in Block /\ Head(q).task = Answered(j)
    BY <1>1 DEF Reads, Answered
  <2>. QED BY <1>2, <1>3, <2>1, <2>2 DEF Failure
<1>5. /\ Pristine(j) /\ \A t \in tasks[j] : t.nodo # Answered(j).nodo
      /\ \A k \in DOMAIN q : k # 1 => q[k].task.nodo # Answered(j).nodo
  BY <1>1, <1>4 DEF Reporting
<1>6. ASSUME NEW t \in Reported(j)' PROVE t.nodo # Answered(j).nodo
  <2>1. PICK i \in DOMAIN Tail(q) : t = Tail(q)[i].task
    BY <1>2 DEF Reported, Reports
  <2>2. i \in 1 .. Len(q) - 1 /\ i + 1 \in 1 .. Len(q) /\ i + 1 # 1
    BY <1>3
  <2>3. i + 1 \in DOMAIN q /\ t = q[i + 1].task
    BY <1>2, <1>3, <2>1, <2>2
  <2>. QED BY <1>5, <2>2, <2>3
<1>. QED BY <1>5, <1>6

\* An entry of that node in error is left for good.
LEMMA LeftForGood ==
  ASSUME NEW j \in Job, NEW k \in OfJob(estados', j), estados'[k].estado = "error",
         \A t \in Outstanding(j)' : t.nodo # estados'[k].nodo
  PROVE  Spent(j)'
<1>1. Dropped(j, k)'
  BY DEF Dropped
<1>. QED BY <1>1 DEF Spent

\* The node that failed carried one for each of its transformations, and these move.
LEMMA TransformFailedAccounted ==
  ASSUME IInv, Accounted, NEW j \in Job, TransformFailed(j) PROVE Accounted'
<1>1. TypeOK
  BY DEF IInv
<1>2. IInv' /\ Others(j)
  BY TransformFailedSound
<1>3. PICK n : n = Answered(j).nodo
  OBVIOUS
<1>4. PICK lost : lost = Lost(j, n)
  OBVIOUS
<1>5. PICK to : to = Target(lost, n)
  OBVIOUS
<1>6. PICK q : q = Again(lost, to)
  OBVIOUS
<1>7. /\ Reads(j, Block, FALSE)
      /\ \/ Abort(j, estados) /\ UNCHANGED tasks
         \/ /\ \A k \in lost : Mirror(estados[k].block, n) # {}
            /\ estados' = InError(j, n) \o Entries(j, q)
            /\ MoveLoad(j, n, lost, to)
            /\ Sends(j, Range(q))
  BY <1>3, <1>4, <1>5, <1>6, TransformFailedIs
<1>8. /\ Answered(j).block \in Block /\ phase[j] # "closed" /\ Answered(j) \in Task
      /\ \E k \in OfNode(estados, j, n) : estados[k].block = Answered(j).block
  BY <1>3, <1>7, ReadsIs
<1>9. Reporting(j) /\ Settled(j) /\ Reporting(j)'
  BY <1>7, ReportingServed DEF Accounted
<1>10. Pristine(j) /\ \A t \in tasks[j] \cup Reported(j)' : t.nodo # n
  BY <1>3, <1>7, <1>9, NothingMore
<1>11. Matched(j)
  <2>1. ~Spent(j)
    BY <1>10 DEF Pristine, Spent, Dropped
  <2>. QED BY <1>8, <1>9, <2>1 DEF Settled
<1>12. n \in Node
  BY <1>3, <1>8 DEF Task
<1>13. CASE Abort(j, estados) /\ UNCHANGED tasks
  <2>1. /\ \E S : Releases(j, S)
        /\ estados' = [k \in DOMAIN estados |-> IF estados[k].job = j
                         THEN [estados[k] EXCEPT !.estado = "error"] ELSE estados[k]]
    BY <1>13 DEF Abort, RemoveStates
  <2>2. /\ Grows(j, estados, estados')
        /\ \A k \in OfJob(estados', j) : estados'[k].estado = "error"
    <3>1. PICK s : s = estados
      OBVIOUS
    <3>2. PICK u : u = estados'
      OBVIOUS
    <3>3. s \in Seq(State)
      BY <1>1, <3>1 DEF TypeOK
    <3>4. u = [k \in DOMAIN s |-> IF s[k].job = j
                THEN [s[k] EXCEPT !.estado = "error"] ELSE s[k]]
      BY <2>1, <3>1, <3>2
    <3>5. Grows(j, s, u) /\ \A k \in OfJob(u, j) : u[k].estado = "error"
      BY <3>3, <3>4, ErrorsGrow
    <3>. QED BY <3>1, <3>2, <3>5
  <2>3. PICK k \in OfNode(estados, j, n) : TRUE
    BY <1>8
  <2>4. k \in OfJob(estados', j) /\ estados'[k].nodo = n
    BY <2>2, GrowsOwn DEF OfNode
  <2>5. \A t \in Outstanding(j)' : t.nodo # n
    BY <1>10, <1>13 DEF Outstanding
  <2>6. Spent(j)'
    BY <2>2, <2>4, <2>5, LeftForGood
  <2>7. Balanced(j)
    BY <1>1, <2>1, ReleasesBalance
  <2>. QED BY <1>2, <1>9, <2>6, <2>7, OneAccounted DEF Balanced, Settled
<1>14. CASE /\ \A k \in lost : Mirror(estados[k].block, n) # {}
            /\ estados' = InError(j, n) \o Entries(j, q)
            /\ MoveLoad(j, n, lost, to)
            /\ Sends(j, Range(q))
  <2>1. /\ IsFiniteSet(lost) /\ lost \subseteq OfNode(estados, j, n)
        /\ lost \subseteq Int /\ \A k \in lost : estados[k].block \in Block
    BY <1>1, <1>4, LostIs
  <2>2. \A k \in lost : to[estados[k].block] \in Node \ {n}
    BY <1>1, <1>5, <1>14, TargetIs
  <2>3. /\ q \in Seq(Task)
        /\ \A i \in DOMAIN q : /\ InOrder(lost)[i] \in lost
                               /\ q[i].block = estados[InOrder(lost)[i]].block
                               /\ q[i].nodo = to[q[i].block]
    BY <1>1, <1>4, <1>6, <2>2, AgainIs
  <2>4. \A i \in DOMAIN q : q[i].block \in Block /\ q[i].nodo # n
    BY <2>1, <2>2, <2>3
  <2>5. PICK v : v = InError(j, n)
    OBVIOUS
  <2>6. v \in Seq(State) /\ Grows(j, estados, v)
    BY <1>1, <2>5, InErrorIs
  <2>7. Grows(j, v, estados') /\ Added(j, v, q, estados')
    BY <1>14, <2>3, <2>4, <2>5, <2>6, ConcatGrows
  <2>8. lost = OfNode(estados, j, n)
    BY <1>4, <1>10 DEF Lost, Pristine, OfNode
  <2>9. PICK k \in lost : \A i \in lost : k <= i
    <3>1. lost # {}
      BY <1>8, <2>8
    <3>. QED BY <2>1, <3>1, Least
  <2>10. v[k].estado = "error" /\ k \in DOMAIN v
    <3>1. k \in DOMAIN estados /\ estados[k] \in State
      BY <1>1, <2>1 DEF OfNode, OfJob, TypeOK
    <3>2. v[k] = [estados[k] EXCEPT !.estado = "error"]
      BY <1>4, <2>5, <2>9, <3>1 DEF InError
    <3>3. v[k].estado = "error"
      BY <3>1, <3>2 DEF State
    <3>. QED BY <2>6, <3>1, <3>3 DEF Grows
  <2>11. k \in OfJob(estados', j) /\ estados'[k].nodo = n /\ estados'[k].estado = "error"
    <3>1. Grows(j, estados, estados')
      BY <2>6, <2>7, GrowsTwice
    <3>2. k \in OfNode(estados', j, n)
      BY <2>1, <3>1, GrowsOwn
    <3>3. estados'[k] = v[k]
      BY <2>7, <2>10 DEF Added
    <3>. QED BY <2>10, <3>2, <3>3 DEF OfNode
  <2>12. \A t \in Outstanding(j)' : t.nodo # n
    <3>1. Range(q) \in SUBSET Task /\ \A x \in Range(q) : \E i \in DOMAIN q : x = q[i]
      BY <2>3 DEF Range
    <3>2. tasks'[j] \ tasks[j] \subseteq Range(q)
      BY <1>1, <1>14, <3>1, SendsIs
    <3>3. \A x \in Range(q) : x.nodo # n
      BY <2>4, <3>1
    <3>. QED BY <1>10, <3>2, <3>3 DEF Outstanding
  <2>13. Spent(j)'
    BY <2>11, <2>12, LeftForGood
  <2>14. Balanced(j)
    <3>1. Moving(j, n, lost, to)
      BY <1>1, <1>14, <2>1, MoveLoadIs
    <3>2. Load(n, j) = Cardinality(lost)
      BY <1>11, <1>12, <2>8 DEF Matched
    <3>3. Moved(lost, to, n) = 0
      <4>1. IsFiniteSet(lost) /\ \A i \in lost : to[estados[i].block] # n
        BY <2>1, <2>2
      <4>2. Moved(lost, to, n) # 0 => \E i \in lost : to[estados[i].block] = n
        BY <4>1, MovedIs
      <4>. QED BY <4>1, <4>2
    <3>4. ASSUME NEW m \in Node PROVE actual'[m] = actual[m] + Load(m, j)' - Load(m, j)
      <4>1. /\ porJob'[m][j] = NewLoad(j, n, lost, to, m)
            /\ actual'[m] = actual[m] + Moved(lost, to, m)
                             - (IF m = n THEN Cardinality(lost) ELSE 0)
        BY <3>1 DEF Moving
      <4>2. Moved(lost, to, m) \in Nat /\ actual[m] \in Int /\ None \notin Int
            /\ Load(m, j) \in Nat
            /\ Cardinality(lost) \in Nat /\ (porJob[m][j] = None \/ porJob[m][j] \in Nat)
        BY <1>1, <2>1, MovedIs, LoadType, JobAssumption, FS_CardinalityType DEF TypeOK
      <4>3. CASE m = n
        <5>1. Load(m, j)' = 0
          BY <4>1, <4>3 DEF NewLoad, Load
        <5>2. Load(m, j) = Cardinality(lost) /\ Moved(lost, to, m) = 0
          BY <3>2, <3>3, <4>3
        <5>. QED BY <4>1, <4>2, <4>3, <5>1, <5>2
      <4>4. CASE m # n
        <5>1. Load(m, j)' = Load(m, j) + Moved(lost, to, m)
          BY <4>1, <4>2, <4>4 DEF NewLoad, Load
        <5>2. actual'[m] = actual[m] + Moved(lost, to, m)
          BY <4>1, <4>2, <4>4
        <5>. QED BY <4>2, <5>1, <5>2
      <4>. QED BY <4>3, <4>4
    <3>. QED BY <3>4 DEF Balanced
  <2>. QED BY <1>2, <1>9, <2>13, <2>14, OneAccounted DEF Balanced, Settled
<1>. QED BY <1>7, <1>13, <1>14

\* No node carries anything at the start.
LEMMA AccountedStarts == Init => Accounted
<1>. SUFFICES ASSUME Init PROVE Accounted
  OBVIOUS
<1>1. ASSUME NEW n \in Node PROVE actual[n] = SumOf(Loads(n), Job)
  <2>1. PICK f : f = Loads(n)
    OBVIOUS
  <2>2. \A i \in Job : f[i] = 0
    BY <2>1 DEF Init, Loads, Load
  <2>3. SumOf(f, Job) = 0
    BY <2>2, JobAssumption, SumZero
  <2>. QED BY <2>1, <2>3 DEF Init
<1>2. ASSUME NEW j \in Job PROVE Reporting(j) /\ Settled(j)
  <2>1. DOMAIN estados = {} /\ DOMAIN toYama[j] = {}
    BY DEF Init
  <2>2. OfJob(estados, j) = {} /\ \A n : OfNode(estados, j, n) = {}
    BY <2>1 DEF OfJob, OfNode
  <2>3. \A n \in Node : Load(n, j) = 0
    BY DEF Init, Load
  <2>. QED BY <2>1, <2>2, <2>3, FS_EmptySet DEF Reporting, Settled, Pristine, Matched
<1>. QED BY <1>1, <1>2 DEF Accounted, AddUp

\* Every step keeps the account, with one failing node.
LEMMA AccountedSteps == ~AnyFails /\ IInv /\ Accounted /\ [Next]_vars => Accounted'
<1>. SUFFICES ASSUME ~AnyFails, IInv, Accounted, [Next]_vars PROVE Accounted'
  OBVIOUS
<1>1. CASE UNCHANGED vars
  BY <1>1, NoneAccounted DEF vars, loadVars, masterVars
<1>2. ASSUME NEW j \in Job, Accept(j) PROVE Accounted'
  <2>1. CASE InitJobFails(j)
    BY <2>1, NoneAccounted DEF InitJobFails, Stop, loadVars
  <2>. QED BY <1>2, <2>1, EndAccounted, InitJobAccounted DEF Accept
<1>3. ASSUME NEW j \in Job, Serve(j) PROVE Accounted'
  BY <1>3, TransformOkAccounted, TransformFailedAccounted, LocalOkAccounted,
     LocalFailedAccounted, GlobalOkAccounted, FinalizeAccounted, DisconnectedAccounted
     DEF Serve
<1>4. ASSUME NEW j \in Job, Work(j) PROVE Accounted'
  BY <1>4, DoneAccounted, FailAccounted DEF Work
<1>5. ASSUME NEW j \in Job, End(j) \/ Kill(j) PROVE Accounted'
  BY <1>5, EndAccounted
<1>6. CASE \/ \E n \in Node : NodeDown(n) \/ NodeUp(n)
           \/ RemoveFile \/ FileSystemLost
  BY <1>6, NoneAccounted
     DEF NodeDown, NodeUp, RemoveFile, FileSystemLost, loadVars, masterVars
<1>. QED BY <1>1, <1>2, <1>3, <1>4, <1>5, <1>6 DEF Next

\* The sum that YAMA keeps for a node and the sum of its entries are the same.
LEMMA AddUpIsLoadsAddUp == TypeOK /\ AddUp => LoadsAddUp
<1>. SUFFICES ASSUME TypeOK, AddUp, NEW n \in Node
              PROVE  actual[n] = MapThenSumSet(LAMBDA i : porJob[n][i],
                                               {i \in Job : porJob[n][i] # None})
  BY DEF LoadsAddUp
<1>1. PICK f : f = Loads(n)
  OBVIOUS
<1>2. PICK g : g = porJob[n]
  OBVIOUS
<1>3. PICK R : R = {i \in Job : g[i] # None}
  OBVIOUS
<1>4. R \subseteq Job /\ IsFiniteSet(R) /\ IsFiniteSet(Job)
  BY <1>3, JobAssumption, FS_Subset
<1>5. \A i \in Job : f[i] \in Int /\ (i \in R => f[i] = g[i]) /\ (i \notin R => f[i] = 0)
  <2>. TAKE i \in Job
  <2>1. f[i] = Load(n, i)
    BY <1>1 DEF Loads
  <2>2. Load(n, i) \in Int
    BY LoadType
  <2>. QED BY <1>2, <1>3, <2>1, <2>2 DEF Load
<1>6. SumOf(f, Job) = SumOf(f, R)
  BY <1>4, <1>5, SumSupport
<1>7. SumOf(f, R) = SumOf(g, R)
  BY <1>4, <1>5, SumSame
<1>8. actual[n] = SumOf(g, R)
  BY <1>1, <1>6, <1>7 DEF AddUp
<1>9. SumOf(g, R) = MapThenSumSet(LAMBDA i : g[i], R)
  BY DEF SumOf
<1>10. {i \in Job : porJob[n][i] # None} = R
  BY <1>2, <1>3
<1>. QED BY <1>2, <1>8, <1>9, <1>10

\* A node's load is the sum of what it carries for each job: when one node
\* fails a job's transformations, before the job reduces, every load added is
\* taken away again, by the replanning, by the ends of jobs, or by their abort.
THEOREM LoadsAddUpAlways == ASSUME ~AnyFails PROVE Spec => []LoadsAddUp
<1>1. Init => IInv /\ Accounted
  BY Starts, AccountedStarts
<1>2. IInv /\ Accounted /\ [Next]_vars => (IInv /\ Accounted)'
  BY Steps, AccountedSteps
<1>3. IInv /\ Accounted => LoadsAddUp
  BY AddUpIsLoadsAddUp DEF IInv, Accounted
<1>. QED BY <1>1, <1>2, <1>3, PTL DEF Spec
-----------------------------------------------------------------------------
(* The stages of a job.                                                    *)

\* The transformations of job j that count, and their blocks at a node.
Maps(s, j) == {k \in OfJob(s, j) : s[k].block \in Block /\ s[k].estado # "error"}
BlocksAt(s, j, n) == {s[k].block : k \in {i \in Maps(s, j) : s[i].nodo = n}}

\* A node has one entry for a task; it is in process while T has the task.
Keyed(s, j) == \A k, i \in OfJob(s, j) :
  s[k].nodo = s[i].nodo /\ s[k].block = s[i].block => k = i
Live(s, j, T) == \A t \in T : \E k \in OfJob(s, j) :
  s[k].nodo = t.nodo /\ s[k].block = t.block /\ s[k].estado = "proceso"

\* Every block has one transformation that counts.
OneEach(s, j) ==
  /\ \A b \in Block : \E k \in Maps(s, j) : s[k].block = b
  /\ \A k, i \in Maps(s, j) : s[k].block = s[i].block => k = i
  /\ \A k \in OfJob(s, j) : s[k].block \in Block => s[k].files = {s[k].block}

\* A node with a block done has another to do, or reduces; then all are done.
Unfinished(s, k) == s[k].block = Local \/ (s[k].block \in Block /\ s[k].estado = "proceso")
Waits(s, j, n) == \A k \in Maps(s, j) : s[k].nodo = n /\ s[k].estado = "ok" =>
  \E i \in OfJob(s, j) : s[i].nodo = n /\ Unfinished(s, i)
Reducing(s, j) == \A k \in OfJob(s, j) : s[k].block = Local =>
  /\ s[k].estado # "error" /\ s[k].files = BlocksAt(s, j, s[k].nodo)
  /\ \A i \in Maps(s, j) : s[i].nodo = s[k].nodo => s[i].estado = "ok"

\* The global reduction begins when all that is before it is done, with all
\* blocks, and once; the final storage after it.
Begins(s, j, k) ==
  /\ s[k].files = (IF s[k].block = Global THEN Block ELSE {})
  /\ \A i \in OfJob(s, j) :
       /\ s[i].block \in Block \cup {Local} => s[i].estado # "proceso"
       /\ s[i].block = s[k].block => i = k
       /\ s[i].block = Global /\ s[k].block = Final => s[i].estado # "proceso"
Closing(s, j) == \A k \in OfJob(s, j) : s[k].block \in {Global, Final} => Begins(s, j, k)

Table(s, j) == Keyed(s, j) /\ OneEach(s, j) /\ Reducing(s, j) /\ Closing(s, j)
Waiting(s, j) == \A n \in Node : Waits(s, j, n)

\* No task is outstanding twice.
Once(q, S) == \A i \in DOMAIN q :
  /\ q[i].task \notin S
  /\ \A k \in DOMAIN q : q[i].task = q[k].task => i = k

\* The last two stages are alone, and Finalize finds an entry in process.
Late(j) == \A t \in Outstanding(j) : t.block \in {Global, Final} =>
  ~told[j] /\ Outstanding(j) = {t} /\ InProcess(j) # {}

Open(j) == ~told[j] /\ phase[j] \in {"running", "gone"}
Ordered(j) == Open(j) =>
  /\ Table(estados, j) /\ Live(estados, j, Outstanding(j))
  /\ yama = "running" => Waiting(estados, j)
Orderly(j) ==
  /\ Once(toYama[j], tasks[j]) /\ Ordered(j)
  /\ yama = "running" /\ phase[j] # "closed" => Late(j)
-----------------------------------------------------------------------------
(* A table of one job.                                                     *)

\* u is s with entry k put in state e.
Marks(s, u, k, e) ==
  /\ k \in DOMAIN s /\ DOMAIN u = DOMAIN s
  /\ u[k].job = s[k].job /\ u[k].nodo = s[k].nodo /\ u[k].block = s[k].block
  /\ u[k].files = s[k].files /\ u[k].estado = e
  /\ \A i \in DOMAIN s : i = k \/ u[i] = s[i]
\* u is s with entry e at x.
Puts(s, u, x, e) ==
  /\ x \notin DOMAIN s /\ DOMAIN u = DOMAIN s \cup {x}
  /\ u[x] = e /\ \A i \in DOMAIN s : u[i] = s[i]

\* What counts still does when an entry that was not in error is done.
LEMMA MarkOk ==
  ASSUME NEW s, NEW j, Table(s, j), NEW k \in OfJob(s, j), s[k].estado # "error",
         NEW u, Marks(s, u, k, "ok")
  PROVE  /\ Table(u, j) /\ Maps(u, j) = Maps(s, j) /\ OfJob(u, j) = OfJob(s, j)
         /\ \A n : s[k].nodo # n \/ s[k].block \notin Block \cup {Local}
              => (Waits(s, j, n) => Waits(u, j, n))
<1>1. OfJob(u, j) = OfJob(s, j)
  BY DEF Marks, OfJob
<1>2. \A i \in OfJob(s, j) :
        /\ u[i].job = s[i].job /\ u[i].nodo = s[i].nodo /\ u[i].block = s[i].block
        /\ u[i].files = s[i].files
        /\ u[i].estado = IF i = k THEN "ok" ELSE s[i].estado
  BY DEF Marks, OfJob
<1>3. Maps(u, j) = Maps(s, j)
  BY <1>1, <1>2 DEF Maps
<1>4. \A n : BlocksAt(u, j, n) = BlocksAt(s, j, n)
  BY <1>2, <1>3 DEF BlocksAt, Maps
<1>5. Keyed(u, j)
  BY <1>1, <1>2 DEF Table, Keyed
<1>6. OneEach(u, j)
  BY <1>1, <1>2, <1>3 DEF Table, OneEach, Maps
<1>7. Reducing(u, j)
  BY <1>1, <1>2, <1>3, <1>4 DEF Table, Reducing, Maps
<1>8. Closing(u, j)
  BY <1>1, <1>2 DEF Table, Closing, Begins
<1>9. ASSUME NEW n, s[k].nodo # n \/ s[k].block \notin Block \cup {Local}, Waits(s, j, n)
      PROVE  Waits(u, j, n)
  <2>1. SUFFICES ASSUME NEW h \in Maps(u, j), u[h].nodo = n, u[h].estado = "ok"
                 PROVE  \E i \in OfJob(u, j) : u[i].nodo = n /\ Unfinished(u, i)
    BY DEF Waits
  <2>2. h # k
    <3>1. h \in OfJob(s, j) /\ s[h].nodo = n /\ s[h].block \in Block
      BY <1>2, <1>3, <2>1 DEF Maps
    <3>. QED BY <1>9, <3>1
  <2>3. h \in Maps(s, j) /\ s[h].nodo = n /\ s[h].estado = "ok"
    BY <1>2, <1>3, <2>1, <2>2 DEF Maps
  <2>4. PICK i \in OfJob(s, j) : s[i].nodo = n /\ Unfinished(s, i)
    BY <1>9, <2>3 DEF Waits
  <2>5. i # k
    BY <1>9, <2>4 DEF Unfinished
  <2>. QED BY <1>1, <1>2, <2>4, <2>5 DEF Unfinished
<1>. QED BY <1>1, <1>3, <1>5, <1>6, <1>7, <1>8, <1>9 DEF Table
\* The entry of one of the last two stages may come to any end.
LEMMA MarkLast ==
  ASSUME NEW s, NEW j, Table(s, j), NEW k \in OfJob(s, j), s[k].block \notin Block \cup {Local},
         NEW u, NEW e, e # "proceso", Marks(s, u, k, e)
  PROVE  /\ Table(u, j) /\ OfJob(u, j) = OfJob(s, j)
         /\ \A n : Waits(s, j, n) => Waits(u, j, n)
<1>1. OfJob(u, j) = OfJob(s, j)
  BY DEF Marks, OfJob
<1>2. \A i \in OfJob(s, j) :
        /\ u[i].job = s[i].job /\ u[i].nodo = s[i].nodo /\ u[i].block = s[i].block
        /\ u[i].files = s[i].files
        /\ u[i].estado = IF i = k THEN e ELSE s[i].estado
  BY DEF Marks, OfJob
<1>3. Maps(u, j) = Maps(s, j) /\ k \notin Maps(s, j)
  BY <1>1, <1>2 DEF Maps
<1>4. \A n : BlocksAt(u, j, n) = BlocksAt(s, j, n)
  BY <1>2, <1>3 DEF BlocksAt, Maps
<1>5. Keyed(u, j)
  BY <1>1, <1>2 DEF Table, Keyed
<1>6. OneEach(u, j)
  BY <1>1, <1>2, <1>3 DEF Table, OneEach, Maps
<1>7. Reducing(u, j)
  BY <1>1, <1>2, <1>3, <1>4 DEF Table, Reducing, Maps
<1>8. Closing(u, j)
  BY <1>1, <1>2 DEF Table, Closing, Begins
<1>9. ASSUME NEW n, Waits(s, j, n), NEW h \in Maps(u, j), u[h].nodo = n, u[h].estado = "ok"
      PROVE  \E i \in OfJob(u, j) : u[i].nodo = n /\ Unfinished(u, i)
  <2>1. h \in Maps(s, j) /\ s[h].nodo = n /\ s[h].estado = "ok"
    BY <1>2, <1>3, <1>9 DEF Maps
  <2>2. PICK i \in OfJob(s, j) : s[i].nodo = n /\ Unfinished(s, i)
    BY <1>9, <2>1 DEF Waits
  <2>3. i # k
    BY <2>2 DEF Unfinished
  <2>. QED BY <1>1, <1>2, <2>2, <2>3 DEF Unfinished
<1>. QED BY <1>1, <1>5, <1>6, <1>7, <1>8, <1>9 DEF Table, Waits

\* What else is outstanding stays in process.
LEMMA MarkLive ==
  ASSUME NEW s, NEW j, NEW k \in OfJob(s, j), NEW u, NEW e, Marks(s, u, k, e),
         NEW T, Live(s, j, T), \A t \in T : t.nodo # s[k].nodo \/ t.block # s[k].block
  PROVE  Live(u, j, T)
<1>. SUFFICES ASSUME NEW t \in T
              PROVE  \E i \in OfJob(u, j) :
                       u[i].nodo = t.nodo /\ u[i].block = t.block /\ u[i].estado = "proceso"
  BY DEF Live
<1>1. PICK i \in OfJob(s, j) :
        s[i].nodo = t.nodo /\ s[i].block = t.block /\ s[i].estado = "proceso"
  BY DEF Live
<1>2. i # k
  BY <1>1
<1>. QED BY <1>1, <1>2 DEF Marks, OfJob

\* An entry for a new stage.
NewStage(s, u, j, x, e) ==
  /\ OfJob(u, j) = OfJob(s, j) \cup {x} /\ x \notin OfJob(s, j) /\ u[x] = e
  /\ \A i \in OfJob(s, j) : u[i] = s[i]
  /\ Maps(u, j) = Maps(s, j) /\ \A n : BlocksAt(u, j, n) = BlocksAt(s, j, n)
  /\ OneEach(u, j) /\ \A n : Waits(s, j, n) => Waits(u, j, n)

\* It leaves the transformations alone.
LEMMA PutIs ==
  ASSUME NEW s, NEW j, NEW x, NEW e, e.job = j, e.block \notin Block, NEW u, Puts(s, u, x, e),
         OneEach(s, j)
  PROVE  NewStage(s, u, j, x, e)
<1>1. /\ OfJob(u, j) = OfJob(s, j) \cup {x} /\ x \notin OfJob(s, j) /\ u[x] = e
      /\ \A i \in OfJob(s, j) : u[i] = s[i]
  BY DEF Puts, OfJob
<1>2. Maps(u, j) = Maps(s, j) /\ \A i \in Maps(s, j) : u[i] = s[i] /\ i # x
  BY <1>1 DEF Maps
<1>3. \A n : BlocksAt(u, j, n) = BlocksAt(s, j, n)
  BY <1>2 DEF BlocksAt
<1>4. OneEach(u, j)
  BY <1>1, <1>2 DEF OneEach
<1>5. ASSUME NEW n, Waits(s, j, n) PROVE Waits(u, j, n)
  BY <1>1, <1>2, <1>5 DEF Waits, Unfinished
<1>. QED BY <1>1, <1>2, <1>3, <1>4, <1>5 DEF NewStage

\* A new stage is in process.
LEMMA PutLive ==
  ASSUME NEW s, NEW j, NEW x, NEW e, e.job = j, e.estado = "proceso",
         NEW u, Puts(s, u, x, e), NEW T, Live(s, j, T), NEW U,
         \A t \in U : t \in T \/ (t.nodo = e.nodo /\ t.block = e.block)
  PROVE  Live(u, j, U)
<1>1. x \in OfJob(u, j) /\ u[x] = e /\ \A i \in OfJob(s, j) : i \in OfJob(u, j) /\ u[i] = s[i]
  BY DEF Puts, OfJob
<1>. QED BY <1>1 DEF Live

\* A node reduces when its transformations are done.
LEMMA PutLocal ==
  ASSUME NEW s, NEW j, Table(s, j), NEW n, NEW x, NEW e, e.job = j, e.nodo = n, e.block = Local,
         e.estado = "proceso", e.files = BlocksAt(s, j, n), NEW u, Puts(s, u, x, e),
         \A i \in OfJob(s, j) : s[i].block \notin {Global, Final},
         \A i \in OfJob(s, j) : s[i].block = Local => s[i].nodo # n,
         \A i \in Maps(s, j) : s[i].nodo = n => s[i].estado = "ok"
  PROVE  /\ Table(u, j) /\ Waits(u, j, n) /\ \A m : Waits(s, j, m) => Waits(u, j, m)
<1>1. /\ Local \notin Block /\ Local \notin {Global, Final}
  BY BlockIsFinite DEF Local, Global, Final
<1>2. /\ OfJob(u, j) = OfJob(s, j) \cup {x} /\ x \notin OfJob(s, j) /\ u[x] = e
      /\ \A i \in OfJob(s, j) : u[i] = s[i]
      /\ Maps(u, j) = Maps(s, j) /\ \A m : BlocksAt(u, j, m) = BlocksAt(s, j, m)
      /\ OneEach(u, j) /\ \A m : Waits(s, j, m) => Waits(u, j, m)
  <2>1. e.block \notin Block /\ OneEach(s, j)
    BY <1>1 DEF Table
  <2>2. NewStage(s, u, j, x, e)
    BY <2>1, PutIs
  <2>. QED BY <2>2 DEF NewStage
<1>3. Keyed(u, j)
  BY <1>2 DEF Table, Keyed
<1>4. Reducing(u, j)
  <2>1. ASSUME NEW k \in OfJob(s, j), u[k].block = Local
        PROVE  /\ u[k].estado # "error" /\ u[k].files = BlocksAt(u, j, u[k].nodo)
               /\ \A i \in Maps(u, j) : u[i].nodo = u[k].nodo => u[i].estado = "ok"
    BY <1>2, <2>1 DEF Table, Reducing, Maps
  <2>2. /\ u[x].estado # "error" /\ u[x].files = BlocksAt(u, j, u[x].nodo)
        /\ \A i \in Maps(u, j) : u[i].nodo = u[x].nodo => u[i].estado = "ok"
    BY <1>2 DEF Maps
  <2>. QED BY <1>2, <2>1, <2>2 DEF Reducing
<1>5. Closing(u, j)
  BY <1>1, <1>2 DEF Closing
<1>6. Waits(u, j, n)
  BY <1>2 DEF Waits, Unfinished
<1>. QED BY <1>2, <1>3, <1>4, <1>5, <1>6 DEF Table

\* The job is reduced when its nodes are.
LEMMA PutGlobal ==
  ASSUME NEW s, NEW j, Table(s, j), NEW x, NEW e, e.job = j, e.block = Global,
         e.files = Block, NEW u, Puts(s, u, x, e),
         \A i \in OfJob(s, j) : s[i].block \notin {Global, Final} /\ s[i].estado # "proceso"
  PROVE  Table(u, j) /\ \A m : Waits(s, j, m) => Waits(u, j, m)
<1>1. Global \notin Block /\ Global # Local /\ Global # Final
  BY BlockIsFinite DEF Local, Global, Final
<1>2. /\ OfJob(u, j) = OfJob(s, j) \cup {x} /\ x \notin OfJob(s, j) /\ u[x] = e
      /\ \A i \in OfJob(s, j) : u[i] = s[i]
      /\ Maps(u, j) = Maps(s, j) /\ \A m : BlocksAt(u, j, m) = BlocksAt(s, j, m)
      /\ OneEach(u, j) /\ \A m : Waits(s, j, m) => Waits(u, j, m)
  <2>1. e.block \notin Block /\ OneEach(s, j)
    BY <1>1 DEF Table
  <2>2. NewStage(s, u, j, x, e)
    BY <2>1, PutIs
  <2>. QED BY <2>2 DEF NewStage
<1>3. Keyed(u, j)
  BY <1>2 DEF Table, Keyed
<1>4. Reducing(u, j)
  BY <1>1, <1>2 DEF Table, Reducing, Maps
<1>5. Closing(u, j)
  BY <1>1, <1>2 DEF Closing, Begins
<1>. QED BY <1>2, <1>3, <1>4, <1>5 DEF Table

\* The result is stored when the job is reduced.
LEMMA PutFinal ==
  ASSUME NEW s, NEW j, Table(s, j), NEW x, NEW e, e.job = j, e.block = Final,
         e.files = {}, NEW u, Puts(s, u, x, e),
         \A i \in OfJob(s, j) : s[i].block # Final /\ s[i].estado # "proceso"
  PROVE  Table(u, j) /\ \A m : Waits(s, j, m) => Waits(u, j, m)
<1>1. Final \notin Block /\ Final # Local /\ Global # Final
  BY BlockIsFinite DEF Local, Global, Final
<1>2. /\ OfJob(u, j) = OfJob(s, j) \cup {x} /\ x \notin OfJob(s, j) /\ u[x] = e
      /\ \A i \in OfJob(s, j) : u[i] = s[i]
      /\ Maps(u, j) = Maps(s, j) /\ \A m : BlocksAt(u, j, m) = BlocksAt(s, j, m)
      /\ OneEach(u, j) /\ \A m : Waits(s, j, m) => Waits(u, j, m)
  <2>1. e.block \notin Block /\ OneEach(s, j)
    BY <1>1 DEF Table
  <2>2. NewStage(s, u, j, x, e)
    BY <2>1, PutIs
  <2>. QED BY <2>2 DEF NewStage
<1>3. Keyed(u, j)
  BY <1>2 DEF Table, Keyed
<1>4. Reducing(u, j)
  BY <1>1, <1>2 DEF Table, Reducing, Maps
<1>5. Closing(u, j)
  <2>1. ASSUME NEW k \in OfJob(s, j), u[k].block \in {Global, Final} PROVE Begins(u, j, k)
    <3>1. Begins(s, j, k) /\ s[k].block = Global
      BY <1>2, <2>1 DEF Table, Closing
    <3>. QED BY <1>1, <1>2, <2>1, <3>1 DEF Begins
  <2>2. Begins(u, j, x)
    BY <1>1, <1>2 DEF Begins
  <2>. QED BY <1>2, <2>1, <2>2 DEF Closing
<1>. QED BY <1>2, <1>3, <1>4, <1>5 DEF Table
\* Tasks of the blocks for which no transformation of job j counts.
Fits(s, j, todo) ==
  /\ \A k \in OfJob(s, j) : s[k].block \in Block /\ s[k].files = {s[k].block}
  /\ \A k, i \in OfJob(s, j) : s[k].block = s[i].block => k = i
  /\ \A i \in DOMAIN todo : todo[i].block \in Block
  /\ \A i, h \in DOMAIN todo : todo[i].block = todo[h].block => i = h
  /\ \A b \in Block : \/ \E k \in Maps(s, j) : s[k].block = b
                      \/ \E i \in DOMAIN todo : todo[i].block = b
  /\ \A i \in DOMAIN todo : \A k \in OfJob(s, j) : s[k].block = todo[i].block =>
       s[k].estado = "error" /\ s[k].nodo # todo[i].nodo
\* The table u has them, in process, and what s had.
Takes(s, j, todo, u) ==
  /\ Table(u, j) /\ \A n : Waits(s, j, n) => Waits(u, j, n)
  /\ \A T : Live(s, j, T) => Live(u, j, T)
  /\ \A i \in DOMAIN todo : \E k \in OfJob(u, j) :
       u[k].nodo = todo[i].nodo /\ u[k].block = todo[i].block /\ u[k].estado = "proceso"

\* Transformations are added: each of a block that no other counts for.
LEMMA PutMaps ==
  ASSUME NEW s \in Seq(State), NEW j \in Job, NEW todo \in Seq(Task), NEW u \in Seq(State),
         Grows(j, s, u), Added(j, s, todo, u), Fits(s, j, todo)
  PROVE  Takes(s, j, todo, u)
<1>. DEFINE New == {k \in DOMAIN u : k \notin DOMAIN s}
            task(k) == todo[k - Len(s)]
<1>. USE DEF Fits
<1>1. DOMAIN s = 1 .. Len(s) /\ Len(s) \in Nat /\ DOMAIN u \subseteq Int
  <2>1. DOMAIN u = 1 .. Len(u) /\ Len(u) \in Nat
    OBVIOUS
  <2>. QED BY <2>1
<1>2. ASSUME NEW k \in New
      PROVE  /\ k - Len(s) \in DOMAIN todo
             /\ u[k] = Entry(j, task(k).nodo, task(k).block, {task(k).block})
  <2>1. k - Len(s) \in DOMAIN todo /\ k \in Int
    BY <1>1 DEF Added
  <2>2. Len(s) + (k - Len(s)) = k
    BY <1>1, <2>1
  <2>. QED BY <2>1, <2>2 DEF Added
<1>3. ASSUME NEW k \in New
      PROVE  /\ k - Len(s) \in DOMAIN todo /\ k \in OfJob(u, j)
             /\ u[k].nodo = task(k).nodo /\ u[k].block = task(k).block
             /\ u[k].files = {task(k).block} /\ u[k].estado = "proceso"
             /\ u[k].block \in Block
  BY <1>2 DEF Entry, OfJob
<1>4. \A i \in DOMAIN todo : \E k \in New : task(k) = todo[i]
  <2>. TAKE i \in DOMAIN todo
  <2>1. i \in Int /\ i > 0
    <3>1. DOMAIN todo = 1 .. Len(todo)
      OBVIOUS
    <3>. QED BY <3>1
  <2>2. Len(s) + i \in DOMAIN u /\ (Len(s) + i) - Len(s) = i /\ Len(s) + i \notin 1 .. Len(s)
    <3>1. Len(s) + i \in DOMAIN u
      BY DEF Added
    <3>2. Len(s) \in Nat
      BY <1>1
    <3>. QED BY <2>1, <3>1, <3>2
  <2>. QED BY <1>1, <2>2
<1>5. /\ \A k \in OfJob(s, j) : k \in OfJob(u, j) /\ u[k] = s[k]
      /\ \A k \in OfJob(u, j) : k \in New \/ k \in OfJob(s, j)
  BY DEF OfJob, Added, Grows
<1>6. \A k, i \in New : u[k].block = u[i].block => k = i
  <2>. TAKE k, i \in New
  <2>. HAVE u[k].block = u[i].block
  <2>1. k - Len(s) = i - Len(s)
    BY <1>3
  <2>. QED BY <1>1, <2>1
<1>7. \A k \in New : \A i \in OfJob(s, j) : u[k].block = s[i].block =>
        s[i].estado = "error" /\ s[i].nodo # u[k].nodo
  BY <1>3
<1>. HIDE DEF New, task, Fits
<1>8. Keyed(u, j)
  <2>1. \A k, i \in OfJob(s, j) : s[k].nodo = s[i].nodo /\ s[k].block = s[i].block => k = i
    BY DEF Fits
  <2>. QED BY <1>5, <1>6, <1>7, <2>1 DEF Keyed
<1>. USE DEF Fits
<1>9. \A k \in Maps(u, j) : k \in New \/ (k \in Maps(s, j) /\ u[k] = s[k])
  BY <1>5 DEF Maps
<1>10. /\ \A k \in Maps(s, j) : k \in Maps(u, j) /\ u[k] = s[k]
       /\ \A k \in New : k \in Maps(u, j)
  BY <1>3, <1>5 DEF Maps
<1>11. \A k, i \in Maps(u, j) : u[k].block = u[i].block => k = i
  <2>. TAKE k, i \in Maps(u, j)
  <2>1. ASSUME NEW h \in New, NEW g \in Maps(s, j) PROVE u[h].block # s[g].block
    BY <1>7 DEF Maps
  <2>2. \A h, g \in Maps(s, j) : s[h].block = s[g].block => h = g
    BY DEF Maps
  <2>. QED BY <1>6, <1>9, <2>1, <2>2
<1>12. \A b \in Block : \E k \in Maps(u, j) : u[k].block = b
  <2>. TAKE b \in Block
  <2>1. CASE \E k \in Maps(s, j) : s[k].block = b
    BY <1>10, <2>1
  <2>2. CASE \E i \in DOMAIN todo : todo[i].block = b
    <3>1. PICK k \in New : task(k).block = b
      BY <1>4, <2>2
    <3>. QED BY <1>3, <1>10, <3>1
  <2>. QED BY <2>1, <2>2
<1>13. OneEach(u, j)
  BY <1>3, <1>5, <1>11, <1>12 DEF OneEach
<1>14. \A k \in OfJob(u, j) : u[k].block \in Block
  BY <1>3, <1>5
<1>15. Reducing(u, j) /\ Closing(u, j)
  BY <1>14, BlockIsFinite DEF Reducing, Closing
<1>16. ASSUME NEW n, Waits(s, j, n), NEW k \in Maps(u, j), u[k].nodo = n, u[k].estado = "ok"
       PROVE  \E i \in OfJob(u, j) : u[i].nodo = n /\ Unfinished(u, i)
  <2>1. k \in Maps(s, j) /\ u[k] = s[k]
    BY <1>3, <1>9, <1>16
  <2>2. PICK i \in OfJob(s, j) : s[i].nodo = n /\ Unfinished(s, i)
    BY <1>16, <2>1 DEF Waits
  <2>. QED BY <1>5, <2>2 DEF Unfinished
<1>17. ASSUME NEW T, Live(s, j, T) PROVE Live(u, j, T)
  BY <1>5, <1>17 DEF Live
<1>18. \A i \in DOMAIN todo : \E k \in OfJob(u, j) :
         u[k].nodo = todo[i].nodo /\ u[k].block = todo[i].block /\ u[k].estado = "proceso"
  BY <1>3, <1>4
<1>. QED BY <1>8, <1>13, <1>15, <1>16, <1>17, <1>18 DEF Table, Waits, Takes
-----------------------------------------------------------------------------
(* What is outstanding.                                                    *)

\* An answer that is read was there once.
LEMMA OnceTail ==
  ASSUME NEW q \in Seq(Answer), q # <<>>, NEW S, Once(q, S)
  PROVE  Once(Tail(q), S) /\ Head(q).task \notin S /\ Head(q).task \notin Reports(Tail(q))
<1>1. /\ Head(q) \in Answer /\ Tail(q) \in Seq(Answer) /\ Len(q) \in Nat \ {0}
      /\ Len(Tail(q)) = Len(q) - 1
      /\ \A k \in 1 .. Len(q) - 1 : Tail(q)[k] = q[k + 1]
      /\ Head(q) = q[1]
  BY HeadTailProperties
<1>2. DOMAIN q = 1 .. Len(q) /\ DOMAIN Tail(q) = 1 .. Len(q) - 1
  BY <1>1
<1>3. 1 \in DOMAIN q
  BY <1>1, <1>2
<1>4. \A k \in DOMAIN Tail(q) : /\ k + 1 \in DOMAIN q /\ Tail(q)[k] = q[k + 1] /\ k + 1 # 1
                                /\ \A i \in DOMAIN Tail(q) : k + 1 = i + 1 => k = i
  BY <1>1, <1>2
<1>5. Head(q).task \notin S
  BY <1>1, <1>3 DEF Once
<1>6. \A k \in DOMAIN Tail(q) : Tail(q)[k].task # Head(q).task
  BY <1>1, <1>3, <1>4 DEF Once
<1>7. Once(Tail(q), S)
  BY <1>4 DEF Once
<1>. QED BY <1>5, <1>6, <1>7 DEF Reports

\* An answer to a task, which is one no more.
LEMMA OnceAppend ==
  ASSUME NEW q \in Seq(Answer), NEW S, Once(q, S), NEW a \in Answer, a.task \in S,
         NEW S2, S2 \subseteq S, a.task \notin S2
  PROVE  Once(Append(q, a), S2)
<1>1. /\ Append(q, a) \in Seq(Answer) /\ Len(Append(q, a)) = Len(q) + 1 /\ Len(q) \in Nat
      /\ \A k \in 1 .. Len(q) : Append(q, a)[k] = q[k]
      /\ Append(q, a)[Len(q) + 1] = a
  BY AppendProperties
<1>2. DOMAIN q = 1 .. Len(q) /\ DOMAIN Append(q, a) = (1 .. Len(q)) \cup {Len(q) + 1}
  BY <1>1
<1>3. \A k \in DOMAIN q : q[k].task # a.task
  BY DEF Once
<1>. QED BY <1>1, <1>2, <1>3 DEF Once

\* Tasks that are new, or dropped.
LEMMA OnceMore ==
  ASSUME NEW q, NEW S, Once(q, S), NEW S2, \A t \in S2 : t \in S \/ t \notin Reports(q)
  PROVE  Once(q, S2)
  BY DEF Once, Reports
-----------------------------------------------------------------------------
(* The steps of the table.                                                 *)

\* actualizoTablaEstado finds the entry of a task.
LEMMA UpdateMarks ==
  ASSUME NEW s \in Seq(State), NEW j, NEW t, NEW e \in {"proceso", "ok", "error"}, Keyed(s, j),
         NEW k \in OfJob(s, j), s[k].nodo = t.nodo, s[k].block = t.block,
         NEW u, u = Update(s, j, t, e)
  PROVE  Marks(s, u, k, e)
<1>1. PICK h : h = At(s, j, t)
  OBVIOUS
<1>2. u = [s EXCEPT ![h].estado = e]
  BY <1>1, UpdateIs
<1>3. /\ h \in 0 .. Len(s)
      /\ h = 0 => \A i \in DOMAIN s : ~(s[i].job = j /\ s[i].nodo = t.nodo /\ s[i].block = t.block)
      /\ h \in DOMAIN s => s[h].job = j /\ s[h].nodo = t.nodo /\ s[h].block = t.block
  BY <1>1, AtIs
<1>4. Len(s) \in Nat /\ DOMAIN s = 1 .. Len(s) /\ \A i \in DOMAIN s : s[i] \in State
  OBVIOUS
<1>5. h # 0
  BY <1>3 DEF OfJob
<1>6. h \in OfJob(s, j)
  BY <1>3, <1>4, <1>5 DEF OfJob
<1>7. h = k
  BY <1>3, <1>4, <1>5, <1>6 DEF Keyed
<1>8. /\ DOMAIN u = DOMAIN s /\ u[k] = [s[k] EXCEPT !.estado = e] /\ k \in DOMAIN s
      /\ \A i \in DOMAIN s : i = k \/ u[i] = s[i]
  BY <1>2, <1>7 DEF OfJob
<1>9. /\ u[k].job = s[k].job /\ u[k].nodo = s[k].nodo /\ u[k].block = s[k].block
      /\ u[k].files = s[k].files /\ u[k].estado = e
  BY <1>4, <1>8 DEF State
<1>. QED BY <1>8, <1>9 DEF Marks

\* agregarAtablaEstado.
LEMMA AppendPuts ==
  ASSUME NEW s \in Seq(State), NEW e \in State, NEW u, u = Append(s, e)
  PROVE  Puts(s, u, Len(s) + 1, e)
<1>1. PICK f : f = e
  OBVIOUS
<1>2. /\ u \in Seq(State) /\ Len(u) = Len(s) + 1 /\ Len(s) \in Nat
      /\ \A k \in 1 .. Len(s) : u[k] = s[k]
      /\ u[Len(s) + 1] = f
  BY <1>1, AppendProperties
<1>3. DOMAIN s = 1 .. Len(s) /\ DOMAIN u = 1 .. Len(s) + 1
  BY <1>2
<1>4. DOMAIN u = DOMAIN s \cup {Len(s) + 1} /\ Len(s) + 1 \notin DOMAIN s
  BY <1>2, <1>3
<1>. QED BY <1>1, <1>2, <1>3, <1>4 DEF Puts

\* A table whose entries of a job are the same.
LEMMA SameTable ==
  ASSUME NEW s, NEW u, NEW j, OfJob(u, j) = OfJob(s, j), \A k \in OfJob(s, j) : u[k] = s[k]
  PROVE  /\ Table(s, j) => Table(u, j)
         /\ \A T : Live(s, j, T) => Live(u, j, T)
         /\ Waiting(s, j) => Waiting(u, j)
<1>1. Maps(u, j) = Maps(s, j) /\ \A k \in Maps(s, j) : u[k] = s[k]
  BY DEF Maps
<1>2. \A n : BlocksAt(u, j, n) = BlocksAt(s, j, n)
  BY <1>1 DEF BlocksAt
<1>3. Keyed(s, j) => Keyed(u, j)
  BY DEF Keyed
<1>4. OneEach(s, j) => OneEach(u, j)
  BY <1>1 DEF OneEach
<1>5. Reducing(s, j) => Reducing(u, j)
  BY <1>1, <1>2 DEF Reducing
<1>6. Closing(s, j) => Closing(u, j)
  BY DEF Closing, Begins
<1>7. \A n : Waits(s, j, n) => Waits(u, j, n)
  BY <1>1 DEF Waits, Unfinished
<1>8. \A T : Live(s, j, T) => Live(u, j, T)
  BY DEF Live
<1>. QED BY <1>3, <1>4, <1>5, <1>6, <1>7, <1>8 DEF Table, Waiting

\* A step of one job leaves the order of the others.
LEMMA OthersOrderly ==
  ASSUME NEW j \in Job, Others(j), NEW i \in Job \ {j}, told'[i] = told[i], Orderly(i)
  PROVE  Orderly(i)'
<1>1. PICK s : s = estados
  OBVIOUS
<1>2. PICK u : u = estados'
  OBVIOUS
<1>3. Grows(j, s, u)
  BY <1>1, <1>2 DEF Others
<1>4. OfJob(u, i) = OfJob(s, i) /\ \A k \in OfJob(s, i) : u[k] = s[k]
  BY <1>3, GrowsOthers
<1>5. /\ phase'[i] = phase[i] /\ tasks'[i] = tasks[i] /\ toYama'[i] = toYama[i]
      /\ yama' = "running" => yama = "running"
  BY DEF Others
<1>6. PICK T : T = Outstanding(i)
  OBVIOUS
<1>7. Outstanding(i)' = T
  BY <1>5, <1>6 DEF Outstanding, Reported, Reports
<1>8. /\ Table(s, i) => Table(u, i)
      /\ Live(s, i, T) => Live(u, i, T)
      /\ Waiting(s, i) => Waiting(u, i)
  BY <1>4, SameTable
<1>9. Ordered(i)'
  BY <1>1, <1>2, <1>5, <1>6, <1>7, <1>8 DEF Orderly, Ordered, Open
<1>10. InProcess(i)' = InProcess(i)
  BY <1>1, <1>2, <1>4 DEF InProcess
<1>11. Late(i) => Late(i)'
  BY <1>6, <1>7, <1>10 DEF Late
<1>. QED BY <1>5, <1>9, <1>11 DEF Orderly
-----------------------------------------------------------------------------
(* What is read.                                                           *)

\* What is outstanding when an answer was read, and tasks S were sent.
LEMMA ReadLeaves ==
  ASSUME IInv, NEW j \in Job, Once(toYama[j], tasks[j]), NEW B, NEW ok, Reads(j, B, ok),
         NEW S, tasks'[j] \subseteq tasks[j] \cup S, S \cap Outstanding(j) = {}
  PROVE  /\ Once(toYama'[j], tasks'[j])
         /\ \A t \in Outstanding(j)' : t \in S \/ (t \in Outstanding(j) /\ t # Answered(j))
<1>1. PICK q : q = toYama[j]
  OBVIOUS
<1>2. PICK T : T = tasks[j]
  OBVIOUS
<1>3. q \in Seq(Answer) /\ q # <<>> /\ toYama'[j] = Tail(q) /\ Answered(j) = Head(q).task
  BY <1>1 DEF IInv, TypeOK, Reads, Answered
<1>4. Once(Tail(q), T) /\ Head(q).task \notin T /\ Head(q).task \notin Reports(Tail(q))
  BY <1>1, <1>2, <1>3, OnceTail
<1>5. Reports(Tail(q)) \subseteq Reports(q)
  BY <1>3, ReportsTail
<1>6. Outstanding(j) = T \cup Reports(q) /\ Outstanding(j)' = tasks'[j] \cup Reports(Tail(q))
  BY <1>1, <1>2, <1>3 DEF Outstanding, Reported
<1>7. \A t \in tasks'[j] : t \in T \/ t \notin Reports(Tail(q))
  BY <1>2, <1>5, <1>6
<1>8. Once(Tail(q), tasks'[j])
  <2>1. PICK S2 : S2 = tasks'[j]
    OBVIOUS
  <2>. QED BY <1>4, <1>7, <2>1, OnceMore
<1>. QED BY <1>2, <1>3, <1>4, <1>5, <1>6, <1>8

\* A Master that was told has nothing of the last stages to report.
LEMMA ReadTold ==
  ASSUME IInv, NEW j \in Job, Orderly(j), NEW B, NEW ok, Reads(j, B, ok), UNCHANGED phase,
         told'[j], tasks'[j] \subseteq tasks[j]
  PROVE  Orderly(j)'
<1>1. /\ Once(toYama'[j], tasks'[j])
      /\ \A t \in Outstanding(j)' : t \in Outstanding(j) /\ t # Answered(j)
  <2>1. /\ Once(toYama'[j], tasks'[j])
        /\ \A t \in Outstanding(j)' : t \in {} \/ (t \in Outstanding(j) /\ t # Answered(j))
    <3>1. PICK S : S = {}
      OBVIOUS
    <3>2. tasks'[j] \subseteq tasks[j] \cup S /\ S \cap Outstanding(j) = {}
      BY <3>1
    <3>3. Once(toYama[j], tasks[j])
      BY DEF Orderly
    <3>. QED BY <3>1, <3>2, <3>3, ReadLeaves
  <2>. QED BY <2>1
<1>2. Answered(j) \in Outstanding(j) /\ yama = "running" /\ phase[j] # "closed"
  BY ReadsIs
<1>3. Late(j)
  BY <1>2 DEF Orderly
<1>4. \A t \in Outstanding(j)' : t.block \notin {Global, Final}
  BY <1>1, <1>2, <1>3 DEF Late
<1>5. Late(j)'
  BY <1>4 DEF Late
<1>. QED BY <1>1, <1>5 DEF Orderly, Ordered, Open
-----------------------------------------------------------------------------
(* The Masters, and the beginning of a job.                                *)

\* A Master that takes, answers or drops tasks leaves the order of its job.
LEMMA MasterOrderly ==
  ASSUME NEW j \in Job, Orderly(j), UNCHANGED <<estados, yama, told>>,
         Once(toYama'[j], tasks'[j]), Outstanding(j)' \subseteq Outstanding(j),
         phase[j] = "running", phase'[j] # "closed"
  PROVE  Orderly(j)'
<1>1. PICK s : s = estados
  OBVIOUS
<1>2. PICK T : T = Outstanding(j)
  OBVIOUS
<1>3. PICK U : U = Outstanding(j)'
  OBVIOUS
<1>4. U \subseteq T
  BY <1>2, <1>3
<1>5. Live(s, j, T) => Live(s, j, U)
  BY <1>4 DEF Live
<1>6. Ordered(j)'
  <2>. SUFFICES ASSUME Open(j)'
                PROVE  /\ Table(s, j) /\ Live(s, j, U)
                       /\ yama' = "running" => Waiting(s, j)
    BY <1>1, <1>3 DEF Ordered
  <2>1. Open(j)
    BY DEF Open
  <2>. QED BY <1>1, <1>2, <1>5, <2>1 DEF Orderly, Ordered
<1>7. InProcess(j)' = InProcess(j)
  BY DEF InProcess
<1>8. Late(j) => Late(j)'
  BY <1>2, <1>3, <1>4, <1>7 DEF Late
<1>. QED BY <1>6, <1>8 DEF Orderly

\* A Master's answer is read once.
LEMMA DoneOrderly ==
  ASSUME IInv, NEW j \in Job, Orderly(j), NEW t \in tasks[j], Done(j, t) PROVE Orderly(j)'
<1>1. TypeOK
  BY DEF IInv
<1>2. PICK q : q = toYama[j]
  OBVIOUS
<1>3. PICK a : a = [task |-> t, ok |-> TRUE]
  OBVIOUS
<1>4. q \in Seq(Answer) /\ a \in Answer /\ a.task = t
  BY <1>1, <1>2, <1>3 DEF TypeOK, Answer
<1>5. /\ toYama'[j] = Append(q, a) /\ tasks'[j] = tasks[j] \ {t}
      /\ phase[j] = "running" /\ phase'[j] # "closed"
      /\ UNCHANGED <<estados, yama, told>>
  BY <1>1, <1>2, <1>3 DEF TypeOK, Done, Answers
<1>6. Reports(Append(q, a)) = Reports(q) \cup {t}
  BY <1>4, ReportsAppend
<1>7. Outstanding(j)' \subseteq Outstanding(j)
  BY <1>2, <1>5, <1>6 DEF Outstanding, Reported
<1>8. Once(toYama'[j], tasks'[j])
  <2>1. PICK S : S = tasks[j]
    OBVIOUS
  <2>2. Once(q, S) /\ S \ {t} \subseteq S /\ t \in S /\ t \notin S \ {t}
    BY <1>2, <2>1 DEF Orderly
  <2>3. PICK S2 : S2 = S \ {t}
    OBVIOUS
  <2>4. Once(Append(q, a), S2)
    BY <1>4, <2>2, <2>3, OnceAppend
  <2>. QED BY <1>5, <2>1, <2>3, <2>4
<1>. QED BY <1>5, <1>7, <1>8, MasterOrderly

\* So is a failure, whatever tasks the Master drops.
LEMMA FailOrderly ==
  ASSUME IInv, NEW j \in Job, Orderly(j), NEW t \in tasks[j], Fail(j, t) PROVE Orderly(j)'
<1>1. TypeOK
  BY DEF IInv
<1>2. PICK q : q = toYama[j]
  OBVIOUS
<1>3. PICK a : a = [task |-> t, ok |-> FALSE]
  OBVIOUS
<1>4. q \in Seq(Answer) /\ a \in Answer /\ a.task = t
  BY <1>1, <1>2, <1>3 DEF TypeOK, Answer
<1>5. PICK S2 : S2 = IF t.block >= Local THEN {u \in tasks[j] : u.nodo # t.nodo}
                     ELSE tasks[j] \ {t}
  OBVIOUS
<1>6. /\ toYama'[j] = Append(q, a) /\ tasks'[j] = S2
      /\ phase[j] = "running" /\ phase'[j] # "closed"
      /\ UNCHANGED <<estados, yama, told>>
  BY <1>1, <1>2, <1>3, <1>5 DEF TypeOK, Fail, Answers
<1>7. S2 \subseteq tasks[j] /\ t \notin S2
  BY <1>5
<1>8. Reports(Append(q, a)) = Reports(q) \cup {t}
  BY <1>4, ReportsAppend
<1>9. Outstanding(j)' \subseteq Outstanding(j)
  BY <1>2, <1>6, <1>7, <1>8 DEF Outstanding, Reported
<1>10. Once(toYama'[j], tasks'[j])
  <2>1. PICK S : S = tasks[j]
    OBVIOUS
  <2>2. Once(q, S) /\ S2 \subseteq S /\ t \in S
    BY <1>2, <1>7, <2>1 DEF Orderly
  <2>3. Once(Append(q, a), S2)
    BY <1>4, <1>7, <2>2, OnceAppend
  <2>. QED BY <1>6, <2>3
<1>. QED BY <1>6, <1>9, <1>10, MasterOrderly

\* A Master that ends drops its tasks.
LEMMA EndOrderly ==
  ASSUME IInv, NEW j \in Job, Orderly(j), End(j) \/ Kill(j) PROVE Orderly(j)'
<1>1. TypeOK
  BY DEF IInv
<1>2. PICK S2 : S2 = {}
  OBVIOUS
<1>3. /\ phase[j] = "running" /\ phase'[j] = "gone" /\ tasks'[j] = S2
      /\ UNCHANGED <<estados, yama, told, toYama>>
  BY <1>1, <1>2 DEF TypeOK, End, Kill
<1>4. Once(toYama[j], S2)
  <2>1. PICK S : S = tasks[j] /\ Once(toYama[j], S)
    BY DEF Orderly
  <2>2. \A t \in S2 : t \in S \/ t \notin Reports(toYama[j])
    BY <1>2
  <2>. QED BY <2>1, <2>2, OnceMore
<1>5. Outstanding(j)' \subseteq Outstanding(j)
  BY <1>2, <1>3 DEF Outstanding, Reported
<1>. QED BY <1>3, <1>4, <1>5, MasterOrderly
\* A job that is refused has nothing outstanding.
LEMMA RefuseOrderly ==
  ASSUME IInv, NEW j \in Job, Orderly(j), RefuseJob(j) PROVE Orderly(j)'
<1>1. told'[j] /\ UNCHANGED <<tasks, toYama>> /\ phase[j] = "new"
  BY DEF RefuseJob, IInv, TypeOK
<1>2. Outstanding(j) = {}
  BY <1>1 DEF IInv, Sound, Begun
<1>3. Outstanding(j)' = {}
  BY <1>1, <1>2 DEF Outstanding, Reported
<1>. QED BY <1>1, <1>3 DEF Orderly, Ordered, Open, Late

\* A job that YAMA is done with has no order to keep.
LEMMA DisconnectedOrderly ==
  ASSUME IInv, NEW j \in Job, Orderly(j), Disconnected(j) PROVE Orderly(j)'
<1>1. phase'[j] = "closed" /\ UNCHANGED <<tasks, toYama>>
  BY DEF Disconnected, IInv, TypeOK
<1>. QED BY <1>1 DEF Orderly, Ordered, Open

\* A job begins with one transformation for each block.
LEMMA InitOrderly ==
  ASSUME IInv, NEW j \in Job, Orderly(j), InitJob(j) PROVE Orderly(j)'
<1>1. TypeOK
  BY DEF IInv
<1>2. PICK s : s = estados
  OBVIOUS
<1>3. PICK u : u = estados'
  OBVIOUS
<1>4. PICK p \in [Block -> Node] :
        estados' = estados \o Entries(j, Sent(p)) /\ tasks' = [tasks EXCEPT ![j] = Range(Sent(p))]
  BY <1>1, InitJobIs
<1>5. PICK q : q = Sent(p)
  OBVIOUS
<1>6. /\ q \in Seq(Task)
      /\ \A i \in DOMAIN q : q[i].block \in Block
      /\ \A b \in Block : \E i \in DOMAIN q : q[i].block = b
      /\ \A i, k \in DOMAIN q : q[i].block = q[k].block => i = k
  BY <1>5, TasksAre
<1>7. s \in Seq(State) /\ u = s \o Entries(j, q)
  BY <1>1, <1>2, <1>3, <1>4, <1>5 DEF TypeOK
<1>8. u \in Seq(State) /\ Grows(j, s, u) /\ Added(j, s, q, u)
  BY <1>6, <1>7, ConcatGrows
<1>9. OfJob(s, j) = {} /\ Outstanding(j) = {}
  BY <1>2 DEF InitJob, IInv, Sound, Begun
<1>10. /\ Table(u, j) /\ \A n : Waits(s, j, n) => Waits(u, j, n)
       /\ \A i \in DOMAIN q : \E k \in OfJob(u, j) :
            u[k].nodo = q[i].nodo /\ u[k].block = q[i].block /\ u[k].estado = "proceso"
  <2>1. Fits(s, j, q)
    BY <1>6, <1>9 DEF Fits
  <2>2. Takes(s, j, q, u)
    BY <1>6, <1>7, <1>8, <2>1, PutMaps
  <2>. QED BY <2>2 DEF Takes
<1>11. \A n : Waits(s, j, n)
  BY <1>9 DEF Waits, Maps
<1>12. PICK T : T = tasks'[j]
  OBVIOUS
<1>13. \A t \in T : \E i \in DOMAIN q : t = q[i]
  <2>1. T = Range(q)
    BY <1>1, <1>4, <1>5, <1>12 DEF TypeOK
  <2>. QED BY <2>1 DEF Range
<1>14. Reports(toYama[j]) = {} /\ toYama' = toYama
  BY <1>9 DEF Outstanding, Reported, InitJob
<1>15. Outstanding(j)' = T
  BY <1>12, <1>14 DEF Outstanding, Reported
<1>16. Live(u, j, T)
  BY <1>10, <1>13 DEF Live
<1>17. Ordered(j)'
  BY <1>3, <1>10, <1>11, <1>15, <1>16 DEF Ordered, Waiting
<1>18. \A t \in T : t.block \notin {Global, Final}
  BY <1>6, <1>13, BlockIsFinite
<1>19. Late(j)'
  BY <1>15, <1>18 DEF Late
<1>20. Once(toYama'[j], T)
  BY <1>14 DEF Once, Reports
<1>. QED BY <1>12, <1>17, <1>19, <1>20 DEF Orderly
-----------------------------------------------------------------------------
(* Answers that a stage is done.                                           *)

\* What is outstanding are tasks.
LEMMA OutstandingType == ASSUME TypeOK, NEW j \in Job PROVE Outstanding(j) \subseteq Task
<1>1. tasks[j] \subseteq Task /\ toYama[j] \in Seq(Answer)
  BY DEF TypeOK
<1>2. \A i \in DOMAIN toYama[j] : toYama[j][i] \in Answer
  BY <1>1
<1>3. \A a \in Answer : a.task \in Task
  BY DEF Answer
<1>. QED BY <1>1, <1>2, <1>3 DEF Outstanding, Reported, Reports

\* A Master that was told takes no more tasks, the others do.
LEMMA SendsAre ==
  ASSUME TypeOK, NEW j \in Job, NEW S, Sends(j, S)
  PROVE  /\ told[j] => tasks'[j] \subseteq tasks[j]
         /\ ~told[j] => tasks'[j] = tasks[j] \cup S
  BY DEF Sends, TypeOK

\* An answer read, and tasks of the first stages sent, leave nothing of the last.
LEMMA ReadLate ==
  ASSUME IInv, NEW j \in Job, Orderly(j), NEW B, NEW ok, Reads(j, B, ok),
         NEW S, tasks'[j] \subseteq tasks[j] \cup S, S \cap Outstanding(j) = {},
         \A t \in S : t.block \notin {Global, Final}
  PROVE  /\ Once(toYama'[j], tasks'[j]) /\ Late(j)'
         /\ \A t \in Outstanding(j)' : t \in S \/ (t \in Outstanding(j) /\ t # Answered(j))
<1>1. /\ Once(toYama'[j], tasks'[j])
      /\ \A t \in Outstanding(j)' : t \in S \/ (t \in Outstanding(j) /\ t # Answered(j))
  <2>1. Once(toYama[j], tasks[j])
    BY DEF Orderly
  <2>. QED BY <2>1, ReadLeaves
<1>2. Answered(j) \in Outstanding(j) /\ yama = "running" /\ phase[j] # "closed"
  BY ReadsIs
<1>3. Late(j)
  BY <1>2 DEF Orderly
<1>4. \A t \in Outstanding(j)' : t.block \notin {Global, Final}
  BY <1>1, <1>2, <1>3 DEF Late
<1>. QED BY <1>1, <1>4 DEF Late

\* v is s with the entry of task t, which was in process, done.
Updated(s, v, j, t, k, T) ==
  /\ k \in OfJob(s, j) /\ s[k].nodo = t.nodo /\ s[k].block = t.block /\ s[k].estado = "proceso"
  /\ Marks(s, v, k, "ok") /\ OfJob(v, j) = OfJob(s, j) /\ Maps(v, j) = Maps(s, j)
  /\ Table(s, j) /\ Table(v, j) /\ Live(s, j, T) /\ Live(v, j, T \ {t}) /\ Waiting(s, j)
  /\ \A n \in Node : n # t.nodo \/ t.block \notin Block \cup {Local} => Waits(v, j, n)

\* The answer of a Master that was not told finds such an entry.
LEMMA ReadUpdates ==
  ASSUME IInv, NEW j \in Job, Orderly(j), NEW B, NEW ok, Reads(j, B, ok), ~told[j],
         NEW s, s = estados, NEW t, t = Answered(j), NEW T, T = Outstanding(j),
         NEW v, v = Update(s, j, t, "ok")
  PROVE  \E k \in OfJob(s, j) : Updated(s, v, j, t, k, T)
<1>1. TypeOK
  BY DEF IInv
<1>2. t \in Task /\ t \in T /\ T \subseteq Task
  BY <1>1, ReadsIs, OutstandingType
<1>3. Open(j) /\ yama = "running"
  <2>1. phase[j] \notin {"new", "closed"} /\ yama = "running"
    BY ReadsIs
  <2>. QED BY <1>1, <2>1 DEF Open, TypeOK
<1>4. Table(s, j) /\ Live(s, j, T) /\ Waiting(s, j)
  BY <1>3 DEF Orderly, Ordered
<1>5. PICK k \in OfJob(s, j) :
        s[k].nodo = t.nodo /\ s[k].block = t.block /\ s[k].estado = "proceso"
  BY <1>2, <1>4 DEF Live
<1>6. s \in Seq(State)
  BY <1>1 DEF TypeOK
<1>7. Marks(s, v, k, "ok")
  BY <1>4, <1>5, <1>6, UpdateMarks DEF Table
<1>8. /\ Table(v, j) /\ Maps(v, j) = Maps(s, j) /\ OfJob(v, j) = OfJob(s, j)
      /\ \A n : s[k].nodo # n \/ s[k].block \notin Block \cup {Local}
           => (Waits(s, j, n) => Waits(v, j, n))
  BY <1>4, <1>5, <1>7, MarkOk
<1>9. Live(v, j, T \ {t})
  <2>1. \A x \in T \ {t} : x.nodo # s[k].nodo \/ x.block # s[k].block
    BY <1>2, <1>5 DEF Task
  <2>2. Live(s, j, T \ {t})
    BY <1>4 DEF Live
  <2>. QED BY <1>5, <1>7, <2>1, <2>2, MarkLive
<1>. QED BY <1>4, <1>5, <1>7, <1>8, <1>9 DEF Updated, Waiting
\* A transformation in process shows that nothing after its stage is there.
LEMMA Mapping ==
  ASSUME NEW s \in Seq(State), NEW j, Table(s, j), NEW k \in OfJob(s, j), s[k].block \in Block,
         s[k].estado = "proceso"
  PROVE  /\ k \in Maps(s, j)
         /\ \A i \in OfJob(s, j) : s[i].block \in Block \cup {Local}
         /\ \A i \in OfJob(s, j) : s[i].block = Local => s[i].nodo # s[k].nodo
<1>1. k \in Maps(s, j)
  BY DEF Maps
<1>2. ASSUME NEW i \in OfJob(s, j) PROVE s[i].block \in Block \cup {Local}
  <2>1. s[i] \in State
    BY DEF OfJob
  <2>2. s[i].block \in Stages
    BY <2>1 DEF State
  <2>3. s[i].block \notin {Global, Final}
    BY DEF Table, Closing, Begins
  <2>. QED BY <2>2, <2>3 DEF Stages
<1>3. ASSUME NEW i \in OfJob(s, j), s[i].block = Local PROVE s[i].nodo # s[k].nodo
  BY <1>1, <1>3 DEF Table, Reducing
<1>. QED BY <1>1, <1>2, <1>3

\* BuscoArchivosTemporales finds the blocks of the node that count.
LEMMA TemporalsAre ==
  ASSUME NEW v, NEW j, NEW n, OneEach(v, j), NodeDone(v, j, n),
         \A i \in OfJob(v, j) : v[i].block \in Block \cup {Local},
         \A i \in OfJob(v, j) : v[i].block = Local => v[i].nodo # n
  PROVE  /\ Temporals(v, j, n) = BlocksAt(v, j, n)
         /\ \A i \in Maps(v, j) : v[i].nodo = n => v[i].estado = "ok"
<1>1. \A i \in Maps(v, j) : v[i].nodo = n => v[i].estado = "ok"
  BY DEF NodeDone, AllOk, Valid, OfNode, Maps
<1>2. \A i \in OfNode(v, j, n) : v[i].estado = "ok" => i \in Maps(v, j) /\ v[i].files = {v[i].block}
  BY DEF OfNode, OneEach, Maps
<1>3. \A i \in Maps(v, j) : v[i].nodo = n => i \in OfNode(v, j, n)
  BY DEF Maps, OfNode
<1>4. \A x : x \in Temporals(v, j, n) <=>
        \E i \in OfNode(v, j, n) : v[i].estado = "ok" /\ x \in v[i].files
  BY DEF Temporals
<1>5. \A x : x \in BlocksAt(v, j, n) <=> \E i \in Maps(v, j) : v[i].nodo = n /\ x = v[i].block
  BY DEF BlocksAt
<1>6. ASSUME NEW x \in Temporals(v, j, n) PROVE x \in BlocksAt(v, j, n)
  <2>1. PICK i \in OfNode(v, j, n) : v[i].estado = "ok" /\ x \in v[i].files
    BY <1>4
  <2>2. i \in Maps(v, j) /\ x = v[i].block /\ v[i].nodo = n
    BY <1>2, <2>1 DEF OfNode
  <2>. QED BY <1>5, <2>2
<1>7. ASSUME NEW x \in BlocksAt(v, j, n) PROVE x \in Temporals(v, j, n)
  <2>1. PICK i \in Maps(v, j) : v[i].nodo = n /\ x = v[i].block
    BY <1>5
  <2>2. i \in OfNode(v, j, n) /\ v[i].estado = "ok" /\ v[i].files = {x}
    BY <1>1, <1>2, <1>3, <2>1
  <2>. QED BY <1>4, <2>2
<1>. QED BY <1>1, <1>6, <1>7

\* A node that is done with its blocks reduces them; else it has more to do.
LEMMA TransformOkOrderly ==
  ASSUME IInv, NEW j \in Job, Orderly(j), TransformOk(j) PROVE Orderly(j)'
<1>1. TypeOK
  BY DEF IInv
<1>2. PICK s : s = estados
  OBVIOUS
<1>3. PICK t : t = Answered(j)
  OBVIOUS
<1>4. PICK T : T = Outstanding(j)
  OBVIOUS
<1>5. PICK v : v = Update(s, j, t, "ok")
  OBVIOUS
<1>6. PICK n : n = t.nodo
  OBVIOUS
<1>7. PICK e : e = Entry(j, n, Local, Temporals(v, j, n))
  OBVIOUS
<1>8. PICK u : u = estados'
  OBVIOUS
<1>9. /\ Reads(j, Block, TRUE) /\ UNCHANGED <<phase, told>>
      /\ \/ /\ NodeDone(v, j, n) /\ u = Append(v, e)
            /\ Sends(j, {[nodo |-> n, block |-> Local]})
         \/ yama' = "crashed" /\ u = v /\ UNCHANGED tasks
         \/ ~NodeDone(v, j, n) /\ u = v /\ UNCHANGED tasks
  BY <1>2, <1>3, <1>5, <1>6, <1>7, <1>8 DEF TransformOk
<1>10. CASE told[j]
  <2>1. tasks'[j] \subseteq tasks[j]
    BY <1>1, <1>9, <1>10, SendsAre
  <2>. QED BY <1>9, <1>10, <2>1, ReadTold
<1>11. CASE ~told[j]
  <2>1. PICK k \in OfJob(s, j) : Updated(s, v, j, t, k, T)
    BY <1>2, <1>3, <1>4, <1>5, <1>9, <1>11, ReadUpdates
  <2>2. s \in Seq(State) /\ v \in Seq(State)
    BY <1>1, <1>2, <1>5, UpdateGrows DEF TypeOK
  <2>3. t \in Task /\ t \in T /\ t.block \in Block /\ n \in Node
    BY <1>3, <1>4, <1>6, <1>9, ReadsIs DEF Task
  <2>4. /\ k \in Maps(s, j)
        /\ \A i \in OfJob(s, j) : s[i].block \in Block \cup {Local}
        /\ \A i \in OfJob(s, j) : s[i].block = Local => s[i].nodo # n
    BY <1>6, <2>1, <2>2, <2>3, Mapping DEF Updated
  <2>5. /\ \A i \in OfJob(v, j) : v[i].block \in Block \cup {Local}
        /\ \A i \in OfJob(v, j) : v[i].block = Local => v[i].nodo # n
    BY <2>1, <2>4 DEF Updated, Marks, OfJob
  <2>6. /\ Table(v, j) /\ Live(v, j, T \ {t})
        /\ \A m \in Node : m # n => Waits(v, j, m)
    BY <1>6, <2>1 DEF Updated
  <2>7. CASE UNCHANGED tasks /\ u = v /\ (yama' = "crashed" \/ ~NodeDone(v, j, n))
    <3>1. PICK S : S = {}
      OBVIOUS
    <3>2. tasks'[j] \subseteq tasks[j] \cup S /\ S \cap Outstanding(j) = {}
          /\ \A x \in S : x.block \notin {Global, Final}
      BY <2>7, <3>1
    <3>3. /\ Once(toYama'[j], tasks'[j]) /\ Late(j)'
          /\ \A x \in Outstanding(j)' : x \in S \/ (x \in Outstanding(j) /\ x # Answered(j))
      BY <1>9, <3>2, ReadLate
    <3>4. PICK U : U = Outstanding(j)'
      OBVIOUS
    <3>5. U \subseteq T \ {t}
      BY <1>3, <1>4, <3>1, <3>3, <3>4
    <3>6. Live(v, j, U)
      BY <2>6, <3>5 DEF Live
    <3>7. yama' = "running" => Waiting(v, j)
      <4>. SUFFICES ASSUME ~NodeDone(v, j, n) PROVE Waits(v, j, n)
        BY <2>6, <2>7 DEF Waiting
      <4>1. PICK i \in OfNode(v, j, n) : v[i].estado = "proceso"
        <5>1. OfNode(v, j, n) \subseteq DOMAIN v
          BY DEF OfNode, OfJob
        <5>. QED BY <2>2, <5>1, NotDone DEF NodeDone
      <4>2. i \in OfJob(v, j) /\ v[i].nodo = n /\ Unfinished(v, i)
        BY <2>5, <4>1 DEF OfNode, Unfinished
      <4>. QED BY <4>2 DEF Waits
    <3>. QED BY <1>8, <2>6, <2>7, <3>3, <3>4, <3>6, <3>7 DEF Orderly, Ordered
  <2>8. CASE /\ NodeDone(v, j, n) /\ u = Append(v, e)
             /\ Sends(j, {[nodo |-> n, block |-> Local]})
    <3>1. PICK S : S = {[nodo |-> n, block |-> Local]}
      OBVIOUS
    <3>2. tasks'[j] \subseteq tasks[j] \cup S /\ \A x \in S : x.nodo = n /\ x.block = Local
      BY <1>1, <1>11, <2>8, <3>1, SendsAre
    <3>3. S \cap Outstanding(j) = {}
      <4>1. SUFFICES ASSUME NEW x \in S, x \in T PROVE FALSE
        BY <1>4
      <4>2. PICK i \in OfJob(s, j) : s[i].nodo = x.nodo /\ s[i].block = x.block
        BY <2>1, <4>1 DEF Updated, Live
      <4>. QED BY <2>4, <3>2, <4>2
    <3>4. \A x \in S : x.block \notin {Global, Final}
      BY <3>2 DEF Local, Global, Final
    <3>5. /\ Once(toYama'[j], tasks'[j]) /\ Late(j)'
          /\ \A x \in Outstanding(j)' : x \in S \/ (x \in Outstanding(j) /\ x # Answered(j))
      BY <1>9, <3>2, <3>3, <3>4, ReadLate
    <3>6. PICK U : U = Outstanding(j)'
      OBVIOUS
    <3>7. \A x \in U : x \in T \ {t} \/ (x.nodo = e.nodo /\ x.block = e.block)
      BY <1>3, <1>4, <1>7, <3>2, <3>5, <3>6 DEF Entry
    <3>8. OneEach(v, j)
      BY <2>6 DEF Table
    <3>9. /\ Temporals(v, j, n) = BlocksAt(v, j, n)
          /\ \A i \in Maps(v, j) : v[i].nodo = n => v[i].estado = "ok"
      BY <2>5, <2>8, <3>8, TemporalsAre
    <3>10. /\ e \in State /\ e.job = j /\ e.nodo = n /\ e.block = Local /\ e.estado = "proceso"
           /\ e.files = BlocksAt(v, j, n)
      <4>1. Local \in Stages
        BY DEF Stages
      <4>2. e.files = Temporals(v, j, n)
        BY <1>7 DEF Entry
      <4>. QED BY <1>7, <2>2, <2>3, <3>9, <4>1, <4>2, EntryType, TemporalsType
    <3>11. PICK x : x = Len(v) + 1
      OBVIOUS
    <3>12. Puts(v, u, x, e)
      BY <2>2, <2>8, <3>10, <3>11, AppendPuts
    <3>13. \A i \in OfJob(v, j) : v[i].block \notin {Global, Final}
      BY <2>5, BlockIsFinite DEF Local, Global, Final
    <3>14. Table(u, j) /\ Waits(u, j, n) /\ \A m : Waits(v, j, m) => Waits(u, j, m)
      BY <2>5, <2>6, <3>9, <3>10, <3>12, <3>13, PutLocal
    <3>15. Live(u, j, U)
      BY <2>6, <3>7, <3>10, <3>12, PutLive
    <3>16. Waiting(u, j)
      BY <2>6, <3>14 DEF Waiting
    <3>. QED BY <1>8, <3>5, <3>6, <3>14, <3>15, <3>16 DEF Orderly, Ordered
  <2>. QED BY <1>9, <2>7, <2>8
<1>. QED BY <1>10, <1>11
-----------------------------------------------------------------------------
(* A replanning.                                                           *)

\* s is the table r with the entries of node n in error.
Errs(r, s, j, n) ==
  /\ OfJob(s, j) = OfJob(r, j)
  /\ \A k \in OfJob(r, j) :
       /\ s[k].nodo = r[k].nodo /\ s[k].block = r[k].block /\ s[k].files = r[k].files
       /\ r[k].nodo # n => s[k] = r[k]
       /\ r[k].nodo = n => s[k].estado = "error"

\* While nothing else failed, the node that did has all its entries put in error.
LEMMA InErrorErrs ==
  ASSUME TypeOK, NEW j \in Job, NEW n, Pristine(j), OneEach(estados, j),
         NEW r, r = estados, NEW s, s = InError(j, n)
  PROVE  Errs(r, s, j, n)
<1>1. Lost(j, n) = OfNode(r, j, n)
  BY DEF Lost, Pristine, OfNode
<1>2. \A k \in OfJob(r, j) : k \in Maps(r, j)
  BY DEF Pristine, Maps
<1>3. \A k, i \in OfJob(r, j) : r[k].block = r[i].block => k = i
  BY <1>2 DEF OneEach
<1>4. r \in Seq(State) /\ DOMAIN r = 1 .. Len(r) /\ Len(r) \in Nat
  BY DEF TypeOK
<1>5. \A k \in Lost(j, n) : \A i \in Lost(j, n) : r[i].block = r[k].block => k <= i
  <2>. TAKE k \in Lost(j, n)
  <2>. TAKE i \in Lost(j, n)
  <2>. HAVE r[i].block = r[k].block
  <2>1. i = k
    BY <1>1, <1>3 DEF OfNode
  <2>2. k \in Int
    BY <1>1, <1>4 DEF OfNode, OfJob
  <2>. QED BY <2>1, <2>2
<1>6. /\ DOMAIN s = DOMAIN r
      /\ \A k \in DOMAIN r : s[k] = IF k \in Lost(j, n) THEN [r[k] EXCEPT !.estado = "error"]
                                    ELSE r[k]
  BY <1>5 DEF InError
<1>7. \A k \in DOMAIN r : /\ s[k].job = r[k].job
                          /\ s[k].nodo = r[k].nodo /\ s[k].block = r[k].block
                          /\ s[k].files = r[k].files
                          /\ k \notin Lost(j, n) => s[k] = r[k]
                          /\ k \in Lost(j, n) => s[k].estado = "error"
  <2>. TAKE k \in DOMAIN r
  <2>1. r[k] \in State
    BY <1>4
  <2>. QED BY <1>6, <2>1 DEF State
<1>8. OfJob(s, j) = OfJob(r, j)
  BY <1>6, <1>7 DEF OfJob
<1>9. \A k \in OfJob(r, j) : k \in DOMAIN r /\ (k \in Lost(j, n) <=> r[k].nodo = n)
  BY <1>1 DEF OfNode, OfJob
<1>. QED BY <1>7, <1>8, <1>9 DEF Errs

\* The others' blocks still count, and the new tasks are of the blocks that do not.
LEMMA ErrsFit ==
  ASSUME NEW r, NEW s, NEW j, NEW n, Errs(r, s, j, n), OneEach(r, j),
         \A k \in OfJob(r, j) : k \in Maps(r, j), NEW q,
         \A i \in DOMAIN q : /\ q[i].nodo # n
                             /\ \E k \in OfJob(r, j) : r[k].nodo = n /\ q[i].block = r[k].block,
         \A k \in OfJob(r, j) : r[k].nodo = n => \E i \in DOMAIN q : q[i].block = r[k].block,
         \A i, h \in DOMAIN q : q[i].block = q[h].block => i = h
  PROVE  Fits(s, j, q)
<1>1. \A k, i \in OfJob(r, j) : r[k].block = r[i].block => k = i
  BY DEF OneEach
<1>2. \A k \in OfJob(s, j) : s[k].block \in Block /\ s[k].files = {s[k].block}
  BY DEF Errs, OneEach, Maps
<1>3. \A k, i \in OfJob(s, j) : s[k].block = s[i].block => k = i
  BY <1>1 DEF Errs
<1>4. \A i \in DOMAIN q : q[i].block \in Block
  BY DEF Maps
<1>5. ASSUME NEW b \in Block
      PROVE  \/ \E k \in Maps(s, j) : s[k].block = b
             \/ \E i \in DOMAIN q : q[i].block = b
  <2>1. PICK k \in Maps(r, j) : r[k].block = b
    BY DEF OneEach
  <2>2. k \in OfJob(r, j)
    BY DEF Maps
  <2>3. CASE r[k].nodo = n
    BY <2>1, <2>2, <2>3
  <2>4. CASE r[k].nodo # n
    <3>1. s[k] = r[k] /\ k \in OfJob(s, j)
      BY <2>2, <2>4 DEF Errs
    <3>. QED BY <2>1, <3>1 DEF Maps
  <2>. QED BY <2>3, <2>4
<1>6. ASSUME NEW i \in DOMAIN q, NEW k \in OfJob(s, j), s[k].block = q[i].block
      PROVE  s[k].estado = "error" /\ s[k].nodo # q[i].nodo
  <2>1. PICK h \in OfJob(r, j) : r[h].nodo = n /\ q[i].block = r[h].block
    OBVIOUS
  <2>2. k \in OfJob(r, j) /\ r[k].block = r[h].block
    BY <1>6, <2>1 DEF Errs
  <2>3. k = h
    BY <1>1, <2>2
  <2>. QED BY <2>1, <2>2, <2>3 DEF Errs
<1>. QED BY <1>2, <1>3, <1>4, <1>5, <1>6 DEF Fits

\* What other nodes have in process they keep.
LEMMA ErrsKeep ==
  ASSUME NEW r, NEW s, NEW j, NEW n, Errs(r, s, j, n)
  PROVE  /\ \A m : Waits(r, j, m) => Waits(s, j, m)
         /\ \A T : Live(r, j, T) /\ (\A t \in T : t.nodo # n) => Live(s, j, T)
<1>1. ASSUME NEW m, Waits(r, j, m), NEW k \in Maps(s, j), s[k].nodo = m, s[k].estado = "ok"
      PROVE  \E i \in OfJob(s, j) : s[i].nodo = m /\ Unfinished(s, i)
  <2>1. k \in OfJob(r, j) /\ r[k].nodo = m /\ m # n /\ s[k] = r[k]
    BY <1>1 DEF Errs, Maps
  <2>2. k \in Maps(r, j) /\ r[k].estado = "ok"
    BY <1>1, <2>1 DEF Maps
  <2>3. PICK i \in OfJob(r, j) : r[i].nodo = m /\ Unfinished(r, i)
    BY <1>1, <2>1, <2>2 DEF Waits
  <2>4. i \in OfJob(s, j) /\ s[i] = r[i]
    BY <2>1, <2>3 DEF Errs
  <2>. QED BY <2>3, <2>4 DEF Unfinished
<1>2. ASSUME NEW T, Live(r, j, T), \A t \in T : t.nodo # n, NEW t \in T
      PROVE  \E k \in OfJob(s, j) : s[k].nodo = t.nodo /\ s[k].block = t.block /\ s[k].estado = "proceso"
  BY <1>2 DEF Live, Errs
<1>. QED BY <1>1, <1>2 DEF Waits, Live
\* Each block of the node that failed is transformed again, elsewhere, or the
\* job is aborted.
LEMMA TransformFailedOrderly ==
  ASSUME IInv, NEW j \in Job, Orderly(j), Reporting(j), TransformFailed(j) PROVE Orderly(j)'
<1>1. TypeOK
  BY DEF IInv
<1>2. PICK n : n = Answered(j).nodo
  OBVIOUS
<1>3. PICK lost : lost = Lost(j, n)
  OBVIOUS
<1>4. PICK to : to = Target(lost, n)
  OBVIOUS
<1>5. PICK q : q = Again(lost, to)
  OBVIOUS
<1>6. /\ Reads(j, Block, FALSE) /\ UNCHANGED phase
      /\ \/ Abort(j, estados) /\ UNCHANGED tasks
         \/ /\ \A k \in lost : Mirror(estados[k].block, n) # {}
            /\ estados' = InError(j, n) \o Entries(j, q)
            /\ Sends(j, Range(q)) /\ UNCHANGED told
  BY <1>2, <1>3, <1>4, <1>5, TransformFailedIs
<1>7. CASE Abort(j, estados) /\ UNCHANGED tasks
  <2>1. told'[j]
    BY <1>1, <1>7 DEF Abort, TypeOK
  <2>. QED BY <1>6, <1>7, <2>1, ReadTold
<1>8. CASE told[j] /\ Sends(j, Range(q)) /\ UNCHANGED told
  <2>1. tasks'[j] \subseteq tasks[j]
    BY <1>1, <1>8, SendsAre
  <2>. QED BY <1>6, <1>8, <2>1, ReadTold
<1>9. CASE /\ ~told[j] /\ \A k \in lost : Mirror(estados[k].block, n) # {}
           /\ estados' = InError(j, n) \o Entries(j, q)
           /\ Sends(j, Range(q)) /\ UNCHANGED told
  <2>1. PICK r : r = estados
    OBVIOUS
  <2>2. PICK s : s = InError(j, n)
    OBVIOUS
  <2>3. PICK u : u = estados'
    OBVIOUS
  <2>4. PICK T : T = Outstanding(j)
    OBVIOUS
  <2>5. Pristine(j) /\ \A t \in tasks[j] \cup Reported(j)' : t.nodo # n
    BY <1>2, <1>6, NothingMore
  <2>6. Table(r, j) /\ Live(r, j, T) /\ Waiting(r, j)
    <3>1. phase[j] \notin {"new", "closed"} /\ yama = "running"
      BY <1>6, ReadsIs
    <3>2. Open(j)
      BY <1>1, <1>9, <3>1 DEF Open, TypeOK
    <3>. QED BY <2>1, <2>4, <3>1, <3>2 DEF Orderly, Ordered
  <2>7. OneEach(r, j) /\ \A k \in OfJob(r, j) : k \in Maps(r, j)
    BY <2>1, <2>5, <2>6 DEF Table, Pristine, Maps
  <2>8. Errs(r, s, j, n)
    BY <1>1, <2>1, <2>2, <2>5, <2>7, InErrorErrs
  <2>9. lost = OfNode(r, j, n)
    BY <1>3, <2>1, <2>5 DEF Lost, Pristine, OfNode
  <2>10. \A k \in lost : to[r[k].block] \in Node \ {n}
    BY <1>1, <1>4, <1>9, <2>1, TargetIs
  <2>11. /\ q \in Seq(Task)
         /\ \A i \in DOMAIN q : /\ InOrder(lost)[i] \in lost
                                /\ q[i].block = r[InOrder(lost)[i]].block
                                /\ q[i].nodo = to[q[i].block]
         /\ \A k \in lost : \E i \in DOMAIN q : InOrder(lost)[i] = k
         /\ \A i, h \in DOMAIN q : InOrder(lost)[i] = InOrder(lost)[h] => i = h
    <3>1. \A k \in lost : to[estados[k].block] \in Node
      BY <2>1, <2>10
    <3>. QED BY <1>1, <1>3, <1>5, <2>1, <3>1, AgainIs
  <2>12. \A i \in DOMAIN q : /\ q[i].nodo # n
                             /\ \E k \in OfJob(r, j) : r[k].nodo = n /\ q[i].block = r[k].block
    <3>. TAKE i \in DOMAIN q
    <3>1. PICK k \in lost : k = InOrder(lost)[i] /\ q[i].block = r[k].block
      BY <2>11
    <3>2. q[i].nodo # n
      BY <2>10, <2>11, <3>1
    <3>. QED BY <2>9, <3>1, <3>2 DEF OfNode
  <2>13. \A k \in OfJob(r, j) : r[k].nodo = n => \E i \in DOMAIN q : q[i].block = r[k].block
    <3>. TAKE k \in OfJob(r, j)
    <3>. HAVE r[k].nodo = n
    <3>1. k \in lost
      BY <2>9 DEF OfNode
    <3>. QED BY <2>11, <3>1
  <2>14. \A i, h \in DOMAIN q : q[i].block = q[h].block => i = h
    <3>1. \A k, i \in lost : r[k].block = r[i].block => k = i
      BY <2>7, <2>9 DEF OneEach, OfNode
    <3>. QED BY <2>11, <3>1
  <2>15. Fits(s, j, q)
    BY <2>7, <2>8, <2>12, <2>13, <2>14, ErrsFit
  <2>16. s \in Seq(State) /\ u \in Seq(State) /\ Grows(j, s, u) /\ Added(j, s, q, u)
    <3>1. s \in Seq(State)
      BY <1>1, <2>2, InErrorIs
    <3>2. \A i \in DOMAIN q : q[i].block \in Block
      BY <2>15 DEF Fits
    <3>3. u = s \o Entries(j, q)
      BY <1>9, <2>2, <2>3
    <3>. HIDE DEF State, Task
    <3>4. u \in Seq(State) /\ Grows(j, s, u) /\ Added(j, s, q, u)
      BY <2>11, <3>1, <3>2, <3>3, ConcatGrows
    <3>. QED BY <3>1, <3>4
  <2>17. Takes(s, j, q, u)
    BY <2>11, <2>15, <2>16, PutMaps
  <2>18. PICK S : S = Range(q)
    OBVIOUS
  <2>19. \A x \in S : \E i \in DOMAIN q : x = q[i]
    BY <2>18 DEF Range
  <2>20. tasks'[j] = tasks[j] \cup S
    BY <1>1, <1>9, <2>18, SendsAre
  <2>21. S \cap Outstanding(j) = {}
    <3>1. SUFFICES ASSUME NEW x \in S, x \in T PROVE FALSE
      BY <2>4
    <3>2. PICK k \in OfJob(r, j) : r[k].nodo = x.nodo /\ r[k].block = x.block
      BY <2>6, <3>1 DEF Live
    <3>3. PICK i \in DOMAIN q : x = q[i]
      BY <2>19
    <3>4. PICK h \in OfJob(r, j) : r[h].nodo = n /\ x.block = r[h].block /\ x.nodo # n
      BY <2>12, <3>3
    <3>5. k = h
      BY <2>7, <3>2, <3>4 DEF OneEach
    <3>. QED BY <3>2, <3>4, <3>5
  <2>22. \A x \in S : x.block \notin {Global, Final}
    BY <2>15, <2>19, BlockIsFinite DEF Fits
  <2>23. /\ Once(toYama'[j], tasks'[j]) /\ Late(j)'
         /\ \A x \in Outstanding(j)' : x \in S \/ (x \in Outstanding(j) /\ x # Answered(j))
    BY <1>6, <2>20, <2>21, <2>22, ReadLate
  <2>24. PICK U : U = Outstanding(j)'
    OBVIOUS
  <2>25. Live(u, j, U)
    <3>1. PICK T2 : T2 = {x \in T : x.nodo # n}
      OBVIOUS
    <3>2. Live(r, j, T2) /\ \A x \in T2 : x.nodo # n
      BY <2>6, <3>1 DEF Live
    <3>3. Live(s, j, T2)
      BY <2>8, <3>2, ErrsKeep
    <3>4. Live(u, j, T2)
      BY <2>17, <3>3 DEF Takes
    <3>5. \A x \in U : x \in S \/ x \in T2
      <4>1. \A x \in U : x \in S \/ x.nodo # n
        BY <2>5, <2>20, <2>24 DEF Outstanding
      <4>2. \A x \in U : x \in S \/ x \in T
        BY <2>4, <2>23, <2>24
      <4>. QED BY <3>1, <4>1, <4>2
    <3>6. \A x \in S : \E k \in OfJob(u, j) :
            u[k].nodo = x.nodo /\ u[k].block = x.block /\ u[k].estado = "proceso"
      BY <2>17, <2>19 DEF Takes
    <3>. QED BY <3>4, <3>5, <3>6 DEF Live
  <2>26. Waiting(u, j)
    <3>1. \A m \in Node : Waits(s, j, m)
      BY <2>6, <2>8, ErrsKeep DEF Waiting
    <3>. QED BY <2>17, <3>1 DEF Takes, Waiting
  <2>. QED BY <2>3, <2>17, <2>23, <2>24, <2>25, <2>26 DEF Orderly, Ordered, Takes
<1>. QED BY <1>6, <1>7, <1>8, <1>9
-----------------------------------------------------------------------------
(* The reductions.                                                         *)

\* A local reduction in process shows that the job is not reduced yet.
LEMMA LocalFirst ==
  ASSUME NEW s \in Seq(State), NEW j, Table(s, j), NEW k \in OfJob(s, j), s[k].block = Local,
         s[k].estado = "proceso"
  PROVE  \A i \in OfJob(s, j) : s[i].block \in Block \cup {Local}
<1>. TAKE i \in OfJob(s, j)
<1>1. s[i] \in State
  BY DEF OfJob
<1>2. s[i].block \in Stages
  BY <1>1 DEF State
<1>3. s[i].block \notin {Global, Final}
  BY DEF Table, Closing, Begins
<1>. QED BY <1>2, <1>3 DEF Stages

\* verificoFinalizacionRl finds nothing in process.
LEMMA LocalsDoneIs ==
  ASSUME NEW v, NEW j, LocalsDone(v, j), \A i \in OfJob(v, j) : v[i].block \in Block \cup {Local}
  PROVE  \A i \in OfJob(v, j) : v[i].estado # "proceso"
<1>. SUFFICES ASSUME NEW i \in OfJob(v, j), v[i].estado = "proceso" PROVE FALSE
  OBVIOUS
<1>1. v[i].block >= Local
  <2>1. Block \subseteq Nat
    BY BlockIsFinite
  <2>2. \A b \in Block \cup {-1} : b >= -1
    BY <2>1
  <2>. QED BY <2>2 DEF Local
<1>2. i \in Valid(v, {k \in OfJob(v, j) : v[k].block >= Local})
  BY <1>1 DEF Valid
<1>. QED BY <1>2 DEF LocalsDone, AllOk

\* Then the local reductions have the results of all the blocks.
LEMMA AllReduced ==
  ASSUME NEW v \in Seq(State), NEW j, Table(v, j), Waiting(v, j),
         \A i \in OfJob(v, j) : v[i].estado # "proceso"
  PROVE  UNION {v[k].files : k \in Reducers(v, j)} = Block
<1>1. ASSUME NEW b \in Block PROVE \E k \in Reducers(v, j) : b \in v[k].files
  <2>1. PICK i \in Maps(v, j) : v[i].block = b
    BY DEF Table, OneEach
  <2>2. v[i] \in State /\ i \in OfJob(v, j)
    BY DEF Maps, OfJob
  <2>3. v[i].nodo \in Node /\ v[i].estado = "ok"
    BY <2>2 DEF State, Maps
  <2>4. PICK h \in OfJob(v, j) : v[h].nodo = v[i].nodo /\ Unfinished(v, h)
    BY <2>3 DEF Waiting, Waits
  <2>5. v[h].block = Local
    BY <2>4 DEF Unfinished
  <2>6. b \in BlocksAt(v, j, v[h].nodo)
    BY <2>1, <2>4 DEF BlocksAt
  <2>. QED BY <2>5, <2>6 DEF Reducers, Table, Reducing
<1>2. ASSUME NEW k \in Reducers(v, j) PROVE v[k].files \subseteq Block
  <2>1. v[k] \in State
    BY DEF Reducers, OfJob
  <2>. QED BY <2>1 DEF State
<1>3. PICK F : F = UNION {v[k].files : k \in Reducers(v, j)}
  OBVIOUS
<1>4. \A x : x \in F <=> \E k \in Reducers(v, j) : x \in v[k].files
  BY <1>3
<1>5. F \subseteq Block /\ Block \subseteq F
  BY <1>1, <1>2, <1>4
<1>. QED BY <1>3, <1>5

\* The job's global reduction has all blocks, when its local ones are done.
LEMMA LocalOkOrderly ==
  ASSUME IInv, NEW j \in Job, Orderly(j), LocalOk(j) PROVE Orderly(j)'
<1>1. TypeOK
  BY DEF IInv
<1>2. PICK s : s = estados
  OBVIOUS
<1>3. PICK t : t = Answered(j)
  OBVIOUS
<1>4. PICK T : T = Outstanding(j)
  OBVIOUS
<1>5. PICK v : v = Update(s, j, t, "ok")
  OBVIOUS
<1>6. PICK chief : chief = Chief(v, j)
  OBVIOUS
<1>7. PICK F : F = UNION {v[k].files : k \in Reducers(v, j)}
  OBVIOUS
<1>8. PICK e : e = Entry(j, chief, Global, F)
  OBVIOUS
<1>9. PICK u : u = estados'
  OBVIOUS
<1>10. /\ Reads(j, {Local}, TRUE) /\ UNCHANGED <<phase, told>>
       /\ \/ /\ LocalsDone(v, j) /\ u = Append(v, e)
             /\ Sends(j, {[nodo |-> chief, block |-> Global]})
          \/ u = v /\ UNCHANGED tasks
  BY <1>2, <1>3, <1>5, <1>6, <1>7, <1>8, <1>9 DEF LocalOk
<1>11. CASE told[j]
  <2>1. tasks'[j] \subseteq tasks[j]
    BY <1>1, <1>10, <1>11, SendsAre
  <2>. QED BY <1>10, <1>11, <2>1, ReadTold
<1>12. CASE ~told[j]
  <2>1. PICK k \in OfJob(s, j) : Updated(s, v, j, t, k, T)
    BY <1>2, <1>3, <1>4, <1>5, <1>10, <1>12, ReadUpdates
  <2>2. s \in Seq(State) /\ v \in Seq(State)
    BY <1>1, <1>2, <1>5, UpdateGrows DEF TypeOK
  <2>3. t \in Task /\ t \in T /\ t.block = Local
    <3>1. PICK B : B = {Local}
      OBVIOUS
    <3>2. Reads(j, B, TRUE)
      BY <1>10, <3>1
    <3>3. Answered(j) \in Task /\ Answered(j) \in Outstanding(j) /\ Answered(j).block \in B
      BY <3>2, ReadsIs
    <3>. QED BY <1>3, <1>4, <3>1, <3>3
  <2>4. \A i \in OfJob(s, j) : s[i].block \in Block \cup {Local}
    BY <2>1, <2>2, <2>3, LocalFirst DEF Updated
  <2>5. \A i \in OfJob(v, j) : v[i].block \in Block \cup {Local}
    BY <2>1, <2>4 DEF Updated, Marks, OfJob
  <2>6. Table(v, j) /\ Live(v, j, T \ {t}) /\ k \in OfJob(v, j) /\ v[k].block = Local
        /\ v[k].nodo = t.nodo
    BY <2>1, <2>3 DEF Updated, Marks
  <2>7. Waiting(v, j)
    <3>1. Waits(v, j, t.nodo)
      BY <2>6 DEF Waits, Unfinished
    <3>. QED BY <2>1, <3>1 DEF Updated, Waiting
  <2>8. CASE u = v /\ UNCHANGED tasks
    <3>1. PICK S : S = {}
      OBVIOUS
    <3>2. tasks'[j] \subseteq tasks[j] \cup S /\ S \cap Outstanding(j) = {}
          /\ \A x \in S : x.block \notin {Global, Final}
      BY <2>8, <3>1
    <3>3. /\ Once(toYama'[j], tasks'[j]) /\ Late(j)'
          /\ \A x \in Outstanding(j)' : x \in S \/ (x \in Outstanding(j) /\ x # Answered(j))
      BY <1>10, <3>2, ReadLate
    <3>4. PICK U : U = Outstanding(j)'
      OBVIOUS
    <3>5. U \subseteq T \ {t}
      BY <1>3, <1>4, <3>1, <3>3, <3>4
    <3>6. Live(v, j, U)
      BY <2>6, <3>5 DEF Live
    <3>. QED BY <1>9, <2>6, <2>7, <2>8, <3>3, <3>4, <3>6 DEF Orderly, Ordered
  <2>9. CASE /\ LocalsDone(v, j) /\ u = Append(v, e)
             /\ Sends(j, {[nodo |-> chief, block |-> Global]})
    <3>1. PICK x : x = [nodo |-> chief, block |-> Global]
      OBVIOUS
    <3>2. PICK S : S = {x}
      OBVIOUS
    <3>3. tasks'[j] = tasks[j] \cup S
      BY <1>1, <1>12, <2>9, <3>1, <3>2, SendsAre
    <3>4. \A i \in OfJob(v, j) : v[i].estado # "proceso"
      BY <2>5, <2>9, LocalsDoneIs
    <3>5. T \ {t} = {}
      BY <2>6, <3>4 DEF Live
    <3>6. S \cap Outstanding(j) = {}
      <4>1. x # t
        BY <2>3, <3>1 DEF Local, Global
      <4>. QED BY <1>4, <3>2, <3>5, <4>1
    <3>7. /\ Once(toYama'[j], tasks'[j])
          /\ \A y \in Outstanding(j)' : y \in S \/ (y \in Outstanding(j) /\ y # Answered(j))
      <4>1. Once(toYama[j], tasks[j]) /\ tasks'[j] \subseteq tasks[j] \cup S
        BY <3>3 DEF Orderly
      <4>. QED BY <1>10, <3>6, <4>1, ReadLeaves
    <3>8. Outstanding(j)' \subseteq {x}
      BY <1>3, <1>4, <3>2, <3>5, <3>7
    <3>9. F = Block
      BY <1>7, <2>2, <2>6, <2>7, <3>4, AllReduced
    <3>10. chief \in Node
      <4>1. k \in Reducers(v, j)
        BY <2>6 DEF Reducers
      <4>2. PICK h \in Reducers(v, j) : chief = v[h].nodo
        BY <1>1, <1>6, <2>2, <4>1, ChiefIs
      <4>3. v[h] \in State
        BY <2>2 DEF Reducers, OfJob
      <4>. QED BY <4>2, <4>3 DEF State
    <3>11. /\ e \in State /\ e.job = j /\ e.nodo = chief /\ e.block = Global
           /\ e.estado = "proceso" /\ e.files = Block
      <4>1. Global \in Stages /\ F \subseteq Block
        BY <3>9 DEF Stages
      <4>2. e.files = F
        BY <1>8 DEF Entry
      <4>. QED BY <1>8, <3>9, <3>10, <4>1, <4>2, EntryType
    <3>12. PICK h : h = Len(v) + 1
      OBVIOUS
    <3>13. Puts(v, u, h, e)
      BY <2>2, <2>9, <3>11, <3>12, AppendPuts
    <3>14. \A i \in OfJob(v, j) : v[i].block \notin {Global, Final} /\ v[i].estado # "proceso"
      BY <2>5, <3>4, BlockIsFinite DEF Local, Global, Final
    <3>15. Table(u, j) /\ \A m : Waits(v, j, m) => Waits(u, j, m)
      BY <2>6, <3>11, <3>13, <3>14, PutGlobal
    <3>16. PICK U : U = Outstanding(j)'
      OBVIOUS
    <3>17. Live(u, j, U)
      <4>1. \A y \in U : y \in T \ {t} \/ (y.nodo = e.nodo /\ y.block = e.block)
        BY <3>1, <3>8, <3>11, <3>16
      <4>. QED BY <2>6, <3>11, <3>13, <4>1, PutLive
    <3>18. Waiting(u, j)
      BY <2>7, <3>15 DEF Waiting
    <3>19. Late(j)'
      <4>1. h \in OfJob(u, j) /\ u[h].estado = "proceso"
        BY <3>11, <3>13 DEF Puts, OfJob
      <4>2. InProcess(j)' # {}
        BY <1>9, <4>1 DEF InProcess
      <4>3. ~told'[j]
        BY <1>10, <1>12
      <4>. QED BY <3>8, <4>2, <4>3 DEF Late
    <3>. QED BY <1>9, <3>7, <3>15, <3>16, <3>17, <3>18, <3>19 DEF Orderly, Ordered
  <2>. QED BY <1>10, <2>8, <2>9
<1>. QED BY <1>11, <1>12
\* What a Master reports of a stage is of that stage, and outstanding.
LEMMA ReadStage ==
  ASSUME IInv, NEW j \in Job, NEW b, NEW ok, Reads(j, {b}, ok)
  PROVE  Answered(j) \in Task /\ Answered(j) \in Outstanding(j) /\ Answered(j).block = b
<1>1. PICK B : B = {b}
  OBVIOUS
<1>2. Reads(j, B, ok)
  BY <1>1
<1>3. Answered(j) \in Task /\ Answered(j) \in Outstanding(j) /\ Answered(j).block \in B
  BY <1>2, ReadsIs
<1>. QED BY <1>1, <1>3

\* Of the last two stages only one is outstanding.
LEMMA ReadLast ==
  ASSUME IInv, NEW j \in Job, Orderly(j), NEW b \in {Global, Final}, NEW ok, Reads(j, {b}, ok)
  PROVE  ~told[j] /\ Outstanding(j) = {Answered(j)} /\ InProcess(j) # {}
<1>1. Answered(j) \in Outstanding(j) /\ Answered(j).block = b
  BY ReadStage
<1>2. yama = "running" /\ phase[j] # "closed"
  <2>1. PICK B : B = {b} /\ Reads(j, B, ok)
    OBVIOUS
  <2>. QED BY <2>1, ReadsIs
<1>. QED BY <1>1, <1>2 DEF Orderly, Late

\* The result is stored once, when the job is reduced.
LEMMA GlobalOkOrderly ==
  ASSUME IInv, NEW j \in Job, Orderly(j), GlobalOk(j) PROVE Orderly(j)'
<1>1. TypeOK
  BY DEF IInv
<1>2. PICK s : s = estados
  OBVIOUS
<1>3. PICK t : t = Answered(j)
  OBVIOUS
<1>4. PICK T : T = Outstanding(j)
  OBVIOUS
<1>5. PICK v : v = Update(s, j, t, "ok")
  OBVIOUS
<1>6. PICK n : n = t.nodo
  OBVIOUS
<1>7. PICK e : e = Entry(j, n, Final, {})
  OBVIOUS
<1>8. PICK u : u = estados'
  OBVIOUS
<1>9. /\ Reads(j, {Global}, TRUE) /\ UNCHANGED <<phase, told>>
      /\ \/ u = Append(v, e) /\ Sends(j, {[nodo |-> n, block |-> Final]})
         \/ yama' = "crashed" /\ u = v /\ UNCHANGED tasks
  BY <1>2, <1>3, <1>5, <1>6, <1>7, <1>8 DEF GlobalOk
<1>10. ~told[j] /\ T = {t}
  BY <1>3, <1>4, <1>9, ReadLast
<1>11. PICK k \in OfJob(s, j) : Updated(s, v, j, t, k, T)
  BY <1>2, <1>3, <1>4, <1>5, <1>9, <1>10, ReadUpdates
<1>12. s \in Seq(State) /\ v \in Seq(State)
  BY <1>1, <1>2, <1>5, UpdateGrows DEF TypeOK
<1>13. t \in Task /\ t \in T /\ t.block = Global
  BY <1>3, <1>4, <1>9, ReadStage
<1>14. Table(v, j) /\ Live(v, j, T \ {t})
  BY <1>11 DEF Updated
<1>15. CASE yama' = "crashed" /\ u = v /\ UNCHANGED tasks
  <2>1. PICK S : S = {}
    OBVIOUS
  <2>2. tasks'[j] \subseteq tasks[j] \cup S /\ S \cap Outstanding(j) = {}
        /\ \A x \in S : x.block \notin {Global, Final}
    BY <1>15, <2>1
  <2>3. /\ Once(toYama'[j], tasks'[j]) /\ Late(j)'
        /\ \A x \in Outstanding(j)' : x \in S \/ (x \in Outstanding(j) /\ x # Answered(j))
    BY <1>9, <2>2, ReadLate
  <2>4. PICK U : U = Outstanding(j)'
    OBVIOUS
  <2>5. U \subseteq T \ {t}
    BY <1>3, <1>4, <2>1, <2>3, <2>4
  <2>6. Live(v, j, U)
    BY <1>14, <2>5 DEF Live
  <2>. QED BY <1>8, <1>14, <1>15, <2>3, <2>4, <2>6 DEF Orderly, Ordered
<1>16. CASE u = Append(v, e) /\ Sends(j, {[nodo |-> n, block |-> Final]})
  <2>1. PICK x : x = [nodo |-> n, block |-> Final]
    OBVIOUS
  <2>2. PICK S : S = {x}
    OBVIOUS
  <2>3. tasks'[j] = tasks[j] \cup S
    BY <1>1, <1>10, <1>16, <2>1, <2>2, SendsAre
  <2>4. S \cap Outstanding(j) = {}
    <3>1. x # t
      BY <1>13, <2>1 DEF Global, Final
    <3>. QED BY <1>4, <1>10, <2>2, <3>1
  <2>5. /\ Once(toYama'[j], tasks'[j])
        /\ \A y \in Outstanding(j)' : y \in S \/ (y \in Outstanding(j) /\ y # Answered(j))
    <3>1. Once(toYama[j], tasks[j]) /\ tasks'[j] \subseteq tasks[j] \cup S
      BY <2>3 DEF Orderly
    <3>. QED BY <1>9, <2>4, <3>1, ReadLeaves
  <2>6. Outstanding(j)' \subseteq {x}
    BY <1>3, <1>4, <1>10, <2>2, <2>5
  <2>7. \A i \in OfJob(v, j) : v[i].block # Final /\ v[i].estado # "proceso"
    <3>1. /\ s[k].block = Global /\ s[k].estado = "proceso" /\ Table(s, j)
          /\ v[k].estado = "ok" /\ OfJob(v, j) = OfJob(s, j)
          /\ \A i \in OfJob(s, j) : v[i].block = s[i].block /\ (i = k \/ v[i] = s[i])
      BY <1>11, <1>13 DEF Updated, Marks, OfJob
    <3>2. Begins(s, j, k)
      BY <3>1 DEF Table, Closing
    <3>3. ASSUME NEW i \in OfJob(s, j) PROVE s[i].block # Final
      <4>1. s[i].block = Final => Begins(s, j, i)
        BY <3>1 DEF Table, Closing
      <4>. QED BY <3>1, <4>1 DEF Begins
    <3>4. ASSUME NEW i \in OfJob(s, j), i # k PROVE s[i].estado # "proceso"
      <4>1. s[i] \in State
        BY <1>12 DEF OfJob
      <4>2. s[i].block \in Stages
        BY <4>1 DEF State
      <4>3. s[i].block # Global
        BY <3>1, <3>2, <3>4 DEF Begins
      <4>4. s[i].block \in Block \cup {Local}
        BY <3>3, <4>2, <4>3 DEF Stages
      <4>. QED BY <3>2, <4>4 DEF Begins
    <3>. QED BY <3>1, <3>3, <3>4
  <2>8. /\ e \in State /\ e.job = j /\ e.nodo = n /\ e.block = Final
        /\ e.estado = "proceso" /\ e.files = {}
    <3>1. n \in Node /\ Final \in Stages /\ {} \subseteq Block
      BY <1>6, <1>13 DEF Task, Stages
    <3>2. e.files = {}
      BY <1>7 DEF Entry
    <3>. QED BY <1>7, <3>1, <3>2, EntryType
  <2>9. PICK h : h = Len(v) + 1
    OBVIOUS
  <2>10. Puts(v, u, h, e)
    BY <1>12, <1>16, <2>8, <2>9, AppendPuts
  <2>11. Table(u, j) /\ \A m : Waits(v, j, m) => Waits(u, j, m)
    BY <1>14, <2>7, <2>8, <2>10, PutFinal
  <2>12. PICK U : U = Outstanding(j)'
    OBVIOUS
  <2>13. Live(u, j, U)
    <3>1. \A y \in U : y \in T \ {t} \/ (y.nodo = e.nodo /\ y.block = e.block)
      BY <2>1, <2>6, <2>8, <2>12
    <3>. QED BY <1>14, <2>8, <2>10, <3>1, PutLive
  <2>14. Waiting(u, j)
    <3>1. t.block \notin Block \cup {Local}
      BY <1>13, BlockIsFinite DEF Local, Global
    <3>2. \A m \in Node : Waits(v, j, m)
      BY <1>11, <3>1 DEF Updated
    <3>. QED BY <2>11, <3>2 DEF Waiting
  <2>15. Late(j)'
    <3>1. h \in OfJob(u, j) /\ u[h].estado = "proceso"
      BY <2>8, <2>10 DEF Puts, OfJob
    <3>2. InProcess(j)' # {}
      BY <1>8, <3>1 DEF InProcess
    <3>3. ~told'[j]
      BY <1>9, <1>10
    <3>. QED BY <2>6, <3>2, <3>3 DEF Late
  <2>. QED BY <1>8, <2>5, <2>11, <2>12, <2>13, <2>14, <2>15 DEF Orderly, Ordered
<1>. QED BY <1>9, <1>15, <1>16
\* A Master that is told takes nothing more.
LEMMA FailedOrderly ==
  ASSUME IInv, NEW j \in Job, Orderly(j), LocalFailed(j) \/ GlobalFailed(j) PROVE Orderly(j)'
<1>1. TypeOK
  BY DEF IInv
<1>2. told'[j] /\ UNCHANGED <<phase, tasks>>
  BY <1>1 DEF LocalFailed, GlobalFailed, Abort, TypeOK
<1>3. Reads(j, {Local}, FALSE) \/ Reads(j, {Global}, FALSE)
  BY DEF LocalFailed, GlobalFailed
<1>. QED BY <1>2, <1>3, ReadTold

\* The entry that finalizarJobGlobalEnTablaEstado finds, if there is one.
LEMMA FinalizeIs ==
  ASSUME NEW j \in Job, NEW e, Finalize(j, e), NEW k, k = FirstOf(estados, j)
  PROVE  /\ k = 0 => yama' = "crashed" /\ UNCHANGED estados
         /\ k # 0 => estados' = [estados EXCEPT ![k].estado = e] /\ UNCHANGED yama
  BY DEF Finalize, SelectInSeq, FirstOf

\* When the result is stored, it is the entry of the storing that is done.
LEMMA StoredOrderly ==
  ASSUME IInv, NEW j \in Job, Orderly(j), NEW ok \in BOOLEAN, Stored(j, ok) PROVE Orderly(j)'
<1>1. TypeOK
  BY DEF IInv
<1>2. PICK e : e = IF ok THEN "ok" ELSE "error"
  OBVIOUS
<1>3. PICK s : s = estados
  OBVIOUS
<1>4. PICK t : t = Answered(j)
  OBVIOUS
<1>5. PICK k : k = FirstOf(s, j)
  OBVIOUS
<1>6. PICK u : u = estados'
  OBVIOUS
<1>7. Reads(j, {Final}, ok) /\ Finalize(j, e) /\ UNCHANGED <<phase, told, tasks>>
  BY <1>2 DEF Stored
<1>8. ~told[j] /\ Outstanding(j) = {t} /\ t.block = Final
  BY <1>4, <1>7, ReadLast, ReadStage
<1>9. s \in Seq(State)
  BY <1>1, <1>3 DEF TypeOK
<1>10. PICK S : S = {}
  OBVIOUS
<1>11. /\ Once(toYama'[j], tasks'[j]) /\ Late(j)'
       /\ \A x \in Outstanding(j)' : x \in S \/ (x \in Outstanding(j) /\ x # Answered(j))
  <2>1. tasks'[j] \subseteq tasks[j] \cup S /\ S \cap Outstanding(j) = {}
        /\ \A x \in S : x.block \notin {Global, Final}
    BY <1>7, <1>10
  <2>. QED BY <1>7, <2>1, ReadLate
<1>12. PICK U : U = Outstanding(j)'
  OBVIOUS
<1>13. U = {}
  BY <1>4, <1>8, <1>10, <1>11, <1>12
<1>14. Live(u, j, U)
  BY <1>13 DEF Live
<1>15. Table(s, j) /\ Live(s, j, {t}) /\ Waiting(s, j)
  <2>1. PICK B : B = {Final} /\ Reads(j, B, ok)
    BY <1>7
  <2>2. phase[j] \notin {"new", "closed"} /\ yama = "running"
    BY <2>1, ReadsIs
  <2>3. Open(j)
    BY <1>1, <1>8, <2>2 DEF Open, TypeOK
  <2>. QED BY <1>3, <1>8, <2>2, <2>3 DEF Orderly, Ordered
<1>16. PICK h \in OfJob(s, j) : s[h].block = Final /\ s[h].estado = "proceso"
  BY <1>8, <1>15 DEF Live
<1>17. k # 0 /\ k \in OfJob(s, j) /\ s[k].estado = "proceso"
  BY <1>5, <1>9, <1>16, FirstIs
<1>18. u = [s EXCEPT ![k].estado = e]
  BY <1>3, <1>5, <1>6, <1>7, <1>17, FinalizeIs
<1>19. s[k].block \notin Block \cup {Local}
  BY <1>15, <1>16, <1>17 DEF Table, Closing, Begins
<1>20. Marks(s, u, k, e)
  <2>1. s[k] \in State /\ k \in DOMAIN s
    BY <1>9, <1>17 DEF OfJob
  <2>2. DOMAIN u = DOMAIN s /\ u[k] = [s[k] EXCEPT !.estado = e]
        /\ \A i \in DOMAIN s : i = k \/ u[i] = s[i]
    BY <1>18, <2>1
  <2>3. /\ u[k].job = s[k].job /\ u[k].nodo = s[k].nodo /\ u[k].block = s[k].block
        /\ u[k].files = s[k].files /\ u[k].estado = e
    BY <2>1, <2>2 DEF State
  <2>. QED BY <2>1, <2>2, <2>3 DEF Marks
<1>21. Table(u, j) /\ \A n : Waits(s, j, n) => Waits(u, j, n)
  <2>1. e # "proceso"
    BY <1>2
  <2>. QED BY <1>15, <1>17, <1>19, <1>20, <2>1, MarkLast
<1>. QED BY <1>6, <1>11, <1>12, <1>14, <1>15, <1>21 DEF Orderly, Ordered, Waiting
-----------------------------------------------------------------------------
(* The order of every job is kept.                                         *)

\* A step of one job that keeps its order keeps that of all.
LEMMA OneOrderly ==
  ASSUME \A i \in Job : Orderly(i), NEW j \in Job, Others(j), Orderly(j)',
         \A i \in Job \ {j} : told'[i] = told[i]
  PROVE  \A i \in Job : Orderly(i)'
  BY OthersOrderly

\* So does a step that leaves the tables alone.
LEMMA NoneOrderly ==
  ASSUME NEW j \in Job, Orderly(j), UNCHANGED <<estados, phase, tasks, toYama>>,
         told[j] => told'[j], yama' = "running" => yama = "running" /\ told' = told
  PROVE  Orderly(j)'
<1>1. Outstanding(j)' = Outstanding(j) /\ InProcess(j)' = InProcess(j)
  BY DEF Outstanding, Reported, Reports, InProcess
<1>2. Open(j)' => Open(j)
  BY DEF Open
<1>3. PICK s : s = estados
  OBVIOUS
<1>4. PICK T : T = Outstanding(j)
  OBVIOUS
<1>5. Ordered(j)'
  BY <1>1, <1>2, <1>3, <1>4 DEF Orderly, Ordered
<1>6. yama' = "running" /\ phase'[j] # "closed" => Late(j)'
  BY <1>1 DEF Orderly, Late
<1>. QED BY <1>5, <1>6 DEF Orderly

\* Nothing is in order yet at the start.
LEMMA OrderlyStarts == ASSUME Init, NEW j \in Job PROVE Orderly(j)
<1>1. phase[j] = "new" /\ toYama[j] = <<>> /\ tasks[j] = {}
  BY DEF Init
<1>2. Outstanding(j) = {}
  BY <1>1 DEF Outstanding, Reported, Reports
<1>. QED BY <1>1, <1>2 DEF Orderly, Ordered, Open, Late, Once

\* YAMA's handling of an answer keeps the order of its job.
LEMMA ServeOrderly ==
  ASSUME IInv, Accounted, NEW j \in Job, Orderly(j), Serve(j)
  PROVE  Orderly(j)' /\ Others(j) /\ \A i \in Job \ {j} : told'[i] = told[i]
<1>1. TypeOK /\ Reporting(j)
  BY DEF IInv, Accounted
<1>2. Orderly(j)'
  BY <1>1, TransformOkOrderly, TransformFailedOrderly, LocalOkOrderly, GlobalOkOrderly,
     FailedOrderly, StoredOrderly, DisconnectedOrderly DEF Serve
<1>3. Others(j)
  BY TransformOkSound, TransformFailedSound, LocalOkSound, LocalFailedSound,
     GlobalOkSound, GlobalFailedSound, StoredSound, DisconnectedSound DEF Serve
<1>4. told' = told \/ told' = [told EXCEPT ![j] = TRUE]
  BY DEF Serve, TransformOk, TransformFailed, LocalOk, LocalFailed, GlobalOk, GlobalFailed,
     Stored, Disconnected, Abort
<1>5. \A i \in Job \ {j} : told'[i] = told[i]
  BY <1>1, <1>4 DEF TypeOK
<1>. QED BY <1>2, <1>3, <1>5

\* Every step keeps the order of every job, with one failing node.
LEMMA OrderlySteps ==
  ASSUME IInv, Accounted, \A i \in Job : Orderly(i), [Next]_vars
  PROVE  \A i \in Job : Orderly(i)'
<1>1. CASE UNCHANGED vars
  BY <1>1, NoneOrderly DEF vars, masterVars
<1>2. ASSUME NEW j \in Job, Accept(j) PROVE \A i \in Job : Orderly(i)'
  <2>1. CASE InitJobFails(j)
    <3>1. UNCHANGED <<estados, phase, tasks, toYama, told>> /\ yama = "running"
      BY <2>1 DEF InitJobFails, Stop
    <3>. QED BY <3>1, NoneOrderly
  <2>2. CASE RefuseJob(j)
    <3>1. \A i \in Job \ {j} : told'[i] = told[i]
      BY <2>2 DEF RefuseJob, IInv, TypeOK
    <3>. QED BY <2>2, <3>1, RefuseOrderly, RefuseSound, OneOrderly
  <2>3. CASE InitJob(j)
    <3>1. told' = told
      BY <2>3 DEF InitJob
    <3>. QED BY <2>3, <3>1, InitOrderly, InitSound, OneOrderly
  <2>. QED BY <1>2, <2>1, <2>2, <2>3 DEF Accept
<1>3. ASSUME NEW j \in Job, Serve(j) PROVE \A i \in Job : Orderly(i)'
  BY <1>3, ServeOrderly, OneOrderly
<1>4. ASSUME NEW j \in Job, Work(j) PROVE \A i \in Job : Orderly(i)'
  <2>1. PICK t \in tasks[j] : Done(j, t) \/ Fail(j, t)
    BY <1>4 DEF Work
  <2>2. told' = told
    BY <2>1 DEF Done, Fail
  <2>3. Orderly(j)' /\ Others(j)
    BY <2>1, DoneOrderly, FailOrderly, DoneSound, FailSound
  <2>. QED BY <2>2, <2>3, OneOrderly
<1>5. ASSUME NEW j \in Job, End(j) \/ Kill(j) PROVE \A i \in Job : Orderly(i)'
  <2>1. told' = told
    BY <1>5 DEF End, Kill
  <2>. QED BY <1>5, <2>1, EndOrderly, EndSound, OneOrderly
<1>6. CASE \/ \E n \in Node : NodeDown(n) \/ NodeUp(n)
           \/ RemoveFile
  <2>1. UNCHANGED <<estados, phase, tasks, toYama, told, yama>>
    BY <1>6 DEF NodeDown, NodeUp, RemoveFile, masterVars
  <2>. QED BY <2>1, NoneOrderly
<1>7. CASE FileSystemLost
  <2>1. UNCHANGED <<estados, phase, tasks, toYama>> /\ yama' = "exit"
        /\ \A i \in Job : told[i] => told'[i]
    BY <1>7 DEF FileSystemLost
  <2>. QED BY <2>1, NoneOrderly
<1>. QED BY <1>1, <1>2, <1>3, <1>4, <1>5, <1>6, <1>7 DEF Next

\* The reductions of a job in order are exact.
LEMMA OrderlyIsExact == TypeOK /\ (\A j \in Job : Orderly(j)) => GlobalIsExact
<1>. SUFFICES ASSUME TypeOK, NEW j \in Job, Orderly(j), Going(j)
              PROVE  /\ \A k \in Valid(estados, OfJob(estados, j)) :
                          estados[k].block = Global => estados[k].files = Block
                     /\ \A k, i \in Valid(estados, OfJob(estados, j)) :
                          k # i /\ estados[k].block = estados[i].block
                            => estados[k].files \cap estados[i].files = {}
  BY DEF GlobalIsExact
<1>1. PICK s : s = estados
  OBVIOUS
<1>2. Table(s, j)
  BY <1>1 DEF Orderly, Ordered, Open, Going
<1>3. ASSUME NEW k \in OfJob(s, j), s[k].block = Global PROVE s[k].files = Block
  BY <1>2, <1>3 DEF Table, Closing, Begins
<1>4. ASSUME NEW k \in OfJob(s, j), NEW i \in OfJob(s, j), s[k].estado # "error",
             s[i].estado # "error", k # i, s[k].block = s[i].block
      PROVE  s[k].files \cap s[i].files = {}
  <2>1. s[k] \in State /\ s \in Seq(State)
    BY <1>1 DEF TypeOK, OfJob
  <2>2. s[k].block \in Stages
    BY <2>1 DEF State
  <2>3. CASE s[k].block \in Block
    BY <1>2, <1>4, <2>3 DEF Table, OneEach, Maps
  <2>4. CASE s[k].block = Local
    <3>1. /\ s[k].files = BlocksAt(s, j, s[k].nodo) /\ s[i].files = BlocksAt(s, j, s[i].nodo)
          /\ s[k].nodo # s[i].nodo
      BY <1>2, <1>4, <2>4 DEF Table, Reducing, Keyed
    <3>2. \A h, g \in Maps(s, j) : s[h].block = s[g].block => h = g
      BY <1>2 DEF Table, OneEach
    <3>. QED BY <3>1, <3>2 DEF BlocksAt
  <2>5. CASE s[k].block \in {Global, Final}
    BY <1>2, <1>4, <2>5 DEF Table, Closing, Begins
  <2>. QED BY <2>2, <2>3, <2>4, <2>5 DEF Stages
<1>. QED BY <1>1, <1>3, <1>4 DEF Valid

\* The global reduction of a job works on the results of all its blocks, each
\* once, when one node fails the job's transformations before the job reduces:
\* its blocks are done again elsewhere, and no reduction has an old result.
THEOREM GlobalIsExactAlways == ASSUME ~AnyFails PROVE Spec => []GlobalIsExact
<1>. DEFINE Inv == IInv /\ Accounted /\ \A j \in Job : Orderly(j)
<1>1. Init => Inv
  BY Starts, AccountedStarts, OrderlyStarts
<1>2. Inv /\ [Next]_vars => Inv'
  BY Steps, AccountedSteps, OrderlySteps
<1>3. Inv => GlobalIsExact
  BY OrderlyIsExact DEF IInv
<1>. HIDE DEF Inv
<1>. QED BY <1>1, <1>2, <1>3, PTL DEF Spec
-----------------------------------------------------------------------------
(* While the DataNodes stay connected.                                     *)

\* YAMA has every node it gave work to among the active ones.
Placed(s, A) == \A k \in DOMAIN s : s[k].nodo \in A
Together ==
  /\ yama # "crashed" /\ known \subseteq alive /\ activos \subseteq alive
  /\ Placed(estados, activos)
Joined == downs = 0 => Together

\* A table that grows has the new entries to place.
LEMMA PlacedGrows ==
  ASSUME NEW j, NEW s, NEW u, Grows(j, s, u), NEW A, Placed(s, A),
         \A k \in DOMAIN u \ DOMAIN s : u[k].nodo \in A
  PROVE  Placed(u, A)
<1>. SUFFICES ASSUME NEW k \in DOMAIN u PROVE u[k].nodo \in A
  BY DEF Placed
<1>1. CASE k \in DOMAIN s
  BY <1>1 DEF Placed, Grows
<1>2. CASE k \notin DOMAIN s
  BY <1>2
<1>. QED BY <1>1, <1>2

\* The entry of an answer is done, where it was.
LEMMA PlacedUpdate ==
  ASSUME NEW s \in Seq(State), NEW j, NEW t, NEW A, Placed(s, A), NEW v, v = Update(s, j, t, "ok")
  PROVE  v \in Seq(State) /\ Placed(v, A)
<1>1. v \in Seq(State) /\ Grows(j, s, v)
  BY UpdateGrows
<1>2. Len(v) = Len(s)
  BY UpdateKeeps
<1>3. DOMAIN v = DOMAIN s
  BY <1>1, <1>2
<1>. QED BY <1>1, <1>3, PlacedGrows

\* A new entry is placed.
LEMMA PlacedAppend ==
  ASSUME NEW v \in Seq(State), NEW e \in State, NEW A, Placed(v, A), e.nodo \in A,
         NEW u, u = Append(v, e)
  PROVE  Placed(u, A)
<1>1. Puts(v, u, Len(v) + 1, e)
  BY AppendPuts
<1>. QED BY <1>1 DEF Puts, Placed

\* The loads table has all the active nodes, when it has no other.
LEMMA AllLoaded ==
  ASSUME TypeOK, Together PROVE alive \subseteq Completed(alive) /\ Completed(alive) \subseteq alive
<1>1. known \subseteq alive /\ IsFiniteSet(alive)
  <2>1. known \subseteq alive /\ alive \subseteq Node /\ IsFiniteSet(Node)
    BY JobAssumption DEF Together, TypeOK
  <2>. QED BY <2>1, FS_Subset
<1>2. Cardinality(known) \in Nat /\ Cardinality(alive) \in Nat /\ IsFiniteSet(known)
  <2>1. IsFiniteSet(known)
    BY <1>1, FS_Subset
  <2>. QED BY <1>1, <2>1, FS_CardinalityType
<1>3. known # alive => Cardinality(known) < Cardinality(alive)
  <2>1. /\ Cardinality(known) <= Cardinality(alive)
        /\ Cardinality(alive) = Cardinality(known) => alive = known
    BY <1>1, FS_Subset
  <2>. QED BY <1>2, <2>1
<1>4. Cardinality(alive) > Cardinality(known) \/ known = alive
  BY <1>2, <1>3
<1>. QED BY <1>1, <1>4 DEF Completed

\* A job begins on active nodes.
LEMMA AcceptTogether ==
  ASSUME IInv, Together, NEW j \in Job, Accept(j) PROVE Together'
<1>1. TypeOK
  BY DEF IInv
<1>2. alive \subseteq Completed(alive) /\ Completed(alive) \subseteq alive
  BY <1>1, AllLoaded
<1>3. CASE InitJobFails(j)
  BY <1>2, <1>3 DEF InitJobFails, Stop, loadVars, envVars, Together
<1>4. CASE RefuseJob(j)
  <2>1. UNCHANGED <<estados, known, yama, alive>> /\ activos' = alive
    BY <1>4 DEF RefuseJob, loadVars, envVars
  <2>. QED BY <2>1 DEF Together, Placed
<1>5. CASE InitJob(j)
  <2>1. PICK p \in [Block -> Node] :
          p \in Plans(alive, Copies) /\ estados' = estados \o Entries(j, Sent(p))
    BY <1>1, <1>5, InitJobIs
  <2>2. PICK q : q = Sent(p)
    OBVIOUS
  <2>3. q \in Seq(Task) /\ \A i \in DOMAIN q : q[i].block \in Block /\ q[i].nodo = p[q[i].block]
    BY <2>2, TasksAre
  <2>4. PICK s : s = estados
    OBVIOUS
  <2>5. PICK u : u = estados'
    OBVIOUS
  <2>6. Grows(j, s, u) /\ Added(j, s, q, u)
    <3>1. s \in Seq(State) /\ u = s \o Entries(j, q)
      BY <1>1, <2>1, <2>2, <2>4, <2>5 DEF TypeOK
    <3>. QED BY <2>3, <3>1, ConcatGrows
  <2>7. UNCHANGED <<yama, alive>> /\ activos' = alive /\ known' = Completed(alive)
    BY <1>5 DEF InitJob, envVars
  <2>8. \A b \in Block : p[b] \in alive
    BY <2>1 DEF Plans
  <2>9. Placed(s, alive)
    BY <2>4 DEF Together, Placed
  <2>10. \A k \in DOMAIN u \ DOMAIN s : u[k].nodo \in alive
    <3>1. TAKE k \in DOMAIN u \ DOMAIN s
    <3>2. PICK i : i = k - Len(s)
      OBVIOUS
    <3>3. i \in DOMAIN q /\ k = Len(s) + i
      <4>1. u \in Seq(State)
        BY <1>1, <2>5, <1>5, InitSound DEF IInv, TypeOK
      <4>2. k \in Int /\ Len(s) \in Nat
        BY <1>1, <2>4, <4>1 DEF TypeOK
      <4>. QED BY <2>6, <3>2, <4>2 DEF Added
    <3>4. u[k] = Entry(j, q[i].nodo, q[i].block, {q[i].block})
      BY <2>6, <3>3 DEF Added
    <3>. QED BY <2>3, <2>8, <3>3, <3>4 DEF Entry
  <2>11. Placed(u, alive)
    BY <2>6, <2>9, <2>10, PlacedGrows
  <2>. QED BY <1>2, <2>5, <2>7, <2>11 DEF Together
<1>. QED BY <1>3, <1>4, <1>5 DEF Accept
\* The answers are of nodes that are active.
LEMMA ReadPlaced ==
  ASSUME IInv, Together, NEW j \in Job, NEW B, NEW ok, Reads(j, B, ok)
  PROVE  Answered(j).nodo \in activos
<1>1. PICK k \in OfNode(estados, j, Answered(j).nodo) : TRUE
  BY ReadsIs
<1>. QED BY <1>1 DEF OfNode, OfJob, Together, Placed

\* A node that reduces is active.
LEMMA TransformOkTogether ==
  ASSUME IInv, Together, NEW j \in Job, TransformOk(j) PROVE Together'
<1>1. TypeOK
  BY DEF IInv
<1>2. PICK s : s = estados
  OBVIOUS
<1>3. PICK t : t = Answered(j)
  OBVIOUS
<1>4. PICK v : v = Update(s, j, t, "ok")
  OBVIOUS
<1>5. PICK n : n = t.nodo
  OBVIOUS
<1>6. PICK e : e = Entry(j, n, Local, Temporals(v, j, n))
  OBVIOUS
<1>7. PICK u : u = estados'
  OBVIOUS
<1>8. Reads(j, Block, TRUE)
  BY DEF TransformOk
<1>9. n \in activos /\ n \in Node
  <2>1. t \in Task
    BY <1>3, <1>8, ReadsIs
  <2>. QED BY <1>3, <1>5, <1>8, <2>1, ReadPlaced DEF Task
<1>10. /\ u = v \/ u = Append(v, e)
       /\ UNCHANGED <<yama, activos, known, alive>>
  BY <1>2, <1>3, <1>4, <1>5, <1>6, <1>7, <1>9 DEF TransformOk, loadVars, envVars
<1>11. v \in Seq(State) /\ Placed(v, activos)
  <2>1. s \in Seq(State) /\ Placed(s, activos)
    BY <1>1, <1>2 DEF TypeOK, Together
  <2>. QED BY <1>4, <2>1, PlacedUpdate
<1>12. e \in State /\ e.nodo \in activos
  <2>1. Local \in Stages
    BY DEF Stages
  <2>. QED BY <1>6, <1>9, <1>11, <2>1, EntryType, TemporalsType
<1>13. Placed(u, activos)
  BY <1>10, <1>11, <1>12, PlacedAppend
<1>. QED BY <1>7, <1>10, <1>13 DEF Together

\* So are those of the local reductions, and the chief is one of them.
LEMMA LocalOkTogether ==
  ASSUME IInv, Together, NEW j \in Job, LocalOk(j) PROVE Together'
<1>1. TypeOK
  BY DEF IInv
<1>2. PICK s : s = estados
  OBVIOUS
<1>3. PICK t : t = Answered(j)
  OBVIOUS
<1>4. PICK v : v = Update(s, j, t, "ok")
  OBVIOUS
<1>5. PICK chief : chief = Chief(v, j)
  OBVIOUS
<1>6. PICK F : F = UNION {v[k].files : k \in Reducers(v, j)}
  OBVIOUS
<1>7. PICK e : e = Entry(j, chief, Global, F)
  OBVIOUS
<1>8. PICK u : u = estados'
  OBVIOUS
<1>9. v \in Seq(State) /\ Placed(v, activos)
  <2>1. s \in Seq(State) /\ Placed(s, activos)
    BY <1>1, <1>2 DEF TypeOK, Together
  <2>. QED BY <1>4, <2>1, PlacedUpdate
<1>10. \A k \in Reducers(v, j) : v[k].nodo \in activos
  BY <1>9 DEF Reducers, OfJob, Placed
<1>11. /\ Reads(j, {Local}, TRUE)
       /\ u = v \/ u = Append(v, e)
       /\ UNCHANGED <<yama, activos, known, alive>>
  BY <1>2, <1>3, <1>4, <1>5, <1>6, <1>7, <1>8, <1>10 DEF LocalOk, envVars
<1>12. Reducers(v, j) # {}
  <2>1. PICK B : B = {Local} /\ Reads(j, B, TRUE)
    BY <1>11
  <2>2. PICK k \in OfNode(s, j, t.nodo) : s[k].block = Local
    <3>1. Answered(j).block \in B
          /\ \E k \in OfNode(estados, j, Answered(j).nodo) : estados[k].block = Answered(j).block
      BY <2>1, ReadsIs
    <3>. QED BY <1>2, <1>3, <2>1, <3>1
  <2>3. s \in Seq(State)
    BY <1>1, <1>2 DEF TypeOK
  <2>4. Grows(j, s, v)
    BY <1>4, <2>3, UpdateGrows
  <2>. QED BY <2>2, <2>4 DEF Grows, OfNode, OfJob, Reducers
<1>13. PICK h \in Reducers(v, j) : chief = v[h].nodo
  BY <1>1, <1>5, <1>9, <1>12, ChiefIs
<1>14. \A k \in Reducers(v, j) : v[k] \in State
  BY <1>9 DEF Reducers, OfJob
<1>15. e \in State /\ e.nodo \in activos
  <2>1. Global \in Stages
    BY DEF Stages
  <2>2. F \subseteq Block
    BY <1>6, <1>14 DEF State
  <2>3. chief \in Node /\ chief \in activos
    BY <1>10, <1>13, <1>14 DEF State
  <2>. QED BY <1>7, <2>1, <2>2, <2>3, EntryType
<1>16. Placed(u, activos)
  BY <1>9, <1>11, <1>15, PlacedAppend
<1>. QED BY <1>8, <1>11, <1>16 DEF Together

\* So is the one of the global reduction.
LEMMA GlobalOkTogether ==
  ASSUME IInv, Together, NEW j \in Job, GlobalOk(j) PROVE Together'
<1>1. TypeOK
  BY DEF IInv
<1>2. PICK s : s = estados
  OBVIOUS
<1>3. PICK t : t = Answered(j)
  OBVIOUS
<1>4. PICK v : v = Update(s, j, t, "ok")
  OBVIOUS
<1>5. PICK n : n = t.nodo
  OBVIOUS
<1>6. PICK e : e = Entry(j, n, Final, {})
  OBVIOUS
<1>7. PICK u : u = estados'
  OBVIOUS
<1>8. Reads(j, {Global}, TRUE)
  BY DEF GlobalOk
<1>9. n \in activos /\ n \in Node
  <2>1. t \in Task
    BY <1>3, <1>8, ReadStage
  <2>. QED BY <1>3, <1>5, <1>8, <2>1, ReadPlaced DEF Task
<1>10. u = Append(v, e) /\ UNCHANGED <<yama, activos, known, alive>>
  BY <1>2, <1>3, <1>4, <1>5, <1>6, <1>7, <1>9 DEF GlobalOk, loadVars, envVars
<1>11. v \in Seq(State) /\ Placed(v, activos)
  <2>1. s \in Seq(State) /\ Placed(s, activos)
    BY <1>1, <1>2 DEF TypeOK, Together
  <2>. QED BY <1>4, <2>1, PlacedUpdate
<1>12. e \in State /\ e.nodo \in activos
  <2>1. Final \in Stages /\ {} \subseteq Block
    BY DEF Stages
  <2>. QED BY <1>6, <1>9, <2>1, EntryType
<1>13. Placed(u, activos)
  BY <1>10, <1>11, <1>12, PlacedAppend
<1>. QED BY <1>7, <1>10, <1>13 DEF Together
\* A table whose entries take other states, at most, is placed as it was.
LEMMA PlacedSame ==
  ASSUME NEW j, NEW s, NEW u, Grows(j, s, u), DOMAIN u = DOMAIN s, NEW A, Placed(s, A)
  PROVE  Placed(u, A)
  BY PlacedGrows

\* eliminarEstadosMultiples leaves the entries where they are.
LEMMA RemovePlaced ==
  ASSUME TypeOK, NEW j \in Job, RemoveStates(j, estados), NEW A, Placed(estados, A)
  PROVE  Placed(estados, A)'
<1>1. PICK s : s = estados
  OBVIOUS
<1>2. PICK u : u = estados'
  OBVIOUS
<1>3. u = [k \in DOMAIN s |-> IF s[k].job = j THEN [s[k] EXCEPT !.estado = "error"] ELSE s[k]]
  BY <1>1, <1>2 DEF RemoveStates
<1>4. Grows(j, s, u) /\ DOMAIN u = DOMAIN s
  BY <1>1, <1>3, ErrorsGrow DEF TypeOK
<1>5. Placed(u, A)
  BY <1>1, <1>4, PlacedSame
<1>. QED BY <1>2, <1>5 DEF Placed

\* Replanning takes nodes that are active.
LEMMA TransformFailedTogether ==
  ASSUME IInv, Together, NEW j \in Job, TransformFailed(j) PROVE Together'
<1>1. TypeOK
  BY DEF IInv
<1>2. PICK n : n = Answered(j).nodo
  OBVIOUS
<1>3. PICK lost : lost = Lost(j, n)
  OBVIOUS
<1>4. PICK to : to = Target(lost, n)
  OBVIOUS
<1>5. PICK q : q = Again(lost, to)
  OBVIOUS
<1>6. PICK s : s = estados
  OBVIOUS
<1>7. PICK u : u = estados'
  OBVIOUS
<1>8. /\ activos' = alive /\ UNCHANGED <<known, yama, alive>>
      /\ \/ Abort(j, estados)
         \/ /\ \A k \in lost : Mirror(estados[k].block, n) # {}
            /\ u = InError(j, n) \o Entries(j, q)
  BY <1>2, <1>3, <1>4, <1>5, <1>7, TransformFailedIs DEF envVars
<1>9. Placed(s, alive)
  BY <1>6 DEF Together, Placed
<1>10. CASE Abort(j, estados)
  <2>1. RemoveStates(j, estados) /\ Placed(estados, alive)
    BY <1>6, <1>9, <1>10 DEF Abort
  <2>2. PICK A : A = alive
    OBVIOUS
  <2>3. Placed(estados, A)'
    BY <1>1, <2>1, <2>2, RemovePlaced
  <2>. QED BY <1>8, <2>2, <2>3 DEF Together, Placed
<1>11. CASE /\ \A k \in lost : Mirror(estados[k].block, n) # {}
            /\ u = InError(j, n) \o Entries(j, q)
  <2>1. \A k \in lost : to[s[k].block] \in Mirror(s[k].block, n) /\ to[s[k].block] \in Node \ {n}
    BY <1>1, <1>4, <1>6, <1>11, TargetIs
  <2>2. \A k \in lost : to[s[k].block] \in alive
    BY <2>1 DEF Mirror
  <2>3. /\ q \in Seq(Task)
        /\ \A i \in DOMAIN q : /\ InOrder(lost)[i] \in lost
                               /\ q[i].block = s[InOrder(lost)[i]].block
                               /\ q[i].nodo = to[q[i].block]
    <3>1. \A k \in lost : to[estados[k].block] \in Node
      BY <1>6, <2>1
    <3>. QED BY <1>1, <1>3, <1>5, <1>6, <3>1, AgainIs
  <2>4. \A i \in DOMAIN q : q[i].nodo \in alive /\ q[i].block \in Block
    <3>1. \A k \in lost : s[k].block \in Block
      BY <1>1, <1>3, <1>6, LostIs
    <3>. QED BY <2>2, <2>3, <3>1
  <2>5. PICK v : v = InError(j, n)
    OBVIOUS
  <2>6. v \in Seq(State) /\ Grows(j, s, v) /\ DOMAIN v = DOMAIN s
    <3>1. v \in Seq(State) /\ Grows(j, s, v) /\ Len(v) = Len(s) /\ s \in Seq(State)
      BY <1>1, <1>6, <2>5, InErrorIs DEF TypeOK
    <3>. QED BY <3>1
  <2>7. Placed(v, alive)
    BY <1>9, <2>6, PlacedSame
  <2>8. u \in Seq(State) /\ Grows(j, v, u) /\ Added(j, v, q, u)
    <3>1. \A i \in DOMAIN q : q[i].block \in Block
      BY <2>4
    <3>2. u = v \o Entries(j, q)
      BY <1>11, <2>5
    <3>. HIDE DEF State, Task
    <3>. QED BY <2>3, <2>6, <3>1, <3>2, ConcatGrows
  <2>9. \A k \in DOMAIN u \ DOMAIN v : u[k].nodo \in alive
    <3>1. TAKE k \in DOMAIN u \ DOMAIN v
    <3>2. PICK i : i = k - Len(v)
      OBVIOUS
    <3>3. i \in DOMAIN q /\ k = Len(v) + i
      <4>1. k \in Int /\ Len(v) \in Nat
        BY <2>6, <2>8
      <4>. QED BY <2>8, <3>2, <4>1 DEF Added
    <3>4. u[k] = Entry(j, q[i].nodo, q[i].block, {q[i].block})
      BY <2>8, <3>3 DEF Added
    <3>. QED BY <2>4, <3>3, <3>4 DEF Entry
  <2>10. Placed(u, alive)
    BY <2>7, <2>8, <2>9, PlacedGrows
  <2>. QED BY <1>7, <1>8, <2>10 DEF Together
<1>. QED BY <1>8, <1>10, <1>11

\* Finalize finds its entry in process.
LEMMA FinalizeTogether ==
  ASSUME IInv, Together, NEW j \in Job, Orderly(j),
         GlobalFailed(j) \/ Stored(j, TRUE) \/ Stored(j, FALSE)
  PROVE  Together'
<1>1. TypeOK
  BY DEF IInv
<1>2. PICK s : s = estados
  OBVIOUS
<1>3. PICK k : k = FirstOf(s, j)
  OBVIOUS
<1>4. PICK e \in {"ok", "error"} : Finalize(j, e)
  BY DEF GlobalFailed, Stored
<1>5. UNCHANGED <<known, activos, alive>>
  BY DEF GlobalFailed, Stored, envVars
<1>6. InProcess(j) # {}
  <2>1. PICK b \in {Global, Final}, ok \in BOOLEAN : Reads(j, {b}, ok)
    BY DEF GlobalFailed, Stored
  <2>. QED BY <2>1, ReadLast
<1>7. s \in Seq(State)
  BY <1>1, <1>2 DEF TypeOK
<1>8. k # 0 /\ k \in OfJob(s, j)
  BY <1>2, <1>3, <1>6, <1>7, FirstIs DEF InProcess
<1>9. PICK u : u = estados'
  OBVIOUS
<1>10. u = [s EXCEPT ![k].estado = e] /\ UNCHANGED yama
  BY <1>2, <1>3, <1>4, <1>8, <1>9, FinalizeIs
<1>11. Grows(j, s, u) /\ DOMAIN u = DOMAIN s
  <2>1. k \in DOMAIN s /\ s[k].job = j
    BY <1>8 DEF OfJob
  <2>2. PICK f \in {"proceso", "ok", "error"} : f = e
    OBVIOUS
  <2>3. u = [s EXCEPT ![k].estado = f]
    BY <1>10, <2>2
  <2>4. s[k] \in State
    BY <1>7, <2>1
  <2>5. /\ DOMAIN u = DOMAIN s /\ u[k] = [s[k] EXCEPT !.estado = f]
        /\ \A i \in DOMAIN s : i = k \/ u[i] = s[i]
    BY <2>1, <2>3
  <2>6. u[k].job = s[k].job /\ u[k].nodo = s[k].nodo /\ u[k].block = s[k].block
    BY <2>4, <2>5 DEF State
  <2>. QED BY <2>1, <2>5, <2>6 DEF Grows
<1>12. Placed(u, activos)
  <2>1. Placed(s, activos)
    BY <1>2 DEF Together
  <2>. QED BY <1>11, <2>1, PlacedSame
<1>. QED BY <1>5, <1>9, <1>10, <1>12 DEF Together
\* While no DataNode is lost YAMA has them all.
LEMMA JoinedSteps ==
  ASSUME IInv, Accounted, \A j \in Job : Orderly(j), Joined, [Next]_vars PROVE Joined'
<1>. SUFFICES ASSUME downs' = 0 PROVE Together'
  BY DEF Joined
<1>1. TypeOK
  BY DEF IInv
<1>2. ASSUME downs' = downs PROVE Together
  BY <1>2 DEF Joined
<1>3. ASSUME UNCHANGED <<estados, known, activos, yama, alive, downs>> PROVE Together'
  BY <1>2, <1>3 DEF Together, Placed
<1>4. CASE UNCHANGED vars
  BY <1>3, <1>4 DEF vars, loadVars, envVars
<1>5. ASSUME NEW j \in Job, Accept(j) PROVE Together'
  <2>1. downs' = downs
    BY <1>5 DEF Accept, RefuseJob, InitJob, InitJobFails, envVars
  <2>. QED BY <1>2, <1>5, <2>1, AcceptTogether
<1>6. ASSUME NEW j \in Job, Serve(j) PROVE Together'
  <2>1. downs' = downs
    BY <1>6 DEF Serve, TransformOk, TransformFailed, LocalOk, LocalFailed, GlobalOk, GlobalFailed,
       Stored, Disconnected, envVars
  <2>2. Together
    BY <1>2, <2>1
  <2>3. ASSUME LocalFailed(j) \/ Disconnected(j) PROVE Together'
    <3>1. UNCHANGED <<known, activos, yama, alive>>
      BY <2>3 DEF LocalFailed, Disconnected, envVars
    <3>2. PICK A : A = activos
      OBVIOUS
    <3>3. Placed(estados, A)
      BY <2>2, <3>2 DEF Together
    <3>4. RemoveStates(j, estados) \/ UNCHANGED estados
      BY <2>3 DEF LocalFailed, Disconnected, Abort
    <3>5. Placed(estados, A)'
      BY <1>1, <3>3, <3>4, RemovePlaced DEF Placed
    <3>. QED BY <2>2, <3>1, <3>2, <3>5 DEF Together, Placed
  <2>. QED BY <1>6, <2>2, <2>3, TransformOkTogether, TransformFailedTogether, LocalOkTogether,
       GlobalOkTogether, FinalizeTogether DEF Serve
<1>7. ASSUME NEW j \in Job, Work(j) \/ End(j) \/ Kill(j) PROVE Together'
  BY <1>3, <1>7 DEF Work, Done, Fail, End, Kill, loadVars, envVars
<1>8. CASE RemoveFile
  BY <1>3, <1>8 DEF RemoveFile, loadVars
<1>9. ASSUME NEW n \in Node, NodeUp(n) PROVE Together'
  <2>1. Together
    BY <1>2, <1>9 DEF NodeUp
  <2>2. alive \subseteq alive' /\ UNCHANGED <<estados, known, activos, yama>>
    BY <1>9 DEF NodeUp, loadVars
  <2>. QED BY <2>1, <2>2 DEF Together, Placed
<1>10. ASSUME NEW n \in Node, NodeDown(n) PROVE FALSE
  <2>1. downs' = downs + 1 /\ downs \in Nat
    BY <1>1, <1>10 DEF NodeDown, TypeOK
  <2>. QED BY <2>1
<1>11. CASE FileSystemLost
  <2>1. downs' = downs + 1 /\ downs \in Nat
    BY <1>1, <1>11 DEF FileSystemLost, TypeOK
  <2>. QED BY <2>1
<1>. QED BY <1>4, <1>5, <1>6, <1>7, <1>8, <1>9, <1>10, <1>11 DEF Next

\* YAMA does not crash while the DataNodes stay connected, and one node fails a
\* job's transformations, before the job reduces: it has the node of each answer,
\* and of each reduction, among the active ones, and a last stage in process to end.
THEOREM YamaSurvivesAlways == ASSUME ~AnyFails PROVE Spec => []YamaSurvives
<1>. DEFINE Inv == IInv /\ Accounted /\ (\A j \in Job : Orderly(j)) /\ Joined
<1>1. Init => Inv
  <2>1. Init => Joined
    BY DEF Init, Joined, Together, Placed
  <2>. QED BY <2>1, Starts, AccountedStarts, OrderlyStarts
<1>2. Inv /\ [Next]_vars => Inv'
  BY Steps, AccountedSteps, OrderlySteps, JoinedSteps
<1>3. Inv => YamaSurvives
  <2>1. IInv /\ Joined => YamaSurvives
    <3>. SUFFICES ASSUME IInv, Joined, yama = "crashed" PROVE downs > 0
      BY DEF YamaSurvives
    <3>1. downs \in Nat /\ downs # 0
      BY DEF IInv, TypeOK, Joined, Together
    <3>. QED BY <3>1
  <2>. QED BY <2>1
<1>. HIDE DEF Inv
<1>. QED BY <1>1, <1>2, <1>3, PTL DEF Spec
=============================================================================
