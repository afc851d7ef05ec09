----------------------------- MODULE FoldProofs -----------------------------
(***************************************************************************)
(* Sums over finite sets, and folds over sequences.  FreeBlocks of         *)
(* BlockStore and the loads of JobTable add up with MapThenSumSet of the   *)
(* community modules, which goes through a set in an order CHOOSE fixes:   *)
(* here is that a sum does not depend on it.  FoldLeft, with which FileCut *)
(* cuts a file, goes through the numbers of a sequence in the same way,    *)
(* the greatest last: here is that it makes one step after the other.      *)
(***************************************************************************)
EXTENDS Integers, SequencesExt, FiniteSetTheorems, SequenceTheorems, WellFoundedInduction,
        TLAPS

\* The sum of f[x] over the elements x of S.
SumOf(f, S) == MapThenSumSet(LAMBDA x : f[x], S)

\* g[s] is the sum of f over s, for every subset s of S.
Adds(g, f, S) ==
  g = [s \in SUBSET S |-> IF s = {} THEN 0
                          ELSE f[CHOOSE x \in s : TRUE] + g[s \ {CHOOSE x \in s : TRUE}]]

\* A set of finite sets has a member none of whose elements can be taken away.
LEMMA SmallestSet ==
  ASSUME NEW S, IsFiniteSet(S), NEW B, B \subseteq SUBSET S, B # {}
  PROVE  \E T \in B : \A x \in T : T \ {x} \notin B
<1>. DEFINE Sizes == {Cardinality(T) : T \in B}
<1>1. \A T \in SUBSET S : IsFiniteSet(T) /\ Cardinality(T) \in Nat
  BY FS_Subset, FS_CardinalityType
<1>2. Sizes \subseteq Nat /\ Sizes # {}
  BY <1>1
<1>3. IsWellFoundedOn(OpToRel(<, Nat), Nat)
  BY NatLessThanWellFounded
<1>. HIDE DEF Sizes
<1>4. PICK k \in Sizes : \A j \in Sizes : ~ (<<j, k>> \in OpToRel(<, Nat))
  BY <1>2, <1>3, WFMin
<1>5. \A j \in Sizes : ~ (j < k)
  BY <1>2, <1>4, Zenon DEF OpToRel
<1>6. PICK T \in B : k = Cardinality(T)
  BY <1>4 DEF Sizes
<1>7. ASSUME NEW x \in T, T \ {x} \in B
      PROVE  FALSE
  <2>1. Cardinality(T \ {x}) \in Sizes
    BY <1>7 DEF Sizes
  <2>2. Cardinality(T \ {x}) = Cardinality(T) - 1 /\ Cardinality(T) \in Nat
    BY <1>1, <1>6, <1>7, FS_RemoveElement
  <2>. QED BY <1>5, <1>6, <2>1, <2>2
<1>. QED BY <1>7

\* What such a function does with one set.
LEMMA AdderSteps ==
  ASSUME NEW f, NEW S, NEW g, Adds(g, f, S), NEW s \in SUBSET S
  PROVE  g[s] = IF s = {} THEN 0
                ELSE f[CHOOSE x \in s : TRUE] + g[s \ {CHOOSE x \in s : TRUE}]
  BY DEF Adds

\* Two functions that add up f agree where both are defined.
LEMMA AddersAgree ==
  ASSUME NEW f, NEW S, IsFiniteSet(S), NEW T,
         NEW g, Adds(g, f, S), NEW h, Adds(h, f, T)
  PROVE  \A s \in SUBSET (S \cap T) : g[s] = h[s]
<1>. DEFINE B == {s \in SUBSET (S \cap T) : g[s] # h[s]}
<1>1. SUFFICES ASSUME B # {} PROVE FALSE
  OBVIOUS
<1>2. PICK s \in B : \A x \in s : s \ {x} \notin B
  <2>1. B \subseteq SUBSET S
    OBVIOUS
  <2>. HIDE DEF B
  <2>. QED BY <1>1, <2>1, SmallestSet
<1>3. s \in SUBSET S /\ s \in SUBSET T
  OBVIOUS
<1>4. CASE s = {}
  BY <1>2, <1>3, <1>4 DEF Adds
<1>5. CASE s # {}
  <2>. DEFINE x == CHOOSE y \in s : TRUE
  <2>1. x \in s
    BY <1>5
  <2>2. g[s \ {x}] = h[s \ {x}]
    BY <1>2, <2>1
  <2>3. g[s] = f[x] + g[s \ {x}] /\ h[s] = f[x] + h[s \ {x}]
    BY <1>3, <1>5 DEF Adds
  <2>. QED BY <1>2, <2>2, <2>3
<1>. QED BY <1>4, <1>5

\* There is such a function.
LEMMA AdderExists ==
  ASSUME NEW f, NEW S, IsFiniteSet(S)
  PROVE  \E g : Adds(g, f, S)
<1>. DEFINE B == {T \in SUBSET S : ~ \E g : Adds(g, f, T)}
<1>1. SUFFICES ASSUME B # {} PROVE FALSE
  OBVIOUS
<1>2. PICK T \in B : \A x \in T : T \ {x} \notin B
  BY <1>1, SmallestSet
<1>. DEFINE part == [x \in T |-> CHOOSE g : Adds(g, f, T \ {x})]
            x0(s) == CHOOSE x \in s : TRUE
            out(s) == CHOOSE x \in T : x \notin s
            low(s) == part[out(s)][s]
            high == IF T = {} THEN 0 ELSE f[x0(T)] + low(T \ {x0(T)})
            all == [s \in SUBSET T |-> IF s = T THEN high ELSE low(s)]
<1>3. \A x \in T : Adds(part[x], f, T \ {x})
  BY <1>2
<1>4. \A s \in SUBSET T : s # T => out(s) \in T /\ s \subseteq T \ {out(s)}
  OBVIOUS
<1>5. ASSUME NEW s \in SUBSET T, s # T, s # {}
      PROVE  all[s] = f[x0(s)] + all[s \ {x0(s)}]
  <2>. DEFINE r == s \ {x0(s)}
  <2>1. x0(s) \in s /\ r \in SUBSET T /\ r # T
    BY <1>5
  <2>2. part[out(s)][s] = f[x0(s)] + part[out(s)][r]
    <3>1. s \in SUBSET (T \ {out(s)}) /\ Adds(part[out(s)], f, T \ {out(s)})
      BY <1>3, <1>4, <1>5
    <3>. HIDE DEF part, out
    <3>. QED BY <1>5, <3>1, AdderSteps
  <2>3. part[out(s)][r] = part[out(r)][r]
    <3>1. IsFiniteSet(T \ {out(s)})
      BY FS_Subset
    <3>2. r \in SUBSET ((T \ {out(s)}) \cap (T \ {out(r)}))
      BY <1>4, <1>5, <2>1
    <3>3. Adds(part[out(s)], f, T \ {out(s)}) /\ Adds(part[out(r)], f, T \ {out(r)})
      BY <1>3, <1>4, <1>5, <2>1
    <3>. HIDE DEF part, out, r
    <3>. QED BY <3>1, <3>2, <3>3, AddersAgree
  <2>4. all[s] = low(s) /\ all[r] = low(r)
    BY <1>5, <2>1
  <2>. HIDE DEF all, part, out
  <2>. QED BY <2>2, <2>3, <2>4
<1>6. T # {} => all[T] = f[x0(T)] + all[T \ {x0(T)}]
  OBVIOUS
<1>7. all[{}] = 0
  <2>1. CASE T = {}
    BY <2>1
  <2>2. CASE T # {}
    <3>1. {} \in SUBSET T /\ {} # T
      BY <2>2
    <3>2. Adds(part[out({})], f, T \ {out({})})
      BY <1>3, <1>4, <3>1
    <3>3. all[{}] = low({})
      BY <3>1
    <3>4. {} \in SUBSET (T \ {out({})})
      OBVIOUS
    <3>. HIDE DEF all, part, out
    <3>5. part[out({})][{}] = 0
      BY <3>2, <3>4 DEF Adds
    <3>. QED BY <3>3, <3>5
  <2>. QED BY <2>1, <2>2
<1>8. Adds(all, f, T)
  <2>. DEFINE rest(s) == IF s = {} THEN 0 ELSE f[x0(s)] + all[s \ {x0(s)}]
  <2>1. ASSUME NEW s \in SUBSET T
        PROVE  all[s] = rest(s)
    <3>. HIDE DEF all, x0
    <3>1. CASE s = {}
      BY <1>7, <3>1
    <3>2. CASE s # {} /\ s = T
      BY <1>6, <3>2
    <3>3. CASE s # {} /\ s # T
      BY <1>5, <3>3
    <3>. QED BY <3>1, <3>2, <3>3
  <2>2. all = [s \in SUBSET T |-> rest(s)]
    <3>1. all = [s \in SUBSET T |-> all[s]]
      OBVIOUS
    <3>. HIDE DEF all, rest
    <3>. QED BY <2>1, <3>1
  <2>. HIDE DEF all
  <2>. QED BY <2>2 DEF Adds
<1>. QED BY <1>2, <1>8

\* SumOf is what a function that adds up f gives.
LEMMA SumIsAdded ==
  ASSUME NEW f, NEW S, IsFiniteSet(S)
  PROVE  \E g : Adds(g, f, S) /\ SumOf(f, S) = g[S]
<1>1. PICK h : Adds(h, f, S)
  BY AdderExists
<1>. DEFINE it == CHOOSE g : Adds(g, f, S)
<1>2. Adds(it, f, S)
  BY <1>1
<1>3. SumOf(f, S) = it[S]
  BY DEF SumOf, MapThenSumSet, MapThenFoldSet, Adds
<1>. QED BY <1>2, <1>3
\* The sum over no element, and the element the sum over S begins with.
LEMMA SumBegins ==
  ASSUME NEW f, NEW S, IsFiniteSet(S)
  PROVE  /\ S = {} => SumOf(f, S) = 0
         /\ S # {} => LET x == CHOOSE y \in S : TRUE
                      IN  x \in S /\ SumOf(f, S) = f[x] + SumOf(f, S \ {x})
<1>1. PICK g : Adds(g, f, S) /\ SumOf(f, S) = g[S]
  BY SumIsAdded
<1>2. g[S] = IF S = {} THEN 0
             ELSE f[CHOOSE y \in S : TRUE] + g[S \ {CHOOSE y \in S : TRUE}]
  BY <1>1, AdderSteps
<1>3. ASSUME NEW x \in S
      PROVE  SumOf(f, S \ {x}) = g[S \ {x}]
  <2>1. IsFiniteSet(S \ {x})
    BY FS_Subset
  <2>2. PICK h : Adds(h, f, S \ {x}) /\ SumOf(f, S \ {x}) = h[S \ {x}]
    BY <2>1, SumIsAdded
  <2>3. S \ {x} \in SUBSET (S \cap (S \ {x}))
    OBVIOUS
  <2>4. g[S \ {x}] = h[S \ {x}]
    <3>1. Adds(g, f, S) /\ Adds(h, f, S \ {x})
      BY <1>1, <2>2
    <3>. QED BY <2>3, <3>1, AddersAgree
  <2>. QED BY <2>2, <2>4
<1>. QED BY <1>1, <1>2, <1>3

\* The sum over no element.
LEMMA SumEmpty == ASSUME NEW f PROVE SumOf(f, {}) = 0
  BY FS_EmptySet, SumBegins

\* A sum of integers is one.
LEMMA SumType ==
  ASSUME NEW S, IsFiniteSet(S), NEW f, \A x \in S : f[x] \in Int
  PROVE  SumOf(f, S) \in Int
<1>. DEFINE B == {T \in SUBSET S : SumOf(f, T) \notin Int}
<1>1. SUFFICES ASSUME B # {} PROVE FALSE
  OBVIOUS
<1>2. PICK T \in B : \A x \in T : T \ {x} \notin B
  <2>1. B \subseteq SUBSET S
    OBVIOUS
  <2>. HIDE DEF B
  <2>. QED BY <1>1, <2>1, SmallestSet
<1>3. IsFiniteSet(T) /\ T \subseteq S
  BY FS_Subset
<1>4. CASE T = {}
  BY <1>2, <1>4, SumEmpty
<1>5. CASE T # {}
  <2>. DEFINE x == CHOOSE y \in T : TRUE
  <2>1. x \in T /\ SumOf(f, T) = f[x] + SumOf(f, T \ {x})
    BY <1>3, <1>5, SumBegins
  <2>2. SumOf(f, T \ {x}) \in Int
    BY <1>2, <1>3, <2>1
  <2>. QED BY <1>2, <1>3, <2>1, <2>2
<1>. QED BY <1>4, <1>5

\* A sum may begin with any element.
LEMMA SumTakes ==
  ASSUME NEW S, IsFiniteSet(S), NEW f, \A x \in S : f[x] \in Int, NEW y \in S
  PROVE  SumOf(f, S) = f[y] + SumOf(f, S \ {y})
<1>. DEFINE B == {T \in SUBSET S : \E z \in T : SumOf(f, T) # f[z] + SumOf(f, T \ {z})}
<1>1. SUFFICES ASSUME B # {} PROVE FALSE
  OBVIOUS
<1>2. PICK T \in B : \A x \in T : T \ {x} \notin B
  <2>1. B \subseteq SUBSET S
    OBVIOUS
  <2>. HIDE DEF B
  <2>. QED BY <1>1, <2>1, SmallestSet
<1>3. PICK z \in T : SumOf(f, T) # f[z] + SumOf(f, T \ {z})
  BY <1>2
<1>. DEFINE x == CHOOSE w \in T : TRUE
<1>4. \A U \in SUBSET S : IsFiniteSet(U) /\ SumOf(f, U) \in Int
  <2>1. ASSUME NEW U \in SUBSET S
        PROVE  IsFiniteSet(U) /\ SumOf(f, U) \in Int
    BY FS_Subset, SumType
  <2>. QED BY <2>1
<1>5. x \in T /\ SumOf(f, T) = f[x] + SumOf(f, T \ {x})
  BY <1>3, <1>4, SumBegins
<1>6. x # z
  BY <1>3, <1>5
<1>7. SumOf(f, T \ {x}) = f[z] + SumOf(f, (T \ {x}) \ {z})
  BY <1>2, <1>3, <1>5, <1>6
<1>8. SumOf(f, T \ {z}) = f[x] + SumOf(f, (T \ {z}) \ {x})
  BY <1>2, <1>3, <1>5, <1>6
<1>9. (T \ {x}) \ {z} = (T \ {z}) \ {x}
  OBVIOUS
<1>10. f[x] \in Int /\ f[z] \in Int /\ SumOf(f, (T \ {x}) \ {z}) \in Int
  BY <1>4, <1>5
<1>. HIDE DEF x
<1>. QED BY <1>3, <1>5, <1>7, <1>8, <1>9, <1>10

\* A sum depends on what it adds up only.
LEMMA SumSame ==
  ASSUME NEW S, IsFiniteSet(S), NEW f, NEW g, \A x \in S : f[x] = g[x]
  PROVE  SumOf(f, S) = SumOf(g, S)
<1>. DEFINE B == {T \in SUBSET S : SumOf(f, T) # SumOf(g, T)}
<1>1. SUFFICES ASSUME B # {} PROVE FALSE
  OBVIOUS
<1>2. PICK T \in B : \A x \in T : T \ {x} \notin B
  <2>1. B \subseteq SUBSET S
    OBVIOUS
  <2>. HIDE DEF B
  <2>. QED BY <1>1, <2>1, SmallestSet
<1>3. IsFiniteSet(T) /\ T \subseteq S
  BY FS_Subset
<1>4. CASE T = {}
  BY <1>2, <1>4, SumEmpty
<1>5. CASE T # {}
  <2>. DEFINE x == CHOOSE y \in T : TRUE
  <2>1. x \in T /\ SumOf(f, T) = f[x] + SumOf(f, T \ {x})
             /\ SumOf(g, T) = g[x] + SumOf(g, T \ {x})
    BY <1>3, <1>5, SumBegins
  <2>2. SumOf(f, T \ {x}) = SumOf(g, T \ {x})
    BY <1>2, <1>3, <2>1
  <2>. QED BY <1>2, <1>3, <2>1, <2>2
<1>. QED BY <1>4, <1>5

\* A sum is less when each of what it adds up is.
LEMMA SumBelow ==
  ASSUME NEW S, IsFiniteSet(S), NEW f, NEW g,
         \A x \in S : f[x] \in Int /\ g[x] \in Int /\ f[x] <= g[x]
  PROVE  SumOf(f, S) <= SumOf(g, S)
<1>. DEFINE B == {T \in SUBSET S : ~ (SumOf(f, T) <= SumOf(g, T))}
<1>1. SUFFICES ASSUME B # {} PROVE FALSE
  OBVIOUS
<1>2. PICK T \in B : \A x \in T : T \ {x} \notin B
  <2>1. B \subseteq SUBSET S
    OBVIOUS
  <2>. HIDE DEF B
  <2>. QED BY <1>1, <2>1, SmallestSet
<1>3. \A U \in SUBSET S : IsFiniteSet(U) /\ SumOf(f, U) \in Int /\ SumOf(g, U) \in Int
  <2>1. ASSUME NEW U \in SUBSET S
        PROVE  IsFiniteSet(U) /\ SumOf(f, U) \in Int /\ SumOf(g, U) \in Int
    BY FS_Subset, SumType
  <2>. QED BY <2>1
<1>4. CASE T = {}
  BY <1>2, <1>4, SumEmpty
<1>5. CASE T # {}
  <2>. DEFINE x == CHOOSE y \in T : TRUE
  <2>1. x \in T /\ SumOf(f, T) = f[x] + SumOf(f, T \ {x})
             /\ SumOf(g, T) = g[x] + SumOf(g, T \ {x})
    BY <1>3, <1>5, SumBegins
  <2>2. SumOf(f, T \ {x}) <= SumOf(g, T \ {x})
    BY <1>2, <2>1
  <2>3. x \in S /\ T \ {x} \in SUBSET S
    BY <2>1
  <2>. HIDE DEF x
  <2>. QED BY <1>2, <1>3, <2>1, <2>2, <2>3
<1>. QED BY <1>4, <1>5

\* A sum when one of what it adds up changes.
LEMMA SumChanges ==
  ASSUME NEW S, IsFiniteSet(S), NEW f, NEW g, NEW y \in S,
         \A x \in S : f[x] \in Int /\ g[x] \in Int,
         \A x \in S \ {y} : f[x] = g[x]
  PROVE  SumOf(g, S) = SumOf(f, S) + g[y] - f[y]
<1>1. SumOf(f, S) = f[y] + SumOf(f, S \ {y}) /\ SumOf(g, S) = g[y] + SumOf(g, S \ {y})
  BY SumTakes
<1>2. IsFiniteSet(S \ {y})
  BY FS_Subset
<1>3. SumOf(f, S \ {y}) = SumOf(g, S \ {y}) /\ SumOf(f, S \ {y}) \in Int
  BY <1>2, SumSame, SumType
<1>. QED BY <1>1, <1>3

\* The sum of zeros.
LEMMA SumZero ==
  ASSUME NEW S, IsFiniteSet(S), NEW f, \A x \in S : f[x] = 0
  PROVE  SumOf(f, S) = 0
<1>. DEFINE B == {T \in SUBSET S : SumOf(f, T) # 0}
<1>1. SUFFICES ASSUME B # {} PROVE FALSE
  OBVIOUS
<1>2. PICK T \in B : \A x \in T : T \ {x} \notin B
  <2>1. B \subseteq SUBSET S
    OBVIOUS
  <2>. HIDE DEF B
  <2>. QED BY <1>1, <2>1, SmallestSet
<1>3. IsFiniteSet(T) /\ T \subseteq S
  BY FS_Subset
<1>4. CASE T = {}
  BY <1>2, <1>4, SumEmpty
<1>5. CASE T # {}
  <2>. DEFINE x == CHOOSE y \in T : TRUE
  <2>1. x \in T /\ SumOf(f, T) = f[x] + SumOf(f, T \ {x})
    BY <1>3, <1>5, SumBegins
  <2>2. SumOf(f, T \ {x}) = 0 /\ f[x] = 0
    BY <1>2, <1>3, <2>1
  <2>. QED BY <1>2, <2>1, <2>2
<1>. QED BY <1>4, <1>5

\* A sum of more elements that are not negative is no less.
LEMMA SumWider ==
  ASSUME NEW S, IsFiniteSet(S), NEW R, R \subseteq S, NEW f,
         \A x \in S : f[x] \in Int, \A x \in S \ R : f[x] >= 0
  PROVE  SumOf(f, R) <= SumOf(f, S)
<1>. DEFINE B == {T \in SUBSET (S \ R) : ~ (SumOf(f, R) <= SumOf(f, R \cup T))}
<1>1. SUFFICES ASSUME B # {} PROVE FALSE
  <2>1. S \ R \notin B
    OBVIOUS
  <2>2. R \cup (S \ R) = S
    OBVIOUS
  <2>. QED BY <2>1, <2>2
<1>2. IsFiniteSet(S \ R)
  BY FS_Subset
<1>3. PICK T \in B : \A x \in T : T \ {x} \notin B
  <2>1. B \subseteq SUBSET (S \ R)
    OBVIOUS
  <2>. HIDE DEF B
  <2>. QED BY <1>1, <1>2, <2>1, SmallestSet
<1>4. \A U \in SUBSET S : IsFiniteSet(U) /\ SumOf(f, U) \in Int
  <2>1. ASSUME NEW U \in SUBSET S
        PROVE  IsFiniteSet(U) /\ SumOf(f, U) \in Int
    BY FS_Subset, SumType
  <2>. QED BY <2>1
<1>5. CASE T = {}
  <2>1. R \cup T = R /\ R \in SUBSET S
    BY <1>5
  <2>. QED BY <1>3, <1>4, <2>1
<1>6. CASE T # {}
  <2>1. PICK x \in T : TRUE
    BY <1>6
  <2>2. SumOf(f, R) <= SumOf(f, R \cup (T \ {x}))
    BY <1>3, <2>1
  <2>3. (R \cup T) \ {x} = R \cup (T \ {x}) /\ x \in R \cup T /\ R \cup T \in SUBSET S
    BY <2>1
  <2>4. SumOf(f, R \cup T) = f[x] + SumOf(f, R \cup (T \ {x}))
    BY <1>4, <2>3, SumTakes
  <2>5. f[x] \in Int /\ f[x] >= 0 /\ R \cup (T \ {x}) \in SUBSET S /\ R \in SUBSET S
    BY <2>1
  <2>. QED BY <1>3, <1>4, <2>2, <2>4, <2>5
<1>. QED BY <1>5, <1>6
\* What a sum leaves out may be zeros.
LEMMA SumSupport ==
  ASSUME NEW S, IsFiniteSet(S), NEW R, R \subseteq S, NEW f,
         \A x \in R : f[x] \in Int, \A x \in S \ R : f[x] = 0
  PROVE  SumOf(f, S) = SumOf(f, R)
<1>. DEFINE B == {T \in SUBSET (S \ R) : SumOf(f, R \cup T) # SumOf(f, R)}
<1>1. SUFFICES ASSUME B # {} PROVE FALSE
  <2>1. S \ R \notin B
    OBVIOUS
  <2>2. R \cup (S \ R) = S
    OBVIOUS
  <2>. QED BY <2>1, <2>2
<1>2. IsFiniteSet(S \ R) /\ \A x \in S : f[x] \in Int
  BY FS_Subset
<1>3. PICK T \in B : \A x \in T : T \ {x} \notin B
  <2>1. B \subseteq SUBSET (S \ R)
    OBVIOUS
  <2>. HIDE DEF B
  <2>. QED BY <1>1, <1>2, <2>1, SmallestSet
<1>4. \A U \in SUBSET S : IsFiniteSet(U) /\ SumOf(f, U) \in Int
  <2>1. ASSUME NEW U \in SUBSET S
        PROVE  IsFiniteSet(U) /\ SumOf(f, U) \in Int
    BY <1>2, FS_Subset, SumType
  <2>. QED BY <2>1
<1>5. PICK x \in T : TRUE
  <2>1. R \cup {} = R
    OBVIOUS
  <2>. QED BY <1>3, <2>1
<1>6. SumOf(f, R \cup (T \ {x})) = SumOf(f, R)
  BY <1>3, <1>5
<1>7. (R \cup T) \ {x} = R \cup (T \ {x}) /\ x \in R \cup T /\ R \cup T \in SUBSET S
  BY <1>3, <1>5
<1>8. SumOf(f, R \cup T) = f[x] + SumOf(f, R \cup (T \ {x}))
  <2>1. \A y \in R \cup T : f[y] \in Int
    BY <1>2, <1>7
  <2>. QED BY <1>4, <1>7, <2>1, SumTakes
<1>9. f[x] = 0 /\ SumOf(f, R) \in Int
  BY <1>4, <1>5
<1>. QED BY <1>3, <1>6, <1>8, <1>9
-----------------------------------------------------------------------------

\* A set of naturals that has 0 and, with each number less than n, the next.
LEMMA CountUp ==
  ASSUME NEW n \in Nat, NEW S, 0 \in S, \A k \in 0 .. n - 1 : k \in S => k + 1 \in S
  PROVE  0 .. n \subseteq S
<1>. DEFINE B == {k \in 0 .. n : k \notin S}
<1>1. SUFFICES ASSUME B # {} PROVE FALSE
  OBVIOUS
<1>2. PICK k \in B : \A j \in B : ~ (j < k)
  <2>1. B \subseteq Nat
    OBVIOUS
  <2>2. IsWellFoundedOn(OpToRel(<, Nat), Nat)
    BY NatLessThanWellFounded
  <2>. HIDE DEF B
  <2>3. PICK k \in B : \A j \in B : ~ (<<j, k>> \in OpToRel(<, Nat))
    BY <1>1, <2>1, <2>2, WFMin
  <2>. QED BY <2>1, <2>3, Zenon DEF OpToRel
<1>3. k # 0 /\ k \in 0 .. n
  BY <1>2
<1>4. k - 1 \in 0 .. n - 1 /\ k - 1 \notin B
  BY <1>2, <1>3
<1>. QED BY <1>2, <1>3, <1>4

\* g[s] is what F makes of base and of the elements of s, in their order.
Runs(g, F, base, S) ==
  g = [s \in SUBSET S |-> IF s = {} THEN base ELSE F[<<g[s \ {Max(s)}], Max(s)>>]]

\* The greatest number of a finite set is one of them.
LEMMA MaxIsIn ==
  ASSUME NEW n \in Nat, NEW s \in SUBSET (1 .. n), s # {}
  PROVE  Max(s) \in s /\ \A x \in s : Max(s) >= x
<1>. DEFINE B == {k \in Nat : \A x \in s : k >= x}
<1>1. n \in B
  OBVIOUS
<1>2. PICK k \in B : \A j \in B : ~ (j < k)
  <2>1. B \subseteq Nat /\ B # {}
    BY <1>1
  <2>2. IsWellFoundedOn(OpToRel(<, Nat), Nat)
    BY NatLessThanWellFounded
  <2>. HIDE DEF B
  <2>3. PICK k \in B : \A j \in B : ~ (<<j, k>> \in OpToRel(<, Nat))
    BY <2>1, <2>2, WFMin
  <2>. QED BY <2>1, <2>3, Zenon DEF OpToRel
<1>3. k \in s
  <2>1. SUFFICES ASSUME k \notin s PROVE FALSE
    OBVIOUS
  <2>2. PICK x \in s : TRUE
    OBVIOUS
  <2>3. k - 1 \in Nat
    BY <1>2, <2>1, <2>2
  <2>4. \A y \in s : k - 1 >= y
    BY <1>2, <2>1
  <2>. QED BY <1>2, <2>3, <2>4
<1>4. \E y \in s : \A x \in s : y >= x
  BY <1>2, <1>3
<1>. QED BY <1>4, Zenon DEF Max


\* Two functions that run through the same agree where both are defined.
LEMMA RunsAgree ==
  ASSUME NEW F, NEW base, NEW n \in Nat, NEW S, S \subseteq 1 .. n, NEW T,
         NEW g, Runs(g, F, base, S), NEW h, Runs(h, F, base, T)
  PROVE  \A s \in SUBSET (S \cap T) : g[s] = h[s]
<1>. DEFINE B == {s \in SUBSET (S \cap T) : g[s] # h[s]}
<1>1. SUFFICES ASSUME B # {} PROVE FALSE
  OBVIOUS
<1>2. PICK s \in B : \A x \in s : s \ {x} \notin B
  <2>1. B \subseteq SUBSET (1 .. n)
    OBVIOUS
  <2>2. IsFiniteSet(1 .. n)
    BY FS_Interval
  <2>. HIDE DEF B
  <2>. QED BY <1>1, <2>1, <2>2, SmallestSet
<1>3. s \in SUBSET S /\ s \in SUBSET T /\ s \in SUBSET (1 .. n)
  OBVIOUS
<1>4. CASE s = {}
  BY <1>2, <1>3, <1>4 DEF Runs
<1>5. CASE s # {}
  <2>1. Max(s) \in s
    BY <1>3, <1>5, MaxIsIn
  <2>2. g[s \ {Max(s)}] = h[s \ {Max(s)}]
    BY <1>2, <2>1
  <2>3. g[s] = F[<<g[s \ {Max(s)}], Max(s)>>] /\ h[s] = F[<<h[s \ {Max(s)}], Max(s)>>]
    <3>1. \A t \in SUBSET S : g[t] = IF t = {} THEN base ELSE F[<<g[t \ {Max(t)}], Max(t)>>]
      BY DEF Runs
    <3>2. \A t \in SUBSET T : h[t] = IF t = {} THEN base ELSE F[<<h[t \ {Max(t)}], Max(t)>>]
      BY DEF Runs
    <3>. QED BY <1>3, <1>5, <3>1, <3>2
  <2>. QED BY <1>2, <2>2, <2>3
<1>. QED BY <1>4, <1>5

\* There is such a function.
LEMMA RunExists ==
  ASSUME NEW F, NEW base, NEW n \in Nat
  PROVE  \E g : Runs(g, F, base, 1 .. n)
<1>. DEFINE S == 1 .. n
            B == {T \in SUBSET S : ~ \E g : Runs(g, F, base, T)}
<1>1. SUFFICES ASSUME B # {} PROVE FALSE
  OBVIOUS
<1>2. PICK T \in B : \A x \in T : T \ {x} \notin B
  <2>1. B \subseteq SUBSET S /\ IsFiniteSet(S)
    BY FS_Interval
  <2>. HIDE DEF B, S
  <2>. QED BY <1>1, <2>1, SmallestSet
<1>. DEFINE part == [x \in T |-> CHOOSE g : Runs(g, F, base, T \ {x})]
            out(s) == CHOOSE x \in T : x \notin s
            low(s) == part[out(s)][s]
            high == IF T = {} THEN base ELSE F[<<low(T \ {Max(T)}), Max(T)>>]
            all == [s \in SUBSET T |-> IF s = T THEN high ELSE low(s)]
<1>3. \A x \in T : Runs(part[x], F, base, T \ {x})
  BY <1>2
<1>4. \A s \in SUBSET T : s # T => out(s) \in T /\ s \subseteq T \ {out(s)}
  OBVIOUS
<1>m. \A s \in SUBSET T : s # {} => Max(s) \in s
  BY MaxIsIn
<1>5. ASSUME NEW s \in SUBSET T, s # T, s # {}
      PROVE  all[s] = F[<<all[s \ {Max(s)}], Max(s)>>]
  <2>. DEFINE r == s \ {Max(s)}
  <2>1. Max(s) \in s /\ r \in SUBSET T /\ r # T
    BY <1>5, <1>m
  <2>2. part[out(s)][s] = F[<<part[out(s)][r], Max(s)>>]
    <3>1. s \in SUBSET (T \ {out(s)}) /\ Runs(part[out(s)], F, base, T \ {out(s)})
      BY <1>3, <1>4, <1>5
    <3>. HIDE DEF part, out
    <3>2. \A t \in SUBSET (T \ {out(s)}) :
            part[out(s)][t] = IF t = {} THEN base
                              ELSE F[<<part[out(s)][t \ {Max(t)}], Max(t)>>]
      BY <3>1 DEF Runs
    <3>. QED BY <1>5, <3>1, <3>2
  <2>3. part[out(s)][r] = part[out(r)][r]
    <3>1. T \ {out(s)} \subseteq 1 .. n
      OBVIOUS
    <3>2. r \in SUBSET ((T \ {out(s)}) \cap (T \ {out(r)}))
      BY <1>4, <1>5, <2>1
    <3>3. Runs(part[out(s)], F, base, T \ {out(s)}) /\ Runs(part[out(r)], F, base, T \ {out(r)})
      BY <1>3, <1>4, <1>5, <2>1
    <3>. HIDE DEF part, out, r
    <3>. QED BY <3>1, <3>2, <3>3, RunsAgree
  <2>4. all[s] = low(s) /\ all[r] = low(r)
    BY <1>5, <2>1
  <2>. HIDE DEF all, part, out
  <2>. QED BY <2>2, <2>3, <2>4
<1>6. T # {} => all[T] = F[<<all[T \ {Max(T)}], Max(T)>>]
  BY <1>m
<1>7. all[{}] = base
  <2>1. CASE T = {}
    BY <2>1
  <2>2. CASE T # {}
    <3>1. {} \in SUBSET T /\ {} # T
      BY <2>2
    <3>2. Runs(part[out({})], F, base, T \ {out({})})
      BY <1>3, <1>4, <3>1
    <3>3. all[{}] = low({})
      BY <3>1
    <3>4. {} \in SUBSET (T \ {out({})})
      OBVIOUS
    <3>. HIDE DEF all, part, out
    <3>5. part[out({})][{}] = base
      BY <3>2, <3>4 DEF Runs
    <3>. QED BY <3>3, <3>5
  <2>. QED BY <2>1, <2>2
<1>8. Runs(all, F, base, T)
  <2>. DEFINE rest(s) == IF s = {} THEN base ELSE F[<<all[s \ {Max(s)}], Max(s)>>]
  <2>1. ASSUME NEW s \in SUBSET T
        PROVE  all[s] = rest(s)
    <3>. HIDE DEF all
    <3>1. CASE s = {}
      BY <1>7, <3>1
    <3>2. CASE s # {} /\ s = T
      BY <1>6, <3>2
    <3>3. CASE s # {} /\ s # T
      BY <1>5, <3>3
    <3>. QED BY <3>1, <3>2, <3>3
  <2>2. all = [s \in SUBSET T |-> rest(s)]
    <3>1. all = [s \in SUBSET T |-> all[s]]
      OBVIOUS
    <3>. HIDE DEF all, rest
    <3>. QED BY <2>1, <3>1
  <2>. HIDE DEF all
  <2>. QED BY <2>2 DEF Runs
<1>. QED BY <1>2, <1>8

\* Such a function, when F makes values of V of values of V.
LEMMA RunType ==
  ASSUME NEW V, NEW base \in V, NEW n \in Nat, NEW F \in [V \X (1 .. n) -> V],
         NEW g, Runs(g, F, base, 1 .. n)
  PROVE  g \in [SUBSET (1 .. n) -> V]
<1>. DEFINE B == {s \in SUBSET (1 .. n) : g[s] \notin V}
<1>1. SUFFICES B = {}
  BY DEF Runs
<1>2. SUFFICES ASSUME B # {} PROVE FALSE
  OBVIOUS
<1>3. PICK s \in B : \A x \in s : s \ {x} \notin B
  <2>1. B \subseteq SUBSET (1 .. n) /\ IsFiniteSet(1 .. n)
    BY FS_Interval
  <2>. HIDE DEF B
  <2>. QED BY <1>2, <2>1, SmallestSet
<1>4. g[s] = IF s = {} THEN base ELSE F[<<g[s \ {Max(s)}], Max(s)>>]
  <2>1. \A t \in SUBSET (1 .. n) :
          g[t] = IF t = {} THEN base ELSE F[<<g[t \ {Max(t)}], Max(t)>>]
    BY DEF Runs
  <2>. QED BY <2>1
<1>5. s # {}
  BY <1>3, <1>4
<1>6. Max(s) \in s
  BY <1>5, MaxIsIn
<1>7. g[s \ {Max(s)}] \in V
  BY <1>3, <1>6
<1>. QED BY <1>3, <1>4, <1>5, <1>6, <1>7

\* h[k] is what F makes of base and of the first k numbers, one after the other,
\* and total what it makes of all.
Along(h, F, base, V, n, total) ==
  /\ h \in [0 .. n -> V] /\ h[0] = base /\ h[n] = total
  /\ \A k \in 1 .. n : h[k] = F[<<h[k - 1], k>>]

\* Such a function is one of those, seen along the first numbers.
LEMMA RunsAlong ==
  ASSUME NEW V, NEW base \in V, NEW n \in Nat, NEW F \in [V \X (1 .. n) -> V],
         NEW g, Runs(g, F, base, 1 .. n)
  PROVE  \E h : Along(h, F, base, V, n, g[1 .. n])
<1>. DEFINE h == [k \in 0 .. n |-> g[1 .. k]]
<1>1. g \in [SUBSET (1 .. n) -> V]
  BY RunType
<1>2. h \in [0 .. n -> V]
  BY <1>1
<1>3. h[0] = base
  <2>1. 1 .. 0 = {}
    OBVIOUS
  <2>. QED BY <2>1 DEF Runs
<1>4. ASSUME NEW k \in 1 .. n
      PROVE  h[k] = F[<<h[k - 1], k>>]
  <2>1. 1 .. k \in SUBSET (1 .. n) /\ 1 .. k # {} /\ k \in 1 .. k
    OBVIOUS
  <2>2. Max(1 .. k) \in 1 .. k /\ Max(1 .. k) >= k
    BY <2>1, MaxIsIn
  <2>3. Max(1 .. k) = k
    BY <2>2
  <2>4. (1 .. k) \ {k} = 1 .. k - 1
    OBVIOUS
  <2>5. g[1 .. k] = F[<<g[(1 .. k) \ {Max(1 .. k)}], Max(1 .. k)>>]
    <3>1. \A t \in SUBSET (1 .. n) :
            g[t] = IF t = {} THEN base ELSE F[<<g[t \ {Max(t)}], Max(t)>>]
      BY DEF Runs
    <3>. QED BY <2>1, <3>1
  <2>6. h[k] = g[1 .. k] /\ h[k - 1] = g[1 .. k - 1]
    OBVIOUS
  <2>. HIDE DEF h
  <2>. QED BY <2>3, <2>4, <2>5, <2>6
<1>. HIDE DEF h
<1>5. h[n] = g[1 .. n]
  BY DEF h
<1>. QED BY <1>2, <1>3, <1>4, <1>5 DEF Along

\* A loop over n numbers goes through these values.
Loops(h, F, base, V, n) ==
  h \in [0 .. n -> V] /\ h[0] = base /\ \A k \in 1 .. n : h[k] = F[<<h[k - 1], k>>]

LEMMA LoopExists ==
  ASSUME NEW V, NEW base \in V, NEW n \in Nat, NEW F \in [V \X (1 .. n) -> V]
  PROVE  \E h : Loops(h, F, base, V, n)
<1>1. PICK g : Runs(g, F, base, 1 .. n)
  BY RunExists
<1>2. PICK h : Along(h, F, base, V, n, g[1 .. n])
  BY <1>1, RunsAlong
<1>. QED BY <1>2 DEF Along, Loops

\* A function that does with values of V what F does is one that runs through F.
LEMMA RunsLike ==
  ASSUME NEW V, NEW base \in V, NEW n \in Nat, NEW F \in [V \X (1 .. n) -> V],
         NEW g, g = [s \in SUBSET (1 .. n) |-> g[s]], g[{}] = base,
         \A s \in SUBSET (1 .. n) :
           s # {} /\ g[s \ {Max(s)}] \in V => g[s] = F[<<g[s \ {Max(s)}], Max(s)>>]
  PROVE  Runs(g, F, base, 1 .. n)
<1>. DEFINE B == {s \in SUBSET (1 .. n) : g[s] \notin V}
<1>1. B = {}
  <2>1. SUFFICES ASSUME B # {} PROVE FALSE
    OBVIOUS
  <2>2. PICK s \in B : \A x \in s : s \ {x} \notin B
    <3>1. B \subseteq SUBSET (1 .. n) /\ IsFiniteSet(1 .. n)
      BY FS_Interval
    <3>. HIDE DEF B
    <3>. QED BY <2>1, <3>1, SmallestSet
  <2>3. s # {}
    BY <2>2
  <2>4. Max(s) \in s
    BY <2>3, MaxIsIn
  <2>5. g[s \ {Max(s)}] \in V
    BY <2>2, <2>4
  <2>. QED BY <2>2, <2>3, <2>4, <2>5
<1>2. ASSUME NEW s \in SUBSET (1 .. n)
      PROVE  g[s] = IF s = {} THEN base ELSE F[<<g[s \ {Max(s)}], Max(s)>>]
  BY <1>1
<1>. HIDE DEF B
<1>. QED BY <1>2 DEF Runs
\* What FlattenSeq has put together after each sequence.
Flattens(f, m) ==
  f = [i \in 1 .. Len(m) |-> IF i = 1 THEN m[i] ELSE f[i - 1] \o m[i]]

\* It is there: the recursion of FlattenSeq defines something.
LEMMA FlattenExists ==
  ASSUME NEW V, NEW m \in Seq(Seq(V))
  PROVE  \E f : Flattens(f, m)
<1>. DEFINE n == Len(m)
            W == Seq(V)
            base == <<>>
            F == [x \in W \X (1 .. n) |-> x[1] \o m[x[2]]]
<1>1. n \in Nat /\ m \in [1 .. n -> W] /\ base \in W
  OBVIOUS
<1>2. F \in [W \X (1 .. n) -> W]
  BY <1>1, ConcatProperties
<1>3. PICK g : Runs(g, F, base, 1 .. n)
  BY <1>1, RunExists
<1>4. PICK h : Along(h, F, base, W, n, g[1 .. n])
  <2>. HIDE DEF F, n, base, W
  <2>. QED BY <1>1, <1>2, <1>3, RunsAlong
<1>5. h \in [0 .. n -> W] /\ h[0] = base /\ \A k \in 1 .. n : h[k] = F[<<h[k - 1], k>>]
  <2>. HIDE DEF F, base, W
  <2>. QED BY <1>4 DEF Along
<1>6. ASSUME NEW k \in 1 .. n
      PROVE  h[k] = IF k = 1 THEN m[k] ELSE h[k - 1] \o m[k]
  <2>1. k - 1 \in 0 .. n
    BY <1>1
  <2>2. h[k - 1] \in W /\ m[k] \in W
    BY <1>1, <1>5, <2>1
  <2>3. h[k] = h[k - 1] \o m[k]
    <3>1. h[k] = F[<<h[k - 1], k>>]
      BY <1>5
    <3>. HIDE DEF W
    <3>. QED BY <2>2, <3>1
  <2>4. k = 1 => h[k - 1] \o m[k] = m[k]
    <3>1. k = 1 => h[k - 1] = <<>>
      BY <1>5
    <3>2. m[k] \in Seq(V)
      BY <2>2
    <3>3. <<>> \o m[k] = m[k]
      BY <3>2, ConcatEmptySeq
    <3>. QED BY <3>1, <3>3
  <2>. QED BY <2>3, <2>4
<1>. DEFINE f == [i \in 1 .. n |-> h[i]]
<1>7. ASSUME NEW k \in 1 .. n
      PROVE  f[k] = IF k = 1 THEN m[k] ELSE f[k - 1] \o m[k]
  <2>1. k # 1 => f[k - 1] = h[k - 1]
    BY <1>1
  <2>. QED BY <1>6, <2>1
<1>8. Flattens(f, m)
  BY <1>7 DEF Flattens
<1>. QED BY <1>8
=============================================================================
