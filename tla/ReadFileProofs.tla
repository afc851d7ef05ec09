--------------------------- MODULE ReadFileProofs ---------------------------
(***************************************************************************)
(* What is shown of a file is the file that was stored, whatever copies    *)
(* its blocks are read from and whatever connections are lost.  Half of it *)
(* is about FileCut: how Partition fills the blocks, that BinFile has as   *)
(* many as CountBlocks says, and that Reconstruct undoes Partition.  The   *)
(* other half is the invariant of a read, ReadInv: as many blocks are in   *)
(* their places as were counted, so that all are when the console wakes.   *)
(***************************************************************************)
EXTENDS ReadFile, FoldProofs
-----------------------------------------------------------------------------
(* How a file is cut.                                                      *)

\* The sums of the beginnings of a sequence of naturals.
Totals(h, s) ==
  /\ h \in [0 .. Len(s) -> Nat] /\ h[0] = 0
  /\ \A k \in 1 .. Len(s) : h[k] = h[k - 1] + s[k]

\* The sum of a sequence of naturals.
SumSeq(s) == FoldLeft(+, 0, s)

\* It is the last of the sums of its beginnings.
LEMMA SumIsTotal ==
  ASSUME NEW s \in Seq(Nat)
  PROVE  \E h : Totals(h, s) /\ SumSeq(s) = h[Len(s)]
<1>. DEFINE n == Len(s)
            F == [x \in Nat \X (1 .. n) |-> x[1] + s[x[2]]]
            Adds2(it) == it = [t \in SUBSET (1 .. n) |->
                               IF t = {} THEN 0 ELSE it[t \ {Max(t)}] + s[Max(t)]]
            V == Nat
            zero == 0
            it0 == CHOOSE it : Adds2(it)
<1>1. n \in Nat /\ zero \in V /\ s \in [1 .. n -> Nat] /\ DOMAIN s = 1 .. n
  OBVIOUS
<1>2. F \in [V \X (1 .. n) -> V]
  BY <1>1
<1>3. PICK g : Runs(g, F, 0, 1 .. n)
  BY <1>1, RunExists
<1>4. g \in [SUBSET (1 .. n) -> Nat]
  BY <1>1, <1>2, <1>3, RunType
<1>5. Adds2(g)
  <2>1. ASSUME NEW t \in SUBSET (1 .. n), t # {}
        PROVE  F[<<g[t \ {Max(t)}], Max(t)>>] = g[t \ {Max(t)}] + s[Max(t)]
    <3>1. Max(t) \in t
      BY <1>1, <2>1, MaxIsIn
    <3>. QED BY <1>4, <3>1
  <2>. QED BY <1>3, <2>1 DEF Runs
<1>6. Adds2(it0)
  BY <1>5
<1>7. SumSeq(s) = it0[1 .. n]
  BY <1>1 DEF SumSeq, FoldLeft, MapThenFoldSet
<1>. HIDE DEF it0
<1>8. Runs(it0, F, zero, 1 .. n)
  <2>1. \A t \in SUBSET (1 .. n) : t # {} /\ it0[t \ {Max(t)}] \in V
           => it0[t] = F[<<it0[t \ {Max(t)}], Max(t)>>]
    <3>1. ASSUME NEW t \in SUBSET (1 .. n), t # {}, it0[t \ {Max(t)}] \in Nat
          PROVE  it0[t] = F[<<it0[t \ {Max(t)}], Max(t)>>]
      <4>1. Max(t) \in t
        BY <1>1, <3>1, MaxIsIn
      <4>. QED BY <1>6, <3>1, <4>1
    <3>. QED BY <3>1
  <2>2. it0[{}] = zero /\ it0 = [t \in SUBSET (1 .. n) |-> it0[t]]
    BY <1>6
  <2>. HIDE DEF F, Adds2, n, zero, V
  <2>. QED BY <1>1, <1>2, <2>1, <2>2, RunsLike
<1>9. PICK h : Along(h, F, zero, V, n, it0[1 .. n])
  <2>. HIDE DEF F, n, zero, V
  <2>1. n \in Nat /\ zero \in V
    BY <1>1
  <2>2. F \in [V \X (1 .. n) -> V]
    BY <1>2
  <2>3. Runs(it0, F, zero, 1 .. n)
    BY <1>8
  <2>. QED BY <2>1, <2>2, <2>3, RunsAlong
<1>10. ASSUME NEW k \in 1 .. n
       PROVE  h[k] = h[k - 1] + s[k]
  <2>1. h[k] = F[<<h[k - 1], k>>]
    <3>. HIDE DEF F, zero, V
    <3>. QED BY <1>9 DEF Along
  <2>2. h[k - 1] \in Nat
    <3>1. k - 1 \in 0 .. n
      BY <1>1
    <3>. QED BY <1>9, <3>1 DEF Along
  <2>. QED BY <2>1, <2>2
<1>. QED BY <1>7, <1>9, <1>10 DEF Along, Totals
\* Two sequences of sums agree as far as what they add up does.
LEMMA TotalsAgree ==
  ASSUME NEW s \in Seq(Nat), NEW t \in Seq(Nat), NEW g, Totals(g, s), NEW h, Totals(h, t),
         NEW n \in Nat, n <= Len(s), n <= Len(t), \A i \in 1 .. n : s[i] = t[i]
  PROVE  \A k \in 0 .. n : g[k] = h[k]
<1>. DEFINE S == {k \in Nat : g[k] = h[k]}
<1>1. 0 \in S
  BY DEF Totals
<1>2. ASSUME NEW k \in 0 .. n - 1, k \in S
      PROVE  k + 1 \in S
  <2>1. k + 1 \in 1 .. Len(s) /\ k + 1 \in 1 .. Len(t) /\ k + 1 \in 1 .. n
    OBVIOUS
  <2>2. g[k + 1] = g[(k + 1) - 1] + s[k + 1] /\ h[k + 1] = h[(k + 1) - 1] + t[k + 1]
    BY <2>1 DEF Totals
  <2>3. (k + 1) - 1 = k /\ s[k + 1] = t[k + 1]
    BY <2>1
  <2>. QED BY <1>2, <2>2, <2>3
<1>. HIDE DEF S
<1>3. 0 .. n \subseteq S
  BY <1>1, <1>2, CountUp
<1>. QED BY <1>3 DEF S

\* Each of them is the sum of that beginning.
LEMMA SumOfFirst ==
  ASSUME NEW s \in Seq(Nat), NEW h, Totals(h, s), NEW n \in 0 .. Len(s)
  PROVE  SumSeq(SubSeq(s, 1, n)) = h[n] /\ SubSeq(s, 1, n) \in Seq(Nat)
<1>. DEFINE t == SubSeq(s, 1, n)
<1>1. \A i \in 1 .. n : s[i] \in Nat
  BY ElementOfSeq
<1>2. t \in Seq(Nat) /\ Len(t) = n /\ \A i \in 1 .. n : t[i] = s[i]
  <2>1. /\ t \in Seq(Nat)
        /\ Len(t) = IF 1 <= n THEN n - 1 + 1 ELSE 0
        /\ \A i \in 1 .. n - 1 + 1 : t[i] = s[1 + i - 1]
    BY <1>1, SubSeqProperties
  <2>. HIDE DEF t
  <2>. QED BY <2>1
<1>. HIDE DEF t
<1>3. PICK g : Totals(g, t) /\ SumSeq(t) = g[Len(t)]
  BY <1>2, SumIsTotal
<1>4. g[n] = h[n]
  BY <1>2, <1>3, TotalsAgree
<1>. QED BY <1>2, <1>3, <1>4 DEF t

\* A sum of sizes is a size.
LEMMA SumSeqType ==
  ASSUME NEW s \in Seq(Nat)
  PROVE  SumSeq(s) \in Nat
<1>. DEFINE n == Len(s)
<1>1. n \in 0 .. n
  OBVIOUS
<1>2. PICK h : Totals(h, s) /\ SumSeq(s) = h[n]
  BY SumIsTotal
<1>3. h \in [0 .. n -> Nat]
  BY <1>2 DEF Totals
<1>. HIDE DEF n
<1>. QED BY <1>1, <1>2, <1>3

\* The sum of none is 0.
LEMMA SumSeqEmpty ==
  ASSUME NEW s \in Seq(Nat), Len(s) = 0
  PROVE  SumSeq(s) = 0
<1>1. PICK h : Totals(h, s) /\ SumSeq(s) = h[Len(s)]
  BY SumIsTotal
<1>2. h[0] = 0
  BY <1>1 DEF Totals
<1>. QED BY <1>1, <1>2

\* One more adds itself to the sum.
LEMMA SumSeqAppend ==
  ASSUME NEW s \in Seq(Nat), NEW x \in Nat
  PROVE  SumSeq(Append(s, x)) = SumSeq(s) + x
<1>. DEFINE t == Append(s, x)
            n == Len(s)
<1>1. t \in Seq(Nat) /\ Len(t) = n + 1 /\ t[Len(t)] = x
      /\ \A i \in 1 .. n : t[i] = s[i]
  BY AppendProperties
<1>. HIDE DEF t
<1>2. PICK g : Totals(g, s) /\ SumSeq(s) = g[n]
  BY SumIsTotal
<1>3. PICK h : Totals(h, t) /\ SumSeq(t) = h[Len(t)]
  BY <1>1, SumIsTotal
<1>4. n \in Nat /\ n <= Len(s) /\ n <= Len(t) /\ \A i \in 1 .. n : s[i] = t[i]
  BY <1>1
<1>5. \A k \in 0 .. n : g[k] = h[k]
  <2>1. Totals(g, s) /\ Totals(h, t)
    BY <1>2, <1>3
  <2>. HIDE DEF n
  <2>. QED BY <1>1, <1>4, <2>1, TotalsAgree, SMTT(30)
<1>6. h[Len(t)] = h[Len(t) - 1] + t[Len(t)]
  <2>1. Len(t) \in 1 .. Len(t)
    BY <1>1
  <2>. QED BY <1>3, <2>1 DEF Totals
<1>7. Len(t) - 1 = n /\ n \in 0 .. n
  BY <1>1
<1>. QED BY <1>1, <1>2, <1>3, <1>5, <1>6, <1>7 DEF t
\* What Partition does with a piece.
CutPiece(f, st, piece) ==
  IF Fits(f, st.size, piece)
  THEN [st EXCEPT !.size = @ + piece]
  ELSE [sizes |-> AddBlock(st.sizes, st.size), size |-> piece]

CutStates == [sizes : Seq(Nat), size : Nat]
CutFirst == [sizes |-> <<>>, size |-> 0]

\* What Partition has cut after each piece.
Cuts(h, f) ==
  /\ h \in [0 .. Len(f.pieces) -> CutStates] /\ h[0] = CutFirst
  /\ \A k \in 1 .. Len(f.pieces) : h[k] = CutPiece(f, h[k - 1], f.pieces[k])

\* Cutting a piece makes what cutting makes.
LEMMA CutPieceType ==
  ASSUME NEW f, NEW st \in CutStates, NEW piece \in Nat
  PROVE  CutPiece(f, st, piece) \in CutStates
  BY DEF CutPiece, CutStates, AddBlock

\* A file is cut piece after piece.
LEMMA PartitionCuts ==
  ASSUME NEW f, f.pieces \in Seq(Nat)
  PROVE  \E h : /\ Cuts(h, f)
                /\ LET last == h[Len(f.pieces)]
                   IN  Partition(f) = AddBlock(last.sizes, last.size)
<1>. DEFINE s == f.pieces
            n == Len(s)
            V == CutStates
            base == CutFirst
            F == [x \in V \X (1 .. n) |-> CutPiece(f, x[1], s[x[2]])]
            Iter(it) == it = [t \in SUBSET (1 .. n) |->
                              IF t = {} THEN base ELSE CutPiece(f, it[t \ {Max(t)}], s[Max(t)])]
            it0 == CHOOSE it : Iter(it)
<1>1. n \in Nat /\ s \in [1 .. n -> Nat] /\ DOMAIN s = 1 .. n
  OBVIOUS
<1>b. base \in V
  BY DEF CutFirst, CutStates
<1>2. F \in [V \X (1 .. n) -> V]
  <2>1. ASSUME NEW x \in V \X (1 .. n) PROVE CutPiece(f, x[1], s[x[2]]) \in V
    BY <1>1, CutPieceType
  <2>. QED BY <2>1
<1>3. PICK g : Runs(g, F, base, 1 .. n)
  BY <1>1, RunExists
<1>4. g \in [SUBSET (1 .. n) -> V]
  <2>. HIDE DEF V, F, base, n
  <2>. QED BY <1>1, <1>b, <1>2, <1>3, RunType
<1>m. \A t \in SUBSET (1 .. n) : t # {} => Max(t) \in 1 .. n
  BY <1>1, MaxIsIn
<1>5. Iter(g)
  <2>1. ASSUME NEW t \in SUBSET (1 .. n), t # {}
        PROVE  F[<<g[t \ {Max(t)}], Max(t)>>] = CutPiece(f, g[t \ {Max(t)}], s[Max(t)])
    BY <1>4, <1>m, <2>1
  <2>. HIDE DEF F, base
  <2>. QED BY <1>3, <2>1 DEF Runs
<1>6. Iter(it0)
  BY <1>5
<1>7. Partition(f) = AddBlock(it0[1 .. n].sizes, it0[1 .. n].size)
  BY <1>1 DEF Partition, CutPiece, CutFirst, FoldLeft, MapThenFoldSet
<1>. HIDE DEF it0
<1>8. Runs(it0, F, base, 1 .. n)
  <2>1. ASSUME NEW t \in SUBSET (1 .. n), t # {}, it0[t \ {Max(t)}] \in V
        PROVE  it0[t] = F[<<it0[t \ {Max(t)}], Max(t)>>]
    BY <1>6, <1>m, <2>1
  <2>2. it0[{}] = base /\ it0 = [t \in SUBSET (1 .. n) |-> it0[t]]
    BY <1>6
  <2>. HIDE DEF F, Iter, n, base, V
  <2>. QED BY <1>1, <1>b, <1>2, <2>1, <2>2, RunsLike
<1>9. PICK h : Along(h, F, base, V, n, it0[1 .. n])
  <2>. HIDE DEF F, n, base, V
  <2>. QED BY <1>1, <1>b, <1>2, <1>8, RunsAlong
<1>10. ASSUME NEW k \in 1 .. n
       PROVE  h[k] = CutPiece(f, h[k - 1], s[k])
  <2>1. h[k] = F[<<h[k - 1], k>>]
    <3>. HIDE DEF F, base, V
    <3>. QED BY <1>9 DEF Along
  <2>2. h[k - 1] \in V
    <3>1. k - 1 \in 0 .. n
      BY <1>1
    <3>. QED BY <1>9, <3>1 DEF Along
  <2>. QED BY <2>1, <2>2
<1>11. h \in [0 .. n -> V] /\ h[0] = base /\ h[n] = it0[1 .. n]
  <2>. HIDE DEF F, base, V
  <2>. QED BY <1>9 DEF Along
<1>. QED BY <1>7, <1>10, <1>11 DEF Cuts

\* A block holds a chunk at least.
LEMMA BlockHoldsChunk == Chunk <= BlockSize
  BY CutAssumption

\* A block that is cut off holds all but less than a chunk of what it may.
Good(st) ==
  /\ st \in CutStates /\ st.size <= BlockSize
  /\ \A i \in 1 .. Len(st.sizes) : BlockSize - Chunk < st.sizes[i] /\ st.sizes[i] \in 1 .. BlockSize

\* The bytes that are in the blocks and in the one that is being filled.
Bytes(st) == SumSeq(st.sizes) + st.size

\* A piece that a chunk has room for, with what a line needs, is added.
LEMMA CutPieceGood ==
  ASSUME NEW f, NEW st, Good(st), NEW piece \in Nat, piece <= Chunk,
         f.type = "text" => piece < Chunk
  PROVE  /\ Good(CutPiece(f, st, piece))
         /\ Bytes(CutPiece(f, st, piece)) = Bytes(st) + piece
<1>. DEFINE new == CutPiece(f, st, piece)
<1>1. st.sizes \in Seq(Nat) /\ st.size \in Nat /\ SumSeq(st.sizes) \in Nat /\ new \in CutStates
  BY CutPieceType, SumSeqType DEF Good, CutStates
<1>2. CASE Fits(f, st.size, piece)
  <2>1. new.sizes = st.sizes /\ new.size = st.size + piece /\ new.size <= BlockSize
    BY <1>1, <1>2, CutAssumption DEF CutPiece, Fits, Good, CutStates
  <2>. QED BY <1>1, <2>1 DEF Good, Bytes
<1>3. CASE ~ Fits(f, st.size, piece)
  <2>1. st.size > BlockSize - Chunk /\ st.size \in 1 .. BlockSize
    BY <1>1, <1>3, CutAssumption, BlockHoldsChunk DEF Fits, Good
  <2>2. new.sizes = Append(st.sizes, st.size) /\ new.size = piece
    BY <1>3, <2>1 DEF CutPiece, AddBlock
  <2>3. new.size <= BlockSize
    BY <2>2, CutAssumption, BlockHoldsChunk
  <2>4. SumSeq(new.sizes) = SumSeq(st.sizes) + st.size
    BY <1>1, <2>2, SumSeqAppend
  <2>5. ASSUME NEW i \in 1 .. Len(new.sizes)
        PROVE  BlockSize - Chunk < new.sizes[i] /\ new.sizes[i] \in 1 .. BlockSize
    BY <1>1, <2>1, <2>2 DEF Good
  <2>. QED BY <1>1, <2>2, <2>3, <2>4, <2>5 DEF Good, Bytes
<1>. QED BY <1>2, <1>3

\* What cutting begins with is well cut.
LEMMA CutFirstGood == Good(CutFirst) /\ Bytes(CutFirst) = 0
<1>1. CutFirst.sizes \in Seq(Nat) /\ Len(CutFirst.sizes) = 0 /\ CutFirst.size = 0
  BY DEF CutFirst
<1>2. SumSeq(CutFirst.sizes) = 0
  BY <1>1, SumSeqEmpty
<1>3. CutFirst \in CutStates
  BY DEF CutFirst, CutStates
<1>. QED BY <1>1, <1>2, <1>3, CutAssumption DEF Good, Bytes

\* Pieces a chunk has room for.
SmallPieces(f) ==
  /\ f.pieces \in Seq(0 .. Chunk)
  /\ f.type = "text" => \A k \in 1 .. Len(f.pieces) : f.pieces[k] < Chunk

\* It stays so after every piece, and no byte is lost.
LEMMA CutsGood ==
  ASSUME NEW f, SmallPieces(f), NEW h, Cuts(h, f), NEW tot, Totals(tot, f.pieces),
         NEW k \in 0 .. Len(f.pieces)
  PROVE  Good(h[k]) /\ Bytes(h[k]) = tot[k]
<1>. DEFINE n == Len(f.pieces)
            S == {j \in Nat : Good(h[j]) /\ Bytes(h[j]) = tot[j]}
<1>1. 0 \in S
  BY CutFirstGood DEF Cuts, Totals
<1>2. ASSUME NEW j \in 0 .. n - 1, j \in S
      PROVE  j + 1 \in S
  <2>. DEFINE piece == f.pieces[j + 1]
  <2>1. j + 1 \in 1 .. n /\ (j + 1) - 1 = j /\ j + 1 \in Nat
    BY DEF SmallPieces
  <2>2. piece \in Nat /\ piece <= Chunk /\ (f.type = "text" => piece < Chunk)
    BY <2>1, ElementOfSeq, CutAssumption DEF SmallPieces
  <2>3. h[j + 1] = CutPiece(f, h[j], piece) /\ tot[j + 1] = tot[j] + piece
    BY <2>1 DEF Cuts, Totals
  <2>4. Good(h[j]) /\ Bytes(h[j]) = tot[j]
    BY <1>2
  <2>. HIDE DEF piece
  <2>5. Good(h[j + 1]) /\ Bytes(h[j + 1]) = tot[j + 1]
    BY <2>2, <2>3, <2>4, CutPieceGood
  <2>. QED BY <2>1, <2>5
<1>3. n \in Nat
  BY DEF SmallPieces
<1>. HIDE DEF S, n
<1>4. 0 .. n \subseteq S
  BY <1>1, <1>2, <1>3, CountUp
<1>. QED BY <1>4 DEF S, n

\* The blocks of a file: each but the last holds all but less than a chunk of
\* what it may.
WellCut(sizes) ==
  /\ sizes \in Seq(Nat)
  /\ \A i \in 1 .. Len(sizes) : /\ sizes[i] \in 1 .. BlockSize
                                /\ i < Len(sizes) => BlockSize - Chunk < sizes[i]

\* Nor is one lost by the block that is added at the end.
LEMMA AddBlockWell ==
  ASSUME NEW st, Good(st)
  PROVE  /\ WellCut(AddBlock(st.sizes, st.size))
         /\ SumSeq(AddBlock(st.sizes, st.size)) = Bytes(st)
<1>1. st.sizes \in Seq(Nat) /\ st.size \in Nat /\ SumSeq(st.sizes) \in Nat
  BY SumSeqType DEF Good, CutStates
<1>2. CASE st.size = 0
  BY <1>1, <1>2 DEF AddBlock, WellCut, Good, Bytes
<1>3. CASE st.size # 0
  <2>. DEFINE new == Append(st.sizes, st.size)
  <2>1. AddBlock(st.sizes, st.size) = new /\ SumSeq(new) = Bytes(st)
    BY <1>1, <1>3, SumSeqAppend DEF AddBlock, Bytes
  <2>2. ASSUME NEW i \in 1 .. Len(new)
        PROVE  new[i] \in 1 .. BlockSize /\ (i < Len(new) => BlockSize - Chunk < new[i])
    BY <1>1, <1>3 DEF Good
  <2>3. new \in Seq(Nat)
    BY <1>1
  <2>. HIDE DEF new
  <2>. QED BY <2>1, <2>2, <2>3 DEF WellCut
<1>. QED BY <1>2, <1>3

\* A whole file is well cut, and none of its bytes is lost.
LEMMA PartitionWell ==
  ASSUME NEW f, SmallPieces(f)
  PROVE  WellCut(Partition(f)) /\ SumSeq(Partition(f)) = SizeOf(f)
<1>1. f.pieces \in Seq(Nat)
  BY SeqMonotonic, CutAssumption DEF SmallPieces
<1>. DEFINE n == Len(f.pieces)
<1>2. PICK h : Cuts(h, f) /\ Partition(f) = AddBlock(h[n].sizes, h[n].size)
  BY <1>1, PartitionCuts
<1>3. PICK tot : Totals(tot, f.pieces) /\ SumSeq(f.pieces) = tot[n]
  BY <1>1, SumIsTotal
<1>4. n \in 0 .. n
  BY <1>1
<1>5. Good(h[n]) /\ Bytes(h[n]) = tot[n]
  BY <1>2, <1>3, <1>4, CutsGood
<1>6. SizeOf(f) = SumSeq(f.pieces)
  BY DEF SizeOf, SumSeq
<1>. HIDE DEF n
<1>. QED BY <1>2, <1>3, <1>5, <1>6, AddBlockWell
\* Multiples of a number.
LEMMA TimesLess ==
  ASSUME NEW a \in Nat, NEW b \in Nat, NEW c \in Nat, a < b
  PROVE  a * c + c <= b * c
  OBVIOUS

\* What the provers need of remainders.
LEMMA Remainder ==
  ASSUME NEW a \in Nat, NEW r \in Nat, NEW c \in Nat \ {0}, r < c
  PROVE  (a * c + r) % c = r /\ (a * c + r) \div c = a
  OBVIOUS

\* The sum of n equal numbers.
Even(s, x, n) == n <= Len(s) /\ \A i \in 1 .. n : s[i] = x

\* The sum of equal sizes.
LEMMA SumSeqEven ==
  ASSUME NEW s \in Seq(Nat), NEW x \in Nat, NEW n \in Nat, Even(s, x, n),
         NEW tot, Totals(tot, s)
  PROVE  tot[n] = n * x
<1>. DEFINE S == {j \in Nat : tot[j] = j * x}
<1>1. 0 \in S
  BY DEF Totals
<1>2. ASSUME NEW j \in 0 .. n - 1, j \in S
      PROVE  j + 1 \in S
  <2>1. j + 1 \in 1 .. n /\ j + 1 \in 1 .. Len(s) /\ (j + 1) - 1 = j
    BY DEF Even
  <2>2. tot[j + 1] = tot[j] + x
    BY <2>1 DEF Totals, Even
  <2>3. tot[j + 1] = (j + 1) * x
    BY <1>2, <2>2
  <2>. QED BY <2>3
<1>. HIDE DEF S
<1>3. 0 .. n \subseteq S
  BY <1>1, <1>2, CountUp
<1>4. n \in S
  BY <1>3
<1>. QED BY <1>4 DEF S

\* The pieces of a binary file: full chunks, and what is left.
LEMMA BinPieces ==
  ASSUME NEW size \in Nat
  PROVE  LET pieces == BinFile(size).pieces
             n == (size + Chunk - 1) \div Chunk
         IN  /\ n \in Nat /\ pieces \in Seq(0 .. Chunk) /\ Len(pieces) = n
             /\ \A k \in 1 .. n - 1 : pieces[k] = Chunk
             /\ n > 0 => pieces[n] = size - (n - 1) * Chunk
             /\ n = 0 => size = 0
<1>. DEFINE pieces == BinFile(size).pieces
            n == (size + Chunk - 1) \div Chunk
            rest == (size + Chunk - 1) % Chunk
<1>c. Chunk \in Nat \ {0}
  BY CutAssumption
<1>1. n \in Nat /\ rest \in 0 .. Chunk - 1 /\ size + Chunk - 1 = n * Chunk + rest
  BY <1>c
<1>2. pieces = [k \in 1 .. n |-> IF k * Chunk <= size THEN Chunk ELSE size % Chunk]
  BY DEF BinFile
<1>3. size % Chunk \in 0 .. Chunk
  BY <1>c
<1>. HIDE DEF n, rest
<1>4. \A k \in 1 .. n : pieces[k] \in 0 .. Chunk
  BY <1>c, <1>2, <1>3
<1>5. pieces \in Seq(0 .. Chunk) /\ Len(pieces) = n
  BY <1>1, <1>2, <1>4
<1>6. n = 0 => size = 0
  BY <1>c, <1>1
<1>7. ASSUME NEW k \in 1 .. n - 1
      PROVE  pieces[k] = Chunk
  <2>1. k \in 1 .. n /\ k + 1 <= n
    BY <1>1
  <2>2. k * Chunk + Chunk <= n * Chunk
    BY <1>c, <1>1, <2>1
  <2>3. k * Chunk <= size
    BY <1>c, <1>1, <2>2
  <2>. QED BY <1>2, <2>1, <2>3
<1>8. ASSUME n > 0
      PROVE  pieces[n] = size - (n - 1) * Chunk
  <2>1. n * Chunk = (n - 1) * Chunk + Chunk
    BY <1>c, <1>1
  <2>2. size = (n - 1) * Chunk + (rest + 1)
    BY <1>c, <1>1, <2>1
  <2>3. CASE rest + 1 = Chunk
    BY <1>c, <1>1, <1>2, <1>8, <2>1, <2>2, <2>3
  <2>4. CASE rest + 1 # Chunk
    <3>1. ~ (n * Chunk <= size)
      BY <1>c, <1>1, <2>1, <2>2, <2>4
    <3>2. pieces[n] = size % Chunk
      BY <1>1, <1>2, <1>8, <3>1
    <3>3. n - 1 \in Nat /\ rest + 1 \in 0 .. Chunk - 1
      BY <1>c, <1>1, <1>8, <2>4
    <3>4. size % Chunk = rest + 1
      <4>. DEFINE a == n - 1
                  r == rest + 1
      <4>1. a \in Nat /\ r \in Nat /\ r < Chunk /\ size = a * Chunk + r
        BY <1>c, <2>2, <3>3
      <4>. HIDE DEF a, r
      <4>2. size % Chunk = r
        BY <1>c, <4>1, Remainder
      <4>. QED BY <4>2 DEF r
    <3>. QED BY <1>c, <1>1, <2>2, <3>2, <3>4
  <2>. QED BY <2>3, <2>4
<1>. QED BY <1>1, <1>5, <1>6, <1>7, <1>8 DEF n

\* The pieces of a file of bytes are chunks, and its bytes all of them.
LEMMA BinSize ==
  ASSUME NEW size \in Nat
  PROVE  SizeOf(BinFile(size)) = size /\ SmallPieces(BinFile(size))
<1>. DEFINE s == BinFile(size).pieces
            n == (size + Chunk - 1) \div Chunk
<1>1. /\ n \in Nat /\ s \in Seq(0 .. Chunk) /\ Len(s) = n
      /\ \A k \in 1 .. n - 1 : s[k] = Chunk
      /\ n > 0 => s[n] = size - (n - 1) * Chunk
      /\ n = 0 => size = 0
  BY BinPieces
<1>c. Chunk \in Nat \ {0} /\ 0 .. Chunk \subseteq Nat
  BY CutAssumption
<1>t. BinFile(size).type = "bin"
  BY DEF BinFile
<1>. HIDE DEF n, s
<1>2. s \in Seq(Nat)
  BY <1>1, <1>c, SeqMonotonic
<1>3. PICK tot : Totals(tot, s) /\ SumSeq(s) = tot[n]
  BY <1>1, <1>2, SumIsTotal
<1>4. n = 0 => SumSeq(s) = size
  BY <1>1, <1>3 DEF Totals
<1>5. ASSUME n > 0
      PROVE  SumSeq(s) = size
  <2>. DEFINE m == n - 1
  <2>1. m \in Nat /\ Even(s, Chunk, m)
    BY <1>1, <1>5 DEF Even
  <2>2. Chunk \in Nat
    BY <1>c
  <2>3. tot[n - 1] = (n - 1) * Chunk
    <3>. HIDE DEF m
    <3>1. tot[m] = m * Chunk
      BY <1>2, <1>3, <2>1, <2>2, SumSeqEven
    <3>. QED BY <3>1 DEF m
  <2>4. tot[n] = tot[n - 1] + s[n]
    BY <1>1, <1>3, <1>5 DEF Totals
  <2>5. (n - 1) * Chunk \in Int
    BY <1>c, <1>1
  <2>. QED BY <1>1, <1>3, <1>5, <2>3, <2>4, <2>5
<1>6. SumSeq(s) = size
  BY <1>1, <1>4, <1>5
<1>7. SizeOf(BinFile(size)) = SumSeq(s)
  BY DEF SizeOf, SumSeq, s
<1>8. SmallPieces(BinFile(size))
  BY <1>1, <1>t DEF SmallPieces, s
<1>. QED BY <1>6, <1>7, <1>8

\* Every block that is cut off is full.
Full(st) == \A i \in 1 .. Len(st.sizes) : st.sizes[i] = BlockSize

\* A piece keeps the blocks of a file of bytes full, of whole chunks.
LEMMA CutPieceFull ==
  ASSUME NEW f, f.type = "bin", NEW st, Good(st), Full(st), NEW m \in Nat,
         st.size = m * Chunk, NEW piece \in Nat, piece <= Chunk
  PROVE  /\ Full(CutPiece(f, st, piece))
         /\ piece = Chunk => \E j \in Nat : CutPiece(f, st, piece).size = j * Chunk
<1>. DEFINE new == CutPiece(f, st, piece)
            B == BlockSize \div Chunk
<1>c. Chunk \in Nat \ {0} /\ BlockSize \in Nat /\ B \in Nat /\ BlockSize = B * Chunk
  BY CutAssumption
<1>1. st.sizes \in Seq(Nat) /\ st.size \in Nat
  BY DEF Good, CutStates
<1>. HIDE DEF B
<1>2. CASE Fits(f, st.size, piece)
  <2>1. new.sizes = st.sizes /\ new.size = st.size + piece
    BY <1>1, <1>2 DEF CutPiece, Good, CutStates
  <2>2. m * Chunk + Chunk = (m + 1) * Chunk
    BY <1>c
  <2>. QED BY <2>1, <2>2 DEF Full
<1>3. CASE ~ Fits(f, st.size, piece)
  <2>1. st.size + piece > B * Chunk /\ st.size <= B * Chunk
    BY <1>c, <1>1, <1>3 DEF Fits, Good
  <2>2. (m + 1) * Chunk > B * Chunk
    BY <1>c, <2>1
  <2>3. m = B
    <3>1. m + 1 > B
      BY <1>c, <2>2
    <3>2. ~ (m > B)
      <4>1. m > B => B * Chunk + Chunk <= m * Chunk
        BY <1>c, TimesLess
      <4>2. B * Chunk \in Nat /\ m * Chunk \in Nat
        BY <1>c
      <4>. QED BY <1>c, <2>1, <4>1, <4>2
    <3>. QED BY <1>c, <3>1, <3>2
  <2>4. st.size = BlockSize /\ st.size # 0
    BY <1>c, <2>3, CutAssumption
  <2>5. new.sizes = Append(st.sizes, BlockSize) /\ new.size = piece
    BY <1>3, <2>4 DEF CutPiece, AddBlock
  <2>6. \A i \in 1 .. Len(new.sizes) : new.sizes[i] = BlockSize
    BY <1>1, <2>5 DEF Full
  <2>7. Chunk = 1 * Chunk
    BY <1>c
  <2>. QED BY <2>5, <2>6, <2>7 DEF Full
<1>. QED BY <1>2, <1>3

\* The blocks of a file of bytes are full.
LEMMA CutsFull ==
  ASSUME NEW size \in Nat, NEW h, Cuts(h, BinFile(size))
  PROVE  Full(h[Len(BinFile(size).pieces)])
<1>. DEFINE f == BinFile(size)
            s == f.pieces
            n == (size + Chunk - 1) \div Chunk
            OK(st) == Full(st) /\ \E m \in Nat : st.size = m * Chunk
            S == {j \in Nat : OK(h[j])}
<1>c. Chunk \in Nat \ {0}
  BY CutAssumption
<1>1. /\ n \in Nat /\ s \in Seq(0 .. Chunk) /\ Len(s) = n
      /\ \A k \in 1 .. n - 1 : s[k] = Chunk
  BY BinPieces
<1>2. f.type = "bin" /\ SmallPieces(f)
  BY BinSize DEF BinFile
<1>. HIDE DEF f, n
<1>3. PICK tot : Totals(tot, s)
  <2>1. s \in Seq(Nat)
    BY <1>1, <1>c, SeqMonotonic
  <2>. HIDE DEF s
  <2>. QED BY <2>1, SumIsTotal
<1>4. \A k \in 0 .. n : Good(h[k])
  BY <1>1, <1>2, <1>3, CutsGood DEF f
<1>5. 0 \in S
  <2>1. CutFirst.size = 0 * Chunk /\ Len(CutFirst.sizes) = 0
    BY <1>c DEF CutFirst
  <2>2. h[0] = CutFirst
    BY DEF Cuts
  <2>. QED BY <2>1, <2>2 DEF Full
<1>6. ASSUME NEW j \in 0 .. n - 1, j \in S
      PROVE  /\ Full(h[j + 1])
             /\ j + 1 < n => j + 1 \in S
  <2>. DEFINE piece == s[j + 1]
  <2>1. j + 1 \in 1 .. n /\ (j + 1) - 1 = j /\ j \in 0 .. n
    BY <1>1
  <2>2. piece \in Nat /\ piece <= Chunk
    BY <1>1, <1>c, <2>1, ElementOfSeq
  <2>3. h[j + 1] = CutPiece(f, h[j], piece)
    BY <1>1, <2>1 DEF Cuts, f
  <2>4. PICK m \in Nat : h[j].size = m * Chunk
    BY <1>6
  <2>5. Good(h[j]) /\ Full(h[j])
    BY <1>4, <1>6, <2>1
  <2>6. j + 1 < n => piece = Chunk
    BY <1>1, <2>1
  <2>. HIDE DEF piece
  <2>7. /\ Full(h[j + 1])
        /\ piece = Chunk => \E m2 \in Nat : h[j + 1].size = m2 * Chunk
    BY <1>2, <2>2, <2>3, <2>4, <2>5, CutPieceFull
  <2>. QED BY <2>1, <2>6, <2>7
<1>7. CASE n = 0
  BY <1>1, <1>5, <1>7 DEF f
<1>8. CASE n > 0
  <2>. DEFINE p == n - 1
  <2>1. p \in Nat /\ p + 1 = n /\ p \in 0 .. p /\ p \in 0 .. n - 1
    BY <1>1, <1>8
  <2>2. \A j \in 0 .. p - 1 : j \in S => j + 1 \in S
    BY <1>6, <2>1
  <2>. HIDE DEF S, p
  <2>3. 0 .. p \subseteq S
    BY <1>5, <2>1, <2>2, CountUp
  <2>4. Full(h[p + 1])
    BY <1>6, <2>1, <2>3
  <2>. QED BY <1>1, <2>1, <2>4 DEF f
<1>. QED BY <1>1, <1>7, <1>8

\* A binary file is cut into as many blocks as count_file_blocks says.
LEMMA BinCount ==
  ASSUME NEW size \in Nat
  PROVE  CountBlocks(BinFile(size)) = Len(Partition(BinFile(size)))
<1>. DEFINE f == BinFile(size)
            s == f.pieces
            n == Len(s)
<1>1. SizeOf(f) = size /\ SmallPieces(f) /\ f.type = "bin"
  BY BinSize DEF BinFile
<1>2. s \in Seq(Nat)
  BY <1>1, SeqMonotonic, CutAssumption DEF SmallPieces
<1>3. PICK h : Cuts(h, f) /\ Partition(f) = AddBlock(h[n].sizes, h[n].size)
  BY <1>2, PartitionCuts
<1>4. PICK tot : Totals(tot, s) /\ SumSeq(s) = tot[n]
  BY <1>2, SumIsTotal
<1>5. Full(h[n])
  BY <1>3, CutsFull
<1>6. SizeOf(f) = SumSeq(s)
  BY DEF SizeOf, SumSeq
<1>7. n \in 0 .. n
  BY <1>2
<1>8. Good(h[n]) /\ Bytes(h[n]) = size
  BY <1>1, <1>3, <1>4, <1>6, <1>7, CutsGood
<1>. DEFINE t == h[n].sizes
            rest == h[n].size
            m == Len(t)
            x == BlockSize
<1>9. t \in Seq(Nat) /\ rest \in Nat /\ rest <= x /\ m \in Nat /\ x \in Nat \ {0}
  BY <1>8, CutAssumption DEF Good, CutStates
<1>10. \A i \in 1 .. m : t[i] = x
  BY <1>5 DEF Full
<1>11. SumSeq(t) + rest = size
  BY <1>8 DEF Bytes
<1>12. Len(Partition(f)) = IF rest = 0 THEN m ELSE m + 1
  BY <1>3, <1>9 DEF AddBlock
<1>13. CountBlocks(f) = (size + x - 1) \div x
  BY <1>1 DEF CountBlocks
<1>. HIDE DEF t, rest, m, x
<1>14. SumSeq(t) = m * x
  <2>1. PICK sums : Totals(sums, t) /\ SumSeq(t) = sums[m]
    BY <1>9, SumIsTotal DEF m
  <2>2. Even(t, x, m)
    BY <1>9, <1>10 DEF Even, m
  <2>3. sums[m] = m * x
    BY <1>9, <2>1, <2>2, SumSeqEven
  <2>. QED BY <2>1, <2>3
<1>15. CASE rest = 0
  <2>. DEFINE r == x - 1
  <2>1. r \in Nat /\ r < x /\ size + x - 1 = m * x + r
    BY <1>9, <1>11, <1>14, <1>15
  <2>. HIDE DEF r
  <2>2. (m * x + r) \div x = m
    BY <1>9, <2>1, Remainder
  <2>. QED BY <1>12, <1>13, <1>15, <2>1, <2>2
<1>16. CASE rest # 0
  <2>. DEFINE r == rest - 1
              q == m + 1
  <2>1. r \in Nat /\ r < x /\ q \in Nat
    BY <1>9, <1>16
  <2>2. q * x = m * x + x
    BY <1>9
  <2>3. m * x \in Nat
    BY <1>9
  <2>4. size + x - 1 = q * x + r
    BY <1>9, <1>11, <1>14, <2>2, <2>3
  <2>. HIDE DEF r, q
  <2>5. (q * x + r) \div x = q
    BY <1>9, <2>1, Remainder
  <2>. QED BY <1>12, <1>13, <1>16, <2>4, <2>5 DEF q
<1>. QED BY <1>15, <1>16

\* Sequences of the length of a block, put one after the other.
LEMMA FlattenBlocks ==
  ASSUME NEW V, NEW m \in Seq(Seq(V)), \A i \in 1 .. Len(m) : Len(m[i]) = BlockSize
  PROVE  /\ FlattenSeq(m) \in Seq(V) /\ Len(FlattenSeq(m)) = Len(m) * BlockSize
         /\ \A i \in 1 .. Len(m), r \in 1 .. BlockSize :
              FlattenSeq(m)[(i - 1) * BlockSize + r] = m[i][r]
<1>. DEFINE n == Len(m)
            f == CHOOSE g : Flattens(g, m)
            x == BlockSize
<1>c. x \in Nat \ {0} /\ n \in Nat /\ m \in [1 .. n -> Seq(V)]
  BY CutAssumption
<1>1. Flattens(f, m)
  BY FlattenExists
<1>2. n # 0 => FlattenSeq(m) = f[n]
  BY DEF FlattenSeq, Flattens
<1>3. n = 0 => FlattenSeq(m) = m
  BY DEF FlattenSeq
<1>4. ASSUME NEW k \in 1 .. n
      PROVE  f[k] = IF k = 1 THEN m[k] ELSE f[k - 1] \o m[k]
  <2>. HIDE DEF f
  <2>. QED BY <1>1 DEF Flattens
<1>. HIDE DEF f, x, n
<1>. DEFINE OK(k) == /\ f[k] \in Seq(V) /\ Len(f[k]) = k * x
                     /\ \A i \in 1 .. k, r \in 1 .. x : f[k][(i - 1) * x + r] = m[i][r]
            S == {k \in Nat : k = 0 \/ OK(k)}
<1>5. ASSUME NEW k \in 0 .. n - 1, k \in S
      PROVE  k + 1 \in S
  <2>. DEFINE new == m[k + 1]
  <2>1. k + 1 \in 1 .. n /\ (k + 1) - 1 = k /\ k \in Nat
    BY <1>c
  <2>2. new \in Seq(V) /\ Len(new) = x
    BY <1>c, <2>1 DEF n, x
  <2>3. CASE k = 0
    <3>1. f[1] = new
      BY <1>4, <2>1, <2>3
    <3>2. 1 * x = x /\ \A r \in 1 .. x : (1 - 1) * x + r = r
      BY <1>c
    <3>3. OK(1)
      <4>1. \A i \in 1 .. 1 : i = 1
        OBVIOUS
      <4>. QED BY <2>2, <2>3, <3>1, <3>2, <4>1
    <3>. QED BY <2>3, <3>3
  <2>4. CASE k # 0
    <3>1. f[k + 1] = f[k] \o new
      <4>1. f[k + 1] = IF k + 1 = 1 THEN m[k + 1] ELSE f[(k + 1) - 1] \o m[k + 1]
        BY <1>4, <2>1
      <4>2. k + 1 # 1 /\ (k + 1) - 1 = k
        BY <2>1, <2>4
      <4>. QED BY <4>1, <4>2
    <3>2. OK(k)
      BY <1>5, <2>4
    <3>3. k * x \in Nat /\ (k + 1) * x = k * x + x
      BY <1>c, <2>1
    <3>4. /\ f[k + 1] \in Seq(V) /\ Len(f[k + 1]) = k * x + x
          /\ \A j \in 1 .. k * x + x :
               f[k + 1][j] = IF j <= k * x THEN f[k][j] ELSE new[j - k * x]
      <4>. DEFINE old == f[k]
      <4>1. old \in Seq(V) /\ Len(old) = k * x
        BY <3>2
      <4>. HIDE DEF old, new
      <4>2. /\ old \o new \in Seq(V) /\ Len(old \o new) = Len(old) + Len(new)
            /\ \A i \in 1 .. Len(old) + Len(new) :
                 (old \o new)[i] = IF i <= Len(old) THEN old[i] ELSE new[i - Len(old)]
        BY <2>2, <4>1, ConcatProperties
      <4>3. f[k + 1] = old \o new
        BY <3>1 DEF old
      <4>. QED BY <2>2, <4>1, <4>2, <4>3 DEF old
    <3>5. ASSUME NEW i \in 1 .. k + 1, NEW r \in 1 .. x
          PROVE  f[k + 1][(i - 1) * x + r] = m[i][r]
      <4>1. CASE i = k + 1
        <5>1. (i - 1) * x + r = k * x + r /\ k * x + r \in 1 .. k * x + x /\ ~ (k * x + r <= k * x)
              /\ (k * x + r) - k * x = r
          BY <1>c, <2>1, <3>3, <4>1
        <5>. QED BY <3>4, <4>1, <5>1
      <4>2. CASE i # k + 1
        <5>1. i \in 1 .. k /\ i - 1 \in Nat /\ i - 1 < k
          BY <2>1, <4>2
        <5>2. (i - 1) * x + x <= k * x /\ (i - 1) * x \in Nat
          <6>. DEFINE a == i - 1
          <6>1. a \in Nat /\ a < k
            BY <5>1
          <6>2. a * x \in Nat
            BY <1>c, <6>1
          <6>. HIDE DEF a
          <6>3. a * x + x <= k * x
            BY <1>c, <2>1, <6>1, TimesLess
          <6>. QED BY <6>2, <6>3 DEF a
        <5>3. (i - 1) * x + r \in 1 .. k * x
          BY <1>c, <3>3, <5>2
        <5>. QED BY <1>c, <3>2, <3>3, <3>4, <5>1, <5>3
      <4>. QED BY <4>1, <4>2
    <3>. QED BY <2>1, <3>3, <3>4, <3>5
  <2>. QED BY <2>3, <2>4
<1>. HIDE DEF S
<1>6. 0 .. n \subseteq S
  <2>1. 0 \in S
    BY DEF S
  <2>. QED BY <1>c, <1>5, <2>1, CountUp
<1>7. CASE n = 0
  <2>1. 0 * x = 0
    BY <1>c
  <2>. QED BY <1>3, <1>7, <2>1 DEF n, x
<1>8. CASE n # 0
  <2>1. OK(n)
    BY <1>c, <1>6, <1>8 DEF S
  <2>. QED BY <1>2, <1>8, <2>1 DEF n, x
<1>. QED BY <1>7, <1>8
\* The chunks file_btraverse reads.
ChunksOf(bytes) ==
  [k \in 1 .. Len(bytes) \div Chunk |-> SubSeq(bytes, (k - 1) * Chunk + 1, k * Chunk)]

\* The bytes of a chunk.
LEMMA ChunksAre ==
  ASSUME NEW bytes \in Seq(Nat), NEW k \in 1 .. Len(bytes) \div Chunk
  PROVE  /\ ChunksOf(bytes)[k] \in Seq(Nat) /\ Len(ChunksOf(bytes)[k]) = Chunk
         /\ \A j \in 1 .. Chunk : ChunksOf(bytes)[k][j] = bytes[(k - 1) * Chunk + j]
<1>. DEFINE n == Len(bytes)
            q == n \div Chunk
            lo == (k - 1) * Chunk + 1
            hi == k * Chunk
            s == SubSeq(bytes, lo, hi)
<1>c. Chunk \in Nat \ {0} /\ n \in Nat
  BY CutAssumption
<1>1. q \in Nat /\ q * Chunk <= n /\ k \in 1 .. q
  BY <1>c
<1>. HIDE DEF n, q
<1>2. lo \in Nat \ {0} /\ hi \in Nat /\ hi = lo + Chunk - 1
  BY <1>c, <1>1
<1>3. hi <= n
  <2>1. CASE k = q
    BY <1>1, <2>1
  <2>2. CASE k # q
    <3>1. k \in Nat /\ k < q /\ Chunk \in Nat
      BY <1>c, <1>1, <2>2
    <3>2. k * Chunk + Chunk <= q * Chunk
      BY <1>1, <3>1, TimesLess
    <3>. QED BY <1>c, <1>1, <1>2, <3>2
  <2>. QED BY <2>1, <2>2
<1>4. ChunksOf(bytes)[k] = s
  BY <1>1 DEF ChunksOf, n, q
<1>. HIDE DEF lo, hi
<1>5. \A i \in lo .. hi : bytes[i] \in Nat
  BY <1>2, <1>3, ElementOfSeq DEF n
<1>6. /\ s \in Seq(Nat) /\ Len(s) = (IF lo <= hi THEN hi - lo + 1 ELSE 0)
      /\ \A i \in 1 .. hi - lo + 1 : s[i] = bytes[lo + i - 1]
  BY <1>2, <1>5, SubSeqProperties
<1>7. Len(s) = Chunk
  BY <1>c, <1>2, <1>6
<1>8. ASSUME NEW j \in 1 .. Chunk
      PROVE  s[j] = bytes[(k - 1) * Chunk + j]
  <2>1. j \in 1 .. hi - lo + 1
    BY <1>c, <1>2
  <2>2. lo + j - 1 = (k - 1) * Chunk + j
    BY <1>c, <1>1 DEF lo
  <2>. QED BY <1>6, <2>1, <2>2
<1>. QED BY <1>4, <1>6, <1>7, <1>8

\* What Reconstruct does with a chunk.
CopyChunk(sizes, st, chunk) ==
  LET left == sizes[st.index] - st.read IN
  IF st.index > Len(sizes) THEN st
  ELSE IF left <= Chunk
  THEN [out |-> st.out \o SubSeq(chunk, 1, left), index |-> st.index + 1, read |-> 0]
  ELSE [st EXCEPT !.out = @ \o chunk, !.read = @ + Chunk]

CopyStates == [out : Seq(Nat), index : Nat \ {0}, read : Nat]
CopyFirst == [out |-> <<>>, index |-> 1, read |-> 0]

\* What Reconstruct has put together after each chunk.
Copies(h, sizes, n, chunks) ==
  /\ h \in [0 .. n -> CopyStates] /\ h[0] = CopyFirst
  /\ \A k \in 1 .. n : h[k] = CopyChunk(sizes, h[k - 1], chunks[k])

\* Copying a chunk makes what copying makes.
LEMMA CopyChunkType ==
  ASSUME NEW sizes \in Seq(Nat), NEW st \in CopyStates, NEW chunk \in Seq(Nat), Len(chunk) = Chunk
  PROVE  CopyChunk(sizes, st, chunk) \in CopyStates
<1>. DEFINE left == sizes[st.index] - st.read
            new == CopyChunk(sizes, st, chunk)
<1>c. Chunk \in Nat \ {0}
  BY CutAssumption
<1>1. CASE st.index > Len(sizes)
  BY <1>1 DEF CopyChunk
<1>2. CASE st.index \in 1 .. Len(sizes)
  <2>1. left \in Int
    BY <1>2 DEF CopyStates
  <2>2. CASE left <= Chunk
    <3>1. new = [out |-> st.out \o SubSeq(chunk, 1, left), index |-> st.index + 1, read |-> 0]
      BY <1>2, <2>2 DEF CopyChunk, CopyStates
    <3>2. SubSeq(chunk, 1, left) \in Seq(Nat)
      <4>. HIDE DEF left
      <4>1. \A i \in 1 .. left : chunk[i] \in Nat
        BY <1>c, <2>1, <2>2, ElementOfSeq
      <4>. QED BY <2>1, <4>1, SubSeqProperties
    <3>. HIDE DEF left
    <3>3. st.out \o SubSeq(chunk, 1, left) \in Seq(Nat)
      BY <3>2, ConcatProperties DEF CopyStates
    <3>. QED BY <3>1, <3>3 DEF CopyStates
  <2>3. CASE ~ (left <= Chunk)
    <3>1. new = [st EXCEPT !.out = @ \o chunk, !.read = @ + Chunk]
      BY <1>2, <2>3 DEF CopyChunk, CopyStates
    <3>2. st.out \o chunk \in Seq(Nat)
      BY ConcatProperties DEF CopyStates
    <3>3. new = [out |-> st.out \o chunk, index |-> st.index, read |-> st.read + Chunk]
      BY <3>1 DEF CopyStates
    <3>4. st.index \in Nat \ {0} /\ st.read + Chunk \in Nat
      BY <1>c DEF CopyStates
    <3>. QED BY <3>2, <3>3, <3>4 DEF CopyStates
  <2>. QED BY <2>2, <2>3
<1>. QED BY <1>1, <1>2 DEF CopyStates

\* What was read is copied chunk after chunk.
LEMMA ReconstructCopies ==
  ASSUME NEW sizes \in Seq(Nat), NEW bytes \in Seq(Nat)
  PROVE  LET n == Len(bytes) \div Chunk
         IN  \E h : /\ Copies(h, sizes, n, ChunksOf(bytes))
                    /\ Reconstruct(sizes, bytes) = h[n].out
<1>. DEFINE s == ChunksOf(bytes)
            n == Len(bytes) \div Chunk
            V == CopyStates
            base == CopyFirst
            F == [x \in V \X (1 .. n) |-> CopyChunk(sizes, x[1], s[x[2]])]
            Iter(it) == it = [t \in SUBSET (1 .. n) |->
                              IF t = {} THEN base ELSE CopyChunk(sizes, it[t \ {Max(t)}], s[Max(t)])]
            it0 == CHOOSE it : Iter(it)
<1>1. n \in Nat /\ DOMAIN s = 1 .. n
  <2>1. Chunk \in Nat \ {0} /\ Len(bytes) \in Nat
    BY CutAssumption
  <2>. QED BY <2>1 DEF ChunksOf
<1>b. base \in V
  BY DEF CopyFirst, CopyStates
<1>2. F \in [V \X (1 .. n) -> V]
  <2>1. ASSUME NEW x \in V \X (1 .. n) PROVE CopyChunk(sizes, x[1], s[x[2]]) \in V
    <3>1. x[1] \in CopyStates /\ x[2] \in 1 .. n
      OBVIOUS
    <3>2. s[x[2]] \in Seq(Nat) /\ Len(s[x[2]]) = Chunk
      BY <3>1, ChunksAre
    <3>. QED BY <3>1, <3>2, CopyChunkType
  <2>. QED BY <2>1
<1>. HIDE DEF s
<1>3. PICK g : Runs(g, F, base, 1 .. n)
  BY <1>1, RunExists
<1>4. g \in [SUBSET (1 .. n) -> V]
  <2>. HIDE DEF V, F, base, n
  <2>. QED BY <1>1, <1>b, <1>2, <1>3, RunType
<1>m. \A t \in SUBSET (1 .. n) : t # {} => Max(t) \in 1 .. n
  BY <1>1, MaxIsIn
<1>5. Iter(g)
  <2>1. ASSUME NEW t \in SUBSET (1 .. n), t # {}
        PROVE  F[<<g[t \ {Max(t)}], Max(t)>>] = CopyChunk(sizes, g[t \ {Max(t)}], s[Max(t)])
    BY <1>4, <1>m, <2>1
  <2>. HIDE DEF F, base
  <2>. QED BY <1>3, <2>1 DEF Runs
<1>6. Iter(it0)
  BY <1>5
<1>7. Reconstruct(sizes, bytes) = it0[1 .. n].out
  BY <1>1 DEF Reconstruct, CopyChunk, CopyFirst, FoldLeft, MapThenFoldSet, ChunksOf, s
<1>. HIDE DEF it0
<1>8. Runs(it0, F, base, 1 .. n)
  <2>1. ASSUME NEW t \in SUBSET (1 .. n), t # {}, it0[t \ {Max(t)}] \in V
        PROVE  it0[t] = F[<<it0[t \ {Max(t)}], Max(t)>>]
    BY <1>6, <1>m, <2>1
  <2>2. it0[{}] = base /\ it0 = [t \in SUBSET (1 .. n) |-> it0[t]]
    BY <1>6
  <2>. HIDE DEF F, Iter, n, base, V
  <2>. QED BY <1>1, <1>b, <1>2, <2>1, <2>2, RunsLike
<1>9. PICK h : Along(h, F, base, V, n, it0[1 .. n])
  <2>. HIDE DEF F, n, base, V
  <2>. QED BY <1>1, <1>b, <1>2, <1>8, RunsAlong
<1>10. ASSUME NEW k \in 1 .. n
       PROVE  h[k] = CopyChunk(sizes, h[k - 1], s[k])
  <2>1. h[k] = F[<<h[k - 1], k>>]
    <3>. HIDE DEF F, base, V
    <3>. QED BY <1>9 DEF Along
  <2>2. h[k - 1] \in V
    <3>1. k - 1 \in 0 .. n
      BY <1>1
    <3>. QED BY <1>9, <3>1 DEF Along
  <2>. QED BY <2>1, <2>2
<1>11. h \in [0 .. n -> V] /\ h[0] = base /\ h[n] = it0[1 .. n]
  <2>. HIDE DEF F, base, V
  <2>. QED BY <1>9 DEF Along
<1>12. Copies(h, sizes, n, s) /\ Reconstruct(sizes, bytes) = h[n].out
  BY <1>7, <1>10, <1>11 DEF Copies
<1>. QED BY <1>12 DEF s

\* What a block holds: the bytes of the file after those of the blocks before it.
LEMMA BlockDataIs ==
  ASSUME NEW sizes \in Seq(Nat), NEW tot, Totals(tot, sizes), NEW i \in 0 .. Len(sizes) - 1
  PROVE  /\ BlockData(sizes, i) \in Seq(Nat) /\ Len(BlockData(sizes, i)) = BlockSize
         /\ \A r \in 1 .. BlockSize :
              r <= sizes[i + 1] => BlockData(sizes, i)[r] = tot[i] + r
<1>. DEFINE start == SumSeq(SubSeq(sizes, 1, i))
<1>1. BlockData(sizes, i) =
        [k \in 1 .. BlockSize |-> IF k <= sizes[i + 1] THEN start + k ELSE Pad]
  BY DEF BlockData, SumSeq
<1>2. start = tot[i] /\ tot[i] \in Nat
  <2>1. i \in 0 .. Len(sizes)
    OBVIOUS
  <2>. QED BY <2>1, SumOfFirst DEF Totals
<1>. HIDE DEF start
<1>3. BlockSize \in Nat
  BY CutAssumption
<1>. QED BY <1>1, <1>2, <1>3 DEF Pad

\* The next bytes of a file, put after the first ones.
LEMMA ContentGrows ==
  ASSUME NEW a \in Nat, NEW b \in Nat, NEW s \in Seq(Nat), Len(s) = b,
         \A j \in 1 .. b : s[j] = a + j
  PROVE  Content(a) \o s = Content(a + b)
<1>1. Content(a) \in Seq(Nat) /\ Len(Content(a)) = a /\ \A j \in 1 .. a : Content(a)[j] = j
  BY DEF Content
<1>2. /\ Content(a + b) \in Seq(Nat) /\ Len(Content(a + b)) = a + b
      /\ \A j \in 1 .. a + b : Content(a + b)[j] = j
  BY DEF Content
<1>. DEFINE c == Content(a)
            d == Content(a + b)
<1>. HIDE DEF c, d
<1>3. /\ c \o s \in Seq(Nat) /\ Len(c \o s) = Len(c) + Len(s)
      /\ \A j \in 1 .. Len(c) + Len(s) :
           (c \o s)[j] = IF j <= Len(c) THEN c[j] ELSE s[j - Len(c)]
  BY <1>1, ConcatProperties DEF c
<1>4. Len(c \o s) = Len(d) /\ Len(d) = a + b /\ Len(c) = a
  BY <1>1, <1>2, <1>3 DEF c, d
<1>5. ASSUME NEW j \in 1 .. a + b
      PROVE  (c \o s)[j] = d[j]
  <2>1. d[j] = j
    BY <1>2 DEF d
  <2>2. j <= a => c[j] = j
    BY <1>1 DEF c
  <2>3. ~ (j <= a) => s[j - a] = a + (j - a)
    BY <1>4
  <2>. QED BY <1>3, <1>4, <2>1, <2>2, <2>3
<1>6. d \in Seq(Nat)
  BY <1>2 DEF d
<1>7. c \o s = d
  BY <1>3, <1>4, <1>5, <1>6, SeqEqual
<1>. QED BY <1>7 DEF c, d

\* After k chunks: the place in the block file and what is put together.
Reached(st, sizes, tot, k) ==
  /\ st \in CopyStates
  /\ \/ st.index = Len(sizes) + 1 /\ st.out = Content(tot[Len(sizes)])
     \/ /\ st.index \in 1 .. Len(sizes)
        /\ k * Chunk = (st.index - 1) * BlockSize + st.read
        /\ st.read < sizes[st.index] /\ st.out = Content(tot[st.index - 1] + st.read)

\* A chunk that holds the end of a block ends where the block does, unless it is
\* the last block.
LEMMA ChunkEndsBlock ==
  ASSUME NEW k \in Nat, NEW i \in Nat, NEW read \in Nat, k * Chunk = i * BlockSize + read,
         read < BlockSize, read + Chunk > BlockSize - Chunk
  PROVE  (k + 1) * Chunk = (i + 1) * BlockSize
<1>. DEFINE B == BlockSize \div Chunk
            r == k - i * B
            c == Chunk
<1>c. c \in Nat \ {0} /\ B \in Nat /\ BlockSize = B * c /\ BlockSize \in Nat
  BY CutAssumption
<1>. HIDE DEF B, c
<1>1. r \in Int
  BY <1>c
<1>2. r * c = read
  <2>1. r * c = k * c - (i * B) * c
    BY <1>c
  <2>2. (i * B) * c = i * (B * c)
    BY <1>c
  <2>. QED BY <1>c, <2>1, <2>2 DEF c
<1>. HIDE DEF r
<1>3. r < B
  <2>1. SUFFICES ASSUME r >= B PROVE FALSE
    BY <1>c, <1>1
  <2>2. r * c >= B * c
    BY <1>c, <1>1, <2>1
  <2>. QED BY <1>c, <1>2, <2>2
<1>4. r >= B - 1
  <2>1. SUFFICES ASSUME r + 2 <= B PROVE FALSE
    BY <1>c, <1>1
  <2>2. (r + 2) * c <= B * c
    BY <1>c, <1>1, <2>1
  <2>3. (r + 2) * c = r * c + c + c
    BY <1>c, <1>1
  <2>. QED BY <1>c, <1>2, <2>2, <2>3 DEF c
<1>5. r = B - 1
  BY <1>c, <1>1, <1>3, <1>4
<1>6. read + c = BlockSize
  BY <1>c, <1>2, <1>5
<1>7. (k + 1) * c = k * c + c /\ (i + 1) * BlockSize = i * BlockSize + BlockSize
  BY <1>c
<1>. QED BY <1>c, <1>6, <1>7 DEF c

\* A chunk that belongs to the block being copied takes the copy a chunk further.
LEMMA CopyChunkReaches ==
  ASSUME NEW sizes, WellCut(sizes), NEW tot, Totals(tot, sizes), NEW k \in Nat,
         NEW st, Reached(st, sizes, tot, k), NEW chunk \in Seq(Nat), Len(chunk) = Chunk,
         \A j \in 1 .. Chunk :
           st.index <= Len(sizes) /\ st.read + j <= sizes[st.index]
             => chunk[j] = tot[st.index - 1] + st.read + j
  PROVE  Reached(CopyChunk(sizes, st, chunk), sizes, tot, k + 1)
<1>. DEFINE n == Len(sizes)
            i == st.index - 1
            read == st.read
            size == sizes[st.index]
            left == size - read
            new == CopyChunk(sizes, st, chunk)
<1>c. /\ Chunk \in Nat \ {0} /\ BlockSize \in Nat /\ sizes \in Seq(Nat) /\ n \in Nat
      /\ st \in CopyStates
  BY CutAssumption DEF WellCut, Reached
<1>1. new \in CopyStates
  BY <1>c, CopyChunkType
<1>s. st.index = i + 1 /\ i \in Nat /\ read \in Nat
  BY <1>c DEF CopyStates
<1>2. CASE st.index = n + 1
  BY <1>c, <1>1, <1>2 DEF CopyChunk, Reached
<1>3. CASE st.index # n + 1
  <2>1. /\ st.index \in 1 .. n /\ k * Chunk = i * BlockSize + read
        /\ read < size /\ st.out = Content(tot[i] + read)
    BY <1>3 DEF Reached
  <2>2. /\ size \in 1 .. BlockSize /\ (st.index < n => BlockSize - Chunk < size)
        /\ i \in Nat /\ read \in Nat /\ left \in 1 .. BlockSize /\ left = size - read
    <3>1. size \in 1 .. BlockSize /\ (st.index < n => BlockSize - Chunk < size)
      BY <2>1 DEF WellCut
    <3>. HIDE DEF size, read
    <3>. QED BY <1>c, <1>s, <2>1, <3>1
  <2>3. tot[i] \in Nat /\ tot[i + 1] = tot[i] + size /\ i + 1 = st.index
    <3>1. i \in 0 .. n /\ (i + 1) - 1 = i /\ i + 1 \in 1 .. n
      BY <1>c, <1>s, <2>1
    <3>2. size = sizes[i + 1]
      BY <1>s
    <3>. HIDE DEF i, size
    <3>. QED BY <1>s, <3>1, <3>2 DEF Totals
  <2>4. \A j \in 1 .. Chunk : read + j <= size => chunk[j] = tot[i] + read + j
    BY <2>1
  <2>. DEFINE a == tot[i] + read
  <2>5. a \in Nat
    BY <2>2, <2>3
  <2>6. CASE left <= Chunk
    <3>. DEFINE s == SubSeq(chunk, 1, left)
    <3>1. new = [out |-> st.out \o s, index |-> st.index + 1, read |-> 0]
      BY <2>1, <2>6, <1>c DEF CopyChunk
    <3>2. s \in Seq(Nat) /\ Len(s) = left /\ \A j \in 1 .. left : s[j] = a + j
      <4>1. \A j \in 1 .. left : chunk[j] \in Nat /\ chunk[j] = a + j
        <5>1. ASSUME NEW j \in 1 .. left
              PROVE  j \in 1 .. Chunk /\ read + j <= size
          <6>. HIDE DEF left, size, read
          <6>. QED BY <1>c, <2>2, <2>6
        <5>2. \A j \in 1 .. left : chunk[j] \in Nat
          BY <1>c, <5>1, ElementOfSeq
        <5>. QED BY <2>4, <5>1, <5>2
      <4>. HIDE DEF left, a
      <4>2. /\ s \in Seq(Nat) /\ Len(s) = (IF 1 <= left THEN left - 1 + 1 ELSE 0)
            /\ \A j \in 1 .. left - 1 + 1 : s[j] = chunk[1 + j - 1]
        BY <2>2, <4>1, SubSeqProperties
      <4>. HIDE DEF s
      <4>. QED BY <2>2, <4>1, <4>2
    <3>3. Content(a) \o s = Content(a + left)
      <4>1. left \in Nat
        BY <2>2
      <4>. HIDE DEF left, a, s
      <4>. QED BY <2>5, <3>2, <4>1, ContentGrows
    <3>4. a + left = tot[st.index]
      BY <2>2, <2>3
    <3>5. new.out = Content(tot[st.index]) /\ new.index = st.index + 1 /\ new.read = 0
      <4>. HIDE DEF new, s, left
      <4>. QED BY <2>1, <3>1, <3>3, <3>4
    <3>. HIDE DEF new, s, a, left, size
    <3>6. CASE st.index = n
      <4>1. new.index = Len(sizes) + 1 /\ new.out = Content(tot[Len(sizes)])
        BY <3>5, <3>6
      <4>. QED BY <1>1, <4>1 DEF Reached, new
    <3>7. CASE st.index # n
      <4>1. st.index < n /\ new.index \in 1 .. n /\ new.index - 1 = i + 1
        <5>. HIDE DEF i
        <5>. QED BY <1>c, <1>s, <2>1, <3>5, <3>7
      <4>2. read + Chunk > BlockSize - Chunk /\ read < BlockSize
        <5>1. read < size
          BY <2>1 DEF size
        <5>2. BlockSize - Chunk < size
          BY <2>2, <4>1
        <5>. HIDE DEF read
        <5>. QED BY <1>c, <2>2, <2>6, <5>1, <5>2
      <4>3. (k + 1) * Chunk = (i + 1) * BlockSize
        <5>. HIDE DEF i, read
        <5>. QED BY <2>1, <2>2, <4>2, ChunkEndsBlock
      <4>4. (k + 1) * Chunk = (new.index - 1) * BlockSize + new.read
        BY <1>c, <2>2, <3>5, <4>1, <4>3
      <4>5. new.read < sizes[new.index]
        BY <3>5, <4>1, <1>c DEF WellCut
      <4>6. tot[st.index] + 0 = tot[st.index] /\ new.index - 1 = st.index
        <5>1. new.index - 1 = st.index
          BY <1>s, <3>5
        <5>. HIDE DEF i
        <5>. QED BY <2>2, <2>3, <5>1
      <4>7. new.out = Content(tot[new.index - 1] + new.read)
        BY <3>5, <4>6
      <4>. QED BY <1>1, <4>1, <4>4, <4>5, <4>7 DEF Reached, new
    <3>. QED BY <3>6, <3>7
  <2>7. CASE ~ (left <= Chunk)
    <3>1. new = [st EXCEPT !.out = @ \o chunk, !.read = @ + Chunk]
      BY <1>c, <2>1, <2>7 DEF CopyChunk
    <3>2. new.out = Content(a) \o chunk /\ new.index = st.index /\ new.read = read + Chunk
      BY <1>c, <2>1, <3>1 DEF CopyStates
    <3>3. \A j \in 1 .. Chunk : chunk[j] = a + j
      <4>1. ASSUME NEW j \in 1 .. Chunk
            PROVE  read + j <= size
        <5>. HIDE DEF left, size, read
        <5>. QED BY <1>c, <2>2, <2>7
      <4>. QED BY <2>4, <4>1
    <3>4. Content(a) \o chunk = Content(a + Chunk)
      <4>1. Chunk \in Nat
        BY <1>c
      <4>2. PICK b \in Nat : b = Chunk
        BY <4>1
      <4>. HIDE DEF a
      <4>. QED BY <2>5, <3>3, <4>2, ContentGrows
    <3>5. a + Chunk = tot[new.index - 1] + new.read
      <4>1. new.index - 1 = i
        BY <3>2
      <4>. HIDE DEF i, read, new
      <4>. QED BY <1>c, <2>2, <2>3, <3>2, <4>1
    <3>6. new.index - 1 = i
      BY <3>2
    <3>7. (k + 1) * Chunk = (new.index - 1) * BlockSize + new.read
      <4>. HIDE DEF i, read, new
      <4>1. (k + 1) * Chunk = k * Chunk + Chunk /\ k * Chunk \in Nat /\ i * BlockSize \in Nat
        BY <1>c, <1>s
      <4>. QED BY <1>c, <1>s, <2>1, <3>2, <3>6, <4>1
    <3>8. new.read < sizes[new.index]
      BY <1>c, <2>2, <2>7, <3>2
    <3>9. new.index \in 1 .. Len(sizes) /\ new.out = Content(tot[new.index - 1] + new.read)
      BY <2>1, <3>2, <3>4, <3>5
    <3>. HIDE DEF new
    <3>. QED BY <1>1, <3>7, <3>8, <3>9 DEF Reached, new
  <2>. QED BY <2>6, <2>7
<1>. QED BY <1>2, <1>3
\* reconstruct_file makes the file of its blocks.
LEMMA RebuildsContent ==
  ASSUME NEW sizes, WellCut(sizes), NEW blocks,
         blocks = [k \in 1 .. Len(sizes) |-> BlockData(sizes, k - 1)]
  PROVE  Reconstruct(sizes, FlattenSeq(blocks)) = Content(SumSeq(sizes))
<1>. DEFINE n == Len(sizes)
            bytes == FlattenSeq(blocks)
            B == BlockSize \div Chunk
            q == Len(bytes) \div Chunk
            chunks == ChunksOf(bytes)
<1>c. /\ Chunk \in Nat \ {0} /\ BlockSize \in Nat \ {0} /\ B \in Nat /\ BlockSize = B * Chunk
      /\ sizes \in Seq(Nat) /\ n \in Nat
  BY CutAssumption DEF WellCut
<1>1. PICK tot : Totals(tot, sizes) /\ SumSeq(sizes) = tot[n]
  BY <1>c, SumIsTotal
<1>2. \A i \in 1 .. n : /\ blocks[i] \in Seq(Nat) /\ Len(blocks[i]) = BlockSize
                        /\ \A r \in 1 .. BlockSize : r <= sizes[i] => blocks[i][r] = tot[i - 1] + r
  <2>1. ASSUME NEW i \in 1 .. n
        PROVE  /\ blocks[i] \in Seq(Nat) /\ Len(blocks[i]) = BlockSize
               /\ \A r \in 1 .. BlockSize : r <= sizes[i] => blocks[i][r] = tot[i - 1] + r
    <3>1. i - 1 \in 0 .. n - 1 /\ (i - 1) + 1 = i /\ blocks[i] = BlockData(sizes, i - 1)
      BY <1>c
    <3>2. /\ BlockData(sizes, i - 1) \in Seq(Nat) /\ Len(BlockData(sizes, i - 1)) = BlockSize
          /\ \A r \in 1 .. BlockSize :
               r <= sizes[(i - 1) + 1] => BlockData(sizes, i - 1)[r] = tot[i - 1] + r
      BY <1>c, <1>1, <3>1, BlockDataIs
    <3>. QED BY <3>1, <3>2
  <2>. QED BY <2>1
<1>3. blocks \in Seq(Seq(Nat)) /\ Len(blocks) = n
  BY <1>c, <1>2
<1>4. /\ bytes \in Seq(Nat) /\ Len(bytes) = n * BlockSize
      /\ \A i \in 1 .. n, r \in 1 .. BlockSize : bytes[(i - 1) * BlockSize + r] = blocks[i][r]
  <2>1. \A i \in 1 .. Len(blocks) : Len(blocks[i]) = BlockSize
    BY <1>2, <1>3
  <2>2. /\ bytes \in Seq(Nat) /\ Len(bytes) = Len(blocks) * BlockSize
        /\ \A i \in 1 .. Len(blocks), r \in 1 .. BlockSize :
             bytes[(i - 1) * BlockSize + r] = blocks[i][r]
    <3>. DEFINE V == Nat
    <3>1. blocks \in Seq(Seq(V))
      BY <1>3
    <3>. HIDE DEF V
    <3>2. /\ FlattenSeq(blocks) \in Seq(V) /\ Len(FlattenSeq(blocks)) = Len(blocks) * BlockSize
          /\ \A i \in 1 .. Len(blocks), r \in 1 .. BlockSize :
               FlattenSeq(blocks)[(i - 1) * BlockSize + r] = blocks[i][r]
      BY <2>1, <3>1, FlattenBlocks, ZenonT(40)
    <3>. QED BY <3>2 DEF V
  <2>. HIDE DEF bytes
  <2>. QED BY <1>3, <2>2
<1>. HIDE DEF bytes, B, n
<1>5. q \in Nat /\ q * Chunk = n * BlockSize
  <2>. DEFINE m == n * B
              zero == 0
  <2>1. m \in Nat /\ zero \in Nat /\ zero < Chunk /\ Len(bytes) = m * Chunk + zero
    BY <1>c, <1>4
  <2>. HIDE DEF m, zero
  <2>2. q = m
    BY <1>c, <2>1, Remainder
  <2>3. m * Chunk \in Nat
    BY <1>c, <2>1
  <2>4. m * Chunk = Len(bytes)
    BY <2>1, <2>3 DEF zero
  <2>. QED BY <1>4, <2>1, <2>2, <2>4
<1>6. PICK h : Copies(h, sizes, q, chunks) /\ Reconstruct(sizes, bytes) = h[q].out
  BY <1>c, <1>4, ReconstructCopies
<1>7. \A k \in 1 .. q : /\ chunks[k] \in Seq(Nat) /\ Len(chunks[k]) = Chunk
                        /\ \A j \in 1 .. Chunk : chunks[k][j] = bytes[(k - 1) * Chunk + j]
  BY <1>4, ChunksAre
<1>. HIDE DEF q, chunks
<1>. DEFINE S == {k \in Nat : Reached(h[k], sizes, tot, k)}
<1>8. 0 \in S
  <2>1. h[0] = CopyFirst
    BY <1>6 DEF Copies
  <2>2. /\ CopyFirst \in CopyStates /\ CopyFirst.index = 1 /\ CopyFirst.read = 0
        /\ CopyFirst.out = <<>>
    BY DEF CopyFirst, CopyStates
  <2>3. tot[0] = 0 /\ Content(0) = <<>>
    BY <1>1 DEF Totals, Content
  <2>4. CASE n = 0
    BY <2>1, <2>2, <2>3, <2>4 DEF Reached, n
  <2>5. CASE n # 0
    <3>1. 1 \in 1 .. n /\ 0 < sizes[1]
      BY <1>c, <2>5 DEF WellCut, n
    <3>2. 0 * Chunk = (1 - 1) * BlockSize + 0 /\ tot[1 - 1] + 0 = tot[0]
      BY <1>c, <2>3
    <3>. QED BY <2>1, <2>2, <2>3, <3>1, <3>2 DEF Reached, n
  <2>. QED BY <2>4, <2>5
<1>9. ASSUME NEW k \in 0 .. q - 1, k \in S
      PROVE  k + 1 \in S
  <2>. DEFINE st == h[k]
              chunk == chunks[k + 1]
  <2>1. k + 1 \in 1 .. q /\ (k + 1) - 1 = k /\ k \in Nat
    BY <1>5
  <2>2. Reached(st, sizes, tot, k)
    BY <1>9
  <2>3. h[k + 1] = CopyChunk(sizes, st, chunk)
    BY <1>6, <2>1 DEF Copies
  <2>4. /\ chunk \in Seq(Nat) /\ Len(chunk) = Chunk
        /\ \A j \in 1 .. Chunk : chunk[j] = bytes[k * Chunk + j]
    BY <1>7, <2>1
  <2>. HIDE DEF st, chunk
  <2>5. ASSUME NEW j \in 1 .. Chunk, st.index <= Len(sizes), st.read + j <= sizes[st.index]
        PROVE  chunk[j] = tot[st.index - 1] + st.read + j
    <3>. DEFINE i == st.index
                r == st.read + j
    <3>1. /\ i \in 1 .. n /\ k * Chunk = (i - 1) * BlockSize + st.read /\ st.read \in Nat
      BY <1>c, <2>2, <2>5 DEF Reached, CopyStates, n
    <3>2. r \in 1 .. BlockSize /\ r <= sizes[i]
      <4>1. sizes[i] \in 1 .. BlockSize
        BY <3>1 DEF WellCut, n
      <4>2. r <= sizes[i]
        BY <2>5
      <4>3. r \in Nat \ {0}
        BY <1>c, <3>1
      <4>. HIDE DEF r, i
      <4>. QED BY <1>c, <4>1, <4>2, <4>3
    <3>3. k * Chunk + j = (i - 1) * BlockSize + r
      <4>1. (i - 1) * BlockSize \in Int
        BY <1>c, <3>1
      <4>. DEFINE a == (i - 1) * BlockSize
                  b == k * Chunk
      <4>2. b = a + st.read /\ a \in Int
        BY <3>1, <4>1
      <4>. HIDE DEF a, b
      <4>3. b + j = a + r
        BY <1>c, <3>1, <4>2
      <4>. QED BY <4>3 DEF a, b
    <3>4. chunk[j] = bytes[(i - 1) * BlockSize + r]
      BY <2>4, <3>3
    <3>. HIDE DEF i, r
    <3>5. chunk[j] = blocks[i][r] /\ blocks[i][r] = tot[i - 1] + r
      BY <1>2, <1>4, <3>1, <3>2, <3>4
    <3>6. tot[i - 1] \in Nat
      <4>1. i - 1 \in 0 .. n
        BY <1>c, <3>1
      <4>. QED BY <1>1, <4>1 DEF Totals, n
    <3>. QED BY <3>1, <3>5, <3>6 DEF i, r
  <2>6. Reached(h[k + 1], sizes, tot, k + 1)
    BY <1>1, <2>1, <2>2, <2>3, <2>4, <2>5, CopyChunkReaches
  <2>. QED BY <2>1, <2>6
<1>. HIDE DEF S
<1>10. 0 .. q \subseteq S
  BY <1>5, <1>8, <1>9, CountUp
<1>11. Reached(h[q], sizes, tot, q)
  BY <1>5, <1>10 DEF S
<1>12. h[q].index \notin 1 .. n \/ ~ (q * Chunk = (h[q].index - 1) * BlockSize + h[q].read
                                      /\ h[q].read < sizes[h[q].index])
  <2>. DEFINE i == h[q].index
              r == h[q].read
              x == BlockSize
  <2>1. SUFFICES ASSUME i \in 1 .. n, q * Chunk = (i - 1) * x + r, r < sizes[i]
                 PROVE  FALSE
    OBVIOUS
  <2>2. r \in Nat /\ r < x
    BY <1>c, <1>11, <2>1 DEF Reached, CopyStates, WellCut, n
  <2>. DEFINE p == i - 1
  <2>3. p \in Nat /\ p < n /\ x \in Nat
    BY <1>c, <2>1
  <2>. HIDE DEF p, r, i, x
  <2>4. p * x + x <= n * x
    BY <1>c, <2>3, TimesLess
  <2>5. p * x \in Nat /\ n * x \in Nat
    BY <1>c, <2>3
  <2>6. q * Chunk = p * x + r
    BY <2>1 DEF p
  <2>. QED BY <1>5, <2>2, <2>3, <2>4, <2>5, <2>6 DEF x
<1>13. h[q].out = Content(tot[n])
  BY <1>11, <1>12 DEF Reached, n
<1>. QED BY <1>1, <1>6, <1>13 DEF bytes
-----------------------------------------------------------------------------
(* A read.                                                                 *)

\* A line is shorter than what file_btraverse reads at a time: a block that ends
\* earlier for a longer one would not end in its last chunk.
ShortLines ==
  \A f \in Files : f.type = "text" => \A k \in 1 .. Len(f.pieces) : f.pieces[k] < Chunk

\* What Read, receive_block and the handlers need to know of the file.
FileIs ==
  /\ WellCut(Sizes) /\ SumSeq(Sizes) = file.length /\ file.count = Len(Sizes)
  /\ \A i \in Blocks : file.data[i] = BlockData(Sizes, i)
  /\ \A i, j \in Blocks, c, d \in {0, 1} :
       /\ CopyOf(i, c) \in [node : Node, blockno : Nat] \cup {NoLoc}
       /\ CopyOf(i, c) = CopyOf(j, d) => i = j \/ CopyOf(i, c) = NoLoc

\* What a file is stored as is well cut.
LEMMA StoredIs ==
  ASSUME ShortLines, file \in {Stored(f) : f \in Files}
  PROVE  FileIs
<1>1. PICK f \in Files : file = Stored(f)
  OBVIOUS
<1>. DEFINE sizes == Partition(f)
<1>2. /\ file.sizes = sizes /\ file.length = SizeOf(f) /\ file.count = CountBlocks(f)
      /\ file.data = [i \in 0 .. Len(sizes) - 1 |-> BlockData(sizes, i)]
  BY <1>1 DEF Stored
<1>3. IsFile(f) /\ \A i, j \in 0 .. Len(sizes) - 1, c, d \in {0, 1} :
         /\ CopyOf(i, c) \in [node : Node, blockno : Nat] \cup {NoLoc}
         /\ CopyOf(i, c) = CopyOf(j, d) => i = j \/ CopyOf(i, c) = NoLoc
  BY ReadAssumption
<1>4. SmallPieces(f) /\ CountBlocks(f) = Len(sizes)
  <2>1. CASE f = TextFile(f.pieces) /\ f.pieces \in Seq(Nat \ {0})
    <3>1. f.type = "text"
      BY <2>1 DEF TextFile
    <3>2. \A k \in 1 .. Len(f.pieces) : f.pieces[k] \in 0 .. Chunk /\ f.pieces[k] < Chunk
      BY <2>1, <3>1, ElementOfSeq, CutAssumption DEF ShortLines
    <3>3. f.pieces \in Seq(0 .. Chunk)
      <4>. DEFINE s == f.pieces
                  n == Len(f.pieces)
      <4>1. s = [k \in 1 .. n |-> s[k]] /\ n \in Nat /\ \A k \in 1 .. n : s[k] \in 0 .. Chunk
        BY <2>1, <3>2
      <4>. HIDE DEF s, n
      <4>2. s \in [1 .. n -> 0 .. Chunk]
        BY <4>1
      <4>3. s \in Seq(0 .. Chunk)
        BY <4>1, <4>2, SeqDef
      <4>. QED BY <4>3 DEF s
    <3>. QED BY <3>1, <3>2, <3>3 DEF SmallPieces, CountBlocks
  <2>2. CASE f = BinFile(SizeOf(f)) /\ SizeOf(f) \in Nat
    <3>. DEFINE size == SizeOf(f)
    <3>. HIDE DEF size
    <3>1. size \in Nat /\ f = BinFile(size)
      BY <2>2 DEF size
    <3>. QED BY <3>1, BinSize, BinCount
  <2>. QED BY <1>3, <2>1, <2>2 DEF IsFile
<1>5. WellCut(sizes) /\ SumSeq(sizes) = SizeOf(f)
  BY <1>4, PartitionWell
<1>. HIDE DEF sizes
<1>. QED BY <1>2, <1>3, <1>4, <1>5 DEF FileIs, Sizes, Blocks
-----------------------------------------------------------------------------
\* The blocks of a stored file that have a copy at a place.
BlocksAt(f, n, b) ==
  {i \in 0 .. Len(f.sizes) - 1 : \E c \in {0, 1} : CopyOf(i, c) = [node |-> n, blockno |-> b]}

Busy(n) == op[n] # NoBlock

TypeInv ==
  /\ file \in {Stored(f) : f \in Files}
  /\ pc \in {"idle", "choose", "ask"} /\ next \in 0 .. Len(Sizes)
  /\ current \in Nat /\ sleep \in {0, 1}
  /\ handler \in [Node -> BOOLEAN]
  /\ hpc \in [Node -> {"receive", "wait", "copy", "count"}]
  /\ op \in [Node -> Nat \cup {NoBlock}] /\ answer = [n \in Node |-> answer[n]]
  /\ up \in [Node -> BOOLEAN]
  /\ pc # "idle" => map = [k \in 1 .. Len(Sizes) |-> map[k]]

\* What each handler is at work on was asked in this read, and nobody else is at
\* work on it.
AskedInv ==
  /\ \A n \in Node : Busy(n) => \E i \in 0 .. next - 1 : i \in BlocksAt(file, n, op[n])
  /\ \A m, n \in Node : m # n /\ Busy(m) /\ Busy(n)
       => BlocksAt(file, m, op[m]) \cap BlocksAt(file, n, op[n]) = {}
  /\ \A n \in Node : hpc[n] # "receive" => Busy(n)
  /\ \A n \in Node : ~ handler[n] => Quiet(n)
  /\ pc = "ask" => next < Len(Sizes) /\ copy # NoLoc /\ \E c \in {0, 1} : copy = CopyOf(next, c)

\* What it received and wrote is the block it is at work on.
AnswerInv ==
  \A n \in Node : \A i \in BlocksAt(file, n, op[n]) :
    /\ hpc[n] = "wait" => answer[n] \in {NoBlock, file.data[i]}
    /\ hpc[n] = "copy" => answer[n] = file.data[i]
    /\ hpc[n] = "count" => map[i + 1] = file.data[i]

\* The blocks of D are in their places, and nobody is at work on any of them.
InPlace(D) ==
  \A i \in D : /\ map[i + 1] = file.data[i]
               /\ \A n \in Node : Busy(n) => i \notin BlocksAt(file, n, op[n])

\* There are as many of them as were counted.
CountInv ==
  /\ pc # "idle" =>
       \E D \in SUBSET (0 .. next - 1) : Cardinality(D) = current /\ InPlace(D)
  /\ pc = "idle" => sleep = 0 /\ \A n \in Node : Quiet(n)
  /\ sleep = 1 => current = Len(Sizes)

ReadInv ==
  /\ TypeInv /\ AskedInv /\ AnswerInv /\ CountInv
  /\ shown \in {NoFile, Content(file.length)}

\* There is one block at a place.
LEMMA OneBlock ==
  ASSUME FileIs, NEW n \in Node, NEW b \in Nat, NEW i \in BlocksAt(file, n, b), NEW j \in BlocksAt(file, n, b)
  PROVE  i = j /\ i \in Blocks /\ [node |-> n, blockno |-> b] # NoLoc
<1>1. i \in Blocks /\ j \in Blocks
  BY DEF BlocksAt, Blocks, Sizes
<1>2. PICK c \in {0, 1} : CopyOf(i, c) = [node |-> n, blockno |-> b]
  BY DEF BlocksAt
<1>3. PICK d \in {0, 1} : CopyOf(j, d) = [node |-> n, blockno |-> b]
  BY DEF BlocksAt
<1>4. [node |-> n, blockno |-> b] # NoLoc
  BY ReadAssumption
<1>. QED BY <1>1, <1>2, <1>3, <1>4 DEF FileIs
-----------------------------------------------------------------------------
\* The invariant holds at first.
LEMMA ReadInit ==
  ASSUME ShortLines, Init
  PROVE  ReadInv
<1>1. FileIs /\ Len(Sizes) \in Nat
  BY StoredIs DEF Init, FileIs, WellCut
<1>2. TypeInv
  BY <1>1 DEF Init, TypeInv
<1>3. AskedInv
  BY DEF Init, AskedInv, Busy
<1>4. AnswerInv
  BY DEF Init, AnswerInv
<1>5. CountInv
  BY DEF Init, CountInv, Quiet
<1>. QED BY <1>2, <1>3, <1>4, <1>5 DEF ReadInv, Init

\* A read starts with nothing asked and nothing counted.
LEMMA StepRead ==
  ASSUME ShortLines, ReadInv, Read
  PROVE  ReadInv'
<1>. USE DEF ReadInv, Read, ResetCount, blockVars, handlerVars
<1>1. FileIs /\ Len(Sizes) \in Nat
  BY StoredIs DEF TypeInv, FileIs, WellCut
<1>q. \A n \in Node : Quiet(n)
  BY DEF CountInv
<1>2. TypeInv'
  BY <1>1, <1>q DEF TypeInv, Sizes
<1>3. AskedInv'
  BY <1>q DEF AskedInv, Busy, Quiet
<1>4. AnswerInv'
  BY <1>q DEF AnswerInv, Quiet
<1>5. CountInv'
  <2>1. {} \in SUBSET (0 .. next' - 1) /\ Cardinality({}) = current' /\ InPlace({})'
    BY FS_EmptySet DEF InPlace
  <2>. QED BY <2>1, <1>q DEF CountInv
<1>. QED BY <1>2, <1>3, <1>4, <1>5

\* A node that is found dead was quiet.
LEMMA StepChoose ==
  ASSUME ShortLines, ReadInv, Choose
  PROVE  ReadInv'
<1>. USE DEF ReadInv, Choose, blockVars, boundVars
<1>1. FileIs /\ Len(Sizes) \in Nat
  BY StoredIs DEF TypeInv, FileIs, WellCut
<1>2. TypeInv'
  BY DEF TypeInv, Sizes
<1>3. AskedInv'
  <2>1. ASSUME NEW n \in Node, ~ handler'[n]
        PROVE  Quiet(n)'
    BY <2>1 DEF AskedInv, Quiet, TypeInv
  <2>2. pc' = "ask" => next < Len(Sizes) /\ copy' # NoLoc /\ \E c \in {0, 1} : copy' = CopyOf(next, c)
    BY DEF First, Available, TypeInv
  <2>. QED BY <2>1, <2>2 DEF AskedInv, Busy, Sizes
<1>4. AnswerInv'
  BY DEF AnswerInv
<1>5. CountInv'
  BY DEF CountInv, InPlace, Busy, Sizes
<1>. QED BY <1>2, <1>3, <1>4, <1>5

\* A DataNode that serves a block keeps the invariant.
LEMMA StepServe ==
  ASSUME ShortLines, ReadInv, NEW n \in Node, Serve(n)
  PROVE  ReadInv'
<1>. USE DEF ReadInv, Serve, consoleVars, blockVars, boundVars
<1>1. FileIs /\ Len(Sizes) \in Nat
  BY StoredIs DEF TypeInv, FileIs, WellCut
<1>2. TypeInv'
  BY DEF TypeInv, Sizes
<1>3. AskedInv'
  BY DEF AskedInv, Busy, Sizes, Quiet, TypeInv
<1>4. AnswerInv'
  <2>1. ASSUME NEW i \in BlocksAt(file, n, op[n])
        PROVE  OnDisk([node |-> n, blockno |-> op[n]]) = file.data[i]
    <3>. DEFINE l == [node |-> n, blockno |-> op[n]]
                j == CHOOSE k \in Blocks : l \in {CopyOf(k, 0), CopyOf(k, 1)}
    <3>1. op[n] \in Nat
      BY DEF TypeInv
    <3>2. \A k \in Blocks : l \in {CopyOf(k, 0), CopyOf(k, 1)} <=> k \in BlocksAt(file, n, op[n])
      BY DEF Blocks, BlocksAt, Sizes
    <3>3. i \in Blocks
      BY DEF Blocks, BlocksAt, Sizes
    <3>4. j \in BlocksAt(file, n, op[n])
      BY <3>2, <3>3
    <3>5. j = i
      <4>. HIDE DEF j
      <4>. QED BY <1>1, <3>1, <3>4, OneBlock
    <3>. QED BY <3>5 DEF OnDisk
  <2>2. ASSUME NEW m \in Node, NEW i \in BlocksAt(file, m, op[m])
        PROVE  /\ hpc'[m] = "wait" => answer'[m] \in {NoBlock, file.data[i]}
               /\ hpc'[m] = "copy" => answer'[m] = file.data[i]
               /\ hpc'[m] = "count" => map[i + 1] = file.data[i]
    BY <2>1 DEF AnswerInv, TypeInv
  <2>. QED BY <2>2 DEF AnswerInv
<1>5. CountInv'
  BY DEF CountInv, InPlace, Busy, Sizes, Quiet
<1>. QED BY <1>2, <1>3, <1>4, <1>5

\* The FileSystem that receives one keeps it.
LEMMA StepReceive ==
  ASSUME ShortLines, ReadInv, NEW n \in Node, Receive(n)
  PROVE  ReadInv'
<1>. USE DEF ReadInv, Receive, consoleVars, blockVars, boundVars
<1>1. TypeInv'
  BY DEF TypeInv, Sizes
<1>2. AskedInv'
  <2>1. ASSUME NEW m \in Node, Busy(m)'
        PROVE  Busy(m) /\ op'[m] = op[m]
    BY <2>1 DEF Busy, TypeInv
  <2>2. ASSUME NEW m \in Node
        PROVE  (hpc'[m] # "receive" => op'[m] # NoBlock) /\ (~ handler[m] => Quiet(m)')
    BY DEF AskedInv, TypeInv, Busy, Quiet
  <2>. QED BY <2>1, <2>2 DEF AskedInv, Busy, Sizes
<1>3. AnswerInv'
  BY DEF AnswerInv, TypeInv
<1>4. CountInv'
  <2>1. ASSUME NEW m \in Node, Busy(m)'
        PROVE  Busy(m) /\ op'[m] = op[m]
    BY <2>1 DEF Busy, TypeInv
  <2>2. \A D : InPlace(D) => InPlace(D)'
    BY <2>1 DEF InPlace
  <2>3. pc = "idle" => \A m \in Node : Quiet(m)'
    BY DEF CountInv, Quiet
  <2>. QED BY <2>2, <2>3 DEF CountInv, Sizes
<1>. QED BY <1>1, <1>2, <1>3, <1>4
\* A block is asked for once in a read, and its place is no other block's.
LEMMA StepAsk ==
  ASSUME ShortLines, ReadInv, Ask
  PROVE  ReadInv'
<1>. USE DEF ReadInv, blockVars, boundVars
<1>1. FileIs /\ Len(Sizes) \in Nat
  BY StoredIs DEF TypeInv, FileIs, WellCut
<1>. DEFINE a == copy.node
<1>2. /\ pc = "ask" /\ pc' = "choose" /\ next' = next + 1
      /\ UNCHANGED <<file, copy, shown, map, current, sleep, handler, hpc, answer, up>>
      /\ IF handler[a] THEN op[a] = NoBlock /\ op' = [op EXCEPT ![a] = copy.blockno]
         ELSE op' = op
  BY DEF Ask
<1>3. next \in 0 .. Len(Sizes) - 1 /\ next \in Blocks /\ next + 1 \in 0 .. Len(Sizes)
  BY <1>1, <1>2 DEF AskedInv, TypeInv, Blocks
<1>4. PICK c \in {0, 1} : copy = CopyOf(next, c) /\ copy # NoLoc
  BY <1>2 DEF AskedInv
<1>5. /\ a \in Node /\ copy.blockno \in Nat
      /\ CopyOf(next, c) = [node |-> a, blockno |-> copy.blockno]
  <2>1. copy \in [node : Node, blockno : Nat]
    BY <1>1, <1>3, <1>4 DEF FileIs
  <2>. QED BY <1>4, <2>1
<1>6. next \in BlocksAt(file, a, copy.blockno)
  BY <1>3, <1>5 DEF BlocksAt, Blocks, Sizes
<1>7. TypeInv'
  BY <1>2, <1>3, <1>5 DEF TypeInv, Sizes
<1>8. CASE ~ handler[a]
  <2>1. op' = op /\ 0 .. next - 1 \subseteq 0 .. next' - 1
    BY <1>2, <1>3, <1>8
  <2>2. AskedInv'
    <3>1. \A m \in Node : Busy(m) => \E i \in 0 .. next' - 1 : i \in BlocksAt(file, m, op[m])
      BY <2>1 DEF AskedInv
    <3>. QED BY <1>2, <2>1, <3>1 DEF AskedInv, Busy, Quiet
  <2>3. AnswerInv'
    BY <1>2, <2>1 DEF AnswerInv
  <2>4. CountInv'
    <3>1. PICK D \in SUBSET (0 .. next - 1) : Cardinality(D) = current /\ InPlace(D)
      BY <1>2 DEF CountInv
    <3>2. InPlace(D)'
      BY <1>2, <2>1, <3>1 DEF InPlace, Busy
    <3>. QED BY <1>2, <2>1, <3>1, <3>2 DEF CountInv, Sizes
  <2>. QED BY <1>2, <1>7, <2>2, <2>3, <2>4
<1>9. CASE handler[a]
  <2>1. op' = [op EXCEPT ![a] = copy.blockno] /\ op[a] = NoBlock /\ op'[a] = copy.blockno
    BY <1>2, <1>5, <1>9 DEF TypeInv
  <2>2. \A m \in Node : m # a => op'[m] = op[m]
    BY <2>1
  <2>3. hpc[a] = "receive"
    BY <1>5, <2>1 DEF AskedInv, Busy
  <2>4. ASSUME NEW i \in BlocksAt(file, a, op'[a])
        PROVE  i = next
    BY <1>1, <1>5, <1>6, <2>1, <2>4, OneBlock
  <2>5. ASSUME NEW m \in Node, m # a, Busy(m)
        PROVE  next \notin BlocksAt(file, m, op[m])
    <3>1. PICK i \in 0 .. next - 1 : i \in BlocksAt(file, m, op[m])
      BY <2>5 DEF AskedInv
    <3>2. i # next /\ op[m] \in Nat
      BY <1>3, <2>5, <3>1 DEF TypeInv, Busy
    <3>. QED BY <1>1, <3>1, <3>2, OneBlock
  <2>6. AskedInv'
    <3>1. ASSUME NEW m \in Node, op'[m] # NoBlock
          PROVE  \E i \in 0 .. next' - 1 : i \in BlocksAt(file, m, op'[m])
      <4>1. CASE m = a
        BY <1>2, <1>3, <1>6, <2>1, <4>1
      <4>2. CASE m # a
        <5>1. PICK i \in 0 .. next - 1 : i \in BlocksAt(file, m, op[m])
          BY <2>2, <3>1, <4>2 DEF AskedInv, Busy
        <5>. QED BY <1>2, <1>3, <2>2, <4>2, <5>1
      <4>. QED BY <4>1, <4>2
    <3>2. ASSUME NEW m \in Node, NEW k \in Node, m # k, op'[m] # NoBlock, op'[k] # NoBlock
          PROVE  BlocksAt(file, m, op'[m]) \cap BlocksAt(file, k, op'[k]) = {}
      <4>1. CASE m = a
        BY <2>2, <2>4, <2>5, <3>2, <4>1 DEF Busy
      <4>2. CASE k = a
        BY <2>2, <2>4, <2>5, <3>2, <4>2 DEF Busy
      <4>3. CASE m # a /\ k # a
        BY <2>2, <3>2, <4>3 DEF AskedInv, Busy
      <4>. QED BY <4>1, <4>2, <4>3
    <3>3. ASSUME NEW m \in Node
          PROVE  /\ hpc[m] # "receive" => op'[m] # NoBlock
                 /\ ~ handler[m] => hpc[m] = "receive" /\ op'[m] = NoBlock
      BY <1>9, <2>2, <2>3 DEF AskedInv, Busy, Quiet
    <3>. QED BY <1>2, <3>1, <3>2, <3>3 DEF AskedInv, Busy, Quiet
  <2>7. AnswerInv'
    BY <1>2, <2>2, <2>3 DEF AnswerInv
  <2>8. CountInv'
    <3>1. PICK D \in SUBSET (0 .. next - 1) : Cardinality(D) = current /\ InPlace(D)
      BY <1>2 DEF CountInv
    <3>2. D \in SUBSET (0 .. next' - 1) /\ next \notin D
      BY <1>2, <1>3, <3>1
    <3>3. ASSUME NEW i \in D, NEW m \in Node, op'[m] # NoBlock
          PROVE  i \notin BlocksAt(file, m, op'[m])
      <4>1. CASE m = a
        BY <2>4, <3>2, <4>1
      <4>2. CASE m # a
        BY <2>2, <3>1, <3>3, <4>2 DEF InPlace, Busy
      <4>. QED BY <4>1, <4>2
    <3>4. InPlace(D)'
      BY <1>2, <3>1, <3>3 DEF InPlace, Busy
    <3>. QED BY <1>2, <3>1, <3>2, <3>4 DEF CountInv, Sizes
  <2>. QED BY <1>2, <1>7, <2>6, <2>7, <2>8
<1>. QED BY <1>8, <1>9

\* When the console wakes, every block is in its place.
LEMMA StepRebuild ==
  ASSUME ShortLines, ReadInv, Rebuild
  PROVE  ReadInv'
<1>. USE DEF ReadInv, Rebuild, handlerVars
<1>1. FileIs /\ Len(Sizes) \in Nat
  BY StoredIs DEF TypeInv, FileIs, WellCut
<1>2. sleep = 1 /\ current = Len(Sizes) /\ next = Len(Sizes) /\ pc # "idle"
  BY DEF TypeInv, CountInv
<1>3. PICK D \in SUBSET (0 .. next - 1) : Cardinality(D) = current /\ InPlace(D)
  BY <1>2 DEF CountInv
<1>4. D = Blocks
  <2>1. Blocks = 0 .. next - 1 /\ IsFiniteSet(Blocks) /\ Cardinality(Blocks) = Len(Sizes)
    <3>. DEFINE last == Len(Sizes) - 1
                zero == 0
    <3>1. last \in Int /\ zero \in Int
      BY <1>1
    <3>. HIDE DEF last, zero
    <3>2. /\ IsFiniteSet(zero .. last)
          /\ Cardinality(zero .. last) = IF zero > last THEN 0 ELSE last - zero + 1
      BY <3>1, FS_Interval
    <3>. QED BY <1>1, <1>2, <3>2 DEF Blocks, last, zero
  <2>. QED BY <1>2, <1>3, <2>1, FS_Subset
<1>5. \A n \in Node : Quiet(n)
  <2>1. ASSUME NEW n \in Node, Busy(n)
        PROVE  FALSE
    <3>1. PICK i \in 0 .. next - 1 : i \in BlocksAt(file, n, op[n])
      BY <2>1 DEF AskedInv
    <3>2. i \in D
      BY <1>2, <1>4 DEF Blocks
    <3>. QED BY <1>3, <2>1, <3>1, <3>2 DEF InPlace
  <2>. QED BY <2>1 DEF AskedInv, Quiet, Busy
<1>6. map = [k \in 1 .. Len(Sizes) |-> BlockData(Sizes, k - 1)]
  <2>1. ASSUME NEW k \in 1 .. Len(Sizes)
        PROVE  map[k] = BlockData(Sizes, k - 1)
    <3>1. k - 1 \in Blocks /\ (k - 1) + 1 = k
      BY <1>1 DEF Blocks
    <3>. QED BY <1>1, <1>3, <1>4, <3>1 DEF InPlace, FileIs
  <2>2. map = [k \in 1 .. Len(Sizes) |-> map[k]]
    BY <1>2 DEF TypeInv
  <2>. QED BY <2>1, <2>2
<1>7. shown' = Content(file.length)
  <2>1. Reconstruct(Sizes, FlattenSeq(map)) = Content(SumSeq(Sizes))
    BY <1>1, <1>6, RebuildsContent DEF FileIs
  <2>. QED BY <1>1, <2>1 DEF FileIs
<1>8. TypeInv'
  BY <1>2 DEF TypeInv, Sizes
<1>9. AskedInv'
  BY <1>2, <1>5 DEF AskedInv, Busy, Quiet
<1>10. AnswerInv'
  BY <1>5 DEF AnswerInv, Quiet
<1>11. CountInv'
  BY <1>2, <1>5 DEF CountInv, Quiet
<1>. QED BY <1>7, <1>8, <1>9, <1>10, <1>11
\* An answer is written to the place of its block.
LEMMA StepWriteBlock ==
  ASSUME ShortLines, ReadInv, NEW n \in Node, WriteBlock(n)
  PROVE  ReadInv'
<1>. USE DEF ReadInv, consoleVars, boundVars
<1>1. FileIs /\ Len(Sizes) \in Nat
  BY StoredIs DEF TypeInv, FileIs, WellCut
<1>. DEFINE found == At(n, op[n])
            i == CHOOSE k \in found : \A j \in found : k <= j
<1>2. /\ hpc[n] = "copy" /\ map' = [map EXCEPT ![i + 1] = answer[n]]
      /\ hpc' = [hpc EXCEPT ![n] = "count"]
      /\ UNCHANGED <<file, pc, next, copy, shown, current, sleep, handler, op, answer, up>>
  BY DEF WriteBlock
<1>3. found = BlocksAt(file, n, op[n])
  BY DEF At, BlocksAt, Blocks, Sizes
<1>4. Busy(n) /\ op[n] \in Nat
  BY <1>2 DEF AskedInv, TypeInv, Busy
<1>5. PICK b \in 0 .. next - 1 : b \in found
  BY <1>3, <1>4 DEF AskedInv
<1>6. found = {b} /\ b \in Blocks
  <2>. HIDE DEF found
  <2>1. \A j \in found : b = j /\ b \in Blocks
    BY <1>1, <1>3, <1>4, <1>5, OneBlock
  <2>. QED BY <1>5, <2>1
<1>7. i = b
  <2>1. b \in Int
    BY <1>6 DEF Blocks
  <2>. HIDE DEF found
  <2>. QED BY <1>6, <2>1
<1>. HIDE DEF found, i
<1>8. pc # "idle"
  BY <1>4 DEF CountInv, Quiet, Busy
<1>9. answer[n] = file.data[b]
  BY <1>2, <1>3, <1>5 DEF AnswerInv
<1>10. map'[b + 1] = file.data[b] /\ \A j \in Blocks : j # b => map'[j + 1] = map[j + 1]
  <2>1. b + 1 \in 1 .. Len(Sizes) /\ map = [k \in 1 .. Len(Sizes) |-> map[k]]
    BY <1>1, <1>6, <1>8 DEF Blocks, TypeInv
  <2>. QED BY <1>1, <1>2, <1>7, <1>9, <2>1 DEF Blocks
<1>11. TypeInv'
  <2>1. map' = [k \in 1 .. Len(Sizes) |-> map'[k]]
    BY <1>2, <1>8 DEF TypeInv
  <2>. QED BY <1>2, <2>1 DEF TypeInv, Sizes
<1>12. AskedInv'
  <2>1. ASSUME NEW m \in Node
        PROVE  (hpc'[m] # "receive" => Busy(m)) /\ (~ handler[m] => hpc'[m] = "receive" /\ ~ Busy(m))
    BY <1>2, <1>4 DEF AskedInv, TypeInv, Busy, Quiet
  <2>. QED BY <1>2, <2>1 DEF AskedInv, Busy, Sizes, Quiet
<1>13. AnswerInv'
  <2>1. ASSUME NEW m \in Node, NEW j \in BlocksAt(file, m, op[m])
        PROVE  /\ hpc'[m] = "wait" => answer[m] \in {NoBlock, file.data[j]}
               /\ hpc'[m] = "copy" => answer[m] = file.data[j]
               /\ hpc'[m] = "count" => map'[j + 1] = file.data[j]
    <3>1. j \in Blocks
      BY DEF BlocksAt, Blocks, Sizes
    <3>2. CASE m = n
      BY <1>2, <1>3, <1>6, <1>10, <3>2 DEF TypeInv
    <3>3. CASE m # n
      BY <1>2, <1>10, <3>1, <3>3 DEF AnswerInv, TypeInv
    <3>. QED BY <3>2, <3>3
  <2>. QED BY <1>2, <2>1 DEF AnswerInv
<1>14. CountInv'
  <2>1. PICK D \in SUBSET (0 .. next - 1) : Cardinality(D) = current /\ InPlace(D)
    BY <1>8 DEF CountInv
  <2>2. D \subseteq Blocks
    BY <1>1, <2>1 DEF TypeInv, Blocks
  <2>3. \A j \in D : map'[j + 1] = file.data[j]
    BY <1>10, <2>1, <2>2 DEF InPlace
  <2>4. InPlace(D)'
    BY <1>2, <2>1, <2>3 DEF InPlace, Busy
  <2>. QED BY <1>2, <1>8, <2>1, <2>4 DEF CountInv, Sizes
<1>. QED BY <1>2, <1>11, <1>12, <1>13, <1>14

\* A block that is written is counted once.
LEMMA StepCountBlock ==
  ASSUME ShortLines, ReadInv, NEW n \in Node, CountBlock(n)
  PROVE  ReadInv'
<1>. USE DEF ReadInv, consoleVars, boundVars
<1>1. FileIs /\ Len(Sizes) \in Nat
  BY StoredIs DEF TypeInv, FileIs, WellCut
<1>2. /\ hpc[n] = "count" /\ current' = current + 1
      /\ sleep' = IF current + 1 = Len(Sizes) THEN sleep + 1 ELSE sleep
      /\ hpc' = [hpc EXCEPT ![n] = "receive"] /\ op' = [op EXCEPT ![n] = NoBlock]
      /\ answer' = [answer EXCEPT ![n] = NoBlock]
      /\ UNCHANGED <<file, pc, next, copy, shown, map, handler, up>>
  BY DEF CountBlock, IsLast
<1>3. Busy(n) /\ op[n] \in Nat
  BY <1>2 DEF AskedInv, TypeInv, Busy
<1>4. PICK b \in 0 .. next - 1 : b \in BlocksAt(file, n, op[n])
  BY <1>3 DEF AskedInv
<1>5. pc # "idle"
  BY <1>3 DEF CountInv, Quiet, Busy
<1>6. PICK D \in SUBSET (0 .. next - 1) : Cardinality(D) = current /\ InPlace(D)
  BY <1>5 DEF CountInv
<1>7. b \notin D /\ map[b + 1] = file.data[b]
  BY <1>2, <1>3, <1>4, <1>6 DEF InPlace, AnswerInv
<1>. DEFINE E == D \cup {b}
<1>8. E \in SUBSET (0 .. next - 1) /\ Cardinality(E) = current + 1
  <2>1. IsFiniteSet(D)
    <3>1. IsFiniteSet(0 .. next - 1)
      <4>. DEFINE last == next - 1
                  zero == 0
      <4>1. last \in Int /\ zero \in Int
        BY <1>1 DEF TypeInv
      <4>. HIDE DEF last, zero
      <4>2. IsFiniteSet(zero .. last)
        BY <4>1, FS_Interval
      <4>. QED BY <4>2 DEF last, zero
    <3>. QED BY <1>6, <3>1, FS_Subset
  <2>. QED BY <1>4, <1>6, <1>7, <2>1, FS_AddElement
<1>9. current + 1 <= Len(Sizes) /\ sleep = 0
  <2>1. Cardinality(E) <= next
    <3>. DEFINE last == next - 1
                zero == 0
    <3>1. last \in Int /\ zero \in Int /\ next \in Nat
      BY <1>1 DEF TypeInv
    <3>. HIDE DEF last, zero
    <3>2. /\ IsFiniteSet(zero .. last)
          /\ Cardinality(zero .. last) = IF zero > last THEN 0 ELSE last - zero + 1
      BY <3>1, FS_Interval
    <3>3. E \in SUBSET (zero .. last)
      BY <1>8 DEF zero, last
    <3>. HIDE DEF E
    <3>4. Cardinality(E) <= Cardinality(zero .. last)
      BY <3>2, <3>3, FS_Subset
    <3>5. Cardinality(zero .. last) = next
      BY <3>1, <3>2 DEF zero, last
    <3>. QED BY <3>4, <3>5
  <2>. QED BY <1>1, <1>8, <2>1 DEF TypeInv, CountInv
<1>10. \A m \in Node : op'[m] # NoBlock => m # n /\ op'[m] = op[m]
  BY <1>2 DEF TypeInv
<1>11. TypeInv'
  <2>1. current' \in Nat /\ sleep' \in {0, 1}
    BY <1>2, <1>9 DEF TypeInv
  <2>2. /\ hpc' \in [Node -> {"receive", "wait", "copy", "count"}]
        /\ op' \in [Node -> Nat \cup {NoBlock}] /\ answer' = [m \in Node |-> answer'[m]]
    BY <1>2 DEF TypeInv
  <2>. QED BY <1>2, <2>1, <2>2 DEF TypeInv, Sizes
<1>12. AskedInv'
  <2>1. ASSUME NEW m \in Node
        PROVE  /\ hpc'[m] # "receive" => op'[m] # NoBlock
               /\ ~ handler[m] => hpc'[m] = "receive" /\ op'[m] = NoBlock
    BY <1>2 DEF AskedInv, TypeInv, Busy, Quiet
  <2>2. \A m \in Node : op'[m] # NoBlock => \E i \in 0 .. next - 1 : i \in BlocksAt(file, m, op'[m])
    BY <1>10 DEF AskedInv, Busy
  <2>3. \A m, k \in Node : m # k /\ op'[m] # NoBlock /\ op'[k] # NoBlock
          => BlocksAt(file, m, op'[m]) \cap BlocksAt(file, k, op'[k]) = {}
    BY <1>10 DEF AskedInv, Busy
  <2>. QED BY <1>2, <2>1, <2>2, <2>3 DEF AskedInv, Busy, Sizes, Quiet
<1>13. AnswerInv'
  <2>1. ASSUME NEW m \in Node, NEW j \in BlocksAt(file, m, op'[m])
        PROVE  /\ hpc'[m] = "wait" => answer'[m] \in {NoBlock, file.data[j]}
               /\ hpc'[m] = "copy" => answer'[m] = file.data[j]
               /\ hpc'[m] = "count" => map[j + 1] = file.data[j]
    <3>1. CASE m = n
      BY <1>2, <3>1 DEF TypeInv
    <3>2. CASE m # n
      BY <1>2, <3>2 DEF AnswerInv, TypeInv
    <3>. QED BY <3>1, <3>2
  <2>. QED BY <1>2, <2>1 DEF AnswerInv
<1>14. CountInv'
  <2>1. ASSUME NEW j \in E, NEW m \in Node, op'[m] # NoBlock
        PROVE  j \notin BlocksAt(file, m, op'[m])
    <3>1. m # n /\ op'[m] = op[m] /\ Busy(m)
      BY <1>10, <2>1 DEF Busy
    <3>2. CASE j = b
      BY <1>3, <1>4, <3>1, <3>2 DEF AskedInv
    <3>3. CASE j \in D
      BY <1>6, <3>1, <3>3 DEF InPlace
    <3>. QED BY <3>2, <3>3
  <2>2. \A j \in E : map[j + 1] = file.data[j]
    BY <1>6, <1>7 DEF InPlace
  <2>. HIDE DEF E
  <2>3. InPlace(E)'
    BY <1>2, <2>1, <2>2 DEF InPlace, Busy
  <2>4. sleep' = 1 => current' = Len(Sizes)
    BY <1>2, <1>9
  <2>. QED BY <1>2, <1>5, <1>8, <2>3, <2>4 DEF CountInv, Sizes
<1>. QED BY <1>2, <1>11, <1>12, <1>13, <1>14

\* A connection that is lost keeps it.
LEMMA StepDrop ==
  ASSUME ShortLines, ReadInv, NEW n \in Node, Drop(n)
  PROVE  ReadInv'
<1>. USE DEF ReadInv, Drop, consoleVars, blockVars
<1>1. TypeInv'
  BY DEF TypeInv, Sizes
<1>2. AskedInv'
  BY DEF AskedInv, Busy, Sizes, Quiet
<1>3. AnswerInv'
  BY DEF AnswerInv, TypeInv
<1>4. CountInv'
  BY DEF CountInv, InPlace, Busy, Sizes, Quiet
<1>. QED BY <1>1, <1>2, <1>3, <1>4

\* A DataNode that connects again keeps it.
LEMMA StepReconnect ==
  ASSUME ShortLines, ReadInv, NEW n \in Node, Reconnect(n)
  PROVE  ReadInv'
<1>. USE DEF ReadInv, Reconnect, consoleVars, blockVars, boundVars
<1>1. TypeInv'
  BY DEF TypeInv, Sizes
<1>2. AskedInv'
  <2>1. ASSUME NEW m \in Node
        PROVE  Quiet(m)'
    BY DEF AskedInv, Quiet
  <2>. QED BY <2>1 DEF AskedInv, Busy, Sizes
<1>3. AnswerInv'
  BY DEF AnswerInv
<1>4. CountInv'
  BY DEF CountInv, InPlace, Busy, Sizes, Quiet
<1>. QED BY <1>1, <1>2, <1>3, <1>4

\* A FileSystem that dies and starts again keeps it.
LEMMA StepRestart ==
  ASSUME ShortLines, ReadInv, Restart
  PROVE  ReadInv'
<1>. USE DEF ReadInv, Restart
<1>1. TypeInv'
  BY DEF TypeInv, Sizes
<1>2. AskedInv'
  BY DEF AskedInv, Busy, Quiet
<1>3. AnswerInv'
  BY DEF AnswerInv
<1>4. CountInv'
  <2>1. sleep' # 1 /\ pc' = "idle" /\ \A n \in Node : Quiet(n)'
    BY DEF Quiet
  <2>. QED BY <2>1 DEF CountInv
<1>. QED BY <1>1, <1>2, <1>3, <1>4

\* Every step keeps it.
LEMMA StepReads ==
  ASSUME ShortLines, ReadInv, [Next]_vars
  PROVE  ReadInv'
<1>1. CASE Read
  BY <1>1, StepRead
<1>2. CASE Choose
  BY <1>2, StepChoose
<1>3. CASE Ask
  BY <1>3, StepAsk
<1>4. CASE Rebuild
  BY <1>4, StepRebuild
<1>5. CASE Restart
  BY <1>5, StepRestart
<1>6. CASE \E n \in Node : Handler(n) \/ Drop(n) \/ Reconnect(n)
  BY <1>6, StepServe, StepReceive, StepWriteBlock, StepCountBlock, StepDrop, StepReconnect
     DEF Handler
<1>7. CASE UNCHANGED vars
  BY <1>7 DEF vars, consoleVars, blockVars, handlerVars, ReadInv, TypeInv, AskedInv,
              AnswerInv, CountInv, InPlace, Busy, Quiet, Sizes
<1>. QED BY <1>1, <1>2, <1>3, <1>4, <1>5, <1>6, <1>7 DEF Next, Console

\* The invariant holds for ever.
LEMMA ReadInvAlways ==
  ASSUME ShortLines
  PROVE  Spec => []ReadInv
<1>1. Init => ReadInv
  BY ReadInit
<1>2. ReadInv /\ [Next]_vars => ReadInv'
  BY StepReads
<1>. QED BY <1>1, <1>2, PTL DEF Spec

\* What cat, cpto and md5 show is the file that was stored, byte for byte and in
\* order, whatever the files, their places, the DataNodes and the connections that
\* are lost; and a file is cut into as many blocks as were counted before it was.
THEOREM ReadShowsFile ==
  ASSUME ShortLines
  PROVE  Spec => []ReadsWhole
<1>1. ReadInv => ReadsWhole
  BY StoredIs DEF ReadInv, TypeInv, FileIs, ReadsWhole
<1>. QED BY <1>1, ReadInvAlways, PTL
=============================================================================
