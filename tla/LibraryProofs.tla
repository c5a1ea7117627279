---------------------------- MODULE LibraryProofs ----------------------------
(***************************************************************************)
(* What the pure functions of the operator's crate are for.                 *)
(*                                                                          *)
(* The Merkle trees of SpentTree, for every height, every number of outputs *)
(* spent and every size of a payment and of a block: the proofs of a        *)
(* payment's inputs lead from one root of the tree to the next, and         *)
(* membership of a request and of a transaction is proved against the root  *)
(* of the whole tree.  The argument goes up the levels of a tree.  A        *)
(* recursive function of SpentTree is first shown to exist, with its values *)
(* given by those one level below; then the sparse levels are those of the  *)
(* full tree, a path of siblings leads from a leaf to the root, two trees   *)
(* agree but on the path of the leaf in which they differ, and spending an  *)
(* output takes the leaves of what was spent to those of what is spent with *)
(* it.  Induction is over sets of naturals (NatSet).                        *)
(*                                                                          *)
(* The amounts of Amounts, for every text, number of decimals and size of a *)
(* u64: an amount accepted is the one written.  What two runs of digits     *)
(* denote, one after the other, is shown digit by digit; the rest is        *)
(* arithmetic.  And decoded transactions: the same inputs, each as often,   *)
(* are a permutation, and the outputs accepted are the planned ones.        *)
(***************************************************************************)
EXTENDS Library, FiniteSetTheorems, SequenceTheorems, WellFoundedInduction, TLAPS

-----------------------------------------------------------------------------
(* Numbers. *)

\* A set of naturals has a smallest element.
LEMMA LeastOf ==
  ASSUME NEW T \in SUBSET Nat, T # {}
  PROVE  \E x \in T : \A y \in T : x <= y
<1> DEFINE Less == {p \in Nat \X Nat : p[1] < p[2]}
<1>1. PICK x \in T : \A y \in T : ~ (<<y, x>> \in Less)
  <2>1. IsWellFoundedOn(Less, Nat)
    <3>1. OpToRel(<, Nat) = Less
      BY DEF OpToRel
    <3> QED BY <3>1, NatLessThanWellFounded
  <2> QED BY <2>1, WFMin
<1>2. ASSUME NEW t \in T PROVE x <= t
  <2>1. t < x => <<t, x>> \in Less
    OBVIOUS
  <2> QED BY <1>1, <2>1
<1> QED BY <1>2

\* A set of naturals with 0 that has the successor of each of its elements is
\* all of them.
LEMMA NatSet ==
  ASSUME NEW T \in SUBSET Nat, 0 \in T, \A n \in T : n + 1 \in T
  PROVE  \A n \in Nat : n \in T
<1> DEFINE Rest == Nat \ T
<1>1. SUFFICES ASSUME Rest # {} PROVE FALSE
  OBVIOUS
<1>2. PICK x \in Rest : \A y \in Rest : x <= y
  <2>1. Rest \in SUBSET Nat
    OBVIOUS
  <2> HIDE DEF Rest
  <2> QED BY <1>1, <2>1, LeastOf
<1>3. x # 0 /\ x - 1 \in Nat
  OBVIOUS
<1>4. x - 1 \in Rest
  <2>1. x - 1 \in T => x - 1 + 1 \in T
    OBVIOUS
  <2> QED BY <1>3, <2>1
<1> QED BY <1>2, <1>3, <1>4

\* Half of the subsets of 1 .. n + 1 are those of 1 .. n, the other half has
\* n + 1 as well.
LEMMA PowerSteps ==
  ASSUME NEW n \in Nat PROVE 2 ^ (n + 1) = 2 ^ n + 2 ^ n /\ 2 ^ n \in Nat
<1> DEFINE low  == SUBSET (1 .. n)
           high == {t \cup {n + 1} : t \in low}
           f    == [t \in low |-> t \cup {n + 1}]
<1>1. /\ IsFiniteSet(1 .. n) /\ Cardinality(1 .. n) = n
      /\ IsFiniteSet(1 .. n + 1) /\ Cardinality(1 .. n + 1) = n + 1
  BY FS_Interval
<1>2. /\ IsFiniteSet(low) /\ Cardinality(low) = 2 ^ n
      /\ Cardinality(SUBSET (1 .. n + 1)) = 2 ^ (n + 1)
  BY <1>1, FS_SUBSET, Zenon
<1>3. ExistsBijection(low, high)
  <2>1. f \in [low -> high]
    OBVIOUS
  <2>2. ASSUME NEW s \in low, NEW t \in low, f[s] = f[t] PROVE s = t
    <3>1. n + 1 \notin s /\ n + 1 \notin t
      <4>1. n + 1 \notin 1 .. n
        OBVIOUS
      <4> QED BY <4>1
    <3>2. s \cup {n + 1} = t \cup {n + 1}
      BY <2>2
    <3> QED BY <3>1, <3>2
  <2>3. \A h \in high : \E t \in low : f[t] = h
    OBVIOUS
  <2> HIDE DEF f, low, high
  <2>4. f \in Bijection(low, high)
    BY <2>1, <2>2, <2>3 DEF Bijection, Injection, Surjection, IsInjective
  <2> QED BY <2>4 DEF ExistsBijection
<1>4. IsFiniteSet(high) /\ Cardinality(high) = 2 ^ n
  <2> HIDE DEF low, high
  <2> QED BY <1>2, <1>3, FS_Bijection
<1>5. SUBSET (1 .. n + 1) = low \cup high
  <2>1. ASSUME NEW t \in SUBSET (1 .. n + 1) PROVE t \in low \cup high
    <3>1. t \ {n + 1} \in low
      OBVIOUS
    <3>2. CASE n + 1 \in t
      <4>1. t = (t \ {n + 1}) \cup {n + 1}
        BY <3>2
      <4> QED BY <3>1, <4>1
    <3>3. CASE n + 1 \notin t
      BY <3>1, <3>3
    <3> QED BY <3>2, <3>3
  <2>2. low \subseteq SUBSET (1 .. n + 1)
    OBVIOUS
  <2>3. high \subseteq SUBSET (1 .. n + 1)
    <3>1. n + 1 \in 1 .. n + 1
      OBVIOUS
    <3> QED BY <2>2, <3>1
  <2> QED BY <2>1, <2>2, <2>3
<1>6. low \cap high = {}
  <2>1. n + 1 \notin 1 .. n
    OBVIOUS
  <2> QED BY <2>1
<1> HIDE DEF low, high
<1>7. Cardinality(low \cup high)
        = Cardinality(low) + Cardinality(high) - Cardinality(low \cap high)
  BY <1>2, <1>4, FS_Union
<1>8. Cardinality(low \cap high) = 0
  BY <1>6, FS_EmptySet
<1>9. 2 ^ n \in Nat
  BY <1>2, FS_CardinalityType
<1> DEFINE p == 2 ^ n
           q == 2 ^ (n + 1)
<1>10. p \in Nat /\ q = p + p - 0
  <2>1. /\ p \in Nat /\ Cardinality(low) = p /\ Cardinality(high) = p
        /\ Cardinality(low \cup high) = q
    BY <1>2, <1>4, <1>5, <1>9, Zenon
  <2> HIDE DEF p, q
  <2> QED BY <2>1, <1>7, <1>8
<1>11. p \in Nat /\ q = p + p
  <2> HIDE DEF p, q
  <2> QED BY <1>10
<1> QED BY <1>11, Zenon

LEMMA Powers ==
  /\ 2 ^ 0 = 1
  /\ \A n \in Nat : 2 ^ n \in Nat \ {0} /\ 2 ^ (n + 1) = 2 * 2 ^ n
<1>1. 2 ^ 0 = 1
  OBVIOUS
<1> DEFINE T == {n \in Nat : 2 ^ n # 0}
<1>2. T \in SUBSET Nat /\ 0 \in T
  BY <1>1
<1>3. ASSUME NEW n \in T PROVE n + 1 \in T
  <2> DEFINE p == 2 ^ n
             q == 2 ^ (n + 1)
  <2>1. q = p + p /\ p \in Nat /\ p # 0
    BY <1>3, PowerSteps
  <2>2. q # 0
    <3> HIDE DEF p, q
    <3> QED BY <2>1
  <2> QED BY <2>2
<1>4. \A n \in Nat : n \in T
  <2> HIDE DEF T
  <2> QED BY <1>2, <1>3, NatSet
<1>5. ASSUME NEW n \in Nat PROVE 2 ^ n \in Nat \ {0} /\ 2 ^ (n + 1) = 2 * 2 ^ n
  <2> DEFINE p == 2 ^ n
             q == 2 ^ (n + 1)
  <2>1. q = p + p /\ p \in Nat /\ p # 0
    BY <1>4, PowerSteps
  <2>2. p \in Nat \ {0} /\ q = 2 * p
    <3> HIDE DEF p, q
    <3> QED BY <2>1
  <2> QED BY <2>2
<1> QED BY <1>1, <1>5

\* Quotient and remainder are what they should be, and there are no others.
LEMMA Division ==
  ASSUME NEW d \in Nat \ {0}, NEW n \in Nat
  PROVE  /\ n \div d \in Nat /\ n % d \in 0 .. d - 1 /\ n = d * (n \div d) + (n % d)
  OBVIOUS

LEMMA Quotient ==
  ASSUME NEW d \in Nat \ {0}, NEW a \in Nat, NEW r \in 0 .. d - 1
  PROVE  (d * a + r) \div d = a /\ (d * a + r) % d = r
  OBVIOUS

LEMMA Halving ==
  ASSUME NEW p \in Nat \ {0}, NEW i \in Nat
  PROVE  i \div (2 * p) = (i \div p) \div 2
  OBVIOUS

-----------------------------------------------------------------------------
(* What the recursive functions of SpentTree are. *)

\* The root of an empty tree is the hash of two roots of empty trees.
LEMMA ZeroHashes ==
  /\ ZeroHash[0] = EmptyLeaf
  /\ \A n \in Nat : ZeroHash[n + 1] = <<ZeroHash[n], ZeroHash[n]>>
<1> DEFINE Up(x) == <<x, x>>
           IsUpTo(f, m) == f = [k \in 0 .. m |-> IF k = 0 THEN EmptyLeaf ELSE Up(f[k - 1])]
<1> HIDE DEF Up
<1>1. ASSUME NEW m \in Nat PROVE \E f : IsUpTo(f, m)
  <2> DEFINE T == {k \in Nat : \E f : IsUpTo(f, k)}
  <2>1. IsUpTo([k \in 0 .. 0 |-> EmptyLeaf], 0)
    OBVIOUS
  <2>2. ASSUME NEW k \in T PROVE k + 1 \in T
    <3>1. PICK f : IsUpTo(f, k)
      BY <2>2
    <3> DEFINE g == [j \in 0 .. k + 1 |-> IF j = k + 1 THEN Up(f[k]) ELSE f[j]]
    <3>2. IsUpTo(g, k + 1)
      BY <3>1
    <3> HIDE DEF g, IsUpTo
    <3> QED BY <3>2
  <2> HIDE DEF IsUpTo
  <2>3. T \in SUBSET Nat /\ 0 \in T
    BY <2>1
  <2> HIDE DEF T
  <2>4. m \in T
    BY <2>2, <2>3, NatSet
  <2> QED BY <2>4 DEF T
<1>2. ASSUME NEW m \in Nat, NEW f, IsUpTo(f, m), NEW g, IsUpTo(g, m + 1)
      PROVE  f[m] = g[m]
  <2> DEFINE T == {k \in Nat : k <= m => f[k] = g[k]}
  <2>1. 0 \in T
    BY <1>2
  <2>2. ASSUME NEW k \in T PROVE k + 1 \in T
    <3>1. SUFFICES ASSUME k + 1 <= m PROVE f[k + 1] = g[k + 1]
      OBVIOUS
    <3>2. f[k + 1] = Up(f[k + 1 - 1]) /\ g[k + 1] = Up(g[k + 1 - 1])
      BY <1>2, <3>1
    <3>3. k + 1 - 1 = k /\ f[k] = g[k]
      BY <2>2, <3>1
    <3> QED BY <3>2, <3>3
  <2>3. m \in T
    <3>1. T \in SUBSET Nat
      OBVIOUS
    <3> HIDE DEF T
    <3> QED BY <2>1, <2>2, <3>1, NatSet
  <2> QED BY <2>3
<1> DEFINE Part(m) == CHOOSE f : IsUpTo(f, m)
           whole   == [n \in Nat |-> Part(n)[n]]
<1>3. ASSUME NEW m \in Nat PROVE IsUpTo(Part(m), m)
  <2> HIDE DEF IsUpTo
  <2> QED BY <1>1
<1>4. whole[0] = EmptyLeaf
  <2>1. IsUpTo(Part(0), 0)
    BY <1>3
  <2> HIDE DEF Part
  <2> QED BY <2>1
<1>5. ASSUME NEW m \in Nat PROVE whole[m + 1] = Up(whole[m])
  <2>1. IsUpTo(Part(m), m) /\ IsUpTo(Part(m + 1), m + 1)
    <3>1. m + 1 \in Nat
      OBVIOUS
    <3> HIDE DEF Part, IsUpTo
    <3> QED BY <1>3, <3>1
  <2> HIDE DEF Part
  <2>2. Part(m)[m] = Part(m + 1)[m]
    <3> DEFINE f == Part(m)
               g == Part(m + 1)
    <3>1. IsUpTo(f, m) /\ IsUpTo(g, m + 1)
      BY <2>1
    <3> HIDE DEF f, g, IsUpTo
    <3>2. f[m] = g[m]
      BY <1>2, <3>1
    <3> QED BY <3>2 DEF f, g
  <2>3. Part(m + 1)[m + 1] = Up(Part(m + 1)[m])
    BY <2>1
  <2> QED BY <2>2, <2>3
<1>6. whole = [n \in Nat |-> IF n = 0 THEN EmptyLeaf ELSE Up(whole[n - 1])]
  <2>1. ASSUME NEW n \in Nat
        PROVE  whole[n] = IF n = 0 THEN EmptyLeaf ELSE Up(whole[n - 1])
    <3>1. n # 0 => n - 1 \in Nat /\ n - 1 + 1 = n
      OBVIOUS
    <3> HIDE DEF whole
    <3> QED BY <1>4, <1>5, <3>1
  <2>2. whole = [n \in Nat |-> whole[n]]
    OBVIOUS
  <2> HIDE DEF whole
  <2> QED BY <2>1, <2>2
<1> HIDE DEF whole
<1>7. ZeroHash = [n \in Nat |-> IF n = 0 THEN EmptyLeaf ELSE Up(ZeroHash[n - 1])]
  BY <1>6 DEF ZeroHash, Up
<1>8. ASSUME NEW n \in Nat PROVE ZeroHash[n + 1] = Up(ZeroHash[n])
  <2>1. n + 1 \in Nat /\ n + 1 # 0 /\ n + 1 - 1 = n
    OBVIOUS
  <2> QED BY <1>7, <2>1
<1> QED BY <1>7, <1>8 DEF Up

\* N is a full tree of a height over leaves: N[h][i] is node i of height h.
Nodes(N, leaves, height) ==
  /\ N[0] = leaves
  /\ \A h \in 1 .. height :
       N[h] = [i \in Nat |-> <<N[h - 1][2 * i], N[h - 1][2 * i + 1]>>]

\* Such a tree is what DenseRoot takes the root of.
LEMMA DenseRootIs ==
  ASSUME NEW leaves, NEW height \in Nat
  PROVE  \E N : Nodes(N, leaves, height) /\ DenseRoot(leaves, height) = N[height][0]
<1> DEFINE Step(x, h) == [i \in Nat |-> <<x[2 * i], x[2 * i + 1]>>]
           IsUpTo(f, m) == f = [h \in 0 .. m |-> IF h = 0 THEN leaves ELSE Step(f[h - 1], h)]
<1> HIDE DEF Step
<1>1. IsUpTo([h \in 0 .. 0 |-> leaves], 0)
  OBVIOUS
<1>2. ASSUME NEW m \in Nat, NEW f, IsUpTo(f, m)
      PROVE  IsUpTo([h \in 0 .. m + 1 |-> IF h = m + 1 THEN Step(f[m], h) ELSE f[h]], m + 1)
  BY <1>2
<1>3. \E f : IsUpTo(f, height)
  <2> DEFINE T == {k \in Nat : \E f : IsUpTo(f, k)}
  <2> HIDE DEF IsUpTo
  <2>1. T \in SUBSET Nat /\ 0 \in T
    BY <1>1
  <2>2. ASSUME NEW k \in T PROVE k + 1 \in T
    <3>1. PICK f : IsUpTo(f, k)
      OBVIOUS
    <3> DEFINE g == [h \in 0 .. k + 1 |-> IF h = k + 1 THEN Step(f[k], h) ELSE f[h]]
    <3>2. IsUpTo(g, k + 1)
      BY <1>2, <3>1
    <3> HIDE DEF g
    <3> QED BY <3>2
  <2> HIDE DEF T
  <2>3. height \in T
    BY <2>1, <2>2, NatSet
  <2> QED BY <2>3 DEF T
<1> DEFINE N == CHOOSE f : IsUpTo(f, height)
<1>4. IsUpTo(N, height)
  <2> HIDE DEF IsUpTo
  <2> QED BY <1>3
<1>5. DenseRoot(leaves, height) = N[height][0]
  BY DEF DenseRoot, Step
<1> HIDE DEF N
<1>6. Nodes(N, leaves, height)
  <2>1. N[0] = leaves /\ \A h \in 1 .. height : N[h] = Step(N[h - 1], h)
    BY <1>4
  <2> QED BY <2>1 DEF Nodes, Step
<1> QED BY <1>5, <1>6

\* The non-empty nodes above those of height h - 1.
Above(below, h) ==
  [i \in {j \div 2 : j \in DOMAIN below} |->
     <<NodeOr(below, h - 1, 2 * i), NodeOr(below, h - 1, 2 * i + 1)>>]
NonEmpty(leaves) == Restrict(leaves, {i \in DOMAIN leaves : leaves[i] # EmptyLeaf})

LEMMA SparseLevelsAre ==
  ASSUME NEW leaves, NEW height \in Nat
  PROVE  /\ SparseLevels(leaves, height)[0] = NonEmpty(leaves)
         /\ \A h \in 1 .. height :
              SparseLevels(leaves, height)[h] = Above(SparseLevels(leaves, height)[h - 1], h)
<1> DEFINE IsUpTo(f, m) == f = [h \in 0 .. m |-> IF h = 0 THEN NonEmpty(leaves)
                                                 ELSE Above(f[h - 1], h)]
<1>1. IsUpTo([h \in 0 .. 0 |-> NonEmpty(leaves)], 0)
  OBVIOUS
<1>2. ASSUME NEW m \in Nat, NEW f, IsUpTo(f, m)
      PROVE  IsUpTo([h \in 0 .. m + 1 |-> IF h = m + 1 THEN Above(f[m], h) ELSE f[h]], m + 1)
  BY <1>2
<1>3. \E f : IsUpTo(f, height)
  <2> DEFINE T == {k \in Nat : \E f : IsUpTo(f, k)}
  <2> HIDE DEF IsUpTo
  <2>1. T \in SUBSET Nat /\ 0 \in T
    BY <1>1
  <2>2. ASSUME NEW k \in T PROVE k + 1 \in T
    <3>1. PICK f : IsUpTo(f, k)
      OBVIOUS
    <3> DEFINE g == [h \in 0 .. k + 1 |-> IF h = k + 1 THEN Above(f[k], h) ELSE f[h]]
    <3>2. IsUpTo(g, k + 1)
      BY <1>2, <3>1
    <3> HIDE DEF g
    <3> QED BY <3>2
  <2> HIDE DEF T
  <2>3. height \in T
    BY <2>1, <2>2, NatSet
  <2> QED BY <2>3 DEF T
<1> DEFINE levels == CHOOSE f : IsUpTo(f, height)
<1>4. IsUpTo(levels, height)
  <2> HIDE DEF IsUpTo
  <2> QED BY <1>3
<1>5. SparseLevels(leaves, height) = levels
  BY DEF SparseLevels, Above, NonEmpty
<1> HIDE DEF levels
<1> QED BY <1>4, <1>5

\* The nodes of a level are the pairs of those below.
Joins(N, h) == \A i \in Nat : N[h + 1][i] = <<N[h][2 * i], N[h][2 * i + 1]>>

LEMMA NodesAbove ==
  ASSUME NEW leaves, NEW height, NEW N, Nodes(N, leaves, height),
         NEW h \in Nat, height \in Nat, h + 1 <= height
  PROVE  Joins(N, h)
<1>1. PICK k \in 1 .. height : k = h + 1 /\ k - 1 = h
  OBVIOUS
<1>2. N[k] = [i \in Nat |-> <<N[k - 1][2 * i], N[k - 1][2 * i + 1]>>]
  BY DEF Nodes
<1> QED BY <1>1, <1>2 DEF Joins

\* The leaves of a tree, the empty ones among them.
AllLeaves(leaves) == [i \in Nat |-> NodeOr(leaves, 0, i)]

\* The nodes that are kept, and the roots of empty trees for the others, are
\* those of the full tree.
LEMMA SparseIsFull ==
  ASSUME NEW leaves, DOMAIN leaves \subseteq Nat, NEW height \in Nat, NEW N,
         Nodes(N, AllLeaves(leaves), height)
  PROVE  \A h \in 0 .. height, i \in Nat :
           NodeOr(SparseLevels(leaves, height)[h], h, i) = N[h][i]
<1> DEFINE levels == SparseLevels(leaves, height)
           P(h) == h <= height =>
                     /\ DOMAIN levels[h] \subseteq Nat
                     /\ \A i \in Nat : NodeOr(levels[h], h, i) = N[h][i]
           T == {h \in Nat : P(h)}
<1>1. /\ levels[0] = NonEmpty(leaves)
      /\ \A h \in 1 .. height : levels[h] = Above(levels[h - 1], h)
  BY SparseLevelsAre
<1>2. N[0] = AllLeaves(leaves)
  BY DEF Nodes
<1> HIDE DEF levels
<1>3. 0 \in T
  <2>1. /\ DOMAIN levels[0] = {i \in DOMAIN leaves : leaves[i] # EmptyLeaf}
        /\ \A i \in DOMAIN levels[0] : levels[0][i] = leaves[i]
    BY <1>1 DEF NonEmpty, Restrict
  <2>2. ASSUME NEW i \in Nat PROVE NodeOr(levels[0], 0, i) = N[0][i]
    BY <1>2, <2>1, ZeroHashes DEF NodeOr, AllLeaves
  <2> QED BY <2>1, <2>2
<1>4. ASSUME NEW h \in T PROVE h + 1 \in T
  <2>1. SUFFICES ASSUME h + 1 <= height
                 PROVE  /\ DOMAIN levels[h + 1] \subseteq Nat
                        /\ \A i \in Nat : NodeOr(levels[h + 1], h + 1, i) = N[h + 1][i]
    OBVIOUS
  <2> DEFINE below == levels[h]
  <2>2. DOMAIN below \subseteq Nat /\ \A i \in Nat : NodeOr(below, h, i) = N[h][i]
    BY <1>4, <2>1
  <2>3. h + 1 \in 1 .. height /\ h + 1 - 1 = h
    BY <1>4, <2>1
  <2>4. levels[h + 1] = [i \in {j \div 2 : j \in DOMAIN below} |->
                           <<NodeOr(below, h, 2 * i), NodeOr(below, h, 2 * i + 1)>>]
    BY <1>1, <2>3 DEF Above
  <2>5. \A i \in Nat : N[h + 1][i] = <<N[h][2 * i], N[h][2 * i + 1]>>
    <3>1. h \in Nat /\ h + 1 <= height
      BY <1>4, <2>1
    <3> HIDE DEF T, P, below
    <3>2. Joins(N, h)
      BY <3>1, NodesAbove
    <3> QED BY <3>2 DEF Joins
  <2> HIDE DEF below
  <2>6. DOMAIN levels[h + 1] = {j \div 2 : j \in DOMAIN below}
    BY <2>4
  <2>7. DOMAIN levels[h + 1] \subseteq Nat
    <3>1. \A j \in Nat : j \div 2 \in Nat
      OBVIOUS
    <3> QED BY <2>2, <2>6, <3>1
  <2>8. ASSUME NEW i \in Nat PROVE NodeOr(levels[h + 1], h + 1, i) = N[h + 1][i]
    <3>1. 2 * i \in Nat /\ 2 * i + 1 \in Nat
      OBVIOUS
    <3>2. N[h + 1][i] = <<NodeOr(below, h, 2 * i), NodeOr(below, h, 2 * i + 1)>>
      BY <2>2, <2>5, <3>1
    <3>3. CASE i \in DOMAIN levels[h + 1]
      BY <2>4, <2>6, <3>2, <3>3 DEF NodeOr
    <3>4. CASE i \notin DOMAIN levels[h + 1]
      <4>1. 2 * i \notin DOMAIN below /\ 2 * i + 1 \notin DOMAIN below
        <5>1. (2 * i) \div 2 = i /\ (2 * i + 1) \div 2 = i
          OBVIOUS
        <5> QED BY <2>6, <3>4, <5>1
      <4>2. N[h + 1][i] = <<ZeroHash[h], ZeroHash[h]>>
        BY <3>2, <4>1 DEF NodeOr
      <4>3. NodeOr(levels[h + 1], h + 1, i) = ZeroHash[h + 1]
        BY <3>4 DEF NodeOr
      <4>4. h \in Nat
        BY <1>4
      <4> QED BY <4>2, <4>3, <4>4, ZeroHashes
    <3> QED BY <3>3, <3>4
  <2> QED BY <2>7, <2>8
<1>5. \A h \in Nat : h \in T
  <2>1. T \in SUBSET Nat
    OBVIOUS
  <2> HIDE DEF T
  <2> QED BY <1>3, <1>4, <2>1, NatSet
<1> QED BY <1>5 DEF levels

\* The hash of a node and the sibling it is hashed with.
Hashed(x, sibling, place) == IF place % 2 = 0 THEN <<x, sibling>> ELSE <<sibling, x>>

\* Node f[h] is the one of height h on the way up from a leaf.
Climbs(f, leaf, index, siblings) ==
  /\ f[0] = leaf
  /\ \A h \in 1 .. Len(siblings) :
       f[h] = Hashed(f[h - 1], siblings[h], index \div 2 ^ (h - 1))

\* RootFromProof hashes its way up.
LEMMA RootFromProofIs ==
  ASSUME NEW leaf, NEW index, NEW siblings, Len(siblings) \in Nat
  PROVE  \E f : /\ Climbs(f, leaf, index, siblings)
                /\ RootFromProof(leaf, index, siblings) = f[Len(siblings)]
<1> DEFINE n == Len(siblings)
           Step(x, h) == Hashed(x, siblings[h], index \div 2 ^ (h - 1))
           IsUpTo(f, m) == f = [h \in 0 .. m |-> IF h = 0 THEN leaf ELSE Step(f[h - 1], h)]
<1> HIDE DEF Step
<1>1. IsUpTo([h \in 0 .. 0 |-> leaf], 0)
  OBVIOUS
<1>2. ASSUME NEW m \in Nat, NEW f, IsUpTo(f, m)
      PROVE  IsUpTo([h \in 0 .. m + 1 |-> IF h = m + 1 THEN Step(f[m], h) ELSE f[h]], m + 1)
  BY <1>2
<1>3. \E f : IsUpTo(f, n)
  <2> DEFINE T == {k \in Nat : \E f : IsUpTo(f, k)}
  <2> HIDE DEF IsUpTo
  <2>1. T \in SUBSET Nat /\ 0 \in T
    BY <1>1
  <2>2. ASSUME NEW k \in T PROVE k + 1 \in T
    <3>1. PICK f : IsUpTo(f, k)
      OBVIOUS
    <3> DEFINE g == [h \in 0 .. k + 1 |-> IF h = k + 1 THEN Step(f[k], h) ELSE f[h]]
    <3>2. IsUpTo(g, k + 1)
      BY <1>2, <3>1
    <3> HIDE DEF g
    <3> QED BY <3>2
  <2> HIDE DEF T
  <2>3. n \in T
    BY <2>1, <2>2, NatSet
  <2> QED BY <2>3 DEF T
<1> DEFINE node == CHOOSE f : IsUpTo(f, n)
<1>4. IsUpTo(node, n)
  <2> HIDE DEF IsUpTo
  <2> QED BY <1>3
<1>5. RootFromProof(leaf, index, siblings) = node[n]
  BY DEF RootFromProof, Step, Hashed
<1> HIDE DEF node
<1>6. node[0] = leaf /\ \A h \in 1 .. n : node[h] = Step(node[h - 1], h)
  <2> HIDE DEF n
  <2> QED BY <1>4 DEF n
<1> QED BY <1>5, <1>6 DEF Step, Climbs

\* The place above a place.
LEMMA PlaceAbove ==
  ASSUME NEW i \in Nat, NEW h \in Nat
  PROVE  i \div 2 ^ h \in Nat /\ i \div 2 ^ (h + 1) = (i \div 2 ^ h) \div 2
<1> DEFINE p == 2 ^ h
           q == 2 ^ (h + 1)
<1>1. p \in Nat \ {0} /\ q = 2 * p
  BY Powers
<1>2. i \div p \in Nat /\ i \div q = (i \div p) \div 2
  <2> HIDE DEF p, q
  <2> QED BY <1>1, Division, Halving
<1> QED BY <1>2

LEMMA PlaceAtEnds ==
  ASSUME NEW i \in Nat, NEW height \in Nat, i < 2 ^ height
  PROVE  i \div 2 ^ 0 = i /\ i \div 2 ^ height = 0
<1> DEFINE p == 2 ^ height
<1>1. p \in Nat \ {0} /\ i < p /\ 2 ^ 0 = 1
  BY Powers
<1>2. i \div 1 = i
  OBVIOUS
<1>3. i \div p = 0
  <2> HIDE DEF p
  <2>1. i \in 0 .. p - 1 /\ p * 0 + i = i
    BY <1>1
  <2> QED BY <1>1, <2>1, Quotient
<1> QED BY <1>1, <1>2, <1>3

\* The siblings on the way up from a place.
IsPath(path, N, height, i) ==
  /\ Len(path) = height
  /\ \A h \in 1 .. height : path[h] = N[h - 1][Sibling(i \div 2 ^ (h - 1))]

\* The siblings on the way up lead from a leaf to the root.
LEMMA PathLeads ==
  ASSUME NEW leaves, NEW height \in Nat, NEW N, Nodes(N, leaves, height),
         NEW i \in Nat, i < 2 ^ height, NEW path, IsPath(path, N, height, i)
  PROVE  RootFromProof(leaves[i], i, path) = N[height][0]
<1>0. Len(path) = height
  BY DEF IsPath
<1>1. PICK f : Climbs(f, leaves[i], i, path) /\ RootFromProof(leaves[i], i, path) = f[height]
  BY <1>0, RootFromProofIs
<1> DEFINE T == {h \in Nat : h <= height => f[h] = N[h][i \div 2 ^ h]}
<1>2. 0 \in T
  <2>1. i \div 2 ^ 0 = i
    BY PlaceAtEnds
  <2>2. N[0] = leaves
    BY DEF Nodes
  <2>3. f[0] = N[0][i \div 2 ^ 0]
    BY <1>1, <2>1, <2>2 DEF Climbs
  <2> QED BY <2>3
<1>3. ASSUME NEW h \in T PROVE h + 1 \in T
  <2>1. SUFFICES ASSUME h + 1 <= height PROVE f[h + 1] = N[h + 1][i \div 2 ^ (h + 1)]
    OBVIOUS
  <2> DEFINE j == i \div 2 ^ h
  <2>2. /\ h \in Nat /\ h + 1 \in 1 .. height /\ h + 1 - 1 = h
        /\ f[h] = N[h][j]
    BY <1>3, <2>1
  <2>3. j \in Nat /\ i \div 2 ^ (h + 1) = j \div 2 /\ j \div 2 \in Nat
    <3>1. j \in Nat /\ i \div 2 ^ (h + 1) = j \div 2
      BY <2>2, PlaceAbove
    <3> HIDE DEF j
    <3>2. j \div 2 \in Nat
      BY <3>1
    <3> QED BY <3>1, <3>2
  <2>4. f[h + 1] = Hashed(f[h], N[h][Sibling(j)], j)
    BY <1>0, <1>1, <2>2 DEF Climbs, IsPath
  <2>5. N[h + 1][j \div 2] = <<N[h][2 * (j \div 2)], N[h][2 * (j \div 2) + 1]>>
    <3> DEFINE k == j \div 2
    <3>1. k \in Nat /\ h \in Nat /\ h + 1 <= height
      BY <2>1, <2>2, <2>3
    <3> HIDE DEF j, k, T
    <3>2. h \in Nat /\ h + 1 <= height
      BY <3>1
    <3>3. Joins(N, h)
      BY <3>2, NodesAbove
    <3> QED BY <3>1, <3>3 DEF k, Joins
  <2> HIDE DEF j
  <2>6. CASE j % 2 = 0
    <3>1. 2 * (j \div 2) = j /\ Sibling(j) = j + 1
      BY <2>3, <2>6 DEF Sibling
    <3> QED BY <2>2, <2>3, <2>4, <2>5, <2>6, <3>1 DEF Hashed
  <2>7. CASE j % 2 # 0
    <3>1. 2 * (j \div 2) + 1 = j /\ 2 * (j \div 2) = j - 1 /\ Sibling(j) = j - 1
      BY <2>3, <2>7 DEF Sibling
    <3> QED BY <2>2, <2>3, <2>4, <2>5, <2>7, <3>1 DEF Hashed
  <2> QED BY <2>6, <2>7
<1>4. height \in T
  <2>1. T \in SUBSET Nat
    OBVIOUS
  <2> HIDE DEF T
  <2> QED BY <1>2, <1>3, <2>1, NatSet
<1> QED BY <1>1, <1>4, PlaceAtEnds

\* Two trees are the same but for the nodes above some leaves.
AgreeBut(N, M, D, height) ==
  \A h \in 0 .. height, i \in Nat :
    (\A d \in D : d \div 2 ^ h # i) => N[h][i] = M[h][i]

\* Leaves that differ in some places only make nodes that differ above those
\* only.
LEMMA NodesAgree ==
  ASSUME NEW D \in SUBSET Nat, NEW height \in Nat,
         NEW leaves, NEW N, Nodes(N, leaves, height),
         NEW others, NEW M, Nodes(M, others, height),
         \A i \in Nat \ D : leaves[i] = others[i]
  PROVE  AgreeBut(N, M, D, height)
<1> DEFINE T == {h \in Nat : h <= height =>
                   \A i \in Nat : (\A d \in D : d \div 2 ^ h # i) => N[h][i] = M[h][i]}
<1>1. 0 \in T
  <2>1. ASSUME NEW i \in Nat, \A d \in D : d \div 2 ^ 0 # i PROVE i \notin D
    <3>1. i \div 2 ^ 0 = i
      BY Powers
    <3> QED BY <2>1, <3>1
  <2> QED BY <2>1 DEF Nodes
<1>2. ASSUME NEW h \in T PROVE h + 1 \in T
  <2>1. SUFFICES ASSUME h + 1 <= height, NEW i \in Nat, \A d \in D : d \div 2 ^ (h + 1) # i
                 PROVE  N[h + 1][i] = M[h + 1][i]
    OBVIOUS
  <2>2. ASSUME NEW k \in {2 * i, 2 * i + 1} PROVE k \in Nat /\ N[h][k] = M[h][k]
    <3>1. k \in Nat /\ k \div 2 = i /\ h \in Nat /\ h <= height
      BY <1>2, <2>1, <2>2
    <3>2. ASSUME NEW d \in D PROVE d \div 2 ^ h # k
      <4>1. d \div 2 ^ (h + 1) = (d \div 2 ^ h) \div 2
        BY <3>1, PlaceAbove
      <4> QED BY <2>1, <3>1, <4>1
    <3> QED BY <1>2, <3>1, <3>2
  <2>3. h \in Nat
    BY <1>2
  <2> HIDE DEF T
  <2>4. N[h + 1][i] = <<N[h][2 * i], N[h][2 * i + 1]>>
    <3>1. Joins(N, h)
      BY <2>1, <2>3, NodesAbove
    <3> QED BY <2>3, <3>1 DEF Joins
  <2>5. M[h + 1][i] = <<M[h][2 * i], M[h][2 * i + 1]>>
    <3>1. Joins(M, h)
      BY <2>1, <2>3, NodesAbove
    <3> QED BY <2>3, <3>1 DEF Joins
  <2> QED BY <2>2, <2>4, <2>5
<1>3. \A h \in Nat : h \in T
  <2>1. T \in SUBSET Nat
    OBVIOUS
  <2> HIDE DEF T
  <2> QED BY <1>1, <1>2, <2>1, NatSet
<1> QED BY <1>3 DEF AgreeBut

\* Siblings are those of the full tree.
LEMMA SiblingsArePath ==
  ASSUME NEW leaves, DOMAIN leaves \subseteq Nat, NEW height \in Nat, NEW N,
         Nodes(N, AllLeaves(leaves), height), NEW i \in Nat
  PROVE  IsPath(Siblings(SparseLevels(leaves, height), height, i), N, height, i)
<1> DEFINE levels == SparseLevels(leaves, height)
           Node(h) == NodeOr(levels[h - 1], h - 1, Sibling(i \div 2 ^ (h - 1)))
           path == [h \in 1 .. height |-> Node(h)]
<1>1. Siblings(levels, height, i) = path
  BY DEF Siblings
<1>2. Len(path) = height
  <2> DEFINE V == {Node(h) : h \in 1 .. height}
  <2> HIDE DEF Node
  <2>1. path \in [1 .. height -> V]
    OBVIOUS
  <2>2. DOMAIN path = 1 .. height
    OBVIOUS
  <2> HIDE DEF path, V
  <2>3. path \in Seq(V)
    BY <2>1, SeqDef
  <2> QED BY <2>2, <2>3, LenProperties
<1>3. ASSUME NEW h \in 1 .. height PROVE path[h] = N[h - 1][Sibling(i \div 2 ^ (h - 1))]
  <2> DEFINE j == i \div 2 ^ (h - 1)
  <2>1. h - 1 \in 0 .. height /\ h - 1 \in Nat
    OBVIOUS
  <2>2. j \in Nat
    BY <2>1, PlaceAbove
  <2>3. path[h] = NodeOr(levels[h - 1], h - 1, Sibling(j))
    OBVIOUS
  <2> HIDE DEF j, path, levels
  <2>4. Sibling(j) \in Nat
    BY <2>2 DEF Sibling
  <2>5. NodeOr(levels[h - 1], h - 1, Sibling(j)) = N[h - 1][Sibling(j)]
    BY <2>1, <2>4, SparseIsFull DEF levels
  <2> QED BY <2>3, <2>5 DEF j
<1> HIDE DEF path
<1> QED BY <1>1, <1>2, <1>3 DEF IsPath

\* The root of the sparse tree is that of the full one; and the witness of a
\* place leads from whatever is put there to the root of the tree with it.
LEMMA WitnessLeads ==
  ASSUME NEW leaves, DOMAIN leaves \subseteq Nat, NEW height \in Nat,
         NEW i \in Nat, i < 2 ^ height
  PROVE  LET path == Siblings(SparseLevels(leaves, height), height, i)
         IN  /\ SparseRoot(leaves, height) = DenseRoot(AllLeaves(leaves), height)
             /\ \A leaf : RootFromProof(leaf, i, path)
                            = DenseRoot([AllLeaves(leaves) EXCEPT ![i] = leaf], height)
<1> DEFINE path == Siblings(SparseLevels(leaves, height), height, i)
<1>1. PICK N : /\ Nodes(N, AllLeaves(leaves), height)
               /\ DenseRoot(AllLeaves(leaves), height) = N[height][0]
  BY DenseRootIs
<1>2. SparseRoot(leaves, height) = N[height][0]
  <2>1. height \in 0 .. height /\ 0 \in Nat
    OBVIOUS
  <2>2. NodeOr(SparseLevels(leaves, height)[height], height, 0) = N[height][0]
    BY <1>1, <2>1, SparseIsFull
  <2> QED BY <2>2 DEF SparseRoot
<1>3. IsPath(path, N, height, i)
  BY <1>1, SiblingsArePath
<1> HIDE DEF path
<1>4. ASSUME NEW leaf
      PROVE  RootFromProof(leaf, i, path)
               = DenseRoot([AllLeaves(leaves) EXCEPT ![i] = leaf], height)
  <2> DEFINE all    == AllLeaves(leaves)
             others == [all EXCEPT ![i] = leaf]
  <2>1. others[i] = leaf /\ \A k \in Nat \ {i} : all[k] = others[k]
    BY DEF AllLeaves
  <2> HIDE DEF others
  <2>2. PICK M : Nodes(M, others, height) /\ DenseRoot(others, height) = M[height][0]
    BY DenseRootIs
  <2>3. AgreeBut(N, M, {i}, height)
    <3> DEFINE D == {i}
    <3>1. Nodes(N, all, height)
      BY <1>1
    <3>2. D \in SUBSET Nat
      OBVIOUS
    <3>3. \A k \in Nat \ D : all[k] = others[k]
      BY <2>1
    <3>4. Nodes(M, others, height)
      BY <2>2
    <3> HIDE DEF all, D
    <3>5. AgreeBut(N, M, D, height)
      BY <3>1, <3>2, <3>3, <3>4, NodesAgree
    <3> QED BY <3>5 DEF D
  <2>4. ASSUME NEW h \in 1 .. height
        PROVE  path[h] = M[h - 1][Sibling(i \div 2 ^ (h - 1))]
    <3> DEFINE j == i \div 2 ^ (h - 1)
    <3>1. h - 1 \in 0 .. height /\ h - 1 \in Nat
      OBVIOUS
    <3>2. j \in Nat
      BY <3>1, PlaceAbove
    <3>3. path[h] = N[h - 1][Sibling(j)]
      BY <1>3 DEF IsPath
    <3> HIDE DEF j
    <3>4. Sibling(j) \in Nat /\ Sibling(j) # j
      BY <3>2 DEF Sibling
    <3>5. \A d \in {i} : d \div 2 ^ (h - 1) # Sibling(j)
      BY <3>4 DEF j
    <3>6. N[h - 1][Sibling(j)] = M[h - 1][Sibling(j)]
      BY <2>3, <3>1, <3>4, <3>5 DEF AgreeBut
    <3> QED BY <3>3, <3>6 DEF j
  <2>5. IsPath(path, M, height, i)
    BY <1>3, <2>4 DEF IsPath
  <2>6. RootFromProof(others[i], i, path) = M[height][0]
    BY <2>2, <2>5, PathLeads
  <2> QED BY <2>1, <2>2, <2>6 DEF others
<1> QED BY <1>1, <1>2, <1>4 DEF path

-----------------------------------------------------------------------------
(* Spending one output. *)

\* The leaves with the bits of some outputs set.
BitsOf(S) == [i \in Nat |-> {BitOf(o) : o \in {p \in S : LeafOf(p) = i}}]

\* A bit of a leaf is of one output.
LEMMA BitTells ==
  ASSUME NEW S \in SUBSET Nat, NEW o \in Nat
  PROVE  /\ LeafOf(o) \in Nat
         /\ BitOf(o) \in BitsOf(S)[LeafOf(o)] <=> o \in S
         /\ BitsOf(S \cup {o})
              = [BitsOf(S) EXCEPT ![LeafOf(o)] = BitsOf(S)[LeafOf(o)] \cup {BitOf(o)}]
<1>1. ASSUME NEW p \in Nat PROVE /\ LeafOf(p) \in Nat
                                 /\ p = LeafBits * LeafOf(p) + BitOf(p)
  BY LeafBitsPositive, Division DEF LeafOf, BitOf
<1>2. BitOf(o) \in BitsOf(S)[LeafOf(o)] <=> o \in S
  <2>1. BitsOf(S)[LeafOf(o)] = {BitOf(p) : p \in {q \in S : LeafOf(q) = LeafOf(o)}}
    BY <1>1 DEF BitsOf
  <2>2. ASSUME NEW p \in S, LeafOf(p) = LeafOf(o), BitOf(p) = BitOf(o) PROVE p = o
    <3>1. p = LeafBits * LeafOf(p) + BitOf(p) /\ o = LeafBits * LeafOf(o) + BitOf(o)
      BY <1>1
    <3> QED BY <2>2, <3>1
  <2> QED BY <2>1, <2>2
<1>3. BitsOf(S \cup {o})
        = [BitsOf(S) EXCEPT ![LeafOf(o)] = BitsOf(S)[LeafOf(o)] \cup {BitOf(o)}]
  <2> DEFINE Bits(T, i) == {BitOf(p) : p \in {q \in T : LeafOf(q) = i}}
  <2>1. ASSUME NEW i \in Nat
        PROVE  Bits(S \cup {o}, i) = IF i = LeafOf(o) THEN Bits(S, i) \cup {BitOf(o)}
                                                      ELSE Bits(S, i)
    OBVIOUS
  <2>2. \A T : BitsOf(T) = [i \in Nat |-> Bits(T, i)]
    BY DEF BitsOf
  <2> HIDE DEF Bits
  <2> QED BY <1>1, <2>1, <2>2
<1> QED BY <1>1, <1>2, <1>3

\* The leaves that are rebuilt from what the store has as spent.
LEMMA RebuiltAre ==
  ASSUME NEW S \in SUBSET Nat
  PROVE  /\ DOMAIN RebuiltLeaves(S) \subseteq Nat
         /\ AllLeaves(RebuiltLeaves(S)) = BitsOf(S)
<1> DEFINE leaves == RebuiltLeaves(S)
           Bits(i) == {BitOf(o) : o \in {p \in S : LeafOf(p) = i}}
<1>1. leaves = [i \in {LeafOf(o) : o \in S} |-> NodeOr(<<>>, 0, i) \cup Bits(i)]
  BY DEF RebuiltLeaves, UpdatedLeaves
<1>2. ASSUME NEW i PROVE NodeOr(<<>>, 0, i) = {}
  <2>1. i \notin DOMAIN <<>>
    OBVIOUS
  <2> QED BY <2>1, ZeroHashes DEF NodeOr, EmptyLeaf
<1>3. DOMAIN leaves = {LeafOf(o) : o \in S} /\ \A i \in DOMAIN leaves : leaves[i] = Bits(i)
  BY <1>1, <1>2
<1>4. \A o \in S : LeafOf(o) \in Nat
  BY BitTells
<1>5. ASSUME NEW i \in Nat PROVE NodeOr(leaves, 0, i) = Bits(i)
  <2> HIDE DEF leaves
  <2>1. CASE i \in DOMAIN leaves
    <3> HIDE DEF Bits
    <3> QED BY <1>3, <2>1 DEF NodeOr
  <2>2. CASE i \notin DOMAIN leaves
    <3>1. Bits(i) = {}
      BY <1>3, <2>2
    <3> HIDE DEF Bits
    <3> QED BY <2>2, <3>1, ZeroHashes DEF NodeOr, EmptyLeaf
  <2> QED BY <2>1, <2>2
<1>6. AllLeaves(leaves) = BitsOf(S)
  <2> HIDE DEF leaves
  <2> QED BY <1>5 DEF AllLeaves, BitsOf
<1> QED BY <1>3, <1>4, <1>6

\* A proof that an output is not among those spent, and what the root is with it.
Proves(proof, S, o, height) ==
  /\ proof.oldRoot = DenseRoot(BitsOf(S), height)
  /\ proof.newRoot = DenseRoot(BitsOf(S \cup {o}), height)
  /\ proof.bit \notin proof.leaf
  /\ RootFromProof(proof.leaf \cup {proof.bit}, proof.index, proof.siblings) = proof.newRoot

\* What the proofs of a payment carry, with the outputs of S spent.
Holds(proved, S) ==
  DOMAIN proved.leaves \subseteq Nat /\ AllLeaves(proved.leaves) = BitsOf(S)

Refused(proved) == [proved EXCEPT !.ok = FALSE]

LEMMA SpendRefuses ==
  ASSUME NEW S \in SUBSET Nat, NEW o \in Nat, NEW height,
         NEW proved, Holds(proved, S), ~(proved.ok /\ o \notin S)
  PROVE  Spend(proved, o, height) = Refused(proved)
<1>1. CASE ~proved.ok
  BY <1>1 DEF Spend, Refused
<1>2. CASE o \in S
  <2>1. BitOf(o) \in BitsOf(S)[LeafOf(o)] /\ LeafOf(o) \in Nat
    BY <1>2, BitTells
  <2>2. NodeOr(proved.leaves, 0, LeafOf(o)) = AllLeaves(proved.leaves)[LeafOf(o)]
    BY <2>1 DEF AllLeaves
  <2>3. BitOf(o) \in NodeOr(proved.leaves, 0, LeafOf(o))
    BY <2>1, <2>2 DEF Holds
  <2> QED BY <2>3 DEF Spend, Refused
<1> QED BY <1>1, <1>2

\* An output is proved exactly if it is not spent: the roots that are compared
\* are never different.
LEMMA SpendProves ==
  ASSUME NEW S \in SUBSET Nat, NEW o \in Nat, NEW height \in Nat, LeafOf(o) < 2 ^ height,
         NEW proved, Holds(proved, S), proved.ok, o \notin S
  PROVE  \E after, proof :
           /\ Spend(proved, o, height)
                = [ok |-> TRUE, leaves |-> after, proofs |-> Append(proved.proofs, proof)]
           /\ DOMAIN after \subseteq Nat /\ AllLeaves(after) = BitsOf(S \cup {o})
           /\ Proves(proof, S, o, height)
<1> DEFINE leaves == proved.leaves
           i     == LeafOf(o)
           old   == NodeOr(leaves, 0, i)
           new   == old \cup {BitOf(o)}
           after == WithLeaf(leaves, i, new)
           path  == Siblings(SparseLevels(leaves, height), height, i)
           proof == [leaf |-> old, bit |-> BitOf(o), index |-> i, siblings |-> path,
                     oldRoot |-> RootFromProof(old, i, path),
                     newRoot |-> RootFromProof(new, i, path)]
<1>1. i \in Nat /\ i < 2 ^ height /\ DOMAIN leaves \subseteq Nat /\ AllLeaves(leaves) = BitsOf(S)
  BY BitTells DEF Holds
<1>2. Spend(proved, o, height) =
        IF /\ proved.ok
           /\ BitOf(o) \notin old
           /\ proof.oldRoot = SparseRoot(leaves, height)
           /\ proof.newRoot = SparseRoot(after, height)
          THEN [ok |-> TRUE, leaves |-> after, proofs |-> Append(proved.proofs, proof)]
          ELSE [proved EXCEPT !.ok = FALSE]
  BY DEF Spend
<1> HIDE DEF leaves, i
<1>3. old = BitsOf(S)[i]
  <2>1. AllLeaves(leaves)[i] = old
    BY <1>1 DEF AllLeaves
  <2> QED BY <1>1, <2>1
<1>4. /\ BitOf(o) \in old <=> o \in S
      /\ BitsOf(S \cup {o}) = [BitsOf(S) EXCEPT ![i] = new]
  <2>1. /\ BitOf(o) \in BitsOf(S)[i] <=> o \in S
        /\ BitsOf(S \cup {o}) = [BitsOf(S) EXCEPT ![i] = BitsOf(S)[i] \cup {BitOf(o)}]
    BY BitTells DEF i
  <2> HIDE DEF old
  <2> QED BY <1>3, <2>1
<1>5. [BitsOf(S) EXCEPT ![i] = old] = BitsOf(S)
  <2> DEFINE f == BitsOf(S)
  <2>1. f = [k \in Nat |-> f[k]]
    BY DEF BitsOf
  <2> HIDE DEF f, old
  <2>2. old = f[i]
    BY <1>3 DEF f
  <2>3. [f EXCEPT ![i] = old] = f
    BY <1>1, <2>1, <2>2
  <2> QED BY <2>3 DEF f
<1>6. DOMAIN after = DOMAIN leaves \cup {i} /\ after[i] = new
      /\ \A k \in DOMAIN leaves \ {i} : after[k] = leaves[k]
  BY DEF WithLeaf
<1> HIDE DEF after, new, old
<1>7. AllLeaves(after) = BitsOf(S \cup {o})
  <2>1. \A k \in Nat : NodeOr(after, 0, k) = IF k = i THEN new ELSE NodeOr(leaves, 0, k)
    BY <1>6 DEF NodeOr
  <2>2. AllLeaves(after) = [AllLeaves(leaves) EXCEPT ![i] = new]
    BY <2>1 DEF AllLeaves
  <2> QED BY <1>1, <1>4, <2>2
<1>8. /\ SparseRoot(leaves, height) = DenseRoot(BitsOf(S), height)
      /\ \A leaf : RootFromProof(leaf, i, path)
                     = DenseRoot([BitsOf(S) EXCEPT ![i] = leaf], height)
  BY <1>1, WitnessLeads
<1>9. DOMAIN after \subseteq Nat
  BY <1>1, <1>6
<1>10. SparseRoot(after, height) = DenseRoot(BitsOf(S \cup {o}), height)
  BY <1>1, <1>7, <1>9, WitnessLeads
<1> HIDE DEF path
<1>11. /\ proof.oldRoot = DenseRoot(BitsOf(S), height)
       /\ proof.newRoot = DenseRoot(BitsOf(S \cup {o}), height)
       /\ proof.leaf = old /\ proof.bit = BitOf(o) /\ proof.index = i /\ proof.siblings = path
       /\ RootFromProof(new, i, path) = proof.newRoot
  BY <1>4, <1>5, <1>8
<1> HIDE DEF proof
<1>12. o \notin S => Proves(proof, S, o, height)
  BY <1>4, <1>11 DEF Proves, new
<1> QED BY <1>2, <1>4, <1>7, <1>8, <1>9, <1>10, <1>11, <1>12 DEF leaves

-----------------------------------------------------------------------------
(* Spending the outputs of a payment, one after the other. *)

\* State p[k] is what is proved of the first k outputs.
Proceeds(p, leaves, outputs, height) ==
  /\ p[0] = [ok |-> TRUE, leaves |-> leaves, proofs |-> <<>>]
  /\ \A k \in 1 .. Len(outputs) : p[k] = Spend(p[k - 1], outputs[k], height)

LEMMA SpentProofsAre ==
  ASSUME NEW leaves, NEW outputs, Len(outputs) \in Nat, NEW height
  PROVE  \E p : /\ Proceeds(p, leaves, outputs, height)
                /\ SpentProofs(leaves, outputs, height) = p[Len(outputs)]
<1> DEFINE n == Len(outputs)
           start == [ok |-> TRUE, leaves |-> leaves, proofs |-> <<>>]
           Step(x, h) == Spend(x, outputs[h], height)
           IsUpTo(f, m) == f = [h \in 0 .. m |-> IF h = 0 THEN start ELSE Step(f[h - 1], h)]
<1> HIDE DEF Step, start
<1>1. IsUpTo([h \in 0 .. 0 |-> start], 0)
  OBVIOUS
<1>2. ASSUME NEW m \in Nat, NEW f, IsUpTo(f, m)
      PROVE  IsUpTo([h \in 0 .. m + 1 |-> IF h = m + 1 THEN Step(f[m], h) ELSE f[h]], m + 1)
  BY <1>2
<1>3. \E f : IsUpTo(f, n)
  <2> DEFINE T == {k \in Nat : \E f : IsUpTo(f, k)}
  <2> HIDE DEF IsUpTo
  <2>1. T \in SUBSET Nat /\ 0 \in T
    BY <1>1
  <2>2. ASSUME NEW k \in T PROVE k + 1 \in T
    <3>1. PICK f : IsUpTo(f, k)
      OBVIOUS
    <3> DEFINE g == [h \in 0 .. k + 1 |-> IF h = k + 1 THEN Step(f[k], h) ELSE f[h]]
    <3>2. IsUpTo(g, k + 1)
      BY <1>2, <3>1
    <3> HIDE DEF g
    <3> QED BY <3>2
  <2> HIDE DEF T
  <2>3. n \in T
    BY <2>1, <2>2, NatSet
  <2> QED BY <2>3 DEF T
<1> DEFINE p == CHOOSE f : IsUpTo(f, n)
<1>4. IsUpTo(p, n)
  <2> HIDE DEF IsUpTo
  <2> QED BY <1>3
<1>5. SpentProofs(leaves, outputs, height) = p[n]
  BY DEF SpentProofs, Step, start
<1> HIDE DEF p
<1>6. p[0] = start /\ \A h \in 1 .. n : p[h] = Step(p[h - 1], h)
  <2> HIDE DEF n
  <2> QED BY <1>4 DEF n
<1> QED BY <1>5, <1>6 DEF Step, start, Proceeds

\* What is spent when k outputs are; and that each of them was not before.
Upto(S, outputs, k) == S \cup {outputs[m] : m \in 1 .. k}
Fresh(S, outputs, k) == \A m \in 1 .. k : outputs[m] \notin Upto(S, outputs, m - 1)

\* What is proved of k outputs.
Proved(p, S, outputs, k, height) ==
  /\ p.ok \in BOOLEAN /\ "ok" \in DOMAIN p
  /\ p.ok <=> Fresh(S, outputs, k)
  /\ p.ok => /\ Holds(p, Upto(S, outputs, k))
             /\ \E V : p.proofs \in Seq(V)
             /\ Len(p.proofs) = k
             /\ \A m \in 1 .. k :
                  Proves(p.proofs[m], Upto(S, outputs, m - 1), outputs[m], height)

LEMMA OneMore ==
  ASSUME NEW S \in SUBSET Nat, NEW height \in Nat, NEW outputs, NEW k \in Nat,
         \A m \in 1 .. k + 1 : outputs[m] \in Nat /\ LeafOf(outputs[m]) < 2 ^ height,
         NEW p, Proved(p, S, outputs, k, height)
  PROVE  Proved(Spend(p, outputs[k + 1], height), S, outputs, k + 1, height)
<1> DEFINE o == outputs[k + 1]
           U == Upto(S, outputs, k)
           q == Spend(p, o, height)
<1>1. o \in Nat /\ LeafOf(o) < 2 ^ height /\ U \in SUBSET Nat
  <2>1. k + 1 \in 1 .. k + 1 /\ 1 .. k \subseteq 1 .. k + 1
    OBVIOUS
  <2> QED BY <2>1 DEF Upto
<1>2. Upto(S, outputs, k + 1) = U \cup {o}
  BY DEF Upto
<1>3. Fresh(S, outputs, k + 1) <=> Fresh(S, outputs, k) /\ o \notin U
  <2>1. \A m \in 1 .. k + 1 : m \in 1 .. k \/ m = k + 1
    OBVIOUS
  <2>2. k + 1 \in 1 .. k + 1 /\ k + 1 - 1 = k /\ 1 .. k \subseteq 1 .. k + 1
    OBVIOUS
  <2> QED BY <2>1, <2>2 DEF Fresh
<1>4. CASE p.ok /\ o \notin U
  <2>1. Holds(p, U) /\ Len(p.proofs) = k
        /\ \A m \in 1 .. k :
             Proves(p.proofs[m], Upto(S, outputs, m - 1), outputs[m], height)
    BY <1>4 DEF Proved
  <2>2. PICK V : p.proofs \in Seq(V)
    BY <1>4 DEF Proved
  <2> HIDE DEF o, U
  <2>3. PICK after, proof :
          /\ q = [ok |-> TRUE, leaves |-> after, proofs |-> Append(p.proofs, proof)]
          /\ DOMAIN after \subseteq Nat /\ AllLeaves(after) = BitsOf(U \cup {o})
          /\ Proves(proof, U, o, height)
    BY <1>1, <1>4, <2>1, SpendProves
  <2>4. /\ q.ok = TRUE /\ "ok" \in DOMAIN q /\ q.leaves = after
        /\ q.proofs = Append(p.proofs, proof)
    BY <2>3
  <2> DEFINE W == V \cup {proof}
  <2>5. p.proofs \in Seq(W) /\ proof \in W
    BY <2>2
  <2> HIDE DEF W, q
  <2>6. /\ q.proofs \in Seq(W) /\ Len(q.proofs) = k + 1 /\ q.proofs[k + 1] = proof
        /\ \A m \in 1 .. k : q.proofs[m] = p.proofs[m]
    BY <2>1, <2>4, <2>5, AppendProperties
  <2>7. ASSUME NEW m \in 1 .. k + 1
        PROVE  Proves(q.proofs[m], Upto(S, outputs, m - 1), outputs[m], height)
    <3>1. CASE m = k + 1
      <4>1. Upto(S, outputs, m - 1) = U /\ outputs[m] = o /\ q.proofs[m] = proof
        BY <2>6, <3>1 DEF U, o
      <4> QED BY <2>3, <4>1
    <3>2. CASE m # k + 1
      <4>1. m \in 1 .. k
        BY <3>2
      <4> QED BY <2>1, <2>6, <4>1
    <3> QED BY <3>1, <3>2
  <2>8. Holds(q, Upto(S, outputs, k + 1))
    BY <1>2, <2>3, <2>4 DEF Holds
  <2>9. Fresh(S, outputs, k + 1)
    BY <1>3, <1>4 DEF Proved
  <2> QED BY <2>4, <2>6, <2>7, <2>8, <2>9 DEF Proved, q, o
<1>5. CASE ~(p.ok /\ o \notin U)
  <2>1. q = [p EXCEPT !.ok = FALSE]
    <3>1. CASE p.ok
      <4>1. Holds(p, U)
        BY <3>1 DEF Proved
      <4> HIDE DEF o, U
      <4>2. ~(p.ok /\ o \notin U)
        BY <1>5
      <4>3. Spend(p, o, height) = Refused(p)
        <5> HIDE DEF q
        <5>1. o \in Nat /\ U \in SUBSET Nat
          BY <1>1
        <5> QED BY <5>1, <4>1, <4>2, SpendRefuses
      <4> QED BY <4>3 DEF Refused
    <3>2. CASE ~p.ok
      BY <3>2 DEF Spend
    <3> QED BY <3>1, <3>2
  <2>2. q.ok = FALSE /\ "ok" \in DOMAIN q
    BY <2>1 DEF Proved
  <2>3. ~Fresh(S, outputs, k + 1)
    BY <1>3, <1>5 DEF Proved
  <2> HIDE DEF q
  <2> QED BY <2>2, <2>3 DEF Proved, q, o
<1> QED BY <1>4, <1>5

\* The proofs of a payment.
LEMMA PaymentProves ==
  ASSUME NEW S \in SUBSET Nat, NEW height \in Nat, NEW outputs, Len(outputs) \in Nat,
         \A m \in 1 .. Len(outputs) : outputs[m] \in Nat /\ LeafOf(outputs[m]) < 2 ^ height
  PROVE  Proved(SpentProofs(RebuiltLeaves(S), outputs, height), S, outputs,
                Len(outputs), height)
<1> DEFINE n == Len(outputs)
           leaves == RebuiltLeaves(S)
<1>1. PICK p : Proceeds(p, leaves, outputs, height) /\ SpentProofs(leaves, outputs, height) = p[n]
  BY SpentProofsAre
<1> DEFINE T == {k \in Nat : k <= n => Proved(p[k], S, outputs, k, height)}
<1>2. 0 \in T
  <2>1. /\ p[0].ok = TRUE /\ "ok" \in DOMAIN p[0] /\ p[0].leaves = leaves
        /\ p[0].proofs = <<>>
    BY <1>1 DEF Proceeds
  <2>2. Upto(S, outputs, 0) = S /\ Fresh(S, outputs, 0)
    BY DEF Upto, Fresh
  <2>3. Holds(p[0], S)
    BY <2>1, RebuiltAre DEF Holds
  <2>4. p[0].proofs \in Seq({}) /\ Len(p[0].proofs) = 0
    BY <2>1
  <2>5. Proved(p[0], S, outputs, 0, height)
    <3> DEFINE r == p[0]
    <3>1. /\ r.ok = TRUE /\ "ok" \in DOMAIN r /\ Holds(r, Upto(S, outputs, 0))
          /\ r.proofs \in Seq({}) /\ Len(r.proofs) = 0 /\ 1 .. 0 = {}
      BY <2>1, <2>2, <2>3, <2>4
    <3> HIDE DEF r
    <3>2. Proved(r, S, outputs, 0, height)
      BY <2>2, <3>1 DEF Proved
    <3> QED BY <3>2 DEF r
  <2> QED BY <2>5
<1>3. ASSUME NEW k \in T PROVE k + 1 \in T
  <2>1. SUFFICES ASSUME k + 1 <= n PROVE Proved(p[k + 1], S, outputs, k + 1, height)
    OBVIOUS
  <2>2. k \in Nat /\ Proved(p[k], S, outputs, k, height)
    BY <1>3, <2>1
  <2>3. p[k + 1] = Spend(p[k], outputs[k + 1], height)
    <3>1. k + 1 \in 1 .. n /\ k + 1 - 1 = k
      BY <2>1, <2>2
    <3> QED BY <1>1, <3>1 DEF Proceeds
  <2>4. \A m \in 1 .. k + 1 : outputs[m] \in Nat /\ LeafOf(outputs[m]) < 2 ^ height
    <3>1. \A m \in 1 .. k + 1 : m \in 1 .. n
      BY <2>1, <2>2
    <3> QED BY <3>1
  <2> HIDE DEF T
  <2>5. Proved(Spend(p[k], outputs[k + 1], height), S, outputs, k + 1, height)
    BY <2>2, <2>4, OneMore
  <2> QED BY <2>3, <2>5
<1>4. n \in T
  <2>1. T \in SUBSET Nat
    OBVIOUS
  <2> HIDE DEF T
  <2> QED BY <1>2, <1>3, <2>1, NatSet
<1> QED BY <1>1, <1>4

-----------------------------------------------------------------------------
(* What the proofs of a payment show. *)

Outputs == 0 .. 2 ^ Height * LeafBits - 1

LEMMA OutputInTree ==
  ASSUME NEW o \in Outputs
  PROVE  o \in Nat /\ LeafOf(o) < 2 ^ Height
<1> DEFINE p == 2 ^ Height
<1>1. p \in Nat \ {0}
  BY BoundsNat, Powers
<1>2. o \in 0 .. p * LeafBits - 1
  BY DEF Outputs
<1>3. LeafBits \in Nat \ {0}
  BY LeafBitsPositive
<1> HIDE DEF p
<1>4. o \in Nat /\ o < p * LeafBits
  <2>1. p * LeafBits \in Nat
    BY <1>1, <1>3
  <2> QED BY <1>2, <2>1
<1>5. /\ LeafOf(o) \in Nat /\ BitOf(o) \in 0 .. LeafBits - 1
      /\ o = LeafBits * LeafOf(o) + BitOf(o)
  BY <1>3, <1>4, Division DEF LeafOf, BitOf
<1>6. LeafOf(o) < p
  <2>1. SUFFICES ASSUME NEW d \in Nat, LeafOf(o) = p + d PROVE FALSE
    <3>1. SUFFICES ASSUME ~(LeafOf(o) < p) PROVE FALSE
      OBVIOUS
    <3>2. LeafOf(o) - p \in Nat /\ LeafOf(o) = p + (LeafOf(o) - p)
      BY <1>1, <1>5, <3>1
    <3> QED BY <3>2, <2>1
  <2>2. LeafBits * (p + d) = p * LeafBits + LeafBits * d /\ LeafBits * d \in Nat
        /\ p * LeafBits \in Nat
    BY <1>1, <1>3
  <2>3. o = LeafBits * (p + d) + BitOf(o)
    BY <1>5, <2>1
  <2>4. BitOf(o) \in Nat
    BY <1>3, <1>5
  <2> QED BY <1>4, <2>2, <2>3, <2>4
<1> QED BY <1>4, <1>6 DEF p

\* No input is spent before: none twice in the payment and none before it.
LEMMA FreshMeans ==
  ASSUME NEW S, NEW n \in Nat, NEW outputs \in [1 .. n -> Nat]
  PROVE  Fresh(S, outputs, n) <=> IsInjective(outputs) /\ ToSet(outputs) \cap S = {}
<1>1. DOMAIN outputs = 1 .. n
  OBVIOUS
<1>2. ASSUME Fresh(S, outputs, n)
      PROVE  IsInjective(outputs) /\ ToSet(outputs) \cap S = {}
  <2>1. ASSUME NEW a \in 1 .. n, NEW b \in 1 .. n, a < b PROVE outputs[a] # outputs[b]
    <3>1. a \in 1 .. b - 1
      BY <2>1
    <3> QED BY <1>2, <3>1 DEF Fresh, Upto
  <2>2. IsInjective(outputs)
    <3>1. ASSUME NEW a \in 1 .. n, NEW b \in 1 .. n, outputs[a] = outputs[b] PROVE a = b
      <4>1. a < b \/ b < a \/ a = b
        OBVIOUS
      <4> QED BY <2>1, <3>1, <4>1
    <3> QED BY <1>1, <3>1 DEF IsInjective
  <2>3. \A m \in 1 .. n : outputs[m] \notin S
    BY <1>2 DEF Fresh, Upto
  <2> QED BY <1>1, <2>2, <2>3 DEF ToSet
<1>3. ASSUME IsInjective(outputs), ToSet(outputs) \cap S = {}
      PROVE  Fresh(S, outputs, n)
  <2>1. SUFFICES ASSUME NEW m \in 1 .. n PROVE outputs[m] \notin Upto(S, outputs, m - 1)
    BY DEF Fresh
  <2>2. outputs[m] \notin S
    BY <1>1, <1>3 DEF ToSet
  <2>3. ASSUME NEW j \in 1 .. m - 1 PROVE outputs[j] # outputs[m]
    <3>1. j \in 1 .. n /\ j # m
      OBVIOUS
    <3> QED BY <1>1, <1>3, <3>1 DEF IsInjective
  <2> QED BY <2>2, <2>3 DEF Upto
<1> QED BY <1>2, <1>3

\* What is spent when the first of the outputs are, as the invariant has it.
LEMMA UptoIs ==
  ASSUME NEW S, NEW n \in Nat, NEW outputs \in [1 .. n -> Nat], NEW k \in 0 .. n
  PROVE  Upto(S, outputs, k) = S \cup ToSet(SubSeq(outputs, 1, k))
<1> DEFINE part == SubSeq(outputs, 1, k)
<1>1. \A m \in 1 .. k : outputs[m] \in Nat
  OBVIOUS
<1>2. /\ part \in Seq(Nat) /\ Len(part) = IF 1 <= k THEN k - 1 + 1 ELSE 0
      /\ \A m \in 1 .. k - 1 + 1 : part[m] = outputs[1 + m - 1]
  BY <1>1, SubSeqProperties
<1> HIDE DEF part
<1>3. DOMAIN part = 1 .. k /\ \A m \in 1 .. k : part[m] = outputs[m]
  <2>1. Len(part) = k /\ k - 1 + 1 = k
    BY <1>2
  <2>2. DOMAIN part = 1 .. k
    BY <1>2, <2>1
  <2>3. ASSUME NEW m \in 1 .. k PROVE part[m] = outputs[m]
    <3>1. 1 + m - 1 = m
      OBVIOUS
    <3> QED BY <1>2, <2>1, <3>1
  <2> QED BY <2>2, <2>3
<1> QED BY <1>3 DEF Upto, ToSet, part

\* Every output that was spent is one of the tree; and what is asked of the
\* proofs of a payment.
SpentType == spent \in SUBSET Outputs
SpentInductive == SpentType /\ SpentProofsChain

LEMMA CallChains ==
  ASSUME SpentType, NEW n \in Nat, NEW outputs \in [1 .. n -> Outputs],
         call'.fn = "spent", call'.before = spent, call'.outputs = outputs,
         call'.result = SpentProofs(RebuiltLeaves(spent), outputs, Height)
  PROVE  SpentProofsChain'
<1> DEFINE result == call'.result
           proofs == result.proofs
<1>1. /\ spent \in SUBSET Nat /\ Height \in Nat
      /\ \A m \in 1 .. n : outputs[m] \in Nat /\ LeafOf(outputs[m]) < 2 ^ Height
  <2>1. \A o \in Outputs : o \in Nat
    BY OutputInTree
  <2>2. ASSUME NEW m \in 1 .. n PROVE outputs[m] \in Nat /\ LeafOf(outputs[m]) < 2 ^ Height
    <3>1. outputs[m] \in Outputs
      OBVIOUS
    <3> QED BY <3>1, OutputInTree
  <2> QED BY <2>1, <2>2, BoundsNat DEF SpentType
<1>2. outputs \in [1 .. n -> Nat] /\ Len(outputs) = n
  BY <1>1
<1>3. Proved(result, spent, outputs, n, Height)
  <2>1. Len(outputs) \in Nat /\ \A m \in 1 .. Len(outputs) :
                                  outputs[m] \in Nat /\ LeafOf(outputs[m]) < 2 ^ Height
    BY <1>1, <1>2
  <2>2. Proved(SpentProofs(RebuiltLeaves(spent), outputs, Height), spent, outputs,
               Len(outputs), Height)
    BY <1>1, <2>1, PaymentProves
  <2> QED BY <1>2, <2>2
<1> HIDE DEF result
<1>4. result.ok <=> IsInjective(outputs) /\ ToSet(outputs) \cap spent = {}
  BY <1>2, <1>3, FreshMeans DEF Proved
<1>5. ASSUME result.ok
      PROVE  /\ Len(proofs) = n
             /\ \A k \in 1 .. n :
                  /\ proofs[k].oldRoot = SpentRoot(spent \cup ToSet(SubSeq(outputs, 1, k - 1)))
                  /\ proofs[k].newRoot = SpentRoot(spent \cup ToSet(SubSeq(outputs, 1, k)))
                  /\ proofs[k].bit \notin proofs[k].leaf
                  /\ RootFromProof(proofs[k].leaf \cup {proofs[k].bit}, proofs[k].index,
                                   proofs[k].siblings) = proofs[k].newRoot
  <2>1. /\ Len(proofs) = n
        /\ \A k \in 1 .. n : Proves(proofs[k], Upto(spent, outputs, k - 1), outputs[k], Height)
    BY <1>3, <1>5 DEF Proved
  <2> SUFFICES ASSUME NEW k \in 1 .. n
               PROVE  /\ proofs[k].oldRoot = SpentRoot(spent \cup ToSet(SubSeq(outputs, 1, k - 1)))
                      /\ proofs[k].newRoot = SpentRoot(spent \cup ToSet(SubSeq(outputs, 1, k)))
                      /\ proofs[k].bit \notin proofs[k].leaf
                      /\ RootFromProof(proofs[k].leaf \cup {proofs[k].bit}, proofs[k].index,
                                       proofs[k].siblings) = proofs[k].newRoot
    BY <2>1
  <2>2. \A T : SpentRoot(T) = DenseRoot(BitsOf(T), Height)
    BY DEF SpentRoot, BitsOf
  <2>3. k - 1 \in 0 .. n /\ k \in 0 .. n
    OBVIOUS
  <2>4. /\ Upto(spent, outputs, k - 1) = spent \cup ToSet(SubSeq(outputs, 1, k - 1))
        /\ Upto(spent, outputs, k) = spent \cup ToSet(SubSeq(outputs, 1, k))
    BY <1>2, <2>3, UptoIs
  <2>5. Upto(spent, outputs, k) = Upto(spent, outputs, k - 1) \cup {outputs[k]}
    <3>1. 1 .. k = (1 .. k - 1) \cup {k}
      OBVIOUS
    <3> QED BY <3>1 DEF Upto
  <2> QED BY <2>1, <2>2, <2>4, <2>5 DEF Proves
<1> QED BY <1>2, <1>4, <1>5 DEF SpentProofsChain, result

\* Every payment is proved exactly if none of its inputs is spent, and its
\* proofs lead from one root of the tree to the next
\* (build_sequential_spent_txo_proofs).
THEOREM SpentProofsChainHolds == Spec => []SpentProofsChain
<1>1. Init => SpentInductive
  BY DEF Init, SpentInductive, SpentType, SpentProofsChain
<1>2. SpentInductive /\ [Next]_vars => SpentInductive'
  <2> SUFFICES ASSUME SpentInductive, [Next]_vars PROVE SpentInductive'
    OBVIOUS
  <2>1. CASE CallParseAmount
    BY <2>1 DEF CallParseAmount, Call, SpentInductive, SpentType, SpentProofsChain
  <2>2. CASE CallValidateDecoded
    BY <2>2 DEF CallValidateDecoded, Call, SpentInductive, SpentType, SpentProofsChain
  <2>3. CASE CallRestore
    BY <2>3 DEF CallRestore, Call, SpentInductive, SpentType, SpentProofsChain
  <2>4. CASE CallMembership
    BY <2>4 DEF CallMembership, Call, SpentInductive, SpentType, SpentProofsChain
  <2>5. CASE CallBranch
    BY <2>5 DEF CallBranch, Call, SpentInductive, SpentType, SpentProofsChain
  <2>6. CASE CallSpentProofs
    <3>0. PICK n \in 1 .. MaxBatch :
            \E outputs \in [1 .. n -> Outputs] :
              LET result == SpentProofs(RebuiltLeaves(spent), outputs, Height) IN
              /\ call' = [fn |-> "spent", before |-> spent, outputs |-> outputs,
                          result |-> result]
              /\ spent' = IF result.ok THEN spent \cup ToSet(outputs) ELSE spent
      BY <2>6 DEF CallSpentProofs, Outputs
    <3>1. PICK outputs \in [1 .. n -> Outputs] :
            LET result == SpentProofs(RebuiltLeaves(spent), outputs, Height) IN
            /\ call' = [fn |-> "spent", before |-> spent, outputs |-> outputs,
                        result |-> result]
            /\ spent' = IF result.ok THEN spent \cup ToSet(outputs) ELSE spent
      BY <3>0
    <3>2. SpentType'
      <4>1. ToSet(outputs) \subseteq Outputs
        BY DEF ToSet
      <4> QED BY <3>1, <4>1 DEF SpentInductive, SpentType
    <3>3. /\ call'.fn = "spent" /\ call'.before = spent /\ call'.outputs = outputs
          /\ call'.result = SpentProofs(RebuiltLeaves(spent), outputs, Height)
      BY <3>1
    <3>4. n \in Nat /\ SpentType
      BY BoundsNat DEF SpentInductive
    <3>5. SpentProofsChain'
      BY <3>3, <3>4, CallChains
    <3> QED BY <3>2, <3>5 DEF SpentInductive
  <2>7. CASE NextPayment
    BY <2>7 DEF NextPayment, SpentInductive, SpentType, SpentProofsChain
  <2>8. CASE UNCHANGED vars
    BY <2>8 DEF vars, SpentInductive, SpentType, SpentProofsChain
  <2> QED BY <2>1, <2>2, <2>3, <2>4, <2>5, <2>6, <2>7, <2>8 DEF Next
<1>3. SpentInductive => SpentProofsChain
  BY DEF SpentInductive
<1> QED BY <1>1, <1>2, <1>3, PTL DEF Spec

-----------------------------------------------------------------------------
(* Membership in the tree of requests. *)

\* A request is proved exactly if it is there, against the root of the full
\* tree with empty leaves on the right.
LEMMA MembershipVerifies ==
  ASSUME NEW n \in Nat, NEW leaves, Len(leaves) = n, n <= 2 ^ Height,
         NEW index \in Nat
  PROVE  LET result == FixedProofs(leaves, <<index>>, Height)
         IN  /\ result.ok <=> index < n
             /\ result.ok =>
                  /\ result.root = DenseRoot([i \in Nat |-> IF i < n THEN leaves[i + 1]
                                                                     ELSE EmptyLeaf], Height)
                  /\ RootFromProof(leaves[index + 1], index, result.proofs[1].siblings)
                       = result.root
<1> DEFINE tree    == [i \in 0 .. n - 1 |-> leaves[i + 1]]
           levels  == SparseLevels(tree, Height)
           path(i) == Siblings(levels, Height, i)
           root    == SparseRoot(tree, Height)
           all     == [i \in Nat |-> IF i < n THEN leaves[i + 1] ELSE EmptyLeaf]
           result  == FixedProofs(leaves, <<index>>, Height)
           Good(i) == i \in DOMAIN tree /\ RootFromProof(tree[i], i, path(i)) = root
           asked   == <<index>>
           Proof(k) == [index |-> asked[k], siblings |-> path(asked[k])]
<1>1. result = IF \A i \in ToSet(asked) : Good(i)
                 THEN [ok |-> TRUE, root |-> root, proofs |-> [k \in DOMAIN asked |-> Proof(k)]]
                 ELSE [ok |-> FALSE]
  BY DEF FixedProofs
<1>2. /\ DOMAIN tree = 0 .. n - 1
      /\ \A i \in 0 .. n - 1 : tree[i] = leaves[i + 1]
      /\ DOMAIN tree \subseteq Nat
  OBVIOUS
<1>3. ToSet(asked) = {index} /\ DOMAIN asked = {1} /\ asked[1] = index
  <2>1. Len(asked) = 1 /\ DOMAIN asked = 1 .. 1 /\ asked[1] = index
    OBVIOUS
  <2>2. 1 .. 1 = {1}
    OBVIOUS
  <2> HIDE DEF asked
  <2> QED BY <2>1, <2>2 DEF ToSet
<1> HIDE DEF tree
<1>4. AllLeaves(tree) = all
  <2>1. ASSUME NEW i \in Nat PROVE NodeOr(tree, 0, i) = IF i < n THEN leaves[i + 1] ELSE EmptyLeaf
    <3>1. i \in DOMAIN tree <=> i < n
      BY <1>2
    <3> QED BY <1>2, <3>1, ZeroHashes DEF NodeOr
  <2> QED BY <2>1 DEF AllLeaves
<1>5. root = DenseRoot(all, Height)
  <2>1. Height \in Nat /\ 0 \in Nat /\ 0 < 2 ^ Height
    <3> DEFINE p == 2 ^ Height
    <3>1. Height \in Nat /\ p \in Nat \ {0}
      BY BoundsNat, Powers
    <3>2. 0 < p
      <4> HIDE DEF p
      <4> QED BY <3>1
    <3> QED BY <3>1, <3>2
  <2> QED BY <1>2, <1>4, <2>1, WitnessLeads
<1>6. ASSUME index < n PROVE Good(index) /\ tree[index] = leaves[index + 1]
  <2>1. index < 2 ^ Height /\ Height \in Nat
    <3> DEFINE p == 2 ^ Height
    <3>1. Height \in Nat /\ p \in Nat \ {0} /\ n <= p
      BY BoundsNat, Powers
    <3>2. index < p
      <4> HIDE DEF p
      <4> QED BY <1>6, <3>1
    <3> QED BY <3>1, <3>2
  <2>2. index \in DOMAIN tree /\ tree[index] = leaves[index + 1]
    BY <1>2, <1>6
  <2>3. RootFromProof(tree[index], index, path(index))
          = DenseRoot([AllLeaves(tree) EXCEPT ![index] = tree[index]], Height)
    BY <1>2, <2>1, WitnessLeads
  <2>4. [AllLeaves(tree) EXCEPT ![index] = tree[index]] = AllLeaves(tree)
    <3>1. NodeOr(tree, 0, index) = tree[index]
      BY <2>2 DEF NodeOr
    <3>2. AllLeaves(tree) = [i \in Nat |-> NodeOr(tree, 0, i)]
      BY DEF AllLeaves
    <3> QED BY <3>1, <3>2
  <2> QED BY <1>4, <1>5, <2>2, <2>3, <2>4
<1>7. Good(index) <=> index < n
  <2>1. Good(index) => index \in DOMAIN tree
    OBVIOUS
  <2> HIDE DEF Good
  <2> QED BY <1>2, <1>6, <2>1
<1>8. (\A i \in ToSet(asked) : Good(i)) <=> index < n
  <2> HIDE DEF Good, asked
  <2> QED BY <1>3, <1>7
<1>9. ASSUME index < n
      PROVE  /\ result.ok = TRUE /\ result.root = root
             /\ result.proofs[1].siblings = path(index)
  <2>1. result = [ok |-> TRUE, root |-> root, proofs |-> [k \in DOMAIN asked |-> Proof(k)]]
    <3> HIDE DEF Good, asked, root, result, path
    <3> QED BY <1>1, <1>8, <1>9
  <2>2. result.proofs[1] = Proof(1)
    <3> HIDE DEF asked, root, result, Proof
    <3> QED BY <1>3, <2>1
  <2>3. Proof(1).siblings = path(index)
    <3> HIDE DEF asked, path
    <3> QED BY <1>3
  <2> HIDE DEF result, Proof, root, path, asked
  <2> QED BY <2>1, <2>2, <2>3
<1>10. ASSUME ~(index < n) PROVE result.ok = FALSE
  <2> HIDE DEF Good, asked, root, result, path
  <2> QED BY <1>1, <1>8, <1>10
<1>11. index < n => RootFromProof(leaves[index + 1], index, path(index)) = root
  <2> HIDE DEF path, root
  <2> QED BY <1>6
<1> HIDE DEF path, root, all, Good
<1> QED BY <1>5, <1>9, <1>10, <1>11 DEF result, all

-----------------------------------------------------------------------------
(* The branch of a transaction in its block. *)

\* The smallest element.
LEMMA MinOf ==
  ASSUME NEW T \in SUBSET Nat, T # {}
  PROVE  Min(T) \in T /\ \A t \in T : Min(T) <= t
<1>1. \E x \in T : \A t \in T : x <= t
  BY LeastOf
<1> QED BY <1>1 DEF Min

\* How many nodes the levels of the tree of a block have, and its nodes.
Widths(W, n) == W[0] = n /\ \A h \in 1 .. n : W[h] = (W[h - 1] + 1) \div 2
Doubled(below, w, i) == <<below[2 * i], below[IF 2 * i + 1 < w THEN 2 * i + 1 ELSE 2 * i]>>
Levels(L, W, txids) ==
  /\ L[0] = [i \in 0 .. Len(txids) - 1 |-> txids[i + 1]]
  /\ \A h \in 1 .. Len(txids) :
       L[h] = [i \in 0 .. W[h] - 1 |-> Doubled(L[h - 1], W[h - 1], i)]

LEMMA BlockRootIs ==
  ASSUME NEW txids, Len(txids) \in Nat
  PROVE  \E W, L : /\ Widths(W, Len(txids)) /\ Levels(L, W, txids)
                   /\ BlockRoot(txids) = L[Min({h \in 0 .. Len(txids) : W[h] = 1})][0]
<1> DEFINE n == Len(txids)
           Up(w) == (w + 1) \div 2
           IsUp(f, m) == f = [h \in 0 .. m |-> IF h = 0 THEN n ELSE Up(f[h - 1])]
<1> HIDE DEF n, Up
<1>n. n \in Nat
  BY DEF n
<1>1. IsUp([h \in 0 .. 0 |-> n], 0)
  OBVIOUS
<1>2. ASSUME NEW m \in Nat, NEW f, IsUp(f, m)
      PROVE  IsUp([h \in 0 .. m + 1 |-> IF h = m + 1 THEN Up(f[m]) ELSE f[h]], m + 1)
  BY <1>2
<1>3. \E f : IsUp(f, n)
  <2> DEFINE T == {k \in Nat : \E f : IsUp(f, k)}
  <2> HIDE DEF IsUp
  <2>1. T \in SUBSET Nat /\ 0 \in T
    BY <1>1
  <2>2. ASSUME NEW k \in T PROVE k + 1 \in T
    <3>1. PICK f : IsUp(f, k)
      OBVIOUS
    <3> DEFINE g == [h \in 0 .. k + 1 |-> IF h = k + 1 THEN Up(f[k]) ELSE f[h]]
    <3>2. IsUp(g, k + 1)
      BY <1>2, <3>1
    <3> HIDE DEF g
    <3> QED BY <3>2
  <2> HIDE DEF T
  <2>3. n \in T
    BY <1>n, <2>1, <2>2, NatSet
  <2> QED BY <2>3 DEF T
<1> DEFINE W == CHOOSE f : IsUp(f, n)
<1>4. IsUp(W, n)
  <2> HIDE DEF IsUp
  <2> QED BY <1>3
<1> HIDE DEF W
<1> DEFINE first == [i \in 0 .. n - 1 |-> txids[i + 1]]
           Step(x, h) == [i \in 0 .. W[h] - 1 |-> Doubled(x, W[h - 1], i)]
           IsUpTo(f, m) == f = [h \in 0 .. m |-> IF h = 0 THEN first ELSE Step(f[h - 1], h)]
<1> HIDE DEF first, Step
<1>5. IsUpTo([h \in 0 .. 0 |-> first], 0)
  OBVIOUS
<1>6. ASSUME NEW m \in Nat, NEW f, IsUpTo(f, m)
      PROVE  IsUpTo([h \in 0 .. m + 1 |-> IF h = m + 1 THEN Step(f[m], h) ELSE f[h]], m + 1)
  BY <1>6
<1>7. \E f : IsUpTo(f, n)
  <2> DEFINE T == {k \in Nat : \E f : IsUpTo(f, k)}
  <2> HIDE DEF IsUpTo
  <2>1. T \in SUBSET Nat /\ 0 \in T
    BY <1>5
  <2>2. ASSUME NEW k \in T PROVE k + 1 \in T
    <3>1. PICK f : IsUpTo(f, k)
      OBVIOUS
    <3> DEFINE g == [h \in 0 .. k + 1 |-> IF h = k + 1 THEN Step(f[k], h) ELSE f[h]]
    <3>2. IsUpTo(g, k + 1)
      BY <1>6, <3>1
    <3> HIDE DEF g
    <3> QED BY <3>2
  <2> HIDE DEF T
  <2>3. n \in T
    BY <1>n, <2>1, <2>2, NatSet
  <2> QED BY <2>3 DEF T
<1> DEFINE L == CHOOSE f : IsUpTo(f, n)
<1>8. IsUpTo(L, n)
  <2> HIDE DEF IsUpTo
  <2> QED BY <1>7
<1>9. BlockRoot(txids) = L[Min({h \in 0 .. n : W[h] = 1})][0]
  BY DEF BlockRoot, L, W, Step, first, Doubled, Up, n
<1> HIDE DEF L
<1>10. Widths(W, n)
  <2>1. W[0] = n /\ \A h \in 1 .. n : W[h] = Up(W[h - 1])
    BY <1>n, <1>4
  <2> QED BY <2>1 DEF Widths, Up
<1>11. Levels(L, W, txids)
  <2>1. L[0] = first /\ \A h \in 1 .. n : L[h] = Step(L[h - 1], h)
    BY <1>n, <1>8
  <2> QED BY <2>1 DEF Levels, Step, first, n
<1> QED BY <1>9, <1>10, <1>11 DEF n

\* What is climbed: state at[k] is that after k levels.
Climbing(at, txids, index) ==
  /\ at[0] = [level |-> txids, index |-> index, branch |-> <<>>]
  /\ \A k \in 1 .. Len(txids) : at[k] = Climb(at[k - 1])

LEMMA TransactionBranchIs ==
  ASSUME NEW txids, Len(txids) \in Nat, NEW index \in 0 .. Len(txids) - 1
  PROVE  \E at : /\ Climbing(at, txids, index)
                 /\ TransactionBranch(txids, index)
                      = [ok |-> TRUE, root |-> at[Len(txids)].level[1],
                         branch |-> at[Len(txids)].branch]
<1> DEFINE n == Len(txids)
           start == [level |-> txids, index |-> index, branch |-> <<>>]
           IsUpTo(f, m) == f = [h \in 0 .. m |-> IF h = 0 THEN start ELSE Climb(f[h - 1])]
<1> HIDE DEF n, start
<1>n. n \in Nat
  BY DEF n
<1>1. IsUpTo([h \in 0 .. 0 |-> start], 0)
  OBVIOUS
<1>2. ASSUME NEW m \in Nat, NEW f, IsUpTo(f, m)
      PROVE  IsUpTo([h \in 0 .. m + 1 |-> IF h = m + 1 THEN Climb(f[m]) ELSE f[h]], m + 1)
  BY <1>2
<1>3. \E f : IsUpTo(f, n)
  <2> DEFINE T == {k \in Nat : \E f : IsUpTo(f, k)}
  <2> HIDE DEF IsUpTo
  <2>1. T \in SUBSET Nat /\ 0 \in T
    BY <1>1
  <2>2. ASSUME NEW k \in T PROVE k + 1 \in T
    <3>1. PICK f : IsUpTo(f, k)
      OBVIOUS
    <3> DEFINE g == [h \in 0 .. k + 1 |-> IF h = k + 1 THEN Climb(f[k]) ELSE f[h]]
    <3>2. IsUpTo(g, k + 1)
      BY <1>2, <3>1
    <3> HIDE DEF g
    <3> QED BY <3>2
  <2> HIDE DEF T
  <2>3. n \in T
    BY <1>n, <2>1, <2>2, NatSet
  <2> QED BY <2>3 DEF T
<1> DEFINE at == CHOOSE f : IsUpTo(f, n)
<1>4. IsUpTo(at, n)
  <2> HIDE DEF IsUpTo
  <2> QED BY <1>3
<1>5. TransactionBranch(txids, index)
        = [ok |-> TRUE, root |-> at[n].level[1], branch |-> at[n].branch]
  BY DEF TransactionBranch, start, n
<1> HIDE DEF at
<1>6. at[0] = start /\ \A h \in 1 .. n : at[h] = Climb(at[h - 1])
  BY <1>n, <1>4
<1> QED BY <1>5, <1>6 DEF Climbing, start, n

\* Up to the level of one node every level has fewer nodes than the one below.
LEMMA WidthsShrink ==
  ASSUME NEW n \in Nat \ {0}, NEW W, Widths(W, n)
  PROVE  /\ \A h \in 0 .. n : W[h] \in Nat \ {0}
         /\ W[n] = 1
<1> DEFINE Narrow(h) == W[h] \in Nat \ {0} /\ (W[h] = 1 \/ W[h] <= n - h)
           T == {h \in Nat : h <= n => Narrow(h)}
<1>1. 0 \in T
  BY DEF Widths
<1>2. ASSUME NEW h \in T PROVE h + 1 \in T
  <2>1. SUFFICES ASSUME h + 1 <= n PROVE Narrow(h + 1)
    OBVIOUS
  <2>2. h \in Nat /\ Narrow(h)
    BY <1>2, <2>1
  <2>3. W[h + 1] = (W[h] + 1) \div 2
    <3>1. h + 1 \in 1 .. n /\ h + 1 - 1 = h
      BY <2>1, <2>2
    <3> QED BY <3>1 DEF Widths
  <2>4. ASSUME NEW w \in Nat \ {0}, w = 1 \/ w <= n - h
        PROVE  (w + 1) \div 2 \in Nat \ {0} /\ ((w + 1) \div 2 = 1 \/ (w + 1) \div 2 <= n - (h + 1))
    BY <2>1, <2>2, <2>4
  <2> QED BY <2>2, <2>3, <2>4
<1>3. \A h \in Nat : h \in T
  <2>1. T \in SUBSET Nat
    OBVIOUS
  <2> HIDE DEF T
  <2> QED BY <1>1, <1>2, <2>1, NatSet
<1>4. \A h \in 0 .. n : Narrow(h)
  BY <1>3
<1> QED BY <1>4

\* What a node is hashed with: the node beside it, or itself if there is none.
Beside(below, w, j) == below[IF Sibling(j) < w THEN Sibling(j) ELSE j]

LEMMA HashedBeside ==
  ASSUME NEW w \in Nat, NEW j \in 0 .. w - 1, NEW below
  PROVE  Hashed(below[j], Beside(below, w, j), j) = Doubled(below, w, j \div 2)
<1>1. CASE j % 2 = 0
  <2>1. 2 * (j \div 2) = j /\ 2 * (j \div 2) + 1 = j + 1 /\ Sibling(j) = j + 1
    BY <1>1 DEF Sibling
  <2> QED BY <1>1, <2>1 DEF Hashed, Beside, Doubled
<1>2. CASE j % 2 # 0
  <2>1. /\ 2 * (j \div 2) = j - 1 /\ 2 * (j \div 2) + 1 = j /\ Sibling(j) = j - 1
        /\ j < w /\ j - 1 < w
    BY <1>2 DEF Sibling
  <2> QED BY <1>2, <2>1 DEF Hashed, Beside, Doubled
<1> QED BY <1>1, <1>2

\* A climb that has come to a level of w nodes.
AtLevel(a, below, w) ==
  /\ Len(a.level) = w
  /\ \A i \in 0 .. w - 1 : a.level[i + 1] = below[i]
  /\ a.index \in 0 .. w - 1

\* One level of a climb: the nodes of the next one, and what stands beside the
\* node of the transaction.
LEMMA OneLevel ==
  ASSUME NEW w \in Nat, w > 1, NEW below, NEW a, AtLevel(a, below, w)
  PROVE  /\ AtLevel(Climb(a), [i \in 0 .. (w + 1) \div 2 - 1 |-> Doubled(below, w, i)],
                    (w + 1) \div 2)
         /\ Climb(a).index = a.index \div 2
         /\ Climb(a).branch = Append(a.branch, Beside(below, w, a.index))
<1> DEFINE next     == (w + 1) \div 2
           sibling  == IF Sibling(a.index) < w THEN Sibling(a.index) ELSE a.index
           right(k) == IF k + 1 <= w THEN a.level[k + 1] ELSE a.level[k]
           Pair(k)  == <<a.level[2 * k - 1], right(2 * k - 1)>>
           level    == [k \in 1 .. next |-> Pair(k)]
<1>1. Climb(a) = [level |-> level, index |-> a.index \div 2,
                  branch |-> Append(a.branch, a.level[sibling + 1])]
  BY DEF Climb, AtLevel
<1>a. /\ Len(a.level) = w /\ a.index \in 0 .. w - 1
      /\ \A i \in 0 .. w - 1 : a.level[i + 1] = below[i]
  BY DEF AtLevel
<1>2. next \in Nat
  OBVIOUS
<1>3. sibling \in 0 .. w - 1
  BY <1>a DEF Sibling
<1>4. a.level[sibling + 1] = Beside(below, w, a.index)
  <2>1. a.level[sibling + 1] = below[sibling]
    <3> HIDE DEF sibling
    <3> QED BY <1>a, <1>3
  <2> QED BY <2>1 DEF Beside
<1>5. a.index \div 2 \in 0 .. next - 1
  <2>1. ASSUME NEW j \in 0 .. w - 1 PROVE j \div 2 \in 0 .. (w + 1) \div 2 - 1
    OBVIOUS
  <2> QED BY <1>a, <2>1
<1>6. ASSUME NEW i \in 0 .. next - 1 PROVE Pair(i + 1) = Doubled(below, w, i)
  <2>1. /\ 2 * (i + 1) - 1 = 2 * i + 1 /\ 2 * i \in 0 .. w - 1
    OBVIOUS
  <2>2. a.level[2 * (i + 1) - 1] = below[2 * i]
    BY <1>a, <2>1
  <2>3. right(2 * (i + 1) - 1) = below[IF 2 * i + 1 < w THEN 2 * i + 1 ELSE 2 * i]
    <3>1. CASE 2 * i + 1 < w
      <4>1. 2 * i + 1 \in 0 .. w - 1 /\ 2 * (i + 1) - 1 + 1 = 2 * i + 1 + 1
            /\ 2 * (i + 1) - 1 + 1 <= w
        BY <3>1
      <4>2. a.level[2 * i + 1 + 1] = below[2 * i + 1]
        BY <1>a, <4>1
      <4> QED BY <3>1, <4>1, <4>2
    <3>2. CASE ~(2 * i + 1 < w)
      <4>1. ~(2 * (i + 1) - 1 + 1 <= w)
        BY <3>2
      <4> QED BY <2>2, <3>2, <4>1
    <3> QED BY <3>1, <3>2
  <2> HIDE DEF right
  <2> QED BY <2>2, <2>3 DEF Doubled
<1> HIDE DEF Pair, next, sibling
<1>7. /\ Len(level) = next
      /\ \A i \in 0 .. next - 1 : level[i + 1] = Doubled(below, w, i)
  <2>1. Len(level) = next
    BY <1>2
  <2>2. ASSUME NEW i \in 0 .. next - 1 PROVE level[i + 1] = Doubled(below, w, i)
    <3>1. i + 1 \in 1 .. next
      BY <1>2
    <3> QED BY <1>6, <3>1
  <2> QED BY <2>1, <2>2
<1> HIDE DEF level
<1>8. AtLevel(Climb(a), [i \in 0 .. next - 1 |-> Doubled(below, w, i)], next)
  BY <1>1, <1>5, <1>7 DEF AtLevel
<1> QED BY <1>1, <1>4, <1>8 DEF next

\* What the climb from an index has after h levels.
Reached(a, L, W, index, h) ==
  /\ AtLevel(a, L[h], W[h])
  /\ a.index = index \div 2 ^ h
  /\ \E V : a.branch \in Seq(V)
  /\ Len(a.branch) = h
  /\ \A m \in 1 .. h : a.branch[m] = Beside(L[m - 1], W[m - 1], index \div 2 ^ (m - 1))

LEMMA ReachedNext ==
  ASSUME NEW a, NEW L, NEW W, NEW index \in Nat, NEW h \in Nat, Reached(a, L, W, index, h),
         W[h] \in Nat, W[h] > 1, W[h + 1] = (W[h] + 1) \div 2,
         L[h + 1] = [i \in 0 .. W[h + 1] - 1 |-> Doubled(L[h], W[h], i)]
  PROVE  Reached(Climb(a), L, W, index, h + 1)
<1> DEFINE w == W[h]
           below == L[h]
           c == Climb(a)
<1>1. w \in Nat /\ w > 1 /\ AtLevel(a, below, w)
  BY DEF Reached
<1>2. /\ AtLevel(c, [i \in 0 .. (w + 1) \div 2 - 1 |-> Doubled(below, w, i)],
                 (w + 1) \div 2)
      /\ c.index = a.index \div 2
      /\ c.branch = Append(a.branch, Beside(below, w, a.index))
  <2> HIDE DEF w, below
  <2> QED BY <1>1, OneLevel
<1> HIDE DEF c
<1>3. c.index = index \div 2 ^ (h + 1)
  <2>1. a.index = index \div 2 ^ h
    BY DEF Reached
  <2>2. index \div 2 ^ (h + 1) = (index \div 2 ^ h) \div 2
    BY PlaceAbove
  <2>3. c.index = a.index \div 2
    BY <1>2
  <2> QED BY <2>1, <2>2, <2>3
<1>4. AtLevel(c, L[h + 1], W[h + 1])
  BY <1>2
<1>5. PICK V : a.branch \in Seq(V)
  BY DEF Reached
<1> DEFINE beside == Beside(below, w, a.index)
           U == V \cup {beside}
<1>6. a.branch \in Seq(U) /\ beside \in U /\ Len(a.branch) = h
  BY <1>5 DEF Reached
<1> HIDE DEF beside, U
<1>7. /\ c.branch \in Seq(U) /\ Len(c.branch) = h + 1 /\ c.branch[h + 1] = beside
      /\ \A m \in 1 .. h : c.branch[m] = a.branch[m]
  <2>1. c.branch = Append(a.branch, beside)
    BY <1>2 DEF beside
  <2> QED BY <1>6, <2>1, AppendProperties
<1>8. ASSUME NEW m \in 1 .. h + 1
      PROVE  c.branch[m] = Beside(L[m - 1], W[m - 1], index \div 2 ^ (m - 1))
  <2>1. CASE m = h + 1
    <3>1. m - 1 = h /\ a.index = index \div 2 ^ h
      BY <2>1 DEF Reached
    <3> QED BY <1>7, <2>1, <3>1 DEF beside
  <2>2. CASE m # h + 1
    <3>1. m \in 1 .. h
      BY <2>2
    <3> QED BY <1>7, <3>1 DEF Reached
  <2> QED BY <2>1, <2>2
<1> HIDE DEF w, below
<1> QED BY <1>3, <1>4, <1>7, <1>8 DEF Reached, c

\* The branch of a transaction leads to the root of its block.
LEMMA BranchLeads ==
  ASSUME NEW V, NEW txids \in Seq(V), NEW index \in 0 .. Len(txids) - 1
  PROVE  LET result == TransactionBranch(txids, index)
         IN  /\ result.ok = TRUE /\ result.root = BlockRoot(txids)
             /\ RootFromProof(txids[index + 1], index, result.branch) = BlockRoot(txids)
<1> DEFINE n == Len(txids)
<1>n. n \in Nat \ {0} /\ index \in Nat /\ index < n
  BY LenProperties
<1>1. PICK at : /\ Climbing(at, txids, index)
                /\ TransactionBranch(txids, index)
                     = [ok |-> TRUE, root |-> at[n].level[1], branch |-> at[n].branch]
  BY <1>n, TransactionBranchIs
<1>2. PICK W, L : /\ Widths(W, n) /\ Levels(L, W, txids)
                  /\ BlockRoot(txids) = L[Min({h \in 0 .. n : W[h] = 1})][0]
  BY <1>n, BlockRootIs
<1> DEFINE tops == {h \in 0 .. n : W[h] = 1}
           top  == Min(tops)
<1>3. (\A h \in 0 .. n : W[h] \in Nat \ {0}) /\ W[n] = 1
  <2> HIDE DEF n
  <2> QED BY <1>n, <1>2, WidthsShrink
<1>4. /\ top \in 0 .. n /\ W[top] = 1
      /\ \A h \in 0 .. n : h < top => W[h] > 1
  <2>1. tops \in SUBSET Nat /\ tops # {}
    <3>1. n \in 0 .. n
      BY <1>n
    <3> QED BY <1>3, <3>1
  <2>2. top \in tops /\ \A t \in tops : top <= t
    <3> HIDE DEF tops
    <3> QED BY <2>1, MinOf
  <2> HIDE DEF top
  <2>3. ASSUME NEW h \in 0 .. n, h < top PROVE W[h] > 1
    <3>1. h \notin tops /\ W[h] \in Nat \ {0}
      BY <1>3, <2>2, <2>3
    <3> QED BY <3>1
  <2> QED BY <2>2, <2>3
<1>5. L[0] = [i \in 0 .. n - 1 |-> txids[i + 1]]
      /\ \A h \in 1 .. n : L[h] = [i \in 0 .. W[h] - 1 |-> Doubled(L[h - 1], W[h - 1], i)]
  BY <1>2 DEF Levels
<1> HIDE DEF top, tops, n
<1>t. top \in Nat /\ top <= n
  BY <1>4, <1>n
<1>6. Reached(at[0], L, W, index, 0)
  <2>1. /\ at[0].level = txids /\ at[0].index = index /\ at[0].branch = <<>>
    BY <1>1 DEF Climbing
  <2>2. index \div 2 ^ 0 = index
    <3>1. 2 ^ 0 = 1 /\ index \div 1 = index
      BY <1>n, Powers
    <3> QED BY <3>1
  <2>3. W[0] = n
    BY <1>2 DEF Widths
  <2>4. <<>> \in Seq({}) /\ Len(<<>>) = 0 /\ 1 .. 0 = {}
    OBVIOUS
  <2>5. \A i \in 0 .. n - 1 : txids[i + 1] = L[0][i]
    BY <1>5
  <2>6. Len(txids) = n /\ index \in 0 .. n - 1
    BY <1>n DEF n
  <2> DEFINE a == at[0]
  <2> HIDE DEF a
  <2>7. a.level = txids /\ a.index = index /\ a.branch = <<>>
    BY <2>1 DEF a
  <2>8. Reached(a, L, W, index, 0)
    <3>1. AtLevel(a, L[0], W[0])
      BY <2>3, <2>5, <2>6, <2>7 DEF AtLevel
    <3> QED BY <2>2, <2>4, <2>7, <3>1 DEF Reached
  <2> QED BY <2>8 DEF a
<1>7. \A h \in Nat : h <= top => Reached(at[h], L, W, index, h)
  <2> DEFINE T == {h \in Nat : h <= top => Reached(at[h], L, W, index, h)}
  <2>1. 0 \in T /\ T \in SUBSET Nat
    BY <1>6
  <2>2. ASSUME NEW h \in T PROVE h + 1 \in T
    <3>1. SUFFICES ASSUME h + 1 <= top PROVE Reached(at[h + 1], L, W, index, h + 1)
      OBVIOUS
    <3>2. /\ h \in Nat /\ h + 1 \in 1 .. n /\ h + 1 - 1 = h /\ h \in 0 .. n
          /\ Reached(at[h], L, W, index, h)
      BY <1>n, <1>t, <2>2, <3>1
    <3>3. W[h] \in Nat /\ W[h] > 1
      BY <1>3, <1>4, <1>t, <3>1, <3>2
    <3>4. W[h + 1] = (W[h] + 1) \div 2
      BY <1>2, <3>2 DEF Widths
    <3>5. L[h + 1] = [i \in 0 .. W[h + 1] - 1 |-> Doubled(L[h], W[h], i)]
      BY <1>5, <3>2
    <3>6. at[h + 1] = Climb(at[h])
      BY <1>1, <3>2 DEF Climbing, n
    <3> HIDE DEF T
    <3>7. Reached(Climb(at[h]), L, W, index, h + 1)
      BY <1>n, <3>2, <3>3, <3>4, <3>5, ReachedNext
    <3> QED BY <3>6, <3>7
  <2> HIDE DEF T
  <2>3. \A h \in Nat : h \in T
    BY <2>1, <2>2, NatSet
  <2> QED BY <2>3 DEF T
<1>8. Reached(at[top], L, W, index, top)
  BY <1>7, <1>t
<1>9. \A h \in Nat : top + h <= n => at[top + h] = at[top]
  <2> DEFINE T == {h \in Nat : top + h <= n => at[top + h] = at[top]}
  <2>1. 0 \in T /\ T \in SUBSET Nat
    BY <1>t
  <2>2. ASSUME NEW h \in T PROVE h + 1 \in T
    <3>1. SUFFICES ASSUME top + (h + 1) <= n PROVE at[top + (h + 1)] = at[top]
      OBVIOUS
    <3>2. /\ h \in Nat /\ top + (h + 1) \in 1 .. n /\ top + (h + 1) - 1 = top + h
          /\ at[top + h] = at[top]
      BY <1>n, <1>t, <2>2, <3>1
    <3>3. at[top + (h + 1)] = Climb(at[top])
      <4>1. \A k \in 1 .. n : at[k] = Climb(at[k - 1])
        BY <1>1 DEF Climbing, n
      <4>2. PICK k \in 1 .. n : k = top + (h + 1) /\ k - 1 = top + h
        BY <1>t, <3>2
      <4>3. at[k] = Climb(at[k - 1])
        BY <4>1
      <4> QED BY <3>2, <4>2, <4>3
    <3>4. Len(at[top].level) = 1
      BY <1>4, <1>8 DEF Reached, AtLevel
    <3>5. Climb(at[top]) = at[top]
      BY <3>4 DEF Climb
    <3> QED BY <3>3, <3>5
  <2> HIDE DEF T
  <2>3. \A h \in Nat : h \in T
    BY <2>1, <2>2, NatSet
  <2> QED BY <2>3 DEF T
<1>10. at[n] = at[top]
  <2>1. n - top \in Nat /\ top + (n - top) = n /\ top + (n - top) <= n
    BY <1>n, <1>t
  <2> QED BY <1>9, <2>1
<1> DEFINE branch == at[top].branch
           root   == L[top][0]
<1>11. at[top].level[1] = root
  <2>1. 0 \in 0 .. W[top] - 1 /\ 0 + 1 = 1
    BY <1>4
  <2>2. at[top].level[0 + 1] = L[top][0]
    BY <1>8, <2>1 DEF Reached, AtLevel
  <2> QED BY <2>1, <2>2
<1>12. RootFromProof(txids[index + 1], index, branch) = root
  <2>1. /\ Len(branch) = top
        /\ \A m \in 1 .. top : branch[m] = Beside(L[m - 1], W[m - 1], index \div 2 ^ (m - 1))
    BY <1>8 DEF Reached
  <2> HIDE DEF branch
  <2>2. PICK f : /\ Climbs(f, txids[index + 1], index, branch)
                 /\ RootFromProof(txids[index + 1], index, branch) = f[top]
    BY <1>t, <2>1, RootFromProofIs
  <2> DEFINE T == {h \in Nat : h <= top => f[h] = L[h][index \div 2 ^ h]}
  <2>3. 0 \in T
    <3>1. 2 ^ 0 = 1 /\ index \div 1 = index
      BY <1>n, Powers
    <3>2. f[0] = txids[index + 1] /\ L[0][index] = txids[index + 1]
      BY <1>5, <1>n, <2>2 DEF Climbs
    <3>3. f[0] = L[0][index \div 2 ^ 0]
      BY <3>1, <3>2
    <3> QED BY <3>3
  <2>4. ASSUME NEW h \in T PROVE h + 1 \in T
    <3>1. SUFFICES ASSUME h + 1 <= top PROVE f[h + 1] = L[h + 1][index \div 2 ^ (h + 1)]
      OBVIOUS
    <3> DEFINE j == index \div 2 ^ h
    <3>2. /\ h \in Nat /\ h <= top /\ h + 1 \in 1 .. top /\ h + 1 - 1 = h
          /\ h + 1 \in 1 .. n /\ h \in 0 .. n /\ h + 1 \in Nat
      BY <1>n, <1>t, <2>4, <3>1
    <3>3. f[h] = L[h][j]
      BY <2>4, <3>2
    <3>4. j \in 0 .. W[h] - 1 /\ index \div 2 ^ (h + 1) \in 0 .. W[h + 1] - 1
      BY <1>7, <3>1, <3>2 DEF Reached, AtLevel
    <3>5. index \div 2 ^ (h + 1) = j \div 2
      BY <1>n, <3>2, PlaceAbove
    <3>6. f[h + 1] = Hashed(f[h], Beside(L[h], W[h], j), j)
      BY <2>1, <2>2, <3>2 DEF Climbs
    <3>7. W[h] \in Nat
      BY <1>3, <3>2
    <3> HIDE DEF j, T
    <3>8. Hashed(L[h][j], Beside(L[h], W[h], j), j) = Doubled(L[h], W[h], j \div 2)
      BY <3>4, <3>7, HashedBeside
    <3>9. L[h + 1][j \div 2] = Doubled(L[h], W[h], j \div 2)
      <4>1. j \div 2 \in 0 .. W[h + 1] - 1
        BY <3>4, <3>5
      <4>2. L[h + 1] = [i \in 0 .. W[h + 1] - 1 |-> Doubled(L[h], W[h], i)]
        BY <1>5, <3>2
      <4> QED BY <4>1, <4>2
    <3> QED BY <3>3, <3>5, <3>6, <3>8, <3>9
  <2>5. \A h \in Nat : h \in T
    <3>1. T \in SUBSET Nat
      OBVIOUS
    <3> HIDE DEF T
    <3> QED BY <2>3, <2>4, <3>1, NatSet
  <2>6. f[top] = L[top][index \div 2 ^ top]
    BY <1>t, <2>5
  <2>7. index \div 2 ^ top = 0
    <3>1. index \div 2 ^ top \in 0 .. W[top] - 1
      BY <1>8 DEF Reached, AtLevel
    <3> QED BY <1>4, <3>1
  <2> QED BY <2>2, <2>6, <2>7
<1>13. BlockRoot(txids) = root
  BY <1>2 DEF top, tops
<1> HIDE DEF root, branch
<1>14. TransactionBranch(txids, index) = [ok |-> TRUE, root |-> root, branch |-> branch]
  BY <1>1, <1>10, <1>11 DEF branch
<1> QED BY <1>12, <1>13, <1>14

\* Membership of a request and of a transaction is proved for every index there
\* is and no other, against the root of the whole tree, for trees of any height
\* and blocks of any size (build_fixed_merkle_proofs,
\* build_transaction_merkle_branch).
THEOREM MembershipProofsVerifyHolds == Spec => []MembershipProofsVerify
<1>1. Init => MembershipProofsVerify
  BY DEF Init, MembershipProofsVerify
<1>2. MembershipProofsVerify /\ [Next]_vars => MembershipProofsVerify'
  <2> SUFFICES ASSUME MembershipProofsVerify, [Next]_vars PROVE MembershipProofsVerify'
    OBVIOUS
  <2>1. CASE CallParseAmount
    BY <2>1 DEF CallParseAmount, Call, MembershipProofsVerify
  <2>2. CASE CallValidateDecoded
    BY <2>2 DEF CallValidateDecoded, Call, MembershipProofsVerify
  <2>3. CASE CallRestore
    BY <2>3 DEF CallRestore, Call, MembershipProofsVerify
  <2>4. CASE CallMembership
    <3>1. PICK n \in 1 .. 2 ^ Height : \E empty \in SUBSET (1 .. n), index \in 0 .. n :
            LET leaves == [i \in 1 .. n |-> IF i \in empty THEN EmptyLeaf ELSE {i}]
            IN  Call([fn |-> "membership", leaves |-> leaves, index |-> index,
                      result |-> FixedProofs(leaves, <<index>>, Height)])
      BY <2>4 DEF CallMembership
    <3>2. PICK empty \in SUBSET (1 .. n), index \in 0 .. n :
            LET leaves == [i \in 1 .. n |-> IF i \in empty THEN EmptyLeaf ELSE {i}]
            IN  Call([fn |-> "membership", leaves |-> leaves, index |-> index,
                      result |-> FixedProofs(leaves, <<index>>, Height)])
      BY <3>1
    <3> DEFINE leaves == [i \in 1 .. n |-> IF i \in empty THEN EmptyLeaf ELSE {i}]
               result == FixedProofs(leaves, <<index>>, Height)
    <3>3. n \in Nat /\ n <= 2 ^ Height /\ index \in Nat
      <4> DEFINE p == 2 ^ Height
      <4>1. p \in Nat \ {0} /\ n \in 1 .. p
        BY BoundsNat, Powers
      <4>2. n \in Nat /\ n <= p
        <5> HIDE DEF p
        <5> QED BY <4>1
      <4>3. index \in Nat
        BY <4>2
      <4> QED BY <4>2, <4>3
    <3>4. Len(leaves) = n
      <4>1. n \in Nat
        BY <3>3
      <4> QED BY <4>1
    <3>5. call' = [fn |-> "membership", leaves |-> leaves, index |-> index, result |-> result]
      BY <3>2 DEF Call
    <3> HIDE DEF leaves
    <3>6. /\ result.ok <=> index < n
          /\ result.ok =>
               /\ result.root = DenseRoot([i \in Nat |-> IF i < n THEN leaves[i + 1]
                                                                  ELSE EmptyLeaf], Height)
               /\ RootFromProof(leaves[index + 1], index, result.proofs[1].siblings)
                    = result.root
      BY <3>3, <3>4, MembershipVerifies
    <3> HIDE DEF result
    <3> QED BY <3>4, <3>5, <3>6 DEF MembershipProofsVerify
  <2>5. CASE CallBranch
    <3>1. PICK n \in 0 .. MaxTxids : \E index \in 0 .. n :
            LET txids == [i \in 1 .. n |-> <<i>>]
            IN  Call([fn |-> "branch", txids |-> txids, index |-> index,
                      result |-> TransactionBranch(txids, index)])
      BY <2>5 DEF CallBranch
    <3>2. PICK index \in 0 .. n :
            LET txids == [i \in 1 .. n |-> <<i>>]
            IN  Call([fn |-> "branch", txids |-> txids, index |-> index,
                      result |-> TransactionBranch(txids, index)])
      BY <3>1
    <3> DEFINE txids  == [i \in 1 .. n |-> <<i>>]
               result == TransactionBranch(txids, index)
               V == {<<i>> : i \in 1 .. n}
    <3>3. n \in Nat /\ index \in Nat
      BY BoundsNat
    <3>4. txids \in Seq(V) /\ Len(txids) = n
      <4>1. txids \in [1 .. n -> V]
        OBVIOUS
      <4> HIDE DEF V
      <4> QED BY <3>3, <4>1
    <3>5. call' = [fn |-> "branch", txids |-> txids, index |-> index, result |-> result]
      BY <3>2 DEF Call
    <3> HIDE DEF txids, V
    <3>6. CASE index < n
      <4>1. index \in 0 .. Len(txids) - 1
        BY <3>3, <3>4, <3>6
      <4>2. /\ result.ok = TRUE /\ result.root = BlockRoot(txids)
            /\ RootFromProof(txids[index + 1], index, result.branch) = BlockRoot(txids)
        BY <3>4, <4>1, BranchLeads
      <4> HIDE DEF result
      <4> QED BY <3>4, <3>5, <3>6, <4>2 DEF MembershipProofsVerify
    <3>7. CASE ~(index < n)
      <4>1. result = [ok |-> FALSE]
        BY <3>3, <3>4, <3>7 DEF TransactionBranch
      <4>2. result.ok = FALSE
        BY <4>1
      <4> HIDE DEF result
      <4> QED BY <3>4, <3>5, <3>7, <4>2 DEF MembershipProofsVerify
    <3> QED BY <3>6, <3>7
  <2>6. CASE CallSpentProofs
    BY <2>6 DEF CallSpentProofs, MembershipProofsVerify
  <2>7. CASE NextPayment
    BY <2>7 DEF NextPayment, MembershipProofsVerify
  <2>8. CASE UNCHANGED vars
    BY <2>8 DEF vars, MembershipProofsVerify
  <2> QED BY <2>1, <2>2, <2>3, <2>4, <2>5, <2>6, <2>7, <2>8 DEF Next
<1> QED BY <1>1, <1>2, PTL DEF Spec

-----------------------------------------------------------------------------
(* Amounts. *)

\* Powers of ten.
LEMMA TenIs ==
  /\ Ten[0] = 1
  /\ \A n \in Nat : Ten[n + 1] = 10 * Ten[n]
<1> DEFINE Up(x) == 10 * x
           IsUpTo(f, m) == f = [k \in 0 .. m |-> IF k = 0 THEN 1 ELSE Up(f[k - 1])]
<1> HIDE DEF Up
<1>1. ASSUME NEW m \in Nat PROVE \E f : IsUpTo(f, m)
  <2> DEFINE T == {k \in Nat : \E f : IsUpTo(f, k)}
  <2>1. IsUpTo([k \in 0 .. 0 |-> 1], 0)
    OBVIOUS
  <2>2. ASSUME NEW k \in T PROVE k + 1 \in T
    <3>1. PICK f : IsUpTo(f, k)
      BY <2>2
    <3> DEFINE g == [j \in 0 .. k + 1 |-> IF j = k + 1 THEN Up(f[k]) ELSE f[j]]
    <3>2. IsUpTo(g, k + 1)
      BY <3>1
    <3> HIDE DEF g, IsUpTo
    <3> QED BY <3>2
  <2> HIDE DEF IsUpTo
  <2>3. T \in SUBSET Nat /\ 0 \in T
    BY <2>1
  <2> HIDE DEF T
  <2>4. m \in T
    BY <2>2, <2>3, NatSet
  <2> QED BY <2>4 DEF T
<1>2. ASSUME NEW m \in Nat, NEW f, IsUpTo(f, m), NEW g, IsUpTo(g, m + 1)
      PROVE  f[m] = g[m]
  <2> DEFINE T == {k \in Nat : k <= m => f[k] = g[k]}
  <2>1. 0 \in T
    BY <1>2
  <2>2. ASSUME NEW k \in T PROVE k + 1 \in T
    <3>1. SUFFICES ASSUME k + 1 <= m PROVE f[k + 1] = g[k + 1]
      OBVIOUS
    <3>2. f[k + 1] = Up(f[k + 1 - 1]) /\ g[k + 1] = Up(g[k + 1 - 1])
      BY <1>2, <3>1
    <3>3. k + 1 - 1 = k /\ f[k] = g[k]
      BY <2>2, <3>1
    <3> QED BY <3>2, <3>3
  <2>3. m \in T
    <3>1. T \in SUBSET Nat
      OBVIOUS
    <3> HIDE DEF T
    <3> QED BY <2>1, <2>2, <3>1, NatSet
  <2> QED BY <2>3
<1> DEFINE Part(m) == CHOOSE f : IsUpTo(f, m)
           whole   == [n \in Nat |-> Part(n)[n]]
<1>3. ASSUME NEW m \in Nat PROVE IsUpTo(Part(m), m)
  <2> HIDE DEF IsUpTo
  <2> QED BY <1>1
<1>4. whole[0] = 1
  <2>1. IsUpTo(Part(0), 0)
    BY <1>3
  <2> HIDE DEF Part
  <2> QED BY <2>1
<1>5. ASSUME NEW m \in Nat PROVE whole[m + 1] = Up(whole[m])
  <2>1. IsUpTo(Part(m), m) /\ IsUpTo(Part(m + 1), m + 1)
    <3>1. m + 1 \in Nat
      OBVIOUS
    <3> HIDE DEF Part, IsUpTo
    <3> QED BY <1>3, <3>1
  <2> HIDE DEF Part
  <2>2. Part(m)[m] = Part(m + 1)[m]
    <3> DEFINE f == Part(m)
               g == Part(m + 1)
    <3>1. IsUpTo(f, m) /\ IsUpTo(g, m + 1)
      BY <2>1
    <3> HIDE DEF f, g, IsUpTo
    <3>2. f[m] = g[m]
      BY <1>2, <3>1
    <3> QED BY <3>2 DEF f, g
  <2>3. Part(m + 1)[m + 1] = Up(Part(m + 1)[m])
    BY <2>1
  <2> QED BY <2>2, <2>3
<1>6. whole = [n \in Nat |-> IF n = 0 THEN 1 ELSE Up(whole[n - 1])]
  <2>1. ASSUME NEW n \in Nat
        PROVE  whole[n] = IF n = 0 THEN 1 ELSE Up(whole[n - 1])
    <3>1. n # 0 => n - 1 \in Nat /\ n - 1 + 1 = n
      OBVIOUS
    <3> HIDE DEF whole
    <3> QED BY <1>4, <1>5, <3>1
  <2>2. whole = [n \in Nat |-> whole[n]]
    OBVIOUS
  <2> HIDE DEF whole
  <2> QED BY <2>1, <2>2
<1> HIDE DEF whole
<1>7. Ten = [n \in Nat |-> IF n = 0 THEN 1 ELSE Up(Ten[n - 1])]
  BY <1>6 DEF Ten, Up
<1>8. ASSUME NEW n \in Nat PROVE Ten[n + 1] = Up(Ten[n])
  <2>1. n + 1 \in Nat /\ n + 1 # 0 /\ n + 1 - 1 = n
    OBVIOUS
  <2> QED BY <1>7, <2>1
<1> QED BY <1>7, <1>8 DEF Up

\* They are positive, and multiply by adding their exponents.
LEMMA Tens ==
  /\ \A n \in Nat : Ten[n] \in Nat \ {0}
  /\ \A m, n \in Nat : Ten[m + n] = Ten[m] * Ten[n]
<1>1. \A n \in Nat : Ten[n] \in Nat \ {0}
  <2> DEFINE T == {n \in Nat : Ten[n] \in Nat \ {0}}
  <2>1. T \in SUBSET Nat /\ 0 \in T
    BY TenIs
  <2>2. ASSUME NEW n \in T PROVE n + 1 \in T
    BY TenIs
  <2> HIDE DEF T
  <2>3. \A n \in Nat : n \in T
    BY <2>1, <2>2, NatSet
  <2> QED BY <2>3 DEF T
<1>2. ASSUME NEW m \in Nat, NEW n \in Nat PROVE Ten[m + n] = Ten[m] * Ten[n]
  <2> DEFINE T == {k \in Nat : Ten[m + k] = Ten[m] * Ten[k]}
  <2>1. T \in SUBSET Nat /\ 0 \in T
    BY <1>1, TenIs
  <2>2. ASSUME NEW k \in T PROVE k + 1 \in T
    <3>1. /\ m + k \in Nat /\ m + (k + 1) = m + k + 1 /\ k \in Nat
          /\ Ten[m + k] = Ten[m] * Ten[k]
      BY <2>2
    <3>2. Ten[m + (k + 1)] = 10 * (Ten[m] * Ten[k]) /\ Ten[k + 1] = 10 * Ten[k]
      BY <3>1, TenIs
    <3>3. ASSUME NEW a \in Nat, NEW b \in Nat PROVE 10 * (a * b) = a * (10 * b)
      OBVIOUS
    <3> HIDE DEF T
    <3>4. Ten[m + (k + 1)] = Ten[m] * Ten[k + 1]
      BY <1>1, <3>1, <3>2, <3>3
    <3> QED BY <3>1, <3>4 DEF T
  <2> HIDE DEF T
  <2>3. \A k \in Nat : k \in T
    BY <2>1, <2>2, NatSet
  <2> QED BY <2>3 DEF T
<1> QED BY <1>1, <1>2

\* What the characters of a text denote, one after the other.
DenotesUpTo(v, text) ==
  /\ v[0] = 0
  /\ \A n \in 1 .. Len(text) : v[n] = 10 * v[n - 1] + Digits[text[n]]

\* They lead to the number of the text.
LEMMA DenotesIs ==
  ASSUME NEW text, Len(text) \in Nat
  PROVE  \E v : DenotesUpTo(v, text) /\ Denotes(text) = v[Len(text)]
<1> DEFINE n == Len(text)
           Step(x, h) == 10 * x + Digits[text[h]]
           IsUpTo(f, m) == f = [h \in 0 .. m |-> IF h = 0 THEN 0 ELSE Step(f[h - 1], h)]
<1> HIDE DEF Step, n
<1>n. n \in Nat
  BY DEF n
<1>1. IsUpTo([h \in 0 .. 0 |-> 0], 0)
  OBVIOUS
<1>2. ASSUME NEW m \in Nat, NEW f, IsUpTo(f, m)
      PROVE  IsUpTo([h \in 0 .. m + 1 |-> IF h = m + 1 THEN Step(f[m], h) ELSE f[h]], m + 1)
  BY <1>2
<1>3. \E f : IsUpTo(f, n)
  <2> DEFINE T == {k \in Nat : \E f : IsUpTo(f, k)}
  <2> HIDE DEF IsUpTo
  <2>1. T \in SUBSET Nat /\ 0 \in T
    BY <1>1
  <2>2. ASSUME NEW k \in T PROVE k + 1 \in T
    <3>1. PICK f : IsUpTo(f, k)
      OBVIOUS
    <3> DEFINE g == [h \in 0 .. k + 1 |-> IF h = k + 1 THEN Step(f[k], h) ELSE f[h]]
    <3>2. IsUpTo(g, k + 1)
      BY <1>2, <3>1
    <3> HIDE DEF g
    <3> QED BY <3>2
  <2> HIDE DEF T
  <2>3. n \in T
    BY <1>n, <2>1, <2>2, NatSet
  <2> QED BY <2>3 DEF T
<1> DEFINE v == CHOOSE f : IsUpTo(f, n)
<1>4. IsUpTo(v, n)
  <2> HIDE DEF IsUpTo
  <2> QED BY <1>3
<1>5. Denotes(text) = v[n]
  BY DEF Denotes, Step, n
<1> HIDE DEF v
<1>6. v[0] = 0 /\ \A h \in 1 .. n : v[h] = Step(v[h - 1], h)
  BY <1>n, <1>4
<1> QED BY <1>5, <1>6 DEF Step, DenotesUpTo, n

\* What a digit denotes is a number.
LEMMA DigitsAre == \A c \in Digit : Digits[c] \in Nat
  BY DEF Digit, Digits

\* A run of digits denotes a number.
LEMMA DenotesNat ==
  ASSUME NEW text \in Seq(Digit)
  PROVE  Denotes(text) \in Nat
<1>n. Len(text) \in Nat /\ \A i \in 1 .. Len(text) : text[i] \in Digit
  BY ElementOfSeq, LenProperties
<1>1. PICK v : DenotesUpTo(v, text) /\ Denotes(text) = v[Len(text)]
  BY <1>n, DenotesIs
<1> DEFINE T == {k \in Nat : k <= Len(text) => v[k] \in Nat}
<1>2. T \in SUBSET Nat /\ 0 \in T
  BY <1>1 DEF DenotesUpTo
<1>3. ASSUME NEW k \in T PROVE k + 1 \in T
  <2>1. SUFFICES ASSUME k + 1 <= Len(text) PROVE v[k + 1] \in Nat
    OBVIOUS
  <2>2. k + 1 \in 1 .. Len(text) /\ k + 1 - 1 = k /\ v[k] \in Nat
    BY <1>n, <1>3, <2>1
  <2>3. v[k + 1] = 10 * v[k] + Digits[text[k + 1]] /\ Digits[text[k + 1]] \in Nat
    BY <1>n, <1>1, <2>2, DigitsAre DEF DenotesUpTo
  <2> QED BY <2>2, <2>3
<1>4. Len(text) \in T
  <2> HIDE DEF T
  <2> QED BY <1>n, <1>2, <1>3, NatSet
<1> QED BY <1>n, <1>1, <1>4

\* Two runs, one after the other, denote the first shifted by the length of the
\* second, and the second.
LEMMA DenotesConcat ==
  ASSUME NEW s \in Seq(Digit), NEW t \in Seq(Digit)
  PROVE  Denotes(s \o t) = Denotes(s) * Ten[Len(t)] + Denotes(t)
<1> DEFINE m == Len(s)
           n == Len(t)
           u == s \o t
<1>n. /\ m \in Nat /\ n \in Nat
      /\ u \in Seq(Digit) /\ Len(u) = m + n
      /\ \A i \in 1 .. m : u[i] = s[i]
      /\ \A i \in 1 .. n : u[m + i] = t[i]
      /\ \A i \in 1 .. m : s[i] \in Digit
      /\ \A i \in 1 .. n : t[i] \in Digit
  <2>1. m \in Nat /\ n \in Nat
    BY LenProperties
  <2>2. /\ u \in Seq(Digit) /\ Len(u) = m + n
        /\ \A i \in 1 .. m + n : u[i] = IF i <= m THEN s[i] ELSE t[i - m]
    BY ConcatProperties
  <2>3. ASSUME NEW i \in 1 .. n PROVE u[m + i] = t[i]
    <3> HIDE DEF m, n, u
    <3>1. i \in Nat /\ i >= 1 /\ i <= n
      BY <2>1
    <3>2. m + i \in 1 .. m + n /\ ~(m + i <= m) /\ m + i - m = i
      BY <2>1, <3>1
    <3> DEFINE p == m + i
    <3>3. p \in 1 .. m + n /\ ~(p <= m) /\ p - m = i
      BY <2>1, <3>1
    <3> HIDE DEF p
    <3>4. u[p] = t[p - m]
      BY <2>2, <3>3
    <3>5. u[p] = t[i]
      BY <3>3, <3>4
    <3> QED BY <3>5 DEF p
  <2>4. \A i \in 1 .. m : u[i] = s[i]
    <3>1. \A i \in 1 .. m : i \in 1 .. m + n /\ i <= m
      BY <2>1
    <3> HIDE DEF m, n, u
    <3> QED BY <2>2, <3>1
  <2>5. (\A i \in 1 .. m : s[i] \in Digit) /\ (\A i \in 1 .. n : t[i] \in Digit)
    BY ElementOfSeq
  <2> HIDE DEF m, n, u
  <2> QED BY <2>1, <2>2, <2>3, <2>4, <2>5
<1>1. PICK x : DenotesUpTo(x, s) /\ Denotes(s) = x[m]
  BY <1>n, DenotesIs
<1>2. PICK y : DenotesUpTo(y, t) /\ Denotes(t) = y[n]
  BY <1>n, DenotesIs
<1>3. PICK z : DenotesUpTo(z, u) /\ Denotes(u) = z[Len(u)]
  <2>1. Len(u) \in Nat
    BY <1>n
  <2> HIDE DEF u
  <2> QED BY <2>1, DenotesIs
<1> DEFINE X(k) == x[k] \in Nat /\ z[k] = x[k]
           V(k) == x[m] * Ten[k]
           Y(k) == y[k] \in Nat /\ z[m + k] = V(k) + y[k]
<1> HIDE DEF m, n, u
<1>4. ASSUME NEW k \in 0 .. m PROVE X(k)
  <2> DEFINE T == {j \in Nat : j <= m => X(j)}
  <2>1. T \in SUBSET Nat /\ 0 \in T
    BY <1>1, <1>3 DEF DenotesUpTo
  <2>2. ASSUME NEW j \in T PROVE j + 1 \in T
    <3>1. SUFFICES ASSUME j + 1 <= m PROVE X(j + 1)
      OBVIOUS
    <3>2. /\ j \in Nat /\ j + 1 \in 1 .. m /\ j + 1 \in 1 .. m + n /\ j + 1 - 1 = j
          /\ x[j] \in Nat /\ z[j] = x[j]
      BY <1>n, <2>2, <3>1
    <3>3. x[j + 1] = 10 * x[j] + Digits[s[j + 1]] /\ s[j + 1] \in Digit
      BY <1>1, <1>n, <3>2 DEF DenotesUpTo, m
    <3>4. z[j + 1] = 10 * z[j] + Digits[u[j + 1]] /\ u[j + 1] = s[j + 1]
      BY <1>3, <1>n, <3>2 DEF DenotesUpTo
    <3>5. Digits[s[j + 1]] \in Nat
      BY <3>3, DigitsAre
    <3>6. x[j + 1] \in Nat
      BY <3>2, <3>3, <3>5
    <3>7. z[j + 1] = x[j + 1]
      BY <3>2, <3>3, <3>4
    <3> QED BY <3>6, <3>7
  <2> HIDE DEF T
  <2>3. \A j \in Nat : j \in T
    BY <2>1, <2>2, NatSet
  <2> QED BY <2>3, <1>n DEF T
<1>5. /\ x[m] \in Nat /\ z[m] = x[m]
      /\ V(0) = x[m]
      /\ \A k \in Nat : V(k) \in Nat /\ V(k + 1) = 10 * V(k)
  <2>1. m \in 0 .. m
    BY <1>n
  <2>2. x[m] \in Nat /\ z[m] = x[m]
    BY <1>4, <2>1
  <2>3. V(0) = x[m]
    <3>1. \A a \in Nat : a * 1 = a
      OBVIOUS
    <3>2. Ten[0] = 1
      BY TenIs
    <3>3. x[m] * 1 = x[m]
      BY <2>2, <3>1
    <3> QED BY <3>2, <3>3
  <2>4. ASSUME NEW k \in Nat PROVE V(k) \in Nat /\ V(k + 1) = 10 * V(k)
    <3> DEFINE a == x[m]
               b == Ten[k]
    <3>1. a \in Nat /\ b \in Nat /\ Ten[k + 1] = 10 * b
      BY <2>2, TenIs, Tens
    <3> HIDE DEF a, b
    <3>2. a * b \in Nat /\ a * (10 * b) = 10 * (a * b)
      BY <3>1
    <3> QED BY <3>1, <3>2 DEF a, b
  <2> QED BY <2>2, <2>3, <2>4
<1> HIDE DEF V
<1>6. ASSUME NEW k \in 0 .. n PROVE Y(k)
  <2> DEFINE T == {j \in Nat : j <= n => Y(j)}
  <2>1. T \in SUBSET Nat /\ 0 \in T
    <3>1. y[0] = 0 /\ m + 0 = m
      BY <1>2, <1>n DEF DenotesUpTo
    <3>2. z[m + 0] = x[m] /\ x[m] = V(0) + y[0]
      <4>1. z[m + 0] = x[m]
        BY <1>5, <3>1
      <4>2. x[m] = V(0) + y[0]
        <5>1. \A a \in Nat : a = a + 0
          OBVIOUS
        <5>2. V(0) = V(0) + 0
          BY <1>5, <5>1
        <5> QED BY <1>5, <3>1, <5>2
      <4> QED BY <4>1, <4>2
    <3>3. Y(0)
      BY <1>5, <3>1, <3>2
    <3> HIDE DEF Y
    <3> QED BY <3>3
  <2>2. ASSUME NEW j \in T PROVE j + 1 \in T
    <3>1. SUFFICES ASSUME j + 1 <= n PROVE Y(j + 1)
      OBVIOUS
    <3>2. /\ j \in Nat /\ j + 1 \in 1 .. n /\ m + (j + 1) \in 1 .. m + n /\ j + 1 - 1 = j
          /\ m + (j + 1) - 1 = m + j
      BY <1>n, <3>1
    <3>3. Y(j)
      <4>1. j <= n
        BY <1>n, <3>1, <3>2
      <4> HIDE DEF Y
      <4> QED BY <2>2, <4>1
    <3>4. y[j + 1] = 10 * y[j] + Digits[t[j + 1]] /\ t[j + 1] \in Digit
      BY <1>2, <1>n, <3>2 DEF DenotesUpTo, n
    <3>5. z[m + (j + 1)] = 10 * z[m + j] + Digits[u[m + (j + 1)]] /\ u[m + (j + 1)] = t[j + 1]
      <4>1. z[m + (j + 1)] = 10 * z[m + j] + Digits[u[m + (j + 1)]]
        <5> DEFINE p == m + (j + 1)
        <5>1. p \in 1 .. Len(u) /\ p - 1 = m + j
          BY <1>n, <3>2
        <5> HIDE DEF p
        <5>2. z[p] = 10 * z[m + j] + Digits[u[p]]
          BY <1>3, <5>1 DEF DenotesUpTo
        <5> QED BY <5>2 DEF p
      <4>2. u[m + (j + 1)] = t[j + 1]
        BY <1>n, <3>2
      <4> QED BY <4>1, <4>2
    <3> DEFINE d == Digits[t[j + 1]]
               v == V(j)
    <3>6. d \in Nat /\ v \in Nat /\ V(j + 1) = 10 * v
      BY <1>5, <3>2, <3>4, DigitsAre
    <3>7. /\ y[j + 1] = 10 * y[j] + d
          /\ z[m + (j + 1)] = 10 * z[m + j] + d
          /\ y[j] \in Nat /\ z[m + j] = v + y[j]
      <4>1. y[j + 1] = 10 * y[j] + d
        BY <3>4
      <4>2. z[m + (j + 1)] = 10 * z[m + j] + d
        BY <3>5
      <4> QED BY <3>3, <4>1, <4>2
    <3> HIDE DEF d, v, T
    <3>8. y[j + 1] \in Nat /\ z[m + (j + 1)] = 10 * v + y[j + 1]
      BY <3>6, <3>7
    <3> QED BY <3>6, <3>8
  <2> HIDE DEF T
  <2>3. \A j \in Nat : j \in T
    BY <2>1, <2>2, NatSet
  <2> QED BY <2>3, <1>n DEF T
<1>7. z[m + n] = V(n) + y[n]
  <2>1. n \in 0 .. n
    BY <1>n
  <2> QED BY <1>6, <2>1
<1> QED BY <1>1, <1>2, <1>3, <1>7, <1>n DEF m, n, u, V

\* The first of some characters in a text.
LEMMA FoundAt ==
  ASSUME NEW S, NEW text \in Seq(S), NEW chars
  PROVE  LET at == Find(text, chars)
         IN  /\ at \in 0 .. Len(text)
             /\ at = 0 => \A i \in 1 .. Len(text) : text[i] \notin chars
             /\ at # 0 => text[at] \in chars /\ \A i \in 1 .. at - 1 : text[i] \notin chars
<1> DEFINE T == {i \in DOMAIN text : text[i] \in chars}
<1>1. Len(text) \in Nat /\ DOMAIN text = 1 .. Len(text)
  BY LenProperties
<1>2. Find(text, chars) = IF T = {} THEN 0 ELSE Min(T)
  BY DEF Find
<1>3. CASE T = {}
  BY <1>1, <1>2, <1>3
<1>4. CASE T # {}
  <2> DEFINE n == Len(text)
  <2>1. T \in SUBSET Nat
    BY <1>1
  <2>2. \E x \in T : \A y \in T : x <= y
    <3> HIDE DEF T
    <3> QED BY <1>4, <2>1, LeastOf
  <2> DEFINE at == CHOOSE x \in T : \A y \in T : x <= y
  <2>3. at \in T /\ \A y \in T : at <= y
    <3> HIDE DEF T
    <3> QED BY <2>2
  <2>4. Find(text, chars) = at
    <3> HIDE DEF T
    <3> QED BY <1>2, <1>4 DEF Min
  <2> HIDE DEF at, n
  <2>5. at \in 1 .. n /\ text[at] \in chars
    BY <1>1, <2>3 DEF n
  <2>6. ASSUME NEW i \in 1 .. at - 1 PROVE text[i] \notin chars
    <3>1. i \in 1 .. n /\ ~(at <= i) /\ n \in Nat
      BY <1>1, <2>5 DEF n
    <3>2. i \notin T
      BY <2>3, <3>1
    <3> QED BY <1>1, <3>1, <3>2 DEF n
  <2>7. n \in Nat
    BY <1>1 DEF n
  <2>8. at \in 0 .. n /\ at # 0
    BY <2>5, <2>7
  <2> HIDE DEF T
  <2> QED BY <2>4, <2>5, <2>6, <2>8 DEF n
<1> QED BY <1>3, <1>4

\* What stands before a place of a text, and what after it.
LEMMA SplitAt ==
  ASSUME NEW S, NEW text \in Seq(S), NEW at \in 0 .. Len(text)
  PROVE  /\ Before(text, at) \in Seq(S) /\ After(text, at) \in Seq(S)
         /\ at = 0 => Before(text, at) = text /\ After(text, at) = <<>>
         /\ at # 0 => /\ Len(Before(text, at)) = at - 1
                      /\ Len(After(text, at)) = Len(text) - at
                      /\ RemoveAt(text, at) = Before(text, at) \o After(text, at)
<1>1. Len(text) \in Nat /\ \A i \in 1 .. Len(text) : text[i] \in S
  BY LenProperties, ElementOfSeq
<1>2. CASE at = 0
  BY <1>2, EmptySeq DEF Before, After
<1>3. CASE at # 0
  <2> DEFINE n == Len(text)
             m == at - 1
             k == at + 1
  <2>1. Before(text, at) = SubSeq(text, 1, m) /\ After(text, at) = SubSeq(text, k, n)
    BY <1>3 DEF Before, After
  <2>2. m \in Int /\ n \in Int /\ k \in Int /\ 1 \in Int
    BY <1>1
  <2>3. (\A i \in 1 .. m : text[i] \in S) /\ (\A i \in k .. n : text[i] \in S)
    <3>1. (1 .. m) \subseteq 1 .. n /\ (k .. n) \subseteq 1 .. n
      BY <1>1
    <3> HIDE DEF m, k
    <3> QED BY <1>1, <3>1 DEF n
  <2>4. /\ m - 1 + 1 = at - 1 /\ n - k + 1 = n - at /\ (1 <= m \/ at - 1 = 0)
        /\ (k <= n \/ n - at = 0)
    BY <1>1, <1>3
  <2>5. RemoveAt(text, at) = SubSeq(text, 1, m) \o SubSeq(text, k, n)
    BY DEF RemoveAt
  <2> HIDE DEF m, n, k
  <2>6. SubSeq(text, 1, m) \in Seq(S) /\ Len(SubSeq(text, 1, m)) = at - 1
    BY <2>2, <2>3, <2>4, SubSeqProperties
  <2>7. SubSeq(text, k, n) \in Seq(S) /\ Len(SubSeq(text, k, n)) = n - at
    BY <2>2, <2>3, <2>4, SubSeqProperties
  <2> QED BY <1>3, <2>1, <2>5, <2>6, <2>7 DEF n
<1> QED BY <1>2, <1>3

\* A text of digits only is a run of digits.
LEMMA DigitRun ==
  ASSUME NEW S, NEW text \in Seq(S)
  PROVE  ToSet(text) \subseteq Digit <=> text \in Seq(Digit)
<1>1. Len(text) \in Nat /\ DOMAIN text = 1 .. Len(text) /\ text \in [1 .. Len(text) -> S]
  BY LenProperties
<1>2. ASSUME ToSet(text) \subseteq Digit PROVE text \in Seq(Digit)
  <2>1. \A i \in 1 .. Len(text) : text[i] \in Digit
    BY <1>1, <1>2 DEF ToSet
  <2>2. text \in [1 .. Len(text) -> Digit]
    BY <1>1, <2>1
  <2> QED BY <1>1, <2>2
<1>3. ASSUME text \in Seq(Digit) PROVE ToSet(text) \subseteq Digit
  <2>1. \A i \in 1 .. Len(text) : text[i] \in Digit
    BY <1>3, ElementOfSeq
  <2> QED BY <1>1, <2>1 DEF ToSet
<1> QED BY <1>2, <1>3

\* No digits denote 0.
LEMMA NothingDenotes == Denotes(<<>>) = 0
<1>1. Len(<<>>) = 0
  OBVIOUS
<1>2. \E v : DenotesUpTo(v, <<>>) /\ Denotes(<<>>) = v[Len(<<>>)]
  <2>1. Len(<<>>) \in Nat
    BY <1>1
  <2> QED BY <2>1, DenotesIs
<1> QED BY <1>1, <1>2 DEF DenotesUpTo

\* A run of digits is parsed if its number fits, and to that number.
LEMMA ParsedDigits ==
  ASSUME NEW S, NEW text \in Seq(S)
  PROVE  /\ ParseU64(text).ok <=> /\ text # <<>> /\ text \in Seq(Digit)
                                  /\ Denotes(text) <= MaxU64
         /\ ParseU64(text).ok => ParseU64(text).value = Denotes(text)
<1>1. CASE text # <<>> /\ text \in Seq(Digit)
  <2>1. ParseU64(text) = Fits(Denotes(text))
    BY <1>1, DigitRun DEF ParseU64
  <2> DEFINE d == Denotes(text)
  <2> HIDE DEF d
  <2>2. /\ Fits(d).ok <=> d <= MaxU64
        /\ Fits(d).ok => Fits(d).value = d
    BY DEF Fits, Err
  <2> QED BY <1>1, <2>1, <2>2 DEF d
<1>2. CASE ~(text # <<>> /\ text \in Seq(Digit))
  <2>1. ParseU64(text) = Err
    BY <1>2, DigitRun DEF ParseU64
  <2> QED BY <1>2, <2>1 DEF Err
<1> QED BY <1>1, <1>2

\* What a decimal with a whole part and a fraction is in satoshis.
LEMMA Satoshis ==
  ASSUME NEW whole \in Seq(Digit), NEW fraction \in Seq(Digit), Len(fraction) <= Decimals
  PROVE  LET sats == Denotes(whole \o fraction) * Ten[Decimals - Len(fraction)]
         IN  /\ sats \in Nat
             /\ sats = Denotes(whole) * Ten[Decimals]
                         + Denotes(fraction) * Ten[Decimals - Len(fraction)]
             /\ Denotes(whole) \in Nat /\ Denotes(whole) <= sats
             /\ Denotes(fraction) \in Nat /\ Denotes(fraction) <= sats
<1> DEFINE f == Len(fraction)
           k == Decimals - Len(fraction)
           a == Denotes(whole)
           b == Denotes(fraction)
           p == Ten[f]
           q == Ten[k]
           P == Ten[Decimals]
<1>1. f \in Nat /\ k \in Nat /\ Decimals = f + k
  BY AmountBounds, LenProperties
<1>2. a \in Nat /\ b \in Nat
  BY DenotesNat
<1>3. Denotes(whole \o fraction) = a * p + b
  BY DenotesConcat
<1> HIDE DEF f, k, a, b
<1>4. p \in Nat \ {0} /\ q \in Nat \ {0} /\ P = p * q /\ P \in Nat \ {0}
  <2>1. f + k \in Nat
    BY <1>1
  <2> QED BY <1>1, <2>1, Tens
<1> HIDE DEF p, q, P
<1>5. (a * p + b) * q = a * P + b * q
  <2>1. \A x, y, z, w \in Nat : (x * y + z) * w = x * (y * w) + z * w
    OBVIOUS
  <2> QED BY <1>2, <1>4, <2>1
<1>6. ASSUME NEW x \in Nat, NEW y \in Nat \ {0} PROVE x * y \in Nat /\ x <= x * y
  OBVIOUS
<1>7. a * P \in Nat /\ a <= a * P /\ b * q \in Nat /\ b <= b * q
  BY <1>2, <1>4, <1>6
<1>8. a <= a * P + b * q /\ b <= a * P + b * q /\ a * P + b * q \in Nat
  BY <1>2, <1>7
<1> QED BY <1>2, <1>3, <1>5, <1>8 DEF f, k, a, b, p, q, P

\* An exponent is an integer.
LEMMA ParsedExponent ==
  ASSUME NEW S, NEW text \in Seq(S), ParseI32(text).ok
  PROVE  ParseI32(text).value \in Int
<1> DEFINE signed == text # <<>> /\ Head(text) \in {"+", "-"}
           digits == IF signed THEN Tail(text) ELSE text
           able   == digits # <<>> /\ ToSet(digits) \subseteq Digit
           number == IF signed /\ Head(text) = "-" THEN -Denotes(digits) ELSE Denotes(digits)
<1>1. ParseI32(text) = IF able THEN [ok |-> TRUE, value |-> number] ELSE Err
  BY DEF ParseI32
<1>2. digits \in Seq(S)
  BY HeadTailProperties
<1> HIDE DEF digits, signed
<1>3. able
  <2> HIDE DEF able, number
  <2> QED BY <1>1 DEF Err
<1>4. Denotes(digits) \in Nat
  BY <1>2, <1>3, DigitRun, DenotesNat
<1>5. number \in Int
  BY <1>4
<1> HIDE DEF able, number
<1> QED BY <1>1, <1>3, <1>5

\* What parse_scientific_doge_decimal accepts.
LEMMA ScientificIs ==
  ASSUME NEW S, NEW mantissa \in Seq(S), NEW exponent \in Seq(S),
         ParseScientific(mantissa, exponent).ok
  PROVE  LET dot      == Find(mantissa, {"."})
             fraction == After(mantissa, dot)
             shift    == ParseI32(exponent).value - Len(fraction) + Decimals
         IN  /\ ParseI32(exponent).value \in Int /\ shift >= 0
             /\ ParseScientific(mantissa, exponent).value
                  = Denotes(Before(mantissa, dot) \o fraction) * Ten[shift]
<1> DEFINE dot      == Find(mantissa, {"."})
           fraction == After(mantissa, dot)
           digits   == Before(mantissa, dot) \o fraction
           base     == ParseU64(digits)
           e        == ParseI32(exponent)
           shift    == e.value - Len(fraction) + Decimals
           able     == e.ok /\ base.ok /\ shift \in 0 .. MaxPower
<1>1. digits \in Seq(S)
  <2>1. dot \in 0 .. Len(mantissa)
    BY FoundAt
  <2> HIDE DEF dot
  <2>2. Before(mantissa, dot) \in Seq(S) /\ After(mantissa, dot) \in Seq(S)
    BY <2>1, SplitAt
  <2> QED BY <2>2, ConcatProperties
<1>2. ParseScientific(mantissa, exponent)
        = IF able THEN Fits(base.value * Ten[shift]) ELSE Err
  BY DEF ParseScientific
<1>3. base.ok => base.value = Denotes(digits)
  <2> HIDE DEF digits
  <2> QED BY <1>1, ParsedDigits
<1> HIDE DEF base, e, shift, digits
<1>4. able
  BY <1>2 DEF Err
<1>e. ParseI32(exponent).value \in Int
  BY <1>4, ParsedExponent DEF e
<1>5. /\ Fits(base.value * Ten[shift]).ok
      /\ ParseScientific(mantissa, exponent).value = Fits(base.value * Ten[shift]).value
  BY <1>2, <1>4
<1> DEFINE sats == base.value * Ten[shift]
<1>6. Fits(sats).ok => Fits(sats).value = sats
  <2> HIDE DEF sats
  <2> QED BY DEF Fits, Err
<1>7. shift >= 0
  BY <1>4
<1>8. ParseScientific(mantissa, exponent).value = Denotes(digits) * Ten[shift]
  BY <1>3, <1>4, <1>5, <1>6
<1> QED BY <1>e, <1>7, <1>8 DEF digits, shift, e

\* What the rest of parse_doge_decimal accepts.
LEMMA PlainIs ==
  ASSUME NEW S, NEW text \in Seq(S)
  PROVE  LET dot      == Find(text, {"."})
             whole    == Before(text, dot)
             fraction == After(text, dot)
             sats     == Denotes(whole \o fraction) * Ten[Decimals - Len(fraction)]
         IN  /\ ParsePlain(text).ok <=> /\ whole # <<>>
                                        /\ whole \in Seq(Digit) /\ fraction \in Seq(Digit)
                                        /\ Len(fraction) <= Decimals /\ sats <= MaxU64
             /\ ParsePlain(text).ok => ParsePlain(text).value = sats
<1> DEFINE dot      == Find(text, {"."})
           whole    == Before(text, dot)
           fraction == After(text, dot)
           left     == ParseU64(whole)
           right    == ParseU64(fraction)
           part     == IF fraction = <<>> THEN Fits(0) ELSE right
           sats     == Denotes(whole \o fraction) * Ten[Decimals - Len(fraction)]
           sum      == left.value * Ten[Decimals] + part.value * Ten[Decimals - Len(fraction)]
           proper   == whole # <<>> /\ whole \in Seq(Digit) /\ fraction \in Seq(Digit)
                         /\ Len(fraction) <= Decimals
<1>1. whole \in Seq(S) /\ fraction \in Seq(S)
  <2>1. dot \in 0 .. Len(text)
    BY FoundAt
  <2> HIDE DEF dot
  <2> QED BY <2>1, SplitAt
<1>2. ParsePlain(text) = IF left.ok /\ part.ok /\ Len(fraction) <= Decimals
                           THEN Fits(sum) ELSE Err
  BY DEF ParsePlain
<1> HIDE DEF dot
<1> HIDE DEF whole, fraction
<1>3. /\ left.ok <=> whole # <<>> /\ whole \in Seq(Digit) /\ Denotes(whole) <= MaxU64
      /\ left.ok => left.value = Denotes(whole)
  BY <1>1, ParsedDigits
<1>4. /\ right.ok <=> fraction # <<>> /\ fraction \in Seq(Digit) /\ Denotes(fraction) <= MaxU64
      /\ right.ok => right.value = Denotes(fraction)
  BY <1>1, ParsedDigits
<1> HIDE DEF left, right
<1>5. /\ part.ok <=> fraction \in Seq(Digit) /\ Denotes(fraction) <= MaxU64
      /\ part.ok => part.value = Denotes(fraction)
  <2>1. CASE fraction = <<>>
    <3>1. Fits(0).ok = TRUE /\ Fits(0).value = 0 /\ 0 <= MaxU64
      BY AmountBounds DEF Fits
    <3>2. fraction \in Seq(Digit) /\ Denotes(fraction) = 0
      BY <2>1, NothingDenotes, EmptySeq
    <3> QED BY <2>1, <3>1, <3>2
  <2>2. CASE fraction # <<>>
    BY <1>4, <2>2
  <2> QED BY <2>1, <2>2
<1> HIDE DEF part
<1>6. CASE proper
  <2>1. /\ sats \in Nat
        /\ sats = Denotes(whole) * Ten[Decimals]
                    + Denotes(fraction) * Ten[Decimals - Len(fraction)]
        /\ Denotes(whole) \in Nat /\ Denotes(whole) <= sats
        /\ Denotes(fraction) \in Nat /\ Denotes(fraction) <= sats
    <3>1. whole \in Seq(Digit) /\ fraction \in Seq(Digit) /\ Len(fraction) <= Decimals
      BY <1>6
    <3> QED BY <3>1, Satoshis
  <2>2. CASE left.ok /\ part.ok
    <3>1. sum = sats
      BY <1>3, <1>5, <2>1, <2>2
    <3> HIDE DEF sum, sats
    <3>2. /\ Fits(sats).ok <=> sats <= MaxU64
          /\ Fits(sats).ok => Fits(sats).value = sats
      BY DEF Fits, Err
    <3>3. ParsePlain(text) = Fits(sats)
      BY <1>2, <1>6, <2>2, <3>1
    <3> QED BY <1>6, <3>2, <3>3 DEF sats, whole, fraction, dot
  <2>3. CASE ~(left.ok /\ part.ok)
    <3>1. ~(Denotes(whole) <= MaxU64) \/ ~(Denotes(fraction) <= MaxU64)
      BY <1>3, <1>5, <1>6, <2>3
    <3> DEFINE a == Denotes(whole)
               b == Denotes(fraction)
    <3>2. a \in Nat /\ b \in Nat /\ sats \in Nat /\ a <= sats /\ b <= sats
      BY <2>1
    <3>3. ~(a <= MaxU64) \/ ~(b <= MaxU64)
      BY <3>1
    <3> HIDE DEF a, b, sats
    <3>4. ~(sats <= MaxU64)
      BY <3>2, <3>3, AmountBounds
    <3>5. ParsePlain(text) = Err
      BY <1>2, <2>3
    <3>6. ~ ParsePlain(text).ok
      BY <3>5 DEF Err
    <3> QED BY <3>4, <3>6 DEF sats, whole, fraction, dot
  <2> QED BY <2>2, <2>3
<1>7. CASE ~proper
  <2>1. ParsePlain(text) = Err
    BY <1>2, <1>3, <1>5, <1>7
  <2>2. ~ ParsePlain(text).ok
    BY <2>1 DEF Err
  <2> QED BY <1>7, <2>2 DEF whole, fraction, dot
<1> QED BY <1>6, <1>7

\* The digits of a text are those before its point and those behind it.
LEMMA DigitsOf ==
  ASSUME NEW S, NEW text \in Seq(S)
  PROVE  LET mantissa == Mantissa(text)
             dot      == Find(mantissa, {"."})
         IN  /\ mantissa \in Seq(S)
             /\ Before(mantissa, dot) \in Seq(S) /\ After(mantissa, dot) \in Seq(S)
             /\ AllDigits(text) = Before(mantissa, dot) \o After(mantissa, dot)
             /\ Len(AllDigits(text)) - PointAt(text) = Len(After(mantissa, dot))
             /\ Len(After(mantissa, dot)) \in Nat
<1> DEFINE mantissa == Mantissa(text)
           dot      == Find(mantissa, {"."})
           whole    == Before(mantissa, dot)
           fraction == After(mantissa, dot)
<1>1. mantissa \in Seq(S)
  <2> DEFINE e == Find(text, {"e", "E"})
  <2>1. e \in 0 .. Len(text)
    BY FoundAt
  <2> HIDE DEF e
  <2>2. Before(text, e) \in Seq(S)
    BY <2>1, SplitAt
  <2> QED BY <2>2 DEF Mantissa, e
<1> HIDE DEF mantissa
<1>2. dot \in 0 .. Len(mantissa)
  BY <1>1, FoundAt
<1>3. /\ AllDigits(text) = IF dot = 0 THEN mantissa ELSE RemoveAt(mantissa, dot)
      /\ PointAt(text) = IF dot = 0 THEN Len(mantissa) ELSE dot - 1
  BY DEF AllDigits, PointAt, mantissa
<1> HIDE DEF dot
<1>4. /\ whole \in Seq(S) /\ fraction \in Seq(S)
      /\ dot = 0 => whole = mantissa /\ fraction = <<>>
      /\ dot # 0 => /\ Len(whole) = dot - 1
                    /\ RemoveAt(mantissa, dot) = whole \o fraction
  BY <1>1, <1>2, SplitAt
<1> HIDE DEF whole, fraction
<1>5. AllDigits(text) = whole \o fraction
  <2>1. dot = 0 => whole \o fraction = mantissa
    BY <1>1, <1>4, ConcatEmptySeq
  <2> QED BY <1>3, <1>4, <2>1
<1>6. PointAt(text) = Len(whole)
  BY <1>3, <1>4
<1>7. Len(whole) \in Nat /\ Len(fraction) \in Nat
      /\ Len(whole \o fraction) = Len(whole) + Len(fraction)
  BY <1>4, LenProperties, ConcatProperties
<1>8. Len(AllDigits(text)) - PointAt(text) = Len(fraction)
  BY <1>5, <1>6, <1>7
<1> QED BY <1>1, <1>4, <1>5, <1>7, <1>8 DEF mantissa, dot, whole, fraction

\* AmountExact of one text.
LEMMA AmountOf ==
  ASSUME NEW S, NEW text \in Seq(S)
  PROVE  LET result == ParseAmount(text)
             shift  == Decimals + Exponent(text) - (Len(AllDigits(text)) - PointAt(text))
             sats   == Denotes(AllDigits(text)) * Ten[shift]
         IN  /\ result.ok => shift >= 0 /\ result.value = sats
             /\ Plain(text) => (result.ok <=> shift >= 0 /\ sats <= MaxU64)
<1> DEFINE result   == ParseAmount(text)
           e        == Find(text, {"e", "E"})
           mantissa == Mantissa(text)
           dot      == Find(mantissa, {"."})
           whole    == Before(mantissa, dot)
           fraction == After(mantissa, dot)
           shift    == Decimals + Exponent(text) - (Len(AllDigits(text)) - PointAt(text))
           sats     == Denotes(AllDigits(text)) * Ten[shift]
           refused  == text = <<>> \/ Head(text) = "-"
<1>1. /\ mantissa \in Seq(S) /\ whole \in Seq(S) /\ fraction \in Seq(S)
      /\ AllDigits(text) = whole \o fraction
      /\ Len(AllDigits(text)) - PointAt(text) = Len(fraction)
      /\ Len(fraction) \in Nat
  BY DigitsOf
<1>2. mantissa = Before(text, e)
  BY DEF Mantissa
<1>3. Exponent(text) = IF e = 0 THEN 0 ELSE ParseI32(After(text, e)).value
  BY DEF Exponent
<1>4. result = IF refused THEN Err
               ELSE IF e # 0 THEN ParseScientific(mantissa, After(text, e))
               ELSE ParsePlain(text)
  BY <1>2 DEF ParseAmount
<1>5. Plain(text) => ~ refused /\ e = 0 /\ whole # <<>>
                       /\ whole \in Seq(Digit) /\ fraction \in Seq(Digit)
  <2>1. SUFFICES ASSUME Plain(text)
                 PROVE  ~ refused /\ e = 0 /\ whole # <<>>
                          /\ whole \in Seq(Digit) /\ fraction \in Seq(Digit)
    OBVIOUS
  <2>2. "-" \notin Digit /\ "." \notin Digit /\ "e" \notin Digit /\ "E" \notin Digit
    BY DEF Digit, Digits
  <2>3. /\ text # <<>> /\ Head(text) \in Digit
        /\ ToSet(text) \subseteq Digit \cup {"."}
        /\ ToSet(AllDigits(text)) \subseteq Digit
    BY <2>1 DEF Plain
  <2>4. ~ refused
    BY <2>2, <2>3
  <2>5. Len(text) \in Nat \ {0} /\ DOMAIN text = 1 .. Len(text)
    BY <2>3, LenProperties, EmptySeq
  <2>6. e = 0
    <3>1. /\ e \in 0 .. Len(text)
          /\ e # 0 => text[e] \in {"e", "E"}
      BY FoundAt
    <3> HIDE DEF e
    <3>2. e # 0 => text[e] \in ToSet(text)
      BY <2>5, <3>1 DEF ToSet
    <3>3. e # 0 => text[e] \in Digit \cup {"."}
      BY <2>3, <3>2
    <3> QED BY <2>2, <3>1, <3>3
  <2>7. mantissa = text
    <3> HIDE DEF mantissa
    <3> QED BY <1>2, <2>6 DEF Before
  <2>8. whole # <<>>
    <3>1. /\ dot \in 0 .. Len(text)
          /\ dot # 0 => text[dot] \in {"."}
      <4> HIDE DEF mantissa
      <4> QED BY <2>7, FoundAt
    <3> HIDE DEF dot, mantissa
    <3>2. CASE dot = 0
      BY <2>3, <2>7, <3>2 DEF Before
    <3>3. CASE dot # 0
      <4>1. Head(text) = text[1]
        OBVIOUS
      <4>2. dot # 1
        BY <2>2, <2>3, <3>1, <3>3, <4>1
      <4>3. Len(whole) = dot - 1
        BY <2>7, <3>1, <3>3, SplitAt
      <4>4. Len(whole) # 0
        BY <2>5, <3>1, <3>3, <4>2, <4>3
      <4>5. Len(<<>>) = 0
        BY EmptySeq
      <4> QED BY <4>4, <4>5
    <3> QED BY <3>2, <3>3
  <2>9. whole \in Seq(Digit) /\ fraction \in Seq(Digit)
    <3> HIDE DEF whole, fraction
    <3>1. whole \o fraction \in Seq(Digit)
      <4>1. whole \o fraction \in Seq(S)
        BY <1>1, ConcatProperties
      <4> QED BY <1>1, <2>3, <4>1, DigitRun
    <3> DEFINE m == Len(whole)
               n == Len(fraction)
               u == whole \o fraction
    <3>2. /\ m \in Nat /\ n \in Nat
          /\ whole \in [1 .. m -> S] /\ fraction \in [1 .. n -> S]
      BY <1>1, LenProperties
    <3>3. /\ Len(u) = m + n
          /\ \A i \in 1 .. m + n : u[i] = IF i <= m THEN whole[i] ELSE fraction[i - m]
      BY <1>1, ConcatProperties
    <3>4. \A i \in 1 .. m + n : u[i] \in Digit
      <4>1. \A i \in 1 .. Len(u) : u[i] \in Digit
        BY <3>1, ElementOfSeq
      <4> HIDE DEF u
      <4> QED BY <3>3, <4>1
    <3> HIDE DEF m, n, u
    <3>5. ASSUME NEW i \in 1 .. m PROVE whole[i] \in Digit
      <4>1. i \in 1 .. m + n /\ i <= m
        BY <3>2
      <4> QED BY <3>3, <3>4, <4>1
    <3>6. ASSUME NEW i \in 1 .. n PROVE fraction[i] \in Digit
      <4> DEFINE p == m + i
      <4>1. p \in 1 .. m + n /\ ~(p <= m) /\ p - m = i
        BY <3>2
      <4> HIDE DEF p
      <4>2. u[p] = fraction[p - m] /\ u[p] \in Digit
        BY <3>3, <3>4, <4>1
      <4> QED BY <4>1, <4>2
    <3>7. whole \in [1 .. m -> Digit] /\ fraction \in [1 .. n -> Digit]
      BY <3>2, <3>5, <3>6
    <3> QED BY <3>2, <3>7
  <2> HIDE DEF refused, e, whole, fraction
  <2> QED BY <2>4, <2>6, <2>8, <2>9
<1>6. CASE refused
  <2>1. result = Err
    BY <1>4, <1>6
  <2>2. ~ result.ok
    BY <2>1 DEF Err
  <2> HIDE DEF result, refused
  <2> QED BY <1>5, <1>6, <2>2 DEF result, refused
<1>7. CASE ~ refused /\ e # 0
  <2> DEFINE exponent == After(text, e)
             read     == ParseScientific(mantissa, exponent)
             shifted  == ParseI32(exponent).value - Len(fraction) + Decimals
  <2>1. result = read
    BY <1>4, <1>7
  <2>2. exponent \in Seq(S)
    <3>1. e \in 0 .. Len(text)
      BY FoundAt
    <3> HIDE DEF e
    <3> QED BY <3>1, SplitAt
  <2>3. read.ok => /\ ParseI32(exponent).value \in Int /\ shifted >= 0
                   /\ read.value = Denotes(whole \o fraction) * Ten[shifted]
    <3> HIDE DEF mantissa, exponent
    <3> QED BY <1>1, <2>2, ScientificIs
  <2>4. read.ok => shift = shifted
    <3> DEFINE f == Len(fraction)
               d == Len(AllDigits(text)) - PointAt(text)
               x == ParseI32(exponent).value
    <3>1. Exponent(text) = x
      BY <1>3, <1>7
    <3>2. f \in Nat /\ d = f /\ (read.ok => x \in Int)
      BY <1>1, <2>3
    <3> HIDE DEF f, d, x, read
    <3>3. read.ok => Decimals + x - d = x - f + Decimals
      BY <3>2, AmountBounds
    <3> QED BY <3>1, <3>3 DEF f, d, x
  <2>5. ~ Plain(text)
    BY <1>5, <1>7
  <2> HIDE DEF shifted, read
  <2>6. result.ok => shift >= 0 /\ result.value = sats
    BY <1>1, <2>1, <2>3, <2>4
  <2> QED BY <2>5, <2>6
<1>8. CASE ~ refused /\ e = 0
  <2> DEFINE left == Decimals - Len(fraction)
  <2>1. result = ParsePlain(text) /\ mantissa = text
    BY <1>2, <1>4, <1>8 DEF Before
  <2>2. shift = left /\ left \in Int
    <3>1. Exponent(text) = 0
      BY <1>3, <1>8
    <3> DEFINE f == Len(fraction)
               d == Len(AllDigits(text)) - PointAt(text)
    <3>2. f \in Nat /\ d = f
      BY <1>1
    <3> HIDE DEF f, d
    <3>3. Decimals + 0 - d = Decimals - f /\ Decimals - f \in Int
      BY <3>2, AmountBounds
    <3> QED BY <3>1, <3>3 DEF f, d
  <2>3. /\ ParsePlain(mantissa).ok
             <=> /\ whole # <<>> /\ whole \in Seq(Digit) /\ fraction \in Seq(Digit)
                 /\ Len(fraction) <= Decimals
                 /\ Denotes(whole \o fraction) * Ten[left] <= MaxU64
        /\ ParsePlain(mantissa).ok
             => ParsePlain(mantissa).value = Denotes(whole \o fraction) * Ten[left]
    <3> HIDE DEF mantissa
    <3> QED BY <1>1, PlainIs
  <2>4. sats = Denotes(whole \o fraction) * Ten[left]
    BY <1>1, <2>2
  <2>5. Len(fraction) <= Decimals <=> left >= 0
    BY <1>1, AmountBounds
  <2> HIDE DEF result, sats, shift, left, whole, fraction
  <2>6. result.ok => shift >= 0 /\ result.value = sats
    BY <2>1, <2>2, <2>3, <2>4, <2>5
  <2>7. Plain(text) => (result.ok <=> shift >= 0 /\ sats <= MaxU64)
    BY <1>5, <2>1, <2>2, <2>3, <2>4, <2>5
  <2> QED BY <2>6, <2>7 DEF result, sats, shift
<1> QED BY <1>6, <1>7, <1>8

\* An amount that is accepted is exactly the one written, and every plain
\* decimal of a u64 of satoshis is accepted, none with a smaller part: for every
\* text, number of decimals and size of a u64.
THEOREM AmountExactHolds == Spec => []AmountExact
<1>1. Init => AmountExact
  BY DEF Init, AmountExact
<1>2. AmountExact /\ [Next]_vars => AmountExact'
  <2> SUFFICES ASSUME AmountExact, [Next]_vars PROVE AmountExact'
    OBVIOUS
  <2>1. CASE CallParseAmount
    <3>1. PICK n \in 0 .. MaxText : \E text \in [1 .. n -> Alphabet] :
            Call([fn |-> "amount", text |-> text, result |-> ParseAmount(text)])
      BY <2>1 DEF CallParseAmount
    <3>2. PICK text \in [1 .. n -> Alphabet] :
            Call([fn |-> "amount", text |-> text, result |-> ParseAmount(text)])
      BY <3>1
    <3>3. n \in Nat /\ text \in Seq(Alphabet)
      BY BoundsNat
    <3>4. call'.text = text /\ call'.result = ParseAmount(text)
      BY <3>2 DEF Call
    <3> DEFINE result == ParseAmount(text)
               shift  == Decimals + Exponent(text) - (Len(AllDigits(text)) - PointAt(text))
               sats   == Denotes(AllDigits(text)) * Ten[shift]
    <3>5. /\ result.ok => shift >= 0 /\ result.value = sats
          /\ Plain(text) => (result.ok <=> shift >= 0 /\ sats <= MaxU64)
      BY <3>3, AmountOf
    <3> QED BY <3>4, <3>5 DEF AmountExact
  <2>2. CASE CallValidateDecoded
    BY <2>2 DEF CallValidateDecoded, Call, AmountExact
  <2>3. CASE CallRestore
    BY <2>3 DEF CallRestore, Call, AmountExact
  <2>4. CASE CallMembership
    BY <2>4 DEF CallMembership, Call, AmountExact
  <2>5. CASE CallBranch
    BY <2>5 DEF CallBranch, Call, AmountExact
  <2>6. CASE CallSpentProofs
    BY <2>6 DEF CallSpentProofs, AmountExact
  <2>7. CASE NextPayment
    BY <2>7 DEF NextPayment, AmountExact
  <2>8. CASE UNCHANGED vars
    BY <2>8 DEF vars, AmountExact
  <2> QED BY <2>1, <2>2, <2>3, <2>4, <2>5, <2>6, <2>7, <2>8 DEF Next
<1> QED BY <1>1, <1>2, PTL DEF Spec

-----------------------------------------------------------------------------
(* Decoded transactions. *)

\* Two sequences with each element as often are a permutation of each other,
\* and the other way round.
LEMMA SameIsPermutation ==
  ASSUME NEW S, NEW s \in Seq(S), NEW t \in Seq(S)
  PROVE  SameInputs(s, t) <=> IsPermutation(s, t)
<1> DEFINE A(x) == {i \in DOMAIN s : s[i] = x}
           B(x) == {i \in DOMAIN t : t[i] = x}
<1>1. /\ Len(s) \in Nat /\ DOMAIN s = 1 .. Len(s)
      /\ Len(t) \in Nat /\ DOMAIN t = 1 .. Len(t)
  BY LenProperties
<1>2. /\ IsFiniteSet(DOMAIN s) /\ Cardinality(DOMAIN s) = Len(s)
      /\ IsFiniteSet(DOMAIN t) /\ Cardinality(DOMAIN t) = Len(t)
  <2>1. ASSUME NEW n \in Nat PROVE IsFiniteSet(1 .. n) /\ Cardinality(1 .. n) = n
    <3>1. IsFiniteSet(1 .. n) /\ Cardinality(1 .. n) = IF 1 > n THEN 0 ELSE n - 1 + 1
      BY FS_Interval
    <3> QED BY <3>1
  <2> QED BY <1>1, <2>1
<1>3. ASSUME NEW x PROVE IsFiniteSet(A(x)) /\ IsFiniteSet(B(x))
  BY <1>2, FS_Subset
<1>4. ASSUME SameInputs(s, t) PROVE IsPermutation(s, t)
  <2> DEFINE g(x) == CHOOSE h : h \in Bijection(A(x), B(x))
             f    == [i \in DOMAIN s |-> g(s[i])[i]]
  <2>1. Len(s) = Len(t) /\ \A i \in DOMAIN s : Times(s, s[i]) = Times(t, s[i])
    BY <1>4 DEF SameInputs, ToSet
  <2>2. ASSUME NEW i \in DOMAIN s PROVE g(s[i]) \in Bijection(A(s[i]), B(s[i]))
    <3> DEFINE x == s[i]
    <3>1. Cardinality(A(x)) = Cardinality(B(x))
      BY <2>1 DEF Times
    <3>2. IsFiniteSet(A(x)) /\ IsFiniteSet(B(x))
      BY <1>3
    <3> HIDE DEF x, A, B
    <3>3. ExistsBijection(A(x), B(x))
      BY <3>1, <3>2, FS_SameCardinalityBij
    <3>4. \E h : h \in Bijection(A(x), B(x))
      BY <3>3 DEF ExistsBijection
    <3>5. g(x) \in Bijection(A(x), B(x))
      BY <3>4
    <3> QED BY <3>5 DEF x
  <2> HIDE DEF g
  <2>3. ASSUME NEW i \in DOMAIN s PROVE f[i] \in DOMAIN t /\ t[f[i]] = s[i]
    <3>1. i \in A(s[i])
      OBVIOUS
    <3>2. g(s[i]) \in [A(s[i]) -> B(s[i])]
      BY <2>2 DEF Bijection, Injection
    <3>3. f[i] \in B(s[i])
      BY <3>1, <3>2
    <3> HIDE DEF f
    <3> QED BY <3>3
  <2>4. ASSUME NEW i \in DOMAIN s, NEW j \in DOMAIN s, f[i] = f[j] PROVE i = j
    <3>1. s[i] = s[j]
      <4> HIDE DEF f
      <4> QED BY <2>3, <2>4
    <3>2. i \in A(s[i]) /\ j \in A(s[i])
      BY <3>1
    <3>3. IsInjective(g(s[i])) /\ DOMAIN g(s[i]) = A(s[i])
      BY <2>2 DEF Bijection, Injection
    <3>4. g(s[i])[i] = g(s[i])[j]
      BY <2>4, <3>1
    <3> HIDE DEF A
    <3> QED BY <3>2, <3>3, <3>4 DEF IsInjective
  <2>5. f \in [DOMAIN s -> DOMAIN t]
    <3>1. f = [i \in DOMAIN s |-> f[i]]
      OBVIOUS
    <3> HIDE DEF f
    <3> QED BY <2>3, <3>1
  <2>6. f \in Injection(DOMAIN s, DOMAIN t)
    <3> HIDE DEF f
    <3> QED BY <2>4, <2>5 DEF Injection, IsInjective
  <2> HIDE DEF f
  <2> QED BY <2>1, <2>3, <2>6 DEF IsPermutation
<1>5. ASSUME IsPermutation(s, t) PROVE SameInputs(s, t)
  <2>1. PICK f \in Injection(DOMAIN s, DOMAIN t) :
          Len(s) = Len(t) /\ \A i \in DOMAIN s : s[i] = t[f[i]]
    BY <1>5 DEF IsPermutation
  <2>2. f \in Surjection(DOMAIN s, DOMAIN t)
    BY <1>2, <2>1, FS_Injection
  <2>3. ASSUME NEW x PROVE Times(s, x) = Times(t, x)
    <3> DEFINE h == [i \in A(x) |-> f[i]]
    <3>1. ASSUME NEW i \in A(x) PROVE h[i] \in B(x)
      BY <2>1 DEF Injection
    <3>2. h \in [A(x) -> B(x)]
      BY <3>1
    <3>3. IsInjective(h)
      BY <2>1 DEF Injection, IsInjective
    <3>4. ASSUME NEW j \in B(x) PROVE \E i \in A(x) : h[i] = j
      <4>1. PICK i \in DOMAIN s : f[i] = j
        BY <2>2 DEF Surjection
      <4>2. i \in A(x)
        BY <2>1, <4>1
      <4> QED BY <4>1, <4>2
    <3>5. h \in Bijection(A(x), B(x))
      <4> HIDE DEF h, A, B
      <4> QED BY <3>2, <3>3, <3>4 DEF Bijection, Injection, Surjection
    <3>6. Cardinality(B(x)) = Cardinality(A(x))
      <4>1. IsFiniteSet(A(x)) /\ ExistsBijection(A(x), B(x))
        BY <1>3, <3>5 DEF ExistsBijection
      <4> HIDE DEF A, B
      <4> QED BY <4>1, FS_Bijection
    <3> QED BY <3>6 DEF Times
  <2> QED BY <2>1, <2>3 DEF SameInputs
<1> QED BY <1>4, <1>5

\* An output as CallValidateDecoded shows it.
Shapes == [n : Int, addresses : SUBSET {"recipient", "change", "other"}, sats : Nat]

\* A set of one element has that element and no other.
LEMMA TheOne ==
  ASSUME NEW T, IsFiniteSet(T), Cardinality(T) = 1
  PROVE  \E x : T = {x}
BY FS_Singleton

\* Outputs that are accepted are those of the plan, or one that lists both
\* addresses stands for both.
LEMMA AcceptedIsPlanned ==
  ASSUME NEW S, NEW outputs \in Seq(S),
         NEW inputs, NEW wanted, NEW recipient, NEW changeAddress, NEW plan, NEW selected,
         ValidateDecoded(inputs, outputs, wanted, recipient, changeAddress, plan, selected)
  PROVE  /\ SameInputs(inputs, wanted)
         /\ Len(outputs) = IF plan.change = 0 THEN 1 ELSE 2
         /\ plan.change # 0 => changeAddress \notin {"", recipient}
         /\ \E i \in DOMAIN outputs :
              /\ Pays(outputs[i], recipient, plan.recipient)
              /\ \/ \A j \in DOMAIN outputs \ {i} : Pays(outputs[j], changeAddress, plan.change)
                 \/ plan.change # 0 /\ Pays(outputs[i], changeAddress, plan.change)
<1> DEFINE P == {i \in DOMAIN outputs : Pays(outputs[i], recipient, plan.recipient)}
           C == {i \in DOMAIN outputs : Pays(outputs[i], changeAddress, plan.change)}
<1>1. DOMAIN outputs = 1 .. Len(outputs) /\ Len(outputs) \in Nat
  BY LenProperties
<1>2. /\ SameInputs(inputs, wanted)
      /\ Len(outputs) = IF plan.change = 0 THEN 1 ELSE 2
      /\ plan.change # 0 => changeAddress \notin {"", recipient}
      /\ Cardinality(P) = 1
      /\ plan.change # 0 => Cardinality(C) = 1
  BY DEF ValidateDecoded
<1>3. IsFiniteSet(P) /\ IsFiniteSet(C)
  <2>1. IsFiniteSet(1 .. Len(outputs))
    BY <1>1, FS_Interval
  <2> QED BY <1>1, <2>1, FS_Subset
<1>4. PICK i : P = {i}
  <2> HIDE DEF P
  <2> QED BY <1>2, <1>3, TheOne
<1>5. i \in DOMAIN outputs /\ Pays(outputs[i], recipient, plan.recipient)
  BY <1>4
<1>6. CASE plan.change = 0
  <2>1. DOMAIN outputs \ {i} = {}
    BY <1>1, <1>2, <1>5, <1>6
  <2> QED BY <1>2, <1>5, <2>1
<1>7. CASE plan.change # 0
  <2>1. PICK k : C = {k}
    <3> HIDE DEF C
    <3> QED BY <1>2, <1>3, <1>7, TheOne
  <2>2. k \in DOMAIN outputs /\ Pays(outputs[k], changeAddress, plan.change)
    BY <2>1
  <2>3. k # i => DOMAIN outputs \ {i} = {k}
    <3>0. 1 .. 2 = {1, 2}
      OBVIOUS
    <3>1. DOMAIN outputs = {1, 2}
      BY <1>1, <1>2, <1>7, <3>0
    <3>2. i \in {1, 2} /\ k \in {1, 2}
      BY <1>5, <2>2, <3>1
    <3> QED BY <3>1, <3>2
  <2> HIDE DEF P, C
  <2> QED BY <1>2, <1>5, <1>7, <2>2, <2>3
<1> QED BY <1>6, <1>7

\* What one or two outputs add up to.
LEMMA TotalIs ==
  ASSUME NEW S, NEW outputs \in Seq(S), Len(outputs) \in {1, 2},
         \A i \in DOMAIN outputs : outputs[i].sats \in Nat
  PROVE  FoldLeft(LAMBDA n, o : n + o.sats, 0, outputs)
           = IF Len(outputs) = 1 THEN outputs[1].sats ELSE outputs[1].sats + outputs[2].sats
<1> DEFINE D == DOMAIN outputs
           a(i) == outputs[i].sats
           R(f) == f = [t \in SUBSET D |-> IF t = {} THEN 0
                          ELSE LET x == Max(t) IN f[t \ {x}] + outputs[x].sats]
           g == [t \in SUBSET D |-> (IF 1 \in t THEN a(1) ELSE 0) + (IF 2 \in t THEN a(2) ELSE 0)]
<1>1. D = (IF Len(outputs) = 1 THEN {1} ELSE {1, 2}) /\ \A i \in D : a(i) \in Nat
  <2>1. D = 1 .. Len(outputs)
    BY LenProperties
  <2>2. 1 .. 1 = {1} /\ 1 .. 2 = {1, 2}
    OBVIOUS
  <2>3. \A i \in D : a(i) \in Nat
    OBVIOUS
  <2> HIDE DEF D
  <2> QED BY <2>1, <2>2, <2>3
<1>2. FoldLeft(LAMBDA n, o : n + o.sats, 0, outputs) = (CHOOSE f : R(f))[D]
  BY DEF FoldLeft, MapThenFoldSet
<1> HIDE DEF D
<1>3. /\ Max({1}) = 1 /\ Max({2}) = 2 /\ Max({1, 2}) = 2
  BY DEF Max
<1>4. \A t \in SUBSET D : t \in {{}, {1}, {2}, {1, 2}}
  BY <1>1
<1>5. R(g)
  <2>1. ASSUME NEW t \in SUBSET D
        PROVE  g[t] = IF t = {} THEN 0 ELSE LET x == Max(t) IN g[t \ {x}] + outputs[x].sats
    <3>1. CASE t = {}
      BY <3>1
    <3>2. CASE t = {1}
      BY <1>1, <1>3, <3>2
    <3>3. CASE t = {2}
      BY <1>1, <1>3, <3>3
    <3>4. CASE t = {1, 2}
      <4>1. {1, 2} \ {2} = {1} /\ {1} \in SUBSET D
        BY <3>4
      <4> QED BY <1>1, <1>3, <3>4, <4>1
    <3> QED BY <1>4, <3>1, <3>2, <3>3, <3>4
  <2>2. g = [t \in SUBSET D |-> g[t]]
    OBVIOUS
  <2> HIDE DEF g
  <2> QED BY <2>1, <2>2
<1> DEFINE f == CHOOSE f : R(f)
<1>6. R(f)
  <2> HIDE DEF R, g
  <2> QED BY <1>5
<1> HIDE DEF f, g
<1>7. f[{}] = 0
  BY <1>6
<1>8. ASSUME NEW x \in {1, 2}, {x} \subseteq D PROVE f[{x}] = a(x)
  <2>1. Max({x}) = x /\ {x} \ {x} = {} /\ a(x) \in Nat
    BY <1>1, <1>3, <1>8
  <2>2. f[{x}] = f[{}] + a(x)
    BY <1>6, <1>8, <2>1
  <2> QED BY <1>7, <2>1, <2>2
<1>9. CASE Len(outputs) = 1
  BY <1>1, <1>2, <1>8, <1>9 DEF f
<1>10. CASE Len(outputs) # 1
  <2>1. D = {1, 2} /\ {1} \subseteq D /\ {1, 2} \ {2} = {1}
    BY <1>1, <1>10
  <2>2. f[{1, 2}] = f[{1}] + a(2)
    BY <1>3, <1>6, <2>1
  <2>3. f[{1}] = a(1)
    BY <1>8, <2>1
  <2> QED BY <1>2, <1>10, <2>1, <2>2, <2>3 DEF f
<1> QED BY <1>9, <1>10

\* Outputs of a plan, each with its address alone: to the recipient the one at
\* a place, the change in the other one.
AsPlanned(outputs, i, recipient, changeAddress, plan) ==
  LET alone(j, address, sats) == outputs[j].addresses = {address} /\ outputs[j].sats = sats
  IN  /\ Len(outputs) = IF plan.change = 0 THEN 1 ELSE 2
      /\ plan.change = 0 \/ changeAddress \notin {"", recipient}
      /\ alone(i, recipient, plan.recipient)
      /\ \A j \in DOMAIN outputs \ {i} : alone(j, changeAddress, plan.change)

\* They are accepted, and the change is found.
LEMMA PlannedIsAccepted ==
  ASSUME NEW outputs \in Seq(Shapes), NEW inputs, NEW wanted, SameInputs(inputs, wanted),
         NEW recipient, NEW changeAddress,
         NEW selected \in 0 .. MaxU64, NEW pay \in Nat, NEW fee \in Nat, NEW dust \in Nat,
         NEW plan, plan = PlanCustody(selected, pay, fee, dust), plan.ok,
         NEW i \in DOMAIN outputs, AsPlanned(outputs, i, recipient, changeAddress, plan)
  PROVE  /\ ValidateDecoded(inputs, outputs, wanted, recipient, changeAddress, plan, selected)
         /\ plan.change # 0 => /\ ExtractVout(outputs, changeAddress).ok
                               /\ ExtractVout(outputs, changeAddress).sats = plan.change
<1> DEFINE alone(j, address, sats) == outputs[j].addresses = {address} /\ outputs[j].sats = sats
           total == FoldLeft(LAMBDA n, o : n + o.sats, 0, outputs)
           matches(address, sats) == {j \in DOMAIN outputs : Pays(outputs[j], address, sats)}
<1>1. /\ Len(outputs) = IF plan.change = 0 THEN 1 ELSE 2
      /\ plan.change = 0 \/ changeAddress \notin {"", recipient}
      /\ alone(i, recipient, plan.recipient)
      /\ \A j \in DOMAIN outputs \ {i} : alone(j, changeAddress, plan.change)
  BY DEF AsPlanned
<1>2. /\ plan.recipient = pay /\ plan.fee = fee /\ plan.change = selected - (pay + fee)
      /\ plan.change >= 0
  BY DEF PlanCustody, Err
<1>3. /\ plan.recipient \in Nat /\ plan.change \in Nat /\ plan.fee \in Nat
      /\ plan.recipient + plan.change + plan.fee = selected
      /\ selected \in Nat /\ selected <= MaxU64 /\ MaxU64 \in Nat
  BY <1>2, AmountBounds
<1>4. DOMAIN outputs = IF plan.change = 0 THEN {1} ELSE {1, 2}
  <2>1. DOMAIN outputs = 1 .. Len(outputs)
    BY LenProperties
  <2>2. 1 .. 1 = {1} /\ 1 .. 2 = {1, 2}
    OBVIOUS
  <2> QED BY <1>1, <2>1, <2>2
<1>5. \A j \in DOMAIN outputs : outputs[j].sats \in Nat
  BY <1>1, <1>3
<1>6. total = plan.recipient + plan.change
  <2>1. total = IF Len(outputs) = 1 THEN outputs[1].sats ELSE outputs[1].sats + outputs[2].sats
    BY <1>1, <1>5, TotalIs
  <2> HIDE DEF total
  <2>2. CASE plan.change = 0
    <3>1. i = 1 /\ Len(outputs) = 1
      BY <1>1, <1>4, <2>2
    <3> QED BY <1>1, <1>3, <2>1, <2>2, <3>1
  <2>3. CASE plan.change # 0
    <3>1. Len(outputs) = 2 /\ DOMAIN outputs = {1, 2}
      BY <1>1, <1>4, <2>3
    <3>2. CASE i = 1
      <4>1. 2 \in DOMAIN outputs \ {i}
        BY <3>1, <3>2
      <4>2. outputs[1].sats = plan.recipient /\ outputs[2].sats = plan.change
        BY <1>1, <3>2, <4>1
      <4> QED BY <2>1, <3>1, <4>2
    <3>3. CASE i = 2
      <4>1. 1 \in DOMAIN outputs \ {i}
        BY <3>1, <3>3
      <4>2. outputs[2].sats = plan.recipient /\ outputs[1].sats = plan.change
        BY <1>1, <3>3, <4>1
      <4> QED BY <1>3, <2>1, <3>1, <4>2
    <3> QED BY <3>1, <3>2, <3>3
  <2> QED BY <2>2, <2>3
<1> HIDE DEF total
<1>7. total <= MaxU64 /\ selected >= total /\ selected - total = plan.fee
  <2>1. \A r, c, f \in Nat : r + c <= r + c + f /\ r + c + f - (r + c) = f
    OBVIOUS
  <2>2. total <= selected /\ selected - total = plan.fee /\ total \in Nat
    BY <1>3, <1>6, <2>1
  <2> QED BY <1>3, <2>2
<1>8. Cardinality(matches(recipient, plan.recipient)) = 1
  <2>1. matches(recipient, plan.recipient) = {i}
    <3>1. ASSUME NEW j \in DOMAIN outputs \ {i} PROVE ~ Pays(outputs[j], recipient, plan.recipient)
      <4>1. plan.change # 0
        BY <1>4
      <4>2. outputs[j].addresses = {changeAddress} /\ changeAddress # recipient
        BY <1>1, <4>1
      <4> QED BY <4>2 DEF Pays
    <3>2. Pays(outputs[i], recipient, plan.recipient)
      BY <1>1 DEF Pays
    <3> QED BY <3>1, <3>2
  <2> HIDE DEF matches
  <2> QED BY <2>1, FS_Singleton
<1>9. plan.change # 0 =>
        \E k \in DOMAIN outputs :
          /\ outputs[k].sats = plan.change
          /\ matches(changeAddress, plan.change) = {k}
          /\ {j \in DOMAIN outputs : changeAddress \in outputs[j].addresses} = {k}
  <2>1. SUFFICES ASSUME plan.change # 0
                 PROVE  \E k \in DOMAIN outputs :
                          /\ outputs[k].sats = plan.change
                          /\ matches(changeAddress, plan.change) = {k}
                          /\ {j \in DOMAIN outputs : changeAddress \in outputs[j].addresses} = {k}
    OBVIOUS
  <2>2. PICK k \in DOMAIN outputs : DOMAIN outputs = {i, k} /\ k # i
    <3>1. DOMAIN outputs = {1, 2}
      BY <1>4, <2>1
    <3> QED BY <3>1
  <2>3. alone(k, changeAddress, plan.change) /\ changeAddress # recipient
    BY <1>1, <2>1, <2>2
  <2> QED BY <1>1, <2>2, <2>3 DEF Pays
<1>10. plan.change # 0 => Cardinality(matches(changeAddress, plan.change)) = 1
  <2> HIDE DEF matches
  <2> QED BY <1>9, FS_Singleton
<1>11. ValidateDecoded(inputs, outputs, wanted, recipient, changeAddress, plan, selected)
  BY <1>1, <1>7, <1>8, <1>10 DEF ValidateDecoded, total
<1>12. ASSUME plan.change # 0
       PROVE  /\ ExtractVout(outputs, changeAddress).ok
              /\ ExtractVout(outputs, changeAddress).sats = plan.change
  <2> DEFINE at == {j \in DOMAIN outputs : changeAddress \in outputs[j].addresses}
  <2>1. PICK k \in DOMAIN outputs : outputs[k].sats = plan.change /\ at = {k}
    BY <1>9, <1>12
  <2>2. k \in Int
    BY <1>4
  <2>3. Min({k}) = k
    BY <2>2 DEF Min
  <2>4. ExtractVout(outputs, changeAddress)
          = IF \E j \in at : at = {j}
              THEN [ok |-> TRUE, vout |-> outputs[Min(at)].n, sats |-> outputs[Min(at)].sats]
              ELSE Err
    BY DEF ExtractVout
  <2> HIDE DEF at
  <2>5. ExtractVout(outputs, changeAddress)
          = [ok |-> TRUE, vout |-> outputs[k].n, sats |-> outputs[k].sats]
    BY <2>1, <2>3, <2>4
  <2> QED BY <2>1, <2>5
<1> QED BY <1>11, <1>12

\* What CallValidateDecoded hands over.
LEMMA HandedOver ==
  /\ \A n \in Nat : \A outputs \in BoundedSeq(Shown, n) : Numbered(outputs) \in Seq(Shapes)
  /\ \A n \in Nat : BoundedSeq(Outpoint, n) \subseteq Seq(Outpoint)
  /\ Wanted \in Seq(Outpoint)
<1>1. ASSUME NEW S, NEW n \in Nat PROVE BoundedSeq(S, n) \subseteq Seq(S)
  BY DEF BoundedSeq, SeqOf
<1>2. ASSUME NEW n \in Nat, NEW outputs \in BoundedSeq(Shown, n)
      PROVE  Numbered(outputs) \in Seq(Shapes)
  <2>1. outputs \in Seq(Shown)
    BY <1>1
  <2>2. /\ Len(outputs) \in Nat /\ DOMAIN outputs = 1 .. Len(outputs)
        /\ \A i \in DOMAIN outputs : outputs[i] \in Shown
    BY <2>1, LenProperties, ElementOfSeq
  <2>3. ASSUME NEW i \in DOMAIN outputs PROVE [outputs[i] EXCEPT !.n = i - 1] \in Shapes
    BY <2>2 DEF Shown, Shapes
  <2>4. Numbered(outputs) \in [1 .. Len(outputs) -> Shapes]
    BY <2>2, <2>3 DEF Numbered
  <2> QED BY <2>2, <2>4
<1>3. Wanted \in Seq(Outpoint)
  <2>1. [txid |-> 1, vout |-> 0] \in Outpoint /\ [txid |-> 2, vout |-> 1] \in Outpoint
    BY DEF Outpoint
  <2> QED BY <2>1 DEF Wanted
<1> QED BY <1>1, <1>2, <1>3

\* A decoded transaction is accepted if it is the planned one, and, but for the
\* exception DecodedIsThePlan names, only then.
THEOREM DecodedIsThePlanHolds == Spec => []DecodedIsThePlan
<1>1. Init => DecodedIsThePlan
  BY DEF Init, DecodedIsThePlan
<1>2. DecodedIsThePlan /\ [Next]_vars => DecodedIsThePlan'
  <2> SUFFICES ASSUME DecodedIsThePlan, [Next]_vars PROVE DecodedIsThePlan'
    OBVIOUS
  <2>1. CASE CallParseAmount
    BY <2>1 DEF CallParseAmount, Call, DecodedIsThePlan
  <2>2. CASE CallValidateDecoded
    <3>1. PICK d \in Decided :
            \E outputs \in BoundedSeq(Shown, IF d = Typical THEN 3 ELSE 2) :
            \E inputs \in IF d = Typical /\ Len(outputs) < 3 THEN BoundedSeq(Outpoint, 2)
                                                          ELSE {Wanted} :
              LET plan == PlanCustody(d.selected, d.pay, 1, 1) IN
              Call([fn |-> "decoded", inputs |-> inputs, outputs |-> Numbered(outputs),
                    changeAddress |-> d.changeAddress, plan |-> plan,
                    accepted |-> ValidateDecoded(inputs, Numbered(outputs), Wanted,
                                   "recipient", d.changeAddress, plan, d.selected),
                    found |-> ExtractVout(Numbered(outputs), "change")])
      BY <2>2 DEF CallValidateDecoded
    <3> DEFINE plan == PlanCustody(d.selected, d.pay, 1, 1)
    <3>2. PICK shown \in BoundedSeq(Shown, IF d = Typical THEN 3 ELSE 2) :
            \E inputs \in IF d = Typical /\ Len(shown) < 3 THEN BoundedSeq(Outpoint, 2)
                                                        ELSE {Wanted} :
              Call([fn |-> "decoded", inputs |-> inputs, outputs |-> Numbered(shown),
                    changeAddress |-> d.changeAddress, plan |-> plan,
                    accepted |-> ValidateDecoded(inputs, Numbered(shown), Wanted,
                                   "recipient", d.changeAddress, plan, d.selected),
                    found |-> ExtractVout(Numbered(shown), "change")])
      BY <3>1
    <3> DEFINE outputs == Numbered(shown)
    <3>3. PICK inputs \in IF d = Typical /\ Len(shown) < 3 THEN BoundedSeq(Outpoint, 2)
                                                         ELSE {Wanted} :
            Call([fn |-> "decoded", inputs |-> inputs, outputs |-> outputs,
                  changeAddress |-> d.changeAddress, plan |-> plan,
                  accepted |-> ValidateDecoded(inputs, outputs, Wanted,
                                 "recipient", d.changeAddress, plan, d.selected),
                  found |-> ExtractVout(outputs, "change")])
      BY <3>2
    <3>4. outputs \in Seq(Shapes) /\ inputs \in Seq(Outpoint) /\ Wanted \in Seq(Outpoint)
      <4>1. (IF d = Typical THEN 3 ELSE 2) \in Nat /\ 2 \in Nat
        OBVIOUS
      <4> QED BY <4>1, HandedOver
    <3>5. /\ d.selected \in 0 .. MaxU64 /\ d.pay \in Nat
          /\ d.changeAddress \in {"", "recipient", "change"}
          /\ plan.ok
      <4>1. /\ d \in [pay : 1 .. 6, selected : 1 .. 6,
                       changeAddress : {"", "recipient", "change"}]
            /\ d.selected <= MaxU64 /\ plan.ok
        BY DEF Decided
      <4> HIDE DEF plan
      <4>2. /\ d.selected \in 1 .. 6 /\ d.pay \in 1 .. 6 /\ d.selected <= MaxU64
            /\ d.changeAddress \in {"", "recipient", "change"}
        BY <4>1
      <4>3. d.selected \in 0 .. MaxU64
        <5> DEFINE x == d.selected
        <5>1. x \in 1 .. 6 /\ x <= MaxU64
          BY <4>2
        <5> HIDE DEF x
        <5>2. x \in 0 .. MaxU64
          BY <5>1, AmountBounds
        <5> QED BY <5>2 DEF x
      <4>4. d.pay \in Nat
        <5>1. 1 .. 6 \subseteq Nat
          OBVIOUS
        <5> QED BY <4>2, <5>1
      <4>5. d.changeAddress \in {"", "recipient", "change"}
        BY <4>2
      <4>6. plan.ok
        BY <4>1
      <4> QED BY <4>3, <4>4, <4>5, <4>6
    <3> DEFINE accepted   == ValidateDecoded(inputs, outputs, Wanted, "recipient",
                                             d.changeAddress, plan, d.selected)
               found      == ExtractVout(outputs, "change")
               outputSize == IF plan.change = 0 THEN 1 ELSE 2
               paid(i)     == Pays(outputs[i], "recipient", plan.recipient)
               returned(i) == Pays(outputs[i], "change", plan.change)
               alone(i, address, sats) ==
                 outputs[i].addresses = {address} /\ outputs[i].sats = sats
               standsForBoth == /\ plan.recipient = plan.change
                                /\ \E i \in DOMAIN outputs : paid(i) /\ returned(i)
    <3>6. call' = [fn |-> "decoded", inputs |-> inputs, outputs |-> outputs,
                   changeAddress |-> d.changeAddress, plan |-> plan,
                   accepted |-> accepted, found |-> found]
      BY <3>3 DEF Call
    <3> HIDE DEF outputs, found
    <3>7. accepted => IsPermutation(inputs, Wanted)
      <4>1. accepted => SameInputs(inputs, Wanted)
        BY DEF ValidateDecoded
      <4> QED BY <3>4, <4>1, SameIsPermutation
    <3>8. accepted /\ ~ standsForBoth =>
            /\ Len(outputs) = outputSize
            /\ \E i \in DOMAIN outputs :
                 paid(i) /\ \A j \in DOMAIN outputs \ {i} : returned(j)
      <4>1. SUFFICES ASSUME accepted, ~ standsForBoth
                     PROVE  /\ Len(outputs) = outputSize
                            /\ \E i \in DOMAIN outputs :
                                 paid(i) /\ \A j \in DOMAIN outputs \ {i} : returned(j)
        OBVIOUS
      <4> HIDE DEF plan
      <4>2. /\ Len(outputs) = outputSize
            /\ plan.change # 0 => d.changeAddress \notin {"", "recipient"}
            /\ \E i \in DOMAIN outputs :
                 /\ paid(i)
                 /\ \/ \A j \in DOMAIN outputs \ {i} :
                         Pays(outputs[j], d.changeAddress, plan.change)
                    \/ plan.change # 0 /\ Pays(outputs[i], d.changeAddress, plan.change)
        BY <3>4, <4>1, AcceptedIsPlanned
      <4>3. PICK i \in DOMAIN outputs :
              /\ paid(i)
              /\ \/ \A j \in DOMAIN outputs \ {i} :
                      Pays(outputs[j], d.changeAddress, plan.change)
                 \/ plan.change # 0 /\ Pays(outputs[i], d.changeAddress, plan.change)
        BY <4>2
      <4>4. CASE plan.change = 0
        <5>1. DOMAIN outputs = {1}
          <6>1. DOMAIN outputs = 1 .. Len(outputs) /\ 1 .. 1 = {1}
            BY <3>4, LenProperties
          <6> QED BY <4>2, <4>4, <6>1
        <5>2. DOMAIN outputs \ {i} = {}
          BY <4>3, <5>1
        <5> QED BY <4>2, <4>3, <5>2
      <4>5. CASE plan.change # 0
        <5>1. d.changeAddress = "change"
          BY <3>5, <4>2, <4>5
        <5>2. ~ returned(i)
          <6>1. paid(i) /\ returned(i) => plan.recipient = plan.change
            BY DEF Pays
          <6> QED BY <4>1, <4>3, <6>1
        <5> QED BY <4>2, <4>3, <5>1, <5>2
      <4> QED BY <4>4, <4>5
    <3>9. ASSUME IsPermutation(inputs, Wanted),
                 Len(outputs) = outputSize,
                 plan.change = 0 \/ d.changeAddress = "change",
                 NEW i \in DOMAIN outputs,
                 alone(i, "recipient", plan.recipient),
                 \A j \in DOMAIN outputs \ {i} : alone(j, "change", plan.change)
          PROVE  accepted /\ (plan.change # 0 => found.ok /\ found.sats = plan.change)
      <4>1. SameInputs(inputs, Wanted)
        BY <3>4, <3>9, SameIsPermutation
      <4>2. "change" \notin {"", "recipient"}
        OBVIOUS
      <4>3. \A j \in DOMAIN outputs \ {i} : alone(j, d.changeAddress, plan.change)
        <5>1. CASE plan.change = 0
          <6>1. DOMAIN outputs = 1 .. Len(outputs) /\ 1 .. 1 = {1}
            BY <3>4, LenProperties
          <6>2. DOMAIN outputs \ {i} = {}
            BY <3>9, <5>1, <6>1
          <6> QED BY <6>2
        <5>2. CASE plan.change # 0
          BY <3>9, <5>2
        <5> QED BY <5>1, <5>2
      <4>4. 1 \in Nat
        OBVIOUS
      <4>5. AsPlanned(outputs, i, "recipient", d.changeAddress, plan)
        <5> HIDE DEF plan
        <5> QED BY <3>9, <4>2, <4>3 DEF AsPlanned
      <4>6. /\ accepted
            /\ plan.change # 0 => /\ ExtractVout(outputs, d.changeAddress).ok
                                  /\ ExtractVout(outputs, d.changeAddress).sats = plan.change
        <5>1. i \in DOMAIN outputs
          BY <3>9
        <5>2. plan = PlanCustody(d.selected, d.pay, 1, 1)
          OBVIOUS
        <5> DEFINE changeAddress == d.changeAddress
                   selected      == d.selected
                   pay           == d.pay
        <5>3. /\ selected \in 0 .. MaxU64 /\ pay \in Nat /\ 1 \in Nat
              /\ plan = PlanCustody(selected, pay, 1, 1) /\ plan.ok
              /\ AsPlanned(outputs, i, "recipient", changeAddress, plan)
              /\ outputs \in Seq(Shapes) /\ i \in DOMAIN outputs
              /\ SameInputs(inputs, Wanted)
          BY <3>4, <3>5, <4>1, <4>5, <5>1, <5>2
        <5> HIDE DEF plan, changeAddress, selected, pay
        <5>4. /\ ValidateDecoded(inputs, outputs, Wanted, "recipient", changeAddress,
                                 plan, selected)
              /\ plan.change # 0 => /\ ExtractVout(outputs, changeAddress).ok
                                    /\ ExtractVout(outputs, changeAddress).sats = plan.change
          BY <5>3, PlannedIsAccepted
        <5> QED BY <5>4 DEF changeAddress, selected
      <4> HIDE DEF plan
      <4> QED BY <3>9, <4>6 DEF found
    <3> HIDE DEF plan, accepted
    <3> QED BY <3>6, <3>7, <3>8, <3>9 DEF DecodedIsThePlan
  <2>3. CASE CallRestore
    BY <2>3 DEF CallRestore, Call, DecodedIsThePlan
  <2>4. CASE CallMembership
    BY <2>4 DEF CallMembership, Call, DecodedIsThePlan
  <2>5. CASE CallBranch
    BY <2>5 DEF CallBranch, Call, DecodedIsThePlan
  <2>6. CASE CallSpentProofs
    BY <2>6 DEF CallSpentProofs, DecodedIsThePlan
  <2>7. CASE NextPayment
    BY <2>7 DEF NextPayment, DecodedIsThePlan
  <2>8. CASE UNCHANGED vars
    BY <2>8 DEF vars, DecodedIsThePlan
  <2> QED BY <2>1, <2>2, <2>3, <2>4, <2>5, <2>6, <2>7, <2>8 DEF Next
<1> QED BY <1>1, <1>2, PTL DEF Spec
=============================================================================
