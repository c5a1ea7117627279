--------------------------- MODULE TransactionLemmas ---------------------------
(***************************************************************************)
(* Facts about the operators of Transactions and Managers, for every value  *)
(* of their arguments: what folds and concatenations are, that a payload    *)
(* and a transaction are read back as they were written, and what the       *)
(* Managers' signatures are put together to.                                *)
(***************************************************************************)
EXTENDS Managers, SequenceTheorems, FiniteSetTheorems, WellFoundedInduction,
        TLAPS

-----------------------------------------------------------------------------
(* Induction, as a fact about sets of numbers. *)

\* A set of naturals with 0 that has the successor of each of its elements is
\* all of them.
LEMMA NatSet ==
  ASSUME NEW T \in SUBSET Nat, 0 \in T, \A n \in T : n + 1 \in T
  PROVE  \A n \in Nat : n \in T
<1> DEFINE Rest == Nat \ T
<1>1. SUFFICES ASSUME Rest # {} PROVE FALSE
  OBVIOUS
<1> DEFINE Less == {p \in Nat \X Nat : p[1] < p[2]}
<1>2. PICK x \in Rest : \A y \in Rest : ~ (<<y, x>> \in Less)
  <2>1. IsWellFoundedOn(Less, Nat)
    <3>1. OpToRel(<, Nat) = Less
      BY DEF OpToRel
    <3> QED BY <3>1, NatLessThanWellFounded
  <2>2. Rest \subseteq Nat
    OBVIOUS
  <2> HIDE DEF Rest
  <2> QED BY <1>1, <2>1, <2>2, WFMin
<1>3. x # 0 /\ x - 1 \in Nat
  OBVIOUS
<1>4. x - 1 \in Rest
  <2>1. x - 1 \in T => x - 1 + 1 \in T
    OBVIOUS
  <2> QED BY <1>3, <2>1
<1>5. <<x - 1, x>> \in Less
  <2>1. x - 1 < x
    BY <1>3
  <2> QED BY <1>3, <2>1
<1> HIDE DEF Rest, Less
<1> QED BY <1>2, <1>4, <1>5

\* A nonempty set of positions has a greatest one.
LEMMA Greatest ==
  ASSUME NEW n \in Nat, NEW t \in SUBSET (1 .. n), t # {}
  PROVE  Max(t) \in t /\ \A i \in t : Max(t) >= i
<1> DEFINE T == {m \in Nat : m <= n /\ (\E i \in t : i >= n - m)
                              => \E i \in t : \A j \in t : i >= j}
<1>1. 0 \in T
  <2>1. SUFFICES ASSUME NEW i \in t, i >= n PROVE \A j \in t : i >= j
    OBVIOUS
  <2> QED BY <2>1
<1>2. ASSUME NEW m \in T PROVE m + 1 \in T
  <2>1. SUFFICES ASSUME m + 1 <= n, NEW i \in t, i >= n - (m + 1)
                 PROVE  \E k \in t : \A j \in t : k >= j
    OBVIOUS
  <2>2. CASE \E k \in t : k >= n - m
    BY <1>2, <2>1, <2>2
  <2>3. CASE \A k \in t : k < n - m
    BY <2>1, <2>3
  <2> QED BY <2>2, <2>3
<1>3. n \in T
  <2>1. T \in SUBSET Nat
    OBVIOUS
  <2> HIDE DEF T
  <2> QED BY <1>1, <1>2, <2>1, NatSet
<1>4. \E i \in t : \A j \in t : i >= j
  <2>1. PICK i \in t : TRUE
    OBVIOUS
  <2>2. i >= n - n
    OBVIOUS
  <2> QED BY <1>3, <2>2
<1> QED BY <1>4 DEF Max

-----------------------------------------------------------------------------
(* Folds. *)

\* The recursion of MapThenFoldSet over the positions of a sequence: a step is
\* a function of what has been folded and of the next position.
Folds(f, n, base, step) ==
  \A t \in SUBSET (1 .. n) :
    f[t] = IF t = {} THEN base ELSE step[<<f[t \ {Max(t)}], Max(t)>>]

\* There is such a function: the recursion defines one.
LEMMA FoldExists ==
  ASSUME NEW V, NEW base \in V, NEW n \in Nat, NEW step \in [V \X (1 .. n) -> V]
  PROVE  \E f \in [SUBSET (1 .. n) -> V] : Folds(f, n, base, step)
<1> DEFINE P(m) == m <= n =>
                     \E f \in [SUBSET (1 .. m) -> V] : Folds(f, m, base, step)
<1>1. P(0)
  <2>1. 1 .. 0 = {}
    OBVIOUS
  <2>2. [t \in SUBSET (1 .. 0) |-> base] \in [SUBSET (1 .. 0) -> V]
    OBVIOUS
  <2>3. Folds([t \in SUBSET (1 .. 0) |-> base], 0, base, step)
    BY <2>1 DEF Folds
  <2> QED BY <2>2, <2>3
<1>2. ASSUME NEW m \in Nat, P(m) PROVE P(m + 1)
  <2>1. SUFFICES ASSUME m + 1 <= n
                 PROVE  \E g \in [SUBSET (1 .. m + 1) -> V] : Folds(g, m + 1, base, step)
    OBVIOUS
  <2>2. PICK f \in [SUBSET (1 .. m) -> V] : Folds(f, m, base, step)
    <3>1. m <= n
      BY <2>1
    <3> QED BY <1>2, <3>1, Zenon
  <2> DEFINE g == [t \in SUBSET (1 .. m + 1) |->
                     IF m + 1 \in t THEN step[<<f[t \ {m + 1}], m + 1>>] ELSE f[t]]
  <2>3. ASSUME NEW t \in SUBSET (1 .. m + 1), m + 1 \in t
        PROVE  t \ {m + 1} \in SUBSET (1 .. m)
    OBVIOUS
  <2>4. ASSUME NEW t \in SUBSET (1 .. m + 1), m + 1 \notin t
        PROVE  t \in SUBSET (1 .. m)
    <3>1. ASSUME NEW i \in t PROVE i \in 1 .. m
      BY <2>4, i \in 1 .. m + 1, i # m + 1
    <3> QED BY <3>1
  <2>5. g \in [SUBSET (1 .. m + 1) -> V]
    <3>1. m + 1 \in 1 .. n
      BY <2>1
    <3>2. ASSUME NEW t \in SUBSET (1 .. m + 1)
          PROVE (IF m + 1 \in t THEN step[<<f[t \ {m + 1}], m + 1>>] ELSE f[t]) \in V
      <4>1. CASE m + 1 \in t
        <5>1. f[t \ {m + 1}] \in V
          BY <2>2, <2>3, <4>1
        <5> QED BY <3>1, <4>1, <5>1
      <4>2. CASE m + 1 \notin t
        BY <2>2, <2>4, <4>2
      <4> QED BY <4>1, <4>2
    <3> QED BY <3>2
  <2>6. Folds(g, m + 1, base, step)
    <3>1. SUFFICES ASSUME NEW t \in SUBSET (1 .. m + 1)
                   PROVE  g[t] = IF t = {} THEN base ELSE step[<<g[t \ {Max(t)}], Max(t)>>]
      BY DEF Folds
    <3>2. CASE t = {}
      BY <2>2, <3>2 DEF Folds
    <3>3. CASE t # {} /\ m + 1 \in t
      <4>1. Max(t) = m + 1
        <5>1. Max(t) \in t /\ Max(t) >= m + 1
          <6>1. m + 1 \in Nat
            OBVIOUS
          <6> QED BY <3>3, <6>1, Greatest
        <5>2. Max(t) \in 1 .. m + 1
          BY <5>1
        <5> QED BY <5>1, <5>2
      <4>2. t \ {m + 1} \in SUBSET (1 .. m + 1) /\ m + 1 \notin t \ {m + 1}
        OBVIOUS
      <4>3. g[t \ {m + 1}] = f[t \ {m + 1}]
        BY <4>2
      <4>4. g[t] = step[<<f[t \ {m + 1}], m + 1>>]
        BY <3>3
      <4> HIDE DEF g
      <4> QED BY <3>3, <4>1, <4>3, <4>4
    <3>4. CASE t # {} /\ m + 1 \notin t
      <4>1. t \in SUBSET (1 .. m)
        BY <2>4, <3>4
      <4>2. t \ {Max(t)} \in SUBSET (1 .. m + 1) /\ m + 1 \notin t \ {Max(t)}
        BY <3>4
      <4>3. g[t] = f[t] /\ g[t \ {Max(t)}] = f[t \ {Max(t)}]
        BY <3>4, <4>2
      <4> HIDE DEF g
      <4> QED BY <2>2, <3>4, <4>1, <4>3 DEF Folds
    <3> QED BY <3>2, <3>3, <3>4
  <2> QED BY <2>5, <2>6
<1>3. P(n)
  <2> HIDE DEF P
  <2> DEFINE T == {m \in Nat : P(m)}
  <2>1. T \in SUBSET Nat /\ 0 \in T /\ \A m \in T : m + 1 \in T
    BY <1>1, <1>2
  <2>2. n \in T
    <3> HIDE DEF T
    <3> QED BY <2>1, NatSet
  <2> QED BY <2>2
<1> QED BY <1>3, n <= n, Zenon

\* What it has folded up to a position follows from what it had up to the one
\* before.
LEMMA FoldSteps ==
  ASSUME NEW n \in Nat, NEW base, NEW step, NEW f, Folds(f, n, base, step)
  PROVE  /\ f[1 .. 0] = base
         /\ \A k \in 0 .. n - 1 : f[1 .. k + 1] = step[<<f[1 .. k], k + 1>>]
<1>1. f[1 .. 0] = base
  <2>1. 1 .. 0 = {}
    OBVIOUS
  <2> QED BY <2>1 DEF Folds
<1>2. ASSUME NEW k \in 0 .. n - 1 PROVE f[1 .. k + 1] = step[<<f[1 .. k], k + 1>>]
  <2>1. 1 .. k + 1 \in SUBSET (1 .. n) /\ 1 .. k + 1 # {}
    OBVIOUS
  <2>2. Max(1 .. k + 1) = k + 1
    <3>1. Max(1 .. k + 1) \in 1 .. k + 1 /\ \A i \in 1 .. k + 1 : Max(1 .. k + 1) >= i
      BY <2>1, Greatest
    <3> QED BY <3>1
  <2>3. (1 .. k + 1) \ {k + 1} = 1 .. k
    OBVIOUS
  <2> QED BY <2>1, <2>2, <2>3 DEF Folds
<1> QED BY <1>1, <1>2

-----------------------------------------------------------------------------
(* Concatenations. *)

\* The recursion of FlattenSeq.
Flattens(f, parts) ==
  \A i \in 1 .. Len(parts) : f[i] = IF i = 1 THEN parts[i] ELSE f[i - 1] \o parts[i]

\* There is such a function: the recursion defines one.
LEMMA FlattenExists ==
  ASSUME NEW V, NEW parts \in Seq(Seq(V)), parts # <<>>
  PROVE  \E f \in [1 .. Len(parts) -> Seq(V)] :
           Flattens(f, parts) /\ FlattenSeq(parts) = f[Len(parts)]
<1> DEFINE n == Len(parts)
<1> DEFINE Step(f, i) == IF i = 1 THEN parts[i] ELSE f[i - 1] \o parts[i]
<1>0. n \in Nat /\ n # 0 /\ \A i \in 1 .. n : parts[i] \in Seq(V)
  OBVIOUS
<1> DEFINE P(m) == m <= n =>
                     \E f \in [1 .. m -> Seq(V)] : \A i \in 1 .. m : f[i] = Step(f, i)
<1>1. P(0)
  <2>1. [i \in 1 .. 0 |-> <<>>] \in [1 .. 0 -> Seq(V)]
    OBVIOUS
  <2>2. \A i \in 1 .. 0 : FALSE
    OBVIOUS
  <2> HIDE DEF Step
  <2> QED BY <2>1, <2>2
<1>2. ASSUME NEW m \in Nat, P(m) PROVE P(m + 1)
  <2>1. SUFFICES ASSUME m + 1 <= n
                 PROVE  \E g \in [1 .. m + 1 -> Seq(V)] :
                          \A i \in 1 .. m + 1 : g[i] = Step(g, i)
    OBVIOUS
  <2>2. PICK f \in [1 .. m -> Seq(V)] : \A i \in 1 .. m : f[i] = Step(f, i)
    <3>1. m <= n
      BY <2>1
    <3> QED BY <1>2, <3>1
  <2> DEFINE g == [i \in 1 .. m + 1 |-> IF i = m + 1 THEN Step(f, i) ELSE f[i]]
  <2>3. g \in [1 .. m + 1 -> Seq(V)]
    <3>1. m + 1 \in 1 .. n
      BY <2>1
    <3>2. Step(f, m + 1) \in Seq(V)
      <4>1. CASE m = 0
        BY <1>0, <3>1, <4>1
      <4>2. CASE m # 0
        <5>1. f[m + 1 - 1] \in Seq(V) /\ parts[m + 1] \in Seq(V)
          BY <1>0, <3>1, <4>2
        <5>2. f[m + 1 - 1] \o parts[m + 1] \in Seq(V)
          BY <5>1, ConcatProperties
        <5> QED BY <4>2, <5>2
      <4> QED BY <4>1, <4>2
    <3>3. ASSUME NEW i \in 1 .. m + 1, i # m + 1 PROVE f[i] \in Seq(V)
      BY <3>3
    <3> HIDE DEF Step
    <3> QED BY <3>2, <3>3
  <2>4. ASSUME NEW i \in 1 .. m + 1 PROVE g[i] = Step(g, i)
    <3>1. i # 1 => i - 1 \in 1 .. m /\ g[i - 1] = f[i - 1]
      OBVIOUS
    <3>2. Step(g, i) = Step(f, i)
      BY <3>1
    <3>3. i # m + 1 => i \in 1 .. m
      OBVIOUS
    <3> HIDE DEF Step
    <3> QED BY <2>2, <3>2, <3>3
  <2> QED BY <2>3, <2>4
<1>3. P(n)
  <2> HIDE DEF P, n
  <2> DEFINE T == {m \in Nat : P(m)}
  <2>1. T \in SUBSET Nat /\ 0 \in T /\ \A m \in T : m + 1 \in T
    BY <1>1, <1>2
  <2>2. n \in T
    <3> HIDE DEF T
    <3> QED BY <1>0, <2>1, NatSet
  <2> QED BY <2>2
<1>4. PICK f \in [1 .. n -> Seq(V)] : \A i \in 1 .. n : f[i] = Step(f, i)
  <2>1. n <= n
    BY <1>0
  <2> HIDE DEF n, Step
  <2> QED BY <1>3, <2>1
<1>5. f = [i \in 1 .. n |-> IF i = 1 THEN parts[i] ELSE f[i - 1] \o parts[i]]
  BY <1>4
<1> DEFINE g == CHOOSE h : h = [i \in 1 .. n |-> IF i = 1 THEN parts[i] ELSE h[i - 1] \o parts[i]]
<1>6. g = [i \in 1 .. n |-> IF i = 1 THEN parts[i] ELSE g[i - 1] \o parts[i]]
  BY <1>5
<1>7. FlattenSeq(parts) = g[n]
  BY <1>0 DEF FlattenSeq
<1>8. \A i \in 1 .. n : g[i] = Step(g, i)
  <2>1. ASSUME NEW i \in 1 .. n PROVE g[i] = Step(g, i)
    <3> HIDE DEF g
    <3> QED BY <1>6
  <2> QED BY <2>1
<1>9. \A i \in 1 .. n : g[i] \in Seq(V)
  <2> HIDE DEF g
  <2> DEFINE Q(m) == m \in 1 .. n => g[m] \in Seq(V)
  <2>1. Q(0)
    BY <1>0
  <2>2. ASSUME NEW m \in Nat, Q(m) PROVE Q(m + 1)
    <3>1. SUFFICES ASSUME NEW q \in 1 .. n, q = m + 1 PROVE g[q] \in Seq(V)
      OBVIOUS
    <3>2. parts[q] \in Seq(V)
      BY <1>0
    <3>3. CASE q = 1
      BY <1>8, <3>2, <3>3
    <3>4. CASE q # 1
      <4>1. q - 1 = m /\ m \in 1 .. n
        BY <1>0, <3>1, <3>4
      <4>2. g[q] = g[m] \o parts[q]
        BY <1>8, <3>4, <4>1
      <4>3. g[m] \in Seq(V)
        BY <2>2, <4>1
      <4> QED BY <3>2, <4>2, <4>3, ConcatProperties
    <3> QED BY <3>3, <3>4
  <2>3. \A m \in Nat : Q(m)
    <3> HIDE DEF Q
    <3> DEFINE T == {m \in Nat : Q(m)}
    <3>1. T \in SUBSET Nat /\ 0 \in T /\ \A m \in T : m + 1 \in T
      BY <2>1, <2>2
    <3>2. \A m \in Nat : m \in T
      <4> HIDE DEF T
      <4> QED BY <3>1, NatSet
    <3> QED BY <3>2
  <2>4. ASSUME NEW i \in 1 .. n PROVE g[i] \in Seq(V)
    <3>1. i \in Nat
      BY <1>0
    <3> QED BY <2>3, <3>1
  <2> QED BY <2>4
<1>10. g \in [1 .. n -> Seq(V)]
  <2> HIDE DEF g
  <2> QED BY <1>6, <1>9
<1> HIDE DEF g
<1> QED BY <1>7, <1>8, <1>10 DEF Flattens

\* Every element of a concatenation, by its place.
LEMMA ConcatPlaces ==
  ASSUME NEW V, NEW s \in Seq(V), NEW t \in Seq(V)
  PROVE  /\ s \o t \in Seq(V)
         /\ Len(s \o t) = Len(s) + Len(t)
         /\ Len(s) \in Nat /\ Len(t) \in Nat
         /\ \A k \in 1 .. Len(s) : (s \o t)[k] = s[k]
         /\ \A k \in 1 .. Len(t) : (s \o t)[Len(s) + k] = t[k]
<1>1. /\ s \o t \in Seq(V)
      /\ Len(s \o t) = Len(s) + Len(t)
      /\ \A i \in 1 .. Len(s) + Len(t) : (s \o t)[i] =
           IF i <= Len(s) THEN s[i] ELSE t[i - Len(s)]
  BY ConcatProperties
<1>2. Len(s) \in Nat /\ Len(t) \in Nat
  BY LenProperties
<1>3. ASSUME NEW k \in 1 .. Len(s) PROVE (s \o t)[k] = s[k]
  <2>1. k \in 1 .. Len(s) + Len(t) /\ k <= Len(s)
    BY <1>2
  <2> QED BY <1>1, <2>1
<1>4. ASSUME NEW k \in 1 .. Len(t) PROVE (s \o t)[Len(s) + k] = t[k]
  <2>1. /\ Len(s) + k \in 1 .. Len(s) + Len(t)
        /\ ~(Len(s) + k <= Len(s))
        /\ Len(s) + k - Len(s) = k
    BY <1>2
  <2> QED BY <1>1, <2>1
<1> QED BY <1>1, <1>2, <1>3, <1>4

\* A place within a part that lies within a sequence lies within the sequence.
LEMMA Within ==
  ASSUME NEW at \in Nat, NEW length \in Nat, NEW whole \in Nat, at + length <= whole,
         NEW k \in 1 .. length
  PROVE  at + k \in 1 .. whole
OBVIOUS

LEMMA Longer ==
  ASSUME NEW end \in Nat, NEW whole \in Nat, NEW more \in Nat, NEW all,
         end <= whole, all = whole + more
  PROVE  end <= all
OBVIOUS

\* Every part stands in the concatenation from where the parts before it end:
\* at[i] elements come before part i.
LEMMA FlattenParts ==
  ASSUME NEW V, NEW parts \in Seq(Seq(V)), parts # <<>>
  PROVE  /\ FlattenSeq(parts) \in Seq(V)
         /\ \E at \in [1 .. Len(parts) -> Nat] :
              /\ at[1] = 0
              /\ at[Len(parts)] + Len(parts[Len(parts)]) = Len(FlattenSeq(parts))
              /\ \A i \in 1 .. Len(parts) - 1 : at[i + 1] = at[i] + Len(parts[i])
              /\ \A i \in 1 .. Len(parts) :
                   /\ at[i] + Len(parts[i]) <= Len(FlattenSeq(parts))
                   /\ \A k \in 1 .. Len(parts[i]) :
                        FlattenSeq(parts)[at[i] + k] = parts[i][k]
<1> DEFINE n == Len(parts)
<1>1. PICK f \in [1 .. n -> Seq(V)] : Flattens(f, parts) /\ FlattenSeq(parts) = f[n]
  BY FlattenExists
<1>2. n \in Nat /\ 1 \in 1 .. n /\ n \in 1 .. n /\ \A i \in 1 .. n : parts[i] \in Seq(V)
  OBVIOUS
<1> HIDE DEF n
<1>3. \A i \in 1 .. n : f[i] \in Seq(V) /\ Len(f[i]) \in Nat /\ Len(parts[i]) \in Nat
  BY <1>1, <1>2, LenProperties
<1>4. f[1] = parts[1]
  BY <1>1, <1>2 DEF Flattens, n
<1>5. ASSUME NEW m \in 1 .. n, NEW q \in 1 .. n, q = m + 1
      PROVE  /\ Len(f[q]) = Len(f[m]) + Len(parts[q])
             /\ \A k \in 1 .. Len(f[m]) : f[q][k] = f[m][k]
             /\ \A k \in 1 .. Len(parts[q]) : f[q][Len(f[m]) + k] = parts[q][k]
  <2>1. q # 1 /\ q - 1 = m
    BY <1>2, <1>5
  <2>2. f[q] = f[m] \o parts[q]
    <3>1. f[q] = IF q = 1 THEN parts[q] ELSE f[q - 1] \o parts[q]
      BY <1>1 DEF Flattens, n
    <3> QED BY <2>1, <3>1
  <2> QED BY <1>2, <1>3, <2>2, ConcatPlaces
<1> DEFINE at == [i \in 1 .. n |-> IF i = 1 THEN 0 ELSE Len(f[i - 1])]
<1>6. at \in [1 .. n -> Nat] /\ at[1] = 0
  <2>1. ASSUME NEW i \in 1 .. n, i # 1 PROVE Len(f[i - 1]) \in Nat
    <3>1. i - 1 \in 1 .. n
      BY <1>2, <2>1
    <3> QED BY <1>3, <3>1
  <2> QED BY <1>2, <2>1
<1>7. ASSUME NEW m \in 1 .. n, NEW q \in 1 .. n, q = m + 1
      PROVE  at[q] = Len(f[m])
  <2>1. q # 1 /\ q - 1 = m
    BY <1>2, <1>7
  <2> QED BY <2>1
<1> HIDE DEF at
<1>8. ASSUME NEW i \in 1 .. n PROVE at[i] + Len(parts[i]) = Len(f[i])
  <2>1. CASE i = 1
    BY <1>3, <1>4, <1>6, <2>1
  <2>2. CASE i # 1
    <3>1. PICK m \in 1 .. n : i = m + 1
      <4>1. i - 1 \in 1 .. n /\ i = i - 1 + 1
        BY <1>2, <2>2
      <4> QED BY <4>1
    <3> QED BY <1>5, <1>7, <3>1
  <2> QED BY <2>1, <2>2
<1>9. ASSUME NEW i \in 1 .. n - 1 PROVE at[i + 1] = at[i] + Len(parts[i])
  <2>1. i \in 1 .. n /\ i + 1 \in 1 .. n
    BY <1>2
  <2> QED BY <1>7, <1>8, <2>1
<1> DEFINE Placed(i, s) == /\ at[i] + Len(parts[i]) <= Len(s)
                           /\ \A k \in 1 .. Len(parts[i]) : s[at[i] + k] = parts[i][k]
           P(m) == m \in 1 .. n => \A i \in 1 .. m : Placed(i, f[m])
<1>10. P(0)
  BY <1>2
<1>11. ASSUME NEW m \in Nat, P(m) PROVE P(m + 1)
  <2>1. SUFFICES ASSUME NEW q \in 1 .. n, q = m + 1, NEW i \in 1 .. q
                 PROVE  Placed(i, f[q])
    OBVIOUS
  <2>2. i \in 1 .. n /\ at[i] \in Nat /\ Len(parts[i]) \in Nat
    <3>1. i \in 1 .. n
      BY <1>2
    <3> QED BY <1>3, <1>6, <3>1
  <2>3. CASE q = 1
    <3>1. i = 1
      BY <2>3
    <3>2. \A k \in 1 .. Len(parts[1]) : 0 + k = k
      OBVIOUS
    <3> QED BY <1>3, <1>4, <1>6, <2>2, <2>3, <3>1, <3>2
  <2>4. CASE q # 1 /\ i = q
    <3>1. m \in 1 .. n
      BY <1>2, <2>1, <2>4
    <3>2. at[q] = Len(f[m]) /\ at[q] + Len(parts[q]) = Len(f[q])
      BY <1>7, <1>8, <2>1, <3>1
    <3>3. \A k \in 1 .. Len(parts[q]) : f[q][Len(f[m]) + k] = parts[q][k]
      BY <1>5, <2>1, <3>1
    <3>4. Len(f[q]) <= Len(f[q])
      BY <1>3
    <3> QED BY <2>4, <3>2, <3>3, <3>4
  <2>5. CASE q # 1 /\ i # q
    <3>1. m \in 1 .. n /\ i \in 1 .. m
      BY <1>2, <2>1, <2>5
    <3>2. Placed(i, f[m])
      BY <1>11, <3>1
    <3>3. /\ Len(f[q]) = Len(f[m]) + Len(parts[q])
          /\ \A k \in 1 .. Len(f[m]) : f[q][k] = f[m][k]
          /\ Len(f[m]) \in Nat /\ Len(parts[q]) \in Nat
      <4>1. Len(f[m]) \in Nat /\ Len(parts[q]) \in Nat
        BY <1>3, <2>1, <3>1
      <4>2. Len(f[q]) = Len(f[m]) + Len(parts[q])
        BY <1>5, <2>1, <3>1
      <4>3. \A k \in 1 .. Len(f[m]) : f[q][k] = f[m][k]
        BY <1>5, <2>1, <3>1
      <4> QED BY <4>1, <4>2, <4>3
    <3>4. ASSUME NEW k \in 1 .. Len(parts[i]) PROVE f[q][at[i] + k] = parts[i][k]
      <4>1. at[i] + k \in 1 .. Len(f[m])
        <5>1. at[i] + Len(parts[i]) <= Len(f[m])
          BY <3>2
        <5> HIDE DEF Placed
        <5> QED BY <2>2, <3>3, <5>1, Within
      <4> QED BY <3>2, <3>3, <4>1
    <3>5. at[i] + Len(parts[i]) <= Len(f[m])
      BY <3>2
    <3>6. at[i] + Len(parts[i]) <= Len(f[q])
      <4>1. at[i] + Len(parts[i]) \in Nat
        BY <2>2
      <4> QED BY <3>3, <3>5, <4>1, Longer
    <3> QED BY <3>4, <3>6
  <2> QED BY <2>3, <2>4, <2>5
<1>12. P(n)
  <2> HIDE DEF P
  <2> DEFINE T == {m \in Nat : P(m)}
  <2>1. T \in SUBSET Nat /\ 0 \in T /\ \A m \in T : m + 1 \in T
    BY <1>10, <1>11
  <2>2. n \in T
    <3> HIDE DEF T
    <3> QED BY <1>2, <2>1, NatSet
  <2> QED BY <2>2
<1>13. \A i \in 1 .. n : Placed(i, FlattenSeq(parts))
  <2> HIDE DEF Placed
  <2> QED BY <1>1, <1>2, <1>12
<1>14. at[n] + Len(parts[n]) = Len(FlattenSeq(parts)) /\ FlattenSeq(parts) \in Seq(V)
  BY <1>1, <1>2, <1>3, <1>8
<1> QED BY <1>6, <1>9, <1>13, <1>14 DEF n

-----------------------------------------------------------------------------
(* Payloads. *)

\* The fields of the outputs, three each.
Triples(outputs) ==
  [i \in DOMAIN outputs |-> <<outputs[i].amount, outputs[i].kind, outputs[i].address>>]

\* The fields of output i are at 3 * (i - 1) + 1 and the two places after it.
LEMMA TriplePlaces ==
  ASSUME NEW V, NEW outputs \in Seq([amount : V, kind : V, address : V])
  PROVE  /\ FlattenSeq(Triples(outputs)) \in Seq(V)
         /\ Len(FlattenSeq(Triples(outputs))) = 3 * Len(outputs)
         /\ \A i \in 1 .. Len(outputs) :
              /\ FlattenSeq(Triples(outputs))[3 * i - 2] = outputs[i].amount
              /\ FlattenSeq(Triples(outputs))[3 * i - 1] = outputs[i].kind
              /\ FlattenSeq(Triples(outputs))[3 * i] = outputs[i].address
<1> DEFINE n == Len(outputs)
           parts == Triples(outputs)
           flat == FlattenSeq(parts)
<1>1. n \in Nat /\ DOMAIN outputs = 1 .. n
  OBVIOUS
<1>2. ASSUME NEW i \in 1 .. n
      PROVE  /\ parts[i] \in Seq(V) /\ Len(parts[i]) = 3
             /\ parts[i][1] = outputs[i].amount
             /\ parts[i][2] = outputs[i].kind
             /\ parts[i][3] = outputs[i].address
  <2>1. outputs[i] \in [amount : V, kind : V, address : V]
    BY ElementOfSeq
  <2>2. parts[i] = <<outputs[i].amount, outputs[i].kind, outputs[i].address>>
    BY <1>1 DEF Triples
  <2> HIDE DEF parts
  <2> QED BY <2>1, <2>2
<1>3. parts = [i \in 1 .. n |-> parts[i]]
  BY <1>1 DEF Triples
<1>4. parts \in Seq(Seq(V)) /\ Len(parts) = n
  <2> HIDE DEF parts, n
  <2>1. parts \in [1 .. n -> Seq(V)]
    BY <1>2, <1>3
  <2> QED BY <1>1, <2>1
<1>5. CASE n = 0
  <2>1. flat = <<>>
    <3> HIDE DEF parts, n
    <3>1. parts = <<>>
      BY <1>4, <1>5
    <3> QED BY <3>1 DEF FlattenSeq
  <2>2. <<>> \in Seq(V) /\ Len(<<>>) = 0 /\ \A i \in 1 .. 0 : FALSE
    OBVIOUS
  <2> HIDE DEF flat
  <2> QED BY <1>5, <2>1, <2>2 DEF flat
<1>6. CASE n # 0
  <2>1. parts # <<>>
    <3> HIDE DEF parts, n
    <3> QED BY <1>4, <1>6
  <2>2. PICK at \in [1 .. Len(parts) -> Nat] :
              /\ at[1] = 0
              /\ at[Len(parts)] + Len(parts[Len(parts)]) = Len(flat)
              /\ \A i \in 1 .. Len(parts) - 1 : at[i + 1] = at[i] + Len(parts[i])
              /\ \A i \in 1 .. Len(parts) :
                   /\ at[i] + Len(parts[i]) <= Len(flat)
                   /\ \A k \in 1 .. Len(parts[i]) : flat[at[i] + k] = parts[i][k]
    <3> HIDE DEF parts, n
    <3> QED BY <1>4, <2>1, FlattenParts
  <2>3. flat \in Seq(V)
    <3> HIDE DEF parts, n
    <3> QED BY <1>4, <2>1, FlattenParts
  <2> HIDE DEF parts, n, flat
  <2>0. /\ at[1] = 0
        /\ at[n] + Len(parts[n]) = Len(flat)
        /\ \A i \in 1 .. n - 1 : at[i + 1] = at[i] + Len(parts[i])
        /\ \A i \in 1 .. n : /\ at[i] \in Nat
                            /\ \A k \in 1 .. Len(parts[i]) : flat[at[i] + k] = parts[i][k]
    BY <1>4, <2>2
  <2> DEFINE P(m) == m + 1 \in 1 .. n => at[m + 1] = 3 * m
  <2>4. P(0)
    BY <2>0
  <2>5. ASSUME NEW m \in Nat, P(m) PROVE P(m + 1)
    <3>1. SUFFICES ASSUME m + 2 \in 1 .. n PROVE at[m + 2] = 3 * (m + 1)
      <4>1. m + 1 + 1 = m + 2
        OBVIOUS
      <4> QED BY <4>1
    <3>2. m + 1 \in 1 .. n /\ m + 1 \in 1 .. n - 1 /\ m + 1 + 1 = m + 2
      BY <1>1, <3>1
    <3>3. at[m + 2] = at[m + 1] + 3
      BY <1>2, <2>0, <3>2
    <3> QED BY <2>5, <3>2, <3>3
  <2>6. ASSUME NEW i \in 1 .. n PROVE at[i] = 3 * (i - 1)
    <3>1. \A m \in Nat : P(m)
      <4> HIDE DEF P
      <4> DEFINE T == {m \in Nat : P(m)}
      <4>1. T \in SUBSET Nat /\ 0 \in T /\ \A m \in T : m + 1 \in T
        BY <2>4, <2>5
      <4>2. \A m \in Nat : m \in T
        <5> HIDE DEF T
        <5> QED BY <4>1, NatSet
      <4> QED BY <4>2
    <3>2. i - 1 \in Nat /\ i - 1 + 1 = i
      BY <1>1
    <3>3. P(i - 1)
      <4> HIDE DEF P
      <4> QED BY <3>1, <3>2
    <3> QED BY <3>2, <3>3
  <2>7. ASSUME NEW i \in 1 .. n
        PROVE  /\ flat[3 * i - 2] = outputs[i].amount
               /\ flat[3 * i - 1] = outputs[i].kind
               /\ flat[3 * i] = outputs[i].address
    <3>1. \A k \in 1 .. 3 : flat[at[i] + k] = parts[i][k]
      BY <1>2, <2>0
    <3>2. flat[at[i] + 1] = parts[i][1] /\ flat[at[i] + 2] = parts[i][2]
            /\ flat[at[i] + 3] = parts[i][3]
      BY <3>1
    <3>3. at[i] + 1 = 3 * i - 2 /\ at[i] + 2 = 3 * i - 1 /\ at[i] + 3 = 3 * i
      BY <1>1, <2>6
    <3> QED BY <1>2, <3>2, <3>3
  <2>8. Len(flat) = 3 * n
    <3>1. n \in 1 .. n
      BY <1>1, <1>6
    <3>2. at[n] = 3 * (n - 1) /\ Len(parts[n]) = 3
      BY <1>2, <2>6, <3>1
    <3> QED BY <1>1, <2>0, <3>2
  <2> QED BY <2>3, <2>7, <2>8 DEF flat, n, parts
<1> QED BY <1>5, <1>6

\* Utx0UnlockPayload: what is parsed is what was written.
THEOREM PayloadRoundTrip ==
  ASSUME NEW A, NEW B, NEW outputs \in Seq([amount : A, kind : AddressTypes, address : B]),
         NEW chain, NEW index
  PROVE  LET payload == [chain |-> chain, index |-> index, outputs |-> outputs]
         IN  ParsePayload(PayloadBytes(payload)) = Some(payload)
<1> DEFINE payload == [chain |-> chain, index |-> index, outputs |-> outputs]
           n    == Len(outputs)
           V    == A \cup B \cup AddressTypes \cup {"UTX0", chain, index, n}
           flat == FlattenSeq(Triples(outputs))
           head == <<"UTX0", chain, index, n>>
           bytes == head \o flat
<1>1. n \in Nat /\ DOMAIN outputs = 1 .. n
      /\ \A i \in 1 .. n : outputs[i] \in [amount : A, kind : AddressTypes, address : B]
  <2> DEFINE R == [amount : A, kind : AddressTypes, address : B]
  <2>1. outputs \in Seq(R)
    OBVIOUS
  <2> HIDE DEF R
  <2>2. n \in Nat /\ DOMAIN outputs = 1 .. n /\ \A i \in 1 .. n : outputs[i] \in R
    BY <2>1, LenProperties, ElementOfSeq
  <2> QED BY <2>2 DEF R
<1>2. PayloadBytes(payload) = bytes
  <2>1. payload.outputs = outputs /\ payload.chain = chain /\ payload.index = index
    OBVIOUS
  <2> HIDE DEF payload
  <2> QED BY <2>1 DEF PayloadBytes, Triples
<1>3. /\ flat \in Seq(V) /\ Len(flat) = 3 * n
      /\ \A i \in 1 .. n : /\ flat[3 * i - 2] = outputs[i].amount
                           /\ flat[3 * i - 1] = outputs[i].kind
                           /\ flat[3 * i] = outputs[i].address
  <2>1. A \subseteq V /\ B \subseteq V /\ AddressTypes \subseteq V
    OBVIOUS
  <2> HIDE DEF V
  <2>2. [amount : A, kind : AddressTypes, address : B]
          \subseteq [amount : V, kind : V, address : V]
    BY <2>1
  <2>3. outputs \in Seq([amount : V, kind : V, address : V])
    BY <2>2, SeqMonotonic
  <2> QED BY <2>3, TriplePlaces
<1>4. /\ head \in Seq(V) /\ Len(head) = 4
      /\ head[1] = "UTX0" /\ head[2] = chain /\ head[3] = index /\ head[4] = n
  <2>1. "UTX0" \in V /\ chain \in V /\ index \in V /\ n \in V
    OBVIOUS
  <2> HIDE DEF V, n
  <2> QED BY <2>1
<1> HIDE DEF n, V, flat, head
<1>5. /\ Len(bytes) = 4 + 3 * n
      /\ bytes[1] = "UTX0" /\ bytes[2] = chain /\ bytes[3] = index /\ bytes[4] = n
      /\ \A k \in 1 .. 3 * n : bytes[4 + k] = flat[k]
  <2>1. /\ Len(bytes) = Len(head) + Len(flat)
        /\ \A k \in 1 .. Len(head) : bytes[k] = head[k]
        /\ \A k \in 1 .. Len(flat) : bytes[Len(head) + k] = flat[k]
    <3>1. head \in Seq(V) /\ flat \in Seq(V)
      BY <1>3, <1>4
    <3>2. /\ Len(head \o flat) = Len(head) + Len(flat)
          /\ \A k \in 1 .. Len(head) : (head \o flat)[k] = head[k]
          /\ \A k \in 1 .. Len(flat) : (head \o flat)[Len(head) + k] = flat[k]
      <4> HIDE DEF bytes
      <4> QED BY <3>1, ConcatPlaces
    <3> QED BY <3>2, Zenon
  <2>2. \A k \in 1 .. 4 : bytes[k] = head[k]
    BY <1>4, <2>1
  <2> HIDE DEF bytes
  <2> QED BY <1>3, <1>4, <2>1, <2>2
<1> HIDE DEF bytes
<1>6. ASSUME NEW i \in 1 .. n
      PROVE  /\ bytes[3 * i + 2] = outputs[i].amount
             /\ bytes[3 * i + 3] = outputs[i].kind
             /\ bytes[3 * i + 4] = outputs[i].address
  <2>1. /\ 3 * i - 2 \in 1 .. 3 * n /\ 3 * i - 1 \in 1 .. 3 * n /\ 3 * i \in 1 .. 3 * n
        /\ 4 + (3 * i - 2) = 3 * i + 2 /\ 4 + (3 * i - 1) = 3 * i + 3 /\ 4 + 3 * i = 3 * i + 4
    BY <1>1
  <2>2. bytes[4 + (3 * i - 2)] = flat[3 * i - 2] /\ bytes[4 + (3 * i - 1)] = flat[3 * i - 1]
          /\ bytes[4 + 3 * i] = flat[3 * i]
    BY <1>5, <2>1
  <2> QED BY <1>3, <2>1, <2>2
<1> DEFINE output(i) == [amount |-> bytes[3 * i + 2], kind |-> bytes[3 * i + 3],
                         address |-> bytes[3 * i + 4]]
<1>7. ASSUME NEW i \in 1 .. n
      PROVE  output(i) = outputs[i] /\ output(i).kind \in AddressTypes
  <2>1. outputs[i] \in [amount : A, kind : AddressTypes, address : B]
    BY <1>1
  <2> QED BY <1>6, <2>1
<1>8. [i \in 1 .. n |-> output(i)] = outputs
  <2> HIDE DEF output
  <2>1. outputs = [i \in 1 .. n |-> outputs[i]]
    BY <1>1 DEF n
  <2> QED BY <1>7, <2>1
<1>9. Len(bytes) >= 4
  BY <1>1, <1>5
<1>10. ParsePayload(bytes) = Some([chain |-> chain, index |-> index, outputs |-> outputs])
  BY <1>5, <1>7, <1>8, <1>9 DEF ParsePayload
<1> QED BY <1>2, <1>10

-----------------------------------------------------------------------------
(* The Managers' signatures. *)

\* Numbers that are all different can be put in order: the place of each is how
\* many are no greater.
LEMMA SortedExists ==
  ASSUME NEW n \in Nat, NEW key \in [1 .. n -> Int],
         \A i, j \in 1 .. n : key[i] = key[j] => i = j
  PROVE  \E p \in [1 .. n -> 1 .. n] :
           \A i, j \in 1 .. n : i < j => key[p[i]] < key[p[j]]
<1> DEFINE below(i) == {j \in 1 .. n : key[j] <= key[i]}
           rank == [i \in 1 .. n |-> Cardinality(below(i))]
<1>1. IsFiniteSet(1 .. n) /\ Cardinality(1 .. n) = n
  BY FS_Interval
<1>2. ASSUME NEW i \in 1 .. n
      PROVE  /\ IsFiniteSet(below(i)) /\ rank[i] = Cardinality(below(i))
             /\ rank[i] \in 1 .. n
  <2>1. below(i) \in SUBSET (1 .. n) /\ i \in below(i)
    OBVIOUS
  <2>2. rank[i] = Cardinality(below(i))
    OBVIOUS
  <2> HIDE DEF below, rank
  <2>3. IsFiniteSet(below(i)) /\ Cardinality(below(i)) <= n
    BY <1>1, <2>1, FS_Subset
  <2>4. Cardinality(below(i)) \in Nat /\ Cardinality(below(i)) # 0
    BY <2>1, <2>3, FS_CardinalityType, FS_EmptySet
  <2> QED BY <2>2, <2>3, <2>4
<1>3. ASSUME NEW i \in 1 .. n, NEW j \in 1 .. n, key[i] < key[j]
      PROVE  rank[i] < rank[j]
  <2>1. below(i) \in SUBSET below(j) /\ j \in below(j) /\ j \notin below(i)
    BY <1>3
  <2>2. below(i) # below(j)
    BY <2>1
  <2> HIDE DEF below, rank
  <2>3. /\ Cardinality(below(i)) <= Cardinality(below(j))
        /\ Cardinality(below(i)) # Cardinality(below(j))
    BY <1>2, <2>1, <2>2, FS_Subset
  <2> QED BY <1>2, <2>3
<1> HIDE DEF rank
<1>4. rank \in [1 .. n -> 1 .. n]
  BY <1>2 DEF rank
<1>5. ASSUME NEW i \in 1 .. n, NEW j \in 1 .. n, rank[i] = rank[j] PROVE i = j
  <2>1. rank[i] \in Int /\ rank[j] \in Int /\ key[i] \in Int /\ key[j] \in Int
    <3>1. rank[i] \in 1 .. n /\ rank[j] \in 1 .. n
      BY <1>4
    <3> HIDE DEF below
    <3> QED BY <3>1
  <2>2. ~(key[i] < key[j]) /\ ~(key[j] < key[i])
    BY <1>3, <1>5, <2>1
  <2> QED BY <2>1, <2>2
<1>6. rank \in Injection(1 .. n, 1 .. n)
  BY <1>4, <1>5 DEF Injection, IsInjective
<1>7. rank \in Surjection(1 .. n, 1 .. n)
  BY <1>1, <1>6, FS_Injection
<1>8. \A k \in 1 .. n : \E i \in 1 .. n : rank[i] = k
  BY <1>7 DEF Surjection
<1> DEFINE p == [k \in 1 .. n |-> CHOOSE i \in 1 .. n : rank[i] = k]
<1>9. ASSUME NEW k \in 1 .. n PROVE p[k] \in 1 .. n /\ rank[p[k]] = k
  BY <1>8
<1>10. p \in [1 .. n -> 1 .. n]
  BY <1>9
<1>11. ASSUME NEW i \in 1 .. n, NEW j \in 1 .. n, i < j PROVE key[p[i]] < key[p[j]]
  <2> HIDE DEF p
  <2>1. p[i] \in 1 .. n /\ p[j] \in 1 .. n /\ rank[p[i]] = i /\ rank[p[j]] = j
    BY <1>9
  <2>2. key[p[i]] \in Int /\ key[p[j]] \in Int
    BY <2>1
  <2>3. key[p[i]] # key[p[j]]
    BY <1>11, <2>1
  <2>4. ~(key[p[j]] < key[p[i]])
    <3>1. ~(j < i)
      BY <1>11
    <3> QED BY <1>3, <2>1, <3>1
  <2> QED BY <2>2, <2>3, <2>4
<1> QED BY <1>10, <1>11

\* Signers that are all different are in order, none is lost and none is made up.
LEMMA InOrderSorted ==
  ASSUME NEW S, NEW signers \in Seq(S), \A k \in DOMAIN signers : signers[k].signer \in Int,
         IsInjective([k \in DOMAIN signers |-> signers[k].signer])
  PROVE  /\ InOrder(signers) \in [DOMAIN signers -> ToSet(signers)]
         /\ \A k, l \in DOMAIN signers :
              k < l => InOrder(signers)[k].signer < InOrder(signers)[l].signer
<1> DEFINE n == Len(signers)
           key == [k \in 1 .. n |-> signers[k].signer]
<1>1. n \in Nat /\ DOMAIN signers = 1 .. n
  OBVIOUS
<1>2. /\ key \in [1 .. n -> Int]
      /\ \A i, j \in 1 .. n : key[i] = key[j] => i = j
  BY <1>1 DEF IsInjective
<1>3. \A k \in 1 .. n : key[k] = signers[k].signer
  OBVIOUS
<1> HIDE DEF n, key
<1>4. PICK p \in [1 .. n -> 1 .. n] :
        \A i, j \in 1 .. n : i < j => key[p[i]] < key[p[j]]
  BY <1>1, <1>2, SortedExists
<1> DEFINE s == [k \in DOMAIN signers |-> signers[p[k]]]
<1>5. s \in [DOMAIN signers -> ToSet(signers)]
  BY <1>1, <1>4 DEF ToSet
<1>6. ASSUME NEW k \in DOMAIN signers, NEW l \in DOMAIN signers, k < l
      PROVE  s[k].signer < s[l].signer
  <2>1. key[p[k]] < key[p[l]] /\ p[k] \in 1 .. n /\ p[l] \in 1 .. n
    BY <1>1, <1>4, <1>6
  <2>2. s[k] = signers[p[k]] /\ s[l] = signers[p[l]]
    OBVIOUS
  <2> QED BY <1>3, <2>1, <2>2
<1> QED BY <1>5, <1>6 DEF InOrder

\* Every input has m signatures of it, under keys of the set, each after the one
\* before it.
UnlockedInOrder(tx, set, signed) ==
  \E who \in [1 .. set.m -> 0 .. Len(set.keys) - 1] :
    /\ \A k, l \in 1 .. set.m : k < l => who[k] < who[l]
    /\ signed = [tx EXCEPT !.inputs = [i \in DOMAIN tx.inputs |->
                   [tx.inputs[i] EXCEPT !.scriptSig =
                      ScriptSig(tx, i, [k \in 1 .. set.m |->
                        Signature(set.keys[who[k] + 1], SighashAll(tx, i))])]]]

\* apply_manager_signatures: what is accepted unlocks every input with m
\* signatures of it, under keys of the set, each after the one before it.
THEOREM SignaturesInOrder ==
  ASSUME NEW S, NEW signers \in Seq(S), \A k \in DOMAIN signers : signers[k].signer \in Nat,
         NEW tx, NEW set, set.m \in Nat, Len(set.keys) \in Nat,
         ApplySignatures(tx, signers, set).ok
  PROVE  UnlockedInOrder(tx, set, ApplySignatures(tx, signers, set).value)
<1> DEFINE digests == [i \in DOMAIN tx.inputs |-> SighashAll(tx, i)]
           s == InOrder(signers)
<1>1. /\ IsInjective([k \in DOMAIN signers |-> signers[k].signer])
      /\ \A k \in DOMAIN signers : SignerValid(digests, signers[k], set)
      /\ Len(signers) >= set.m
      /\ ApplySignatures(tx, signers, set).value =
           [tx EXCEPT !.inputs = [i \in DOMAIN tx.inputs |->
              [tx.inputs[i] EXCEPT !.scriptSig =
                 ScriptSig(tx, i, [k \in 1 .. set.m |-> s[k].signatures[i]])]]]
  BY DEF ApplySignatures, Some, None
<1>2. /\ s \in [DOMAIN signers -> ToSet(signers)]
      /\ \A k, l \in DOMAIN signers : k < l => s[k].signer < s[l].signer
  <2>1. \A k \in DOMAIN signers : signers[k].signer \in Int
    OBVIOUS
  <2> QED BY <1>1, <2>1, InOrderSorted
<1>3. 1 .. set.m \subseteq DOMAIN signers
  <2>1. DOMAIN signers = 1 .. Len(signers) /\ Len(signers) \in Nat
    OBVIOUS
  <2> QED BY <1>1, <2>1
<1> HIDE DEF s, digests
<1>4. ASSUME NEW k \in 1 .. set.m
      PROVE  /\ s[k].signer \in 0 .. Len(set.keys) - 1
             /\ s[k].signatures = [i \in DOMAIN digests |->
                                     Signature(set.keys[s[k].signer + 1], digests[i])]
  <2>1. PICK l \in DOMAIN signers : s[k] = signers[l]
    BY <1>2, <1>3 DEF ToSet
  <2>2. SignerValid(digests, s[k], set) /\ s[k].signer \in Nat
    BY <1>1, <2>1
  <2> QED BY <2>2 DEF SignerValid
<1> DEFINE who == [k \in 1 .. set.m |-> s[k].signer]
<1>5. who \in [1 .. set.m -> 0 .. Len(set.keys) - 1]
  BY <1>4
<1>6. \A k, l \in 1 .. set.m : k < l => who[k] < who[l]
  BY <1>2, <1>3
<1>7. ASSUME NEW k \in 1 .. set.m, NEW i \in DOMAIN tx.inputs
      PROVE  s[k].signatures[i] = Signature(set.keys[who[k] + 1], SighashAll(tx, i))
  BY <1>4 DEF digests
<1> HIDE DEF who
<1>8. ASSUME NEW i \in DOMAIN tx.inputs
      PROVE  [k \in 1 .. set.m |-> s[k].signatures[i]] =
               [k \in 1 .. set.m |-> Signature(set.keys[who[k] + 1], SighashAll(tx, i))]
  BY <1>7
<1>9. [i \in DOMAIN tx.inputs |-> [tx.inputs[i] EXCEPT !.scriptSig =
         ScriptSig(tx, i, [k \in 1 .. set.m |-> s[k].signatures[i]])]] =
      [i \in DOMAIN tx.inputs |-> [tx.inputs[i] EXCEPT !.scriptSig =
         ScriptSig(tx, i, [k \in 1 .. set.m |->
                             Signature(set.keys[who[k] + 1], SighashAll(tx, i))])]]
  BY <1>8
<1> QED BY <1>1, <1>5, <1>6, <1>9 DEF UnlockedInOrder

-----------------------------------------------------------------------------
(* Encodings of transactions. *)

\* What an input and an output of a transaction become.
InputParts(tx) ==
  [i \in DOMAIN tx.inputs |->
     <<tx.inputs[i].txid, tx.inputs[i].vout>> \o Count(Len(tx.inputs[i].scriptSig))
       \o tx.inputs[i].scriptSig \o <<tx.inputs[i].sequence>>]
OutputParts(tx) ==
  [i \in DOMAIN tx.outputs |->
     <<tx.outputs[i].amount>>
       \o Count(Len(ScriptPubKey(tx.outputs[i].kind, tx.outputs[i].address)))
       \o ScriptPubKey(tx.outputs[i].kind, tx.outputs[i].address)]

\* Transactions, their fields taken from V.
IsTx(tx, V) ==
  /\ Int \subseteq V
  /\ tx.version \in V /\ tx.locktime \in V
  /\ tx.inputs # <<>> /\ tx.outputs # <<>>
  /\ tx.inputs \in Seq([txid : V, vout : V, scriptSig : Seq(V), sequence : V])
  /\ tx.outputs \in Seq([amount : V, kind : AddressTypes, address : V])

\* One integer for a small count, a mark and the count for a large one.
LEMMA CountForms ==
  ASSUME NEW n \in Nat
  PROVE  /\ n <= CountByte => Count(n) = <<n>>
         /\ n > CountByte => \E mark \in Int : mark > CountByte /\ Count(n) = <<mark, n>>
         /\ Count(n) \in Seq(Int) /\ Len(Count(n)) \in {1, 2}
<1>1. n <= CountByte => Count(n) = <<n>>
  BY CountsAssumption DEF Count
<1>2. n > CountByte => \E mark \in Int : mark > CountByte /\ Count(n) = <<mark, n>>
  <2>1. SUFFICES ASSUME n > CountByte
                 PROVE  \E mark \in Int : mark > CountByte /\ Count(n) = <<mark, n>>
    OBVIOUS
  <2>2. CASE n <= CountU16
    <3>1. Count(n) = <<CountByte + 1, n>>
      BY <2>1, <2>2, CountsAssumption DEF Count
    <3> QED BY <3>1, CountsAssumption
  <2>3. CASE n > CountU16 /\ n <= CountU32
    <3>1. Count(n) = <<CountByte + 2, n>>
      BY <2>1, <2>3, CountsAssumption DEF Count
    <3> QED BY <3>1, CountsAssumption
  <2>4. CASE n > CountU32
    <3>1. Count(n) = <<CountByte + 3, n>>
      BY <2>1, <2>4, CountsAssumption DEF Count
    <3> QED BY <3>1, CountsAssumption
  <2> QED BY <2>1, <2>2, <2>3, <2>4, CountsAssumption
<1>3. Count(n) \in Seq(Int) /\ Len(Count(n)) \in {1, 2}
  <2>1. CASE n <= CountByte
    <3>1. Count(n) = <<n>>
      BY <1>1, <2>1
    <3> QED BY <3>1
  <2>2. CASE n > CountByte
    <3>1. PICK mark \in Int : mark > CountByte /\ Count(n) = <<mark, n>>
      BY <1>2, <2>2
    <3> QED BY <3>1
  <2> QED BY <2>1, <2>2, CountsAssumption
<1> QED BY <1>1, <1>2, <1>3

LEMMA FunctionIsSeq ==
  ASSUME NEW n \in Nat \ {0}, NEW S, NEW f, f = [i \in 1 .. n |-> f[i]],
         \A i \in 1 .. n : f[i] \in S
  PROVE  f \in Seq(S) /\ Len(f) = n /\ f # <<>>
<1>1. f \in [1 .. n -> S]
  OBVIOUS
<1> QED BY <1>1

LEMMA IntsOf ==
  ASSUME NEW V, Int \subseteq V, NEW s \in Seq(Int)
  PROVE  s \in Seq(V)
OBVIOUS

\* The script of an output, and what the output becomes.
LEMMA ScriptForms ==
  ASSUME NEW V, Int \subseteq V, NEW kind \in AddressTypes, NEW address \in V
  PROVE  /\ ScriptPubKey(kind, address) \in Seq(V)
         /\ Len(ScriptPubKey(kind, address)) \in 4 .. 6
         /\ kind = P2pkh => /\ ScriptPubKey(kind, address) = <<118, 169, 20, address, 136, 172>>
                            /\ Len(ScriptPubKey(kind, address)) = 6
         /\ kind # P2pkh => /\ ScriptPubKey(kind, address) = <<169, 20, address, 135>>
                            /\ Len(ScriptPubKey(kind, address)) = 4
<1>1. 118 \in V /\ 169 \in V /\ 20 \in V /\ 136 \in V /\ 172 \in V /\ 135 \in V
  OBVIOUS
<1>2. CASE kind = P2pkh
  BY <1>1, <1>2 DEF ScriptPubKey
<1>3. CASE kind # P2pkh
  BY <1>1, <1>3 DEF ScriptPubKey
<1> QED BY <1>2, <1>3

\* The parts of an encoding are sequences of fields, and so is the whole.
LEMMA WireParts ==
  ASSUME NEW V, NEW tx, IsTx(tx, V)
  PROVE  /\ InputParts(tx) \in Seq(Seq(V)) /\ OutputParts(tx) \in Seq(Seq(V))
         /\ Len(InputParts(tx)) = Len(tx.inputs) /\ Len(OutputParts(tx)) = Len(tx.outputs)
         /\ FlattenSeq(InputParts(tx)) \in Seq(V) /\ FlattenSeq(OutputParts(tx)) \in Seq(V)
         /\ Wire(tx) = <<tx.version>> \o Count(Len(tx.inputs)) \o FlattenSeq(InputParts(tx))
                         \o Count(Len(tx.outputs)) \o FlattenSeq(OutputParts(tx))
                         \o <<tx.locktime>>
<1> DEFINE n == Len(tx.inputs)
           m == Len(tx.outputs)
           IN_ == [txid : V, vout : V, scriptSig : Seq(V), sequence : V]
           OUT_ == [amount : V, kind : AddressTypes, address : V]
<1>1. /\ n \in Nat /\ DOMAIN tx.inputs = 1 .. n /\ n # 0
      /\ m \in Nat /\ DOMAIN tx.outputs = 1 .. m /\ m # 0
  BY DEF IsTx
<1>2. ASSUME NEW i \in 1 .. n PROVE InputParts(tx)[i] \in Seq(V)
  <2>1. tx.inputs[i] \in IN_
    <3> HIDE DEF IN_
    <3> QED BY <1>1, ElementOfSeq DEF IsTx, IN_
  <2>2. /\ <<tx.inputs[i].txid, tx.inputs[i].vout>> \in Seq(V)
        /\ tx.inputs[i].scriptSig \in Seq(V)
        /\ <<tx.inputs[i].sequence>> \in Seq(V)
    BY <2>1
  <2>3. Count(Len(tx.inputs[i].scriptSig)) \in Seq(V)
    <3>1. Len(tx.inputs[i].scriptSig) \in Nat
      BY <2>2
    <3>2. Int \subseteq V
      BY DEF IsTx
    <3> QED BY <3>1, <3>2, CountForms, IntsOf
  <2>4. InputParts(tx)[i] =
          <<tx.inputs[i].txid, tx.inputs[i].vout>> \o Count(Len(tx.inputs[i].scriptSig))
            \o tx.inputs[i].scriptSig \o <<tx.inputs[i].sequence>>
    BY <1>1 DEF InputParts
  <2> QED BY <2>2, <2>3, <2>4, ConcatProperties
<1>3. ASSUME NEW i \in 1 .. m PROVE OutputParts(tx)[i] \in Seq(V)
  <2> DEFINE script == ScriptPubKey(tx.outputs[i].kind, tx.outputs[i].address)
  <2>1. tx.outputs[i] \in OUT_
    <3> HIDE DEF OUT_
    <3> QED BY <1>1, ElementOfSeq DEF IsTx, OUT_
  <2>2. Int \subseteq V /\ <<tx.outputs[i].amount>> \in Seq(V)
          /\ tx.outputs[i].kind \in AddressTypes /\ tx.outputs[i].address \in V
    BY <2>1 DEF IsTx
  <2>3. script \in Seq(V) /\ Len(script) \in Nat
    <3>1. script \in Seq(V)
      BY <2>2, ScriptForms
    <3> HIDE DEF script
    <3> QED BY <3>1
  <2>4. Count(Len(script)) \in Seq(V)
    <3> HIDE DEF script
    <3> QED BY <2>2, <2>3, CountForms, IntsOf
  <2>5. OutputParts(tx)[i] = <<tx.outputs[i].amount>> \o Count(Len(script)) \o script
    BY <1>1 DEF OutputParts
  <2> HIDE DEF script
  <2> QED BY <2>2, <2>3, <2>4, <2>5, ConcatProperties
<1>4. InputParts(tx) \in Seq(Seq(V)) /\ Len(InputParts(tx)) = n /\ InputParts(tx) # <<>>
  <2>1. InputParts(tx) = [i \in 1 .. n |-> InputParts(tx)[i]]
    BY <1>1 DEF InputParts
  <2> HIDE DEF n
  <2> QED BY <1>1, <1>2, <2>1, FunctionIsSeq
<1>5. OutputParts(tx) \in Seq(Seq(V)) /\ Len(OutputParts(tx)) = m /\ OutputParts(tx) # <<>>
  <2>1. OutputParts(tx) = [i \in 1 .. m |-> OutputParts(tx)[i]]
    BY <1>1 DEF OutputParts
  <2> HIDE DEF m
  <2> QED BY <1>1, <1>3, <2>1, FunctionIsSeq
<1>6. FlattenSeq(InputParts(tx)) \in Seq(V) /\ FlattenSeq(OutputParts(tx)) \in Seq(V)
  BY <1>4, <1>5, FlattenParts
<1>7. Wire(tx) = <<tx.version>> \o Count(n) \o FlattenSeq(InputParts(tx))
                   \o Count(m) \o FlattenSeq(OutputParts(tx)) \o <<tx.locktime>>
  BY DEF Wire, InputParts, OutputParts
<1> QED BY <1>4, <1>5, <1>6, <1>7

\* A part stands in a sequence after so many elements.
StandsAt(whole, at, part) == \A k \in 1 .. Len(part) : whole[at + k] = part[k]

\* What stands in a sequence does in a longer one.
Keeps(s, longer) ==
  \A p, at, end : /\ StandsAt(s, at, p) /\ at \in Nat /\ Len(p) \in Nat
                  /\ end = at + Len(p) /\ end <= Len(s)
                  => StandsAt(longer, at, p)

\* So it is when a sequence is extended, and what is new stands there as well.
LEMMA Extended ==
  ASSUME NEW V, NEW s \in Seq(V), NEW t \in Seq(V)
  PROVE  /\ s \o t \in Seq(V) /\ Len(s \o t) = Len(s) + Len(t)
         /\ Len(s) \in Nat /\ Len(t) \in Nat
         /\ StandsAt(s \o t, Len(s), t)
         /\ Keeps(s, s \o t)
<1>1. /\ s \o t \in Seq(V) /\ Len(s \o t) = Len(s) + Len(t)
      /\ Len(s) \in Nat /\ Len(t) \in Nat
      /\ \A k \in 1 .. Len(s) : (s \o t)[k] = s[k]
      /\ \A k \in 1 .. Len(t) : (s \o t)[Len(s) + k] = t[k]
  BY ConcatPlaces
<1>2. ASSUME NEW p, NEW at \in Nat, StandsAt(s, at, p), Len(p) \in Nat,
             at + Len(p) <= Len(s)
      PROVE  StandsAt(s \o t, at, p)
  <2>1. ASSUME NEW k \in 1 .. Len(p) PROVE (s \o t)[at + k] = p[k]
    <3>1. at + k \in 1 .. Len(s)
      BY <1>1, <1>2, Within
    <3> QED BY <1>1, <1>2, <3>1 DEF StandsAt
  <2> QED BY <2>1 DEF StandsAt
<1> QED BY <1>1, <1>2 DEF StandsAt, Keeps

LEMMA AtStart ==
  ASSUME NEW V, NEW s \in Seq(V)
  PROVE  StandsAt(s, 0, s)
BY DEF StandsAt

\* Where the parts of a concatenation of six stand in it.
PlacesOfSix(a, b, c, d, e, z, V) ==
  LET whole == a \o b \o c \o d \o e \o z
      ab    == Len(a) + Len(b)
      abc   == ab + Len(c)
      abcd  == abc + Len(d)
      abcde == abcd + Len(e)
  IN  /\ whole \in Seq(V) /\ Len(whole) = abcde + Len(z)
      /\ Len(a) \in Nat /\ ab \in Nat /\ abc \in Nat /\ abcd \in Nat /\ abcde \in Nat
      /\ StandsAt(whole, 0, a) /\ StandsAt(whole, Len(a), b) /\ StandsAt(whole, ab, c)
      /\ StandsAt(whole, abc, d) /\ StandsAt(whole, abcd, e) /\ StandsAt(whole, abcde, z)

LEMMA SixPlaces ==
  ASSUME NEW V, NEW a \in Seq(V), NEW b \in Seq(V), NEW c \in Seq(V), NEW d \in Seq(V),
         NEW e \in Seq(V), NEW z \in Seq(V)
  PROVE  PlacesOfSix(a, b, c, d, e, z, V)
<1> DEFINE ab    == Len(a) + Len(b)
           abc   == ab + Len(c)
           abcd  == abc + Len(d)
           abcde == abcd + Len(e)
           w2 == a \o b
           w3 == w2 \o c
           w4 == w3 \o d
           w5 == w4 \o e
           whole == w5 \o z
<1>1. /\ Len(a) \in Nat /\ Len(b) \in Nat /\ Len(c) \in Nat /\ Len(d) \in Nat
      /\ Len(e) \in Nat /\ Len(z) \in Nat
  BY LenProperties
<1>2. /\ ab \in Nat /\ abc \in Nat /\ abcd \in Nat /\ abcde \in Nat
      /\ Len(a) <= ab /\ Len(a) <= abc /\ Len(a) <= abcd /\ Len(a) <= abcde
      /\ ab <= abc /\ ab <= abcd /\ ab <= abcde
      /\ abc <= abcd /\ abc <= abcde /\ abcd <= abcde
      /\ 0 + Len(a) = Len(a) /\ 0 \in Nat
      /\ Len(a) <= Len(a) /\ ab <= ab /\ abc <= abc /\ abcd <= abcd /\ abcde <= abcde
  BY <1>1
<1>10. /\ ab = Len(a) + Len(b) /\ abc = ab + Len(c) /\ abcd = abc + Len(d)
      /\ abcde = abcd + Len(e)
  OBVIOUS
<1> HIDE DEF ab, abc, abcd, abcde, w2, w3, w4, w5, whole
<1>3. StandsAt(a, 0, a)
  BY AtStart
<1>4. /\ w2 \in Seq(V) /\ Len(w2) = ab
      /\ StandsAt(w2, 0, a)
      /\ StandsAt(w2, Len(a), b)
  <2>1. /\ a \o b \in Seq(V) /\ Len(a \o b) = Len(a) + Len(b)
        /\ StandsAt(a \o b, Len(a), b) /\ Keeps(a, a \o b)
    BY <1>3, Extended
  <2>2. /\ w2 \in Seq(V) /\ Len(w2) = ab
        /\ StandsAt(w2, Len(a), b) /\ Keeps(a, w2)
    BY <1>10, <1>3, <2>1 DEF w2
  <2> QED BY <1>1, <1>2, <1>10, <1>3, <2>2, Zenon DEF Keeps
<1>5. /\ w3 \in Seq(V) /\ Len(w3) = abc
      /\ StandsAt(w3, 0, a)
      /\ StandsAt(w3, Len(a), b)
      /\ StandsAt(w3, ab, c)
  <2>1. /\ w2 \o c \in Seq(V) /\ Len(w2 \o c) = Len(w2) + Len(c)
        /\ StandsAt(w2 \o c, Len(w2), c) /\ Keeps(w2, w2 \o c)
    BY <1>4, Extended
  <2>2. /\ w3 \in Seq(V) /\ Len(w3) = abc
        /\ StandsAt(w3, ab, c) /\ Keeps(w2, w3)
    BY <1>10, <1>4, <2>1 DEF w3
  <2> QED BY <1>1, <1>2, <1>10, <1>4, <2>2, Zenon DEF Keeps
<1>6. /\ w4 \in Seq(V) /\ Len(w4) = abcd
      /\ StandsAt(w4, 0, a)
      /\ StandsAt(w4, Len(a), b)
      /\ StandsAt(w4, ab, c)
      /\ StandsAt(w4, abc, d)
  <2>1. /\ w3 \o d \in Seq(V) /\ Len(w3 \o d) = Len(w3) + Len(d)
        /\ StandsAt(w3 \o d, Len(w3), d) /\ Keeps(w3, w3 \o d)
    BY <1>5, Extended
  <2>2. /\ w4 \in Seq(V) /\ Len(w4) = abcd
        /\ StandsAt(w4, abc, d) /\ Keeps(w3, w4)
    BY <1>10, <1>5, <2>1 DEF w4
  <2> QED BY <1>1, <1>2, <1>10, <1>5, <2>2, Zenon DEF Keeps
<1>7. /\ w5 \in Seq(V) /\ Len(w5) = abcde
      /\ StandsAt(w5, 0, a)
      /\ StandsAt(w5, Len(a), b)
      /\ StandsAt(w5, ab, c)
      /\ StandsAt(w5, abc, d)
      /\ StandsAt(w5, abcd, e)
  <2>1. /\ w4 \o e \in Seq(V) /\ Len(w4 \o e) = Len(w4) + Len(e)
        /\ StandsAt(w4 \o e, Len(w4), e) /\ Keeps(w4, w4 \o e)
    BY <1>6, Extended
  <2>2. /\ w5 \in Seq(V) /\ Len(w5) = abcde
        /\ StandsAt(w5, abcd, e) /\ Keeps(w4, w5)
    BY <1>10, <1>6, <2>1 DEF w5
  <2> QED BY <1>1, <1>2, <1>10, <1>6, <2>2, Zenon DEF Keeps
<1>8. /\ whole \in Seq(V) /\ Len(whole) = abcde + Len(z)
      /\ StandsAt(whole, 0, a)
      /\ StandsAt(whole, Len(a), b)
      /\ StandsAt(whole, ab, c)
      /\ StandsAt(whole, abc, d)
      /\ StandsAt(whole, abcd, e)
      /\ StandsAt(whole, abcde, z)
  <2>1. /\ w5 \o z \in Seq(V) /\ Len(w5 \o z) = Len(w5) + Len(z)
        /\ StandsAt(w5 \o z, Len(w5), z) /\ Keeps(w5, w5 \o z)
    BY <1>7, Extended
  <2>2. /\ whole \in Seq(V) /\ Len(whole) = abcde + Len(z)
        /\ StandsAt(whole, abcde, z) /\ Keeps(w5, whole)
    BY <1>10, <1>7, <2>1 DEF whole
  <2> QED BY <1>1, <1>2, <1>10, <1>7, <2>2, Zenon DEF Keeps
<1> QED
  BY <1>1, <1>2, <1>8 DEF PlacesOfSix, ab, abc, abcd, abcde, w2, w3, w4, w5, whole

\* Where the parts of an encoding stand in it: the inputs after header elements,
\* the outputs after `out` elements.
Header(tx)     == 1 + Len(Count(Len(tx.inputs)))
InputsEnd(tx)  == Header(tx) + Len(FlattenSeq(InputParts(tx)))
OutputsAt(tx)  == InputsEnd(tx) + Len(Count(Len(tx.outputs)))
OutputsEnd(tx) == OutputsAt(tx) + Len(FlattenSeq(OutputParts(tx)))
WireStands(tx, V) ==
  /\ Wire(tx) \in Seq(V) /\ Len(Wire(tx)) = OutputsEnd(tx) + 1
  /\ Len(tx.inputs) \in Nat /\ Len(tx.outputs) \in Nat
  /\ Header(tx) \in Nat /\ InputsEnd(tx) \in Nat
  /\ OutputsAt(tx) \in Nat /\ OutputsEnd(tx) \in Nat
  /\ Wire(tx)[1] = tx.version /\ Wire(tx)[OutputsEnd(tx) + 1] = tx.locktime
  /\ StandsAt(Wire(tx), 1, Count(Len(tx.inputs)))
  /\ StandsAt(Wire(tx), Header(tx), FlattenSeq(InputParts(tx)))
  /\ StandsAt(Wire(tx), InputsEnd(tx), Count(Len(tx.outputs)))
  /\ StandsAt(Wire(tx), OutputsAt(tx), FlattenSeq(OutputParts(tx)))

LEMMA WirePlaces ==
  ASSUME NEW V, NEW tx, IsTx(tx, V)
  PROVE  WireStands(tx, V)
<1> DEFINE n == Len(tx.inputs)
           m == Len(tx.outputs)
           I == FlattenSeq(InputParts(tx))
           O == FlattenSeq(OutputParts(tx))
           h == 1 + Len(Count(n))
           hi == h + Len(I)
           g == hi + Len(Count(m))
           go == g + Len(O)
<1>6. /\ n = Len(tx.inputs) /\ m = Len(tx.outputs)
      /\ I = FlattenSeq(InputParts(tx)) /\ O = FlattenSeq(OutputParts(tx))
  OBVIOUS
<1> HIDE DEF n, m, I, O
<1>7. h = 1 + Len(Count(n)) /\ hi = h + Len(I) /\ g = hi + Len(Count(m)) /\ go = g + Len(O)
  OBVIOUS
<1> HIDE DEF h, hi, g, go
<1> DEFINE a == <<tx.version>>
           b == Count(n)
           d == Count(m)
           z == <<tx.locktime>>
           whole == Wire(tx)
<1>2. /\ n \in Nat /\ m \in Nat /\ Int \subseteq V
      /\ a \in Seq(V) /\ Len(a) = 1 /\ a[1] = tx.version
      /\ z \in Seq(V) /\ Len(z) = 1 /\ z[1] = tx.locktime
  BY <1>6 DEF IsTx
<1>3. b \in Seq(V) /\ d \in Seq(V)
  BY <1>2, CountForms, IntsOf
<1>4. I \in Seq(V) /\ O \in Seq(V) /\ whole = a \o b \o I \o d \o O \o z
  BY <1>6, WireParts
<1>5. h = Len(a) + Len(b) /\ hi = h + Len(I) /\ g = hi + Len(d) /\ go = g + Len(O)
  BY <1>2, <1>7
<1> HIDE DEF a, b, d, z, whole
<1>1. PlacesOfSix(a, b, I, d, O, z, V)
  BY <1>2, <1>3, <1>4, SixPlaces
<1>9. /\ whole \in Seq(V) /\ Len(whole) = go + Len(z)
      /\ h \in Nat /\ hi \in Nat /\ g \in Nat /\ go \in Nat
      /\ StandsAt(whole, go, z) /\ StandsAt(whole, g, O)
      /\ StandsAt(whole, hi, d) /\ StandsAt(whole, h, I)
      /\ StandsAt(whole, Len(a), b) /\ StandsAt(whole, 0, a)
  BY <1>4, <1>5, <1>1 DEF PlacesOfSix
<1>10. whole[1] = tx.version /\ whole[go + 1] = tx.locktime
  <2>1. 1 \in 1 .. Len(a) /\ 1 \in 1 .. Len(z) /\ 0 + 1 = 1
    BY <1>2
  <2>2. whole[0 + 1] = a[1] /\ whole[go + 1] = z[1]
    BY <1>9, <2>1, Zenon DEF StandsAt
  <2> QED BY <1>2, <2>1, <2>2
<1>11. StandsAt(whole, 1, b)
  BY <1>9, <1>2
<1>12. h = Header(tx) /\ hi = InputsEnd(tx) /\ g = OutputsAt(tx) /\ go = OutputsEnd(tx)
  BY <1>6, <1>7 DEF Header, InputsEnd, OutputsAt, OutputsEnd
<1>13. Len(whole) = go + 1
  BY <1>2, <1>9
<1> QED BY <1>2, <1>6, <1>9, <1>10, <1>11, <1>12, <1>13 DEF WireStands, whole, b, d

-----------------------------------------------------------------------------
(* Reading an encoding. *)

\* A count is read where it stands.
LEMMA CountIsRead ==
  ASSUME NEW V, Int \subseteq V, NEW bytes \in Seq(V), NEW n \in Nat, NEW p \in Nat,
         StandsAt(bytes, p, Count(n)), p + Len(Count(n)) <= Len(bytes)
  PROVE  ReadCount(bytes, p + 1) = [n |-> n, next |-> p + 1 + Len(Count(n))]
<1>1. DOMAIN bytes = 1 .. Len(bytes) /\ Len(bytes) \in Nat
  OBVIOUS
<1>2. CASE n <= CountByte
  <2>1. Count(n) = <<n>>
    BY <1>2, CountForms
  <2>2. Len(Count(n)) = 1 /\ bytes[p + 1] = n /\ p + 1 \in DOMAIN bytes
    BY <1>1, <2>1 DEF StandsAt
  <2> QED BY <1>2, <2>2 DEF ReadCount
<1>3. CASE n > CountByte
  <2>1. PICK mark \in Int : mark > CountByte /\ Count(n) = <<mark, n>>
    BY <1>3, CountForms
  <2>2. Len(Count(n)) = 2 /\ bytes[p + 1] = mark /\ bytes[p + 2] = n
          /\ p + 1 \in DOMAIN bytes /\ p + 1 + 1 \in DOMAIN bytes
    BY <1>1, <2>1 DEF StandsAt
  <2>3. ~ (bytes[p + 1] <= CountByte) /\ p + 1 + 1 = p + 2
    BY <2>1, <2>2, CountsAssumption
  <2>4. Count(bytes[p + 1 + 1]) = <<bytes[p + 1], bytes[p + 1 + 1]>>
    BY <2>1, <2>2, <2>3
  <2>5. p + 1 + 2 = p + 1 + Len(Count(n))
    BY <2>2
  <2> QED BY <2>2, <2>3, <2>4, <2>5 DEF ReadCount
<1> QED BY <1>2, <1>3, CountsAssumption

\* A slice of a sequence; two and three elements are a tuple.
LEMMA Slice ==
  ASSUME NEW V, NEW s \in Seq(V), NEW from \in Nat \ {0}, NEW n \in Nat,
         from + n - 1 <= Len(s)
  PROVE  /\ SubSeq(s, from, from + n - 1) \in Seq(V)
         /\ Len(SubSeq(s, from, from + n - 1)) = n
         /\ \A i \in 1 .. n : SubSeq(s, from, from + n - 1)[i] = s[from + i - 1]
<1>1. Len(s) \in Nat /\ from + n - 1 - from + 1 = n /\ from + n - 1 \in Int
  OBVIOUS
<1>2. \A i \in 1 .. n : i + from - 1 = from + i - 1 /\ from + i - 1 \in 1 .. Len(s)
  BY <1>1
<1>3. SubSeq(s, from, from + n - 1) = [i \in 1 .. n |-> s[from + i - 1]]
  BY <1>1, <1>2
<1>4. \A i \in 1 .. n : s[from + i - 1] \in V
  BY <1>2
<1> QED BY <1>3, <1>4

LEMMA TwoElements ==
  ASSUME NEW V, NEW s \in Seq(V), Len(s) = 2
  PROVE  s = <<s[1], s[2]>>
<1> DEFINE t == <<s[1], s[2]>>
<1>1. DOMAIN s = 1 .. 2 /\ s = [i \in 1 .. 2 |-> s[i]]
  OBVIOUS
<1>2. DOMAIN t = 1 .. 2 /\ t = [i \in 1 .. 2 |-> t[i]] /\ t[1] = s[1] /\ t[2] = s[2]
  OBVIOUS
<1> HIDE DEF t
<1>3. \A i \in 1 .. 2 : i = 1 \/ i = 2
  OBVIOUS
<1>4. s = t
  BY <1>1, <1>2, <1>3
<1> QED BY <1>4 DEF t
LEMMA ThreeElements ==
  ASSUME NEW V, NEW s \in Seq(V), Len(s) = 3
  PROVE  s = <<s[1], s[2], s[3]>>
<1> DEFINE t == <<s[1], s[2], s[3]>>
<1>1. DOMAIN s = 1 .. 3 /\ s = [i \in 1 .. 3 |-> s[i]]
  OBVIOUS
<1>2. /\ DOMAIN t = 1 .. 3 /\ t = [i \in 1 .. 3 |-> t[i]]
      /\ t[1] = s[1] /\ t[2] = s[2] /\ t[3] = s[3]
  OBVIOUS
<1> HIDE DEF t
<1>3. \A i \in 1 .. 3 : i = 1 \/ i = 2 \/ i = 3
  OBVIOUS
<1>4. s = t
  BY <1>1, <1>2, <1>3
<1> QED BY <1>4 DEF t

\* A standard script is told from its bytes.
LEMMA ScriptIsParsed ==
  ASSUME NEW V, Int \subseteq V, NEW kind \in AddressTypes, NEW address \in V
  PROVE  ParseScript(ScriptPubKey(kind, address)) = Some([kind |-> kind, address |-> address])
<1> DEFINE script == ScriptPubKey(kind, address)
<1>0. script \in Seq(V)
  BY ScriptForms
<1>1. CASE kind = P2pkh
  <2>1. script = <<118, 169, 20, address, 136, 172>>
    BY <1>1, ScriptForms
  <2>2. /\ Len(script) = 6 /\ script[1] = 118 /\ script[2] = 169 /\ script[3] = 20
        /\ script[4] = address /\ script[5] = 136 /\ script[6] = 172
    BY <2>1
  <2> HIDE DEF script
  <2>3. SubSeq(script, 1, 3) = <<118, 169, 20>>
    <3> DEFINE t == SubSeq(script, 1, 1 + 3 - 1)
    <3>1. t \in Seq(V) /\ Len(t) = 3 /\ \A i \in 1 .. 3 : t[i] = script[1 + i - 1]
      BY <1>0, <2>2, Slice
    <3> HIDE DEF t
    <3>2. t = <<t[1], t[2], t[3]>> /\ t[1] = 118 /\ t[2] = 169 /\ t[3] = 20
      BY <2>2, <3>1, ThreeElements
    <3> QED BY <3>2 DEF t
  <2>4. SubSeq(script, 5, 6) = <<136, 172>>
    <3> DEFINE t == SubSeq(script, 5, 5 + 2 - 1)
    <3>1. t \in Seq(V) /\ Len(t) = 2 /\ \A i \in 1 .. 2 : t[i] = script[5 + i - 1]
      BY <1>0, <2>2, Slice
    <3> HIDE DEF t
    <3>2. t = <<t[1], t[2]>> /\ t[1] = 136 /\ t[2] = 172
      BY <2>2, <3>1, TwoElements
    <3> QED BY <3>2 DEF t
  <2>5. ParseScript(script) = Some([kind |-> P2pkh, address |-> script[4]])
    BY <2>2, <2>3, <2>4 DEF ParseScript
  <2>6. ParseScript(script) = Some([kind |-> kind, address |-> address])
    BY <1>1, <2>2, <2>5
  <2> QED BY <2>6 DEF script
<1>2. CASE kind # P2pkh
  <2>1. script = <<169, 20, address, 135>>
    BY <1>2 DEF ScriptPubKey
  <2>4. kind = P2sh
    BY <1>2 DEF AddressTypes
  <2>2. /\ Len(script) = 4 /\ script[1] = 169 /\ script[2] = 20
        /\ script[3] = address /\ script[4] = 135
    BY <2>1
  <2> HIDE DEF script
  <2>3. SubSeq(script, 1, 2) = <<169, 20>>
    <3> DEFINE t == SubSeq(script, 1, 1 + 2 - 1)
    <3>1. t \in Seq(V) /\ Len(t) = 2 /\ \A i \in 1 .. 2 : t[i] = script[1 + i - 1]
      BY <1>0, <2>2, Slice
    <3> HIDE DEF t
    <3>2. t = <<t[1], t[2]>> /\ t[1] = 169 /\ t[2] = 20
      BY <2>2, <3>1, TwoElements
    <3> QED BY <3>2 DEF t
  <2>5. ParseScript(script) = Some([kind |-> P2sh, address |-> script[3]])
    <3>1. Len(script) # 6
      BY <2>2
    <3> QED BY <2>2, <2>3, <3>1 DEF ParseScript
  <2>6. ParseScript(script) = Some([kind |-> kind, address |-> address])
    BY <2>2, <2>4, <2>5
  <2> QED BY <2>6 DEF script
<1> QED BY <1>1, <1>2

LEMMA SubSeqStands ==
  ASSUME NEW V, NEW bytes \in Seq(V), NEW s \in Seq(V), NEW p \in Nat, NEW n,
         n = Len(s), StandsAt(bytes, p, s), p + n <= Len(bytes)
  PROVE  SubSeq(bytes, p + 1, p + n) = s
<1>1. n \in Nat /\ p + n - (p + 1) + 1 = n
  OBVIOUS
<1>2. SubSeq(bytes, p + 1, p + n) = [i \in 1 .. n |-> bytes[i + (p + 1) - 1]]
  BY <1>1
<1>3. ASSUME NEW i \in 1 .. n PROVE bytes[i + (p + 1) - 1] = s[i]
  <2>1. i + (p + 1) - 1 = p + i
    BY <1>1
  <2> QED BY <2>1 DEF StandsAt
<1>4. s = [i \in 1 .. n |-> s[i]]
  OBVIOUS
<1> QED BY <1>2, <1>3, <1>4

\* Two fields and a script.
LEMMA AfterTwo ==
  ASSUME NEW V, NEW a \in V, NEW b \in V, NEW s \in Seq(V)
  PROVE  /\ <<a>> \o <<b>> \o s \in Seq(V)
         /\ Len(<<a>> \o <<b>> \o s) = 2 + Len(s)
         /\ (<<a>> \o <<b>> \o s)[1] = a /\ (<<a>> \o <<b>> \o s)[2] = b
         /\ StandsAt(<<a>> \o <<b>> \o s, 2, s)
<1> DEFINE two == <<a>> \o <<b>>
<1>0. <<a>> \in Seq(V) /\ <<b>> \in Seq(V)
  OBVIOUS
<1>2. two \in Seq(V) /\ Len(two) = 2 /\ two[1] = a /\ two[2] = b
  <2> DEFINE x == <<a>>
             y == <<b>>
  <2>1. x \in Seq(V) /\ y \in Seq(V) /\ Len(x) = 1 /\ Len(y) = 1 /\ x[1] = a /\ y[1] = b
    BY <1>0
  <2> HIDE DEF x, y
  <2>2. x \in Seq(V) /\ y \in Seq(V)
    BY <2>1
  <2>3. /\ x \o y \in Seq(V) /\ Len(x \o y) = Len(x) + Len(y)
        /\ \A k \in 1 .. Len(x) : (x \o y)[k] = x[k]
        /\ \A k \in 1 .. Len(y) : (x \o y)[Len(x) + k] = y[k]
    BY <2>2, ConcatPlaces
  <2>4. 1 \in 1 .. Len(x) /\ 1 \in 1 .. Len(y)
    BY <2>1
  <2>5. (x \o y)[1] = a /\ (x \o y)[2] = b
    BY <2>1, <2>3, <2>4
  <2> QED BY <2>1, <2>3, <2>5 DEF x, y
<1> HIDE DEF two
<1>3. /\ two \o s \in Seq(V) /\ Len(two \o s) = Len(two) + Len(s)
      /\ \A k \in 1 .. Len(two) : (two \o s)[k] = two[k]
      /\ \A k \in 1 .. Len(s) : (two \o s)[Len(two) + k] = s[k]
  <2>1. two \in Seq(V) /\ s \in Seq(V)
    BY <1>2
  <2> QED BY <2>1, ConcatPlaces
<1>4. StandsAt(two \o s, 2, s)
  BY <1>2, <1>3 DEF StandsAt
<1>5. 1 \in 1 .. Len(two) /\ 2 \in 1 .. Len(two)
  BY <1>2
<1>6. (two \o s)[1] = a /\ (two \o s)[2] = b /\ Len(two \o s) = 2 + Len(s)
  BY <1>2, <1>3, <1>5
<1> QED BY <1>3, <1>4, <1>6 DEF two

\* An output that stands where the reader is.
OutputBytes(output) ==
  <<output.amount>> \o Count(Len(ScriptPubKey(output.kind, output.address)))
    \o ScriptPubKey(output.kind, output.address)
ReadsOutput(bytes, p, outs, output, part) ==
  ReadOutput(bytes, [ok |-> TRUE, at |-> p + 1, outputs |-> outs]) =
    [ok |-> TRUE, at |-> p + Len(part) + 1, outputs |-> Append(outs, output)]
LEMMA OutputIsRead ==
  ASSUME NEW V, Int \subseteq V, NEW bytes \in Seq(V), NEW p \in Nat, NEW outs,
         NEW output \in [amount : V, kind : AddressTypes, address : V],
         NEW part, part = OutputBytes(output),
         StandsAt(bytes, p, part), p + Len(part) <= Len(bytes)
  PROVE  Len(part) \in Nat /\ ReadsOutput(bytes, p, outs, output, part)
<1> DEFINE script == ScriptPubKey(output.kind, output.address)
           n == Len(script)
           read == [ok |-> TRUE, at |-> p + 1, outputs |-> outs]
<1>1. /\ script \in Seq(V) /\ n \in 4 .. 6
      /\ ParseScript(script) = Some([kind |-> output.kind, address |-> output.address])
  BY ScriptForms, ScriptIsParsed
<1>2. MaxStandardScript = 6
  <2>1. P2pkh \in AddressTypes /\ 0 \in V
    BY DEF AddressTypes
  <2> QED BY <2>1, ScriptForms DEF MaxStandardScript
<1>3. Count(n) = <<n>> /\ n \in Nat
  <2>1. n \in Nat /\ n <= CountByte
    <3> HIDE DEF n
    <3> QED BY <1>1, <1>2, CountsAssumption
  <2> HIDE DEF n
  <2> QED BY <2>1, CountForms
<1>4. part = <<output.amount>> \o <<n>> \o script
  BY <1>3 DEF OutputBytes
<1> HIDE DEF script
<1>5. /\ Len(part) = 2 + n /\ part[1] = output.amount /\ part[2] = n
      /\ StandsAt(part, 2, script)
  <2>1. output.amount \in V /\ n \in V /\ script \in Seq(V)
    BY <1>1, <1>3
  <2> DEFINE amount == output.amount
             whole == <<amount>> \o <<n>> \o script
  <2>2. amount \in V /\ part = whole /\ n = Len(script)
    BY <1>4, <2>1
  <2> HIDE DEF n, amount
  <2>3. /\ Len(whole) = 2 + Len(script) /\ whole[1] = amount /\ whole[2] = n
        /\ StandsAt(whole, 2, script)
    BY <2>1, <2>2, AfterTwo
  <2> HIDE DEF whole
  <2> QED BY <2>2, <2>3 DEF amount
<1> HIDE DEF n
<1>6. /\ p + 1 \in DOMAIN bytes /\ p + 2 \in DOMAIN bytes
      /\ bytes[p + 1] = output.amount /\ bytes[p + 2] = n
  <2>1. DOMAIN bytes = 1 .. Len(bytes) /\ Len(bytes) \in Nat
    OBVIOUS
  <2>2. 1 \in 1 .. Len(part) /\ 2 \in 1 .. Len(part)
    BY <1>3, <1>5
  <2>3. bytes[p + 1] = part[1] /\ bytes[p + 2] = part[2]
    BY <2>2 DEF StandsAt
  <2> QED BY <1>1, <1>3, <1>5, <2>1, <2>3
<1>7. StandsAt(bytes, p + 2, script) /\ p + 2 + n <= Len(bytes) /\ p + 2 \in Nat
  <2>1. ASSUME NEW k \in 1 .. Len(script) PROVE bytes[p + 2 + k] = script[k]
    <3>1. 2 + k \in 1 .. Len(part) /\ p + (2 + k) = p + 2 + k
      BY <1>1, <1>5 DEF n
    <3>2. bytes[p + (2 + k)] = part[2 + k]
      BY <3>1 DEF StandsAt
    <3> QED BY <1>5, <3>1, <3>2 DEF StandsAt
  <2> QED BY <1>3, <1>5, <2>1 DEF StandsAt
<1>8. SubSeq(bytes, p + 3, p + 2 + n) = script
  <2>1. n = Len(script) /\ p + 2 + 1 = p + 3
    BY DEF n
  <2>2. SubSeq(bytes, p + 2 + 1, p + 2 + n) = script
    <3> DEFINE q == p + 2
    <3>1. /\ q \in Nat /\ script \in Seq(V) /\ bytes \in Seq(V)
          /\ n = Len(script) /\ StandsAt(bytes, q, script) /\ q + n <= Len(bytes)
      BY <1>1, <1>7, <2>1
    <3> HIDE DEF q, n
    <3>2. SubSeq(bytes, q + 1, q + n) = script
      BY <3>1, SubSeqStands
    <3> QED BY <3>2 DEF q
  <2> QED BY <2>1, <2>2
<1>9. ReadCount(bytes, read.at + 1) = [n |-> n, next |-> p + 3]
  <2>1. read.at + 1 = p + 2 /\ p + 2 + 1 = p + 3
    OBVIOUS
  <2>2. n <= CountByte
    <3>1. n \in 4 .. 6
      BY <1>1 DEF n
    <3> QED BY <1>2, <3>1, CountsAssumption
  <2> QED BY <1>3, <1>6, <2>1, <2>2 DEF ReadCount
<1>10. /\ p + 3 + n - 1 = p + 2 + n /\ p + 3 + n <= Len(bytes) + 1
       /\ n \in 0 .. MaxStandardScript /\ p + 3 + n = p + Len(part) + 1
  <2>1. n \in 4 .. 6 /\ Len(bytes) \in Nat
    BY <1>1 DEF n
  <2> QED BY <1>2, <1>5, <1>7, <2>1
<1>11. ReadOutput(bytes, read) =
         [read EXCEPT !.at = p + 3 + n, !.outputs = Append(@,
            [amount |-> output.amount, kind |-> output.kind, address |-> output.address])]
  <2> DEFINE length == ReadCount(bytes, read.at + 1)
             after  == length.next + length.n
             parsed == ParseScript(SubSeq(bytes, length.next, after - 1))
  <2>1. length.n = n /\ length.next = p + 3 /\ after = p + 3 + n
    BY <1>9
  <2>2. parsed.ok /\ parsed.value.kind = output.kind /\ parsed.value.address = output.address
    <3> DEFINE found == [kind |-> output.kind, address |-> output.address]
    <3>1. after - 1 = p + 2 + n
      BY <1>10, <2>1
    <3>2. parsed = Some(found)
      BY <1>1, <1>8, <2>1, <3>1
    <3>3. Some(found).ok /\ Some(found).value = found
      BY DEF Some
    <3>4. found.kind = output.kind /\ found.address = output.address
      OBVIOUS
    <3> HIDE DEF parsed, found
    <3> QED BY <3>2, <3>3, <3>4
  <2>3. read.ok /\ read.at \in DOMAIN bytes /\ bytes[read.at] = output.amount
    BY <1>6
  <2>4. length.n \in 0 .. MaxStandardScript /\ after <= Len(bytes) + 1
    BY <1>10, <2>1
  <2>5. ReadOutput(bytes, read) =
          [read EXCEPT !.at = after, !.outputs = Append(@,
             [amount |-> bytes[read.at], kind |-> parsed.value.kind,
              address |-> parsed.value.address])]
    <3> HIDE DEF read
    <3> QED BY <2>2, <2>3, <2>4, Zenon DEF ReadOutput
  <2> QED BY <2>1, <2>2, <2>3, <2>5
<1>12. output = [amount |-> output.amount, kind |-> output.kind, address |-> output.address]
  OBVIOUS
<1>13. Len(part) \in Nat
  BY <1>3, <1>5
<1> QED BY <1>10, <1>11, <1>12, <1>13 DEF ReadsOutput

\* What the reader of outputs has at a position.
Reads(V) == [ok : BOOLEAN, at : Int,
             outputs : Seq([amount : V, kind : AddressTypes, address : V])]

LEMMA CountPlaces ==
  ASSUME NEW V, NEW bytes \in Seq(V), NEW p \in Int
  PROVE  /\ ReadCount(bytes, p).next \in Int
         /\ ReadCount(bytes, p).n # -1 => ReadCount(bytes, p).next \in Nat \ {0}
<1>1. DOMAIN bytes \subseteq Nat \ {0}
  OBVIOUS
<1>2. CASE p \notin DOMAIN bytes
  BY <1>2 DEF ReadCount, NoCount
<1>3. CASE p \in DOMAIN bytes /\ bytes[p] <= CountByte
  BY <1>1, <1>3 DEF ReadCount, NoCount
<1>4. CASE p \in DOMAIN bytes /\ ~ (bytes[p] <= CountByte)
  BY <1>1, <1>4 DEF ReadCount, NoCount
<1> QED BY <1>2, <1>3, <1>4

LEMMA ParsedScript ==
  ASSUME NEW V, NEW script \in Seq(V), ParseScript(script).ok
  PROVE  ParseScript(script).value.kind \in AddressTypes
           /\ ParseScript(script).value.address \in V
<1> DEFINE hashes == /\ Len(script) = 6 /\ SubSeq(script, 1, 3) = <<118, 169, 20>>
                     /\ SubSeq(script, 5, 6) = <<136, 172>>
           other == /\ Len(script) = 4 /\ SubSeq(script, 1, 2) = <<169, 20>>
                    /\ script[4] = 135
<1>1. /\ hashes => ParseScript(script) = Some([kind |-> P2pkh, address |-> script[4]])
      /\ ~hashes /\ other => ParseScript(script) = Some([kind |-> P2sh, address |-> script[3]])
      /\ ~hashes /\ ~other => ParseScript(script) = None
  BY DEF ParseScript
<1>2. hashes => script[4] \in V
  <2>1. 4 \in 1 .. 6
    OBVIOUS
  <2> QED BY <2>1, ElementOfSeq
<1>3. other => script[3] \in V
  <2>1. Len(script) = 4 => 3 \in 1 .. Len(script)
    OBVIOUS
  <2>2. Len(script) = 4 => script[3] \in V
    BY <2>1, ElementOfSeq
  <2> QED BY <2>2
<1> HIDE DEF hashes, other
<1>4. ~None.ok
  BY DEF None
<1>5. CASE hashes
  BY <1>1, <1>2, <1>5 DEF Some, AddressTypes
<1>6. CASE ~hashes /\ other
  BY <1>1, <1>3, <1>6 DEF Some, AddressTypes
<1> QED BY <1>1, <1>4, <1>5, <1>6

LEMMA ReadOutputTyped ==
  ASSUME NEW V, NEW bytes \in Seq(V), NEW read \in Reads(V)
  PROVE  ReadOutput(bytes, read) \in Reads(V)
<1> DEFINE length == ReadCount(bytes, read.at + 1)
           after  == length.next + length.n
           slice  == SubSeq(bytes, length.next, after - 1)
           script == ParseScript(slice)
           good == /\ read.ok
                   /\ read.at \in DOMAIN bytes
                   /\ length.n \in 0 .. MaxStandardScript
                   /\ after <= Len(bytes) + 1
                   /\ script.ok
           O == [amount : V, kind : AddressTypes, address : V]
           output == [amount |-> bytes[read.at], kind |-> script.value.kind,
                      address |-> script.value.address]
<1>1. /\ read.ok \in BOOLEAN /\ read.at \in Int /\ read.outputs \in Seq(O)
      /\ read = [ok |-> read.ok, at |-> read.at, outputs |-> read.outputs]
  BY DEF Reads
<1>2. CASE ~good
  <2>1. ReadOutput(bytes, read) = [read EXCEPT !.ok = FALSE]
    BY <1>2 DEF ReadOutput
  <2>2. [read EXCEPT !.ok = FALSE]
          = [ok |-> FALSE, at |-> read.at, outputs |-> read.outputs]
    <3> DEFINE x == [read EXCEPT !.ok = FALSE]
               y == [ok |-> FALSE, at |-> read.at, outputs |-> read.outputs]
    <3>1. /\ DOMAIN read = {"ok", "at", "outputs"}
          /\ read["ok"] = read.ok /\ read["at"] = read.at /\ read["outputs"] = read.outputs
      BY <1>1
    <3>2. DOMAIN x = {"ok", "at", "outputs"} /\ DOMAIN y = {"ok", "at", "outputs"}
      BY <3>1
    <3>3. x["ok"] = y["ok"] /\ x["at"] = y["at"] /\ x["outputs"] = y["outputs"]
      BY <3>1
    <3>4. x = [f \in DOMAIN x |-> x[f]] /\ y = [f \in DOMAIN y |-> y[f]]
      OBVIOUS
    <3> HIDE DEF x, y
    <3>5. x = y
      BY <3>2, <3>3, <3>4
    <3> QED BY <3>5 DEF x, y
  <2> HIDE DEF O
  <2>3. [ok |-> FALSE, at |-> read.at, outputs |-> read.outputs] \in [ok : BOOLEAN, at : Int, outputs : Seq(O)]
    BY <1>1
  <2> QED BY <1>1, <2>1, <2>2, <2>3 DEF Reads, O
<1>3. CASE good
  <2>1. ReadOutput(bytes, read) = [read EXCEPT !.at = after, !.outputs = Append(@, output)]
    BY <1>3 DEF ReadOutput
  <2>2. [read EXCEPT !.at = after, !.outputs = Append(@, output)]
          = [ok |-> read.ok, at |-> after, outputs |-> Append(read.outputs, output)]
    <3> HIDE DEF after, output
    <3> DEFINE x == [read EXCEPT !.at = after, !.outputs = Append(@, output)]
               y == [ok |-> read.ok, at |-> after, outputs |-> Append(read.outputs, output)]
    <3>1. /\ DOMAIN read = {"ok", "at", "outputs"}
          /\ read["ok"] = read.ok /\ read["at"] = read.at /\ read["outputs"] = read.outputs
      BY <1>1
    <3>2. DOMAIN x = {"ok", "at", "outputs"} /\ DOMAIN y = {"ok", "at", "outputs"}
      BY <3>1
    <3>3. x["ok"] = y["ok"] /\ x["at"] = y["at"] /\ x["outputs"] = y["outputs"]
      BY <3>1
    <3>4. x = [f \in DOMAIN x |-> x[f]] /\ y = [f \in DOMAIN y |-> y[f]]
      OBVIOUS
    <3> HIDE DEF x, y
    <3>5. x = y
      BY <3>2, <3>3, <3>4
    <3> QED BY <3>5 DEF x, y
  <2>3. length.n \in Nat /\ length.n # -1
    BY <1>3, ScriptForms DEF MaxStandardScript, ScriptPubKey
  <2>4. length.next \in Nat \ {0} /\ after \in Int /\ after = length.next + length.n
    <3>1. read.at + 1 \in Int
      BY <1>1
    <3>2. length.next \in Nat \ {0}
      BY <2>3, <3>1, CountPlaces
    <3> HIDE DEF length
    <3> QED BY <2>3, <3>2
  <2>5. slice \in Seq(V)
    <3>1. length.next + length.n - 1 <= Len(bytes) /\ after - 1 = length.next + length.n - 1
      <4>1. after <= Len(bytes) + 1 /\ Len(bytes) \in Nat
        BY <1>3
      <4> HIDE DEF length
      <4> QED BY <2>3, <2>4, <4>1
    <3> DEFINE from == length.next
               n == length.n
    <3>2. from \in Nat \ {0} /\ n \in Nat /\ from + n - 1 <= Len(bytes)
      BY <2>3, <2>4, <3>1
    <3> HIDE DEF from, n
    <3>3. SubSeq(bytes, from, from + n - 1) \in Seq(V)
      BY <3>2, Slice
    <3> QED BY <3>1, <3>3 DEF from, n
  <2>6. script.value.kind \in AddressTypes /\ script.value.address \in V
    <3>1. script.ok
      BY <1>3
    <3> HIDE DEF slice
    <3> QED BY <2>5, <3>1, ParsedScript
  <2>7. bytes[read.at] \in V /\ read.ok
    BY <1>3
  <2> HIDE DEF script, after
  <2>8. output \in O
    BY <2>6, <2>7
  <2> HIDE DEF output, O
  <2>9. Append(read.outputs, output) \in Seq(O)
    BY <1>1, <2>8
  <2>10. [ok |-> read.ok, at |-> after, outputs |-> Append(read.outputs, output)]
           \in [ok : BOOLEAN, at : Int, outputs : Seq(O)]
    BY <1>1, <2>4, <2>9
  <2> QED BY <1>1, <2>1, <2>2, <2>10 DEF Reads, O
<1> QED BY <1>2, <1>3

\* The reader of outputs, output by output.
Reading(r, bytes, at, n) ==
  /\ r[0] = [ok |-> TRUE, at |-> at, outputs |-> <<>>]
  /\ \A k \in 0 .. n - 1 : r[k + 1] = ReadOutput(bytes, r[k])
  /\ ReadOutputs(bytes, at, n) = r[n]

LEMMA ReadSteps ==
  ASSUME NEW V, NEW bytes \in Seq(V), NEW at \in Int, NEW n \in Nat
  PROVE  \E r : Reading(r, bytes, at, n)
<1> DEFINE base == [ok |-> TRUE, at |-> at, outputs |-> <<>>]
           ids == [i \in 1 .. n |-> i]
           R(f) == f = [t \in SUBSET (1 .. n) |-> IF t = {} THEN base
                          ELSE LET x == Max(t) IN ReadOutput(bytes, f[t \ {x}])]
           T == Reads(V)
           step == [x \in T \X (1 .. n) |-> ReadOutput(bytes, x[1])]
<1>1. base \in T
  BY DEF Reads
<1>2. step \in [T \X (1 .. n) -> T]
  BY ReadOutputTyped
<1>3. \A x \in T, i \in 1 .. n : step[<<x, i>>] = ReadOutput(bytes, x)
  OBVIOUS
<1> HIDE DEF step, base, T
<1>4. PICK g \in [SUBSET (1 .. n) -> T] : Folds(g, n, base, step)
  BY <1>1, <1>2, FoldExists
<1>5. R(g)
  <2>1. ASSUME NEW t \in SUBSET (1 .. n)
        PROVE  g[t] = IF t = {} THEN base
                      ELSE LET x == Max(t) IN ReadOutput(bytes, g[t \ {x}])
    <3>1. CASE t = {}
      BY <1>4, <3>1 DEF Folds
    <3>2. CASE t # {}
      <4>1. Max(t) \in 1 .. n
        BY <3>2, Greatest
      <4>2. g[t \ {Max(t)}] \in T
        BY <1>4
      <4>3. g[t] = step[<<g[t \ {Max(t)}], Max(t)>>]
        BY <1>4, <3>2 DEF Folds
      <4> QED BY <1>3, <3>2, <4>1, <4>2, <4>3
    <3> QED BY <3>1, <3>2
  <2>2. g = [t \in SUBSET (1 .. n) |-> g[t]]
    BY <1>4
  <2> QED BY <2>1, <2>2
<1>6. ReadOutputs(bytes, at, n) = (CHOOSE f : R(f))[1 .. n]
  BY DEF ReadOutputs, FoldLeft, MapThenFoldSet, base
<1> DEFINE h == CHOOSE f : R(f)
<1>7. R(h)
  <2> HIDE DEF R
  <2> QED BY <1>5
<1>8. ReadOutputs(bytes, at, n) = h[1 .. n]
  BY <1>6
<1> HIDE DEF h
<1>9. h[{}] = base
  BY <1>7
<1>10. ASSUME NEW k \in 0 .. n - 1 PROVE h[1 .. k + 1] = ReadOutput(bytes, h[1 .. k])
  <2>1. 1 .. k + 1 \in SUBSET (1 .. n) /\ 1 .. k + 1 # {}
    <3>1. n \in Nat /\ k \in Nat /\ k + 1 <= n
      OBVIOUS
    <3> HIDE DEF h
    <3>2. \A i \in 1 .. k + 1 : i \in 1 .. n
      BY <3>1
    <3>3. 1 \in 1 .. k + 1
      BY <3>1
    <3> QED BY <3>2, <3>3
  <2>2. Max(1 .. k + 1) = k + 1
    <3>1. Max(1 .. k + 1) \in 1 .. k + 1 /\ \A i \in 1 .. k + 1 : Max(1 .. k + 1) >= i
      BY <2>1, Greatest
    <3> QED BY <3>1
  <2>3. (1 .. k + 1) \ {k + 1} = 1 .. k
    OBVIOUS
  <2>4. h[1 .. k + 1] = ReadOutput(bytes, h[(1 .. k + 1) \ {Max(1 .. k + 1)}])
    BY <1>7, <2>1
  <2> QED BY <2>2, <2>3, <2>4
<1> HIDE DEF R
<1> DEFINE r == [k \in 0 .. n |-> h[1 .. k]]
<1>11. r[0] = base
  <2>1. 1 .. 0 = {} /\ 0 \in 0 .. n
    OBVIOUS
  <2> QED BY <1>9, <2>1
<1>12. ASSUME NEW k \in 0 .. n - 1 PROVE r[k + 1] = ReadOutput(bytes, r[k])
  <2>1. k \in 0 .. n /\ k + 1 \in 0 .. n
    OBVIOUS
  <2> QED BY <1>10, <2>1
<1>13. r[n] = h[1 .. n]
  OBVIOUS
<1> HIDE DEF r
<1>14. Reading(r, bytes, at, n)
  BY <1>8, <1>11, <1>12, <1>13 DEF Reading, base
<1> QED BY <1>14

\* Outputs that stand where the reader is are read in order, to the last.
LEMMA OutputsAreRead ==
  ASSUME NEW V, Int \subseteq V, NEW tx,
         tx.outputs \in Seq([amount : V, kind : AddressTypes, address : V]), tx.outputs # <<>>,
         OutputParts(tx) \in Seq(Seq(V)), Len(OutputParts(tx)) = Len(tx.outputs),
         NEW bytes \in Seq(V), NEW p \in Nat,
         StandsAt(bytes, p, FlattenSeq(OutputParts(tx))),
         p + Len(FlattenSeq(OutputParts(tx))) <= Len(bytes)
  PROVE  ReadOutputs(bytes, p + 1, Len(tx.outputs)) =
           [ok |-> TRUE, at |-> p + Len(FlattenSeq(OutputParts(tx))) + 1, outputs |-> tx.outputs]
<1> DEFINE n == Len(tx.outputs)
           parts == OutputParts(tx)
           flat == FlattenSeq(parts)
           outs == tx.outputs
           O == [amount : V, kind : AddressTypes, address : V]
<1>1. n \in Nat \ {0} /\ outs \in Seq(O) /\ parts \in Seq(Seq(V)) /\ Len(parts) = n /\ parts # <<>>
  <2>1. n \in Nat \ {0} /\ outs \in Seq(O)
    OBVIOUS
  <2>2. parts \in Seq(Seq(V)) /\ Len(parts) = n
    OBVIOUS
  <2> HIDE DEF O, n, parts
  <2> QED BY <2>1, <2>2
<1>2. ASSUME NEW i \in 1 .. n
      PROVE  /\ outs[i] \in O
             /\ parts[i] = <<outs[i].amount>>
                  \o Count(Len(ScriptPubKey(outs[i].kind, outs[i].address)))
                  \o ScriptPubKey(outs[i].kind, outs[i].address)
  <2>1. outs[i] \in O
    <3> HIDE DEF O
    <3> QED BY <1>1, ElementOfSeq
  <2>2. DOMAIN outs = 1 .. n
    BY <1>1
  <2> QED BY <2>1, <2>2 DEF OutputParts
<1> HIDE DEF O, n, parts, outs, flat
<1>3. PICK at \in [1 .. Len(parts) -> Nat] :
        /\ at[1] = 0
        /\ at[Len(parts)] + Len(parts[Len(parts)]) = Len(FlattenSeq(parts))
        /\ \A i \in 1 .. Len(parts) - 1 : at[i + 1] = at[i] + Len(parts[i])
        /\ \A i \in 1 .. Len(parts) :
             /\ at[i] + Len(parts[i]) <= Len(FlattenSeq(parts))
             /\ \A k \in 1 .. Len(parts[i]) : FlattenSeq(parts)[at[i] + k] = parts[i][k]
  <2>1. parts \in Seq(Seq(V)) /\ parts # <<>>
    BY <1>1
  <2> QED BY <2>1, FlattenParts
<1>4. FlattenSeq(parts) \in Seq(V) /\ Len(flat) \in Nat /\ Len(bytes) \in Nat
  <2>1. parts \in Seq(Seq(V)) /\ parts # <<>>
    BY <1>1
  <2>2. FlattenSeq(parts) \in Seq(V)
    BY <2>1, FlattenParts
  <2> QED BY <2>2 DEF flat
<1>5. StandsAt(bytes, p, flat) /\ p + Len(flat) <= Len(bytes)
  BY DEF parts, flat
<1>6. ASSUME NEW i \in 1 .. n
      PROVE  /\ at[i] \in Nat /\ Len(parts[i]) \in Nat
             /\ StandsAt(bytes, p + at[i], parts[i])
             /\ p + at[i] + Len(parts[i]) <= Len(bytes)
  <2>1. at[i] \in Nat /\ at[i] + Len(parts[i]) <= Len(flat)
        /\ \A k \in 1 .. Len(parts[i]) : flat[at[i] + k] = parts[i][k]
    BY <1>1, <1>3 DEF flat
  <2>2. Len(parts[i]) \in Nat
    <3>1. parts[i] \in Seq(V)
      BY <1>1, ElementOfSeq
    <3> QED BY <3>1
  <2>3. ASSUME NEW k \in 1 .. Len(parts[i]) PROVE bytes[p + at[i] + k] = parts[i][k]
    <3>1. at[i] + k \in 1 .. Len(flat) /\ p + (at[i] + k) = p + at[i] + k
      <4> DEFINE a == at[i]
                 l == Len(parts[i])
      <4>1. a \in Nat /\ l \in Nat /\ Len(flat) \in Nat /\ a + l <= Len(flat) /\ k \in 1 .. l
        BY <1>4, <2>1, <2>2
      <4> HIDE DEF a, l
      <4>2. a + k \in 1 .. Len(flat) /\ p + (a + k) = p + a + k
        BY <4>1
      <4> QED BY <4>2 DEF a
    <3>2. bytes[p + (at[i] + k)] = flat[at[i] + k]
      BY <1>5, <3>1 DEF StandsAt
    <3> QED BY <2>1, <3>1, <3>2
  <2>4. p + at[i] + Len(parts[i]) <= Len(bytes)
    BY <1>4, <1>5, <2>1, <2>2
  <2> QED BY <2>1, <2>2, <2>3, <2>4 DEF StandsAt
<1>7. PICK r : Reading(r, bytes, p + 1, n)
  <2>1. n \in Nat /\ p + 1 \in Int /\ bytes \in Seq(V)
    BY <1>1
  <2> QED BY <2>1, ReadSteps
<1> DEFINE end(k) == IF k = 0 THEN 0 ELSE at[k] + Len(parts[k])
           prefix(k) == [i \in 1 .. k |-> outs[i]]
           Q(k) == k <= n => r[k] = [ok |-> TRUE, at |-> p + end(k) + 1, outputs |-> prefix(k)]
           K == {k \in Nat : Q(k)}
<1>8. Q(0)
  <2>1. prefix(0) = <<>> /\ p + end(0) + 1 = p + 1
    OBVIOUS
  <2> HIDE DEF prefix, end
  <2> QED BY <1>7, <2>1 DEF Reading
<1>9. ASSUME NEW k \in Nat, Q(k) PROVE Q(k + 1)
  <2>1. SUFFICES ASSUME k + 1 <= n
                 PROVE  r[k + 1] = [ok |-> TRUE, at |-> p + end(k + 1) + 1,
                                    outputs |-> prefix(k + 1)]
    OBVIOUS
  <2>2. k + 1 \in 1 .. n /\ k \in 0 .. n - 1
    BY <1>1, <2>1
  <2>3. r[k] = [ok |-> TRUE, at |-> p + end(k) + 1, outputs |-> prefix(k)]
    BY <1>1, <1>9, <2>1
  <2>4. end(k) = at[k + 1]
    <3>1. CASE k = 0
      BY <1>3, <3>1
    <3>2. CASE k # 0
      <4>1. k \in 1 .. Len(parts) - 1
        BY <1>1, <2>2, <3>2
      <4> QED BY <1>3, <3>2, <4>1
    <3> QED BY <3>1, <3>2
  <2>5. end(k + 1) = at[k + 1] + Len(parts[k + 1])
    OBVIOUS
  <2>6. Append(prefix(k), outs[k + 1]) = prefix(k + 1)
    <3> DEFINE pre == prefix(k)
               all == prefix(k + 1)
               o == outs[k + 1]
    <3>1. \A i \in 1 .. k + 1 : outs[i] \in O
      <4>1. \A i \in 1 .. k + 1 : i \in 1 .. n
        BY <1>1, <2>1
      <4> QED BY <1>2, <4>1
    <3>2. pre \in Seq(O) /\ Len(pre) = k /\ \A i \in 1 .. k : pre[i] = outs[i]
      BY <3>1
    <3>3. all \in Seq(O) /\ Len(all) = k + 1 /\ \A i \in 1 .. k + 1 : all[i] = outs[i]
      BY <3>1
    <3>4. o \in O
      BY <1>2, <2>2
    <3> HIDE DEF pre, all
    <3>5. /\ Append(pre, o) \in Seq(O) /\ Len(Append(pre, o)) = k + 1
          /\ Append(pre, o)[k + 1] = o /\ \A i \in 1 .. k : Append(pre, o)[i] = pre[i]
      BY <3>2, <3>4
    <3>6. \A i \in 1 .. k + 1 : Append(pre, o)[i] = all[i]
      <4>1. TAKE i \in 1 .. k + 1
      <4>2. i \in 1 .. k \/ i = k + 1
        OBVIOUS
      <4> QED BY <3>2, <3>3, <3>5, <4>2
    <3> DEFINE w == Append(pre, o)
    <3> HIDE DEF w
    <3>7. w = all
      BY <3>3, <3>5, <3>6 DEF w
    <3> QED BY <3>7 DEF w, pre, all
  <2>7. /\ outs[k + 1] \in [amount : V, kind : AddressTypes, address : V]
        /\ parts[k + 1] = <<outs[k + 1].amount>>
             \o Count(Len(ScriptPubKey(outs[k + 1].kind, outs[k + 1].address)))
             \o ScriptPubKey(outs[k + 1].kind, outs[k + 1].address)
    BY <1>2, <2>2 DEF O
  <2>8. /\ p + at[k + 1] \in Nat /\ StandsAt(bytes, p + at[k + 1], parts[k + 1])
        /\ p + at[k + 1] + Len(parts[k + 1]) <= Len(bytes) /\ Len(parts[k + 1]) \in Nat
        /\ at[k + 1] \in Nat
    BY <1>6, <2>2
  <2> DEFINE place == p + at[k + 1]
             part == parts[k + 1]
             output == outs[k + 1]
             outs0 == prefix(k)
  <2>9. ReadOutput(bytes, [ok |-> TRUE, at |-> place + 1, outputs |-> outs0]) =
          [ok |-> TRUE, at |-> place + Len(part) + 1, outputs |-> Append(outs0, output)]
    <3>1. /\ place \in Nat /\ StandsAt(bytes, place, part) /\ place + Len(part) <= Len(bytes)
          /\ output \in [amount : V, kind : AddressTypes, address : V]
          /\ part = OutputBytes(output)
      BY <2>7, <2>8 DEF OutputBytes
    <3>2. bytes \in Seq(V) /\ Int \subseteq V
      OBVIOUS
    <3> HIDE DEF place, part, output, outs0
    <3>3. ReadsOutput(bytes, place, outs0, output, part)
      BY <3>1, <3>2, OutputIsRead
    <3> QED BY <3>3 DEF ReadsOutput
  <2>10. r[k + 1] = ReadOutput(bytes, r[k])
    BY <1>7, <2>2 DEF Reading
  <2>11. place + Len(part) + 1 = p + end(k + 1) + 1 /\ place + 1 = p + end(k) + 1
    <3> DEFINE a == at[k + 1]
               l == Len(part)
    <3>1. /\ a \in Nat /\ l \in Nat /\ end(k) = a /\ end(k + 1) = a + l
          /\ place = p + a
      BY <2>4, <2>5, <2>8
    <3> HIDE DEF a, l, place, part, end
    <3>2. p + a + l + 1 = p + (a + l) + 1
      BY <3>1
    <3> QED BY <3>1, <3>2 DEF l
  <2> HIDE DEF end, prefix
  <2> QED BY <2>3, <2>6, <2>9, <2>10, <2>11
<1>10. Q(n)
  <2>1. K \in SUBSET Nat /\ 0 \in K /\ \A k \in K : k + 1 \in K
    <3> HIDE DEF Q
    <3> QED BY <1>8, <1>9
  <2>2. n \in K
    <3> HIDE DEF K
    <3> QED BY <1>1, <2>1, NatSet
  <2> QED BY <2>2
<1>11. prefix(n) = outs
  <2>1. Len(outs) = n
    BY DEF n, outs
  <2>2. outs = [i \in 1 .. n |-> outs[i]]
    BY <1>1, <2>1
  <2> QED BY <2>2
<1>12. end(n) = Len(flat)
  BY <1>1, <1>3 DEF flat
<1>13. r[n] = [ok |-> TRUE, at |-> p + Len(flat) + 1, outputs |-> outs]
  <2> HIDE DEF prefix, end
  <2> QED BY <1>1, <1>10, <1>11, <1>12
<1> QED BY <1>7, <1>13 DEF Reading, n, flat, parts, outs

\* An input without a script is four fields.
LEMMA FourFields ==
  ASSUME NEW V, NEW a \in V, NEW b \in V, NEW c \in V, NEW d \in V
  PROVE  /\ <<a, b>> \o <<c>> \o <<>> \o <<d>> = <<a, b, c, d>>
<1> DEFINE ab == <<a, b>>
           x  == <<c>>
           e  == <<>>
           y  == <<d>>
<1>1. /\ ab \in Seq(V) /\ Len(ab) = 2 /\ ab[1] = a /\ ab[2] = b
      /\ x \in Seq(V) /\ Len(x) = 1 /\ x[1] = c
      /\ y \in Seq(V) /\ Len(y) = 1 /\ y[1] = d
      /\ e \in Seq(V)
  OBVIOUS
<1> HIDE DEF ab, x, y
<1>2. /\ ab \o x \in Seq(V) /\ Len(ab \o x) = Len(ab) + Len(x)
      /\ \A k \in 1 .. Len(ab) : (ab \o x)[k] = ab[k]
      /\ \A k \in 1 .. Len(x) : (ab \o x)[Len(ab) + k] = x[k]
  <2>1. ab \in Seq(V) /\ x \in Seq(V)
    BY <1>1
  <2> QED BY <2>1, ConcatPlaces
<1> DEFINE abx == ab \o x
<1>3. /\ abx \in Seq(V) /\ Len(abx) = 3 /\ abx[1] = a /\ abx[2] = b /\ abx[3] = c
  <2>1. 1 \in 1 .. Len(ab) /\ 2 \in 1 .. Len(ab) /\ 1 \in 1 .. Len(x) /\ Len(ab) + 1 = 3
    BY <1>1
  <2> QED BY <1>1, <1>2, <2>1
<1>4. abx \o e = abx
  <2> HIDE DEF abx
  <2> QED BY <1>3
<1> HIDE DEF abx
<1>5. /\ abx \o y \in Seq(V) /\ Len(abx \o y) = Len(abx) + Len(y)
      /\ \A k \in 1 .. Len(abx) : (abx \o y)[k] = abx[k]
      /\ \A k \in 1 .. Len(y) : (abx \o y)[Len(abx) + k] = y[k]
  <2>1. abx \in Seq(V) /\ y \in Seq(V)
    BY <1>1, <1>3
  <2> QED BY <2>1, ConcatPlaces
<1> DEFINE w == abx \o y
           t == <<a, b, c, d>>
<1>6. /\ w \in Seq(V) /\ Len(w) = 4 /\ w[1] = a /\ w[2] = b /\ w[3] = c /\ w[4] = d
  <2>1. /\ 1 \in 1 .. Len(abx) /\ 2 \in 1 .. Len(abx) /\ 3 \in 1 .. Len(abx)
        /\ 1 \in 1 .. Len(y) /\ Len(abx) + 1 = 4
    BY <1>1, <1>3
  <2> QED BY <1>1, <1>3, <1>5, <2>1
<1>7. DOMAIN t = 1 .. 4 /\ t[1] = a /\ t[2] = b /\ t[3] = c /\ t[4] = d
        /\ t = [i \in 1 .. 4 |-> t[i]]
  OBVIOUS
<1> HIDE DEF w, t
<1>8. w = t
  <2>1. \A i \in 1 .. 4 : i = 1 \/ i = 2 \/ i = 3 \/ i = 4
    OBVIOUS
  <2>2. w = [i \in 1 .. 4 |-> w[i]]
    BY <1>6
  <2> QED BY <1>6, <1>7, <2>1, <2>2
<1> QED BY <1>4, <1>8 DEF w, t, abx, ab, x, y

\* Where the inputs of an unsigned transaction stand among them.
Unsigned(tx) == \A i \in DOMAIN tx.inputs : tx.inputs[i].scriptSig = <<>>
FieldsOf(input) == <<input.txid, input.vout, 0, input.sequence>>
FoursAt(flat, inputs) ==
  /\ Len(flat) = 4 * Len(inputs)
  /\ \A i \in 1 .. Len(inputs) : StandsAt(flat, 4 * (i - 1), FieldsOf(inputs[i]))
LEMMA InputPlaces ==
  ASSUME NEW V, NEW tx, IsTx(tx, V), Unsigned(tx)
  PROVE  FoursAt(FlattenSeq(InputParts(tx)), tx.inputs)
<1> DEFINE n == Len(tx.inputs)
           parts == InputParts(tx)
           flat == FlattenSeq(parts)
           I == [txid : V, vout : V, scriptSig : Seq(V), sequence : V]
<1>1. n \in Nat \ {0} /\ DOMAIN tx.inputs = 1 .. n /\ 0 \in V
  <2>1. tx.inputs \in Seq(I) /\ tx.inputs # <<>> /\ Int \subseteq V
    BY DEF IsTx
  <2> HIDE DEF I
  <2> QED BY <2>1
<1>2. parts \in Seq(Seq(V)) /\ Len(parts) = n /\ parts # <<>>
  <2>1. parts \in Seq(Seq(V)) /\ Len(parts) = n
    BY WireParts
  <2> HIDE DEF parts, n
  <2> QED BY <1>1, <2>1
<1>3. ASSUME NEW i \in 1 .. n
      PROVE  parts[i] = FieldsOf(tx.inputs[i]) /\ Len(parts[i]) = 4
  <2> DEFINE input == tx.inputs[i]
             a == input.txid
             b == input.vout
             d == input.sequence
  <2>1. a \in V /\ b \in V /\ d \in V /\ input.scriptSig = <<>>
    <3>1. input \in I
      <4>1. tx.inputs \in Seq(I)
        BY DEF IsTx
      <4>2. i \in 1 .. Len(tx.inputs)
        BY <1>3
      <4> HIDE DEF I, n
      <4> QED BY <4>1, <4>2, ElementOfSeq
    <3> QED BY <1>1, <3>1 DEF Unsigned
  <2>2. Count(0) = <<0>> /\ Len(<<>>) = 0
    BY CountForms, CountsAssumption
  <2>3. parts[i] = <<a, b>> \o Count(Len(input.scriptSig)) \o input.scriptSig \o <<d>>
    BY <1>1 DEF InputParts
  <2>4. parts[i] = <<a, b>> \o <<0>> \o <<>> \o <<d>>
    BY <2>1, <2>2, <2>3
  <2> HIDE DEF a, b, d, parts
  <2>5. <<a, b>> \o <<0>> \o <<>> \o <<d>> = <<a, b, 0, d>>
    BY <1>1, <2>1, FourFields
  <2>6. parts[i] = <<a, b, 0, d>>
    BY <2>4, <2>5
  <2> QED BY <2>6 DEF FieldsOf, a, b, d
<1> HIDE DEF n, parts
<1>4. PICK at \in [1 .. Len(parts) -> Nat] :
        /\ at[1] = 0
        /\ at[Len(parts)] + Len(parts[Len(parts)]) = Len(FlattenSeq(parts))
        /\ \A i \in 1 .. Len(parts) - 1 : at[i + 1] = at[i] + Len(parts[i])
        /\ \A i \in 1 .. Len(parts) :
             /\ at[i] + Len(parts[i]) <= Len(FlattenSeq(parts))
             /\ \A k \in 1 .. Len(parts[i]) : FlattenSeq(parts)[at[i] + k] = parts[i][k]
  <2>1. parts \in Seq(Seq(V)) /\ parts # <<>>
    BY <1>2
  <2> QED BY <2>1, FlattenParts
<1> HIDE DEF flat
<1>5. \A i \in 1 .. n : at[i] = 4 * (i - 1)
  <2> DEFINE K == {k \in Nat : k + 1 <= n => at[k + 1] = 4 * k}
  <2>1. 0 \in K
    BY <1>4
  <2>2. ASSUME NEW k \in K PROVE k + 1 \in K
    <3>1. k + 1 \in Nat /\ k \in Nat
      OBVIOUS
    <3>2. ASSUME k + 1 + 1 <= n PROVE at[k + 1 + 1] = 4 * (k + 1)
      <4>1. k + 1 \in 1 .. n - 1 /\ k + 1 <= n /\ k + 1 \in 1 .. n
        BY <1>1, <3>1, <3>2
      <4>2. at[k + 1] = 4 * k
        BY <4>1
      <4>3. at[k + 1 + 1] = at[k + 1] + Len(parts[k + 1])
        BY <1>2, <1>4, <4>1
      <4>4. Len(parts[k + 1]) = 4
        BY <1>3, <4>1
      <4> QED BY <3>1, <4>2, <4>3, <4>4
    <3> QED BY <3>1, <3>2
  <2>3. K \in SUBSET Nat
    OBVIOUS
  <2> HIDE DEF K
  <2>4. \A k \in Nat : k \in K
    BY <2>1, <2>2, <2>3, NatSet
  <2>5. TAKE i \in 1 .. n
  <2>6. i - 1 \in Nat /\ i - 1 + 1 = i /\ i <= n
    BY <1>1
  <2>7. i - 1 \in K
    BY <2>4, <2>6
  <2> QED BY <2>6, <2>7 DEF K
<1>6. Len(flat) = 4 * n
  <2>1. n \in 1 .. n
    BY <1>1
  <2>2. at[n] = 4 * (n - 1) /\ Len(parts[n]) = 4
    BY <1>3, <1>5, <2>1
  <2>3. at[n] + Len(parts[n]) = Len(flat)
    BY <1>2, <1>4 DEF flat
  <2> QED BY <1>1, <2>2, <2>3
<1>7. ASSUME NEW i \in 1 .. n PROVE StandsAt(flat, 4 * (i - 1), FieldsOf(tx.inputs[i]))
  <2>1. at[i] = 4 * (i - 1) /\ parts[i] = FieldsOf(tx.inputs[i])
    BY <1>3, <1>5
  <2>2. \A k \in 1 .. Len(parts[i]) : flat[at[i] + k] = parts[i][k]
    BY <1>2, <1>4 DEF flat
  <2> QED BY <2>1, <2>2 DEF StandsAt
<1> QED BY <1>6, <1>7 DEF FoursAt, flat, parts, n

-----------------------------------------------------------------------------
(* The transaction, built and restored. *)

LEMMA NewOk ==
  ASSUME NEW selected, NEW outputs
  PROVE  New(selected, outputs).ok <=> selected # <<>> /\ outputs # <<>>
BY DEF New, Some, None

Built(tx, selected, outputs) ==
  /\ tx = [version  |-> TX_VERSION,
           inputs   |-> [i \in DOMAIN selected |-> InputOf(selected[i])],
           outputs  |-> outputs, locktime |-> 0,
           redeem   |-> [i \in DOMAIN selected |-> selected[i].redeem]]
  /\ tx.version = TX_VERSION
  /\ tx.inputs = [i \in DOMAIN selected |-> InputOf(selected[i])]
  /\ tx.outputs = outputs
  /\ tx.locktime = 0
  /\ tx.redeem = [i \in DOMAIN selected |-> selected[i].redeem]

LEMMA NewFacts ==
  ASSUME NEW selected, NEW outputs, New(selected, outputs).ok
  PROVE  Built(New(selected, outputs).value, selected, outputs)
<1>1. New(selected, outputs).value =
        [version  |-> TX_VERSION,
         inputs   |-> [i \in DOMAIN selected |-> InputOf(selected[i])],
         outputs  |-> outputs, locktime |-> 0,
         redeem   |-> [i \in DOMAIN selected |-> selected[i].redeem]]
  BY DEF New, Some, None
<1> QED BY <1>1 DEF Built

LEMMA StandsWithin ==
  ASSUME NEW bytes, NEW flat, NEW part, NEW at \in Nat, NEW p \in Nat,
         StandsAt(bytes, p, flat), StandsAt(flat, at, part),
         Len(flat) \in Nat, Len(part) \in Nat, at + Len(part) <= Len(flat)
  PROVE  StandsAt(bytes, p + at, part)
<1>1. ASSUME NEW k \in 1 .. Len(part) PROVE bytes[p + at + k] = part[k]
  <2>1. at + k \in 1 .. Len(flat) /\ p + at + k = p + (at + k)
    OBVIOUS
  <2>2. flat[at + k] = part[k]
    BY DEF StandsAt
  <2>3. bytes[p + (at + k)] = flat[at + k]
    BY <2>1 DEF StandsAt
  <2> QED BY <2>1, <2>2, <2>3
<1> QED BY <1>1 DEF StandsAt

\* A transaction that is built, written and read back for the same coins is the
\* one that was built: what the store keeps of a reservation can be restored.
THEOREM WireRoundTrip ==
  ASSUME NEW V, NEW S, NEW selected \in Seq(S), NEW outputs, NEW tx,
         New(selected, outputs) = Some(tx),
         IsTx(tx, V), Len(selected) <= MaxPersistedInputs, Len(outputs) <= MaxPersistedOutputs
  PROVE  FromPersisted(Wire(tx), selected) = Some(tx)
<1> DEFINE bytes == Wire(tx)
           n == Len(tx.inputs)
           m == Len(tx.outputs)
           h == Header(tx)
           e == InputsEnd(tx)
           o == OutputsAt(tx)
           end == OutputsEnd(tx)
           flatI == FlattenSeq(InputParts(tx))
           flatO == FlattenSeq(OutputParts(tx))
<1>1. Built(tx, selected, outputs) /\ selected # <<>> /\ outputs # <<>>
  <2>1. New(selected, outputs).ok /\ New(selected, outputs).value = tx
    BY DEF Some
  <2> QED BY <2>1, NewOk, NewFacts
<1>2. /\ tx.outputs = outputs /\ DOMAIN tx.inputs = DOMAIN selected
      /\ \A i \in DOMAIN selected : tx.inputs[i] = InputOf(selected[i])
      /\ tx.version = TX_VERSION /\ tx.locktime = 0
  BY <1>1 DEF Built
<1>3. /\ n \in Nat \ {0} /\ DOMAIN tx.inputs = 1 .. n /\ m \in Nat \ {0}
      /\ Int \subseteq V /\ n = Len(selected)
  <2> DEFINE I == [txid : V, vout : V, scriptSig : Seq(V), sequence : V]
             O == [amount : V, kind : AddressTypes, address : V]
  <2>1. tx.inputs \in Seq(I) /\ tx.inputs # <<>> /\ Int \subseteq V
        /\ tx.outputs \in Seq(O) /\ tx.outputs # <<>>
    BY DEF IsTx
  <2> HIDE DEF I, O
  <2>2. DOMAIN tx.inputs = 1 .. n /\ n \in Nat \ {0} /\ m \in Nat \ {0}
    BY <2>1
  <2> DEFINE k == Len(selected)
  <2>4. DOMAIN selected = 1 .. k /\ k \in Nat
    OBVIOUS
  <2>3. n = k
    <3> HIDE DEF n, k
    <3>1. 1 .. n = 1 .. k
      BY <1>2, <2>2, <2>4
    <3> QED BY <2>2, <2>4, <3>1
  <2> QED BY <2>1, <2>2, <2>3
<1>4. WireStands(tx, V)
  BY WirePlaces
<1>5. /\ bytes \in Seq(V) /\ Len(bytes) = end + 1 /\ h \in Nat /\ e \in Nat /\ o \in Nat
      /\ end \in Nat /\ bytes[1] = TX_VERSION /\ bytes[end + 1] = 0
      /\ StandsAt(bytes, 1, Count(n)) /\ StandsAt(bytes, h, flatI)
      /\ StandsAt(bytes, e, Count(m)) /\ StandsAt(bytes, o, flatO)
  BY <1>2, <1>4 DEF WireStands
<1>6. /\ h = 1 + Len(Count(n)) /\ e = h + Len(flatI) /\ o = e + Len(Count(m))
      /\ end = o + Len(flatO)
  BY DEF Header, InputsEnd, OutputsAt, OutputsEnd
<1>7. FoursAt(flatI, tx.inputs)
  <2>1. \A i \in DOMAIN selected : InputOf(selected[i]).scriptSig = <<>>
    BY DEF InputOf
  <2>3. \A i \in DOMAIN tx.inputs : tx.inputs[i].scriptSig = <<>>
    BY <1>2, <2>1
  <2>4. Unsigned(tx)
    BY <2>3 DEF Unsigned
  <2> QED BY <2>4, InputPlaces
<1>8. /\ OutputParts(tx) \in Seq(Seq(V)) /\ Len(OutputParts(tx)) = m
      /\ flatO \in Seq(V) /\ flatI \in Seq(V)
  BY WireParts
<1>9. /\ Len(Count(n)) \in Nat /\ Len(Count(m)) \in Nat /\ Len(flatO) \in Nat
      /\ Len(flatI) \in Nat /\ Len(flatI) = 4 * n
  <2>1. Len(Count(n)) \in {1, 2} /\ Len(Count(m)) \in {1, 2}
    BY <1>3, CountForms
  <2>2. Len(flatO) \in Nat /\ Len(flatI) \in Nat
    <3> HIDE DEF flatO, flatI
    <3> QED BY <1>8
  <2> QED BY <1>7, <2>1, <2>2 DEF FoursAt
<1> HIDE DEF bytes, n, m, h, e, o, end, flatI, flatO
<1>10. h <= end /\ e <= end /\ o <= end /\ e = h + 4 * n /\ 1 <= end
  BY <1>3, <1>5, <1>6, <1>9
<1>11. ReadCount(bytes, 2) = [n |-> n, next |-> h + 1]
  <2>1. /\ 1 \in Nat /\ n \in Nat /\ StandsAt(bytes, 1, Count(n))
        /\ 1 + Len(Count(n)) <= Len(bytes) /\ bytes \in Seq(V) /\ Int \subseteq V
    BY <1>3, <1>5, <1>6, <1>9, <1>10
  <2>2. ReadCount(bytes, 1 + 1) = [n |-> n, next |-> 1 + 1 + Len(Count(n))]
    BY <2>1, CountIsRead
  <2>3. 1 + 1 = 2 /\ 1 + 1 + Len(Count(n)) = h + 1
    BY <1>6, <1>9
  <2> QED BY <2>2, <2>3
<1>12. ReadCount(bytes, e + 1) = [n |-> m, next |-> o + 1]
  <2>1. /\ e \in Nat /\ m \in Nat /\ StandsAt(bytes, e, Count(m))
        /\ e + Len(Count(m)) <= Len(bytes) /\ bytes \in Seq(V) /\ Int \subseteq V
    BY <1>3, <1>5, <1>6, <1>9, <1>10
  <2>2. ReadCount(bytes, e + 1) = [n |-> m, next |-> e + 1 + Len(Count(m))]
    BY <2>1, CountIsRead
  <2>3. e + 1 + Len(Count(m)) = o + 1
    BY <1>5, <1>6, <1>9
  <2> QED BY <2>2, <2>3
<1>13. ReadOutputs(bytes, o + 1, m) = [ok |-> TRUE, at |-> end + 1, outputs |-> outputs]
  <2>1. /\ tx.outputs \in Seq([amount : V, kind : AddressTypes, address : V])
        /\ tx.outputs # <<>>
    BY DEF IsTx
  <2>2. /\ OutputParts(tx) \in Seq(Seq(V)) /\ Len(OutputParts(tx)) = Len(tx.outputs)
        /\ bytes \in Seq(V) /\ o \in Nat /\ Int \subseteq V
        /\ StandsAt(bytes, o, FlattenSeq(OutputParts(tx)))
        /\ o + Len(FlattenSeq(OutputParts(tx))) <= Len(bytes)
    <3>1. o + Len(flatO) <= Len(bytes)
      BY <1>5, <1>6
    <3> QED BY <1>3, <1>5, <1>8, <3>1 DEF flatO, m
  <2>3. ReadOutputs(bytes, o + 1, Len(tx.outputs)) =
          [ok |-> TRUE, at |-> o + Len(FlattenSeq(OutputParts(tx))) + 1, outputs |-> tx.outputs]
    BY <2>1, <2>2, OutputsAreRead
  <2>4. o + Len(FlattenSeq(OutputParts(tx))) = end /\ Len(tx.outputs) = m
    BY <1>6 DEF flatO, m
  <2> QED BY <1>2, <2>3, <2>4
<1>14. ASSUME NEW i \in 1 .. n
       PROVE  SubSeq(bytes, h + 1 + 4 * (i - 1), h + 1 + 4 * i - 1)
                = <<Reversed(selected[i].txid), selected[i].vout, 0, SEQUENCE_FINAL>>
  <2> DEFINE four == FieldsOf(tx.inputs[i])
             k == 4 * (i - 1)
  <2>1. i \in DOMAIN selected
    BY <1>2, <1>3
  <2>2. tx.inputs[i] = InputOf(selected[i])
    BY <1>2, <2>1
  <2>3. four = <<Reversed(selected[i].txid), selected[i].vout, 0, SEQUENCE_FINAL>>
    BY <2>2 DEF FieldsOf, InputOf
  <2>4. four \in Seq(V) /\ Len(four) = 4
    <3>1. tx.inputs \in Seq([txid : V, vout : V, scriptSig : Seq(V), sequence : V])
      BY DEF IsTx
    <3>2. i \in 1 .. Len(tx.inputs)
      BY DEF n
    <3>3. tx.inputs[i] \in [txid : V, vout : V, scriptSig : Seq(V), sequence : V]
      BY <3>1, <3>2, ElementOfSeq
    <3>4. tx.inputs[i].txid \in V /\ tx.inputs[i].vout \in V /\ tx.inputs[i].sequence \in V
          /\ 0 \in V
      BY <1>3, <3>3
    <3> QED BY <3>4 DEF FieldsOf
  <2>5. StandsAt(flatI, k, four)
    BY <1>7 DEF FoursAt, n
  <2>6. k \in Nat /\ k + 4 <= 4 * n /\ h + k \in Nat /\ h + k + 4 <= Len(bytes)
    BY <1>3, <1>5, <1>6, <1>9, <1>10
  <2> HIDE DEF k, four
  <2>7. StandsAt(bytes, h + k, four)
    <3>1. /\ k \in Nat /\ h \in Nat /\ StandsAt(bytes, h, flatI) /\ StandsAt(flatI, k, four)
          /\ Len(flatI) \in Nat /\ Len(four) \in Nat /\ k + Len(four) <= Len(flatI)
      BY <1>5, <1>9, <2>4, <2>5, <2>6
    <3> QED BY <3>1, StandsWithin
  <2>8. SubSeq(bytes, h + k + 1, h + k + 4) = four
    <3>1. /\ bytes \in Seq(V) /\ four \in Seq(V) /\ h + k \in Nat /\ 4 = Len(four)
          /\ StandsAt(bytes, h + k, four) /\ h + k + 4 <= Len(bytes)
      BY <1>5, <2>4, <2>6, <2>7
    <3> QED BY <3>1, SubSeqStands
  <2>9. h + 1 + 4 * (i - 1) = h + k + 1 /\ h + 1 + 4 * i - 1 = h + k + 4
    BY <1>3, <1>5 DEF k
  <2> QED BY <2>3, <2>8, <2>9
<1> DEFINE inputs == ReadCount(bytes, 2)
           input(i) == SubSeq(bytes, inputs.next + 4 * (i - 1), inputs.next + 4 * i - 1)
           counted == ReadCount(bytes, inputs.next + 4 * inputs.n)
           read    == ReadOutputs(bytes, counted.next, counted.n)
           restored == New(selected, read.outputs)
<1>15. /\ inputs.n = n /\ inputs.next = h + 1
       /\ \A i \in 1 .. n : input(i) = <<Reversed(selected[i].txid), selected[i].vout, 0,
                                        SEQUENCE_FINAL>>
  BY <1>11, <1>14
<1>16. counted.n = m /\ counted.next = o + 1
  <2>1. inputs.next + 4 * inputs.n = e + 1
    <3> HIDE DEF inputs
    <3> QED BY <1>3, <1>5, <1>10, <1>15
  <2> HIDE DEF inputs
  <2> QED BY <1>12, <2>1
<1>17. read = [ok |-> TRUE, at |-> end + 1, outputs |-> outputs]
  <2> HIDE DEF counted
  <2> QED BY <1>13, <1>16
<1>18. restored = Some(tx)
  <2> HIDE DEF read
  <2> QED BY <1>17
<1>19. bytes # <<>> /\ n <= MaxPersistedInputs /\ m \in 1 .. MaxPersistedOutputs
  <2>1. m = Len(outputs)
    BY <1>2 DEF m
  <2> QED BY <1>3, <1>5, <2>1, LimitsAssumption
<1>20. restored.value = tx /\ Wire(tx) = bytes
  <2> HIDE DEF restored
  <2> QED BY <1>18 DEF Some, bytes
<1>21. /\ selected # <<>>
       /\ bytes # <<>> /\ bytes[1] = TX_VERSION
       /\ inputs.n = Len(selected) /\ inputs.n <= MaxPersistedInputs
       /\ counted.n \in 1 .. MaxPersistedOutputs
       /\ \A i \in 1 .. inputs.n :
            input(i) = <<Reversed(selected[i].txid), selected[i].vout, 0,
                         SEQUENCE_FINAL>>
       /\ read.ok
       /\ read.at = Len(bytes) /\ bytes[read.at] = 0
       /\ Wire(restored.value) = bytes
  <2> HIDE DEF read, counted, inputs, restored
  <2>1. Wire(restored.value) = bytes
    BY <1>20
  <2> QED BY <1>1, <1>3, <1>5, <1>15, <1>16, <1>17, <1>19, <2>1
<1>22. FromPersisted(bytes, selected) = restored
  BY <1>21 DEF FromPersisted
<1> HIDE DEF restored
<1> QED BY <1>18, <1>22 DEF bytes
=============================================================================
