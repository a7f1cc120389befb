-------------------------- MODULE Dominance_proofs --------------------------
(***************************************************************************)
(* What the proofs about the other modules start from.                     *)
(*                                                                         *)
(* First iteration and least fixpoints.  The functions that are defined by *)
(* recursion on the number of steps, like what a graph reaches, add members*)
(* to a set of bounded size until nothing is added any more; LeastFixpoint *)
(* says what they end with.  Induction on natural numbers is had from the  *)
(* well-foundedness of < (SetInduction): a property is the set of the      *)
(* numbers that have it.                                                   *)
(*                                                                         *)
(* Then dominance, for every finite graph: what ReachedAvoiding computes is*)
(* the least set that holds the entry and is closed under successors, and  *)
(* dominance is a partial order that goes through predecessors.            *)
(***************************************************************************)
EXTENDS Dominance, Integers, Sequences, FiniteSetTheorems, WellFoundedInduction, TLAPS

-----------------------------------------------------------------------------
(* Iteration, folds and least fixpoints.                                   *)

\* A set of natural numbers that is not empty has a least member.
LEMMA LeastNatural ==
  ASSUME NEW S \in SUBSET Nat, S # {}
  PROVE  \E n \in S : \A m \in S : n <= m
<1> DEFINE R == {ss \in Nat \X Nat : ss[1] < ss[2]}
<1>1. IsWellFoundedOn(R, Nat)
  BY NatLessThanWellFounded DEF OpToRel
<1>2. PICK x \in S : \A y \in S : ~ (<<y, x>> \in R)
  <2> HIDE DEF R
  <2> QED BY <1>1, WFMin
<1>3. \A y \in S : ~(y < x)
  BY <1>2
<1> QED BY <1>3

\* Induction: what holds of 0 and is handed on holds of every natural number.
LEMMA SetInduction ==
  ASSUME NEW S, 0 \in S, \A n \in Nat : n \in S => n + 1 \in S
  PROVE  Nat \subseteq S
<1> SUFFICES ASSUME Nat \ S # {} PROVE FALSE
  OBVIOUS
<1>1. PICK n \in Nat \ S : \A m \in Nat \ S : n <= m
  BY LeastNatural
<1>2. n # 0 /\ n - 1 \in Nat /\ n - 1 \in S
  BY <1>1
<1> QED
  BY <1>1, <1>2

\* The sequence that starts with x and goes on with F, up to n.
IterationUpTo(T, F, x, n) ==
  {g \in [0 .. n -> T] : g[0] = x /\ \A k \in 0 .. n - 1 : g[k + 1] = F[g[k]]}

\* f is the sequence that starts with x and goes on with F.
IsIteration(f, F, x) == f[0] = x /\ \A n \in Nat : f[n + 1] = F[f[n]]

\* A function can be iterated.
LEMMA IterationExists ==
  ASSUME NEW T, NEW F \in [T -> T], NEW x \in T
  PROVE  \E f \in [Nat -> T] : IsIteration(f, F, x)
<1> DEFINE Up(n) == IterationUpTo(T, F, x, n)
           S == {n \in Nat : Up(n) # {}}
           f == [n \in Nat |-> (CHOOSE g \in Up(n) : TRUE)[n]]
<1>1. 0 \in S
  <2>1. [k \in 0 .. 0 |-> x] \in Up(0)
    BY DEF IterationUpTo
  <2> QED BY <2>1
<1>2. ASSUME NEW n \in Nat, n \in S PROVE n + 1 \in S
  <2>1. PICK g \in Up(n) : TRUE
    BY <1>2
  <2> DEFINE h == [k \in 0 .. n + 1 |-> IF k = n + 1 THEN F[g[n]] ELSE g[k]]
  <2>2. g \in [0 .. n -> T] /\ g[0] = x /\ \A k \in 0 .. n - 1 : g[k + 1] = F[g[k]]
    BY DEF IterationUpTo
  <2>3. h \in [0 .. n + 1 -> T] /\ h[0] = x
    BY <2>2
  <2>4. \A k \in 0 .. n : h[k + 1] = F[h[k]]
    BY <2>2
  <2>5. h \in Up(n + 1)
    BY <2>3, <2>4 DEF IterationUpTo
  <2> QED BY <2>5
<1>3. \A n \in Nat : Up(n) # {}
  <2> HIDE DEF S
  <2>1. Nat \subseteq S
    BY <1>1, <1>2, SetInduction
  <2> QED BY <2>1 DEF S
<1>4. ASSUME NEW m \in Nat, NEW n \in Nat, NEW g \in Up(m), NEW h \in Up(n)
      PROVE  \A k \in Nat : k <= m /\ k <= n => g[k] = h[k]
  <2> DEFINE A == {k \in Nat : k <= m /\ k <= n => g[k] = h[k]}
  <2>1. 0 \in A
    BY DEF IterationUpTo
  <2>2. ASSUME NEW k \in Nat, k \in A PROVE k + 1 \in A
    BY <2>2 DEF IterationUpTo
  <2>3. Nat \subseteq A
    <3> HIDE DEF A
    <3> QED BY <2>1, <2>2, SetInduction
  <2> QED BY <2>3
<1>5. ASSUME NEW n \in Nat, NEW g \in Up(n) PROVE g[n] = f[n]
  <2>1. (CHOOSE h \in Up(n) : TRUE) \in Up(n)
    BY <1>3
  <2> QED BY <1>4, <2>1
<1>6. ASSUME NEW n \in Nat PROVE f[n] \in T /\ f[n + 1] = F[f[n]]
  <2>1. PICK g \in Up(n + 1) : TRUE
    BY <1>3
  <2>2. g \in [0 .. n + 1 -> T] /\ g[0] = x /\ \A k \in 0 .. n : g[k + 1] = F[g[k]]
    BY DEF IterationUpTo
  <2> DEFINE h == [k \in 0 .. n |-> g[k]]
  <2>3. h \in Up(n) /\ h[n] = g[n]
    BY <2>2 DEF IterationUpTo
  <2>4. g[n + 1] = f[n + 1] /\ g[n] = f[n]
    <3> HIDE DEF f, h, Up
    <3> QED BY <1>5, <2>1, <2>3
  <2> HIDE DEF f
  <2> QED BY <2>2, <2>4
<1>7. f[0] = x
  <2>1. PICK g \in Up(0) : TRUE
    BY <1>3
  <2> HIDE DEF f
  <2> QED BY <1>5, <2>1 DEF IterationUpTo
<1> HIDE DEF f
<1>8. f \in [Nat -> T]
  BY <1>6 DEF f
<1> QED
  BY <1>6, <1>7, <1>8 DEF IsIteration

\* F, from sets to sets, keeps inclusions, and x is included in the step from x.
GrowsFrom(F, S, x) ==
  /\ F \in [SUBSET S -> SUBSET S] /\ x \in SUBSET S /\ x \subseteq F[x]
  /\ \A X, Y \in SUBSET S : X \subseteq Y => F[X] \subseteq F[Y]

\* To be the iteration of F it is enough to go on with F from subsets of S.
LEMMA IterationOfSets ==
  ASSUME NEW S, NEW F, NEW x, GrowsFrom(F, S, x), NEW f, f[0] = x,
         ASSUME NEW k \in Nat, f[k] \in SUBSET S PROVE f[k + 1] = F[f[k]]
  PROVE  IsIteration(f, F, x)
<1> DEFINE A == {k \in Nat : f[k] \in SUBSET S}
<1>1. 0 \in A
  BY DEF GrowsFrom
<1>2. ASSUME NEW k \in Nat, k \in A PROVE k + 1 \in A
  <2>1. f[k + 1] = F[f[k]]
    BY <1>2
  <2> QED BY <1>2, <2>1 DEF GrowsFrom
<1>3. Nat \subseteq A
  <2> HIDE DEF A
  <2> QED BY <1>1, <1>2, SetInduction
<1> QED
  BY <1>3 DEF IsIteration

\* Every step of the iteration is a set that includes the steps before it.
LEMMA IterationGrows ==
  ASSUME NEW S, NEW F, NEW x, GrowsFrom(F, S, x), NEW f, IsIteration(f, F, x), NEW k \in Nat
  PROVE  f[k] \in SUBSET S /\ f[k + 1] \in SUBSET S /\ f[k] \subseteq f[k + 1] /\ x \subseteq f[k]
<1> DEFINE A == {n \in Nat : f[n] \in SUBSET S /\ f[n] \subseteq f[n + 1] /\ x \subseteq f[n]}
<1>1. 0 \in A
  <2>1. f[0] = x /\ f[0 + 1] = F[x]
    BY DEF IsIteration
  <2> QED BY <2>1 DEF GrowsFrom
<1>2. ASSUME NEW n \in Nat, n \in A PROVE n + 1 \in A
  <2>1. f[n + 1] = F[f[n]] /\ f[(n + 1) + 1] = F[f[n + 1]]
    BY DEF IsIteration
  <2>2. f[n] \in SUBSET S /\ f[n + 1] \in SUBSET S /\ f[n] \subseteq f[n + 1]
    BY <1>2, <2>1 DEF GrowsFrom
  <2>3. f[n + 1] \subseteq f[(n + 1) + 1]
    BY <2>1, <2>2 DEF GrowsFrom
  <2> QED BY <1>2, <2>2, <2>3
<1>3. Nat \subseteq A
  <2> HIDE DEF A
  <2> QED BY <1>1, <1>2, SetInduction
<1>4. f[k + 1] \in SUBSET S
  <2>1. k + 1 \in A
    BY <1>3
  <2> QED BY <2>1
<1> QED
  BY <1>3, <1>4

\* Until nothing is added any more, each step adds a member.
LEMMA IterationSaturates ==
  ASSUME NEW S, NEW F, NEW x, GrowsFrom(F, S, x), NEW f, IsIteration(f, F, x), IsFiniteSet(S),
         NEW k \in Nat
  PROVE  f[k] = f[k + 1] \/ Cardinality(f[k]) >= k
<1> DEFINE A == {n \in Nat : f[n] = f[n + 1] \/ Cardinality(f[n]) >= n}
<1>1. ASSUME NEW n \in Nat
      PROVE  f[n] \subseteq f[n + 1] /\ IsFiniteSet(f[n]) /\ Cardinality(f[n]) \in Nat
  <2>1. f[n] \in SUBSET S /\ f[n] \subseteq f[n + 1]
    BY IterationGrows
  <2> QED BY <2>1, FS_Subset, FS_CardinalityType
<1>2. 0 \in A
  <2>1. Cardinality(f[0]) \in Nat
    BY <1>1
  <2> QED BY <2>1
<1>3. ASSUME NEW n \in Nat, n \in A PROVE n + 1 \in A
  <2>0. n + 1 \in Nat
    OBVIOUS
  <2>1. CASE f[n] = f[n + 1]
    <3>1. f[n + 1] = F[f[n]] /\ f[(n + 1) + 1] = F[f[n + 1]]
      BY <2>0 DEF IsIteration
    <3> QED BY <2>0, <2>1, <3>1
  <2>2. CASE f[n] # f[n + 1]
    <3>1. Cardinality(f[n]) >= n
      BY <1>3, <2>2
    <3>2. f[n] \in SUBSET f[n + 1] /\ IsFiniteSet(f[n + 1])
      BY <1>1, <2>0
    <3>3. Cardinality(f[n]) <= Cardinality(f[n + 1]) /\ Cardinality(f[n]) # Cardinality(f[n + 1])
      BY <3>2, <2>2, FS_Subset
    <3>4. Cardinality(f[n]) \in Nat /\ Cardinality(f[n + 1]) \in Nat
      BY <1>1, <2>0
    <3>5. Cardinality(f[n + 1]) >= n + 1
      BY <3>1, <3>3, <3>4
    <3> QED BY <2>0, <3>5
  <2> QED BY <2>1, <2>2
<1>4. Nat \subseteq A
  <2> HIDE DEF A
  <2> QED BY <1>2, <1>3, SetInduction
<1> QED
  BY <1>4

\* After as many steps as S has members the iteration has reached the least
\* set that holds the start and that F adds nothing to.
LEMMA LeastFixpoint ==
  ASSUME NEW S, NEW F, NEW x, GrowsFrom(F, S, x), NEW f, IsIteration(f, F, x), IsFiniteSet(S),
         NEW n \in Nat, Cardinality(S) <= n
  PROVE  /\ f[n] \in SUBSET S /\ x \subseteq f[n] /\ F[f[n]] = f[n]
         /\ \A X \in SUBSET S : x \subseteq X /\ F[X] \subseteq X => f[n] \subseteq X
<1>1. f[n] \in SUBSET S /\ f[n + 1] \in SUBSET S /\ f[n] \subseteq f[n + 1] /\ x \subseteq f[n]
  BY IterationGrows
<1>2. f[n + 1] = F[f[n]]
  BY DEF IsIteration
<1>3. f[n] = f[n + 1]
  <2>1. CASE Cardinality(f[n]) >= n
    <3>1. /\ Cardinality(f[n]) \in Nat /\ Cardinality(S) \in Nat
          /\ Cardinality(f[n]) <= Cardinality(S)
      BY <1>1, FS_Subset, FS_CardinalityType
    <3>2. Cardinality(f[n]) = Cardinality(S)
      BY <2>1, <3>1
    <3>3. f[n] = S
      BY <1>1, <3>2, FS_Subset
    <3> QED BY <1>1, <3>3
  <2> QED BY <2>1, IterationSaturates
<1>4. ASSUME NEW X \in SUBSET S, x \subseteq X, F[X] \subseteq X PROVE f[n] \subseteq X
  <2> DEFINE A == {k \in Nat : f[k] \subseteq X}
  <2>1. 0 \in A
    BY <1>4 DEF IsIteration
  <2>2. ASSUME NEW k \in Nat, k \in A PROVE k + 1 \in A
    <3>1. f[k] \in SUBSET S /\ f[k] \subseteq X
      BY <2>2, IterationGrows
    <3>2. F[f[k]] \subseteq F[X]
      BY <3>1 DEF GrowsFrom
    <3>3. f[k + 1] = F[f[k]]
      BY DEF IsIteration
    <3> QED BY <1>4, <3>2, <3>3
  <2>3. Nat \subseteq A
    <3> HIDE DEF A
    <3> QED BY <2>1, <2>2, SetInduction
  <2> QED BY <2>3
<1> QED
  BY <1>1, <1>2, <1>3, <1>4

\* R is the least subset of S that holds x and that F adds nothing to.
IsLeastFixpoint(S, F, x, R) ==
  /\ R \in SUBSET S /\ x \subseteq R /\ F[R] = R
  /\ \A X \in SUBSET S : x \subseteq X /\ F[X] \subseteq X => R \subseteq X

LEMMA LeastFixpointIs ==
  ASSUME NEW S, NEW F, NEW x, GrowsFrom(F, S, x), NEW f, IsIteration(f, F, x), IsFiniteSet(S),
         NEW n \in Nat, Cardinality(S) <= n
  PROVE  IsLeastFixpoint(S, F, x, f[n])
  BY LeastFixpoint DEF IsLeastFixpoint

\* g is defined by recursion over 1 .. n: it starts with x, and G makes g[k] of
\* k and g[k - 1].
IsFold(g, n, G, x) == g = [k \in 0 .. n |-> IF k = 0 THEN x ELSE G[<<k, g[k - 1]>>]]

\* Such a function exists.
LEMMA FoldExists ==
  ASSUME NEW n \in Nat, NEW T, NEW G \in [(1 .. n) \X T -> T], NEW x \in T
  PROVE  \E g \in [0 .. n -> T] : IsFold(g, n, G, x)
<1> DEFINE F == [q \in Nat \X T |-> <<q[1] + 1, IF q[1] + 1 \in 1 .. n THEN G[<<q[1] + 1, q[2]>>] ELSE q[2]>>]
<1>1. F \in [Nat \X T -> Nat \X T]
  OBVIOUS
<1>2. PICK h \in [Nat -> Nat \X T] : IsIteration(h, F, <<0, x>>)
  <2> HIDE DEF F
  <2>1. <<0, x>> \in Nat \X T
    OBVIOUS
  <2> QED BY <1>1, <2>1, IterationExists
<1>3. h[0] = <<0, x>> /\ \A k \in Nat : h[k + 1] = F[h[k]] /\ h[k] \in Nat \X T
  BY <1>2 DEF IsIteration
<1>4. \A k \in Nat : h[k][1] = k
  <2> DEFINE S == {k \in Nat : h[k][1] = k}
  <2>1. 0 \in S
    BY <1>3
  <2>2. ASSUME NEW k \in Nat, k \in S PROVE k + 1 \in S
    <3>1. F[h[k]][1] = h[k][1] + 1
      <4>1. h[k] \in Nat \X T
        BY <1>3
      <4> QED BY <4>1
    <3>2. h[k + 1][1] = k + 1
      <4> HIDE DEF F
      <4> QED BY <1>3, <2>2, <3>1
    <3> QED BY <3>2
  <2>3. Nat \subseteq S
    <3> HIDE DEF S
    <3> QED BY <2>1, <2>2, SetInduction
  <2> QED BY <2>3
<1>5. ASSUME NEW k \in 1 .. n PROVE h[k][2] = G[<<k, h[k - 1][2]>>]
  <2>1. k - 1 \in Nat /\ (k - 1) + 1 = k
    OBVIOUS
  <2>2. h[k] = F[h[k - 1]] /\ h[k - 1][1] = k - 1 /\ h[k - 1] \in Nat \X T
    BY <1>3, <1>4, <2>1
  <2> QED BY <2>1, <2>2
<1> DEFINE g == [k \in 0 .. n |-> h[k][2]]
<1>6. g \in [0 .. n -> T]
  BY <1>3
<1>7. ASSUME NEW k \in 0 .. n PROVE g[k] = IF k = 0 THEN x ELSE G[<<k, g[k - 1]>>]
  <2>1. CASE k = 0
    BY <1>3, <2>1
  <2>2. CASE k # 0
    <3>1. k \in 1 .. n /\ k - 1 \in 0 .. n
      BY <2>2
    <3> HIDE DEF F
    <3> QED BY <1>5, <2>2, <3>1
  <2> QED BY <2>1, <2>2
<1>8. IsFold(g, n, G, x)
  <2>1. g = [k \in 0 .. n |-> g[k]]
    OBVIOUS
  <2> HIDE DEF g
  <2> QED BY <1>7, <2>1 DEF IsFold
<1> HIDE DEF g
<1> QED
  BY <1>6, <1>8

\* What is kept of the list s without the members of X, up to each place.
IsFilter(kept, s, X) ==
  kept = [k \in 0 .. Len(s) |-> IF k = 0 THEN << >>
                                ELSE IF s[k] \in X THEN kept[k - 1] ELSE Append(kept[k - 1], s[k])]

Filtered(s, X) == (CHOOSE kept : IsFilter(kept, s, X))[Len(s)]

\* r has the first n members of s that are not in X, in their order.
FilterOf(S, s, X, n, r) ==
  /\ r \in Seq(S)
  /\ {r[i] : i \in 1 .. Len(r)} = {s[i] : i \in 1 .. n} \ X
  /\ \A i, j \in 1 .. Len(r) : i < j => \E k, l \in 1 .. n : k < l /\ r[i] = s[k] /\ r[j] = s[l]
  /\ n > 0 /\ s[n] \notin X => r # << >> /\ r[Len(r)] = s[n]

\* One more place of s.
LEMMA FilterStep ==
  ASSUME NEW S, NEW s \in Seq(S), NEW X, NEW n \in Nat, n + 1 <= Len(s),
         NEW q, FilterOf(S, s, X, n, q)
  PROVE  FilterOf(S, s, X, n + 1, IF s[n + 1] \in X THEN q ELSE Append(q, s[n + 1]))
<1>1. q \in Seq(S) /\ s[n + 1] \in S /\ Len(q) \in Nat
  BY DEF FilterOf
<1>2. {s[i] : i \in 1 .. n + 1} = {s[i] : i \in 1 .. n} \cup {s[n + 1]}
  OBVIOUS
<1>3. CASE s[n + 1] \in X
  <2>1. \A i, j \in 1 .. Len(q) : i < j => \E k, l \in 1 .. n + 1 : k < l /\ q[i] = s[k] /\ q[j] = s[l]
    BY DEF FilterOf
  <2>2. {q[i] : i \in 1 .. Len(q)} = {s[i] : i \in 1 .. n + 1} \ X
    BY <1>2, <1>3 DEF FilterOf
  <2> QED BY <1>1, <1>3, <2>1, <2>2 DEF FilterOf
<1>4. CASE s[n + 1] \notin X
  <2> DEFINE r == Append(q, s[n + 1])
  <2>1. /\ r \in Seq(S) /\ Len(r) = Len(q) + 1 /\ r[Len(q) + 1] = s[n + 1]
        /\ \A i \in 1 .. Len(q) : r[i] = q[i]
    BY <1>1
  <2> HIDE DEF r
  <2>2. {r[i] : i \in 1 .. Len(r)} = {q[i] : i \in 1 .. Len(q)} \cup {s[n + 1]}
    <3>1. 1 .. Len(q) + 1 = (1 .. Len(q)) \cup {Len(q) + 1}
      BY <1>1
    <3> QED BY <1>1, <2>1, <3>1
  <2>3. {r[i] : i \in 1 .. Len(r)} = {s[i] : i \in 1 .. n + 1} \ X
    BY <1>2, <1>4, <2>2 DEF FilterOf
  <2>4. ASSUME NEW i \in 1 .. Len(r), NEW j \in 1 .. Len(r), i < j
        PROVE  \E k, l \in 1 .. n + 1 : k < l /\ r[i] = s[k] /\ r[j] = s[l]
    <3>1. CASE j <= Len(q)
      <4>1. i \in 1 .. Len(q) /\ j \in 1 .. Len(q)
        BY <1>1, <2>4, <3>1
      <4>2. PICK k \in 1 .. n, l \in 1 .. n : k < l /\ q[i] = s[k] /\ q[j] = s[l]
        BY <2>4, <4>1 DEF FilterOf
      <4> QED BY <2>1, <4>1, <4>2
    <3>2. CASE j > Len(q)
      <4>1. i \in 1 .. Len(q) /\ j = Len(q) + 1
        BY <1>1, <2>1, <2>4, <3>2
      <4>2. q[i] \in {s[k] : k \in 1 .. n}
        BY <4>1 DEF FilterOf
      <4>3. PICK k \in 1 .. n : q[i] = s[k]
        BY <4>2
      <4> QED BY <2>1, <4>1, <4>3
    <3> QED BY <1>1, <2>1, <3>1, <3>2
  <2>5. r # << >> /\ r[Len(r)] = s[n + 1]
    BY <1>1, <2>1
  <2>6. FilterOf(S, s, X, n + 1, r)
    BY <2>1, <2>3, <2>4, <2>5 DEF FilterOf
  <2> QED BY <1>4, <2>6 DEF r
<1> QED
  BY <1>3, <1>4

\* A filter takes every occurrence of a member of X off a list, and nothing else.
LEMMA FilterMeaning ==
  ASSUME NEW S, NEW s \in Seq(S), NEW X
  PROVE  FilterOf(S, s, X, Len(s), Filtered(s, X))
<1> DEFINE n == Len(s)
           kept == CHOOSE g : IsFilter(g, s, X)
           G == [q \in (1 .. n) \X Seq(S) |-> IF s[q[1]] \in X THEN q[2] ELSE Append(q[2], s[q[1]])]
<1>1. n \in Nat /\ \A k \in 1 .. n : s[k] \in S
  OBVIOUS
<1>2. G \in [(1 .. n) \X Seq(S) -> Seq(S)]
  <2>1. ASSUME NEW q \in (1 .. n) \X Seq(S)
        PROVE  (IF s[q[1]] \in X THEN q[2] ELSE Append(q[2], s[q[1]])) \in Seq(S)
    <3>1. q[2] \in Seq(S) /\ s[q[1]] \in S
      BY <1>1
    <3> QED BY <3>1
  <2> QED BY <2>1
<1>3. \E g \in [0 .. n -> Seq(S)] : IsFilter(g, s, X)
  <2>1. PICK g \in [0 .. n -> Seq(S)] : g = [k \in 0 .. n |-> IF k = 0 THEN << >> ELSE G[<<k, g[k - 1]>>]]
    <3> DEFINE T == Seq(S)
               none == << >>
    <3>1. none \in T /\ G \in [(1 .. n) \X T -> T]
      BY <1>2
    <3> HIDE DEF G, n, T, none
    <3>2. \E g \in [0 .. n -> T] : IsFold(g, n, G, none)
      BY <1>1, <3>1, FoldExists
    <3> QED BY <3>2 DEF T, none, IsFold
  <2>2. ASSUME NEW k \in 0 .. n, k # 0
        PROVE  G[<<k, g[k - 1]>>] = IF s[k] \in X THEN g[k - 1] ELSE Append(g[k - 1], s[k])
    <3>1. <<k, g[k - 1]>> \in (1 .. n) \X Seq(S)
      BY <1>1, <2>2
    <3> QED BY <3>1
  <2>3. IsFilter(g, s, X)
    <3> HIDE DEF G
    <3> QED BY <2>1, <2>2 DEF IsFilter
  <2> QED BY <2>3
<1>4. IsFilter(kept, s, X)
  BY <1>3
<1>5. Filtered(s, X) = kept[n]
  BY DEF Filtered
<1> HIDE DEF kept, G
<1>6. kept[0] = << >> /\ \A k \in 1 .. n : kept[k] = IF s[k] \in X THEN kept[k - 1] ELSE Append(kept[k - 1], s[k])
  <2>1. kept[0] = << >>
    BY <1>1, <1>4 DEF IsFilter
  <2>2. ASSUME NEW k \in 1 .. n
        PROVE  kept[k] = IF s[k] \in X THEN kept[k - 1] ELSE Append(kept[k - 1], s[k])
    <3>1. k \in 0 .. Len(s) /\ k # 0
      OBVIOUS
    <3> QED BY <1>4, <3>1 DEF IsFilter
  <2> QED BY <2>1, <2>2
<1> DEFINE K == {k \in Nat : k <= n => FilterOf(S, s, X, k, kept[k])}
<1> HIDE DEF n
<1>7. 0 \in K
  <2>1. FilterOf(S, s, X, 0, << >>)
    BY DEF FilterOf
  <2> QED BY <1>6, <2>1
<1>8. ASSUME NEW k \in Nat, k \in K PROVE k + 1 \in K
  <2> SUFFICES ASSUME k + 1 <= n PROVE FilterOf(S, s, X, k + 1, kept[k + 1])
    OBVIOUS
  <2>1. FilterOf(S, s, X, k, kept[k]) /\ k + 1 \in 1 .. n /\ (k + 1) - 1 = k
    BY <1>1, <1>8
  <2>2. kept[k + 1] = IF s[k + 1] \in X THEN kept[k] ELSE Append(kept[k], s[k + 1])
    BY <1>6, <2>1
  <2>3. k + 1 <= Len(s)
    BY DEF n
  <2>4. FilterOf(S, s, X, k + 1, IF s[k + 1] \in X THEN kept[k] ELSE Append(kept[k], s[k + 1]))
    BY <2>1, <2>3, FilterStep
  <2> QED BY <2>2, <2>4
<1>9. Nat \subseteq K
  <2> HIDE DEF K
  <2> QED BY <1>7, <1>8, SetInduction
<1> QED
  BY <1>1, <1>5, <1>9 DEF n

-----------------------------------------------------------------------------
(* Dominance.                                                              *)

\* One step of ReachedAvoiding, as a function.
StepAvoiding(s, d) ==
  [X \in SUBSET Block |-> (X \cup UNION {s[b] : b \in X}) \ {d}]

\* The step keeps inclusions, so it can be iterated to a fixpoint.
LEMMA StepGrows ==
  ASSUME NEW s \in [Block -> SUBSET Block], NEW d
  PROVE  GrowsFrom(StepAvoiding(s, d), Block, {Entry} \ {d})
<1> USE BlockAssumption
<1> DEFINE F == StepAvoiding(s, d)
<1>1. F \in [SUBSET Block -> SUBSET Block] /\ {Entry} \ {d} \subseteq F[{Entry} \ {d}]
  BY DEF StepAvoiding
<1>2. ASSUME NEW X \in SUBSET Block, NEW Y \in SUBSET Block, X \subseteq Y
      PROVE  F[X] \subseteq F[Y]
  BY <1>2 DEF StepAvoiding
<1> QED
  BY <1>1, <1>2 DEF GrowsFrom

\* What is reached without d: the entry, and with a block its successors, d left
\* out; and it is the least such set.
LEMMA ReachedAvoidingClosed ==
  ASSUME NEW s \in [Block -> SUBSET Block], NEW d
  PROVE  /\ ReachedAvoiding(s, d) \in SUBSET Block
         /\ d \notin ReachedAvoiding(s, d)
         /\ Entry # d => Entry \in ReachedAvoiding(s, d)
         /\ \A b \in ReachedAvoiding(s, d) : \A c \in s[b] : c # d => c \in ReachedAvoiding(s, d)
         /\ \A X \in SUBSET Block :
              /\ Entry # d => Entry \in X
              /\ \A b \in X : \A c \in s[b] : c # d => c \in X
              => ReachedAvoiding(s, d) \subseteq X
<1> DEFINE F == StepAvoiding(s, d)
           x == {Entry} \ {d}
           Eq(g) == g = [k \in Nat |-> IF k = 0 THEN x
                                       ELSE (g[k - 1] \cup UNION {s[b] : b \in g[k - 1]}) \ {d}]
           f == CHOOSE g : Eq(g)
<1>1. GrowsFrom(F, Block, x)
  BY StepGrows
<1>2. \E g : Eq(g)
  <2>1. F \in [SUBSET Block -> SUBSET Block] /\ x \in SUBSET Block
    BY <1>1 DEF GrowsFrom
  <2>2. PICK g \in [Nat -> SUBSET Block] : IsIteration(g, F, x)
    <3> HIDE DEF F, x, Eq
    <3> QED BY <2>1, IterationExists
  <2>3. ASSUME NEW k \in Nat, k # 0
        PROVE  g[k] = (g[k - 1] \cup UNION {s[b] : b \in g[k - 1]}) \ {d}
    <3>1. k - 1 \in Nat /\ (k - 1) + 1 = k
      BY <2>3
    <3>2. g[(k - 1) + 1] = F[g[k - 1]]
      BY <2>2, <3>1 DEF IsIteration
    <3> QED BY <3>1, <3>2 DEF StepAvoiding
  <2>4. Eq(g)
    BY <2>2, <2>3 DEF IsIteration
  <2> QED BY <2>4
<1>3. Eq(f)
  <2> HIDE DEF Eq
  <2> QED BY <1>2
<1>4. ReachedAvoiding(s, d) = f[Cardinality(Block)]
  BY DEF ReachedAvoiding
<1> HIDE DEF f
<1>5. f[0] = x
  BY <1>3
<1>6. ASSUME NEW k \in Nat PROVE f[k + 1] = (f[k] \cup UNION {s[b] : b \in f[k]}) \ {d}
  <2>1. k + 1 \in Nat /\ k + 1 # 0 /\ (k + 1) - 1 = k
    OBVIOUS
  <2>2. f[k + 1] = (f[(k + 1) - 1] \cup UNION {s[b] : b \in f[(k + 1) - 1]}) \ {d}
    BY <1>3, <2>1
  <2> QED BY <2>1, <2>2
<1> HIDE DEF Eq
<1>7. IsIteration(f, F, x)
  <2>1. ASSUME NEW k \in Nat, f[k] \in SUBSET Block PROVE f[k + 1] = F[f[k]]
    BY <1>6, <2>1 DEF StepAvoiding
  <2> HIDE DEF F, x
  <2> QED BY <1>1, <1>5, <2>1, IterationOfSets
<1> DEFINE R == ReachedAvoiding(s, d)
<1>8. /\ R \in SUBSET Block /\ x \subseteq R /\ F[R] = R
      /\ \A X \in SUBSET Block : x \subseteq X /\ F[X] \subseteq X => R \subseteq X
  <2> HIDE DEF F, x
  <2>1. IsFiniteSet(Block)
    BY BlockAssumption
  <2>2. Cardinality(Block) \in Nat /\ Cardinality(Block) <= Cardinality(Block)
    BY <2>1, FS_CardinalityType
  <2> HIDE BlockAssumption
  <2> QED BY <1>1, <1>4, <1>7, <2>1, <2>2, LeastFixpoint
<1> HIDE DEF R
<1>9. R = (R \cup UNION {s[b] : b \in R}) \ {d}
  BY <1>8 DEF StepAvoiding
<1>10. ASSUME NEW X \in SUBSET Block, Entry # d => Entry \in X,
              \A b \in X : \A c \in s[b] : c # d => c \in X
       PROVE  R \subseteq X
  <2>1. x \subseteq X /\ F[X] \subseteq X
    BY <1>10 DEF StepAvoiding
  <2> QED BY <1>8, <2>1
<1> QED
  BY <1>8, <1>9, <1>10 DEF R

\* The last part again, for one set.
LEMMA ReachedAvoidingLeast ==
  ASSUME NEW s \in [Block -> SUBSET Block], NEW d, NEW X \in SUBSET Block,
         Entry # d => Entry \in X, \A b \in X : \A c \in s[b] : c # d => c \in X
  PROVE  ReachedAvoiding(s, d) \subseteq X
<1> DEFINE C(Y) == /\ Entry # d => Entry \in Y
                   /\ \A b \in Y : \A c \in s[b] : c # d => c \in Y
<1>1. \A Y \in SUBSET Block : C(Y) => ReachedAvoiding(s, d) \subseteq Y
  BY ReachedAvoidingClosed
<1>2. C(X)
  OBVIOUS
<1> HIDE DEF C
<1> QED
  BY <1>1, <1>2

-----------------------------------------------------------------------------
\* d dominates b, in the graph s.
Dominates(s, d, b) == b \in Reached(s) \ ReachedAvoiding(s, d)

\* The same as Doms, one pair of blocks at a time.
LEMMA DomsMeaning ==
  ASSUME NEW s, NEW d \in Block, NEW b
  PROVE  b \in Doms(s)[d] <=> Dominates(s, d, b)
BY DEF Doms, Dominates

\* What is reached at all.
LEMMA ReachedClosed ==
  ASSUME NEW s \in [Block -> SUBSET Block]
  PROVE  /\ Reached(s) \in SUBSET Block
         /\ Entry \in Reached(s)
         /\ \A b \in Reached(s) : s[b] \subseteq Reached(s)
         /\ \A X \in SUBSET Block :
              Entry \in X /\ (\A b \in X : s[b] \subseteq X) => Reached(s) \subseteq X
<1>1. Entry \in Block /\ Null \notin Block
  BY BlockAssumption
<1> QED
  BY <1>1, ReachedAvoidingClosed DEF Reached

\* Every block dominates itself, and only reachable blocks dominate.
LEMMA DominatesItself ==
  ASSUME NEW s \in [Block -> SUBSET Block], NEW b \in Reached(s)
  PROVE  Dominates(s, b, b) /\ Dominates(s, Entry, b)
<1>1. b \notin ReachedAvoiding(s, b)
  BY ReachedAvoidingClosed
<1> DEFINE X == {}
<1>2. X \in SUBSET Block /\ \A a \in X : \A c \in s[a] : c # Entry => c \in X
  OBVIOUS
<1>3. ReachedAvoiding(s, Entry) \subseteq X
  <2> HIDE DEF X
  <2> QED
    BY <1>2, ReachedAvoidingLeast
<1> QED
  BY <1>1, <1>3 DEF Dominates

\* A closed set within what is reached, as the proofs below use it.
LEMMA ReachedByBoth ==
  ASSUME NEW s \in [Block -> SUBSET Block], NEW d, NEW e,
         Entry # d => Entry \in ReachedAvoiding(s, e),
         e # d => e \notin ReachedAvoiding(s, d)
  PROVE  ReachedAvoiding(s, d) \subseteq ReachedAvoiding(s, e)
<1> DEFINE X == ReachedAvoiding(s, d) \cap ReachedAvoiding(s, e)
<1>1. X \in SUBSET Block /\ (Entry # d => Entry \in X)
  BY ReachedAvoidingClosed
<1>2. ASSUME NEW b \in X, NEW c \in s[b], c # d PROVE c \in X
  <2>1. c \in ReachedAvoiding(s, d)
    BY <1>2, ReachedAvoidingClosed
  <2>2. c # e
    BY <1>2, <2>1
  <2> QED
    BY <2>1, <2>2, ReachedAvoidingClosed
<1>3. \A b \in X : \A c \in s[b] : c # d => c \in X
  <2> HIDE DEF X
  <2> QED
    BY <1>2
<1>4. ReachedAvoiding(s, d) \subseteq X
  <2> HIDE DEF X
  <2> QED
    BY <1>1, <1>3, ReachedAvoidingLeast
<1> QED
  BY <1>4

\* What dominates a block is reached.
LEMMA DominatorReached ==
  ASSUME NEW s \in [Block -> SUBSET Block], NEW d \in Block, NEW b, Dominates(s, d, b)
  PROVE  d \in Reached(s) /\ b \in Reached(s)
<1>1. Null # d /\ Entry \in Reached(s)
  BY BlockAssumption, ReachedClosed
<1>2. b \in Reached(s) /\ b \notin ReachedAvoiding(s, d)
  BY DEF Dominates
<1>3. CASE Entry = d
  BY <1>1, <1>2, <1>3
<1>4. CASE Entry # d
  <2>1. Entry \in ReachedAvoiding(s, d)
    BY <1>4, ReachedAvoidingClosed
  <2>2. d \in Reached(s)
    <3> SUFFICES ASSUME d \notin Reached(s) PROVE FALSE
      OBVIOUS
    <3>1. ReachedAvoiding(s, Null) \subseteq ReachedAvoiding(s, d)
      BY <2>1, ReachedByBoth DEF Reached
    <3> QED
      BY <3>1, <1>2 DEF Reached
  <2> QED
    BY <1>2, <2>2
<1> QED
  BY <1>3, <1>4

\* Nothing but the entry dominates the entry.
LEMMA DominatesEntry ==
  ASSUME NEW s \in [Block -> SUBSET Block], NEW d, Dominates(s, d, Entry)
  PROVE  d = Entry
BY ReachedAvoidingClosed DEF Dominates

\* Another block that dominates b dominates each predecessor that is reached,
LEMMA DominatesPred ==
  ASSUME NEW s \in [Block -> SUBSET Block], NEW d, NEW b, Dominates(s, d, b), d # b,
         NEW p \in Reached(s), b \in s[p]
  PROVE  Dominates(s, d, p)
BY ReachedAvoidingClosed DEF Dominates

\* and what dominates all of these dominates b.
LEMMA DominatedByPreds ==
  ASSUME NEW s \in [Block -> SUBSET Block], NEW d, NEW b \in Reached(s), b # Entry,
         \A p \in Reached(s) : b \in s[p] => Dominates(s, d, p)
  PROVE  Dominates(s, d, b)
<1> SUFFICES ASSUME b \in ReachedAvoiding(s, d) PROVE FALSE
  BY DEF Dominates
<1> DEFINE X == ReachedAvoiding(s, d) \ {b}
<1>1. X \in SUBSET Block /\ (Entry # d => Entry \in X)
  BY ReachedAvoidingClosed
<1>2. ReachedAvoiding(s, d) \subseteq Reached(s)
  <2>1. Null \notin ReachedAvoiding(s, d)
    BY BlockAssumption, ReachedAvoidingClosed
  <2> QED
    BY <2>1, ReachedByBoth, ReachedClosed DEF Reached
<1>3. ASSUME NEW a \in X, NEW c \in s[a], c # d PROVE c \in X
  <2>1. c \in ReachedAvoiding(s, d)
    BY <1>3, ReachedAvoidingClosed
  <2>2. c # b
    BY <1>2 DEF Dominates
  <2> QED
    BY <2>1, <2>2
<1>4. ReachedAvoiding(s, d) \subseteq X
  BY <1>1, <1>3, ReachedAvoidingLeast
<1> QED
  BY <1>4

\* A block that is reached has a predecessor reached without it.
LEMMA SomePredEscapes ==
  ASSUME NEW s \in [Block -> SUBSET Block], NEW b \in Reached(s), b # Entry
  PROVE  \E p \in Reached(s) : b \in s[p] /\ ~Dominates(s, b, p)
<1> SUFFICES ASSUME \A p \in Reached(s) : b \in s[p] => Dominates(s, b, p)
             PROVE  FALSE
  OBVIOUS
<1> DEFINE X == ReachedAvoiding(s, b) \cap Reached(s)
<1>1. X \in SUBSET Block /\ Entry \in X
  BY ReachedClosed, ReachedAvoidingClosed
<1>2. ASSUME NEW a \in X, NEW c \in s[a] PROVE c \in X
  <2>1. c \in Reached(s)
    BY ReachedClosed
  <2>2. c # b
    BY DEF Dominates
  <2> QED
    BY <2>1, <2>2, ReachedAvoidingClosed
<1>3. Reached(s) \subseteq X
  <2>1. \A a \in X : s[a] \subseteq X
    BY <1>2
  <2> HIDE DEF X
  <2> QED
    BY <1>1, <2>1, ReachedClosed
<1>4. b \notin X
  BY ReachedAvoidingClosed
<1> QED
  BY <1>3, <1>4

\* Dominance is transitive,
LEMMA DominatesTransitive ==
  ASSUME NEW s \in [Block -> SUBSET Block], NEW d, NEW e, NEW b,
         Dominates(s, d, e), Dominates(s, e, b)
  PROVE  Dominates(s, d, b)
<1> SUFFICES ASSUME b \in ReachedAvoiding(s, d) PROVE FALSE
  BY DEF Dominates
<1>1. e \notin ReachedAvoiding(s, d) /\ b \notin ReachedAvoiding(s, e)
  BY DEF Dominates
<1>2. Entry # d => Entry \in ReachedAvoiding(s, e)
  BY <1>1, ReachedAvoidingClosed
<1>3. ReachedAvoiding(s, d) \subseteq ReachedAvoiding(s, e)
  BY <1>1, <1>2, ReachedByBoth
<1> QED
  BY <1>1, <1>3

\* and antisymmetric.
LEMMA DominatesAntisymmetric ==
  ASSUME NEW s \in [Block -> SUBSET Block], NEW d, NEW e,
         Dominates(s, d, e), Dominates(s, e, d)
  PROVE  d = e
<1> SUFFICES ASSUME d # e PROVE FALSE
  OBVIOUS
<1>1. Entry # d /\ Entry # e
  BY DominatesEntry
<1> DEFINE X == ReachedAvoiding(s, d) \cap ReachedAvoiding(s, e)
<1>2. X \in SUBSET Block /\ Entry \in X
  BY <1>1, ReachedAvoidingClosed
<1>3. ASSUME NEW b \in X, NEW c \in s[b] PROVE c \in X
  <2>1. d \notin ReachedAvoiding(s, e) /\ e \notin ReachedAvoiding(s, d)
    BY DEF Dominates
  <2>2. c # d /\ c # e
    BY <2>1, ReachedAvoidingClosed
  <2> QED
    BY <2>2, ReachedAvoidingClosed
<1>4. Reached(s) \subseteq X
  BY <1>2, <1>3, ReachedClosed
<1>5. d \in Reached(s) /\ d \notin X
  BY ReachedAvoidingClosed DEF Dominates
<1> QED
  BY <1>4, <1>5

\* The dominators of a block form a chain:
LEMMA DominatorsChain ==
  ASSUME NEW s \in [Block -> SUBSET Block], NEW d, NEW e, NEW b,
         Dominates(s, d, b), Dominates(s, e, b), d \in Reached(s), e \in Reached(s)
  PROVE  Dominates(s, d, e) \/ Dominates(s, e, d)
<1> SUFFICES ASSUME e \in ReachedAvoiding(s, d), d \in ReachedAvoiding(s, e) PROVE FALSE
  BY DEF Dominates
<1> DEFINE X == ReachedAvoiding(s, d) \cup ReachedAvoiding(s, e)
<1>1. X \in SUBSET Block
  BY ReachedAvoidingClosed
<1>2. Entry \in X
  BY ReachedAvoidingClosed
<1>3. ASSUME NEW x \in X PROVE s[x] \subseteq X
  <2>1. CASE x \in ReachedAvoiding(s, d)
    BY <2>1, ReachedAvoidingClosed
  <2>2. CASE x \in ReachedAvoiding(s, e)
    BY <2>2, ReachedAvoidingClosed
  <2> QED BY <2>1, <2>2
<1>4. Reached(s) \subseteq X
  <2> HIDE DEF X
  <2> QED BY <1>1, <1>2, <1>3, ReachedClosed
<1> QED BY <1>4 DEF Dominates

\* c is the parent of b in the dominator tree: the last strict dominator of b.
Child(s, c, b) ==
  /\ c # b /\ Dominates(s, c, b)
  /\ \A e \in Block : e # b /\ Dominates(s, e, b) => Dominates(s, e, c)

\* a block is below one child of a block at most,
LEMMA ChildUnique ==
  ASSUME NEW s \in [Block -> SUBSET Block], NEW c \in Block, NEW x \in Block, NEW y \in Block,
         NEW b, Child(s, c, x), Child(s, c, y), Dominates(s, x, b), Dominates(s, y, b)
  PROVE  x = y
<1>1. x \in Reached(s) /\ y \in Reached(s)
  BY DominatorReached
<1>2. Dominates(s, x, y) \/ Dominates(s, y, x)
  BY <1>1, DominatorsChain
<1>3. ASSUME NEW u \in Block, NEW w \in Block, Child(s, c, u), Child(s, c, w), Dominates(s, u, w), u # w
      PROVE  FALSE
  <2>1. Dominates(s, u, c) /\ Dominates(s, c, u) /\ c # u
    BY <1>3 DEF Child
  <2> QED BY <2>1, DominatesAntisymmetric
<1> QED BY <1>2, <1>3

\* and below one of them if it is strictly dominated.
LEMMA ChildExists ==
  ASSUME NEW s \in [Block -> SUBSET Block], NEW c \in Block, NEW b \in Block, c # b, Dominates(s, c, b)
  PROVE  \E x \in Block : Child(s, c, x) /\ Dominates(s, x, b)
<1> DEFINE Above(x) == {g \in Block : Dominates(s, g, x)}
           Between == {x \in Block : c # x /\ Dominates(s, c, x) /\ Dominates(s, x, b)}
           Size(x) == Cardinality(Above(x))
           Sizes == {Size(x) : x \in Between}
<1>1. \A x \in Block : IsFiniteSet(Above(x)) /\ Size(x) \in Nat
  <2>1. ASSUME NEW x \in Block PROVE IsFiniteSet(Above(x)) /\ Size(x) \in Nat
    <3>1. Above(x) \in SUBSET Block
      OBVIOUS
    <3> QED BY <3>1, BlockAssumption, FS_Subset, FS_CardinalityType
  <2> QED BY <2>1
<1>2. b \in Between
  <2>1. b \in Reached(s)
    BY DEF Dominates
  <2> QED BY <2>1, DominatesItself
<1>3. PICK n \in Sizes : \A m \in Sizes : n <= m
  <2>1. Sizes \in SUBSET Nat /\ Sizes # {}
    BY <1>1, <1>2
  <2> HIDE DEF Sizes
  <2> QED BY <2>1, LeastNatural
<1>4. PICK x \in Between : Size(x) = n
  OBVIOUS
<1>5. x \in Block /\ c # x /\ Dominates(s, c, x) /\ Dominates(s, x, b)
  OBVIOUS
<1>6. ASSUME NEW y \in Between, Dominates(s, y, x)
      PROVE  y = x
  <2> SUFFICES ASSUME y # x PROVE FALSE
    OBVIOUS
  <2>1. ~Dominates(s, x, y)
    BY <1>6, DominatesAntisymmetric
  <2>2. Above(y) \subseteq Above(x)
    BY <1>6, DominatesTransitive
  <2>3. x \in Above(x) /\ x \notin Above(y)
    <3>1. x \in Reached(s)
      BY <1>5 DEF Dominates
    <3> QED BY <2>1, <3>1, <1>5, DominatesItself
  <2>4. y \in Block
    OBVIOUS
  <2>5. Size(y) <= Size(x) /\ (Size(y) = Size(x) => Above(y) = Above(x))
    <3>1. Above(y) \in SUBSET Above(x) /\ IsFiniteSet(Above(x))
      BY <2>2, <1>1, <1>5
    <3> HIDE DEF Above
    <3> QED BY <3>1, FS_Subset
  <2>6. Size(x) <= Size(y)
    BY <1>3, <1>4
  <2>7. Size(x) \in Nat /\ Size(y) \in Nat
    BY <1>1, <1>5, <2>4
  <2>8. Above(y) = Above(x)
    <3> HIDE DEF Size
    <3> QED BY <2>5, <2>6, <2>7
  <2> QED BY <2>8, <2>3
<1>7. ASSUME NEW e \in Block, e # x, Dominates(s, e, x)
      PROVE  Dominates(s, e, c)
  <2>1. e \in Reached(s) /\ c \in Reached(s)
    BY <1>7, <1>5, DominatorReached
  <2>2. CASE Dominates(s, e, c)
    BY <2>2
  <2>3. CASE Dominates(s, c, e)
    <3>1. CASE c = e
      BY <3>1, <2>1, DominatesItself
    <3>2. CASE c # e
      <4>1. Dominates(s, e, b)
        BY <1>5, <1>7, DominatesTransitive
      <4>2. e \in Between
        BY <3>2, <2>3, <4>1
      <4> QED BY <4>2, <1>6, <1>7
    <3> QED BY <3>1, <3>2
  <2> QED BY <2>1, <2>2, <2>3, <1>5, <1>7, DominatorsChain
<1> QED BY <1>5, <1>7 DEF Child
=============================================================================
