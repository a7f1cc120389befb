--------------------------- MODULE Mem2Reg_proofs ---------------------------
(***************************************************************************)
(* What Mem2Reg does, for every set of well-formed programs: the stacks of *)
(* re_name follow its calls, so that a function whose variables start with *)
(* a value is renamed to the end, every phi gets one pair for each         *)
(* predecessor, and what is left is in SSA form.                           *)
(***************************************************************************)
EXTENDS Mem2Reg, Dominance_proofs, SequenceTheorems

-----------------------------------------------------------------------------
(* What is left of a sequence at some places.                              *)

\* The sequence t has the members of s at these places, in the order they had.
Keeps(t, s, places) ==
  \E g \in [DOMAIN t -> places] :
    /\ \A k \in DOMAIN t : t[k] = s[g[k]]
    /\ \A i, j \in DOMAIN t : i < j => g[i] < g[j]
    /\ \A k \in places : \E i \in DOMAIN t : g[i] = k

\* Only keeps the members at the places, in their order.
LEMMA OnlyInOrder ==
  ASSUME NEW s, NEW n \in Nat, NEW places \in SUBSET (1 .. n)
  PROVE  /\ Cardinality(places) \in Nat
         /\ DOMAIN Only(s, places) = 1 .. Cardinality(places)
         /\ Keeps(Only(s, places), s, places)
<1> DEFINE size == Cardinality(places)
           Below(k) == {j \in places : j < k}
           Rank(k) == Cardinality(Below(k)) + 1
           rank == [k \in places |-> Rank(k)]
           place(i) == CHOOSE k \in places : Cardinality(Below(k)) = i - 1
           g == [i \in 1 .. size |-> place(i)]
<1>1. IsFiniteSet(places) /\ size \in Nat /\ places \in SUBSET Nat
  <2>1. IsFiniteSet(1 .. n)
    BY FS_Interval
  <2>2. IsFiniteSet(places)
    BY <2>1, FS_Subset
  <2> QED BY <2>2, FS_CardinalityType
<1>2. ASSUME NEW k \in places
      PROVE  IsFiniteSet(Below(k)) /\ Cardinality(Below(k)) \in Nat /\ Rank(k) \in 1 .. size
  <2>1. Below(k) \in SUBSET places /\ k \notin Below(k)
    BY <1>1
  <2> HIDE DEF Below
  <2>2. IsFiniteSet(Below(k)) /\ Cardinality(Below(k)) \in Nat
    BY <1>1, <2>1, FS_Subset, FS_CardinalityType
  <2>3. Cardinality(Below(k)) <= size /\ Cardinality(Below(k)) # size
    BY <1>1, <2>1, FS_Subset
  <2> QED BY <1>1, <2>2, <2>3
<1>3. ASSUME NEW j \in places, NEW k \in places, j < k PROVE Rank(j) < Rank(k)
  <2>1. Below(j) \in SUBSET Below(k) /\ j \in Below(k) /\ j \notin Below(j)
    <3>1. j \in Nat /\ k \in Nat /\ j < k
      BY <1>1, <1>3
    <3>2. \A i \in places : i \in Nat
      BY <1>1
    <3>3. ASSUME NEW i \in places, i < j PROVE i < k
      <4>1. i \in Nat
        BY <3>2
      <4> QED BY <4>1, <3>1, <3>3
    <3>4. ~(j < j)
      BY <3>1
    <3> QED BY <3>1, <3>3, <3>4
  <2>2. IsFiniteSet(Below(k)) /\ Cardinality(Below(k)) \in Nat /\ Cardinality(Below(j)) \in Nat
    BY <1>2
  <2> HIDE DEF Below
  <2>3. Cardinality(Below(j)) <= Cardinality(Below(k)) /\ Cardinality(Below(j)) # Cardinality(Below(k))
    BY <2>1, <2>2, FS_Subset
  <2> QED BY <2>2, <2>3
<1> HIDE DEF Below
<1>4. ASSUME NEW j \in places, NEW k \in places, Rank(j) = Rank(k) PROVE j = k
  <2>1. Rank(j) \in Nat /\ Rank(k) \in Nat
    BY <1>2
  <2> HIDE DEF Rank
  <2> QED BY <1>1, <1>3, <1>4, <2>1
<1>5. ASSUME NEW i \in 1 .. size PROVE \E k \in places : Rank(k) = i
  <2>1. rank \in [places -> 1 .. size]
    BY <1>2
  <2>2. rank \in Injection(places, 1 .. size)
    <3>1. \A j, k \in places : rank[j] = rank[k] => j = k
      BY <1>4
    <3> QED BY <2>1, <3>1 DEF Injection, IsInjective
  <2>3. IsFiniteSet(1 .. size) /\ Cardinality(1 .. size) = size
    BY <1>1, FS_Interval
  <2>4. rank \in Surjection(places, 1 .. size)
    <3> HIDE DEF rank
    <3> QED BY <2>2, <2>3, FS_Injection
  <2> QED BY <2>4 DEF Surjection
<1>6. ASSUME NEW i \in 1 .. size PROVE place(i) \in places /\ Rank(place(i)) = i
  <2>1. PICK k \in places : Rank(k) = i
    BY <1>5
  <2>2. Cardinality(Below(k)) = i - 1
    BY <1>2, <2>1
  <2>3. place(i) \in places /\ Cardinality(Below(place(i))) = i - 1
    BY <2>2
  <2> HIDE DEF place
  <2> QED BY <2>3, <1>2
<1>7. g \in [1 .. size -> places] /\ \A i \in 1 .. size : Rank(g[i]) = i
  <2> HIDE DEF Rank, place
  <2> QED BY <1>6
<1>8. Only(s, places) = [k \in 1 .. size |-> s[g[k]]]
  BY DEF Only, Below
<1> HIDE DEF g, Rank
<1>9. \A i, j \in 1 .. size : i < j => g[i] < g[j]
  <2> SUFFICES ASSUME NEW i \in 1 .. size, NEW j \in 1 .. size, i < j, ~(g[i] < g[j]) PROVE FALSE
    OBVIOUS
  <2>1. g[i] \in places /\ g[j] \in places
    BY <1>7
  <2>2. g[j] < g[i] \/ g[i] = g[j]
    <3>1. g[i] \in Nat /\ g[j] \in Nat
      BY <2>1, <1>1
    <3> QED BY <3>1
  <2>3. Rank(g[i]) = i /\ Rank(g[j]) = j /\ i \in Nat /\ j \in Nat
    BY <1>7
  <2>4. CASE g[i] = g[j]
    BY <2>3, <2>4
  <2>5. CASE g[j] < g[i]
    <3>1. Rank(g[j]) < Rank(g[i])
      BY <2>1, <2>5, <1>3
    <3> QED BY <3>1, <2>3
  <2> QED BY <2>2, <2>4, <2>5
<1>10. \A k \in places : \E i \in 1 .. size : g[i] = k
  <2> TAKE k \in places
  <2>1. Rank(k) \in 1 .. size
    BY <1>2 DEF Rank
  <2>2. g[Rank(k)] \in places /\ Rank(g[Rank(k)]) = Rank(k)
    BY <2>1, <1>7
  <2> QED BY <2>1, <2>2, <1>4
<1>11. DOMAIN Only(s, places) = 1 .. size /\ \A k \in 1 .. size : Only(s, places)[k] = s[g[k]]
  BY <1>8
<1>12. Keeps(Only(s, places), s, places)
  <2> DEFINE t == Only(s, places)
  <2>1. DOMAIN t = 1 .. size /\ \A k \in 1 .. size : t[k] = s[g[k]]
    BY <1>11
  <2> HIDE DEF t
  <2>2. g \in [DOMAIN t -> places]
    BY <1>7, <2>1
  <2>3. \A k \in DOMAIN t : t[k] = s[g[k]]
    BY <2>1
  <2>4. \A i, j \in DOMAIN t : i < j => g[i] < g[j]
    BY <2>1, <1>9
  <2>5. \A k \in places : \E i \in DOMAIN t : g[i] = k
    BY <2>1, <1>10
  <2>6. Keeps(t, s, places)
    BY <2>2, <2>3, <2>4, <2>5, Zenon DEF Keeps
  <2> QED BY <2>6 DEF t
<1> QED BY <1>1, <1>11, <1>12

-----------------------------------------------------------------------------
(* Counting what the calls hold.                                           *)

\* The members of the first n sets of g, each with the number of its set.
Tagged(g, n) == UNION {{k} \X g[k] : k \in 1 .. n}

\* One more set adds its members,
LEMMA TaggedStep ==
  ASSUME NEW g, NEW n \in Nat, IsFiniteSet(Tagged(g, n)), IsFiniteSet(g[n + 1])
  PROVE  /\ IsFiniteSet(Tagged(g, n + 1))
         /\ Cardinality(Tagged(g, n + 1)) = Cardinality(Tagged(g, n)) + Cardinality(g[n + 1])
<1> DEFINE New == {n + 1} \X g[n + 1]
<1>1. Tagged(g, n + 1) = Tagged(g, n) \cup New
  <2>1. 1 .. n + 1 = (1 .. n) \cup {n + 1}
    OBVIOUS
  <2> QED BY <2>1 DEF Tagged
<1>2. Tagged(g, n) \cap New = {}
  <2> SUFFICES ASSUME NEW x \in Tagged(g, n), x \in New PROVE FALSE
    OBVIOUS
  <2>1. PICK k \in 1 .. n : x \in {k} \X g[k]
    BY DEF Tagged
  <2>2. x[1] = k /\ x[1] = n + 1
    BY <2>1
  <2> QED BY <2>2
<1>3. IsFiniteSet(New) /\ Cardinality(New) = Cardinality(g[n + 1])
  <2>1. IsFiniteSet({n + 1}) /\ Cardinality({n + 1}) = 1
    BY FS_Singleton
  <2>2. IsFiniteSet(New) /\ Cardinality(New) = 1 * Cardinality(g[n + 1])
    BY <2>1, FS_Product
  <2>3. Cardinality(g[n + 1]) \in Nat
    BY FS_CardinalityType
  <2> QED BY <2>2, <2>3
<1> HIDE DEF New
<1>4. /\ IsFiniteSet(Tagged(g, n) \cup New)
      /\ Cardinality(Tagged(g, n) \cup New) = Cardinality(Tagged(g, n)) + Cardinality(New) - Cardinality({})
  BY <1>2, <1>3, FS_Union
<1>5. Cardinality({}) = 0
  BY FS_EmptySet
<1>6. Cardinality(Tagged(g, n)) \in Nat /\ Cardinality(New) \in Nat
  BY <1>3, FS_CardinalityType
<1>7. Cardinality(g[n + 1]) \in Nat
  BY FS_CardinalityType
<1>8. Cardinality(Tagged(g, n) \cup New) = Cardinality(Tagged(g, n)) + Cardinality(g[n + 1])
  BY <1>3, <1>4, <1>5, <1>6, <1>7
<1> QED BY <1>1, <1>4, <1>8

\* so that finitely many finite sets have finitely many members.
LEMMA TaggedFinite ==
  ASSUME NEW g, NEW n \in Nat, \A k \in 1 .. n : IsFiniteSet(g[k])
  PROVE  IsFiniteSet(Tagged(g, n)) /\ Cardinality(Tagged(g, n)) \in Nat
<1> DEFINE S == {m \in Nat : m <= n => IsFiniteSet(Tagged(g, m))}
<1>1. 0 \in S
  <2>1. Tagged(g, 0) = {}
    BY DEF Tagged
  <2> QED BY <2>1, FS_EmptySet
<1>2. \A m \in Nat : m \in S => m + 1 \in S
  <2> TAKE m \in Nat
  <2> HAVE m \in S
  <2> SUFFICES ASSUME m + 1 <= n PROVE IsFiniteSet(Tagged(g, m + 1))
    OBVIOUS
  <2>1. IsFiniteSet(Tagged(g, m)) /\ IsFiniteSet(g[m + 1])
    OBVIOUS
  <2> QED BY <2>1, TaggedStep
<1>3. n \in S
  <2> HIDE DEF S
  <2> QED BY <1>1, <1>2, SetInduction
<1>4. IsFiniteSet(Tagged(g, n))
  BY <1>3
<1> QED BY <1>4, FS_CardinalityType

\* Fewer sets, fewer members.
LEMMA TaggedGrows ==
  ASSUME NEW g, NEW n \in Nat, NEW m \in 0 .. n, \A k \in 1 .. n : IsFiniteSet(g[k])
  PROVE  Cardinality(Tagged(g, m)) \in Nat /\ Cardinality(Tagged(g, m)) <= Cardinality(Tagged(g, n))
<1>1. IsFiniteSet(Tagged(g, n)) /\ Cardinality(Tagged(g, n)) \in Nat
  BY TaggedFinite
<1>2. Tagged(g, m) \in SUBSET Tagged(g, n)
  <2>1. 1 .. m \subseteq 1 .. n
    OBVIOUS
  <2> QED BY <2>1 DEF Tagged
<1> QED BY <1>1, <1>2, FS_Subset, FS_CardinalityType

\* Only the sets count.
LEMMA TaggedSame ==
  ASSUME NEW g, NEW h, NEW n \in Nat, \A k \in 1 .. n : g[k] = h[k]
  PROVE  Tagged(g, n) = Tagged(h, n)
BY DEF Tagged

\* There is a member as soon as one set has one.
LEMMA TaggedSome ==
  ASSUME NEW g, NEW n \in Nat, \A k \in 1 .. n : IsFiniteSet(g[k])
  PROVE  Cardinality(Tagged(g, n)) > 0 <=> \E k \in 1 .. n : g[k] # {}
<1>1. IsFiniteSet(Tagged(g, n)) /\ Cardinality(Tagged(g, n)) \in Nat
  BY TaggedFinite
<1>2. Cardinality(Tagged(g, n)) = 0 <=> Tagged(g, n) = {}
  BY <1>1, FS_EmptySet
<1>3. Tagged(g, n) # {} <=> \E k \in 1 .. n : g[k] # {}
  <2>1. ASSUME NEW k \in 1 .. n, g[k] # {} PROVE Tagged(g, n) # {}
    <3>1. PICK x : x \in g[k]
      BY <2>1
    <3>2. <<k, x>> \in Tagged(g, n)
      BY <3>1 DEF Tagged
    <3> QED BY <3>2
  <2>2. ASSUME NEW x \in Tagged(g, n) PROVE \E k \in 1 .. n : g[k] # {}
    <3>1. PICK k \in 1 .. n : x \in {k} \X g[k]
      BY DEF Tagged
    <3> QED BY <3>1
  <2> QED BY <2>1, <2>2
<1> QED BY <1>1, <1>2, <1>3

-----------------------------------------------------------------------------
(* The code during re_name.                                                *)

\* Phis come first, one for a variable; a load is known by its id.
CodeOK(c) ==
  /\ c \in [Block -> Seq(Instr)]
  /\ \A b \in Block : \A i \in DOMAIN c[b] :
       /\ c[b][i].op = "phi" => /\ c[b][i].id = PhiName(b, c[b][i].var)
                                /\ \A j \in 1 .. i : c[b][j].op = "phi"
       /\ c[b][i].op # "output" => c[b][i].var \in Var
       /\ c[b][i].op = "load" => c[b][i].id[1] = "load"
  /\ \A b \in Block : \A i, j \in DOMAIN c[b] :
       c[b][i].op = "phi" /\ c[b][j].op = "phi" /\ c[b][i].var = c[b][j].var => i = j
  /\ \A b, d \in Block : \A i \in DOMAIN c[b], j \in DOMAIN c[d] :
       c[b][i].op = "load" /\ c[d][j].op = "load" /\ c[b][i].id = c[d][j].id => b = d /\ i = j

\* Only operands differ.
SameShape(c, d) ==
  /\ d \in [Block -> Seq(Instr)]
  /\ \A b \in Block : /\ Len(d[b]) = Len(c[b]) /\ DOMAIN d[b] = DOMAIN c[b]
                      /\ \A i \in DOMAIN c[b] : /\ d[b][i].op = c[b][i].op
                                                /\ d[b][i].id = c[b][i].id
                                                /\ d[b][i].var = c[b][i].var

\* Every variable is stored to before it is loaded in the entry block.
StoredFirst(c) ==
  \A v \in Var : \E i \in DOMAIN c[Entry] :
     /\ c[Entry][i].op = "store" /\ c[Entry][i].var = v
     /\ \A j \in 1 .. i : ~(c[Entry][j].op = "load" /\ c[Entry][j].var = v)

\* The shape is what the code's well-formedness is about.
LEMMA SameShapeOK ==
  ASSUME NEW c, NEW d, CodeOK(c), SameShape(c, d)
  PROVE  CodeOK(d) /\ (StoredFirst(c) => StoredFirst(d))
<1>1. \A b \in Block : DOMAIN c[b] = 1 .. Len(c[b]) /\ Len(c[b]) \in Nat
  BY DEF CodeOK
<1>2. \A b \in Block : \A i \in DOMAIN c[b] : 1 .. i \subseteq DOMAIN c[b]
  BY <1>1
<1>3. ASSUME NEW b \in Block, NEW i \in DOMAIN d[b]
      PROVE  /\ d[b][i].op = "phi" => /\ d[b][i].id = PhiName(b, d[b][i].var)
                                      /\ \A j \in 1 .. i : d[b][j].op = "phi"
             /\ d[b][i].op # "output" => d[b][i].var \in Var
             /\ d[b][i].op = "load" => d[b][i].id[1] = "load"
  <2>1. i \in DOMAIN c[b] /\ d[b][i].op = c[b][i].op /\ d[b][i].id = c[b][i].id /\ d[b][i].var = c[b][i].var
    BY DEF SameShape
  <2>2. ASSUME d[b][i].op = "phi", NEW j \in 1 .. i PROVE d[b][j].op = "phi"
    <3>1. j \in DOMAIN c[b]
      BY <1>2, <2>1
    <3>2. c[b][j].op = "phi"
      BY <2>1, <2>2 DEF CodeOK
    <3> QED BY <3>1, <3>2 DEF SameShape
  <2> QED BY <2>1, <2>2 DEF CodeOK
<1>4. \A b \in Block : \A i, j \in DOMAIN d[b] :
        d[b][i].op = "phi" /\ d[b][j].op = "phi" /\ d[b][i].var = d[b][j].var => i = j
  BY DEF CodeOK, SameShape
<1>5. \A b, e \in Block : \A i \in DOMAIN d[b], j \in DOMAIN d[e] :
        d[b][i].op = "load" /\ d[e][j].op = "load" /\ d[b][i].id = d[e][j].id => b = e /\ i = j
  BY DEF CodeOK, SameShape
<1>6. CodeOK(d)
  BY <1>3, <1>4, <1>5 DEF CodeOK, SameShape
<1>7. ASSUME StoredFirst(c) PROVE StoredFirst(d)
  <2> SUFFICES ASSUME NEW v \in Var
               PROVE  \E i \in DOMAIN d[Entry] :
                        /\ d[Entry][i].op = "store" /\ d[Entry][i].var = v
                        /\ \A j \in 1 .. i : ~(d[Entry][j].op = "load" /\ d[Entry][j].var = v)
    BY DEF StoredFirst
  <2>1. PICK i \in DOMAIN c[Entry] :
          /\ c[Entry][i].op = "store" /\ c[Entry][i].var = v
          /\ \A j \in 1 .. i : ~(c[Entry][j].op = "load" /\ c[Entry][j].var = v)
    BY <1>7 DEF StoredFirst
  <2>2. Entry \in Block
    BY BlockAssumption
  <2>3. 1 .. i \subseteq DOMAIN c[Entry]
    BY <1>2, <2>2
  <2>4. i \in DOMAIN d[Entry] /\ d[Entry][i].op = "store" /\ d[Entry][i].var = v
    BY <2>1, <2>2 DEF SameShape
  <2>5. ASSUME NEW j \in 1 .. i PROVE ~(d[Entry][j].op = "load" /\ d[Entry][j].var = v)
    BY <2>1, <2>2, <2>3 DEF SameShape
  <2> QED BY <2>4, <2>5
<1> QED BY <1>6, <1>7

\* An instruction has its fields.
LEMMA InstrFields ==
  ASSUME NEW x \in Instr
  PROVE  /\ x.arg \in Value /\ x.id \in Value /\ x.pairs \in Seq(Value \X Block)
BY DEF Instr

\* The operands of an instruction after replace_all_use_with.
Replaced(x, old, new) == IF x = old THEN new ELSE x

\* replace_all_use_with changes operands only, those that are `old`.
LEMMA ReplaceUsesShape ==
  ASSUME NEW c, CodeOK(c), NEW old, NEW new \in Value
  PROVE  /\ SameShape(c, ReplaceUses(c, old, new))
         /\ \A b \in Block : \A i \in DOMAIN c[b] :
              LET x == c[b][i]
                  y == ReplaceUses(c, old, new)[b][i]
              IN  /\ y.arg = Replaced(x.arg, old, new)
                  /\ Len(y.pairs) = Len(x.pairs) /\ DOMAIN y.pairs = DOMAIN x.pairs
                  /\ \A k \in DOMAIN x.pairs : /\ y.pairs[k][1] = Replaced(x.pairs[k][1], old, new)
                                               /\ y.pairs[k][2] = x.pairs[k][2]
<1> DEFINE d == ReplaceUses(c, old, new)
           repl(x) == [x EXCEPT !.arg = Replaced(@, old, new),
                                !.pairs = [k \in DOMAIN @ |-> <<Replaced(@[k][1], old, new), @[k][2]>>]]
<1>1. d = [b \in Block |-> [k \in DOMAIN c[b] |-> repl(c[b][k])]]
  BY DEF ReplaceUses, Replaced
<1> HIDE DEF d
<1>2. ASSUME NEW x \in Instr
      PROVE  LET y == repl(x)
             IN  /\ y \in Instr /\ y.op = x.op /\ y.id = x.id /\ y.var = x.var
                 /\ y.arg = Replaced(x.arg, old, new)
                 /\ Len(y.pairs) = Len(x.pairs) /\ DOMAIN y.pairs = DOMAIN x.pairs
                 /\ \A k \in DOMAIN x.pairs : /\ y.pairs[k][1] = Replaced(x.pairs[k][1], old, new)
                                              /\ y.pairs[k][2] = x.pairs[k][2]
  <2> DEFINE a == Replaced(x.arg, old, new)
             q == [k \in DOMAIN x.pairs |-> <<Replaced(x.pairs[k][1], old, new), x.pairs[k][2]>>]
  <2>1. x.pairs \in Seq(Value \X Block) /\ a \in Value
    BY InstrFields DEF Replaced
  <2>2. \A k \in DOMAIN x.pairs : x.pairs[k] \in Value \X Block
    BY <2>1
  <2>3. \A k \in DOMAIN x.pairs : q[k] \in Value \X Block
    BY <2>2 DEF Replaced
  <2>4. DOMAIN x.pairs = 1 .. Len(x.pairs) /\ Len(x.pairs) \in Nat
    BY <2>1
  <2>5. q \in Seq(Value \X Block) /\ Len(q) = Len(x.pairs) /\ DOMAIN q = DOMAIN x.pairs
    <3>1. q \in [1 .. Len(x.pairs) -> Value \X Block]
      BY <2>3, <2>4
    <3> QED BY <3>1, <2>4
  <2>6. repl(x) = [x EXCEPT !.arg = a, !.pairs = q]
    BY DEF Instr
  <2>7. \A k \in DOMAIN x.pairs : q[k][1] = Replaced(x.pairs[k][1], old, new) /\ q[k][2] = x.pairs[k][2]
    OBVIOUS
  <2> HIDE DEF a, q, repl
  <2>8. LET y == repl(x) IN y \in Instr /\ y.op = x.op /\ y.id = x.id /\ y.var = x.var /\ y.arg = a /\ y.pairs = q
    <3> DEFINE y == [x EXCEPT !.arg = a, !.pairs = q]
    <3>1. y \in Instr /\ y.op = x.op /\ y.id = x.id /\ y.var = x.var /\ y.arg = a /\ y.pairs = q
      BY <2>1, <2>5 DEF Instr
    <3> HIDE DEF y
    <3>2. repl(x) = y
      BY <2>6 DEF y
    <3> QED BY <3>1, <3>2
  <2> QED BY <2>5, <2>7, <2>8 DEF a
<1> HIDE DEF repl
<1>3. ASSUME NEW b \in Block
      PROVE  /\ d[b] \in Seq(Instr) /\ Len(d[b]) = Len(c[b]) /\ DOMAIN d[b] = DOMAIN c[b]
             /\ \A i \in DOMAIN c[b] : d[b][i] = repl(c[b][i]) /\ c[b][i] \in Instr
  <2>1. c[b] \in Seq(Instr)
    BY DEF CodeOK
  <2>2. \A i \in DOMAIN c[b] : c[b][i] \in Instr
    BY <2>1
  <2>3. d[b] = [i \in DOMAIN c[b] |-> repl(c[b][i])]
    BY <1>1
  <2>4. \A i \in DOMAIN c[b] : repl(c[b][i]) \in Instr
    BY <2>2, <1>2
  <2>5. DOMAIN c[b] = 1 .. Len(c[b]) /\ Len(c[b]) \in Nat
    BY <2>1
  <2>6. d[b] \in [1 .. Len(c[b]) -> Instr]
    BY <2>3, <2>4, <2>5
  <2> QED BY <2>2, <2>3, <2>5, <2>6
<1>4. d \in [Block -> Seq(Instr)]
  BY <1>1, <1>3
<1>5. SameShape(c, d)
  BY <1>2, <1>3, <1>4 DEF SameShape
<1>6. ASSUME NEW b \in Block, NEW i \in DOMAIN c[b]
      PROVE  LET x == c[b][i]
                 y == d[b][i]
              IN  /\ y.arg = Replaced(x.arg, old, new)
                  /\ Len(y.pairs) = Len(x.pairs) /\ DOMAIN y.pairs = DOMAIN x.pairs
                  /\ \A k \in DOMAIN x.pairs : /\ y.pairs[k][1] = Replaced(x.pairs[k][1], old, new)
                                               /\ y.pairs[k][2] = x.pairs[k][2]
  BY <1>2, <1>3
<1> QED BY <1>5, <1>6 DEF d

\* The code after the phis of the variables `names`, in the blocks `succs`, got
\* the pair for block b.
Gets(x, names) == x.op = "phi" /\ x.var \in names
Filled(c, succs, names, top, b) ==
  [d \in Block |->
     IF d \in succs
     THEN [k \in DOMAIN c[d] |-> IF Gets(c[d][k], names)
                                 THEN [c[d][k] EXCEPT !.pairs = Append(@, <<top[c[d][k].var], b>>)]
                                 ELSE c[d][k]]
     ELSE c[d]]

\* The instruction x is filled to y, in one of the blocks `succs` or not.
IsFilled(x, y, inSuccs, names, top, b) ==
  /\ y.arg = x.arg
  /\ y.pairs = IF inSuccs /\ Gets(x, names) THEN Append(x.pairs, <<top[x.var], b>>) ELSE x.pairs

\* Filling phis changes their pairs only.
LEMMA FilledShape ==
  ASSUME NEW c, CodeOK(c), NEW succs, NEW names, NEW top, NEW b \in Block,
         \A d \in succs \cap Block : \A k \in DOMAIN c[d] : Gets(c[d][k], names) => top[c[d][k].var] \in Value
  PROVE  /\ SameShape(c, Filled(c, succs, names, top, b))
         /\ \A d \in Block : \A k \in DOMAIN c[d] :
              IsFilled(c[d][k], Filled(c, succs, names, top, b)[d][k], d \in succs, names, top, b)
<1> DEFINE f == Filled(c, succs, names, top, b)
           fill(x) == IF Gets(x, names) THEN [x EXCEPT !.pairs = Append(@, <<top[x.var], b>>)] ELSE x
<1>1. ASSUME NEW x \in Instr, Gets(x, names) => top[x.var] \in Value
      PROVE  LET y == fill(x)
             IN  /\ y \in Instr /\ y.op = x.op /\ y.id = x.id /\ y.var = x.var /\ y.arg = x.arg
                 /\ y.pairs = IF Gets(x, names) THEN Append(x.pairs, <<top[x.var], b>>) ELSE x.pairs
  <2>1. CASE Gets(x, names)
    <3> DEFINE q == Append(x.pairs, <<top[x.var], b>>)
    <3>1. x.pairs \in Seq(Value \X Block)
      BY InstrFields
    <3>2. <<top[x.var], b>> \in Value \X Block
      BY <1>1, <2>1
    <3>3. q \in Seq(Value \X Block)
      BY <3>1, <3>2
    <3>4. fill(x) = [x EXCEPT !.pairs = q]
      BY <2>1 DEF Instr
    <3> HIDE DEF q, fill
    <3> DEFINE y == [x EXCEPT !.pairs = q]
    <3>5. y \in Instr /\ y.op = x.op /\ y.id = x.id /\ y.var = x.var /\ y.arg = x.arg /\ y.pairs = q
      BY <3>3 DEF Instr
    <3> HIDE DEF y
    <3>6. fill(x) = y
      BY <3>4 DEF y
    <3> QED BY <3>5, <3>6, <2>1 DEF q
  <2>2. CASE ~Gets(x, names)
    BY <2>2
  <2> QED BY <2>1, <2>2
<1>2. f = [d \in Block |-> IF d \in succs THEN [k \in DOMAIN c[d] |-> fill(c[d][k])] ELSE c[d]]
  BY DEF Filled
<1> HIDE DEF f, fill
<1>3. ASSUME NEW d \in Block
      PROVE  /\ f[d] \in Seq(Instr) /\ Len(f[d]) = Len(c[d]) /\ DOMAIN f[d] = DOMAIN c[d]
             /\ \A i \in DOMAIN c[d] : f[d][i] = IF d \in succs THEN fill(c[d][i]) ELSE c[d][i]
  <2>1. c[d] \in Seq(Instr)
    BY DEF CodeOK
  <2>2. CASE d \notin succs
    BY <1>2, <2>1, <2>2
  <2>3. CASE d \in succs
    <3>1. \A i \in DOMAIN c[d] : c[d][i] \in Instr
      BY <2>1
    <3>2. f[d] = [i \in DOMAIN c[d] |-> fill(c[d][i])]
      BY <1>2, <2>3
    <3>3. \A i \in DOMAIN c[d] : fill(c[d][i]) \in Instr
      <4> TAKE i \in DOMAIN c[d]
      <4>1. Gets(c[d][i], names) => top[c[d][i].var] \in Value
        BY <2>3
      <4> QED BY <3>1, <4>1, <1>1
    <3>4. DOMAIN c[d] = 1 .. Len(c[d]) /\ Len(c[d]) \in Nat
      BY <2>1
    <3>5. f[d] \in [1 .. Len(c[d]) -> Instr]
      BY <3>2, <3>3, <3>4
    <3> QED BY <3>2, <3>4, <3>5, <2>3
  <2> QED BY <2>2, <2>3
<1>4. f \in [Block -> Seq(Instr)]
  BY <1>2, <1>3
<1>5. ASSUME NEW d \in Block, NEW k \in DOMAIN c[d]
      PROVE  LET x == c[d][k]
                 y == f[d][k]
             IN  /\ y.op = x.op /\ y.id = x.id /\ y.var = x.var /\ y.arg = x.arg
                 /\ y.pairs = IF d \in succs /\ Gets(x, names) THEN Append(x.pairs, <<top[x.var], b>>)
                                                               ELSE x.pairs
  <2>1. c[d][k] \in Instr
    BY DEF CodeOK
  <2>2. CASE d \notin succs
    BY <1>3, <2>2
  <2>3. CASE d \in succs
    <3>1. Gets(c[d][k], names) => top[c[d][k].var] \in Value
      BY <2>3
    <3> QED BY <1>1, <1>3, <2>1, <2>3, <3>1
  <2> QED BY <2>2, <2>3
<1>6. SameShape(c, f)
  BY <1>3, <1>4, <1>5 DEF SameShape
<1>7. ASSUME NEW d \in Block, NEW k \in DOMAIN c[d]
      PROVE  IsFilled(c[d][k], f[d][k], d \in succs, names, top, b)
  BY <1>5 DEF IsFilled
<1> QED BY <1>6, <1>7 DEF f

\* What EndReName and remove_alloca leave of the code: in each block b the
\* instructions at places[b], where no phi is left out.
LeftOf(c, places) == [b \in Block |-> Only(c[b], places[b])]
KeepsPhis(c, places) ==
  \A b \in Block : /\ places[b] \in SUBSET DOMAIN c[b]
                   /\ \A i \in DOMAIN c[b] : c[b][i].op = "phi" => i \in places[b]

\* Each instruction that is left was there, in the same order.
LEMMA LeftInOrder ==
  ASSUME NEW c, NEW places, c \in [Block -> Seq(Instr)], KeepsPhis(c, places), NEW b \in Block
  PROVE  /\ LeftOf(c, places)[b] \in Seq(Instr)
         /\ Keeps(LeftOf(c, places)[b], c[b], places[b])
<1> DEFINE left == LeftOf(c, places)[b]
<1>1. c[b] \in Seq(Instr) /\ places[b] \in SUBSET (1 .. Len(c[b])) /\ Len(c[b]) \in Nat
  BY DEF KeepsPhis
<1>2. left = Only(c[b], places[b])
  BY DEF LeftOf
<1> HIDE DEF left
<1>3. /\ Cardinality(places[b]) \in Nat
      /\ DOMAIN left = 1 .. Cardinality(places[b])
      /\ Keeps(left, c[b], places[b])
  BY <1>1, <1>2, OnlyInOrder
<1>4. PICK g \in [DOMAIN left -> places[b]] : \A k \in DOMAIN left : left[k] = c[b][g[k]]
  BY <1>3 DEF Keeps
<1>5. \A k \in DOMAIN left : left[k] \in Instr
  BY <1>1, <1>4
<1>6. left = [k \in 1 .. Cardinality(places[b]) |-> left[k]]
  BY <1>2, <1>3 DEF Only
<1> DEFINE n == Cardinality(places[b])
<1>7. left \in [1 .. n -> Instr]
  <2>1. \A k \in 1 .. n : left[k] \in Instr
    BY <1>3, <1>5
  <2>2. left = [k \in 1 .. n |-> left[k]]
    BY <1>6
  <2> HIDE DEF n
  <2> QED BY <2>1, <2>2
<1>8. left \in Seq(Instr)
  <2>1. n \in Nat
    BY <1>3
  <2> HIDE DEF n
  <2> QED BY <1>7, <2>1
<1> QED BY <1>3, <1>8 DEF left

\* Leaving out loads, stores or allocas keeps the code well-formed.
LEMMA LeftOK ==
  ASSUME NEW c, NEW places, CodeOK(c), KeepsPhis(c, places)
  PROVE  CodeOK(LeftOf(c, places))
<1> DEFINE d == LeftOf(c, places)
<1>1. c \in [Block -> Seq(Instr)]
  BY DEF CodeOK
<1>2. \A b \in Block : d[b] \in Seq(Instr)
  BY <1>1, LeftInOrder
<1>3. d \in [Block -> Seq(Instr)]
  BY <1>2 DEF LeftOf
<1>4. \A b \in Block : Keeps(d[b], c[b], places[b])
  BY <1>1, LeftInOrder
<1> HIDE DEF d
<1>5. \A b \in Block : DOMAIN d[b] = 1 .. Len(d[b]) /\ Len(d[b]) \in Nat
                    /\ DOMAIN c[b] = 1 .. Len(c[b]) /\ Len(c[b]) \in Nat
  BY <1>1, <1>2
<1>6. ASSUME NEW b \in Block, NEW i \in DOMAIN d[b]
      PROVE  /\ d[b][i].op = "phi" => /\ d[b][i].id = PhiName(b, d[b][i].var)
                                      /\ \A j \in 1 .. i : d[b][j].op = "phi"
             /\ d[b][i].op # "output" => d[b][i].var \in Var
             /\ d[b][i].op = "load" => d[b][i].id[1] = "load"
  <2>1. PICK g \in [DOMAIN d[b] -> places[b]] :
              /\ \A k \in DOMAIN d[b] : d[b][k] = c[b][g[k]]
              /\ \A k, j \in DOMAIN d[b] : k < j => g[k] < g[j]
    BY <1>4 DEF Keeps
  <2>2. \A k \in DOMAIN d[b] : g[k] \in DOMAIN c[b]
    BY DEF KeepsPhis
  <2>3. ASSUME d[b][i].op = "phi", NEW j \in 1 .. i PROVE d[b][j].op = "phi"
    <3>1. j \in DOMAIN d[b] /\ (j < i \/ j = i)
      BY <1>5
    <3>2. g[j] \in DOMAIN c[b] /\ g[i] \in DOMAIN c[b] /\ g[j] <= g[i]
      BY <3>1, <2>1, <2>2, <1>5
    <3>3. g[j] \in 1 .. g[i]
      BY <3>2, <1>5
    <3>4. c[b][g[i]].op = "phi"
      BY <2>1, <2>3
    <3>5. c[b][g[j]].op = "phi"
      BY <3>2, <3>3, <3>4 DEF CodeOK
    <3> QED BY <3>1, <3>5, <2>1
  <2>4. g[i] \in DOMAIN c[b] /\ d[b][i] = c[b][g[i]]
    BY <2>1, <2>2
  <2> QED BY <2>3, <2>4 DEF CodeOK
<1>7. ASSUME NEW b \in Block, NEW i \in DOMAIN d[b], NEW j \in DOMAIN d[b],
             d[b][i].op = "phi", d[b][j].op = "phi", d[b][i].var = d[b][j].var
      PROVE  i = j
  <2>1. PICK g \in [DOMAIN d[b] -> places[b]] :
              /\ \A k \in DOMAIN d[b] : d[b][k] = c[b][g[k]]
              /\ \A k, m \in DOMAIN d[b] : k < m => g[k] < g[m]
    BY <1>4 DEF Keeps
  <2>2. g[i] \in DOMAIN c[b] /\ g[j] \in DOMAIN c[b]
    BY DEF KeepsPhis
  <2>3. g[i] = g[j]
    BY <1>7, <2>1, <2>2 DEF CodeOK
  <2>4. ~(i < j) /\ ~(j < i)
    BY <2>1, <2>2, <2>3, <1>5
  <2> QED BY <2>4, <1>5
<1>8. ASSUME NEW b \in Block, NEW e \in Block, NEW i \in DOMAIN d[b], NEW j \in DOMAIN d[e],
             d[b][i].op = "load", d[e][j].op = "load", d[b][i].id = d[e][j].id
      PROVE  b = e /\ i = j
  <2>1. PICK g \in [DOMAIN d[b] -> places[b]] :
              /\ \A k \in DOMAIN d[b] : d[b][k] = c[b][g[k]]
              /\ \A k, m \in DOMAIN d[b] : k < m => g[k] < g[m]
    BY <1>4 DEF Keeps
  <2>2. PICK h \in [DOMAIN d[e] -> places[e]] :
              /\ \A k \in DOMAIN d[e] : d[e][k] = c[e][h[k]]
    BY <1>4 DEF Keeps
  <2>3. g[i] \in DOMAIN c[b] /\ h[j] \in DOMAIN c[e]
    BY DEF KeepsPhis
  <2>4. b = e
    BY <1>8, <2>1, <2>2, <2>3 DEF CodeOK
  <2>5. j \in DOMAIN d[b] /\ g[j] \in DOMAIN c[b]
    BY <2>4 DEF KeepsPhis
  <2>6. g[i] = g[j]
    BY <1>8, <2>1, <2>3, <2>4, <2>5 DEF CodeOK
  <2>7. ~(i < j) /\ ~(j < i)
    BY <2>1, <2>3, <2>5, <2>6, <1>5
  <2> QED BY <2>4, <2>5, <2>7, <1>5
<1>9. CodeOK(d)
  BY <1>3, <1>6, <1>7, <1>8 DEF CodeOK
<1> QED BY <1>9 DEF d

-----------------------------------------------------------------------------
(* The calls of re_name in progress, in the graph s and the code c.        *)

CallRecord == [bb : Block, at : Nat, wait_delete : SUBSET Nat, children : SUBSET Block]

\* All calls but the last are at their children; each is for a block that the
\* blocks of the calls before it strictly dominate.
CallOK(s, c, cs, k) ==
  /\ cs[k].bb \in Reached(s)
  /\ cs[k].at \in 1 .. Len(c[cs[k].bb]) + 2
  /\ k < Len(cs) => cs[k].at = Len(c[cs[k].bb]) + 2
  /\ \A i \in cs[k].wait_delete : /\ i \in DOMAIN c[cs[k].bb] /\ i < cs[k].at
                                  /\ c[cs[k].bb][i].op \in {"load", "store"}
  /\ \A x \in cs[k].children : Child(s, cs[k].bb, x)
  /\ \A j \in 1 .. k - 1 : cs[j].bb # cs[k].bb /\ Dominates(s, cs[j].bb, cs[k].bb)
CallsOK(s, c, cs) ==
  /\ cs \in Seq(CallRecord)
  /\ cs # << >> => cs[1].bb = Entry
  /\ \A k \in 1 .. Len(cs) : CallOK(s, c, cs, k)

\* The last call becomes x.
TopIs(cs, ds, x) ==
  /\ ds \in Seq(CallRecord) /\ Len(ds) = Len(cs) /\ ds[Len(cs)] = x
  /\ \A k \in 1 .. Len(cs) - 1 : ds[k] = cs[k]

\* An EXCEPT at the last call does that,
LEMMA TopReplaced ==
  ASSUME NEW cs \in Seq(CallRecord), cs # << >>, NEW x \in CallRecord
  PROVE  TopIs(cs, [cs EXCEPT ![Len(cs)] = x], x)
BY DEF TopIs

\* for a call that goes one step on,
LEMMA AdvanceTop ==
  ASSUME NEW cs \in Seq(CallRecord), cs # << >>, NEW deleted \in SUBSET Nat
  PROVE  LET top == cs[Len(cs)]
             x == [top EXCEPT !.at = @ + 1, !.wait_delete = @ \cup deleted]
         IN  /\ x \in CallRecord /\ x.bb = top.bb /\ x.at = top.at + 1
             /\ x.wait_delete = top.wait_delete \cup deleted /\ x.children = top.children
             /\ TopIs(cs, [cs EXCEPT ![Len(cs)].at = @ + 1, ![Len(cs)].wait_delete = @ \cup deleted], x)
<1> DEFINE n == Len(cs)
           top == cs[n]
           x == [top EXCEPT !.at = @ + 1, !.wait_delete = @ \cup deleted]
           ds == [cs EXCEPT ![n].at = @ + 1, ![n].wait_delete = @ \cup deleted]
<1>1. n \in 1 .. Len(cs) /\ top \in CallRecord
  OBVIOUS
<1>2. x \in CallRecord /\ x.bb = top.bb /\ x.at = top.at + 1
      /\ x.wait_delete = top.wait_delete \cup deleted /\ x.children = top.children
  <2>1. top.at + 1 \in Nat /\ top.wait_delete \cup deleted \in SUBSET Nat
    <3>1. top.at \in Nat /\ top.wait_delete \in SUBSET Nat
      BY <1>1 DEF CallRecord
    <3> HIDE DEF top
    <3>2. top.at + 1 \in Nat
      BY <3>1
    <3>3. top.wait_delete \cup deleted \in SUBSET Nat
      BY <3>1
    <3> QED BY <3>2, <3>3
  <2> QED BY <1>1, <2>1 DEF CallRecord
<1>3. ds = [cs EXCEPT ![n] = x]
  BY <1>1 DEF CallRecord
<1>4. TopIs(cs, ds, x)
  <2> HIDE DEF x, ds
  <2> QED BY <1>2, <1>3, TopReplaced
<1> QED BY <1>2, <1>4

\* and for one that goes on to a child.
LEMMA DropChild ==
  ASSUME NEW cs \in Seq(CallRecord), cs # << >>, NEW b
  PROVE  LET top == cs[Len(cs)]
             x == [top EXCEPT !.children = @ \ {b}]
         IN  /\ x \in CallRecord /\ x.bb = top.bb /\ x.at = top.at
             /\ x.wait_delete = top.wait_delete /\ x.children = top.children \ {b}
             /\ TopIs(cs, [cs EXCEPT ![Len(cs)].children = @ \ {b}], x)
<1> DEFINE n == Len(cs)
           top == cs[n]
           x == [top EXCEPT !.children = @ \ {b}]
           ds == [cs EXCEPT ![n].children = @ \ {b}]
<1>1. n \in 1 .. Len(cs) /\ top \in CallRecord
  OBVIOUS
<1>2. x \in CallRecord /\ x.bb = top.bb /\ x.at = top.at
      /\ x.wait_delete = top.wait_delete /\ x.children = top.children \ {b}
  BY <1>1 DEF CallRecord
<1>3. ds = [cs EXCEPT ![n] = x]
  BY <1>1 DEF CallRecord
<1>4. TopIs(cs, ds, x)
  <2> HIDE DEF x, ds
  <2> QED BY <1>2, <1>3, TopReplaced
<1> QED BY <1>2, <1>4

\* The calls stay in order when the last one moves,
LEMMA TopChanges ==
  ASSUME NEW s, NEW c, NEW cs, CallsOK(s, c, cs), cs # << >>, NEW d, SameShape(c, d),
         NEW x, NEW ds, TopIs(cs, ds, x),
         x.bb = cs[Len(cs)].bb, x.at \in 1 .. Len(c[x.bb]) + 2,
         x.children \subseteq cs[Len(cs)].children,
         \A i \in x.wait_delete : i \in DOMAIN c[x.bb] /\ i < x.at /\ c[x.bb][i].op \in {"load", "store"}
  PROVE  CallsOK(s, d, ds)
<1> DEFINE n == Len(cs)
<1>1. n \in Nat \ {0} /\ ds \in Seq(CallRecord) /\ Len(ds) = n /\ ds[n] = x
      /\ \A k \in 1 .. n - 1 : ds[k] = cs[k]
  BY DEF CallsOK, TopIs
<1>2. \A k \in 1 .. n : cs[k] \in CallRecord /\ cs[k].bb \in Block /\ ds[k].bb = cs[k].bb
  <2>1. \A k \in 1 .. n : cs[k] \in CallRecord /\ cs[k].bb \in Block
    <3>1. cs \in Seq(CallRecord)
      BY DEF CallsOK
    <3>2. \A k \in 1 .. n : cs[k] \in CallRecord
      BY <3>1
    <3> QED BY <3>2 DEF CallRecord
  <2>2. \A k \in 1 .. n : k = n \/ k \in 1 .. n - 1
    BY <1>1
  <2> QED BY <2>1, <2>2, <1>1
<1>3. ds # << >> => ds[1].bb = Entry
  <2>1. 1 \in 1 .. n
    BY <1>1
  <2> QED BY <2>1, <1>2 DEF CallsOK
<1>4. \A b \in Block : Len(d[b]) = Len(c[b]) /\ DOMAIN d[b] = DOMAIN c[b]
                       /\ \A i \in DOMAIN c[b] : d[b][i].op = c[b][i].op
  BY DEF SameShape
<1>5. ASSUME NEW k \in 1 .. n PROVE CallOK(s, d, ds, k)
  <2> DEFINE b == cs[k].bb
  <2>1. CallOK(s, c, cs, k) /\ b \in Block /\ ds[k].bb = b
    BY <1>2 DEF CallsOK
  <2>2. \A j \in 1 .. k - 1 : j \in 1 .. n
    BY <1>1
  <2>3. \A j \in 1 .. k - 1 : ds[j].bb # ds[k].bb /\ Dominates(s, ds[j].bb, ds[k].bb)
    BY <2>1, <2>2, <1>2 DEF CallOK
  <2>4. CASE k < n
    <3>1. ds[k] = cs[k]
      BY <1>1, <2>4
    <3>2. cs[k].at = Len(c[b]) + 2 /\ b \in Reached(s) /\ \A y \in cs[k].children : Child(s, b, y)
      BY <2>1, <2>4 DEF CallOK
    <3>3. \A i \in cs[k].wait_delete : i \in DOMAIN c[b] /\ i < cs[k].at /\ c[b][i].op \in {"load", "store"}
      BY <2>1 DEF CallOK
    <3>4. cs[k].at \in 1 .. Len(d[b]) + 2 /\ cs[k].at = Len(d[b]) + 2
      BY <2>1, <3>2, <1>4 DEF CallOK
    <3>5. \A i \in cs[k].wait_delete : i \in DOMAIN d[b] /\ i < cs[k].at /\ d[b][i].op \in {"load", "store"}
      BY <2>1, <3>3, <1>4
    <3> HIDE DEF b
    <3> QED BY <2>1, <2>3, <3>1, <3>2, <3>4, <3>5 DEF CallOK
  <2>5. CASE k = n
    <3>1. ds[k] = x /\ ~(k < Len(ds))
      BY <1>1, <2>5
    <3>2. x.bb = b /\ \A y \in x.children : Child(s, b, y)
      BY <2>1, <2>5 DEF CallOK
    <3>3. x.at \in 1 .. Len(d[b]) + 2
      BY <2>1, <3>2, <1>4
    <3>4. \A i \in x.wait_delete : i \in DOMAIN d[b] /\ i < x.at /\ d[b][i].op \in {"load", "store"}
      BY <2>1, <3>2, <1>4
    <3>5. b \in Reached(s)
      BY <2>1 DEF CallOK
    <3> HIDE DEF b
    <3> QED BY <2>3, <3>1, <3>2, <3>3, <3>4, <3>5 DEF CallOK
  <2> QED BY <2>4, <2>5, <1>1
<1> QED BY <1>1, <1>3, <1>5 DEF CallsOK

\* when a call for a child of the last one's block begins,
LEMMA PushCall ==
  ASSUME NEW s \in [Block -> SUBSET Block], NEW c, c \in [Block -> Seq(Instr)],
         NEW below, CallsOK(s, c, below),
         NEW x \in CallRecord, x.bb \in Reached(s), x.at = 1, x.wait_delete = {},
         \A y \in x.children : Child(s, x.bb, y),
         below = << >> => x.bb = Entry,
         below # << >> => LET top == below[Len(below)]
                          IN  top.at = Len(c[top.bb]) + 2 /\ Child(s, top.bb, x.bb)
  PROVE  CallsOK(s, c, Append(below, x))
<1> DEFINE n == Len(below)
           cs == Append(below, x)
<1>1. below \in Seq(CallRecord) /\ n \in Nat /\ cs \in Seq(CallRecord) /\ Len(cs) = n + 1 /\ cs[n + 1] = x
      /\ \A k \in 1 .. n : cs[k] = below[k]
  BY DEF CallsOK
<1>2. cs[1].bb = Entry
  <2>1. CASE below = << >>
    BY <2>1, <1>1
  <2>2. CASE below # << >>
    <3>1. 1 \in 1 .. n
      BY <2>2, <1>1
    <3> QED BY <2>2, <3>1, <1>1 DEF CallsOK
  <2> QED BY <2>1, <2>2
<1> HIDE DEF cs
<1>3. ASSUME NEW k \in 1 .. n PROVE CallOK(s, c, cs, k)
  <2>1. CallOK(s, c, below, k) /\ cs[k] = below[k]
    BY <1>1 DEF CallsOK
  <2>2. \A j \in 1 .. k - 1 : cs[j] = below[j]
    <3>1. \A j \in 1 .. k - 1 : j \in 1 .. n
      BY <1>1
    <3> QED BY <3>1, <1>1
  <2>3. k < Len(cs) => cs[k].at = Len(c[cs[k].bb]) + 2
    <3>1. CASE k < n
      BY <3>1, <2>1 DEF CallOK
    <3>2. CASE k = n
      <4>1. below # << >>
        BY <1>1, <3>2
      <4> QED BY <4>1, <3>2, <2>1
    <3> QED BY <3>1, <3>2, <1>1
  <2> QED BY <2>1, <2>2, <2>3 DEF CallOK
<1>4. CallOK(s, c, cs, n + 1)
  <2>1. ASSUME NEW j \in 1 .. n
        PROVE  cs[j].bb # x.bb /\ Dominates(s, cs[j].bb, x.bb)
    <3>1. below # << >> /\ n \in 1 .. n
      BY <1>1
    <3> DEFINE top == below[n]
    <3>2. Child(s, top.bb, x.bb) /\ cs[n] = top /\ cs[j] = below[j]
      BY <3>1, <1>1
    <3>3. top.bb # x.bb /\ Dominates(s, top.bb, x.bb)
      BY <3>2 DEF Child
    <3>4. CASE j = n
      BY <3>4, <3>2, <3>3
    <3>5. CASE j # n
      <4>1. j \in 1 .. n - 1
        BY <3>5, <1>1
      <4>2. CallOK(s, c, below, n)
        BY <3>1 DEF CallsOK
      <4>3. below[j].bb # top.bb /\ Dominates(s, below[j].bb, top.bb)
        BY <4>1, <4>2 DEF CallOK
      <4> HIDE DEF top
      <4>4. Dominates(s, below[j].bb, x.bb)
        BY <4>3, <3>3, DominatesTransitive
      <4>5. below[j].bb # x.bb
        BY <4>3, <3>3, DominatesAntisymmetric
      <4> QED BY <4>4, <4>5, <3>2
    <3> QED BY <3>4, <3>5
  <2>2. x.at \in 1 .. Len(c[x.bb]) + 2
    <3>1. x.bb \in Block
      BY DEF CallRecord
    <3>2. Len(c[x.bb]) \in Nat
      BY <3>1
    <3> QED BY <3>2
  <2>3. n + 1 - 1 = n
    BY <1>1
  <2> QED BY <1>1, <2>1, <2>2, <2>3 DEF CallOK
<1>5. \A k \in 1 .. Len(cs) : k \in 1 .. n \/ k = n + 1
  BY <1>1
<1>6. CallsOK(s, c, cs)
  BY <1>1, <1>2, <1>3, <1>4, <1>5 DEF CallsOK
<1> QED BY <1>6 DEF cs

\* and when the last one ends.
LEMMA PopCall ==
  ASSUME NEW s, NEW c, NEW cs, CallsOK(s, c, cs), cs # << >>,
         NEW d, \A b \in Block : b # cs[Len(cs)].bb => d[b] = c[b]
  PROVE  /\ CallsOK(s, d, Front(cs)) /\ Len(Front(cs)) = Len(cs) - 1
         /\ \A k \in 1 .. Len(cs) - 1 : Front(cs)[k] = cs[k] /\ cs[k].bb # cs[Len(cs)].bb
<1> DEFINE n == Len(cs)
           ds == Front(cs)
<1>1. cs \in Seq(CallRecord) /\ n \in Nat \ {0}
  BY DEF CallsOK
<1>2. ds \in Seq(CallRecord) /\ Len(ds) = n - 1 /\ \A k \in 1 .. n - 1 : ds[k] = cs[k]
  <2>1. ds = SubSeq(cs, 1, n - 1)
    BY DEF Front
  <2> HIDE DEF ds
  <2>2. \A k \in 1 .. n - 1 : cs[k] \in CallRecord
    BY <1>1
  <2> HIDE DEF n
  <2>3. /\ SubSeq(cs, 1, n - 1) \in Seq(CallRecord)
        /\ Len(SubSeq(cs, 1, n - 1)) = IF 1 <= n - 1 THEN n - 1 - 1 + 1 ELSE 0
        /\ \A k \in 1 .. n - 1 - 1 + 1 : SubSeq(cs, 1, n - 1)[k] = cs[1 + k - 1]
    BY <1>1, <2>2, SubSeqProperties
  <2> QED BY <1>1, <2>1, <2>3
<1> HIDE DEF ds
<1>3. ASSUME NEW k \in 1 .. n - 1 PROVE cs[k].bb # cs[n].bb /\ cs[k].bb \in Block /\ k \in 1 .. n
  <2>1. CallOK(s, c, cs, n) /\ k \in 1 .. n
    BY <1>1 DEF CallsOK
  <2>2. cs[k] \in CallRecord
    BY <2>1, <1>1
  <2> QED BY <2>1, <2>2 DEF CallOK, CallRecord
<1>4. ASSUME NEW k \in 1 .. n - 1 PROVE CallOK(s, d, ds, k)
  <2>1. CallOK(s, c, cs, k) /\ d[cs[k].bb] = c[cs[k].bb] /\ ds[k] = cs[k]
    BY <1>2, <1>3 DEF CallsOK
  <2>2. \A j \in 1 .. k - 1 : ds[j] = cs[j]
    BY <1>1, <1>2
  <2>3. cs[k].at = Len(c[cs[k].bb]) + 2
    <3>1. k < n
      BY <1>1
    <3> QED BY <2>1, <3>1 DEF CallOK
  <2> QED BY <2>1, <2>2, <2>3 DEF CallOK
<1>5. ds # << >> => ds[1].bb = Entry
  <2> SUFFICES ASSUME ds # << >> PROVE ds[1].bb = Entry
    OBVIOUS
  <2>1. 1 \in 1 .. n - 1
    BY <1>1, <1>2
  <2> QED BY <2>1, <1>1, <1>2 DEF CallsOK
<1>6. CallsOK(s, d, ds)
  BY <1>2, <1>4, <1>5 DEF CallsOK
<1> QED BY <1>2, <1>3, <1>6 DEF ds

\* The instructions of a call's block that have given v a value so far.
GaveIn(c, call, v) ==
  {i \in DOMAIN c[call.bb] : /\ c[call.bb][i].var = v
                             /\ \/ c[call.bb][i].op = "phi"
                                \/ c[call.bb][i].op = "store" /\ i < call.at}
Gifts(c, cs, v) == [k \in 1 .. Len(cs) |-> GaveIn(c, cs[k], v)]
Depth(c, cs, v) == Cardinality(Tagged(Gifts(c, cs, v), Len(cs)))

\* A variable has a value as soon as one call gave it one.
LEMMA GiftsFinite ==
  ASSUME NEW c \in [Block -> Seq(Instr)], NEW cs \in Seq(CallRecord), NEW v
  PROVE  /\ \A k \in 1 .. Len(cs) : /\ Gifts(c, cs, v)[k] = GaveIn(c, cs[k], v)
                                    /\ IsFiniteSet(Gifts(c, cs, v)[k])
                                    /\ Cardinality(Gifts(c, cs, v)[k]) \in Nat
         /\ Depth(c, cs, v) \in Nat
         /\ Depth(c, cs, v) > 0 <=> \E k \in 1 .. Len(cs) : GaveIn(c, cs[k], v) # {}
<1>1. ASSUME NEW k \in 1 .. Len(cs)
      PROVE  IsFiniteSet(GaveIn(c, cs[k], v)) /\ Cardinality(GaveIn(c, cs[k], v)) \in Nat
  <2>1. cs[k] \in CallRecord
    OBVIOUS
  <2>2. c[cs[k].bb] \in Seq(Instr)
    BY <2>1 DEF CallRecord
  <2>3. DOMAIN c[cs[k].bb] = 1 .. Len(c[cs[k].bb]) /\ Len(c[cs[k].bb]) \in Nat
    BY <2>2
  <2>4. IsFiniteSet(DOMAIN c[cs[k].bb])
    <3> DEFINE n == Len(c[cs[k].bb])
    <3>1. IsFiniteSet(1 .. n)
      <4>1. n \in Int /\ 1 \in Int
        BY <2>3
      <4> HIDE DEF n
      <4> QED BY <4>1, FS_Interval
    <3> QED BY <2>3, <3>1
  <2>5. GaveIn(c, cs[k], v) \in SUBSET DOMAIN c[cs[k].bb]
    BY DEF GaveIn
  <2> QED BY <2>4, <2>5, FS_Subset, FS_CardinalityType
<1>2. \A k \in 1 .. Len(cs) : Gifts(c, cs, v)[k] = GaveIn(c, cs[k], v)
  BY DEF Gifts
<1>3. Len(cs) \in Nat
  OBVIOUS
<1>4. \A k \in 1 .. Len(cs) : IsFiniteSet(Gifts(c, cs, v)[k])
  BY <1>1, <1>2
<1>5. Depth(c, cs, v) \in Nat
  BY <1>3, <1>4, TaggedFinite DEF Depth
<1>6. Depth(c, cs, v) > 0 <=> \E k \in 1 .. Len(cs) : Gifts(c, cs, v)[k] # {}
  BY <1>3, <1>4, TaggedSome DEF Depth
<1> QED BY <1>1, <1>2, <1>5, <1>6

\* The depth is what the calls below gave, and what the last call gave.
LEMMA DepthOfTop ==
  ASSUME NEW c \in [Block -> Seq(Instr)], NEW cs \in Seq(CallRecord), cs # << >>, NEW v
  PROVE  /\ Cardinality(GaveIn(c, cs[Len(cs)], v)) \in Nat
         /\ IsFiniteSet(GaveIn(c, cs[Len(cs)], v))
         /\ Cardinality(Tagged(Gifts(c, cs, v), Len(cs) - 1)) \in Nat
         /\ Depth(c, cs, v) = Cardinality(Tagged(Gifts(c, cs, v), Len(cs) - 1))
                              + Cardinality(GaveIn(c, cs[Len(cs)], v))
<1> DEFINE n == Len(cs)
           g == Gifts(c, cs, v)
<1>1. n \in Nat \ {0} /\ n \in 1 .. Len(cs) /\ n - 1 \in Nat /\ n - 1 + 1 = n
  OBVIOUS
<1>2. \A k \in 1 .. n : IsFiniteSet(g[k]) /\ Cardinality(g[k]) \in Nat /\ g[k] = GaveIn(c, cs[k], v)
  BY GiftsFinite
<1> HIDE DEF g
<1>3. \A k \in 1 .. n - 1 : IsFiniteSet(g[k])
  BY <1>1, <1>2
<1> HIDE DEF n
<1>4. IsFiniteSet(Tagged(g, n - 1)) /\ Cardinality(Tagged(g, n - 1)) \in Nat
  BY <1>1, <1>3, TaggedFinite
<1>5. n \in 1 .. n
  BY <1>1
<1>6. IsFiniteSet(g[n - 1 + 1])
  BY <1>1, <1>2, <1>5
<1>7. Cardinality(Tagged(g, n - 1 + 1)) = Cardinality(Tagged(g, n - 1)) + Cardinality(g[n - 1 + 1])
  BY <1>1, <1>4, <1>6, TaggedStep
<1>8. Cardinality(Tagged(g, n)) = Cardinality(Tagged(g, n - 1)) + Cardinality(g[n])
  BY <1>1, <1>7
<1> QED BY <1>2, <1>4, <1>5, <1>8 DEF Depth, g, n

\* As long as the calls below stay what they are, what they gave stays.
LEMMA BelowGaveSame ==
  ASSUME NEW c, NEW d, NEW cs \in Seq(CallRecord), NEW ds \in Seq(CallRecord), NEW n \in Nat,
         n <= Len(cs), n <= Len(ds), NEW v,
         \A k \in 1 .. n : GaveIn(d, ds[k], v) = GaveIn(c, cs[k], v)
  PROVE  Cardinality(Tagged(Gifts(d, ds, v), n)) = Cardinality(Tagged(Gifts(c, cs, v), n))
<1>1. \A k \in 1 .. n : k \in 1 .. Len(cs) /\ k \in 1 .. Len(ds)
  OBVIOUS
<1>2. \A k \in 1 .. n : Gifts(d, ds, v)[k] = Gifts(c, cs, v)[k]
  BY <1>1 DEF Gifts
<1>3. Tagged(Gifts(d, ds, v), n) = Tagged(Gifts(c, cs, v), n)
  BY <1>2, TaggedSame
<1> QED BY <1>3

\* What a call gave does not depend on operands.
LEMMA SameShapeGave ==
  ASSUME NEW c, NEW d, SameShape(c, d), NEW call, call.bb \in Block, NEW v
  PROVE  GaveIn(d, call, v) = GaveIn(c, call, v)
BY DEF GaveIn, SameShape

\* The depth when the last call is changed,
LEMMA DepthTopChanges ==
  ASSUME NEW c \in [Block -> Seq(Instr)], NEW cs \in Seq(CallRecord), cs # << >>,
         NEW d, SameShape(c, d), NEW ds, NEW x, TopIs(cs, ds, x), NEW v
  PROVE  /\ Depth(d, ds, v) = Depth(c, cs, v) - Cardinality(GaveIn(c, cs[Len(cs)], v))
                              + Cardinality(GaveIn(d, x, v))
         /\ Cardinality(GaveIn(d, x, v)) \in Nat
<1> DEFINE n == Len(cs)
           m == n - 1
<1>1. ds \in Seq(CallRecord) /\ Len(ds) = n /\ ds[n] = x /\ d \in [Block -> Seq(Instr)]
      /\ n \in Nat \ {0} /\ ds # << >> /\ m \in Nat /\ m <= n
  BY DEF TopIs, SameShape
<1>2. \A k \in 1 .. m : GaveIn(d, ds[k], v) = GaveIn(c, cs[k], v)
  <2> TAKE k \in 1 .. m
  <2>1. cs[k] \in CallRecord /\ ds[k] = cs[k]
    BY DEF TopIs
  <2>2. cs[k].bb \in Block
    BY <2>1 DEF CallRecord
  <2> QED BY <2>1, <2>2, SameShapeGave
<1> HIDE DEF n, m
<1>3. Len(cs) = n
  BY DEF n
<1>4. Cardinality(Tagged(Gifts(d, ds, v), m)) = Cardinality(Tagged(Gifts(c, cs, v), m))
  <2>1. m <= Len(cs) /\ m <= Len(ds)
    BY <1>1, <1>3
  <2> QED BY <1>1, <1>2, <2>1, BelowGaveSame
<1>5. /\ Depth(c, cs, v) = Cardinality(Tagged(Gifts(c, cs, v), m)) + Cardinality(GaveIn(c, cs[n], v))
      /\ Cardinality(Tagged(Gifts(c, cs, v), m)) \in Nat /\ Cardinality(GaveIn(c, cs[n], v)) \in Nat
  BY DepthOfTop DEF n, m
<1>6. /\ Depth(d, ds, v) = Cardinality(Tagged(Gifts(d, ds, v), Len(ds) - 1))
                           + Cardinality(GaveIn(d, ds[Len(ds)], v))
      /\ Cardinality(GaveIn(d, ds[Len(ds)], v)) \in Nat
  BY <1>1, DepthOfTop
<1>7. Len(ds) - 1 = m /\ ds[Len(ds)] = x
  BY <1>1 DEF m
<1> QED BY <1>3, <1>4, <1>5, <1>6, <1>7

\* when it goes one instruction on,
LEMMA DepthAdvances ==
  ASSUME NEW c \in [Block -> Seq(Instr)], NEW cs \in Seq(CallRecord), cs # << >>,
         NEW d, SameShape(c, d), NEW ds, NEW x, TopIs(cs, ds, x), NEW v,
         x.bb = cs[Len(cs)].bb, x.at = cs[Len(cs)].at + 1
  PROVE  LET top == cs[Len(cs)]
             stores == /\ top.at \in DOMAIN c[top.bb]
                       /\ c[top.bb][top.at].op = "store" /\ c[top.bb][top.at].var = v
         IN  Depth(d, ds, v) = Depth(c, cs, v) + IF stores THEN 1 ELSE 0
<1> DEFINE top == cs[Len(cs)]
           stores == /\ top.at \in DOMAIN c[top.bb]
                     /\ c[top.bb][top.at].op = "store" /\ c[top.bb][top.at].var = v
           G == GaveIn(c, top, v)
           H == GaveIn(d, x, v)
<1>1. top \in CallRecord /\ top.bb \in Block /\ top.at \in Nat
  <2>1. top \in CallRecord
    OBVIOUS
  <2> HIDE DEF top
  <2> QED BY <2>1 DEF CallRecord
<1>2. /\ Depth(d, ds, v) = Depth(c, cs, v) - Cardinality(G) + Cardinality(H)
      /\ Cardinality(H) \in Nat /\ Cardinality(G) \in Nat /\ IsFiniteSet(G) /\ Depth(c, cs, v) \in Nat
  BY DepthTopChanges, DepthOfTop, GiftsFinite
<1>3. H = GaveIn(c, x, v)
  BY <1>1, SameShapeGave
<1>4. DOMAIN c[top.bb] \subseteq Nat
  BY <1>1
<1> HIDE DEF top
<1>5. \A i \in DOMAIN c[top.bb] : i < x.at <=> i < top.at \/ i = top.at
  BY <1>1, <1>4 DEF top
<1>6. CASE stores
  <2>1. H = G \cup {top.at}
    BY <1>3, <1>5, <1>6 DEF GaveIn, top
  <2>2. top.at \notin G
    BY <1>1, <1>6 DEF GaveIn
  <2> HIDE DEF G, H
  <2>3. Cardinality(H) = Cardinality(G) + 1
    BY <1>2, <2>1, <2>2, FS_AddElement
  <2>4. Depth(d, ds, v) = Depth(c, cs, v) + 1
    BY <1>2, <2>3
  <2> HIDE DEF stores
  <2> QED BY <1>6, <2>4 DEF stores, top
<1>7. CASE ~stores
  <2>1. H = G
    BY <1>3, <1>5, <1>7 DEF GaveIn, top
  <2> HIDE DEF G, H
  <2>2. Depth(d, ds, v) = Depth(c, cs, v) + 0
    BY <1>2, <2>1
  <2> HIDE DEF stores
  <2> QED BY <1>7, <2>2 DEF stores, top
<1> QED BY <1>6, <1>7

\* when it goes on to a child,
LEMMA DepthStays ==
  ASSUME NEW c \in [Block -> Seq(Instr)], NEW cs \in Seq(CallRecord), cs # << >>,
         NEW ds, NEW x, TopIs(cs, ds, x), NEW v, x.bb = cs[Len(cs)].bb, x.at = cs[Len(cs)].at
  PROVE  Depth(c, ds, v) = Depth(c, cs, v)
<1>1. SameShape(c, c)
  BY DEF SameShape
<1>2. GaveIn(c, x, v) = GaveIn(c, cs[Len(cs)], v)
  BY DEF GaveIn
<1>3. Depth(c, ds, v) = Depth(c, cs, v) - Cardinality(GaveIn(c, cs[Len(cs)], v)) + Cardinality(GaveIn(c, x, v))
      /\ Cardinality(GaveIn(c, x, v)) \in Nat /\ Depth(c, cs, v) \in Nat
  BY <1>1, DepthTopChanges, GiftsFinite
<1> QED BY <1>2, <1>3

\* and when a call begins: its phis.
LEMMA DepthPushed ==
  ASSUME NEW c, CodeOK(c), NEW below \in Seq(CallRecord), NEW x \in CallRecord, x.at = 1, NEW v
  PROVE  Depth(c, Append(below, x), v) = Depth(c, below, v) + IF HasPhi(c, x.bb, v) THEN 1 ELSE 0
<1> DEFINE n == Len(below)
           cs == Append(below, x)
<1>1. n \in Nat /\ cs \in Seq(CallRecord) /\ cs # << >> /\ Len(cs) = n + 1 /\ cs[n + 1] = x
      /\ \A k \in 1 .. n : cs[k] = below[k]
  OBVIOUS
<1>2. c \in [Block -> Seq(Instr)] /\ x.bb \in Block
  BY DEF CodeOK, CallRecord
<1>3. \A i \in DOMAIN c[x.bb] : ~(i < x.at)
  BY <1>2
<1> HIDE DEF cs, n
<1>4. /\ Depth(c, cs, v) = Cardinality(Tagged(Gifts(c, cs, v), n)) + Cardinality(GaveIn(c, x, v))
      /\ Cardinality(GaveIn(c, x, v)) \in Nat
  <2>1. Len(cs) - 1 = n /\ cs[Len(cs)] = x
    BY <1>1
  <2> QED BY <1>1, <1>2, <2>1, DepthOfTop
<1>5. Cardinality(Tagged(Gifts(c, cs, v), n)) = Cardinality(Tagged(Gifts(c, below, v), n))
  <2>1. n <= Len(cs) /\ n <= Len(below)
    BY <1>1 DEF n
  <2> QED BY <1>1, <2>1, BelowGaveSame
<1>6. Depth(c, below, v) = Cardinality(Tagged(Gifts(c, below, v), n)) /\ Depth(c, below, v) \in Nat
  BY <1>2, GiftsFinite DEF Depth, n
<1>7. CASE HasPhi(c, x.bb, v)
  <2>1. PICK i \in DOMAIN c[x.bb] : c[x.bb][i].op = "phi" /\ c[x.bb][i].var = v
    BY <1>7 DEF HasPhi
  <2>2. GaveIn(c, x, v) = {i}
    BY <1>2, <1>3, <2>1 DEF GaveIn, CodeOK
  <2>3. Cardinality(GaveIn(c, x, v)) = 1
    BY <2>2, FS_Singleton
  <2> QED BY <1>4, <1>5, <1>6, <1>7, <2>3 DEF cs
<1>8. CASE ~HasPhi(c, x.bb, v)
  <2>1. GaveIn(c, x, v) = {}
    BY <1>3, <1>8 DEF GaveIn, HasPhi
  <2>2. Cardinality(GaveIn(c, x, v)) = 0
    BY <2>1, FS_EmptySet
  <2> QED BY <1>4, <1>5, <1>6, <1>8, <2>2 DEF cs
<1> QED BY <1>7, <1>8

\* The stores and phis of v in a sequence of instructions.
Values(t, v) == {i \in DOMAIN t : t[i].op \in {"store", "phi"} /\ t[i].var = v}

\* The last call, on block e, is over.
Ending(c, cs, e, d) ==
  /\ cs # << >> /\ e = cs[Len(cs)].bb /\ cs[Len(cs)].at = Len(c[e]) + 2
  /\ \A b \in Block : b # e => d[b] = c[b]

\* When a call ends, its stores and phis are what goes.
LEMMA DepthPopped ==
  ASSUME NEW s, NEW c, NEW d, c \in [Block -> Seq(Instr)], NEW cs, CallsOK(s, c, cs),
         NEW e, Ending(c, cs, e, d), NEW v
  PROVE  /\ Cardinality(Values(c[e], v)) \in 0 .. Depth(c, cs, v)
         /\ Depth(d, Front(cs), v) = Depth(c, cs, v) - Cardinality(Values(c[e], v))
<1> USE DEF Ending
<1> DEFINE n == Len(cs)
           m == n - 1
           ds == Front(cs)
           top == cs[n]
<1>1. cs \in Seq(CallRecord) /\ n \in Nat \ {0} /\ m \in Nat /\ m <= n /\ top \in CallRecord
  BY DEF CallsOK
<1>2. ds \in Seq(CallRecord) /\ Len(ds) = m /\ \A k \in 1 .. m : ds[k] = cs[k] /\ cs[k].bb # top.bb
  <2>1. cs # << >> /\ \A b \in Block : b # cs[Len(cs)].bb => d[b] = c[b]
    OBVIOUS
  <2>2. /\ CallsOK(s, d, Front(cs)) /\ Len(Front(cs)) = Len(cs) - 1
        /\ \A k \in 1 .. Len(cs) - 1 : Front(cs)[k] = cs[k] /\ cs[k].bb # cs[Len(cs)].bb
    BY <2>1, PopCall
  <2> QED BY <2>2 DEF CallsOK
<1>3. top.bb \in Block /\ c[top.bb] \in Seq(Instr)
  BY <1>1 DEF CallRecord
<1>4. GaveIn(c, top, v) = Values(c[top.bb], v)
  <2>1. \A i \in DOMAIN c[top.bb] : i < top.at
    BY <1>3
  <2> QED BY <2>1 DEF GaveIn, Values
<1>5. \A k \in 1 .. m : GaveIn(d, ds[k], v) = GaveIn(c, cs[k], v)
  <2> TAKE k \in 1 .. m
  <2>1. cs[k] \in CallRecord /\ ds[k] = cs[k] /\ cs[k].bb # top.bb
    BY <1>1, <1>2
  <2>2. d[cs[k].bb] = c[cs[k].bb]
    BY <2>1 DEF CallRecord
  <2> QED BY <2>1, <2>2 DEF GaveIn
<1>6. /\ Depth(c, cs, v) = Cardinality(Tagged(Gifts(c, cs, v), m)) + Cardinality(GaveIn(c, top, v))
      /\ Cardinality(Tagged(Gifts(c, cs, v), m)) \in Nat /\ Cardinality(GaveIn(c, top, v)) \in Nat
  BY <1>1, DepthOfTop
<1> HIDE DEF n, m, ds, top
<1>7. Cardinality(Tagged(Gifts(d, ds, v), m)) = Cardinality(Tagged(Gifts(c, cs, v), m))
  <2>1. m <= Len(cs) /\ m <= Len(ds)
    BY <1>1, <1>2 DEF n
  <2> QED BY <1>1, <1>2, <1>5, <2>1, BelowGaveSame
<1>8. Depth(d, ds, v) = Cardinality(Tagged(Gifts(d, ds, v), m))
  BY <1>2 DEF Depth
<1>9. Depth(d, ds, v) = Depth(c, cs, v) - Cardinality(Values(c[top.bb], v))
      /\ Cardinality(Values(c[top.bb], v)) \in 0 .. Depth(c, cs, v)
  BY <1>4, <1>6, <1>7, <1>8
<1> QED BY <1>9 DEF n, ds, top

-----------------------------------------------------------------------------
(* The invariant: the phases of the pass, and the stacks.                  *)

ProgOK == prog \in Programs /\ dominators_ = DominatorsOf(prog.succ)

\* During generate_phi a block has new phis, each of another variable, before
\* what it had.
Placed(b) ==
  \E vs \in Seq(Var) : /\ IsInjective(vs)
                       /\ code[b] = [k \in DOMAIN vs |-> EmptyPhi(b, vs[k])] \o prog.code[b]

PlacingOK ==
  pc = "generate_phi" =>
    /\ calls = << >> /\ known = {} /\ var_val_stack = [v \in Var |-> << >>]
    /\ todo \in SUBSET Var /\ work_list \in SUBSET Block
    /\ work_list # {} => var \in Var
    /\ code \in [Block -> Seq(Instr)]
    /\ \A b \in Block : Placed(b)

\* During re_name the stacks are as deep as the calls in progress made them.
StacksOK ==
  /\ var_val_stack \in [Var -> Seq(Value)] /\ known \in SUBSET Var
  /\ \A v \in Var : /\ Len(var_val_stack[v]) = Depth(code, calls, v)
                    /\ Depth(code, calls, v) > 0 => v \in known

ReNameOK ==
  pc = "re_name" =>
    /\ CodeOK(code) /\ CallsOK(prog.succ, code, calls) /\ StacksOK
    /\ Initialised /\ calls # << >> => StoredFirst(code)

PcOK ==
  /\ pc \in {"generate_phi", "re_name", "assert", "undefined", "run", "end"}
  /\ Initialised => pc \notin {"assert", "undefined"}

StackInv == ProgOK /\ PlacingOK /\ ReNameOK /\ PcOK

-----------------------------------------------------------------------------
\* What is known of the program.
LEMMA ProgFacts ==
  ASSUME ProgOK
  PROVE  /\ WellFormed(prog)
         /\ prog.succ \in [Block -> SUBSET Block] /\ NoDeadPred(prog.succ)
         /\ prog.code \in [Block -> Seq(Instr)]
         /\ dominators_ = DominatorsOf(prog.succ)
         /\ Reached(prog.succ) \subseteq Block /\ Entry \in Reached(prog.succ) /\ Entry \in Block
<1>1. WellFormed(prog)
  BY ProgramsAssumption DEF ProgOK
<1>2. prog.succ \in [Block -> SUBSET Block] /\ NoDeadPred(prog.succ) /\ prog.code \in [Block -> Seq(Instr)]
  BY <1>1 DEF WellFormed
<1> QED BY <1>1, <1>2, ReachedClosed, BlockAssumption DEF ProgOK

\* The children of a block, as create_dom_tree_succ has them.
LEMMA ChildrenMeaning ==
  ASSUME ProgOK, NEW d \in Block
  PROVE  dominators_.children[d] = {b \in Block : Child(prog.succ, d, b)}
<1> DEFINE s == prog.succ
           doms == Doms(s)
<1>1. dominators_.children[d] = {b \in Block : ImmediatelyDominates(doms, d, b)}
  BY ProgFacts DEF DominatorsOf
<1>2. \A e \in Block : \A b : b \in doms[e] <=> Dominates(s, e, b)
  BY DomsMeaning
<1> HIDE DEF doms
<1>3. \A b \in Block : ImmediatelyDominates(doms, d, b) <=> Child(s, d, b)
  BY <1>2 DEF ImmediatelyDominates, StrictlyDominates, Child
<1> HIDE DEF s
<1>4. {b \in Block : ImmediatelyDominates(doms, d, b)} = {b \in Block : Child(s, d, b)}
  BY <1>3
<1> QED BY <1>1, <1>4 DEF s

\* The top call.
LEMMA TopFacts ==
  ASSUME ProgOK, ReNameOK, pc = "re_name", calls # << >>
  PROVE  /\ calls \in Seq(CallRecord) /\ Len(calls) \in Nat \ {0} /\ Len(calls) \in 1 .. Len(calls)
         /\ Top \in CallRecord /\ Top.bb \in Block /\ Top.at \in Nat \ {0}
         /\ CallOK(prog.succ, code, calls, Len(calls))
         /\ code[Top.bb] \in Seq(Instr) /\ code \in [Block -> Seq(Instr)]
         /\ End = Len(code[Top.bb]) /\ End \in Nat
         /\ \A i \in 1 .. End : i \in DOMAIN code[Top.bb] /\ code[Top.bb][i] \in Instr
<1>1. CodeOK(code) /\ CallsOK(prog.succ, code, calls)
  BY DEF ReNameOK
<1>2. calls \in Seq(CallRecord) /\ Len(calls) \in Nat \ {0} /\ Len(calls) \in 1 .. Len(calls)
  BY <1>1 DEF CallsOK
<1>3. CallOK(prog.succ, code, calls, Len(calls))
  BY <1>1, <1>2 DEF CallsOK
<1>4. Top \in CallRecord
  BY <1>2 DEF Top
<1>5. Top.bb \in Block /\ Top.at \in Nat
  BY <1>4 DEF CallRecord
<1>6. code \in [Block -> Seq(Instr)]
  BY <1>1 DEF CodeOK
<1>7. code[Top.bb] \in Seq(Instr)
  BY <1>5, <1>6
<1>8. Top.at # 0
  <2>1. Top.at \in 1 .. Len(code[Top.bb]) + 2
    BY <1>3 DEF CallOK, Top
  <2>2. Len(code[Top.bb]) \in Nat
    BY <1>7
  <2> QED BY <2>1, <2>2
<1>9. End = Len(code[Top.bb]) /\ End \in Nat
  BY <1>7 DEF End
<1>10. \A i \in 1 .. End : i \in DOMAIN code[Top.bb] /\ code[Top.bb][i] \in Instr
  BY <1>7, <1>9
<1> QED BY <1>2, <1>3, <1>4, <1>5, <1>6, <1>7, <1>8, <1>9, <1>10

\* Whether the last call is at a store of v.
StoresHere(v) == Top.at \in 1 .. End /\ Here.op = "store" /\ Here.var = v

\* A call goes one step on, and the code keeps its shape.
LEMMA AdvanceShape ==
  ASSUME ProgOK, ReNameOK, pc = "re_name", calls # << >>, Top.at \in 1 .. End + 1,
         NEW deleted \in SUBSET Nat,
         \A i \in deleted : i = Top.at /\ Top.at \in 1 .. End /\ Here.op \in {"load", "store"},
         Advance(deleted), SameShape(code, code'), prog' = prog
  PROVE  /\ CodeOK(code') /\ CallsOK(prog.succ, code', calls')
         /\ (StoredFirst(code) => StoredFirst(code'))
         /\ calls' # << >> /\ Len(calls') = Len(calls)
         /\ \A v \in Var : Depth(code', calls', v) = Depth(code, calls, v) + IF StoresHere(v) THEN 1 ELSE 0
         /\ LET x == [Top EXCEPT !.at = @ + 1, !.wait_delete = @ \cup deleted]
            IN  /\ x \in CallRecord /\ x.bb = Top.bb /\ x.at = Top.at + 1
                /\ x.wait_delete = Top.wait_delete \cup deleted /\ x.children = Top.children
                /\ TopIs(calls, calls', x)
<1> DEFINE n == Len(calls)
           x == [Top EXCEPT !.at = @ + 1, !.wait_delete = @ \cup deleted]
<1>1. CodeOK(code) /\ CallsOK(prog.succ, code, calls)
  BY DEF ReNameOK
<1>2. /\ x \in CallRecord /\ x.bb = Top.bb /\ x.at = Top.at + 1
      /\ x.wait_delete = Top.wait_delete \cup deleted /\ x.children = Top.children
      /\ TopIs(calls, calls', x)
  BY TopFacts, AdvanceTop DEF Top, Advance
<1> HIDE DEF x
<1>3. CodeOK(code') /\ (StoredFirst(code) => StoredFirst(code'))
  BY <1>1, SameShapeOK
<1>4. x.at \in 1 .. Len(code[x.bb]) + 2
  BY <1>2, TopFacts
<1>5. \A i \in x.wait_delete : i \in DOMAIN code[x.bb] /\ i < x.at /\ code[x.bb][i].op \in {"load", "store"}
  <2> SUFFICES ASSUME NEW i \in x.wait_delete
               PROVE  i \in DOMAIN code[Top.bb] /\ i < Top.at + 1 /\ code[Top.bb][i].op \in {"load", "store"}
    BY <1>2
  <2>1. CASE i \in Top.wait_delete
    <3>1. i \in DOMAIN code[Top.bb] /\ i < Top.at /\ code[Top.bb][i].op \in {"load", "store"}
      BY <2>1, TopFacts DEF CallOK, Top
    <3>2. i \in Nat
      BY <2>1, TopFacts DEF CallRecord
    <3> QED BY <3>1, <3>2, TopFacts
  <2>2. CASE i \in deleted
    BY <2>2, TopFacts DEF Here
  <2> QED BY <2>1, <2>2, <1>2
<1>6. CallsOK(prog.succ, code', calls')
  BY <1>1, <1>2, <1>4, <1>5, TopChanges DEF Top
<1>7. ASSUME NEW v \in Var
      PROVE  Depth(code', calls', v) = Depth(code, calls, v) + IF StoresHere(v) THEN 1 ELSE 0
  <2>1. LET stores == /\ Top.at \in DOMAIN code[Top.bb]
                      /\ code[Top.bb][Top.at].op = "store" /\ code[Top.bb][Top.at].var = v
        IN  Depth(code', calls', v) = Depth(code, calls, v) + IF stores THEN 1 ELSE 0
    BY <1>2, TopFacts, DepthAdvances DEF Top
  <2>2. DOMAIN code[Top.bb] = 1 .. End
    BY TopFacts
  <2> QED BY <2>1, <2>2 DEF StoresHere, Here
<1>8. calls' # << >> /\ Len(calls') = Len(calls)
  BY <1>2, TopFacts DEF TopIs
<1> QED BY <1>2, <1>3, <1>6, <1>7, <1>8 DEF x

-----------------------------------------------------------------------------
(* The phases before re_name.                                              *)

Phis(b, vs) == [k \in DOMAIN vs |-> EmptyPhi(b, vs[k])]

\* The values that have a name of their own.
LEMMA ValueFacts ==
  /\ Undef \in Value
  /\ \A b \in Block, v \in Var : PhiName(b, v) \in Value
<1>1. Undef \in Value
  BY DEF Value, Undef
<1>2. ASSUME NEW b \in Block, NEW v \in Var PROVE PhiName(b, v) \in Value
  <2>1. b \in Nat /\ v \in Nat
    BY BlockAssumption, VarAssumption
  <2> QED BY <2>1 DEF Value, PhiName
<1> QED BY <1>1, <1>2

\* A new phi.
LEMMA EmptyPhiFields ==
  ASSUME NEW b \in Block, NEW v \in Var
  PROVE  LET x == EmptyPhi(b, v)
         IN  /\ x \in Instr /\ x.op = "phi" /\ x.id = PhiName(b, v) /\ x.var = v
             /\ x.arg = Undef /\ x.pairs = << >>
<1>1. << >> \in Seq(Value \X Block)
  OBVIOUS
<1> QED BY <1>1, ValueFacts DEF EmptyPhi, Instruction, Instr

\* A block with phis for the variables vs.
LEMMA PhisBefore ==
  ASSUME NEW b \in Block, NEW vs \in Seq(Var), NEW t \in Seq(Instr)
  PROVE  /\ Phis(b, vs) \in Seq(Instr) /\ Len(Phis(b, vs)) = Len(vs)
         /\ Phis(b, vs) \o t \in Seq(Instr)
         /\ Len(Phis(b, vs) \o t) = Len(vs) + Len(t)
         /\ \A k \in 1 .. Len(vs) + Len(t) :
              /\ k <= Len(vs) => (Phis(b, vs) \o t)[k] = EmptyPhi(b, vs[k]) /\ vs[k] \in Var
              /\ k > Len(vs) => (Phis(b, vs) \o t)[k] = t[k - Len(vs)] /\ k - Len(vs) \in DOMAIN t
<1> DEFINE p == Phis(b, vs)
<1>1. DOMAIN vs = 1 .. Len(vs) /\ Len(vs) \in Nat /\ \A k \in 1 .. Len(vs) : vs[k] \in Var
  OBVIOUS
<1>2. p \in [1 .. Len(vs) -> Instr] /\ \A k \in 1 .. Len(vs) : p[k] = EmptyPhi(b, vs[k])
  BY <1>1, EmptyPhiFields DEF Phis
<1> HIDE DEF p
<1>3. p \in Seq(Instr) /\ Len(p) = Len(vs)
  BY <1>1, <1>2
<1>4. p \o t \in Seq(Instr) /\ Len(p \o t) = Len(vs) + Len(t)
      /\ \A k \in 1 .. Len(vs) + Len(t) : (p \o t)[k] = IF k <= Len(vs) THEN p[k] ELSE t[k - Len(vs)]
  BY <1>3
<1>5. ASSUME NEW k \in 1 .. Len(vs) + Len(t), k > Len(vs) PROVE k - Len(vs) \in DOMAIN t
  <2>1. Len(t) \in Nat /\ DOMAIN t = 1 .. Len(t)
    OBVIOUS
  <2> QED BY <2>1, <1>1, <1>5
<1>6. ASSUME NEW k \in 1 .. Len(vs) + Len(t)
      PROVE  /\ k <= Len(vs) => (p \o t)[k] = EmptyPhi(b, vs[k]) /\ vs[k] \in Var
             /\ k > Len(vs) => (p \o t)[k] = t[k - Len(vs)] /\ k - Len(vs) \in DOMAIN t
  <2>1. CASE k <= Len(vs)
    <3>1. k \in 1 .. Len(vs)
      BY <2>1, <1>1
    <3> QED BY <3>1, <2>1, <1>1, <1>2, <1>4
  <2>2. CASE k > Len(vs)
    <3>1. ~(k <= Len(vs))
      BY <2>2, <1>1
    <3> QED BY <3>1, <2>2, <1>4, <1>5
  <2> QED BY <2>1, <2>2, <1>1
<1> QED BY <1>3, <1>4, <1>6 DEF p

\* One more phi at the head of them.
LEMMA PhisCons ==
  ASSUME NEW b \in Block, NEW vs \in Seq(Var), NEW v \in Var, NEW t \in Seq(Instr)
  PROVE  <<EmptyPhi(b, v)>> \o (Phis(b, vs) \o t) = Phis(b, <<v>> \o vs) \o t
<1> DEFINE e == <<EmptyPhi(b, v)>>
           p == Phis(b, vs)
           ws == <<v>> \o vs
           q == Phis(b, ws)
<1>1. e \in Seq(Instr) /\ Len(e) = 1 /\ e[1] = EmptyPhi(b, v)
  BY EmptyPhiFields
<1>2. p \in Seq(Instr) /\ Len(p) = Len(vs)
  BY PhisBefore
<1>3. ws \in Seq(Var) /\ Len(ws) = Len(vs) + 1 /\ ws[1] = v /\ \A k \in 1 .. Len(vs) : ws[k + 1] = vs[k]
  <2>1. <<v>> \in Seq(Var) /\ Len(<<v>>) = 1 /\ <<v>>[1] = v
    OBVIOUS
  <2> QED BY <2>1
<1> HIDE DEF ws
<1>4. q \in Seq(Instr) /\ Len(q) = Len(ws)
  BY <1>3, PhisBefore
<1>5. \A k \in 1 .. Len(ws) : q[k] = EmptyPhi(b, ws[k])
  BY <1>3 DEF Phis
<1>6. \A k \in 1 .. Len(vs) : p[k] = EmptyPhi(b, vs[k])
  BY DEF Phis
<1> HIDE DEF p, q, e
<1>7. /\ e \o p \in Seq(Instr) /\ Len(e \o p) = 1 + Len(vs)
      /\ \A k \in 1 .. 1 + Len(vs) : (e \o p)[k] = IF k <= 1 THEN e[k] ELSE p[k - 1]
  <2>1. /\ e \o p \in Seq(Instr) /\ Len(e \o p) = Len(e) + Len(p)
        /\ \A k \in 1 .. Len(e) + Len(p) : (e \o p)[k] = IF k <= Len(e) THEN e[k] ELSE p[k - Len(e)]
    BY <1>1, <1>2, ConcatProperties
  <2> QED BY <2>1, <1>1, <1>2
<1>8. \A k \in 1 .. Len(vs) + 1 : (e \o p)[k] = q[k]
  <2> TAKE k \in 1 .. Len(vs) + 1
  <2>1. Len(vs) \in Nat
    OBVIOUS
  <2>2. CASE k = 1
    <3>1. 1 \in 1 .. 1 + Len(vs) /\ 1 \in 1 .. Len(ws)
      BY <2>1, <1>3
    <3>2. (e \o p)[1] = e[1]
      BY <3>1, <1>7
    <3> QED BY <2>2, <3>1, <3>2, <1>1, <1>3, <1>5
  <2>3. CASE k # 1
    <3>1. k - 1 \in 1 .. Len(vs) /\ k - 1 + 1 = k
      BY <2>1, <2>3
    <3>2. (e \o p)[k] = p[k - 1]
      <4>1. k \in 1 .. 1 + Len(vs) /\ ~(k <= 1)
        BY <2>1, <2>3
      <4> QED BY <4>1, <1>7
    <3>3. ws[k] = vs[k - 1]
      BY <3>1, <1>3
    <3> QED BY <3>1, <3>2, <3>3, <1>3, <1>5, <1>6
  <2> QED BY <2>2, <2>3
<1>9. e \o p = q
  BY <1>3, <1>4, <1>7, <1>8, SeqEqual
<1>10. e \o (p \o t) = (e \o p) \o t
  BY <1>1, <1>2, ConcatAssociative
<1> QED BY <1>9, <1>10 DEF e, p, q, ws

\* What generate_phi has made of the code.
LEMMA PlacedCode ==
  ASSUME ProgOK, code \in [Block -> Seq(Instr)], \A b \in Block : Placed(b)
  PROVE  /\ CodeOK(code)
         /\ \A b \in Block : \E n \in Nat :
              /\ Len(code[b]) = n + Len(prog.code[b]) /\ Len(prog.code[b]) \in Nat
              /\ \A k \in 1 .. n : /\ code[b][k].op = "phi" /\ code[b][k].pairs = << >>
                                   /\ code[b][k].arg = Undef
              /\ \A k \in DOMAIN prog.code[b] : code[b][n + k] = prog.code[b][k]
         /\ \A b \in Block : \A i \in DOMAIN code[b] : code[b][i].pairs = << >>
<1> DEFINE W(b, vs) == /\ vs \in Seq(Var) /\ IsInjective(vs)
                       /\ code[b] = Phis(b, vs) \o prog.code[b]
<1>1. \A b \in Block : prog.code[b] \in Seq(Instr)
  BY ProgFacts
<1>2. \A b \in Block : \E vs : W(b, vs)
  BY DEF Placed, Phis
<1>3. ASSUME NEW b \in Block, NEW vs, W(b, vs)
      PROVE  /\ code[b] \in Seq(Instr) /\ Len(code[b]) = Len(vs) + Len(prog.code[b])
             /\ Len(vs) \in Nat /\ Len(prog.code[b]) \in Nat
             /\ DOMAIN code[b] = 1 .. Len(code[b]) /\ DOMAIN prog.code[b] = 1 .. Len(prog.code[b])
             /\ \A k \in DOMAIN code[b] :
                  /\ k <= Len(vs) => /\ code[b][k] = EmptyPhi(b, vs[k]) /\ vs[k] \in Var
                                     /\ code[b][k].op = "phi" /\ code[b][k].pairs = << >>
                                     /\ code[b][k].id = PhiName(b, vs[k]) /\ code[b][k].var = vs[k]
                                     /\ code[b][k].arg = Undef
                  /\ k > Len(vs) => /\ k - Len(vs) \in DOMAIN prog.code[b]
                                    /\ code[b][k] = prog.code[b][k - Len(vs)]
  <2>1. prog.code[b] \in Seq(Instr) /\ vs \in Seq(Var) /\ code[b] = Phis(b, vs) \o prog.code[b]
    BY <1>1, <1>3
  <2>2. /\ code[b] \in Seq(Instr)
        /\ Len(code[b]) = Len(vs) + Len(prog.code[b])
        /\ \A k \in 1 .. Len(vs) + Len(prog.code[b]) :
              /\ k <= Len(vs) => code[b][k] = EmptyPhi(b, vs[k]) /\ vs[k] \in Var
              /\ k > Len(vs) => code[b][k] = prog.code[b][k - Len(vs)] /\ k - Len(vs) \in DOMAIN prog.code[b]
    <3> DEFINE t == prog.code[b]
    <3>1. b \in Block /\ vs \in Seq(Var) /\ t \in Seq(Instr) /\ code[b] = Phis(b, vs) \o t
      BY <2>1
    <3> HIDE DEF t
    <3>2. /\ Phis(b, vs) \o t \in Seq(Instr)
          /\ Len(Phis(b, vs) \o t) = Len(vs) + Len(t)
          /\ \A k \in 1 .. Len(vs) + Len(t) :
               /\ k <= Len(vs) => (Phis(b, vs) \o t)[k] = EmptyPhi(b, vs[k]) /\ vs[k] \in Var
               /\ k > Len(vs) => (Phis(b, vs) \o t)[k] = t[k - Len(vs)] /\ k - Len(vs) \in DOMAIN t
      BY <3>1, PhisBefore
    <3> QED BY <3>1, <3>2, Zenon DEF t
  <2>3. Len(vs) \in Nat /\ Len(prog.code[b]) \in Nat /\ DOMAIN prog.code[b] = 1 .. Len(prog.code[b])
        /\ DOMAIN code[b] = 1 .. Len(vs) + Len(prog.code[b])
    BY <2>1, <2>2
  <2> HIDE DEF W
  <2> QED BY <2>2, <2>3, EmptyPhiFields
<1>4. ASSUME NEW b \in Block, NEW i \in DOMAIN prog.code[b]
      PROVE  LET x == prog.code[b][i]
             IN  /\ x.op # "phi" /\ x.pairs = << >> /\ (x.op # "output" => x.var \in Var)
                 /\ x.op = "load" => x.id[1] = "load"
  BY ProgFacts DEF WellFormed
<1>5. \A b, c \in Block : \A i \in DOMAIN prog.code[b], j \in DOMAIN prog.code[c] :
        prog.code[b][i].op = "load" /\ prog.code[c][j].op = "load" /\ prog.code[b][i].id = prog.code[c][j].id
        => b = c /\ i = j
  BY ProgFacts DEF WellFormed
<1> HIDE DEF W
<1>6. ASSUME NEW b \in Block, NEW i \in DOMAIN code[b]
      PROVE  /\ code[b][i].op = "phi" => /\ code[b][i].id = PhiName(b, code[b][i].var)
                                         /\ \A j \in 1 .. i : code[b][j].op = "phi"
             /\ code[b][i].op # "output" => code[b][i].var \in Var
             /\ code[b][i].op = "load" => code[b][i].id[1] = "load"
             /\ code[b][i].pairs = << >>
  <2>1. PICK vs : W(b, vs)
    BY <1>2
  <2>2. CASE i <= Len(vs)
    <3>1. \A j \in 1 .. i : j \in DOMAIN code[b] /\ j <= Len(vs)
      BY <2>1, <2>2, <1>3
    <3> QED BY <2>1, <2>2, <3>1, <1>3
  <2>3. CASE i > Len(vs)
    <3>1. i - Len(vs) \in DOMAIN prog.code[b] /\ code[b][i] = prog.code[b][i - Len(vs)]
      BY <2>1, <2>3, <1>3
    <3>2. code[b][i].op # "phi"
      BY <3>1, <1>4
    <3> QED BY <3>1, <3>2, <1>4
  <2>4. i \in Nat /\ Len(vs) \in Nat
    BY <2>1, <1>3
  <2> QED BY <2>2, <2>3, <2>4
<1>7. ASSUME NEW b \in Block, NEW i \in DOMAIN code[b], NEW j \in DOMAIN code[b],
             code[b][i].op = "phi", code[b][j].op = "phi", code[b][i].var = code[b][j].var
      PROVE  i = j
  <2>1. PICK vs : W(b, vs)
    BY <1>2
  <2>2. i \in Nat /\ j \in Nat /\ Len(vs) \in Nat /\ i > 0 /\ j > 0
    BY <2>1, <1>3
  <2>3. i <= Len(vs) /\ j <= Len(vs)
    <3>1. CASE i > Len(vs)
      BY <3>1, <2>1, <1>3, <1>4, <1>7
    <3>2. CASE j > Len(vs)
      BY <3>2, <2>1, <1>3, <1>4, <1>7
    <3> QED BY <3>1, <3>2, <2>2
  <2>4. vs[i] = vs[j]
    BY <2>1, <2>3, <1>3, <1>7
  <2>5. vs \in Seq(Var) /\ IsInjective(vs)
    BY <2>1 DEF W
  <2>6. i \in DOMAIN vs /\ j \in DOMAIN vs
    BY <2>2, <2>3, <2>5
  <2> QED BY <2>4, <2>5, <2>6 DEF IsInjective
<1>8. ASSUME NEW b \in Block, NEW i \in DOMAIN code[b], code[b][i].op = "load", NEW vs, W(b, vs)
      PROVE  i - Len(vs) \in DOMAIN prog.code[b] /\ code[b][i] = prog.code[b][i - Len(vs)]
  <2>1. i \in Nat /\ Len(vs) \in Nat
    BY <1>8, <1>3
  <2>2. i > Len(vs)
    <3>1. CASE i <= Len(vs)
      BY <3>1, <1>8, <1>3
    <3> QED BY <3>1, <2>1
  <2> QED BY <2>2, <1>8, <1>3
<1>9. ASSUME NEW b \in Block, NEW d \in Block, NEW i \in DOMAIN code[b], NEW j \in DOMAIN code[d],
             code[b][i].op = "load", code[d][j].op = "load", code[b][i].id = code[d][j].id
      PROVE  b = d /\ i = j
  <2>1. PICK vs : W(b, vs)
    BY <1>2
  <2>2. PICK ws : W(d, ws)
    BY <1>2
  <2>3. i - Len(vs) \in DOMAIN prog.code[b] /\ code[b][i] = prog.code[b][i - Len(vs)]
    BY <2>1, <1>8, <1>9
  <2>4. j - Len(ws) \in DOMAIN prog.code[d] /\ code[d][j] = prog.code[d][j - Len(ws)]
    BY <2>2, <1>8, <1>9
  <2>5. b = d
    BY <2>3, <2>4, <1>5, <1>9
  <2>6. j - Len(vs) \in DOMAIN prog.code[b] /\ code[b][j] = prog.code[b][j - Len(vs)]
    BY <2>1, <2>5, <1>8, <1>9
  <2>7. i - Len(vs) = j - Len(vs)
    BY <2>3, <2>6, <2>5, <1>5, <1>9
  <2>8. i \in Nat /\ j \in Nat /\ Len(vs) \in Nat
    BY <2>1, <2>5, <1>3
  <2> QED BY <2>5, <2>7, <2>8
<1>10. ASSUME NEW b \in Block
       PROVE  \E n \in Nat :
              /\ Len(code[b]) = n + Len(prog.code[b]) /\ Len(prog.code[b]) \in Nat
              /\ \A k \in 1 .. n : /\ code[b][k].op = "phi" /\ code[b][k].pairs = << >>
                                   /\ code[b][k].arg = Undef
              /\ \A k \in DOMAIN prog.code[b] : code[b][n + k] = prog.code[b][k]
  <2>1. PICK vs : W(b, vs)
    BY <1>2
  <2>2. Len(vs) \in Nat /\ Len(code[b]) = Len(vs) + Len(prog.code[b]) /\ Len(prog.code[b]) \in Nat
    BY <2>1, <1>3
  <2>3. \A k \in 1 .. Len(vs) : code[b][k].op = "phi" /\ code[b][k].pairs = << >> /\ code[b][k].arg = Undef
    BY <2>1, <1>3
  <2>4. ASSUME NEW k \in DOMAIN prog.code[b] PROVE code[b][Len(vs) + k] = prog.code[b][k]
    <3>1. k \in Nat /\ k > 0 /\ k <= Len(prog.code[b]) /\ Len(vs) + k \in DOMAIN code[b]
      BY <2>1, <1>3
    <3>2. Len(vs) + k > Len(vs) /\ Len(vs) + k - Len(vs) = k
      BY <3>1, <2>2
    <3> QED BY <3>1, <3>2, <2>1, <1>3
  <2> QED BY <2>2, <2>3, <2>4
<1>11. CodeOK(code)
  <2>1. \A b \in Block : \A i \in DOMAIN code[b] :
          /\ code[b][i].op = "phi" => /\ code[b][i].id = PhiName(b, code[b][i].var)
                                       /\ \A j \in 1 .. i : code[b][j].op = "phi"
          /\ code[b][i].op # "output" => code[b][i].var \in Var
          /\ code[b][i].op = "load" => code[b][i].id[1] = "load"
    BY <1>6
  <2>2. \A b \in Block : \A i, j \in DOMAIN code[b] :
          code[b][i].op = "phi" /\ code[b][j].op = "phi" /\ code[b][i].var = code[b][j].var => i = j
    BY <1>7
  <2>3. \A b, d \in Block : \A i \in DOMAIN code[b], j \in DOMAIN code[d] :
          code[b][i].op = "load" /\ code[d][j].op = "load" /\ code[b][i].id = code[d][j].id => b = d /\ i = j
    BY <1>9
  <2> QED BY <2>1, <2>2, <2>3, Zenon DEF CodeOK
<1>12. \A b \in Block : \A i \in DOMAIN code[b] : code[b][i].pairs = << >>
  BY <1>6
<1> QED BY <1>10, <1>11, <1>12

-----------------------------------------------------------------------------
(* The steps of the pass keep the invariant.                               *)

\* What is stored before it is loaded still is, behind the phis.
LEMMA PlacedStoredFirst ==
  ASSUME ProgOK, code \in [Block -> Seq(Instr)], \A b \in Block : Placed(b), Initialised
  PROVE  StoredFirst(code)
<1> SUFFICES ASSUME NEW v \in Var
             PROVE  \E i \in DOMAIN code[Entry] :
                      /\ code[Entry][i].op = "store" /\ code[Entry][i].var = v
                      /\ \A j \in 1 .. i : ~(code[Entry][j].op = "load" /\ code[Entry][j].var = v)
  BY DEF StoredFirst
<1>1. Entry \in Block /\ code[Entry] \in Seq(Instr) /\ prog.code[Entry] \in Seq(Instr)
  BY ProgFacts
<1>2. PICK n \in Nat :
        /\ Len(code[Entry]) = n + Len(prog.code[Entry]) /\ Len(prog.code[Entry]) \in Nat
        /\ \A k \in 1 .. n : code[Entry][k].op = "phi"
        /\ \A k \in DOMAIN prog.code[Entry] : code[Entry][n + k] = prog.code[Entry][k]
  BY <1>1, PlacedCode
<1>3. PICK i \in DOMAIN prog.code[Entry] :
        /\ prog.code[Entry][i].op = "store" /\ prog.code[Entry][i].var = v
        /\ \A j \in 1 .. i : ~(prog.code[Entry][j].op = "load" /\ prog.code[Entry][j].var = v)
  BY DEF Initialised
<1>4. i \in 1 .. Len(prog.code[Entry]) /\ DOMAIN prog.code[Entry] = 1 .. Len(prog.code[Entry])
      /\ DOMAIN code[Entry] = 1 .. n + Len(prog.code[Entry])
  BY <1>1, <1>2
<1>5. n + i \in DOMAIN code[Entry] /\ code[Entry][n + i] = prog.code[Entry][i]
  BY <1>2, <1>4
<1>6. ASSUME NEW j \in 1 .. n + i PROVE ~(code[Entry][j].op = "load" /\ code[Entry][j].var = v)
  <2>1. CASE j <= n
    BY <2>1, <1>2
  <2>2. CASE j > n
    <3>1. j - n \in 1 .. i /\ j - n \in DOMAIN prog.code[Entry] /\ n + (j - n) = j
      BY <2>2, <1>2, <1>4
    <3>2. code[Entry][n + (j - n)] = prog.code[Entry][j - n]
      BY <3>1, <1>2
    <3> QED BY <3>1, <3>2, <1>3
  <2> QED BY <2>1, <2>2
<1> QED BY <1>3, <1>5, <1>6

\* When the entry block stores first, a variable has a value whenever a load of
\* it or the end of a block is reached.
LEMMA HasValue ==
  ASSUME ProgOK, ReNameOK, pc = "re_name", calls # << >>, StoredFirst(code), NEW v \in Var,
         Top.at \in 1 .. End => Here.op = "load" /\ Here.var = v
  PROVE  var_val_stack[v] # << >> /\ v \in known
<1>1. calls \in Seq(CallRecord) /\ code \in [Block -> Seq(Instr)] /\ Len(calls) \in Nat \ {0}
  BY TopFacts
<1>2. 1 \in 1 .. Len(calls) /\ CallOK(prog.succ, code, calls, 1) /\ calls[1].bb = Entry
  BY <1>1 DEF ReNameOK, CallsOK
<1>3. PICK i \in DOMAIN code[Entry] :
        /\ code[Entry][i].op = "store" /\ code[Entry][i].var = v
        /\ \A j \in 1 .. i : ~(code[Entry][j].op = "load" /\ code[Entry][j].var = v)
  BY DEF StoredFirst
<1>4. code[Entry] \in Seq(Instr) /\ Entry \in Block
  BY <1>1, BlockAssumption
<1>5. i \in Nat /\ i <= Len(code[Entry]) /\ Len(code[Entry]) \in Nat /\ i > 0
  BY <1>4
<1>6. i < calls[1].at
  <2>1. CASE Len(calls) = 1
    <3>1. Top.bb = Entry /\ End = Len(code[Entry]) /\ Top.at \in Nat /\ Top.at > 0 /\ Top = calls[1]
      BY <2>1, <1>2, TopFacts DEF Top
    <3> SUFFICES ASSUME ~(i < Top.at) PROVE FALSE
      BY <3>1
    <3>2. Top.at \in 1 .. End /\ Top.at \in 1 .. i
      BY <3>1, <1>5
    <3> QED BY <3>1, <3>2, <1>3 DEF Here
  <2>2. CASE Len(calls) # 1
    <3>1. 1 < Len(calls)
      <4> DEFINE n == Len(calls)
      <4>1. n \in Nat \ {0} /\ n # 1
        BY <2>2, <1>1
      <4> HIDE DEF n
      <4>2. 1 < n
        BY <4>1
      <4> QED BY <4>2 DEF n
    <3>2. calls[1].at = Len(code[calls[1].bb]) + 2
      BY <3>1, <1>2 DEF CallOK
    <3>3. calls[1].at = Len(code[Entry]) + 2
      BY <3>2, <1>2
    <3> QED BY <3>3, <1>5
  <2> QED BY <2>1, <2>2
<1>7. GaveIn(code, calls[1], v) # {}
  BY <1>2, <1>3, <1>6 DEF GaveIn
<1>8. Depth(code, calls, v) \in Nat /\ Depth(code, calls, v) > 0
  BY <1>1, <1>2, <1>7, GiftsFinite
<1>9. Len(var_val_stack[v]) > 0 /\ v \in known
  BY <1>8 DEF ReNameOK, StacksOK
<1> QED BY <1>8, <1>9

\* A call of re_name begins.
LEMMA EnterOK ==
  ASSUME ProgOK, CodeOK(code), NEW below, CallsOK(prog.succ, code, below), NEW b \in Block,
         b \in Reached(prog.succ),
         var_val_stack \in [Var -> Seq(Value)], known \in SUBSET Var,
         \A v \in Var : /\ Len(var_val_stack[v]) = Depth(code, below, v)
                        /\ Depth(code, below, v) > 0 => v \in known,
         below = << >> => b = Entry,
         below # << >> => LET top == below[Len(below)]
                          IN  top.at = Len(code[top.bb]) + 2 /\ Child(prog.succ, top.bb, b),
         Enter(b, below), code' = code, prog' = prog
  PROVE  CallsOK(prog.succ, code', calls') /\ StacksOK' /\ calls' # << >>
<1> DEFINE x == Call(b)
<1>1. x \in CallRecord /\ x.bb = b /\ x.at = 1 /\ x.wait_delete = {}
      /\ x.children = {y \in Block : Child(prog.succ, b, y)}
  BY ChildrenMeaning DEF Call, CallRecord
<1>2. calls' = Append(below, x)
  BY DEF Enter
<1> HIDE DEF x
<1>3. below \in Seq(CallRecord) /\ code \in [Block -> Seq(Instr)]
  BY DEF CallsOK, CodeOK
<1>4. CallsOK(prog.succ, code, Append(below, x))
  <2>1. \A y \in x.children : Child(prog.succ, x.bb, y)
    BY <1>1
  <2> QED BY <1>1, <1>3, <2>1, PushCall, ProgFacts
<1>5. ASSUME NEW v \in Var
      PROVE  /\ var_val_stack'[v] \in Seq(Value)
             /\ Len(var_val_stack'[v]) = Depth(code, Append(below, x), v)
             /\ Depth(code, Append(below, x), v) > 0 => v \in known'
  <2>1. Depth(code, Append(below, x), v) = Depth(code, below, v) + IF HasPhi(code, b, v) THEN 1 ELSE 0
    BY <1>1, <1>3, DepthPushed
  <2>2. Depth(code, below, v) \in Nat /\ var_val_stack[v] \in Seq(Value)
    BY <1>3, GiftsFinite
  <2>3. CASE HasPhi(code, b, v)
    <3>1. var_val_stack'[v] = Append(var_val_stack[v], PhiName(b, v)) /\ v \in known'
      BY <2>3 DEF Enter, PhiVars
    <3> QED BY <2>1, <2>2, <2>3, <3>1, ValueFacts
  <2>4. CASE ~HasPhi(code, b, v)
    <3>1. var_val_stack'[v] = var_val_stack[v] /\ known \subseteq known'
      BY <2>4 DEF Enter, PhiVars
    <3>2. Depth(code, Append(below, x), v) = Depth(code, below, v)
      BY <2>1, <2>2, <2>4
    <3> QED BY <2>2, <3>1, <3>2
  <2> QED BY <2>3, <2>4
<1>6. var_val_stack' \in [Var -> Seq(Value)]
  <2>1. var_val_stack' = [v \in Var |-> var_val_stack'[v]]
    BY DEF Enter
  <2> QED BY <2>1, <1>5
<1>7. known' \in SUBSET Var
  BY DEF Enter, PhiVars
<1>8. StacksOK'
  BY <1>2, <1>5, <1>6, <1>7 DEF StacksOK
<1>9. Append(below, x) # << >>
  BY <1>3
<1> QED BY <1>2, <1>4, <1>8, <1>9

\* Nothing else is written while a call goes on: what each step has to show.
LEMMA StepOn ==
  ASSUME StackInv, pc = "re_name", calls # << >>, Top.at \in 1 .. End + 1,
         NEW deleted \in SUBSET Nat,
         \A i \in deleted : i = Top.at /\ Top.at \in 1 .. End /\ Here.op \in {"load", "store"},
         Advance(deleted), SameShape(code, code'),
         UNCHANGED <<prog, dominators_, pc>>,
         var_val_stack' \in [Var -> Seq(Value)], known' \in SUBSET Var, known \subseteq known',
         \A v \in Var : /\ Len(var_val_stack'[v]) = Len(var_val_stack[v]) + IF StoresHere(v) THEN 1 ELSE 0
                        /\ StoresHere(v) => v \in known'
  PROVE  StackInv'
<1>1. ProgOK /\ ReNameOK /\ PcOK
  BY DEF StackInv
<1>2. /\ CodeOK(code') /\ CallsOK(prog.succ, code', calls')
      /\ (StoredFirst(code) => StoredFirst(code'))
      /\ calls' # << >>
      /\ \A v \in Var : Depth(code', calls', v) = Depth(code, calls, v) + IF StoresHere(v) THEN 1 ELSE 0
  BY <1>1, AdvanceShape
<1>3. StacksOK'
  <2>1. ASSUME NEW v \in Var
        PROVE  /\ Len(var_val_stack'[v]) = Depth(code', calls', v)
               /\ Depth(code', calls', v) > 0 => v \in known'
    <3>1. /\ Len(var_val_stack[v]) = Depth(code, calls, v)
          /\ Depth(code, calls, v) > 0 => v \in known
      BY <1>1 DEF ReNameOK, StacksOK
    <3>2. Depth(code, calls, v) \in Nat
      BY <1>1, TopFacts, GiftsFinite
    <3>3. CASE StoresHere(v)
      BY <3>1, <3>2, <3>3, <1>2
    <3>4. CASE ~StoresHere(v)
      <4>1. Depth(code', calls', v) = Depth(code, calls, v)
        <5>1. Depth(code', calls', v) = Depth(code, calls, v) + IF StoresHere(v) THEN 1 ELSE 0
          BY <1>2
        <5> HIDE DEF StoresHere
        <5>2. Depth(code', calls', v) = Depth(code, calls, v) + 0
          BY <5>1, <3>4, Zenon
        <5> QED BY <5>2, <3>2
      <4>2. Len(var_val_stack'[v]) = Len(var_val_stack[v])
        <5>1. Len(var_val_stack'[v]) = Len(var_val_stack[v]) + IF StoresHere(v) THEN 1 ELSE 0
          OBVIOUS
        <5> HIDE DEF StoresHere
        <5>2. Len(var_val_stack'[v]) = Len(var_val_stack[v]) + 0
          BY <5>1, <3>4, Zenon
        <5> QED BY <5>2, <3>1, <3>2
      <4> QED BY <3>1, <4>1, <4>2
    <3> QED BY <3>3, <3>4
  <2> QED BY <2>1 DEF StacksOK
<1>4. Initialised' = Initialised
  BY DEF Initialised
<1>5. ReNameOK'
  BY <1>1, <1>2, <1>3, <1>4 DEF ReNameOK
<1>6. ProgOK' /\ PlacingOK' /\ PcOK'
  BY <1>1, <1>4 DEF ProgOK, PlacingOK, PcOK
<1> QED BY <1>5, <1>6 DEF StackInv

\* Any code has its own shape.
LEMMA SameAsItself ==
  ASSUME NEW c, CodeOK(c)
  PROVE  SameShape(c, c)
BY DEF CodeOK, SameShape

\* A load of a variable with a stack.
LEMMA ReNameLoadKeeps ==
  ASSUME StackInv, ReNameLoad
  PROVE  StackInv'
<1>1. ProgOK /\ ReNameOK /\ pc = "re_name" /\ calls # << >> /\ Top.at \in 1 .. End /\ Here.op = "load"
  BY DEF StackInv, ReNameLoad, Naming
<1>2. CodeOK(code) /\ StacksOK /\ Here \in Instr /\ Top.at \in Nat /\ End \in Nat
  BY <1>1, TopFacts DEF ReNameOK, Here
<1>3. Top.at \in 1 .. End + 1
  BY <1>1, <1>2
<1>4. \A v \in Var : ~StoresHere(v)
  BY <1>1 DEF StoresHere
<1>5. \A v \in Var : Len(var_val_stack[v]) \in Nat
  BY <1>2 DEF StacksOK
<1>6. /\ var_val_stack' \in [Var -> Seq(Value)] /\ known' \in SUBSET Var /\ known \subseteq known'
      /\ \A v \in Var : Len(var_val_stack'[v]) = Len(var_val_stack[v]) + 0
  BY <1>2, <1>5 DEF ReNameLoad, StacksOK
<1>7. UNCHANGED <<prog, dominators_, pc>>
  BY DEF ReNameLoad
<1>8. CASE Here.var \in known
  <2>1. Last(var_val_stack[Here.var]) \in Value
    <3>1. Here.var \in Var /\ var_val_stack[Here.var] \in Seq(Value) /\ var_val_stack[Here.var] # << >>
      BY <1>2, <1>8 DEF StacksOK, ReNameLoad
    <3> QED BY <3>1 DEF Last
  <2>2. SameShape(code, code')
    BY <1>2, <1>8, <2>1, ReplaceUsesShape DEF ReNameLoad
  <2>3. Advance({Top.at}) /\ {Top.at} \in SUBSET Nat
    BY <1>2, <1>8 DEF ReNameLoad
  <2> QED BY <1>1, <1>3, <1>4, <1>6, <1>7, <2>2, <2>3, StepOn
<1>9. CASE Here.var \notin known
  <2>1. SameShape(code, code')
    BY <1>2, <1>9, SameAsItself DEF ReNameLoad
  <2>2. Advance({})
    BY <1>9 DEF ReNameLoad
  <2> QED BY <1>1, <1>3, <1>4, <1>6, <1>7, <2>1, <2>2, StepOn
<1> QED BY <1>8, <1>9

\* A load of a variable without a value: not when every variable is stored
\* to first.
LEMMA ReNameLoadOfNothingKeeps ==
  ASSUME StackInv, ReNameLoadOfNothing
  PROVE  StackInv'
<1>1. ProgOK /\ ReNameOK /\ pc = "re_name" /\ calls # << >> /\ Top.at \in 1 .. End /\ Here.op = "load"
  BY DEF StackInv, ReNameLoadOfNothing, Naming
<1>2. CodeOK(code) /\ StacksOK /\ Here \in Instr /\ Top.at \in Nat /\ End \in Nat
  BY <1>1, TopFacts DEF ReNameOK, Here
<1>3. Top.at \in 1 .. End + 1
  BY <1>1, <1>2
<1>4. \A v \in Var : ~StoresHere(v)
  BY <1>1 DEF StoresHere
<1>5. \A v \in Var : Len(var_val_stack[v]) \in Nat
  BY <1>2 DEF StacksOK
<1>6. /\ var_val_stack' \in [Var -> Seq(Value)] /\ known' \in SUBSET Var /\ known \subseteq known'
      /\ \A v \in Var : Len(var_val_stack'[v]) = Len(var_val_stack[v]) + 0
  BY <1>2, <1>5 DEF ReNameLoadOfNothing, StacksOK
<1>7. CASE Used(Here.id)
  <2>1. pc' = "undefined" /\ UNCHANGED <<prog, dominators_>>
    BY <1>7 DEF ReNameLoadOfNothing
  <2>2. ~Initialised
    <3> SUFFICES ASSUME Initialised PROVE FALSE
      OBVIOUS
    <3>1. StoredFirst(code) /\ Here.var \in Var
      BY <1>1, <1>2 DEF ReNameOK, ReNameLoadOfNothing, StacksOK
    <3> QED BY <1>1, <3>1, HasValue DEF ReNameLoadOfNothing
  <2>3. ~Initialised'
    BY <2>1, <2>2 DEF Initialised
  <2> QED BY <1>1, <2>1, <2>3 DEF StackInv, ProgOK, PlacingOK, ReNameOK, PcOK
<1>8. CASE ~Used(Here.id)
  <2>1. SameShape(code, code') /\ UNCHANGED <<prog, dominators_, pc>>
    BY <1>2, <1>8, SameAsItself DEF ReNameLoadOfNothing
  <2>2. Advance({Top.at}) /\ {Top.at} \in SUBSET Nat
    BY <1>2, <1>8 DEF ReNameLoadOfNothing
  <2> QED BY <1>1, <1>3, <1>4, <1>6, <2>1, <2>2, StepOn
<1> QED BY <1>7, <1>8

\* A store.
LEMMA ReNameStoreKeeps ==
  ASSUME StackInv, ReNameStore
  PROVE  StackInv'
<1>1. ProgOK /\ ReNameOK /\ pc = "re_name" /\ calls # << >> /\ Top.at \in 1 .. End /\ Here.op = "store"
  BY DEF StackInv, ReNameStore, Naming
<1>2. CodeOK(code) /\ StacksOK /\ Here \in Instr /\ Top.at \in Nat /\ End \in Nat
      /\ Top.bb \in Block /\ Top.at \in DOMAIN code[Top.bb]
  BY <1>1, TopFacts DEF ReNameOK, Here
<1>3. Top.at \in 1 .. End + 1
  BY <1>1, <1>2
<1>4. Here.var \in Var /\ Here.arg \in Value
  BY <1>1, <1>2, InstrFields DEF CodeOK, Here
<1>5. \A v \in Var : StoresHere(v) <=> v = Here.var
  BY <1>1 DEF StoresHere
<1>6. var_val_stack \in [Var -> Seq(Value)] /\ known \in SUBSET Var
  BY <1>2 DEF StacksOK
<1>7. /\ var_val_stack' = [var_val_stack EXCEPT ![Here.var] = Append(@, Here.arg)]
      /\ known' = known \cup {Here.var} /\ Advance({Top.at}) /\ UNCHANGED <<prog, dominators_, pc, code>>
  BY DEF ReNameStore
<1>8. ASSUME NEW v \in Var
      PROVE  /\ var_val_stack'[v] \in Seq(Value)
             /\ Len(var_val_stack'[v]) = Len(var_val_stack[v]) + IF StoresHere(v) THEN 1 ELSE 0
             /\ StoresHere(v) => v \in known'
  <2>1. var_val_stack[v] \in Seq(Value) /\ Len(var_val_stack[v]) \in Nat
    BY <1>6
  <2>2. CASE v = Here.var
    <3>1. var_val_stack'[v] = Append(var_val_stack[v], Here.arg)
      BY <1>6, <1>7, <2>2
    <3>2. Append(var_val_stack[v], Here.arg) \in Seq(Value)
          /\ Len(Append(var_val_stack[v], Here.arg)) = Len(var_val_stack[v]) + 1
      BY <2>1, <1>4
    <3> QED BY <1>5, <1>7, <2>2, <3>1, <3>2
  <2>3. CASE v # Here.var
    <3>1. var_val_stack'[v] = var_val_stack[v]
      BY <1>6, <1>7, <2>3
    <3>2. ~StoresHere(v)
      BY <1>5, <2>3
    <3> QED BY <3>1, <3>2, <2>1
  <2> QED BY <2>2, <2>3
<1>9. var_val_stack' \in [Var -> Seq(Value)]
  BY <1>4, <1>6, <1>7
<1>10. known' \in SUBSET Var /\ known \subseteq known'
  BY <1>4, <1>6, <1>7
<1>11. SameShape(code, code')
  BY <1>2, <1>7, SameAsItself
<1>12. {Top.at} \in SUBSET Nat
  BY <1>2
<1> QED BY <1>1, <1>3, <1>7, <1>8, <1>9, <1>10, <1>11, <1>12, StepOn

\* Any other instruction.
LEMMA ReNameOtherKeeps ==
  ASSUME StackInv, ReNameOther
  PROVE  StackInv'
<1>1. ProgOK /\ ReNameOK /\ pc = "re_name" /\ calls # << >> /\ Top.at \in 1 .. End
      /\ Here.op \notin {"load", "store"}
  BY DEF StackInv, ReNameOther, Naming
<1>2. CodeOK(code) /\ StacksOK /\ Top.at \in Nat /\ End \in Nat
  BY <1>1, TopFacts DEF ReNameOK
<1>3. Top.at \in 1 .. End + 1
  BY <1>1, <1>2
<1>4. \A v \in Var : ~StoresHere(v)
  BY <1>1 DEF StoresHere
<1>5. \A v \in Var : Len(var_val_stack[v]) \in Nat
  BY <1>2 DEF StacksOK
<1>6. /\ var_val_stack' \in [Var -> Seq(Value)] /\ known' \in SUBSET Var /\ known \subseteq known'
      /\ \A v \in Var : Len(var_val_stack'[v]) = Len(var_val_stack[v]) + 0
  BY <1>2, <1>5 DEF ReNameOther, StacksOK
<1>7. SameShape(code, code') /\ UNCHANGED <<prog, dominators_, pc>> /\ Advance({})
  BY <1>2, SameAsItself DEF ReNameOther
<1> QED BY <1>1, <1>3, <1>4, <1>6, <1>7, StepOn

\* The phis of the successors get their pairs; the assertion fails only when a
\* variable has no value.
LEMMA FillSuccessorsKeeps ==
  ASSUME StackInv, FillSuccessors
  PROVE  /\ StackInv'
         /\ pc' # "assert" =>
              LET top == [v \in Var |-> Last(var_val_stack[v])]
              IN  /\ code' = Filled(code, prog.succ[Top.bb], known, top, Top.bb)
                  /\ \A d \in prog.succ[Top.bb] \cap Block : \A k \in DOMAIN code[d] :
                        Gets(code[d][k], known) => /\ top[code[d][k].var] \in Value
                                                   /\ var_val_stack[code[d][k].var] # << >>
                  /\ Advance({}) /\ UNCHANGED pc
<1> DEFINE succs == prog.succ[Top.bb]
           phis == UNION {PhiVars(s) \cap known : s \in succs}
           top == [v \in Var |-> Last(var_val_stack[v])]
           b == Top.bb
           fill(i) == IF i.op = "phi" /\ i.var \in known
                      THEN [i EXCEPT !.pairs = Append(@, <<Last(var_val_stack[i.var]), b>>)]
                      ELSE i
           filled == [d \in Block |-> IF d \in succs
                                      THEN [k \in DOMAIN code[d] |-> fill(code[d][k])]
                                      ELSE code[d]]
<1>1. ProgOK /\ ReNameOK /\ pc = "re_name" /\ calls # << >> /\ Top.at = End + 1
  <2>1. ProgOK /\ ReNameOK /\ pc = "re_name" /\ calls # << >> /\ Top.at \in End + 1 .. End + 1
    BY DEF StackInv, FillSuccessors, Fill, Naming
  <2>2. End \in Nat /\ Top.at \in Nat
    BY <2>1, TopFacts
  <2> QED BY <2>1, <2>2
<1>2. CodeOK(code) /\ StacksOK /\ Top.at \in Nat /\ End \in Nat /\ b \in Block /\ succs \in SUBSET Block
  BY <1>1, TopFacts, ProgFacts DEF ReNameOK
<1>3. Top.at \in 1 .. End + 1 /\ Top.at \notin 1 .. End
  BY <1>1, <1>2
<1>4. \A v \in Var : ~StoresHere(v)
  BY <1>3 DEF StoresHere
<1>5. \A v \in Var : Len(var_val_stack[v]) \in Nat /\ var_val_stack[v] \in Seq(Value)
  BY <1>2 DEF StacksOK
<1>6. /\ var_val_stack' \in [Var -> Seq(Value)] /\ known' \in SUBSET Var /\ known \subseteq known'
      /\ \A v \in Var : Len(var_val_stack'[v]) = Len(var_val_stack[v]) + 0
  BY <1>2, <1>5 DEF FillSuccessors, Fill, StacksOK
<1>7. UNCHANGED <<prog, dominators_>>
  BY DEF FillSuccessors, Fill
<1>8. IF \E v \in phis : var_val_stack[v] = << >>
      THEN pc' = "assert" /\ UNCHANGED <<code, calls>>
      ELSE code' = filled /\ Advance({}) /\ UNCHANGED pc
  BY DEF FillSuccessors, Fill
<1>9. CASE \E v \in phis : var_val_stack[v] = << >>
  <2>1. pc' = "assert"
    BY <1>8, <1>9
  <2>2. ~Initialised
    <3> SUFFICES ASSUME Initialised PROVE FALSE
      OBVIOUS
    <3>1. PICK v \in phis : var_val_stack[v] = << >>
      BY <1>9
    <3>2. v \in Var /\ StoredFirst(code)
      BY <1>1 DEF PhiVars, ReNameOK
    <3> QED BY <1>1, <1>3, <3>1, <3>2, HasValue
  <2>3. ~Initialised'
    BY <1>7, <2>2 DEF Initialised
  <2> QED BY <1>1, <1>7, <2>1, <2>3 DEF StackInv, ProgOK, PlacingOK, ReNameOK, PcOK
<1>10. CASE ~\E v \in phis : var_val_stack[v] = << >>
  <2>1. ASSUME NEW d \in succs \cap Block, NEW k \in DOMAIN code[d], Gets(code[d][k], known)
        PROVE  top[code[d][k].var] \in Value /\ var_val_stack[code[d][k].var] # << >>
    <3> DEFINE v == code[d][k].var
    <3>1. v \in Var /\ v \in known /\ code[d][k].op = "phi"
      BY <1>2, <2>1 DEF CodeOK, Gets
    <3>2. v \in PhiVars(d)
      BY <3>1 DEF PhiVars, HasPhi
    <3>3. var_val_stack[v] # << >>
      BY <1>10, <3>1, <3>2
    <3> HIDE DEF v
    <3>4. top[v] = Last(var_val_stack[v]) /\ var_val_stack[v] \in Seq(Value)
      BY <1>5, <3>1
    <3>5. Last(var_val_stack[v]) \in Value
      BY <3>3, <3>4 DEF Last
    <3> QED BY <3>3, <3>4, <3>5 DEF v
  <2>2. \A d \in succs \cap Block : \A k \in DOMAIN code[d] :
          Gets(code[d][k], known) => top[code[d][k].var] \in Value /\ var_val_stack[code[d][k].var] # << >>
    BY <2>1
  <2>3. filled = Filled(code, succs, known, top, b)
    <3>1. ASSUME NEW d \in Block, d \in succs, NEW k \in DOMAIN code[d]
          PROVE  fill(code[d][k]) = IF Gets(code[d][k], known)
                                    THEN [code[d][k] EXCEPT !.pairs = Append(@, <<top[code[d][k].var], b>>)]
                                    ELSE code[d][k]
      <4>1. CASE Gets(code[d][k], known)
        <5>1. code[d][k].var \in Var
          BY <1>2, <4>1 DEF Gets, StacksOK
        <5> QED BY <4>1, <5>1 DEF Gets
      <4>2. CASE ~Gets(code[d][k], known)
        BY <4>2 DEF Gets
      <4> QED BY <4>1, <4>2
    <3> HIDE DEF fill, top
    <3> QED BY <3>1 DEF Filled
  <2>4. code' = Filled(code, succs, known, top, b) /\ Advance({}) /\ UNCHANGED pc
    BY <1>8, <1>10, <2>3
  <2> HIDE DEF succs, top, b, phis, filled
  <2>5. SameShape(code, code')
    BY <1>2, <2>2, <2>4, FilledShape
  <2>6. StackInv'
    BY <1>1, <1>3, <1>4, <1>6, <1>7, <2>4, <2>5, StepOn
  <2> QED BY <2>2, <2>4, <2>6 DEF succs, top, b
<1> QED BY <1>8, <1>9, <1>10

\* The first call, on the entry block.
LEMMA StartReNameKeeps ==
  ASSUME StackInv, StartReName
  PROVE  StackInv'
<1>1. /\ ProgOK /\ PlacingOK /\ PcOK /\ pc = "generate_phi" /\ pc' = "re_name"
      /\ Enter(Entry, << >>) /\ UNCHANGED <<prog, dominators_, code>>
  BY DEF StackInv, StartReName
<1>2. /\ calls = << >> /\ known = {} /\ var_val_stack = [v \in Var |-> << >>]
      /\ code \in [Block -> Seq(Instr)] /\ \A b \in Block : Placed(b)
  BY <1>1 DEF PlacingOK
<1>3. CodeOK(code)
  BY <1>1, <1>2, PlacedCode
<1>4. CallsOK(prog.succ, code, << >>)
  BY DEF CallsOK
<1>5. << >> \in Seq(CallRecord) /\ Len(<< >>) = 0
  OBVIOUS
<1>6. \A v \in Var : Depth(code, << >>, v) = 0
  <2> TAKE v \in Var
  <2>1. Tagged(Gifts(code, << >>, v), 0) = {}
    BY DEF Tagged
  <2> QED BY <1>5, <2>1, FS_EmptySet DEF Depth
<1>7. /\ var_val_stack \in [Var -> Seq(Value)] /\ known \in SUBSET Var
      /\ \A v \in Var : /\ Len(var_val_stack[v]) = Depth(code, << >>, v)
                        /\ Depth(code, << >>, v) > 0 => v \in known
  BY <1>2, <1>6
<1>8. CallsOK(prog.succ, code', calls') /\ StacksOK' /\ calls' # << >>
  BY <1>1, <1>3, <1>4, <1>7, ProgFacts, EnterOK
<1>9. Initialised' = Initialised
  BY <1>1 DEF Initialised
<1>10. Initialised => StoredFirst(code')
  BY <1>1, <1>2, PlacedStoredFirst
<1>11. ReNameOK'
  BY <1>1, <1>3, <1>8, <1>9, <1>10 DEF ReNameOK
<1> QED BY <1>1, <1>9, <1>11 DEF StackInv, ProgOK, PlacingOK, PcOK

\* A call for a child.
LEMMA ReNameChildKeeps ==
  ASSUME StackInv, ReNameChild
  PROVE  StackInv'
<1>1. /\ ProgOK /\ ReNameOK /\ PcOK /\ pc = "re_name" /\ calls # << >> /\ Top.at \in End + 2 .. End + 2
      /\ UNCHANGED <<prog, dominators_, code, pc>>
  BY DEF StackInv, ReNameChild, Naming
<1>2. PICK b \in Top.children : Enter(b, [calls EXCEPT ![Len(calls)].children = @ \ {b}])
  BY DEF ReNameChild
<1> DEFINE below == [calls EXCEPT ![Len(calls)].children = @ \ {b}]
           x == [Top EXCEPT !.children = @ \ {b}]
<1>3. CodeOK(code) /\ CallsOK(prog.succ, code, calls) /\ StacksOK /\ code \in [Block -> Seq(Instr)]
  BY <1>1 DEF ReNameOK, CodeOK
<1>4. /\ calls \in Seq(CallRecord) /\ Len(calls) \in Nat \ {0} /\ Top \in CallRecord /\ Top.bb \in Block
      /\ End = Len(code[Top.bb]) /\ End \in Nat /\ Top.at = End + 2
      /\ CallOK(prog.succ, code, calls, Len(calls))
  <2>1. Top.at \in Nat /\ End \in Nat
    BY <1>1, TopFacts
  <2> QED BY <1>1, <2>1, TopFacts
<1>5. /\ x \in CallRecord /\ x.bb = Top.bb /\ x.at = Top.at
      /\ x.wait_delete = Top.wait_delete /\ x.children = Top.children \ {b}
      /\ TopIs(calls, below, x)
  BY <1>1, <1>4, DropChild DEF Top
<1> HIDE DEF below, x
<1>6. SameShape(code, code)
  BY <1>3, SameAsItself
<1>7. x.at \in 1 .. Len(code[x.bb]) + 2
  BY <1>4, <1>5
<1>8. \A i \in x.wait_delete : i \in DOMAIN code[x.bb] /\ i < x.at /\ code[x.bb][i].op \in {"load", "store"}
  BY <1>4, <1>5 DEF CallOK, Top
<1>9. CallsOK(prog.succ, code, below)
  <2>1. x.children \subseteq calls[Len(calls)].children /\ x.bb = calls[Len(calls)].bb
    BY <1>5 DEF Top
  <2> QED BY <1>1, <1>3, <1>5, <1>6, <1>7, <1>8, <2>1, TopChanges
<1>10. below # << >> /\ below[Len(below)] = x
  BY <1>4, <1>5 DEF TopIs
<1>11. Child(prog.succ, Top.bb, b) /\ b \in Block /\ b \in Reached(prog.succ)
  <2>1. Child(prog.succ, Top.bb, b)
    BY <1>2, <1>4 DEF CallOK, Top
  <2>2. b \in Block
    BY <1>2, <1>4 DEF CallRecord
  <2> QED BY <1>4, <2>1, <2>2, <1>1, ProgFacts, DominatorReached DEF Child
<1>12. ASSUME NEW v \in Var
       PROVE  /\ Len(var_val_stack[v]) = Depth(code, below, v)
              /\ Depth(code, below, v) > 0 => v \in known
  <2>1. Depth(code, below, v) = Depth(code, calls, v)
    BY <1>1, <1>3, <1>4, <1>5, DepthStays DEF Top
  <2> QED BY <1>3, <2>1 DEF StacksOK
<1>13. CallsOK(prog.succ, code', calls') /\ StacksOK' /\ calls' # << >>
  <2>1. Enter(b, below) /\ var_val_stack \in [Var -> Seq(Value)] /\ known \in SUBSET Var
    BY <1>2, <1>3 DEF below, StacksOK
  <2>2. LET top == below[Len(below)]
        IN  top.at = Len(code[top.bb]) + 2 /\ Child(prog.succ, top.bb, b)
    BY <1>4, <1>5, <1>10, <1>11
  <2> QED BY <1>1, <1>3, <1>9, <1>10, <1>11, <1>12, <2>1, <2>2, EnterOK
<1>14. Initialised' = Initialised
  BY <1>1 DEF Initialised
<1>15. ReNameOK'
  BY <1>1, <1>3, <1>13, <1>14 DEF ReNameOK
<1> QED BY <1>1, <1>14, <1>15 DEF StackInv, ProgOK, PlacingOK, PcOK

\* A sequence is left as it is when all of it is kept.
LEMMA OnlyAll ==
  ASSUME NEW S, NEW s \in Seq(S)
  PROVE  Only(s, DOMAIN s) = s
<1> DEFINE n == Len(s)
           places == 1 .. n
           Below(k) == {j \in places : j < k}
           place(i) == CHOOSE k \in places : Cardinality(Below(k)) = i - 1
<1>1. n \in Nat /\ DOMAIN s = places
  OBVIOUS
<1> HIDE DEF n
<1>2. ASSUME NEW k \in places PROVE Cardinality(Below(k)) = k - 1
  <2>1. Below(k) = 1 .. k - 1
    BY <1>1
  <2> DEFINE m == k - 1
  <2>2. m \in Nat
    BY <1>1
  <2> HIDE DEF m
  <2>3. Cardinality(1 .. m) = m
    <3>1. Cardinality(1 .. m) = IF 1 > m THEN 0 ELSE m - 1 + 1
      BY <2>2, FS_Interval
    <3> QED BY <2>2, <3>1
  <2> QED BY <2>1, <2>3 DEF m
<1>3. Cardinality(places) = n
  <2>1. Cardinality(1 .. n) = IF 1 > n THEN 0 ELSE n - 1 + 1
    BY <1>1, FS_Interval
  <2> QED BY <1>1, <2>1
<1> HIDE DEF Below
<1>4. ASSUME NEW i \in places PROVE place(i) = i
  <2>1. \E k \in places : Cardinality(Below(k)) = i - 1
    BY <1>2
  <2>2. place(i) \in places /\ Cardinality(Below(place(i))) = i - 1
    BY <2>1
  <2> HIDE DEF place
  <2>3. place(i) - 1 = i - 1 /\ place(i) \in Nat /\ i \in Nat
    BY <1>1, <1>2, <2>2
  <2> QED BY <2>3
<1>5. Only(s, places) = [i \in 1 .. n |-> s[place(i)]]
  BY <1>3 DEF Only, Below
<1> HIDE DEF place
<1>6. Only(s, places) = [i \in 1 .. n |-> s[i]]
  BY <1>4, <1>5
<1>7. s = [i \in 1 .. n |-> s[i]]
  BY <1>1 DEF n
<1> QED BY <1>1, <1>6, <1>7

\* The code when a call ends.
LEMMA EndReNameLeaves ==
  ASSUME ProgOK, ReNameOK, EndReName
  PROVE  LET places == [b \in Block |-> IF b = Top.bb THEN DOMAIN code[b] \ Top.wait_delete ELSE DOMAIN code[b]]
         IN  /\ code' = LeftOf(code, places) /\ KeepsPhis(code, places)
             /\ \A b \in Block : b # Top.bb => code'[b] = code[b]
<1> DEFINE places == [b \in Block |-> IF b = Top.bb THEN DOMAIN code[b] \ Top.wait_delete ELSE DOMAIN code[b]]
<1>1. pc = "re_name" /\ calls # << >> /\ code' = [code EXCEPT ![Top.bb] = Kept(Top.bb, Top.wait_delete)]
  BY DEF EndReName, EndReNameWith, Naming
<1>2. code \in [Block -> Seq(Instr)] /\ Top.bb \in Block /\ CallOK(prog.succ, code, calls, Len(calls))
  BY <1>1, TopFacts
<1>3. ASSUME NEW b \in Block PROVE code'[b] = Only(code[b], places[b])
  <2>1. CASE b = Top.bb
    BY <1>1, <1>2, <2>1 DEF Kept
  <2>2. CASE b # Top.bb
    <3>1. code'[b] = code[b] /\ places[b] = DOMAIN code[b] /\ code[b] \in Seq(Instr)
      BY <1>1, <1>2, <2>2
    <3> QED BY <3>1, OnlyAll
  <2> QED BY <2>1, <2>2
<1>4. code' = LeftOf(code, places)
  <2>1. code' = [b \in Block |-> code'[b]]
    BY <1>1, <1>2
  <2> HIDE DEF places
  <2> QED BY <1>3, <2>1 DEF LeftOf
<1>5. \A i \in Top.wait_delete : code[Top.bb][i].op \in {"load", "store"}
  BY <1>2 DEF CallOK, Top
<1>6. KeepsPhis(code, places)
  BY <1>2, <1>5 DEF KeepsPhis
<1>7. \A b \in Block : b # Top.bb => code'[b] = code[b]
  BY <1>1, <1>2
<1> QED BY <1>4, <1>6, <1>7

\* The end of a call.
LEMMA EndReNameKeeps ==
  ASSUME StackInv, EndReName
  PROVE  StackInv'
<1>1. /\ ProgOK /\ ReNameOK /\ PcOK /\ pc = "re_name" /\ calls # << >> /\ Top.at \in End + 2 .. End + 2
      /\ var_val_stack' = [v \in Var |-> SubSeq(var_val_stack[v], 1, Len(var_val_stack[v]) - Pushed(Top.bb, v))]
      /\ calls' = Front(calls) /\ UNCHANGED <<prog, dominators_, pc, known>>
  BY DEF StackInv, EndReName, EndReNameWith, Naming
<1>2. CodeOK(code) /\ CallsOK(prog.succ, code, calls) /\ StacksOK /\ code \in [Block -> Seq(Instr)]
  BY <1>1 DEF ReNameOK, CodeOK
<1>3. Top.at = Len(code[Top.bb]) + 2 /\ Top.bb \in Block /\ calls \in Seq(CallRecord)
  <2>1. Top.at \in Nat /\ End \in Nat /\ End = Len(code[Top.bb])
    BY <1>1, TopFacts
  <2> QED BY <1>1, <2>1, TopFacts
<1> DEFINE places == [b \in Block |-> IF b = Top.bb THEN DOMAIN code[b] \ Top.wait_delete ELSE DOMAIN code[b]]
<1>4. code' = LeftOf(code, places) /\ KeepsPhis(code, places) /\ \A b \in Block : b # Top.bb => code'[b] = code[b]
  BY <1>1, EndReNameLeaves
<1> HIDE DEF places
<1>5. CodeOK(code')
  BY <1>2, <1>4, LeftOK
<1>6. /\ CallsOK(prog.succ, code', calls') /\ Len(calls') = Len(calls) - 1
      /\ \A k \in 1 .. Len(calls) - 1 : calls'[k] = calls[k] /\ calls[k].bb # Top.bb
  BY <1>1, <1>2, <1>4, PopCall DEF Top
<1>7. ASSUME NEW v \in Var
      PROVE  /\ var_val_stack'[v] \in Seq(Value) /\ Len(var_val_stack'[v]) = Depth(code', calls', v)
             /\ Depth(code', calls', v) > 0 => v \in known'
  <2> DEFINE p == Pushed(Top.bb, v)
             st == var_val_stack[v]
             n == Len(st) - p
  <2>1. p = Cardinality(Values(code[Top.bb], v))
    BY DEF Pushed, Values
  <2>2. st \in Seq(Value) /\ Len(st) = Depth(code, calls, v) /\ (Depth(code, calls, v) > 0 => v \in known)
    BY <1>2 DEF StacksOK
  <2>3. /\ p \in 0 .. Depth(code, calls, v)
        /\ Depth(code', calls', v) = Depth(code, calls, v) - p
    <3>1. calls # << >> /\ CallsOK(prog.succ, code, calls) /\ code \in [Block -> Seq(Instr)]
      BY <1>1, <1>2
    <3>2. Top.bb = calls[Len(calls)].bb /\ calls[Len(calls)].at = Len(code[Top.bb]) + 2
      BY <1>3 DEF Top
    <3>3. Ending(code, calls, Top.bb, code')
      BY <3>1, <3>2, <1>4 DEF Ending
    <3>4. /\ Cardinality(Values(code[Top.bb], v)) \in 0 .. Depth(code, calls, v)
          /\ Depth(code', Front(calls), v) = Depth(code, calls, v) - Cardinality(Values(code[Top.bb], v))
      BY <3>1, <3>3, DepthPopped
    <3> QED BY <1>1, <2>1, <3>4
  <2>4. Depth(code, calls, v) \in Nat
    BY <1>2, <1>3, GiftsFinite
  <2> HIDE DEF p
  <2>5. n \in 0 .. Len(st) /\ n = Depth(code', calls', v) /\ Len(st) \in Nat
    BY <2>2, <2>3, <2>4
  <2>6. \A i \in 1 .. n : st[i] \in Value
    <3>1. \A i \in 1 .. n : i \in 1 .. Len(st)
      <4> HIDE DEF n, st
      <4> QED BY <2>5
    <3> QED BY <2>2, <3>1
  <2>7. var_val_stack'[v] = SubSeq(st, 1, n)
    BY <1>1 DEF p
  <2> HIDE DEF st, n
  <2>8. /\ SubSeq(st, 1, n) \in Seq(Value)
        /\ Len(SubSeq(st, 1, n)) = IF 1 <= n THEN n - 1 + 1 ELSE 0
    BY <2>5, <2>6, SubSeqProperties
  <2>9. Len(SubSeq(st, 1, n)) = n
    BY <2>5, <2>8
  <2>10. n > 0 => v \in known
    BY <2>2, <2>4, <2>5
  <2> QED BY <1>1, <2>5, <2>7, <2>8, <2>9, <2>10
<1>8. StacksOK'
  <2>1. var_val_stack' \in [Var -> Seq(Value)]
    <3>1. var_val_stack' = [v \in Var |-> var_val_stack'[v]]
      BY <1>1
    <3> QED BY <3>1, <1>7
  <2>2. known' \in SUBSET Var
    BY <1>1, <1>2 DEF StacksOK
  <2> QED BY <1>7, <2>1, <2>2 DEF StacksOK
<1>9. Initialised' = Initialised
  BY <1>1 DEF Initialised
<1>10. Initialised /\ calls' # << >> => StoredFirst(code')
  <2> SUFFICES ASSUME Initialised, calls' # << >> PROVE StoredFirst(code')
    OBVIOUS
  <2>1. StoredFirst(code) /\ calls[1].bb = Entry
    BY <1>1, <1>2 DEF ReNameOK, CallsOK
  <2>2. 1 \in 1 .. Len(calls) - 1
    <3>1. calls' \in Seq(CallRecord) /\ Len(calls) \in Nat
      BY <1>2, <1>6 DEF CallsOK
    <3>2. Len(calls') # 0 /\ Len(calls') \in Nat
      BY <2>1, <3>1
    <3> QED BY <1>6, <3>1, <3>2
  <2>3. Entry # Top.bb /\ Entry \in Block
    BY <1>6, <2>1, <2>2, BlockAssumption
  <2>4. code'[Entry] = code[Entry]
    BY <1>4, <2>3
  <2> QED BY <2>1, <2>4 DEF StoredFirst
<1>11. ReNameOK'
  BY <1>1, <1>5, <1>6, <1>8, <1>9, <1>10 DEF ReNameOK
<1> QED BY <1>1, <1>9, <1>11 DEF StackInv, ProgOK, PlacingOK, PcOK

\* The next variable.
LEMMA NextVarKeeps ==
  ASSUME StackInv, NextVar
  PROVE  StackInv'
<1>1. /\ ProgOK /\ PlacingOK /\ PcOK /\ pc = "generate_phi"
      /\ UNCHANGED <<prog, dominators_, code, pc, var_val_stack, known, calls>>
  BY DEF StackInv, NextVar
<1>2. PICK v \in todo : var' = v /\ todo' = todo \ {v} /\ work_list' = {b \in Block : Stores(code, b, v)}
  BY DEF NextVar
<1>3. todo \in SUBSET Var
  BY <1>1 DEF PlacingOK
<1>4. work_list' \in SUBSET Block
  BY <1>2
<1>5. \A b \in Block : Placed(b)'
  BY <1>1 DEF PlacingOK, Placed
<1>6. PlacingOK'
  BY <1>1, <1>2, <1>3, <1>4, <1>5 DEF PlacingOK
<1> QED BY <1>1, <1>6 DEF StackInv, ProgOK, ReNameOK, PcOK, Initialised

\* A block of the work list: a phi is put where none for the variable is.
LEMMA GeneratePhiKeeps ==
  ASSUME StackInv, GeneratePhi
  PROVE  StackInv'
<1>1. /\ ProgOK /\ PlacingOK /\ PcOK /\ pc = "generate_phi"
      /\ UNCHANGED <<prog, dominators_, pc, todo, var, var_val_stack, known, calls>>
  BY DEF StackInv, GeneratePhi, PlacePhisAt
<1>2. PICK bb \in work_list : /\ work_list' = (work_list \ {bb}) \cup MissingPhis(bb)
                              /\ PlacePhisAt(bb, MissingPhis(bb))
  BY DEF GeneratePhi
<1> DEFINE wanted == MissingPhis(bb)
<1>3. code' = [b \in Block |-> IF b \in wanted THEN <<EmptyPhi(b, var)>> \o code[b] ELSE code[b]]
  BY <1>2 DEF PlacePhisAt
<1>4. bb \in Block /\ var \in Var /\ work_list \in SUBSET Block /\ code \in [Block -> Seq(Instr)]
      /\ \A b \in Block : Placed(b)
  BY <1>1, <1>2 DEF PlacingOK
<1>5. wanted \in SUBSET Block /\ \A b \in wanted : ~HasPhi(code, b, var)
  <2>1. dominators_.frontier[bb] = FrontierOf(prog.succ, Doms(prog.succ), bb)
    BY <1>1, <1>4 DEF ProgOK, DominatorsOf
  <2>2. dominators_.frontier[bb] \in SUBSET Block
    <3>1. prog.succ[bb] \in SUBSET Block /\ Reached(prog.succ) \in SUBSET Block
      BY <1>1, <1>4, ProgFacts
    <3> QED BY <2>1, <3>1 DEF FrontierOf, Frontier
  <2> QED BY <2>2 DEF MissingPhis
<1> HIDE DEF wanted
<1>6. ASSUME NEW b \in Block
      PROVE  \E vs \in Seq(Var) : /\ IsInjective(vs)
                                  /\ code'[b] = Phis(b, vs) \o prog.code[b]
  <2>1. PICK vs \in Seq(Var) : IsInjective(vs) /\ code[b] = Phis(b, vs) \o prog.code[b]
    BY <1>4 DEF Placed, Phis
  <2>2. prog.code[b] \in Seq(Instr)
    BY <1>1, ProgFacts
  <2>3. CASE b \notin wanted
    BY <1>3, <2>1, <2>3
  <2>4. CASE b \in wanted
    <3> DEFINE ws == <<var>> \o vs
    <3>1. ws \in Seq(Var) /\ Len(ws) = Len(vs) + 1 /\ Len(vs) \in Nat /\ ws[1] = var
          /\ \A k \in 1 .. Len(vs) : ws[k + 1] = vs[k]
      <4>1. <<var>> \in Seq(Var) /\ Len(<<var>>) = 1 /\ <<var>>[1] = var
        BY <1>4
      <4> QED BY <4>1
    <3>2. code'[b] = Phis(b, ws) \o prog.code[b]
      <4>1. code'[b] = <<EmptyPhi(b, var)>> \o (Phis(b, vs) \o prog.code[b])
        BY <1>3, <2>1, <2>4
      <4> QED BY <4>1, <1>4, <2>2, PhisCons
    <3>3. \A k \in 1 .. Len(vs) : vs[k] # var
      <4> SUFFICES ASSUME NEW k \in 1 .. Len(vs), vs[k] = var PROVE FALSE
        OBVIOUS
      <4>1. /\ Len(code[b]) = Len(vs) + Len(prog.code[b]) /\ code[b] \in Seq(Instr)
            /\ k <= Len(vs) => code[b][k] = EmptyPhi(b, vs[k])
        <5>1. k \in 1 .. Len(vs) + Len(prog.code[b])
          <6>1. Len(prog.code[b]) \in Nat
            BY <2>2
          <6> QED BY <3>1, <6>1
        <5> QED BY <2>1, <2>2, <5>1, PhisBefore
      <4>2. Len(prog.code[b]) \in Nat /\ k \in Nat /\ k <= Len(vs)
        BY <2>2
      <4>3. k \in DOMAIN code[b]
        BY <3>1, <4>1, <4>2
      <4>4. code[b][k].op = "phi" /\ code[b][k].var = var
        BY <1>4, <4>1, <4>2, EmptyPhiFields
      <4> QED BY <4>3, <4>4, <2>4, <1>5 DEF HasPhi
    <3> HIDE DEF ws
    <3>4. IsInjective(ws)
      <4> SUFFICES ASSUME NEW i \in 1 .. Len(vs) + 1, NEW j \in 1 .. Len(vs) + 1, ws[i] = ws[j] PROVE i = j
        <5>1. DOMAIN ws = 1 .. Len(vs) + 1
          BY <3>1
        <5> QED BY <5>1 DEF IsInjective
      <4>1. ASSUME NEW k \in 1 .. Len(vs) + 1, k # 1
            PROVE  k - 1 \in 1 .. Len(vs) /\ ws[k] = vs[k - 1] /\ ws[k] # var
        <5>1. k - 1 \in 1 .. Len(vs) /\ k - 1 + 1 = k
          BY <3>1, <4>1
        <5> QED BY <5>1, <3>1, <3>3
      <4>2. CASE i = 1 \/ j = 1
        BY <4>1, <4>2, <3>1
      <4>3. CASE i # 1 /\ j # 1
        <5>1. vs[i - 1] = vs[j - 1] /\ i - 1 \in DOMAIN vs /\ j - 1 \in DOMAIN vs
          BY <4>1, <4>3
        <5>2. i - 1 = j - 1
          BY <5>1, <2>1 DEF IsInjective
        <5> QED BY <5>2, <3>1
      <4> QED BY <4>2, <4>3
    <3> QED BY <3>1, <3>2, <3>4
  <2> QED BY <2>3, <2>4
<1>7. \A b \in Block : Placed(b)'
  BY <1>1, <1>6 DEF Placed, Phis
<1>8. code' \in [Block -> Seq(Instr)]
  <2>1. \A b \in Block : code'[b] \in Seq(Instr)
    <3> TAKE b \in Block
    <3>1. PICK vs \in Seq(Var) : code'[b] = Phis(b, vs) \o prog.code[b]
      BY <1>6
    <3>2. prog.code[b] \in Seq(Instr)
      BY <1>1, ProgFacts
    <3> QED BY <3>1, <3>2, PhisBefore
  <2>2. code' = [b \in Block |-> code'[b]]
    BY <1>3
  <2> QED BY <2>1, <2>2
<1>9. work_list' \in SUBSET Block
  BY <1>2, <1>4, <1>5 DEF wanted
<1>10. PlacingOK'
  BY <1>1, <1>4, <1>7, <1>8, <1>9 DEF PlacingOK
<1> QED BY <1>1, <1>10 DEF StackInv, ProgOK, ReNameOK, PcOK, Initialised

\* The invariant of the pass.
LEMMA StackInvInit == Init => StackInv
<1> SUFFICES ASSUME Init PROVE StackInv
  OBVIOUS
<1>1. ProgOK
  BY DEF Init, ProgOK
<1>2. code = prog.code /\ prog.code \in [Block -> Seq(Instr)]
  BY <1>1, ProgFacts DEF Init
<1>3. ASSUME NEW b \in Block PROVE Placed(b)
  <2> DEFINE vs == << >>
             phis == [k \in DOMAIN vs |-> EmptyPhi(b, vs[k])]
  <2>1. vs \in Seq(Var) /\ IsInjective(vs)
    BY DEF IsInjective
  <2>2. phis = << >>
    OBVIOUS
  <2>3. << >> \o prog.code[b] = prog.code[b]
    BY <1>2, ConcatEmptySeq
  <2> HIDE DEF phis
  <2>4. code[b] = phis \o prog.code[b]
    BY <1>2, <2>2, <2>3
  <2> HIDE DEF vs
  <2> QED BY <2>1, <2>4 DEF Placed, phis
<1>4. PlacingOK
  BY <1>2, <1>3 DEF PlacingOK, Init
<1>5. ReNameOK /\ PcOK
  BY DEF Init, ReNameOK, PcOK
<1> QED BY <1>1, <1>4, <1>5 DEF StackInv

\* Every step keeps it.
LEMMA StackInvStep == StackInv /\ [Next]_vars => StackInv'
<1> SUFFICES ASSUME StackInv, [Next]_vars PROVE StackInv'
  OBVIOUS
<1>1. CASE NextVar
  BY <1>1, NextVarKeeps
<1>2. CASE GeneratePhi
  BY <1>2, GeneratePhiKeeps
<1>3. CASE StartReName
  BY <1>3, StartReNameKeeps
<1>4. CASE ReNameLoad
  BY <1>4, ReNameLoadKeeps
<1>5. CASE ReNameLoadOfNothing
  BY <1>5, ReNameLoadOfNothingKeeps
<1>6. CASE ReNameStore
  BY <1>6, ReNameStoreKeeps
<1>7. CASE ReNameOther
  BY <1>7, ReNameOtherKeeps
<1>8. CASE FillSuccessors
  BY <1>8, FillSuccessorsKeeps
<1>9. CASE ReNameChild
  BY <1>9, ReNameChildKeeps
<1>10. CASE EndReName
  BY <1>10, EndReNameKeeps
<1>11. CASE RemoveAlloca
  BY <1>11 DEF RemoveAlloca, StackInv, ProgOK, PlacingOK, ReNameOK, PcOK, Initialised
<1>12. CASE RunBlock
  <2>1. pc = "run" /\ pc' \in {"run", "end"} /\ UNCHANGED <<prog, dominators_>>
    BY <1>12 DEF RunBlock
  <2> QED BY <2>1 DEF StackInv, ProgOK, PlacingOK, ReNameOK, PcOK, Initialised
<1>13. CASE UNCHANGED vars
  <2>1. UNCHANGED <<prog, dominators_, code, pc, todo, var, work_list, var_val_stack, known, calls>>
    BY <1>13 DEF vars
  <2>2. ProgOK' /\ PcOK' /\ Initialised' = Initialised
    BY <2>1 DEF StackInv, ProgOK, PcOK, Initialised
  <2>3. PlacingOK'
    BY <2>1 DEF StackInv, PlacingOK, Placed
  <2>4. ReNameOK'
    BY <2>1, <2>2 DEF StackInv, ReNameOK, StacksOK
  <2> QED BY <2>2, <2>3, <2>4 DEF StackInv
<1> QED BY <1>1, <1>2, <1>3, <1>4, <1>5, <1>6, <1>7, <1>8, <1>9, <1>10, <1>11, <1>12, <1>13 DEF Next

\* The invariant of the pass holds in every state: the phases follow each other
\* as in run(), the calls of re_name go down the dominator tree, and every
\* stack is as deep as the calls in progress made it.
THEOREM StackInvariant == Spec => []StackInv
BY StackInvInit, StackInvStep, PTL DEF Spec

\* The stack of a variable holds what the blocks of the calls in progress gave
\* it: a call of re_name leaves var_val_stack as it found it.
THEOREM StacksMatchCalls == Spec => []StacksFollowCalls
<1>1. StackInv => StacksFollowCalls
  <2> SUFFICES ASSUME StackInv, pc = "re_name", NEW v \in Var
               PROVE  Len(var_val_stack[v])
                      = Cardinality(UNION {{k} \X Gave(calls[k].bb, calls[k].at, v) : k \in DOMAIN calls})
    BY DEF StacksFollowCalls
  <2>1. calls \in Seq(CallRecord) /\ Len(var_val_stack[v]) = Depth(code, calls, v)
    BY DEF StackInv, ReNameOK, StacksOK, CallsOK
  <2>2. DOMAIN calls = 1 .. Len(calls)
    BY <2>1
  <2>3. \A k \in 1 .. Len(calls) : Gifts(code, calls, v)[k] = Gave(calls[k].bb, calls[k].at, v)
    BY DEF Gifts, GaveIn, Gave
  <2>4. Tagged(Gifts(code, calls, v), Len(calls))
        = UNION {{k} \X Gave(calls[k].bb, calls[k].at, v) : k \in DOMAIN calls}
    BY <2>2, <2>3 DEF Tagged
  <2> QED BY <2>1, <2>4 DEF Depth
<1> QED BY <1>1, StackInvariant, PTL

\* A function that gives every variable a value before it is loaded is renamed
\* to the end: neither the assertion fails nor is back() of an empty vector taken.
THEOREM NoStackIsEmpty == Spec => []InitialisedRunsThrough
<1>1. StackInv => InitialisedRunsThrough
  BY DEF StackInv, PcOK, InitialisedRunsThrough
<1> QED BY <1>1, StackInvariant, PTL

-----------------------------------------------------------------------------
(* The invariant, continued: what re_name has done with phis and operands. *)

\* In the graph s: block p is below a child that a call still has to visit;
Pending(s, cs, p) == \E k \in 1 .. Len(cs) : \E x \in cs[k].children : Dominates(s, x, p)
\* instruction j of block p is still to be handled;
Ahead(s, cs, p, j) == Pending(s, cs, p) \/ \E k \in 1 .. Len(cs) : cs[k].bb = p /\ cs[k].at <= j
\* the blocks that have given the phis of their successors a pair.
Served(s, c, cs) == {p \in Reached(s) : ~Ahead(s, cs, p, Len(c[p]) + 1)}

\* Each call but the first is for a child of the block of the one before it.
TreeOK(s, cs) ==
  \A k \in 1 .. Len(cs) - 1 : /\ Child(s, cs[k].bb, cs[k + 1].bb)
                              /\ cs[k + 1].bb \notin cs[k].children

\* The phi x has one pair for each of the blocks, in some order.
PairsFor(x, blocks) ==
  /\ IsInjective([k \in DOMAIN x.pairs |-> x.pairs[k][2]])
  /\ {x.pairs[k][2] : k \in DOMAIN x.pairs} = blocks
PhisServed(s, c, cs) ==
  \A d \in Reached(s) : \A i \in DOMAIN c[d] :
    c[d][i].op = "phi" => PairsFor(c[d][i], {p \in Served(s, c, cs) : d \in s[p]})

\* x is a constant, or a phi of a block that dominates b.
Good(s, c, x, b) ==
  \/ x[1] = "const"
  \/ \E d \in Block, v \in Var : x = PhiName(d, v) /\ HasPhi(c, d, v) /\ Dominates(s, d, b)

\* x is a load that comes before instruction i of block b on every path, and
\* that is still to be handled.
LoadAhead(s, c, cs, x, b, i) ==
  \E d \in Block : \E j \in DOMAIN c[d] :
    /\ c[d][j].op = "load" /\ c[d][j].id = x
    /\ Dominates(s, d, b) /\ (d = b => j < i)
    /\ Ahead(s, cs, d, j)

OperandsOK(s, c, cs) ==
  \A b \in Reached(s) : \A i \in DOMAIN c[b] :
    c[b][i].op \in {"store", "output"} =>
      Good(s, c, c[b][i].arg, b) \/ LoadAhead(s, c, cs, c[b][i].arg, b, i)

PairsGood(s, c) ==
  \A d \in Reached(s) : \A i \in DOMAIN c[d] :
    c[d][i].op = "phi" => \A k \in DOMAIN c[d][i].pairs : Good(s, c, c[d][i].pairs[k][1], c[d][i].pairs[k][2])

\* What the calls up to the k-th gave is good in the k-th block.
DepthTo(c, cs, v, k) == Cardinality(Tagged(Gifts(c, cs, v), k))
StacksGood(s, c, cs, st) ==
  \A v \in Var : \A k \in 1 .. Len(cs) : \A m \in 1 .. DepthTo(c, cs, v, k) : Good(s, c, st[v][m], cs[k].bb)

\* Every load and store a call has passed is to be deleted, and from the blocks
\* that are done they are.
DeletesOK(s, c, cs) ==
  /\ \A k \in 1 .. Len(cs) : \A i \in DOMAIN c[cs[k].bb] :
       i < cs[k].at /\ c[cs[k].bb][i].op \in {"load", "store"} => i \in cs[k].wait_delete
  /\ \A p \in Reached(s) :
       ~Pending(s, cs, p) /\ (\A k \in 1 .. Len(cs) : cs[k].bb # p) =>
         \A i \in DOMAIN c[p] : c[p][i].op \notin {"load", "store"}

Named(s, c, cs, st) ==
  /\ PhisServed(s, c, cs) /\ PairsGood(s, c)
  /\ OperandsOK(s, c, cs) /\ StacksGood(s, c, cs, st) /\ DeletesOK(s, c, cs)
NamingOK ==
  pc = "re_name" =>
    /\ TreeOK(prog.succ, calls)
    /\ Initialised => Named(prog.succ, code, calls, var_val_stack)

\* The function after the pass.
Finished(s, c) ==
  \A b \in Reached(s) : \A i \in DOMAIN c[b] :
    /\ c[b][i].op \in {"output", "phi"}
    /\ c[b][i].op = "output" => Good(s, c, c[b][i].arg, b)
    /\ c[b][i].op = "phi" =>
         /\ PairsFor(c[b][i], {p \in Block : b \in s[p]})
         /\ \A k \in DOMAIN c[b][i].pairs : Good(s, c, c[b][i].pairs[k][1], c[b][i].pairs[k][2])
DoneOK ==
  pc \in {"run", "end"} => CodeOK(code) /\ (Initialised => Finished(prog.succ, code))

SSAInv == StackInv /\ NamingOK /\ DoneOK

-----------------------------------------------------------------------------
(* What is still to be handled, from step to step.                         *)

\* The calls by themselves.
LEMMA CallsFacts ==
  ASSUME NEW s, NEW c, NEW cs, CallsOK(s, c, cs)
  PROVE  /\ cs \in Seq(CallRecord) /\ Len(cs) \in Nat /\ DOMAIN cs = 1 .. Len(cs)
         /\ cs # << >> => Len(cs) \in 1 .. Len(cs)
         /\ \A k \in 1 .. Len(cs) :
              /\ cs[k] \in CallRecord /\ cs[k].bb \in Block /\ cs[k].bb \in Reached(s)
              /\ cs[k].at \in Nat /\ cs[k].at > 0
              /\ cs[k].children \in SUBSET Block /\ \A x \in cs[k].children : Child(s, cs[k].bb, x)
              /\ k < Len(cs) => cs[k].at = Len(c[cs[k].bb]) + 2
         /\ \A k \in 1 .. Len(cs) : \A j \in 1 .. k - 1 :
              cs[j].bb # cs[k].bb /\ Dominates(s, cs[j].bb, cs[k].bb)
<1>1. cs \in Seq(CallRecord)
  BY DEF CallsOK
<1>2. Len(cs) \in Nat /\ DOMAIN cs = 1 .. Len(cs) /\ (cs # << >> => Len(cs) \in 1 .. Len(cs))
  BY <1>1
<1>3. ASSUME NEW k \in 1 .. Len(cs)
      PROVE  /\ cs[k] \in CallRecord /\ cs[k].bb \in Block /\ cs[k].bb \in Reached(s)
             /\ cs[k].at \in Nat /\ cs[k].at > 0
             /\ cs[k].children \in SUBSET Block /\ \A x \in cs[k].children : Child(s, cs[k].bb, x)
             /\ k < Len(cs) => cs[k].at = Len(c[cs[k].bb]) + 2
             /\ \A j \in 1 .. k - 1 : cs[j].bb # cs[k].bb /\ Dominates(s, cs[j].bb, cs[k].bb)
  <2>1. cs[k] \in CallRecord /\ CallOK(s, c, cs, k)
    BY <1>1, <1>3 DEF CallsOK
  <2>2. cs[k].bb \in Block /\ cs[k].at \in Nat /\ cs[k].children \in SUBSET Block
    BY <2>1 DEF CallRecord
  <2>3. cs[k].at \in 1 .. Len(c[cs[k].bb]) + 2
    BY <2>1 DEF CallOK
  <2>4. cs[k].at > 0
    BY <2>2, <2>3
  <2> QED BY <2>1, <2>2, <2>4 DEF CallOK
<1> QED BY <1>1, <1>2, <1>3

\* Nothing above the last call's block is still to be visited.
LEMMA NotPendingAbove ==
  ASSUME NEW s \in [Block -> SUBSET Block], NEW c, NEW cs, CallsOK(s, c, cs), TreeOK(s, cs), cs # << >>,
         NEW d \in Block, Dominates(s, d, cs[Len(cs)].bb)
  PROVE  ~Pending(s, cs, d)
<1> DEFINE n == Len(cs)
           b == cs[n].bb
<1> SUFFICES ASSUME NEW k \in 1 .. n, NEW x \in cs[k].children, Dominates(s, x, d) PROVE FALSE
  BY DEF Pending
<1>1. n \in Nat /\ n \in 1 .. n /\ k \in 1 .. n /\ b \in Block /\ b \in Reached(s)
  BY CallsFacts
<1>2. cs[k].bb \in Block /\ x \in Block /\ Child(s, cs[k].bb, x)
  BY CallsFacts
<1>3. Dominates(s, x, b)
  BY <1>1, <1>2, DominatesTransitive
<1>4. CASE k = n
  <2>1. Dominates(s, b, x) /\ b # x
    BY <1>2, <1>4 DEF Child
  <2> QED BY <1>1, <1>2, <1>3, <2>1, DominatesAntisymmetric
<1>5. CASE k # n
  <2>1. k + 1 \in 1 .. n /\ k \in 1 .. n - 1
    BY <1>1, <1>5
  <2> DEFINE y == cs[k + 1].bb
  <2>2. y \in Block /\ Child(s, cs[k].bb, y) /\ y \notin cs[k].children
    BY <2>1, CallsFacts DEF TreeOK
  <2>3. Dominates(s, y, b)
    <3>1. CASE k + 1 = n
      BY <3>1, <1>1, DominatesItself
    <3>2. CASE k + 1 # n
      <4>1. k + 1 \in 1 .. n - 1
        BY <3>2, <2>1
      <4> QED BY <4>1, <1>1, CallsFacts
    <3> QED BY <3>1, <3>2
  <2>4. x = y
    BY <1>2, <1>3, <2>2, <2>3, ChildUnique
  <2> QED BY <2>2, <2>4
<1> QED BY <1>4, <1>5

\* The last call goes on by one.
Advances(cs, ds, x) ==
  /\ cs # << >> /\ TopIs(cs, ds, x)
  /\ x.bb = cs[Len(cs)].bb /\ x.at = cs[Len(cs)].at + 1 /\ x.children = cs[Len(cs)].children

\* Then one instruction is handled, and nothing else.
LEMMA AheadAdvances ==
  ASSUME NEW s \in [Block -> SUBSET Block], NEW c, NEW cs, CallsOK(s, c, cs), TreeOK(s, cs),
         NEW ds, NEW x, Advances(cs, ds, x)
  PROVE  /\ TreeOK(s, ds)
         /\ \A p : Pending(s, ds, p) <=> Pending(s, cs, p)
         /\ \A p \in Block : \A j \in Nat :
              Ahead(s, ds, p, j) <=> Ahead(s, cs, p, j) /\ ~(p = cs[Len(cs)].bb /\ j = cs[Len(cs)].at)
<1> DEFINE n == Len(cs)
<1>1. n \in Nat /\ n \in 1 .. n /\ Len(ds) = n /\ ds[n] = x /\ \A k \in 1 .. n - 1 : ds[k] = cs[k]
  BY CallsFacts DEF Advances, TopIs
<1>2. x.bb = cs[n].bb /\ x.at = cs[n].at + 1 /\ x.children = cs[n].children
  BY DEF Advances
<1>3. ASSUME NEW k \in 1 .. n
      PROVE  /\ ds[k].bb = cs[k].bb /\ ds[k].children = cs[k].children
             /\ ds[k].at = IF k = n THEN cs[n].at + 1 ELSE cs[k].at
  <2>1. \A i \in 1 .. n : i = n \/ i \in 1 .. n - 1
    BY <1>1
  <2>2. CASE k = n
    BY <2>2, <1>1, <1>2
  <2>3. CASE k # n
    BY <2>1, <2>3, <1>1
  <2> QED BY <2>2, <2>3
<1>4. TreeOK(s, ds)
  <2>1. \A k \in 1 .. n - 1 : k \in 1 .. n /\ k + 1 \in 1 .. n
    BY <1>1
  <2> QED BY <2>1, <1>1, <1>3 DEF TreeOK
<1>5. \A p : Pending(s, ds, p) <=> Pending(s, cs, p)
  BY <1>1, <1>3 DEF Pending
<1>6. ASSUME NEW p \in Block, NEW j \in Nat
      PROVE  Ahead(s, ds, p, j) <=> Ahead(s, cs, p, j) /\ ~(p = cs[n].bb /\ j = cs[n].at)
  <2>1. \A k \in 1 .. n : cs[k].at \in Nat /\ cs[k].bb \in Block /\ cs[k].bb \in Reached(s)
    BY CallsFacts
  <2>2. CASE p = cs[n].bb
    <3>1. ~Pending(s, cs, p)
      BY <2>1, <2>2, <1>1, DominatesItself, NotPendingAbove DEF Advances
    <3>2. \A k \in 1 .. n : cs[k].bb = p => k = n
      <4> SUFFICES ASSUME NEW k \in 1 .. n, cs[k].bb = p, k # n PROVE FALSE
        OBVIOUS
      <4>1. k \in 1 .. n - 1
        BY <1>1
      <4>2. cs[k].bb # cs[n].bb
        BY <4>1, <1>1, CallsFacts
      <4> QED BY <4>2, <2>2
    <3>3. Ahead(s, cs, p, j) <=> cs[n].at <= j
      BY <3>1, <3>2, <2>2, <1>1 DEF Ahead
    <3>4. Ahead(s, ds, p, j) <=> cs[n].at + 1 <= j
      BY <3>1, <3>2, <2>2, <1>1, <1>3, <1>5 DEF Ahead
    <3>5. cs[n].at + 1 <= j <=> cs[n].at <= j /\ j # cs[n].at
      <4>1. cs[n].at \in Nat
        BY <1>1, <2>1
      <4> HIDE DEF n
      <4> QED BY <4>1
    <3> QED BY <3>3, <3>4, <3>5, <2>2
  <2>3. CASE p # cs[n].bb
    <3>1. \A k \in 1 .. n : ds[k].bb = p /\ ds[k].at <= j <=> cs[k].bb = p /\ cs[k].at <= j
      BY <1>3, <2>3
    <3> QED BY <3>1, <2>3, <1>1, <1>5 DEF Ahead
  <2> QED BY <2>2, <2>3
<1> QED BY <1>4, <1>5, <1>6

\* The last call goes on to the child b: a call for it begins.
Enters(s, cs, ds, b) ==
  /\ cs # << >> /\ b \in cs[Len(cs)].children
  /\ \E below, x, y :
       /\ TopIs(cs, below, y) /\ y.bb = cs[Len(cs)].bb /\ y.at = cs[Len(cs)].at
       /\ y.children = cs[Len(cs)].children \ {b}
       /\ x \in CallRecord /\ x.bb = b /\ x.at = 1 /\ x.children = {z \in Block : Child(s, b, z)}
       /\ ds = Append(below, x)

\* Then nothing is handled.
LEMMA AheadEnters ==
  ASSUME NEW s \in [Block -> SUBSET Block], NEW c, NEW cs, CallsOK(s, c, cs), TreeOK(s, cs),
         NEW ds, NEW b, Enters(s, cs, ds, b)
  PROVE  /\ TreeOK(s, ds)
         /\ \A p \in Block : Pending(s, cs, p) <=> Pending(s, ds, p) \/ p = b
         /\ \A p \in Block : \A j \in Nat \ {0} : Ahead(s, ds, p, j) <=> Ahead(s, cs, p, j)
<1> DEFINE n == Len(cs)
<1>1. n \in Nat \ {0} /\ n \in 1 .. n
  BY CallsFacts DEF Enters
<1>2. PICK below, x, y :
        /\ TopIs(cs, below, y) /\ y.bb = cs[n].bb /\ y.at = cs[n].at /\ y.children = cs[n].children \ {b}
        /\ x \in CallRecord /\ x.bb = b /\ x.at = 1 /\ x.children = {z \in Block : Child(s, b, z)}
        /\ ds = Append(below, x)
  BY DEF Enters
<1>3. /\ b \in cs[n].children /\ b \in Block /\ Child(s, cs[n].bb, b) /\ b \in Reached(s)
      /\ cs[n].bb \in Block /\ Dominates(s, b, b)
  <2>1. b \in cs[n].children
    BY DEF Enters
  <2>2. b \in Block /\ Child(s, cs[n].bb, b) /\ cs[n].bb \in Block
    BY <1>1, <2>1, CallsFacts
  <2>3. b \in Reached(s)
    BY <2>2, DominatorReached DEF Child
  <2> QED BY <2>1, <2>2, <2>3, DominatesItself
<1>4. below \in Seq(CallRecord) /\ Len(below) = n /\ below[n] = y /\ \A k \in 1 .. n - 1 : below[k] = cs[k]
  BY <1>2 DEF TopIs
<1>5. Len(ds) = n + 1 /\ ds[n + 1] = x /\ \A k \in 1 .. n : ds[k] = below[k]
  BY <1>1, <1>2, <1>4
<1> HIDE DEF n
<1>6. ASSUME NEW k \in 1 .. n
      PROVE  /\ ds[k].bb = cs[k].bb /\ ds[k].at = cs[k].at
             /\ ds[k].children = IF k = n THEN cs[n].children \ {b} ELSE cs[k].children
  <2>1. \A i \in 1 .. n : i = n \/ i \in 1 .. n - 1
    BY <1>1
  <2>2. CASE k = n
    BY <2>2, <1>1, <1>2, <1>4, <1>5
  <2>3. CASE k # n
    BY <2>1, <2>3, <1>4, <1>5
  <2> QED BY <2>2, <2>3
<1>7. \A k \in 1 .. n + 1 : k \in 1 .. n \/ k = n + 1
  BY <1>1
<1>8. 1 .. n \subseteq 1 .. n + 1 /\ n + 1 \in 1 .. n + 1 /\ n + 1 - 1 = n
  BY <1>1
<1>9. TreeOK(s, ds)
  <2> SUFFICES ASSUME NEW k \in 1 .. n
               PROVE  Child(s, ds[k].bb, ds[k + 1].bb) /\ ds[k + 1].bb \notin ds[k].children
    <3>1. Len(ds) - 1 = n
      BY <1>1, <1>5
    <3> QED BY <3>1 DEF TreeOK
  <2>1. CASE k = n
    BY <2>1, <1>2, <1>3, <1>5, <1>6
  <2>2. CASE k # n
    <3>1. k \in 1 .. n - 1 /\ k + 1 \in 1 .. n
      BY <2>2, <1>1
    <3>2. Child(s, cs[k].bb, cs[k + 1].bb) /\ cs[k + 1].bb \notin cs[k].children
      BY <3>1 DEF TreeOK, n
    <3> QED BY <3>1, <3>2, <2>2, <1>6
  <2> QED BY <2>1, <2>2
<1>10. ASSUME NEW p \in Block
       PROVE  Pending(s, cs, p) <=> Pending(s, ds, p) \/ p = b
  <2>1. ASSUME Pending(s, cs, p), p # b PROVE Pending(s, ds, p)
    <3>1. PICK k \in 1 .. n : \E z \in cs[k].children : Dominates(s, z, p)
      BY <2>1 DEF Pending, n
    <3>2. PICK z \in cs[k].children : Dominates(s, z, p)
      BY <3>1
    <3>3. CASE k = n /\ z = b
      <4>1. PICK w \in Block : Child(s, b, w) /\ Dominates(s, w, p)
        BY <2>1, <3>2, <3>3, <1>3, ChildExists
      <4>2. w \in ds[n + 1].children
        BY <4>1, <1>2, <1>5
      <4> QED BY <4>1, <4>2, <1>5, <1>8 DEF Pending
    <3>4. CASE ~(k = n /\ z = b)
      <4>1. z \in ds[k].children
        BY <3>4, <3>2, <1>6
      <4> QED BY <4>1, <3>2, <1>5, <1>8 DEF Pending
    <3> QED BY <3>3, <3>4
  <2>2. ASSUME Pending(s, ds, p) PROVE Pending(s, cs, p)
    <3>1. PICK k \in 1 .. n + 1 : \E z \in ds[k].children : Dominates(s, z, p)
      BY <2>2, <1>5 DEF Pending
    <3>2. PICK z \in ds[k].children : Dominates(s, z, p)
      BY <3>1
    <3>3. CASE k = n + 1
      <4>1. Child(s, b, z)
        BY <3>2, <3>3, <1>2, <1>5
      <4>2. Dominates(s, b, p)
        BY <4>1, <3>2, DominatesTransitive DEF Child
      <4> QED BY <4>2, <1>1, <1>3 DEF Pending, n
    <3>4. CASE k \in 1 .. n
      <4>1. z \in cs[k].children
        BY <3>2, <3>4, <1>6
      <4> QED BY <4>1, <3>2, <3>4 DEF Pending, n
    <3> QED BY <3>3, <3>4, <1>7
  <2>3. Pending(s, cs, b)
    BY <1>1, <1>3 DEF Pending, n
  <2> QED BY <2>1, <2>2, <2>3
<1>11. ASSUME NEW p \in Block, NEW j \in Nat \ {0}
       PROVE  Ahead(s, ds, p, j) <=> Ahead(s, cs, p, j)
  <2>1. (\E k \in 1 .. n + 1 : ds[k].bb = p /\ ds[k].at <= j)
        <=> (\E k \in 1 .. n : cs[k].bb = p /\ cs[k].at <= j) \/ p = b
    <3>1. 1 <= j
      OBVIOUS
    <3>2. ds[n + 1].bb = b /\ ds[n + 1].at <= j
      BY <3>1, <1>2, <1>5
    <3>3. \A k \in 1 .. n : ds[k].bb = cs[k].bb /\ ds[k].at = cs[k].at
      BY <1>6
    <3> QED BY <3>2, <3>3, <1>7, <1>8
  <2>2. Ahead(s, ds, p, j) <=> Pending(s, ds, p) \/ \E k \in 1 .. n + 1 : ds[k].bb = p /\ ds[k].at <= j
    BY <1>5 DEF Ahead
  <2>3. Ahead(s, cs, p, j) <=> Pending(s, cs, p) \/ \E k \in 1 .. n : cs[k].bb = p /\ cs[k].at <= j
    BY DEF Ahead, n
  <2> QED BY <2>1, <2>2, <2>3, <1>10
<1> QED BY <1>9, <1>10, <1>11

\* The last call, which has no child left, ends.
Ends(c, cs, ds) ==
  /\ cs # << >> /\ cs[Len(cs)].at = Len(c[cs[Len(cs)].bb]) + 2 /\ cs[Len(cs)].children = {}
  /\ Len(ds) = Len(cs) - 1 /\ \A k \in 1 .. Len(cs) - 1 : ds[k] = cs[k]

\* It had handled its block.
LEMMA AheadEnds ==
  ASSUME NEW s \in [Block -> SUBSET Block], NEW c, NEW cs, CallsOK(s, c, cs), TreeOK(s, cs),
         NEW ds, Ends(c, cs, ds)
  PROVE  /\ TreeOK(s, ds)
         /\ \A p : Pending(s, ds, p) <=> Pending(s, cs, p)
         /\ \A p \in Block : \A j \in Nat : p # cs[Len(cs)].bb => (Ahead(s, ds, p, j) <=> Ahead(s, cs, p, j))
         /\ \A j \in Nat : ~Ahead(s, ds, cs[Len(cs)].bb, j)
         /\ \A j \in Nat : j < cs[Len(cs)].at => ~Ahead(s, cs, cs[Len(cs)].bb, j)
<1> DEFINE n == Len(cs)
           b == cs[n].bb
<1>1. n \in Nat \ {0} /\ n \in 1 .. n /\ Len(ds) = n - 1 /\ \A k \in 1 .. n - 1 : ds[k] = cs[k]
  BY CallsFacts DEF Ends
<1>2. cs[n].children = {} /\ b \in Block /\ Dominates(s, b, b) /\ cs[n].at \in Nat
  BY <1>1, CallsFacts, DominatesItself DEF Ends
<1>3. \A k \in 1 .. n - 1 : cs[k].bb # b
  BY <1>1, CallsFacts
<1>4. ~Pending(s, cs, b)
  BY <1>2, NotPendingAbove DEF Ends
<1>5. TreeOK(s, ds)
  <2> SUFFICES ASSUME NEW k \in 1 .. n - 1 - 1
               PROVE  Child(s, ds[k].bb, ds[k + 1].bb) /\ ds[k + 1].bb \notin ds[k].children
    BY <1>1 DEF TreeOK
  <2>1. k \in 1 .. n - 1 /\ k + 1 \in 1 .. n - 1
    <3>1. n \in Nat \ {0}
      BY <1>1
    <3> HIDE DEF n
    <3> QED BY <3>1
  <2> QED BY <2>1, <1>1 DEF TreeOK
<1> HIDE DEF n
<1>6. \A k \in 1 .. n : k = n \/ k \in 1 .. n - 1
  BY <1>1
<1>7. \A p : Pending(s, ds, p) <=> Pending(s, cs, p)
  <2>1. 1 .. n - 1 \subseteq 1 .. n
    BY <1>1
  <2> QED BY <1>1, <1>2, <1>6, <2>1 DEF Pending, n
<1>8. ASSUME NEW p \in Block, NEW j \in Nat, p # b PROVE Ahead(s, ds, p, j) <=> Ahead(s, cs, p, j)
  <2>1. 1 .. n - 1 \subseteq 1 .. n
    BY <1>1
  <2>2. (\E k \in 1 .. n - 1 : ds[k].bb = p /\ ds[k].at <= j) <=> (\E k \in 1 .. n : cs[k].bb = p /\ cs[k].at <= j)
    BY <1>1, <1>6, <1>8, <2>1
  <2> QED BY <1>1, <1>7, <2>2 DEF Ahead, n
<1>9. ASSUME NEW j \in Nat PROVE ~Ahead(s, ds, b, j)
  BY <1>1, <1>3, <1>4, <1>7 DEF Ahead
<1>10. ASSUME NEW j \in Nat, j < cs[n].at PROVE ~Ahead(s, cs, b, j)
  <2>1. ~(cs[n].at <= j)
    BY <1>2, <1>10
  <2> QED BY <2>1, <1>3, <1>4, <1>6 DEF Ahead, n
<1> QED BY <1>5, <1>7, <1>8, <1>9, <1>10 DEF n

-----------------------------------------------------------------------------
(* Good values, and the pairs of phis, from step to step.                  *)

\* No phi is lost.
PhisStay(c, d) == \A b \in Block : \A v : HasPhi(c, b, v) => HasPhi(d, b, v)

\* Operands do not matter for that,
LEMMA SameShapePhis ==
  ASSUME NEW c, NEW d, SameShape(c, d)
  PROVE  PhisStay(c, d)
BY DEF PhisStay, SameShape, HasPhi

\* nor does what is deleted.
LEMMA LeftPhis ==
  ASSUME NEW c, NEW places, c \in [Block -> Seq(Instr)], KeepsPhis(c, places)
  PROVE  PhisStay(c, LeftOf(c, places))
<1> DEFINE d == LeftOf(c, places)
<1> SUFFICES ASSUME NEW b \in Block, NEW v, HasPhi(c, b, v) PROVE HasPhi(d, b, v)
  BY DEF PhisStay
<1>1. Keeps(d[b], c[b], places[b])
  BY LeftInOrder
<1> HIDE DEF d
<1>2. PICK i \in DOMAIN c[b] : c[b][i].op = "phi" /\ c[b][i].var = v
  BY DEF HasPhi
<1>3. i \in places[b]
  BY <1>2 DEF KeepsPhis
<1>4. PICK k \in DOMAIN d[b] : d[b][k] = c[b][i]
  BY <1>1, <1>3 DEF Keeps
<1> QED BY <1>2, <1>4 DEF HasPhi

\* A good value stays good,
LEMMA GoodStays ==
  ASSUME NEW s, NEW c, NEW d, PhisStay(c, d), NEW x, NEW b, Good(s, c, x, b)
  PROVE  Good(s, d, x, b)
BY DEF Good, PhisStay

\* it is good further down,
LEMMA GoodBelow ==
  ASSUME NEW s \in [Block -> SUBSET Block], NEW c, NEW x, NEW b, NEW e, Good(s, c, x, b), Dominates(s, b, e)
  PROVE  Good(s, c, x, e)
<1>1. CASE x[1] = "const"
  BY <1>1 DEF Good
<1>2. CASE x[1] # "const"
  <2>1. PICK d \in Block, v \in Var : x = PhiName(d, v) /\ HasPhi(c, d, v) /\ Dominates(s, d, b)
    BY <1>2 DEF Good
  <2>2. Dominates(s, d, e)
    BY <2>1, DominatesTransitive
  <2> QED BY <2>1, <2>2 DEF Good
<1> QED BY <1>1, <1>2

\* and it is not a load.
LEMMA GoodIsNoLoad ==
  ASSUME NEW s, NEW c, NEW x, NEW b, Good(s, c, x, b)
  PROVE  x[1] # "load"
BY DEF Good, PhiName

\* The blocks that have served their successors stay the same while the last
\* call is within its block,
LEMMA ServedSame ==
  ASSUME NEW s \in [Block -> SUBSET Block], NEW c \in [Block -> Seq(Instr)], NEW cs, CallsOK(s, c, cs),
         TreeOK(s, cs), NEW ds, NEW x, Advances(cs, ds, x), NEW d, SameShape(c, d),
         cs[Len(cs)].at # Len(c[cs[Len(cs)].bb]) + 1
  PROVE  Served(s, d, ds) = Served(s, c, cs)
<1> SUFFICES ASSUME NEW p \in Reached(s)
             PROVE  Ahead(s, ds, p, Len(d[p]) + 1) <=> Ahead(s, cs, p, Len(c[p]) + 1)
  BY DEF Served
<1>1. p \in Block /\ Len(d[p]) = Len(c[p]) /\ Len(c[p]) + 1 \in Nat
  <2>1. p \in Block
    BY ReachedClosed
  <2>2. Len(c[p]) \in Nat
    BY <2>1
  <2> QED BY <2>1, <2>2 DEF SameShape
<1>2. ~(p = cs[Len(cs)].bb /\ Len(c[p]) + 1 = cs[Len(cs)].at)
  OBVIOUS
<1>3. Ahead(s, ds, p, Len(c[p]) + 1)
      <=> Ahead(s, cs, p, Len(c[p]) + 1) /\ ~(p = cs[Len(cs)].bb /\ Len(c[p]) + 1 = cs[Len(cs)].at)
  BY <1>1, AheadAdvances
<1> QED BY <1>1, <1>2, <1>3

\* and there is one more when it comes to its end.
LEMMA ServedMore ==
  ASSUME NEW s \in [Block -> SUBSET Block], NEW c \in [Block -> Seq(Instr)], NEW cs, CallsOK(s, c, cs),
         TreeOK(s, cs), NEW ds, NEW x, Advances(cs, ds, x), NEW d, SameShape(c, d),
         cs[Len(cs)].at = Len(c[cs[Len(cs)].bb]) + 1
  PROVE  /\ Served(s, d, ds) = Served(s, c, cs) \cup {cs[Len(cs)].bb}
         /\ cs[Len(cs)].bb \notin Served(s, c, cs)
<1> DEFINE b == cs[Len(cs)].bb
<1>1. Len(cs) \in 1 .. Len(cs) /\ b \in Reached(s) /\ b \in Block
  BY CallsFacts DEF Advances
<1>2. ASSUME NEW p \in Reached(s)
      PROVE  p \in Block /\ Len(d[p]) = Len(c[p]) /\ Len(c[p]) + 1 \in Nat
  <2>1. p \in Block
    BY ReachedClosed
  <2>2. Len(c[p]) \in Nat
    BY <2>1
  <2> QED BY <2>1, <2>2 DEF SameShape
<1>3. Ahead(s, cs, b, Len(c[b]) + 1)
  <2>1. cs[Len(cs)].at <= Len(c[b]) + 1
    BY <1>1, <1>2
  <2> QED BY <1>1, <2>1 DEF Ahead
<1>4. ASSUME NEW p \in Reached(s)
      PROVE  Ahead(s, ds, p, Len(d[p]) + 1) <=> Ahead(s, cs, p, Len(c[p]) + 1) /\ p # b
  <2>1. p = b <=> p = b /\ Len(c[p]) + 1 = cs[Len(cs)].at
    OBVIOUS
  <2>2. Ahead(s, ds, p, Len(c[p]) + 1)
        <=> Ahead(s, cs, p, Len(c[p]) + 1) /\ ~(p = b /\ Len(c[p]) + 1 = cs[Len(cs)].at)
    BY <1>2, AheadAdvances
  <2> QED BY <2>1, <2>2, <1>2
<1> HIDE DEF b
<1>5. Served(s, d, ds) = Served(s, c, cs) \cup {b}
  BY <1>1, <1>4 DEF Served
<1>6. b \notin Served(s, c, cs)
  BY <1>3 DEF Served
<1> QED BY <1>5, <1>6 DEF b

\* When a call begins nothing is served,
LEMMA ServedEnters ==
  ASSUME NEW s \in [Block -> SUBSET Block], NEW c \in [Block -> Seq(Instr)], NEW cs, CallsOK(s, c, cs),
         TreeOK(s, cs), NEW ds, NEW b, Enters(s, cs, ds, b)
  PROVE  Served(s, c, ds) = Served(s, c, cs)
<1> SUFFICES ASSUME NEW p \in Reached(s)
             PROVE  Ahead(s, ds, p, Len(c[p]) + 1) <=> Ahead(s, cs, p, Len(c[p]) + 1)
  BY DEF Served
<1>1. p \in Block
  BY ReachedClosed
<1>2. Len(c[p]) + 1 \in Nat \ {0}
  <2>1. Len(c[p]) \in Nat
    BY <1>1
  <2> QED BY <2>1
<1> QED BY <1>1, <1>2, AheadEnters

\* The code d is the code c but for the block of the last call.
Elsewhere(c, d, cs) == \A b \in Block : b # cs[Len(cs)].bb => d[b] = c[b]

\* When one ends no block is served by that.
LEMMA ServedEnds ==
  ASSUME NEW s \in [Block -> SUBSET Block], NEW c, CodeOK(c), NEW cs, CallsOK(s, c, cs), TreeOK(s, cs),
         NEW ds, Ends(c, cs, ds), NEW d, CodeOK(d), Elsewhere(c, d, cs)
  PROVE  Served(s, d, ds) = Served(s, c, cs)
<1> SUFFICES ASSUME NEW p \in Reached(s)
             PROVE  Ahead(s, ds, p, Len(d[p]) + 1) <=> Ahead(s, cs, p, Len(c[p]) + 1)
  BY DEF Served
<1>1. p \in Block /\ c \in [Block -> Seq(Instr)] /\ d \in [Block -> Seq(Instr)]
  BY ReachedClosed DEF CodeOK
<1>2. Len(c[p]) + 1 \in Nat /\ Len(d[p]) + 1 \in Nat
  <2>1. Len(c[p]) \in Nat /\ Len(d[p]) \in Nat
    BY <1>1
  <2> QED BY <2>1
<1> DEFINE b == cs[Len(cs)].bb
<1>3. /\ \A q \in Block : \A j \in Nat : q # b => (Ahead(s, ds, q, j) <=> Ahead(s, cs, q, j))
      /\ \A j \in Nat : ~Ahead(s, ds, b, j)
      /\ \A j \in Nat : j < cs[Len(cs)].at => ~Ahead(s, cs, b, j)
  BY AheadEnds
<1> HIDE DEF b
<1>4. CASE p = b
  <2>1. Len(c[p]) + 1 < cs[Len(cs)].at
    <3>1. cs[Len(cs)].at = Len(c[p]) + 2 /\ Len(c[p]) \in Nat
      BY <1>1, <1>4 DEF Ends, b
    <3> QED BY <3>1
  <2> QED BY <1>2, <1>4, <1>3, <2>1
<1>5. CASE p # b
  <2>1. d[p] = c[p]
    BY <1>1, <1>5 DEF Elsewhere, b
  <2> QED BY <1>1, <1>2, <1>5, <1>3, <2>1
<1> QED BY <1>4, <1>5

\* What the pairs are for does not depend on the values,
LEMMA PairsForSame ==
  ASSUME NEW x, NEW y, NEW blocks, PairsFor(x, blocks), DOMAIN y.pairs = DOMAIN x.pairs,
         \A k \in DOMAIN x.pairs : y.pairs[k][2] = x.pairs[k][2]
  PROVE  PairsFor(y, blocks)
<1>1. [k \in DOMAIN y.pairs |-> y.pairs[k][2]] = [k \in DOMAIN x.pairs |-> x.pairs[k][2]]
  OBVIOUS
<1>2. {y.pairs[k][2] : k \in DOMAIN y.pairs} = {x.pairs[k][2] : k \in DOMAIN x.pairs}
  OBVIOUS
<1> QED BY <1>1, <1>2 DEF PairsFor

\* and one more pair is for one more block.
LEMMA PairsForMore ==
  ASSUME NEW x \in Instr, NEW y, NEW blocks, PairsFor(x, blocks), NEW a, NEW b, b \notin blocks,
         y.pairs = Append(x.pairs, <<a, b>>)
  PROVE  PairsFor(y, blocks \cup {b})
<1> DEFINE n == Len(x.pairs)
           p == x.pairs
           q == y.pairs
           f == [k \in DOMAIN p |-> p[k][2]]
           g == [k \in DOMAIN q |-> q[k][2]]
<1>1. p \in Seq(Value \X Block) /\ n \in Nat /\ DOMAIN p = 1 .. n
  BY InstrFields
<1>2. DOMAIN q = 1 .. n + 1 /\ q[n + 1] = <<a, b>> /\ \A k \in 1 .. n : q[k] = p[k]
  BY <1>1
<1> HIDE DEF n, p, q
<1>3. \A k \in 1 .. n + 1 : k \in 1 .. n \/ k = n + 1
  BY <1>1
<1>4. 1 .. n \subseteq 1 .. n + 1 /\ n + 1 \in 1 .. n + 1 /\ n + 1 \notin 1 .. n
  BY <1>1
<1>5. (\A k \in 1 .. n : g[k] = p[k][2] /\ f[k] = p[k][2]) /\ g[n + 1] = b
  BY <1>1, <1>2, <1>4
<1>6. \A k \in 1 .. n : p[k][2] \in blocks
  BY <1>1 DEF PairsFor, p
<1>7. IsInjective(g)
  <2> SUFFICES ASSUME NEW i \in 1 .. n + 1, NEW j \in 1 .. n + 1, g[i] = g[j] PROVE i = j
    BY <1>2 DEF IsInjective
  <2>1. CASE i = n + 1 \/ j = n + 1
    BY <2>1, <1>3, <1>5, <1>6
  <2>2. CASE i \in 1 .. n /\ j \in 1 .. n
    <3>1. f[i] = f[j]
      BY <2>2, <1>5
    <3>2. IsInjective(f) /\ DOMAIN f = 1 .. n
      BY <1>1 DEF PairsFor, p
    <3> HIDE DEF f
    <3> QED BY <3>1, <3>2, <2>2 DEF IsInjective
  <2> QED BY <2>1, <2>2, <1>3
<1>8. {q[k][2] : k \in DOMAIN q} = blocks \cup {b}
  <2>1. {p[k][2] : k \in 1 .. n} = blocks
    BY <1>1 DEF PairsFor, p
  <2>2. {q[k][2] : k \in 1 .. n + 1} = {p[k][2] : k \in 1 .. n} \cup {b}
    BY <1>2, <1>3, <1>4
  <2> QED BY <2>1, <2>2, <1>2
<1> QED BY <1>7, <1>8 DEF PairsFor, q

-----------------------------------------------------------------------------
(* The parts of the invariant, from step to step: the pairs of phis.       *)

\* Every phi of a block of d that is reached is one of c, with the pairs it had.
SamePhis(s, c, d) ==
  \A b \in Reached(s) : \A i \in DOMAIN d[b] :
    d[b][i].op = "phi" => \E j \in DOMAIN c[b] : c[b][j].op = "phi" /\ c[b][j].pairs = d[b][i].pairs

\* Then they are for the same blocks and just as good.
LEMMA SamePhisKept ==
  ASSUME NEW s \in [Block -> SUBSET Block], NEW c, NEW d, SamePhis(s, c, d), PhisStay(c, d)
  PROVE  /\ PairsGood(s, c) => PairsGood(s, d)
         /\ \A cs, ds : PhisServed(s, c, cs) /\ Served(s, d, ds) = Served(s, c, cs) => PhisServed(s, d, ds)
<1>1. ASSUME NEW b \in Reached(s), NEW i \in DOMAIN d[b], d[b][i].op = "phi"
      PROVE  \E j \in DOMAIN c[b] : c[b][j].op = "phi" /\ c[b][j].pairs = d[b][i].pairs
  BY <1>1 DEF SamePhis
<1>2. ASSUME PairsGood(s, c) PROVE PairsGood(s, d)
  <2> SUFFICES ASSUME NEW b \in Reached(s), NEW i \in DOMAIN d[b], d[b][i].op = "phi", NEW k \in DOMAIN d[b][i].pairs
               PROVE  Good(s, d, d[b][i].pairs[k][1], d[b][i].pairs[k][2])
    BY DEF PairsGood
  <2>1. PICK j \in DOMAIN c[b] : c[b][j].op = "phi" /\ c[b][j].pairs = d[b][i].pairs
    BY <1>1
  <2>2. Good(s, c, d[b][i].pairs[k][1], d[b][i].pairs[k][2])
    BY <1>2, <2>1 DEF PairsGood
  <2> QED BY <2>2, GoodStays
<1>3. ASSUME NEW cs, NEW ds, PhisServed(s, c, cs), Served(s, d, ds) = Served(s, c, cs)
      PROVE  PhisServed(s, d, ds)
  <2> SUFFICES ASSUME NEW b \in Reached(s), NEW i \in DOMAIN d[b], d[b][i].op = "phi"
               PROVE  PairsFor(d[b][i], {p \in Served(s, d, ds) : b \in s[p]})
    BY DEF PhisServed
  <2>1. PICK j \in DOMAIN c[b] : c[b][j].op = "phi" /\ c[b][j].pairs = d[b][i].pairs
    BY <1>1
  <2>2. PairsFor(c[b][j], {p \in Served(s, c, cs) : b \in s[p]})
    BY <1>3, <2>1 DEF PhisServed
  <2> QED BY <1>3, <2>1, <2>2 DEF PairsFor
<1> QED BY <1>2, <1>3

\* Deleting other instructions keeps the phis,
LEMMA LeftSamePhis ==
  ASSUME NEW s \in [Block -> SUBSET Block], NEW c, NEW places, c \in [Block -> Seq(Instr)], KeepsPhis(c, places)
  PROVE  SamePhis(s, c, LeftOf(c, places))
<1> DEFINE d == LeftOf(c, places)
<1> SUFFICES ASSUME NEW b \in Reached(s), NEW i \in DOMAIN d[b], d[b][i].op = "phi"
             PROVE  \E j \in DOMAIN c[b] : c[b][j].op = "phi" /\ c[b][j].pairs = d[b][i].pairs
  BY DEF SamePhis
<1>1. b \in Block
  BY ReachedClosed
<1>2. Keeps(d[b], c[b], places[b]) /\ places[b] \in SUBSET DOMAIN c[b]
  BY <1>1, LeftInOrder DEF KeepsPhis
<1> HIDE DEF d
<1>3. PICK g \in [DOMAIN d[b] -> places[b]] : \A k \in DOMAIN d[b] : d[b][k] = c[b][g[k]]
  BY <1>2 DEF Keeps
<1>4. g[i] \in DOMAIN c[b] /\ d[b][i] = c[b][g[i]]
  BY <1>2, <1>3
<1> QED BY <1>4

\* and so does replacing the uses of a load.
LEMMA ReplaceSamePhis ==
  ASSUME NEW s \in [Block -> SUBSET Block], NEW c, CodeOK(c), PairsGood(s, c),
         NEW old, old[1] = "load", NEW new \in Value
  PROVE  SamePhis(s, c, ReplaceUses(c, old, new))
<1> DEFINE d == ReplaceUses(c, old, new)
<1> SUFFICES ASSUME NEW b \in Reached(s), NEW i \in DOMAIN d[b], d[b][i].op = "phi"
             PROVE  i \in DOMAIN c[b] /\ c[b][i].op = "phi" /\ c[b][i].pairs = d[b][i].pairs
  BY DEF SamePhis
<1>1. b \in Block
  BY ReachedClosed
<1>2. SameShape(c, d)
  BY ReplaceUsesShape
<1>3. i \in DOMAIN c[b] /\ c[b][i].op = "phi"
  <2> HIDE DEF d
  <2> QED BY <1>1, <1>2 DEF SameShape
<1> DEFINE x == c[b][i]
           y == d[b][i]
<1>4. /\ Len(y.pairs) = Len(x.pairs)
      /\ \A k \in DOMAIN x.pairs : y.pairs[k][1] = Replaced(x.pairs[k][1], old, new) /\ y.pairs[k][2] = x.pairs[k][2]
  BY <1>1, <1>3, ReplaceUsesShape
<1> HIDE DEF d
<1>5. x \in Instr /\ y \in Instr
  <2>1. c[b] \in Seq(Instr) /\ d[b] \in Seq(Instr)
    BY <1>1, <1>2 DEF CodeOK, SameShape
  <2> QED BY <1>3, <2>1
<1>6. x.pairs \in Seq(Value \X Block) /\ y.pairs \in Seq(Value \X Block)
  BY <1>5, InstrFields
<1>7. ASSUME NEW k \in 1 .. Len(x.pairs) PROVE x.pairs[k] = y.pairs[k]
  <2>1. k \in DOMAIN x.pairs /\ k \in DOMAIN y.pairs
    BY <1>4, <1>6
  <2>2. x.pairs[k] \in Value \X Block /\ y.pairs[k] \in Value \X Block
    BY <1>6, <2>1
  <2>3. Good(s, c, x.pairs[k][1], x.pairs[k][2])
    BY <1>3, <2>1 DEF PairsGood
  <2>4. x.pairs[k][1] # old
    BY <2>3, GoodIsNoLoad
  <2>5. y.pairs[k][1] = x.pairs[k][1] /\ y.pairs[k][2] = x.pairs[k][2]
    <3>1. y.pairs[k][1] = Replaced(x.pairs[k][1], old, new) /\ y.pairs[k][2] = x.pairs[k][2]
      BY <2>1, <1>4
    <3> QED BY <3>1, <2>4 DEF Replaced
  <2> HIDE DEF x, y
  <2> QED BY <2>2, <2>5
<1> HIDE DEF x, y
<1>8. x.pairs = y.pairs
  BY <1>4, <1>6, <1>7, SeqEqual
<1> QED BY <1>3, <1>8 DEF x, y

\* At the end of the block of the last call each phi of a successor gets a pair
\* for the block, with a value that is good there.
Fills(s, c, cs, top, d) ==
  LET b == cs[Len(cs)].bb
  IN  /\ cs[Len(cs)].at = Len(c[b]) + 1
      /\ d = Filled(c, s[b], Var, top, b)
      /\ \A v \in Var : top[v] \in Value /\ Good(s, c, top[v], b)

\* Then each phi has a pair for one more block, which is good.
LEMMA FillsServed ==
  ASSUME NEW s \in [Block -> SUBSET Block], NEW c, CodeOK(c), NEW cs, CallsOK(s, c, cs), TreeOK(s, cs),
         NEW ds, NEW x, Advances(cs, ds, x), NEW top, NEW d, Fills(s, c, cs, top, d)
  PROVE  /\ SameShape(c, d)
         /\ PhisServed(s, c, cs) => PhisServed(s, d, ds)
         /\ PairsGood(s, c) => PairsGood(s, d)
         /\ \A e \in Block : \A i \in DOMAIN c[e] : d[e][i].arg = c[e][i].arg
<1> DEFINE b == cs[Len(cs)].bb
<1>1. /\ cs[Len(cs)].at = Len(c[b]) + 1 /\ d = Filled(c, s[b], Var, top, b)
      /\ \A v \in Var : top[v] \in Value /\ Good(s, c, top[v], b)
  BY DEF Fills
<1>2. c \in [Block -> Seq(Instr)] /\ b \in Block /\ b \in Reached(s)
  <2>1. c \in [Block -> Seq(Instr)]
    BY DEF CodeOK
  <2> QED BY <2>1, CallsFacts DEF Advances
<1>3. \A e \in Block : \A k \in DOMAIN c[e] : Gets(c[e][k], Var) => c[e][k].var \in Var
  BY DEF Gets
<1>4. /\ SameShape(c, d)
      /\ \A e \in Block : \A k \in DOMAIN c[e] :
           /\ d[e][k].arg = c[e][k].arg
           /\ d[e][k].pairs = IF e \in s[b] /\ Gets(c[e][k], Var) THEN Append(c[e][k].pairs, <<top[c[e][k].var], b>>)
                                                                 ELSE c[e][k].pairs
  <2>1. \A e \in s[b] \cap Block : \A k \in DOMAIN c[e] : Gets(c[e][k], Var) => top[c[e][k].var] \in Value
    BY <1>1, <1>3
  <2> DEFINE succs == s[b]
  <2> HIDE DEF b, succs
  <2>2. \A e \in succs \cap Block : \A k \in DOMAIN c[e] : Gets(c[e][k], Var) => top[c[e][k].var] \in Value
    BY <2>1 DEF succs
  <2>3. SameShape(c, Filled(c, succs, Var, top, b))
    BY <1>2, <2>2, FilledShape
  <2>4. \A e \in Block : \A k \in DOMAIN c[e] :
          IsFilled(c[e][k], Filled(c, succs, Var, top, b)[e][k], e \in succs, Var, top, b)
    BY <1>2, <2>2, FilledShape
  <2>5. d = Filled(c, succs, Var, top, b)
    BY <1>1 DEF succs
  <2> QED BY <2>3, <2>4, <2>5 DEF succs, IsFilled
<1>5. Served(s, d, ds) = Served(s, c, cs) \cup {b} /\ b \notin Served(s, c, cs)
  <2>1. SameShape(c, d) /\ cs[Len(cs)].at = Len(c[cs[Len(cs)].bb]) + 1 /\ c \in [Block -> Seq(Instr)]
    BY <1>1, <1>2, <1>4
  <2> QED BY <2>1, ServedMore
<1>6. PhisStay(c, d)
  BY <1>4, SameShapePhis
<1> HIDE DEF b
<1>7. ASSUME NEW e \in Reached(s), NEW i \in DOMAIN d[e], d[e][i].op = "phi"
      PROVE  /\ e \in Block /\ i \in DOMAIN c[e] /\ c[e][i].op = "phi" /\ c[e][i] \in Instr
             /\ c[e][i].var \in Var
             /\ d[e][i].pairs = IF e \in s[b] THEN Append(c[e][i].pairs, <<top[c[e][i].var], b>>)
                                              ELSE c[e][i].pairs
  <2>1. e \in Block
    BY ReachedClosed
  <2>2. i \in DOMAIN c[e] /\ c[e][i].op = "phi"
    BY <2>1, <1>4, <1>7 DEF SameShape
  <2>3. c[e][i].var \in Var
    BY <2>1, <2>2 DEF CodeOK
  <2>4. c[e] \in Seq(Instr)
    BY <2>1, <1>2
  <2>5. c[e][i] \in Instr
    BY <2>2, <2>4
  <2>6. Gets(c[e][i], Var)
    BY <2>2, <2>3 DEF Gets
  <2> QED BY <2>1, <2>2, <2>3, <2>5, <2>6, <1>4
<1>8. ASSUME PhisServed(s, c, cs) PROVE PhisServed(s, d, ds)
  <2> SUFFICES ASSUME NEW e \in Reached(s), NEW i \in DOMAIN d[e], d[e][i].op = "phi"
               PROVE  PairsFor(d[e][i], {p \in Served(s, d, ds) : e \in s[p]})
    BY DEF PhisServed
  <2> DEFINE blocks == {p \in Served(s, c, cs) : e \in s[p]}
  <2>1. i \in DOMAIN c[e] /\ c[e][i].op = "phi" /\ c[e][i] \in Instr
    BY <1>7
  <2>2. PairsFor(c[e][i], blocks)
    BY <1>8, <2>1 DEF PhisServed
  <2>3. CASE e \in s[b]
    <3>1. {p \in Served(s, d, ds) : e \in s[p]} = blocks \cup {b} /\ b \notin blocks
      BY <1>5, <2>3
    <3>2. d[e][i].pairs = Append(c[e][i].pairs, <<top[c[e][i].var], b>>)
      BY <1>7, <2>3
    <3> HIDE DEF blocks
    <3>3. PairsFor(d[e][i], blocks \cup {b})
      BY <2>1, <2>2, <3>1, <3>2, PairsForMore
    <3> QED BY <3>1, <3>3
  <2>4. CASE e \notin s[b]
    <3>1. {p \in Served(s, d, ds) : e \in s[p]} = blocks
      BY <1>5, <2>4
    <3>2. d[e][i].pairs = c[e][i].pairs
      BY <1>7, <2>4
    <3> HIDE DEF blocks
    <3> QED BY <2>2, <3>1, <3>2 DEF PairsFor
  <2> QED BY <2>3, <2>4
<1>9. ASSUME PairsGood(s, c) PROVE PairsGood(s, d)
  <2> SUFFICES ASSUME NEW e \in Reached(s), NEW i \in DOMAIN d[e], d[e][i].op = "phi", NEW k \in DOMAIN d[e][i].pairs
               PROVE  Good(s, c, d[e][i].pairs[k][1], d[e][i].pairs[k][2])
    BY <1>6, GoodStays DEF PairsGood
  <2> DEFINE old == c[e][i].pairs
             more == <<top[c[e][i].var], b>>
  <2>1. i \in DOMAIN c[e] /\ c[e][i].op = "phi" /\ c[e][i] \in Instr /\ c[e][i].var \in Var
    BY <1>7
  <2>2. \A m \in DOMAIN old : Good(s, c, old[m][1], old[m][2])
    BY <1>9, <2>1 DEF PairsGood
  <2>3. CASE e \in s[b]
    <3>1. d[e][i].pairs = Append(old, more)
      BY <1>7, <2>3
    <3>2. old \in Seq(Value \X Block)
      BY <2>1, InstrFields
    <3>3. more[1] = top[c[e][i].var] /\ more[2] = b
      OBVIOUS
    <3>4. Good(s, c, more[1], more[2])
      BY <3>3, <2>1, <1>1
    <3> HIDE DEF old, more
    <3>5. (k \in DOMAIN old /\ d[e][i].pairs[k] = old[k]) \/ d[e][i].pairs[k] = more
      BY <3>1, <3>2
    <3> QED BY <3>4, <3>5, <2>2
  <2>4. CASE e \notin s[b]
    BY <1>7, <2>2, <2>4
  <2> QED BY <2>3, <2>4
<1> QED BY <1>4, <1>8, <1>9

-----------------------------------------------------------------------------
(* What is on the stacks, from step to step.                               *)

\* The k-th call and those before it gave so much, whatever the others do.
LEMMA DepthToSame ==
  ASSUME NEW c, NEW d, NEW cs \in Seq(CallRecord), NEW ds \in Seq(CallRecord), NEW k \in Nat,
         k <= Len(cs), k <= Len(ds), NEW v,
         \A j \in 1 .. k : GaveIn(d, ds[j], v) = GaveIn(c, cs[j], v)
  PROVE  DepthTo(d, ds, v, k) = DepthTo(c, cs, v, k)
BY BelowGaveSame DEF DepthTo

\* They gave no more than all calls.
LEMMA DepthToBelow ==
  ASSUME NEW c \in [Block -> Seq(Instr)], NEW cs \in Seq(CallRecord), NEW v
  PROVE  /\ DepthTo(c, cs, v, Len(cs)) = Depth(c, cs, v) /\ Depth(c, cs, v) \in Nat
         /\ \A k \in 1 .. Len(cs) : DepthTo(c, cs, v, k) \in Nat /\ DepthTo(c, cs, v, k) <= Depth(c, cs, v)
<1> DEFINE g == Gifts(c, cs, v)
           n == Len(cs)
<1>1. n \in Nat /\ \A k \in 1 .. n : IsFiniteSet(g[k])
  BY GiftsFinite
<1>2. DepthTo(c, cs, v, n) = Depth(c, cs, v) /\ Depth(c, cs, v) \in Nat
  BY GiftsFinite DEF DepthTo, Depth
<1>3. ASSUME NEW k \in 1 .. n PROVE DepthTo(c, cs, v, k) \in Nat /\ DepthTo(c, cs, v, k) <= Depth(c, cs, v)
  <2>1. k \in 0 .. n
    BY <1>1
  <2> HIDE DEF g, n
  <2>2. Cardinality(Tagged(g, k)) \in Nat /\ Cardinality(Tagged(g, k)) <= Cardinality(Tagged(g, n))
    BY <1>1, <2>1, TaggedGrows
  <2> QED BY <2>2 DEF DepthTo, Depth, g, n
<1> QED BY <1>2, <1>3

\* The stacks go on as the last call does: what it stores is pushed.
Pushes(c, cs, st, tt) ==
  LET top == cs[Len(cs)]
  IN  \A v \in Var : /\ Len(st[v]) = Depth(c, cs, v)
                     /\ \A m \in 1 .. Len(st[v]) : tt[v][m] = st[v][m]

\* Then what is on them is good, if what is pushed is.
LEMMA StacksAdvance ==
  ASSUME NEW s \in [Block -> SUBSET Block], NEW c \in [Block -> Seq(Instr)], NEW cs, CallsOK(s, c, cs),
         NEW ds, NEW x, Advances(cs, ds, x), NEW d, SameShape(c, d), NEW st, NEW tt,
         StacksGood(s, c, cs, st), Pushes(c, cs, st, tt),
         \A v \in Var : Depth(d, ds, v) = Depth(c, cs, v) \/
                        /\ Depth(d, ds, v) = Depth(c, cs, v) + 1
                        /\ Good(s, c, tt[v][Depth(c, cs, v) + 1], cs[Len(cs)].bb)
  PROVE  StacksGood(s, d, ds, tt)
<1> DEFINE n == Len(cs)
<1>1. /\ cs \in Seq(CallRecord) /\ ds \in Seq(CallRecord) /\ n \in Nat /\ n \in 1 .. n
      /\ Len(ds) = n /\ ds[n] = x /\ x.bb = cs[n].bb /\ \A k \in 1 .. n - 1 : ds[k] = cs[k]
  BY CallsFacts DEF Advances, TopIs
<1>2. d \in [Block -> Seq(Instr)] /\ PhisStay(c, d)
  BY SameShapePhis DEF SameShape
<1>3. \A k \in 1 .. n : cs[k].bb \in Block
  BY CallsFacts
<1>4. \A k \in 1 .. n : k = n \/ k \in 1 .. n - 1
  BY <1>1
<1> SUFFICES ASSUME NEW v \in Var, NEW k \in 1 .. n, NEW m \in 1 .. DepthTo(d, ds, v, k)
             PROVE  Good(s, c, tt[v][m], ds[k].bb)
  BY <1>1, <1>2, GoodStays DEF StacksGood
<1>5. /\ \A i \in 1 .. Len(st[v]) : tt[v][i] = st[v][i]
      /\ Len(st[v]) = Depth(c, cs, v)
  BY DEF Pushes
<1>6. /\ Depth(c, cs, v) \in Nat /\ DepthTo(c, cs, v, n) = Depth(c, cs, v)
      /\ DepthTo(d, ds, v, n) = Depth(d, ds, v)
      /\ \A i \in 1 .. n : DepthTo(c, cs, v, i) \in Nat /\ DepthTo(c, cs, v, i) <= Depth(c, cs, v)
  BY <1>1, <1>2, DepthToBelow
<1>7. \A i \in 1 .. n : \A j \in 1 .. DepthTo(c, cs, v, i) : Good(s, c, tt[v][j], cs[i].bb)
  <2> SUFFICES ASSUME NEW i \in 1 .. n, NEW j \in 1 .. DepthTo(c, cs, v, i) PROVE Good(s, c, tt[v][j], cs[i].bb)
    OBVIOUS
  <2>1. Good(s, c, st[v][j], cs[i].bb)
    BY DEF StacksGood
  <2>2. j \in 1 .. Len(st[v])
    BY <1>5, <1>6
  <2> QED BY <2>1, <2>2, <1>5
<1>8. CASE k = n
  <2>1. CASE m \in 1 .. Depth(c, cs, v)
    BY <2>1, <1>1, <1>6, <1>7, <1>8
  <2>2. CASE m \notin 1 .. Depth(c, cs, v)
    <3>1. Depth(d, ds, v) = Depth(c, cs, v) + 1 /\ m = Depth(c, cs, v) + 1
      BY <2>2, <1>6, <1>8
    <3>2. Depth(d, ds, v) # Depth(c, cs, v)
      BY <3>1, <1>6
    <3> QED BY <3>1, <3>2, <1>1, <1>8
  <2> QED BY <2>1, <2>2
<1>9. CASE k # n
  <2>1. k \in 1 .. n - 1
    BY <1>4, <1>9
  <2>2. \A j \in 1 .. k : GaveIn(d, ds[j], v) = GaveIn(c, cs[j], v)
    <3> SUFFICES ASSUME NEW j \in 1 .. k PROVE GaveIn(d, ds[j], v) = GaveIn(c, cs[j], v)
      OBVIOUS
    <3>1. j \in 1 .. n - 1 /\ j \in 1 .. n
      BY <2>1, <1>1
    <3>2. ds[j] = cs[j] /\ cs[j].bb \in Block
      BY <3>1, <1>1, <1>3
    <3> QED BY <3>2, SameShapeGave
  <2>3. k \in Nat /\ k <= n
    BY <1>1
  <2>4. DepthTo(d, ds, v, k) = DepthTo(c, cs, v, k)
    BY <2>2, <2>3, <1>1, DepthToSame
  <2> QED BY <2>1, <2>4, <1>1, <1>7
<1> QED BY <1>8, <1>9

\* The first n calls are where they were, and so is the code of their blocks.
SameUpTo(c, d, cs, ds, n) ==
  /\ cs \in Seq(CallRecord) /\ ds \in Seq(CallRecord) /\ n \in Nat /\ n <= Len(cs) /\ n <= Len(ds)
  /\ \A k \in 1 .. n : ds[k].bb = cs[k].bb /\ ds[k].at = cs[k].at /\ d[cs[k].bb] = c[cs[k].bb]

\* Then they gave as much,
LEMMA DepthUpTo ==
  ASSUME NEW c, NEW d, NEW cs, NEW ds, NEW n, SameUpTo(c, d, cs, ds, n), NEW v, NEW k \in 1 .. n
  PROVE  DepthTo(d, ds, v, k) = DepthTo(c, cs, v, k)
<1>1. k \in Nat /\ k <= Len(cs) /\ k <= Len(ds) /\ cs \in Seq(CallRecord) /\ ds \in Seq(CallRecord)
  BY DEF SameUpTo
<1>2. \A j \in 1 .. k : GaveIn(d, ds[j], v) = GaveIn(c, cs[j], v)
  <2> SUFFICES ASSUME NEW j \in 1 .. k PROVE GaveIn(d, ds[j], v) = GaveIn(c, cs[j], v)
    OBVIOUS
  <2>1. j \in 1 .. n
    BY DEF SameUpTo
  <2> QED BY <2>1 DEF SameUpTo, GaveIn
<1> QED BY <1>1, <1>2, DepthToSame

\* The stacks for v are the same as far as the first k calls gave.
AgreeTo(c, cs, st, tt, v, k) == \A m \in 1 .. DepthTo(c, cs, v, k) : tt[v][m] = st[v][m]

\* and what is left of it is as good.
LEMMA StacksUpTo ==
  ASSUME NEW s, NEW c, NEW d, PhisStay(c, d), NEW cs, NEW ds, NEW n, SameUpTo(c, d, cs, ds, n),
         NEW st, NEW tt, StacksGood(s, c, cs, st), NEW v \in Var, NEW k \in 1 .. n,
         AgreeTo(c, cs, st, tt, v, k)
  PROVE  \A m \in 1 .. DepthTo(d, ds, v, k) : Good(s, d, tt[v][m], ds[k].bb)
<1>1. k \in 1 .. Len(cs) /\ ds[k].bb = cs[k].bb
  BY DEF SameUpTo
<1>2. DepthTo(d, ds, v, k) = DepthTo(c, cs, v, k)
  BY DepthUpTo
<1> SUFFICES ASSUME NEW m \in 1 .. DepthTo(d, ds, v, k) PROVE Good(s, d, tt[v][m], ds[k].bb)
  OBVIOUS
<1>3. Good(s, c, st[v][m], cs[k].bb) /\ tt[v][m] = st[v][m]
  BY <1>1, <1>2 DEF StacksGood, AgreeTo
<1> QED BY <1>1, <1>3, GoodStays

\* When a call begins the phis of its block are pushed.
PushesPhis(c, cs, b, st, tt) ==
  \A v \in Var : /\ Len(st[v]) = Depth(c, cs, v)
                 /\ \A m \in 1 .. Len(st[v]) : tt[v][m] = st[v][m]
                 /\ HasPhi(c, b, v) => tt[v][Len(st[v]) + 1] = PhiName(b, v)

\* Then what is on the stacks is good in the block of the call.
LEMMA StacksEnter ==
  ASSUME NEW s \in [Block -> SUBSET Block], NEW c, CodeOK(c), NEW cs \in Seq(CallRecord),
         NEW x \in CallRecord, x.at = 1, x.bb \in Reached(s),
         cs # << >> => Dominates(s, cs[Len(cs)].bb, x.bb),
         NEW st, NEW tt, StacksGood(s, c, cs, st), PushesPhis(c, cs, x.bb, st, tt)
  PROVE  StacksGood(s, c, Append(cs, x), tt)
<1> DEFINE n == Len(cs)
           ds == Append(cs, x)
           b == x.bb
<1>1. n \in Nat /\ ds \in Seq(CallRecord) /\ Len(ds) = n + 1 /\ ds[n + 1] = x
      /\ (\A k \in 1 .. n : ds[k] = cs[k]) /\ b \in Block
  BY DEF CallRecord
<1>2. c \in [Block -> Seq(Instr)] /\ PhisStay(c, c)
  BY DEF CodeOK, PhisStay
<1>3. \A k \in 1 .. n + 1 : k \in 1 .. n \/ k = n + 1
  BY <1>1
<1> SUFFICES ASSUME NEW v \in Var, NEW k \in 1 .. n + 1, NEW m \in 1 .. DepthTo(c, ds, v, k)
             PROVE  Good(s, c, tt[v][m], ds[k].bb)
  BY <1>1 DEF StacksGood
<1>4. /\ Len(st[v]) = Depth(c, cs, v) /\ \A i \in 1 .. Len(st[v]) : tt[v][i] = st[v][i]
      /\ HasPhi(c, b, v) => tt[v][Len(st[v]) + 1] = PhiName(b, v)
  BY DEF PushesPhis
<1>5. /\ Depth(c, cs, v) \in Nat /\ DepthTo(c, cs, v, n) = Depth(c, cs, v)
      /\ \A i \in 1 .. n : DepthTo(c, cs, v, i) \in Nat /\ DepthTo(c, cs, v, i) <= Depth(c, cs, v)
  BY <1>2, DepthToBelow
<1>6. DepthTo(c, ds, v, n + 1) = Depth(c, cs, v) + IF HasPhi(c, b, v) THEN 1 ELSE 0
  <2>1. DepthTo(c, ds, v, n + 1) = Depth(c, ds, v)
    BY <1>1, <1>2, DepthToBelow
  <2>2. Depth(c, Append(cs, x), v) = Depth(c, cs, v) + IF HasPhi(c, x.bb, v) THEN 1 ELSE 0
    BY DepthPushed
  <2> QED BY <2>1, <2>2
<1> HIDE DEF ds, b, n
<1>7. SameUpTo(c, c, cs, ds, n)
  BY <1>1 DEF SameUpTo, n
<1>8. CASE k \in 1 .. n
  <2>1. AgreeTo(c, cs, st, tt, v, k)
    <3>1. \A i \in 1 .. DepthTo(c, cs, v, k) : i \in 1 .. Depth(c, cs, v)
      BY <1>5, <1>8
    <3> QED BY <3>1, <1>4 DEF AgreeTo
  <2>2. \A i \in 1 .. DepthTo(c, ds, v, k) : Good(s, c, tt[v][i], ds[k].bb)
    BY <2>1, <1>2, <1>7, <1>8, StacksUpTo
  <2> QED BY <2>2
<1>9. CASE k = n + 1
  <2>1. ds[k].bb = b
    BY <1>1, <1>9 DEF b
  <2>2. CASE m \in 1 .. Depth(c, cs, v)
    <3>1. n \in 1 .. n /\ cs # << >>
      <4>1. n # 0
        <5> SUFFICES ASSUME n = 0 PROVE FALSE
          OBVIOUS
        <5>1. Tagged(Gifts(c, cs, v), 0) = {}
          BY DEF Tagged
        <5>2. Depth(c, cs, v) = 0
          BY <5>1, FS_EmptySet DEF Depth, n
        <5> QED BY <5>2, <2>2
      <4> QED BY <4>1, <1>1 DEF n
    <3>2. Good(s, c, st[v][m], cs[n].bb)
      BY <3>1, <2>2, <1>5 DEF StacksGood, n
    <3>3. Good(s, c, st[v][m], b)
      BY <3>1, <3>2, GoodBelow DEF n, b
    <3> QED BY <3>3, <2>1, <2>2, <1>4
  <2>3. CASE m \notin 1 .. Depth(c, cs, v)
    <3>1. HasPhi(c, b, v) /\ m = Depth(c, cs, v) + 1
      <4>1. CASE HasPhi(c, b, v)
        BY <4>1, <2>3, <1>5, <1>6, <1>9
      <4>2. CASE ~HasPhi(c, b, v)
        BY <4>2, <2>3, <1>5, <1>6, <1>9
      <4> QED BY <4>1, <4>2
    <3>2. tt[v][m] = PhiName(b, v)
      BY <3>1, <1>4
    <3>3. Dominates(s, b, b)
      BY DominatesItself DEF b
    <3> QED BY <3>1, <3>2, <3>3, <2>1, <1>1 DEF Good
  <2> QED BY <2>2, <2>3
<1> QED BY <1>3, <1>8, <1>9

\* When the last call goes on to a child what is on the stacks stays good,
LEMMA StacksTop ==
  ASSUME NEW s, NEW c, NEW cs, CallsOK(s, c, cs), cs # << >>, NEW ds, NEW x, TopIs(cs, ds, x),
         x.bb = cs[Len(cs)].bb, x.at = cs[Len(cs)].at, NEW st, StacksGood(s, c, cs, st)
  PROVE  StacksGood(s, c, ds, st)
<1> DEFINE n == Len(cs)
<1>1. /\ cs \in Seq(CallRecord) /\ ds \in Seq(CallRecord) /\ n \in Nat /\ n \in 1 .. n
      /\ Len(ds) = n /\ ds[n] = x /\ \A k \in 1 .. n - 1 : ds[k] = cs[k]
  BY CallsFacts DEF TopIs
<1>2. \A k \in 1 .. n : k = n \/ k \in 1 .. n - 1
  BY <1>1
<1>3. \A k \in 1 .. n : ds[k].bb = cs[k].bb /\ ds[k].at = cs[k].at
  BY <1>1, <1>2
<1>4. SameUpTo(c, c, cs, ds, n)
  BY <1>1, <1>3 DEF SameUpTo
<1> SUFFICES ASSUME NEW v \in Var, NEW k \in 1 .. n PROVE \A m \in 1 .. DepthTo(c, ds, v, k) : Good(s, c, st[v][m], ds[k].bb)
  BY <1>1 DEF StacksGood
<1>5. PhisStay(c, c) /\ AgreeTo(c, cs, st, st, v, k)
  BY DEF PhisStay, AgreeTo
<1> HIDE DEF n
<1> QED BY <1>4, <1>5, StacksUpTo

\* The stacks tt hold what the stacks st held, as far as the calls ds go.
HoldsStill(d, ds, st, tt) == \A v \in Var : \A m \in 1 .. Depth(d, ds, v) : tt[v][m] = st[v][m]

\* and when it ends what is left on them does.
LEMMA StacksEnds ==
  ASSUME NEW s \in [Block -> SUBSET Block], NEW c, NEW cs, CallsOK(s, c, cs),
         NEW ds \in Seq(CallRecord), Ends(c, cs, ds), NEW d \in [Block -> Seq(Instr)], PhisStay(c, d),
         Elsewhere(c, d, cs),
         NEW st, NEW tt, StacksGood(s, c, cs, st),
         HoldsStill(d, ds, st, tt)
  PROVE  StacksGood(s, d, ds, tt)
<1> DEFINE n == Len(cs)
<1>1. /\ cs \in Seq(CallRecord) /\ n \in Nat /\ n \in 1 .. n
      /\ Len(ds) = n - 1 /\ \A k \in 1 .. n - 1 : ds[k] = cs[k]
  BY CallsFacts DEF Ends
<1>2. \A k \in 1 .. n - 1 : k \in 1 .. n /\ cs[k].bb \in Block /\ cs[k].bb # cs[n].bb
  <2>1. \A k \in 1 .. n - 1 : k \in 1 .. n
    BY <1>1
  <2> QED BY <2>1, <1>1, CallsFacts
<1>3. SameUpTo(c, d, cs, ds, n - 1)
  <2>1. \A k \in 1 .. n - 1 : ds[k].bb = cs[k].bb /\ ds[k].at = cs[k].at /\ d[cs[k].bb] = c[cs[k].bb]
    BY <1>1, <1>2 DEF Elsewhere
  <2>2. n - 1 \in Nat /\ n - 1 <= n /\ n - 1 <= Len(ds)
    BY <1>1
  <2> QED BY <2>1, <2>2, <1>1 DEF SameUpTo
<1> SUFFICES ASSUME NEW v \in Var, NEW k \in 1 .. n - 1
             PROVE  \A m \in 1 .. DepthTo(d, ds, v, k) : Good(s, d, tt[v][m], ds[k].bb)
  BY <1>1 DEF StacksGood
<1>4. DepthTo(d, ds, v, k) = DepthTo(c, cs, v, k)
  <2> HIDE DEF n
  <2> QED BY <1>3, DepthUpTo
<1>5. DepthTo(d, ds, v, k) \in Nat /\ DepthTo(d, ds, v, k) <= Depth(d, ds, v) /\ Depth(d, ds, v) \in Nat
  BY <1>1, DepthToBelow
<1>6. AgreeTo(c, cs, st, tt, v, k)
  <2>1. \A m \in 1 .. DepthTo(d, ds, v, k) : m \in 1 .. Depth(d, ds, v)
    BY <1>5
  <2> QED BY <2>1, <1>4 DEF AgreeTo, HoldsStill
<1> HIDE DEF n
<1> QED BY <1>3, <1>6, StacksUpTo

-----------------------------------------------------------------------------
(* Operands, from step to step.                                            *)

\* A load other than the one handled stays ahead.
LEMMA LoadAheadStays ==
  ASSUME NEW s \in [Block -> SUBSET Block], NEW c \in [Block -> Seq(Instr)], NEW cs, CallsOK(s, c, cs),
         TreeOK(s, cs), NEW ds, NEW x, Advances(cs, ds, x), NEW d, SameShape(c, d),
         NEW y, NEW b, NEW i, LoadAhead(s, c, cs, y, b, i),
         LET top == cs[Len(cs)]
         IN  top.at \in DOMAIN c[top.bb] /\ c[top.bb][top.at].op = "load" => c[top.bb][top.at].id # y
  PROVE  LoadAhead(s, d, ds, y, b, i)
<1> DEFINE top == cs[Len(cs)]
<1>1. PICK e \in Block : \E j \in DOMAIN c[e] :
        /\ c[e][j].op = "load" /\ c[e][j].id = y
        /\ Dominates(s, e, b) /\ (e = b => j < i)
        /\ Ahead(s, cs, e, j)
  BY DEF LoadAhead
<1>2. PICK j \in DOMAIN c[e] :
        /\ c[e][j].op = "load" /\ c[e][j].id = y
        /\ Dominates(s, e, b) /\ (e = b => j < i)
        /\ Ahead(s, cs, e, j)
  BY <1>1
<1>3. j \in DOMAIN d[e] /\ d[e][j].op = "load" /\ d[e][j].id = y /\ j \in Nat
  BY <1>2 DEF SameShape
<1>4. ~(e = top.bb /\ j = top.at)
  BY <1>2
<1>5. Ahead(s, ds, e, j) <=> Ahead(s, cs, e, j) /\ ~(e = cs[Len(cs)].bb /\ j = cs[Len(cs)].at)
  BY <1>3, AheadAdvances
<1>6. Ahead(s, ds, e, j)
  BY <1>2, <1>4, <1>5
<1> QED BY <1>2, <1>3, <1>6 DEF LoadAhead

\* Operands stay as they are while no load is handled.
LEMMA OperandsAdvance ==
  ASSUME NEW s \in [Block -> SUBSET Block], NEW c \in [Block -> Seq(Instr)], NEW cs, CallsOK(s, c, cs),
         TreeOK(s, cs), NEW ds, NEW x, Advances(cs, ds, x), NEW d, SameShape(c, d),
         \A b \in Block : \A i \in DOMAIN c[b] : d[b][i].arg = c[b][i].arg,
         LET top == cs[Len(cs)]
         IN  ~(top.at \in DOMAIN c[top.bb] /\ c[top.bb][top.at].op = "load"),
         OperandsOK(s, c, cs)
  PROVE  OperandsOK(s, d, ds)
<1> SUFFICES ASSUME NEW b \in Reached(s), NEW i \in DOMAIN d[b], d[b][i].op \in {"store", "output"}
             PROVE  Good(s, d, d[b][i].arg, b) \/ LoadAhead(s, d, ds, d[b][i].arg, b, i)
  BY DEF OperandsOK
<1>1. b \in Block
  BY ReachedClosed
<1>2. i \in DOMAIN c[b] /\ c[b][i].op \in {"store", "output"} /\ d[b][i].arg = c[b][i].arg
  BY <1>1 DEF SameShape
<1> DEFINE y == c[b][i].arg
<1>3. Good(s, c, y, b) \/ LoadAhead(s, c, cs, y, b, i)
  BY <1>2 DEF OperandsOK
<1>4. CASE Good(s, c, y, b)
  BY <1>2, <1>4, SameShapePhis, GoodStays
<1>5. CASE LoadAhead(s, c, cs, y, b, i)
  <2> HIDE DEF y
  <2>1. LoadAhead(s, d, ds, y, b, i)
    BY <1>5, LoadAheadStays
  <2> QED BY <1>2, <2>1 DEF y
<1> QED BY <1>3, <1>4, <1>5

\* The load that is handled is replaced by a value that is good in its block:
\* what is its operand gets a good one.
LEMMA OperandsReplaced ==
  ASSUME NEW s \in [Block -> SUBSET Block], NEW c, CodeOK(c), NEW cs, CallsOK(s, c, cs),
         TreeOK(s, cs), NEW ds, NEW x, Advances(cs, ds, x), NEW b, NEW j, NEW new \in Value,
         b = cs[Len(cs)].bb, j = cs[Len(cs)].at, j \in DOMAIN c[b], c[b][j].op = "load",
         Good(s, c, new, b), OperandsOK(s, c, cs)
  PROVE  OperandsOK(s, ReplaceUses(c, c[b][j].id, new), ds)
<1> DEFINE old == c[b][j].id
           d == ReplaceUses(c, old, new)
<1> HIDE DEF old
<1>1. SameShape(c, d) /\ \A e \in Block : \A i \in DOMAIN c[e] : d[e][i].arg = Replaced(c[e][i].arg, old, new)
  BY ReplaceUsesShape
<1> USE DEF old
<1> HIDE DEF d
<1> SUFFICES ASSUME NEW e \in Reached(s), NEW i \in DOMAIN d[e], d[e][i].op \in {"store", "output"}
             PROVE  Good(s, d, d[e][i].arg, e) \/ LoadAhead(s, d, ds, d[e][i].arg, e, i)
  BY DEF OperandsOK, d
<1>2. e \in Block /\ b \in Block /\ c \in [Block -> Seq(Instr)]
  BY ReachedClosed, CallsFacts DEF CodeOK, Advances
<1>3. i \in DOMAIN c[e] /\ c[e][i].op \in {"store", "output"} /\ d[e][i].arg = Replaced(c[e][i].arg, old, new)
  BY <1>1, <1>2 DEF SameShape
<1>4. PhisStay(c, d) /\ old[1] = "load"
  BY <1>1, <1>2, SameShapePhis DEF CodeOK
<1> DEFINE y == c[e][i].arg
<1>5. Good(s, c, y, e) \/ LoadAhead(s, c, cs, y, e, i)
  BY <1>3 DEF OperandsOK
<1>6. CASE y = old
  <2>1. ~Good(s, c, y, e)
    BY <1>4, <1>6, GoodIsNoLoad
  <2>2. PICK f \in Block : \E k \in DOMAIN c[f] : c[f][k].op = "load" /\ c[f][k].id = y /\ Dominates(s, f, e)
    BY <1>5, <2>1 DEF LoadAhead
  <2>3. f = b
    BY <1>2, <1>6, <2>2 DEF CodeOK
  <2>4. Good(s, c, new, e)
    BY <2>2, <2>3, GoodBelow
  <2>5. Good(s, d, new, e)
    BY <1>4, <2>4, GoodStays
  <2> QED BY <1>3, <1>6, <2>5 DEF Replaced
<1>7. CASE y # old
  <2>1. d[e][i].arg = y
    BY <1>3, <1>7 DEF Replaced
  <2>2. CASE Good(s, c, y, e)
    BY <1>4, <2>1, <2>2, GoodStays
  <2>3. CASE LoadAhead(s, c, cs, y, e, i)
    <3> DEFINE top == cs[Len(cs)]
    <3>1. top.at \in DOMAIN c[top.bb] /\ c[top.bb][top.at].op = "load" => c[top.bb][top.at].id # y
      BY <1>7
    <3> HIDE DEF y, old
    <3>2. LoadAhead(s, d, ds, y, e, i)
      BY <1>1, <1>2, <2>3, <3>1, LoadAheadStays
    <3> QED BY <2>1, <3>2
  <2> QED BY <1>5, <2>2, <2>3
<1> QED BY <1>6, <1>7

\* When a call begins nothing changes for them.
LEMMA OperandsEnters ==
  ASSUME NEW s \in [Block -> SUBSET Block], NEW c \in [Block -> Seq(Instr)], NEW cs, CallsOK(s, c, cs),
         TreeOK(s, cs), NEW ds, NEW b, Enters(s, cs, ds, b), OperandsOK(s, c, cs)
  PROVE  OperandsOK(s, c, ds)
<1>1. \A p \in Block : \A j \in Nat \ {0} : Ahead(s, ds, p, j) <=> Ahead(s, cs, p, j)
  BY AheadEnters
<1>2. \A p \in Block : \A j \in DOMAIN c[p] : j \in Nat \ {0}
  <2> TAKE p \in Block
  <2>1. c[p] \in Seq(Instr)
    OBVIOUS
  <2> QED BY <2>1
<1>3. \A p \in Block : \A j \in DOMAIN c[p] : Ahead(s, ds, p, j) <=> Ahead(s, cs, p, j)
  BY <1>1, <1>2
<1>4. \A y, e, i : LoadAhead(s, c, cs, y, e, i) => LoadAhead(s, c, ds, y, e, i)
  <2> SUFFICES ASSUME NEW y, NEW e, NEW i, LoadAhead(s, c, cs, y, e, i) PROVE LoadAhead(s, c, ds, y, e, i)
    OBVIOUS
  <2> QED BY <1>3 DEF LoadAhead
<1> QED BY <1>4 DEF OperandsOK

\* When one ends, no load of its block is ahead.
LEMMA OperandsEnds ==
  ASSUME NEW s \in [Block -> SUBSET Block], NEW c \in [Block -> Seq(Instr)], NEW cs, CallsOK(s, c, cs),
         TreeOK(s, cs), NEW ds, Ends(c, cs, ds), NEW places, KeepsPhis(c, places),
         \A b \in Block : b # cs[Len(cs)].bb => LeftOf(c, places)[b] = c[b],
         OperandsOK(s, c, cs)
  PROVE  OperandsOK(s, LeftOf(c, places), ds)
<1> DEFINE d == LeftOf(c, places)
           t == cs[Len(cs)].bb
<1>1. /\ \A q \in Block : \A j \in Nat : q # t => (Ahead(s, ds, q, j) <=> Ahead(s, cs, q, j))
      /\ \A j \in Nat : j < cs[Len(cs)].at => ~Ahead(s, cs, t, j)
  BY AheadEnds
<1>2. t \in Block /\ cs[Len(cs)].at = Len(c[t]) + 2
  BY CallsFacts DEF Ends
<1>3. PhisStay(c, d) /\ \A b \in Block : b # t => d[b] = c[b]
  BY LeftPhis
<1>4. d[t] \in Seq(Instr) /\ Keeps(d[t], c[t], places[t]) /\ places[t] \in SUBSET DOMAIN c[t]
  BY <1>2, LeftInOrder DEF KeepsPhis
<1>5. \A b \in Block : \A j \in DOMAIN c[b] : j \in 1 .. Len(c[b]) /\ j \in Nat /\ Len(c[b]) \in Nat
  <2> TAKE b \in Block
  <2>1. c[b] \in Seq(Instr)
    OBVIOUS
  <2> QED BY <2>1
<1> HIDE DEF d, t
\* a load ahead is not in the block that is over
<1>6. ASSUME NEW y, NEW b \in Block, NEW i, NEW k, LoadAhead(s, c, cs, y, b, i), b # t => k = i
      PROVE  LoadAhead(s, d, ds, y, b, k)
  <2>1. PICK e \in Block : \E j \in DOMAIN c[e] :
          c[e][j].op = "load" /\ c[e][j].id = y /\ Dominates(s, e, b) /\ (e = b => j < i) /\ Ahead(s, cs, e, j)
    BY <1>6 DEF LoadAhead
  <2>2. PICK j \in DOMAIN c[e] :
          c[e][j].op = "load" /\ c[e][j].id = y /\ Dominates(s, e, b) /\ (e = b => j < i) /\ Ahead(s, cs, e, j)
    BY <2>1
  <2>3. e # t
    <3> SUFFICES ASSUME e = t PROVE FALSE
      OBVIOUS
    <3>1. j < cs[Len(cs)].at /\ j \in Nat
      BY <1>2, <1>5
    <3> QED BY <3>1, <2>2, <1>1
  <2>4. d[e] = c[e] /\ Ahead(s, ds, e, j) /\ (e = b => j < k)
    BY <2>2, <2>3, <1>1, <1>3, <1>5, <1>6
  <2> QED BY <2>2, <2>4 DEF LoadAhead
<1> SUFFICES ASSUME NEW b \in Reached(s), NEW i \in DOMAIN d[b], d[b][i].op \in {"store", "output"}
             PROVE  Good(s, d, d[b][i].arg, b) \/ LoadAhead(s, d, ds, d[b][i].arg, b, i)
  BY DEF OperandsOK, d
<1>7. b \in Block
  BY ReachedClosed
<1>8. PICK k \in DOMAIN c[b] : d[b][i] = c[b][k] /\ (b # t => k = i)
  <2>1. CASE b # t
    BY <2>1, <1>3, <1>7
  <2>2. CASE b = t
    <3>1. PICK g \in [DOMAIN d[t] -> places[t]] : \A n \in DOMAIN d[t] : d[t][n] = c[t][g[n]]
      BY <1>4 DEF Keeps
    <3>2. g[i] \in DOMAIN c[b] /\ d[b][i] = c[b][g[i]]
      BY <3>1, <2>2, <1>4
    <3> QED BY <3>2, <2>2
  <2> QED BY <2>1, <2>2
<1> DEFINE y == c[b][k].arg
<1>9. Good(s, c, y, b) \/ LoadAhead(s, c, cs, y, b, k)
  BY <1>8 DEF OperandsOK
<1>10. d[b][i].arg = y
  BY <1>8
<1> HIDE DEF y
<1>11. CASE Good(s, c, y, b)
  BY <1>3, <1>10, <1>11, GoodStays
<1>12. CASE LoadAhead(s, c, cs, y, b, k)
  <2>1. b # t => i = k
    BY <1>8
  <2>2. LoadAhead(s, d, ds, y, b, i)
    BY <1>6, <1>7, <1>12, <2>1
  <2> QED BY <1>10, <2>2
<1> QED BY <1>9, <1>11, <1>12

-----------------------------------------------------------------------------
(* What is to be deleted, from step to step.                               *)

\* A call passes an instruction: a load or store goes into wait_delete.
LEMMA DeletesAdvance ==
  ASSUME NEW s \in [Block -> SUBSET Block], NEW c \in [Block -> Seq(Instr)], NEW cs, CallsOK(s, c, cs),
         TreeOK(s, cs), NEW ds, NEW x, Advances(cs, ds, x), NEW d, SameShape(c, d),
         LET top == cs[Len(cs)]
         IN  /\ top.wait_delete \subseteq x.wait_delete
             /\ top.at \in DOMAIN c[top.bb] /\ c[top.bb][top.at].op \in {"load", "store"} => top.at \in x.wait_delete,
         DeletesOK(s, c, cs)
  PROVE  DeletesOK(s, d, ds)
<1> DEFINE n == Len(cs)
<1>1. /\ n \in Nat /\ n \in 1 .. n /\ Len(ds) = n /\ ds[n] = x /\ \A k \in 1 .. n - 1 : ds[k] = cs[k]
      /\ x.bb = cs[n].bb /\ x.at = cs[n].at + 1
  BY CallsFacts DEF Advances, TopIs
<1>2. \A k \in 1 .. n : k = n \/ k \in 1 .. n - 1
  BY <1>1
<1>3. \A k \in 1 .. n : ds[k].bb = cs[k].bb /\ cs[k].bb \in Block /\ cs[k].at \in Nat
  BY <1>1, <1>2, CallsFacts
<1>4. \A p : Pending(s, ds, p) <=> Pending(s, cs, p)
  BY AheadAdvances
<1>5. ASSUME NEW k \in 1 .. n, NEW i \in DOMAIN d[ds[k].bb], i < ds[k].at, d[ds[k].bb][i].op \in {"load", "store"}
      PROVE  i \in ds[k].wait_delete
  <2> DEFINE b == cs[k].bb
  <2>1. i \in DOMAIN c[b] /\ c[b][i].op \in {"load", "store"} /\ i \in Nat
    BY <1>3, <1>5 DEF SameShape
  <2> HIDE DEF b
  <2>2. CASE k = n
    <3>1. i < cs[n].at \/ i = cs[n].at
      BY <1>1, <1>3, <1>5, <2>1, <2>2
    <3>2. CASE i < cs[n].at
      BY <3>2, <2>1, <2>2, <1>1 DEF DeletesOK, b
    <3>3. CASE i = cs[n].at
      BY <3>3, <2>1, <2>2, <1>1 DEF b
    <3> QED BY <3>1, <3>2, <3>3
  <2>3. CASE k \in 1 .. n - 1
    BY <2>1, <2>3, <1>1, <1>5 DEF DeletesOK, b
  <2> QED BY <1>2, <2>2, <2>3
<1>6. ASSUME NEW p \in Reached(s), ~Pending(s, ds, p), \A k \in 1 .. n : ds[k].bb # p, NEW i \in DOMAIN d[p]
      PROVE  d[p][i].op \notin {"load", "store"}
  <2>1. p \in Block
    BY ReachedClosed
  <2>2. i \in DOMAIN c[p] /\ d[p][i].op = c[p][i].op
    BY <2>1 DEF SameShape
  <2>3. ~Pending(s, cs, p) /\ \A k \in 1 .. n : cs[k].bb # p
    BY <1>3, <1>4, <1>6
  <2> QED BY <2>2, <2>3 DEF DeletesOK
<1> QED BY <1>1, <1>5, <1>6 DEF DeletesOK

\* A call that begins has passed nothing.
LEMMA DeletesEnters ==
  ASSUME NEW s \in [Block -> SUBSET Block], NEW c \in [Block -> Seq(Instr)], NEW cs, CallsOK(s, c, cs),
         TreeOK(s, cs), NEW below, NEW x, NEW y, cs # << >>,
         TopIs(cs, below, y), y.bb = cs[Len(cs)].bb, y.at = cs[Len(cs)].at,
         y.wait_delete = cs[Len(cs)].wait_delete, x.at = 1, x \in CallRecord,
         Enters(s, cs, Append(below, x), x.bb), DeletesOK(s, c, cs)
  PROVE  DeletesOK(s, c, Append(below, x))
<1> DEFINE n == Len(cs)
           ds == Append(below, x)
<1>1. /\ n \in Nat /\ n \in 1 .. n /\ below \in Seq(CallRecord) /\ Len(below) = n /\ below[n] = y
      /\ \A k \in 1 .. n - 1 : below[k] = cs[k]
  BY CallsFacts DEF TopIs
<1>2. Len(ds) = n + 1 /\ ds[n + 1] = x /\ \A k \in 1 .. n : ds[k] = below[k]
  BY <1>1
<1>3. \A p \in Block : Pending(s, cs, p) <=> Pending(s, ds, p) \/ p = x.bb
  BY AheadEnters
<1> HIDE DEF ds, n
<1>4. \A k \in 1 .. n + 1 : k \in 1 .. n \/ k = n + 1
  BY <1>1
<1>5. \A k \in 1 .. n : k = n \/ k \in 1 .. n - 1
  BY <1>1
<1>6. ASSUME NEW k \in 1 .. n
      PROVE  ds[k].bb = cs[k].bb /\ ds[k].at = cs[k].at /\ ds[k].wait_delete = cs[k].wait_delete
  <2>1. CASE k = n
    BY <2>1, <1>1, <1>2 DEF n
  <2>2. CASE k \in 1 .. n - 1
    BY <2>2, <1>1, <1>2
  <2> QED BY <2>1, <2>2, <1>5
<1>7. ASSUME NEW k \in 1 .. n + 1, NEW i \in DOMAIN c[ds[k].bb], i < ds[k].at, c[ds[k].bb][i].op \in {"load", "store"}
      PROVE  i \in ds[k].wait_delete
  <2>1. CASE k \in 1 .. n
    <3>1. ds[k].bb = cs[k].bb /\ ds[k].at = cs[k].at /\ ds[k].wait_delete = cs[k].wait_delete
      BY <1>6, <2>1
    <3> QED BY <3>1, <2>1, <1>7 DEF DeletesOK, n
  <2>2. CASE k = n + 1
    <3>1. x.bb \in Block /\ ds[k] = x
      BY <2>2, <1>2 DEF CallRecord
    <3>2. c[x.bb] \in Seq(Instr)
      BY <3>1
    <3>3. i \in Nat \ {0}
      BY <3>1, <3>2
    <3>4. i < 1
      BY <3>1, <1>7
    <3> QED BY <3>3, <3>4
  <2> QED BY <2>1, <2>2, <1>4
<1>8. ASSUME NEW p \in Reached(s), ~Pending(s, ds, p), \A k \in 1 .. n + 1 : ds[k].bb # p, NEW i \in DOMAIN c[p]
      PROVE  c[p][i].op \notin {"load", "store"}
  <2>1. p \in Block
    BY ReachedClosed
  <2>2. p # x.bb
    <3>1. n + 1 \in 1 .. n + 1
      BY <1>1
    <3> QED BY <3>1, <1>2, <1>8
  <2>3. \A k \in 1 .. n : k \in 1 .. n + 1
    BY <1>1
  <2>4. ~Pending(s, cs, p) /\ \A k \in 1 .. n : cs[k].bb # p
    BY <2>1, <2>2, <2>3, <1>3, <1>6, <1>8
  <2> QED BY <2>4 DEF DeletesOK, n
<1>9. DeletesOK(s, c, ds)
  BY <1>2, <1>7, <1>8 DEF DeletesOK
<1> QED BY <1>9 DEF ds

\* When a call ends what it passed is deleted.
LEMMA DeletesEnds ==
  ASSUME NEW s \in [Block -> SUBSET Block], NEW c \in [Block -> Seq(Instr)], NEW cs, CallsOK(s, c, cs),
         TreeOK(s, cs), NEW ds, Ends(c, cs, ds), NEW places, KeepsPhis(c, places),
         \A b \in Block : b # cs[Len(cs)].bb => LeftOf(c, places)[b] = c[b],
         places[cs[Len(cs)].bb] \cap cs[Len(cs)].wait_delete = {},
         DeletesOK(s, c, cs)
  PROVE  DeletesOK(s, LeftOf(c, places), ds)
<1> DEFINE d == LeftOf(c, places)
           n == Len(cs)
           t == cs[n].bb
<1>1. /\ n \in Nat /\ n \in 1 .. n /\ Len(ds) = n - 1 /\ \A k \in 1 .. n - 1 : ds[k] = cs[k]
  BY CallsFacts DEF Ends
<1>2. t \in Block /\ cs[n].at = Len(c[t]) + 2
  BY <1>1, CallsFacts DEF Ends
<1>3. \A p : Pending(s, ds, p) <=> Pending(s, cs, p)
  BY AheadEnds
<1>4. d[t] \in Seq(Instr) /\ Keeps(d[t], c[t], places[t]) /\ places[t] \in SUBSET DOMAIN c[t]
  BY <1>2, LeftInOrder DEF KeepsPhis
<1>5. \A b \in Block : b # t => d[b] = c[b]
  OBVIOUS
<1>6. \A k \in 1 .. n - 1 : k \in 1 .. n /\ cs[k].bb \in Block /\ cs[k].bb # t
  <2>1. \A k \in 1 .. n - 1 : k \in 1 .. n
    BY <1>1
  <2> QED BY <2>1, <1>1, CallsFacts
<1>7. ASSUME NEW i \in DOMAIN c[t], i \in places[t] PROVE c[t][i].op \notin {"load", "store"}
  <2>1. i \notin cs[n].wait_delete
    BY <1>7
  <2>2. i < cs[n].at
    <3>1. c[t] \in Seq(Instr)
      BY <1>2
    <3>2. i \in 1 .. Len(c[t]) /\ Len(c[t]) \in Nat
      BY <3>1
    <3> HIDE DEF n, t
    <3> QED BY <3>2, <1>2
  <2> QED BY <2>1, <2>2, <1>1 DEF DeletesOK
<1> HIDE DEF d
<1>8. ASSUME NEW k \in 1 .. n - 1, NEW i \in DOMAIN d[ds[k].bb], i < ds[k].at, d[ds[k].bb][i].op \in {"load", "store"}
      PROVE  i \in ds[k].wait_delete
  <2>1. ds[k] = cs[k] /\ k \in 1 .. n /\ d[cs[k].bb] = c[cs[k].bb]
    BY <1>1, <1>5, <1>6
  <2> QED BY <2>1, <1>8 DEF DeletesOK
<1>9. ASSUME NEW p \in Reached(s), ~Pending(s, ds, p), \A k \in 1 .. n - 1 : ds[k].bb # p, NEW i \in DOMAIN d[p]
      PROVE  d[p][i].op \notin {"load", "store"}
  <2>1. p \in Block
    BY ReachedClosed
  <2>2. CASE p = t
    <3> HIDE DEF t
    <3>1. PICK g \in [DOMAIN d[t] -> places[t]] : \A m \in DOMAIN d[t] : d[t][m] = c[t][g[m]]
      BY <1>4 DEF Keeps
    <3>2. g[i] \in DOMAIN c[t] /\ g[i] \in places[t] /\ d[p][i] = c[t][g[i]]
      BY <3>1, <2>2, <1>4, <1>9
    <3> QED BY <3>2, <1>7
  <2>3. CASE p # t
    <3>1. d[p] = c[p]
      BY <2>1, <2>3, <1>5
    <3>2. \A k \in 1 .. n : k = n \/ k \in 1 .. n - 1
      BY <1>1
    <3>3. \A k \in 1 .. n : cs[k].bb # p
      BY <3>2, <2>3, <1>1, <1>9
    <3>4. ~Pending(s, cs, p)
      BY <1>3, <1>9
    <3> QED BY <3>1, <3>3, <3>4, <1>9 DEF DeletesOK
  <2> QED BY <2>2, <2>3
<1>10. DeletesOK(s, d, ds)
  BY <1>1, <1>8, <1>9 DEF DeletesOK
<1> QED BY <1>10 DEF d

-----------------------------------------------------------------------------
(* The steps of re_name keep it.                                           *)

\* What is known during re_name.
LEMMA NamingFacts ==
  ASSUME StackInv, NamingOK, pc = "re_name"
  PROVE  /\ ProgOK /\ ReNameOK /\ prog.succ \in [Block -> SUBSET Block]
         /\ CodeOK(code) /\ code \in [Block -> Seq(Instr)]
         /\ CallsOK(prog.succ, code, calls) /\ TreeOK(prog.succ, calls) /\ calls \in Seq(CallRecord)
         /\ \A v \in Var : var_val_stack[v] \in Seq(Value) /\ Len(var_val_stack[v]) = Depth(code, calls, v)
         /\ Initialised => Named(prog.succ, code, calls, var_val_stack)
         /\ Initialised /\ calls # << >> => StoredFirst(code)
<1>1. ProgOK /\ ReNameOK /\ TreeOK(prog.succ, calls) /\ (Initialised => Named(prog.succ, code, calls, var_val_stack))
  BY DEF StackInv, NamingOK
<1>2. CodeOK(code) /\ CallsOK(prog.succ, code, calls) /\ StacksOK /\ (Initialised /\ calls # << >> => StoredFirst(code))
  BY <1>1 DEF ReNameOK
<1>3. prog.succ \in [Block -> SUBSET Block]
  BY <1>1, ProgFacts
<1>4. code \in [Block -> Seq(Instr)] /\ calls \in Seq(CallRecord)
  BY <1>2 DEF CodeOK, CallsOK
<1>5. \A v \in Var : var_val_stack[v] \in Seq(Value) /\ Len(var_val_stack[v]) = Depth(code, calls, v)
  BY <1>2 DEF StacksOK
<1> QED BY <1>1, <1>2, <1>3, <1>4, <1>5

\* A call goes one step on.
LEMMA CallAdvances ==
  ASSUME ProgOK, ReNameOK, pc = "re_name", calls # << >>, Top.at \in 1 .. End + 1,
         NEW deleted \in SUBSET Nat,
         \A i \in deleted : i = Top.at /\ Top.at \in 1 .. End /\ Here.op \in {"load", "store"},
         Advance(deleted), SameShape(code, code'), prog' = prog
  PROVE  /\ \E x : Advances(calls, calls', x) /\ x.wait_delete = Top.wait_delete \cup deleted
         /\ \A v \in Var : Depth(code', calls', v) = Depth(code, calls, v) + IF StoresHere(v) THEN 1 ELSE 0
<1>1. LET x == [Top EXCEPT !.at = @ + 1, !.wait_delete = @ \cup deleted]
      IN  /\ x.bb = Top.bb /\ x.at = Top.at + 1
          /\ x.wait_delete = Top.wait_delete \cup deleted /\ x.children = Top.children
          /\ TopIs(calls, calls', x)
  BY AdvanceShape
<1>2. \E x : Advances(calls, calls', x) /\ x.wait_delete = Top.wait_delete \cup deleted
  <2> DEFINE x == [Top EXCEPT !.at = @ + 1, !.wait_delete = @ \cup deleted]
  <2>1. /\ x.bb = Top.bb /\ x.at = Top.at + 1
        /\ x.wait_delete = Top.wait_delete \cup deleted /\ x.children = Top.children
        /\ TopIs(calls, calls', x)
    BY <1>1
  <2> HIDE DEF x
  <2>2. Advances(calls, calls', x)
    BY <2>1 DEF Advances, Top
  <2> QED BY <2>1, <2>2
<1>3. \A v \in Var : Depth(code', calls', v) = Depth(code, calls, v) + IF StoresHere(v) THEN 1 ELSE 0
  BY AdvanceShape
<1> QED BY <1>2, <1>3

\* The top of a stack is good in the block of the last call.
LEMMA TopOfStack ==
  ASSUME StackInv, NamingOK, pc = "re_name", calls # << >>, Initialised, NEW v \in Var, var_val_stack[v] # << >>
  PROVE  Last(var_val_stack[v]) \in Value /\ Good(prog.succ, code, Last(var_val_stack[v]), Top.bb)
<1> DEFINE st == var_val_stack[v]
           n == Len(calls)
<1>1. st \in Seq(Value) /\ Len(st) = Depth(code, calls, v) /\ StacksGood(prog.succ, code, calls, var_val_stack)
      /\ n \in 1 .. n
  BY NamingFacts, TopFacts DEF Named
<1>2. DepthTo(code, calls, v, n) = Depth(code, calls, v)
  BY NamingFacts, DepthToBelow
<1>3. Len(st) \in 1 .. Len(st) /\ Last(st) = st[Len(st)]
  BY <1>1 DEF Last
<1>4. Good(prog.succ, code, st[Len(st)], calls[n].bb)
  BY <1>1, <1>2, <1>3 DEF StacksGood
<1>5. Last(st) \in Value
  BY <1>1, <1>3
<1> QED BY <1>3, <1>4, <1>5 DEF Top

\* The last call goes one step on: what is left to show is that phis and operands
\* stay good.
LEMMA StepOnNaming ==
  ASSUME StackInv, NamingOK, pc = "re_name", calls # << >>, Top.at \in 1 .. End + 1,
         NEW deleted \in SUBSET Nat,
         \A i \in deleted : i = Top.at /\ Top.at \in 1 .. End /\ Here.op \in {"load", "store"},
         Advance(deleted), SameShape(code, code'), UNCHANGED <<prog, pc>>,
         Initialised =>
           /\ Top.at \in 1 .. End /\ Here.op \in {"load", "store"} => Top.at \in deleted
           /\ \A v \in Var :
                /\ \A m \in 1 .. Len(var_val_stack[v]) : var_val_stack'[v][m] = var_val_stack[v][m]
                /\ StoresHere(v) => Good(prog.succ, code, var_val_stack'[v][Len(var_val_stack[v]) + 1], Top.bb)
           /\ PhisServed(prog.succ, code', calls') /\ PairsGood(prog.succ, code')
           /\ OperandsOK(prog.succ, code', calls')
  PROVE  NamingOK'
<1> DEFINE s == prog.succ
<1>1. /\ ProgOK /\ ReNameOK /\ s \in [Block -> SUBSET Block]
      /\ code \in [Block -> Seq(Instr)] /\ CallsOK(s, code, calls) /\ TreeOK(s, calls)
      /\ \A v \in Var : Len(var_val_stack[v]) = Depth(code, calls, v)
      /\ Initialised => Named(s, code, calls, var_val_stack)
  BY NamingFacts
<1>2. /\ \E x : Advances(calls, calls', x) /\ x.wait_delete = Top.wait_delete \cup deleted
      /\ \A v \in Var : Depth(code', calls', v) = Depth(code, calls, v) + IF StoresHere(v) THEN 1 ELSE 0
  BY <1>1, CallAdvances
<1>3. PICK x : Advances(calls, calls', x) /\ x.wait_delete = Top.wait_delete \cup deleted
  BY <1>2
<1>4. prog' = prog /\ Initialised' = Initialised
  BY DEF Initialised
<1> HIDE DEF s
<1>5. TreeOK(s, calls')
  BY <1>1, <1>3, AheadAdvances
<1>6. ASSUME Initialised PROVE StacksGood(s, code', calls', var_val_stack')
  <2>1. StacksGood(s, code, calls, var_val_stack)
    BY <1>1, <1>6 DEF Named
  <2>2. Pushes(code, calls, var_val_stack, var_val_stack')
    BY <1>1, <1>6 DEF Pushes
  <2>3. ASSUME NEW v \in Var
        PROVE  Depth(code', calls', v) = Depth(code, calls, v) \/
               /\ Depth(code', calls', v) = Depth(code, calls, v) + 1
               /\ Good(s, code, var_val_stack'[v][Depth(code, calls, v) + 1], calls[Len(calls)].bb)
    <3>1. Depth(code, calls, v) \in Nat
      BY <1>1, DepthToBelow DEF CallsOK
    <3>2. Depth(code', calls', v) = Depth(code, calls, v) + IF StoresHere(v) THEN 1 ELSE 0
      BY <1>2
    <3>3. CASE ~StoresHere(v)
      BY <3>1, <3>2, <3>3
    <3>4. CASE StoresHere(v)
      <4>1. Good(s, code, var_val_stack'[v][Depth(code, calls, v) + 1], calls[Len(calls)].bb)
        BY <1>1, <1>6, <3>4 DEF Top, s
      <4> QED BY <4>1, <3>2, <3>4
    <3> QED BY <3>3, <3>4
  <2> QED BY <1>1, <1>3, <2>1, <2>2, <2>3, StacksAdvance
<1>7. ASSUME Initialised PROVE DeletesOK(s, code', calls')
  <2> DEFINE top == calls[Len(calls)]
  <2>1. DeletesOK(s, code, calls)
    BY <1>1, <1>7 DEF Named
  <2>2. top.wait_delete \subseteq x.wait_delete
    BY <1>3 DEF Top
  <2>3. top.at \in DOMAIN code[top.bb] /\ code[top.bb][top.at].op \in {"load", "store"} => top.at \in x.wait_delete
    <3> SUFFICES ASSUME Top.at \in DOMAIN code[Top.bb], Here.op \in {"load", "store"} PROVE Top.at \in x.wait_delete
      BY DEF Top, Here
    <3>1. Top.at \in 1 .. End
      BY <1>1, TopFacts
    <3> QED BY <3>1, <1>3, <1>7
  <2> HIDE DEF top
  <2> QED BY <1>1, <1>3, <2>1, <2>2, <2>3, DeletesAdvance DEF top
<1>8. ASSUME Initialised PROVE Named(s, code', calls', var_val_stack')
  BY <1>6, <1>7, <1>8 DEF Named, s
<1> QED BY <1>4, <1>5, <1>8 DEF NamingOK, s

\* No load that comes before the instruction at hand is ahead.
LEMMA NothingAhead ==
  ASSUME NEW s \in [Block -> SUBSET Block], NEW c \in [Block -> Seq(Instr)], NEW cs, CallsOK(s, c, cs),
         TreeOK(s, cs), cs # << >>, NEW y,
         LoadAhead(s, c, cs, y, cs[Len(cs)].bb, cs[Len(cs)].at)
  PROVE  FALSE
<1> DEFINE n == Len(cs)
           b == cs[n].bb
<1>1. PICK e \in Block : \E j \in DOMAIN c[e] :
        Dominates(s, e, b) /\ (e = b => j < cs[n].at) /\ Ahead(s, cs, e, j)
  BY DEF LoadAhead
<1>2. PICK j \in DOMAIN c[e] : Dominates(s, e, b) /\ (e = b => j < cs[n].at) /\ Ahead(s, cs, e, j)
  BY <1>1
<1>3. j \in Nat /\ j <= Len(c[e]) /\ Len(c[e]) \in Nat
  <2>1. c[e] \in Seq(Instr)
    OBVIOUS
  <2> QED BY <2>1
<1>4. ~Pending(s, cs, e)
  BY <1>2, NotPendingAbove
<1>5. PICK k \in 1 .. n : cs[k].bb = e /\ cs[k].at <= j
  BY <1>2, <1>4 DEF Ahead
<1>6. n \in Nat /\ cs[k].at \in Nat /\ cs[n].at \in Nat /\ (k < n => cs[k].at = Len(c[cs[k].bb]) + 2)
  BY CallsFacts
<1> HIDE DEF n
<1>7. CASE k = n
  BY <1>2, <1>3, <1>5, <1>6, <1>7
<1>8. CASE k # n
  <2>1. k < n
    BY <1>6, <1>8
  <2> QED BY <2>1, <1>3, <1>5, <1>6
<1> QED BY <1>7, <1>8

\* The call at hand, and what a step of it leaves as it is.
LEMMA HereFacts ==
  ASSUME StackInv, NamingOK, pc = "re_name", calls # << >>, Top.at \in 1 .. End
  PROVE  /\ Top.at \in 1 .. End + 1 /\ Top.at \in DOMAIN code[Top.bb] /\ Top.bb \in Block /\ Here \in Instr
         /\ Top.at # Len(code[Top.bb]) + 1 /\ Top.at \in Nat
         /\ Here.op # "output" => Here.var \in Var
         /\ Here.op = "load" => Here.id[1] = "load"
<1>1. ProgOK /\ ReNameOK /\ CodeOK(code)
  BY NamingFacts
<1>2. Top.at \in DOMAIN code[Top.bb] /\ Here \in Instr /\ Top.bb \in Block /\ End \in Nat /\ End = Len(code[Top.bb])
      /\ Top.at \in Nat
  BY <1>1, TopFacts DEF Here
<1>3. Top.at \in 1 .. End + 1 /\ Top.at # End + 1
  BY <1>2
<1> QED BY <1>1, <1>2, <1>3 DEF CodeOK, Here

\* A step that changes no operand keeps the phis and the operands good.
LEMMA NothingReplaced ==
  ASSUME StackInv, NamingOK, pc = "re_name", calls # << >>, Top.at \in 1 .. End, Here.op # "load",
         Advance(IF Here.op = "store" THEN {Top.at} ELSE {}), UNCHANGED <<prog, code>>, Initialised
  PROVE  /\ PhisServed(prog.succ, code', calls') /\ PairsGood(prog.succ, code')
         /\ OperandsOK(prog.succ, code', calls')
<1> DEFINE s == prog.succ
           deleted == IF Here.op = "store" THEN {Top.at} ELSE {}
<1>1. /\ ProgOK /\ ReNameOK /\ CodeOK(code) /\ s \in [Block -> SUBSET Block] /\ code \in [Block -> Seq(Instr)]
      /\ CallsOK(s, code, calls) /\ TreeOK(s, calls) /\ Named(s, code, calls, var_val_stack)
  BY NamingFacts
<1>2. SameShape(code, code) /\ code' = code /\ prog' = prog
  BY <1>1, SameAsItself
<1>3. PICK x : Advances(calls, calls', x)
  <2>1. /\ deleted \in SUBSET Nat
        /\ \A i \in deleted : i = Top.at /\ Top.at \in 1 .. End /\ Here.op \in {"load", "store"}
    BY HereFacts
  <2>2. Top.at \in 1 .. End + 1
    BY HereFacts
  <2>3. Advance(deleted) /\ SameShape(code, code') /\ prog' = prog
    BY <1>2
  <2> HIDE DEF deleted
  <2> QED BY <1>1, <2>1, <2>2, <2>3, CallAdvances
<1> DEFINE top == calls[Len(calls)]
<1>4. /\ ~(top.at \in DOMAIN code[top.bb] /\ code[top.bb][top.at].op = "load")
      /\ top.at # Len(code[top.bb]) + 1
  BY HereFacts DEF Here, Top
<1> HIDE DEF s
<1>5. OperandsOK(s, code, calls')
  BY <1>1, <1>2, <1>3, <1>4, OperandsAdvance DEF Named
<1>6. Served(s, code, calls') = Served(s, code, calls)
  <2>1. calls[Len(calls)].at # Len(code[calls[Len(calls)].bb]) + 1
    BY <1>4
  <2>2. SameShape(code, code) /\ Advances(calls, calls', x)
    BY <1>2, <1>3
  <2> QED BY <1>1, <2>1, <2>2, ServedSame
<1> QED BY <1>1, <1>2, <1>5, <1>6 DEF Named, PhisServed, s

\* A phi, an alloca or an output is passed.
LEMMA ReNameOtherNames ==
  ASSUME StackInv, NamingOK, ReNameOther
  PROVE  NamingOK'
<1>1. /\ pc = "re_name" /\ calls # << >> /\ Top.at \in 1 .. End /\ Here.op \notin {"load", "store"}
      /\ Advance({}) /\ UNCHANGED <<prog, code, pc, var_val_stack>>
  BY DEF ReNameOther, Naming
<1>2. Top.at \in 1 .. End + 1 /\ \A v \in Var : ~StoresHere(v)
  BY <1>1, HereFacts DEF StoresHere
<1>3. SameShape(code, code')
  BY <1>1, NamingFacts, SameAsItself
<1>4. Initialised =>
        /\ PhisServed(prog.succ, code', calls') /\ PairsGood(prog.succ, code')
        /\ OperandsOK(prog.succ, code', calls')
  BY <1>1, NothingReplaced
<1>5. /\ {} \in SUBSET Nat
      /\ \A i \in {} : i = Top.at /\ Top.at \in 1 .. End /\ Here.op \in {"load", "store"}
  OBVIOUS
<1> QED BY <1>1, <1>2, <1>3, <1>4, <1>5, StepOnNaming

\* A store is passed: what it stores is good where it is.
LEMMA ReNameStoreNames ==
  ASSUME StackInv, NamingOK, ReNameStore
  PROVE  NamingOK'
<1>1. /\ pc = "re_name" /\ calls # << >> /\ Top.at \in 1 .. End /\ Here.op = "store"
      /\ Advance({Top.at}) /\ UNCHANGED <<prog, code, pc>>
      /\ var_val_stack' = [var_val_stack EXCEPT ![Here.var] = Append(@, Here.arg)]
  BY DEF ReNameStore, Naming
<1>2. Top.at \in 1 .. End + 1 /\ Here.var \in Var /\ Top.at \in Nat /\ Top.bb \in Block /\ Top.at \in DOMAIN code[Top.bb]
  BY <1>1, HereFacts
<1>3. SameShape(code, code')
  BY <1>1, NamingFacts, SameAsItself
<1>4. Initialised =>
        /\ PhisServed(prog.succ, code', calls') /\ PairsGood(prog.succ, code')
        /\ OperandsOK(prog.succ, code', calls')
  BY <1>1, NothingReplaced
<1>5. /\ {Top.at} \in SUBSET Nat
      /\ \A i \in {Top.at} : i = Top.at /\ Top.at \in 1 .. End /\ Here.op \in {"load", "store"}
  BY <1>1, <1>2
<1>6. ASSUME Initialised PROVE Good(prog.succ, code, Here.arg, Top.bb)
  <2>1. /\ OperandsOK(prog.succ, code, calls) /\ prog.succ \in [Block -> SUBSET Block]
        /\ CallsOK(prog.succ, code, calls) /\ TreeOK(prog.succ, calls)
        /\ code \in [Block -> Seq(Instr)]
    BY <1>1, <1>6, NamingFacts DEF Named
  <2>2. Top.bb \in Reached(prog.succ) /\ Top = calls[Len(calls)]
    BY <1>1, <2>1, CallsFacts DEF Top
  <2>3. Good(prog.succ, code, Here.arg, Top.bb) \/ LoadAhead(prog.succ, code, calls, Here.arg, Top.bb, Top.at)
    BY <1>1, <1>2, <2>1, <2>2 DEF OperandsOK, Here
  <2>4. ASSUME LoadAhead(prog.succ, code, calls, Here.arg, Top.bb, Top.at) PROVE FALSE
    BY <1>1, <2>1, <2>2, <2>4, NothingAhead
  <2> QED BY <2>3, <2>4
<1>7. ASSUME NEW v \in Var
      PROVE  /\ \A m \in 1 .. Len(var_val_stack[v]) : var_val_stack'[v][m] = var_val_stack[v][m]
             /\ StoresHere(v) => var_val_stack'[v][Len(var_val_stack[v]) + 1] = Here.arg
  <2>1. var_val_stack[v] \in Seq(Value) /\ var_val_stack \in [Var -> Seq(Value)]
    BY <1>1 DEF StackInv, ReNameOK, StacksOK
  <2>2. CASE v = Here.var
    <3>1. var_val_stack'[v] = Append(var_val_stack[v], Here.arg)
      BY <1>1, <2>1, <2>2
    <3> QED BY <2>1, <3>1
  <2>3. CASE v # Here.var
    BY <1>1, <2>1, <2>3 DEF StoresHere
  <2> QED BY <2>2, <2>3
<1> QED BY <1>1, <1>2, <1>3, <1>4, <1>5, <1>6, <1>7, StepOnNaming

\* A load is passed: its uses get the top of the stack.
LEMMA ReNameLoadNames ==
  ASSUME StackInv, NamingOK, ReNameLoad
  PROVE  NamingOK'
<1> DEFINE s == prog.succ
           b == Top.bb
           j == Top.at
           new == Last(var_val_stack[Here.var])
<1>1. /\ pc = "re_name" /\ calls # << >> /\ Top.at \in 1 .. End /\ Here.op = "load"
      /\ Here.var \in known => /\ var_val_stack[Here.var] # << >>
                               /\ code' = ReplaceUses(code, Here.id, new) /\ Advance({Top.at})
      /\ Here.var \notin known => code' = code /\ Advance({})
      /\ UNCHANGED <<prog, pc, var_val_stack>>
  BY DEF ReNameLoad, Naming
<1>2. /\ Top.at \in 1 .. End + 1 /\ Here.var \in Var /\ j \in Nat /\ b \in Block /\ j \in DOMAIN code[b]
      /\ Here.id[1] = "load" /\ j # Len(code[b]) + 1
  BY <1>1, HereFacts
<1>3. /\ ProgOK /\ ReNameOK /\ CodeOK(code) /\ s \in [Block -> SUBSET Block] /\ code \in [Block -> Seq(Instr)]
      /\ CallsOK(s, code, calls) /\ TreeOK(s, calls)
      /\ Initialised => Named(s, code, calls, var_val_stack) /\ StoredFirst(code)
  BY <1>1, NamingFacts
<1>4. \A v \in Var : ~StoresHere(v)
  BY <1>1 DEF StoresHere
<1>5. Initialised => Here.var \in known
  BY <1>1, <1>2, <1>3, HasValue
<1>6. CASE Here.var \in known
  <2>1. /\ {j} \in SUBSET Nat
        /\ \A i \in {j} : i = Top.at /\ Top.at \in 1 .. End /\ Here.op \in {"load", "store"}
    BY <1>1, <1>2
  <2>2. new \in Value
    <3>1. var_val_stack[Here.var] \in Seq(Value)
      BY <1>1, <1>2, NamingFacts
    <3> QED BY <3>1, <1>1, <1>6 DEF Last
  <2>3. code' = ReplaceUses(code, Here.id, new) /\ Advance({j}) /\ prog' = prog /\ pc' = pc
    BY <1>1, <1>6
  <2>4. SameShape(code, code')
    BY <1>3, <2>2, <2>3, ReplaceUsesShape
  <2>5. PICK x : Advances(calls, calls', x)
    BY <1>1, <1>2, <1>3, <2>1, <2>3, <2>4, CallAdvances
  <2>6. ASSUME Initialised
        PROVE  PhisServed(s, code', calls') /\ PairsGood(s, code') /\ OperandsOK(s, code', calls')
    <3>1. Named(s, code, calls, var_val_stack) /\ Good(s, code, new, b)
      BY <1>1, <1>2, <1>3, <1>6, <2>6, TopOfStack
    <3> DEFINE top == calls[Len(calls)]
    <3>2. b = top.bb /\ j = top.at /\ code[b][j].op = "load" /\ code[b][j].id = Here.id
      BY <1>1 DEF Here, Top
    <3> HIDE DEF s, b, j, new
    <3>3. SamePhis(s, code, code')
      BY <1>2, <1>3, <2>2, <2>3, <3>1, ReplaceSamePhis DEF Named
    <3>4. PhisStay(code, code')
      BY <2>4, SameShapePhis
    <3>5. Served(s, code', calls') = Served(s, code, calls)
      <4>1. calls[Len(calls)].at # Len(code[calls[Len(calls)].bb]) + 1
        BY <1>2, <3>2
      <4>2. SameShape(code, code') /\ Advances(calls, calls', x)
        BY <2>4, <2>5
      <4>3. s \in [Block -> SUBSET Block] /\ code \in [Block -> Seq(Instr)] /\ CallsOK(s, code, calls) /\ TreeOK(s, calls)
        BY <1>3
      <4> QED BY <4>1, <4>2, <4>3, ServedSame
    <3>6. OperandsOK(s, ReplaceUses(code, code[b][j].id, new), calls')
      BY <1>2, <1>3, <2>2, <2>5, <3>1, <3>2, OperandsReplaced DEF Named
    <3>7. OperandsOK(s, code', calls')
      BY <2>3, <3>2, <3>6
    <3> QED BY <1>3, <3>1, <3>3, <3>4, <3>5, <3>7, SamePhisKept DEF Named
  <2> QED BY <1>1, <1>2, <1>4, <2>1, <2>3, <2>4, <2>6, StepOnNaming
<1>7. CASE Here.var \notin known
  <2>1. ~Initialised /\ Advance({}) /\ SameShape(code, code')
    BY <1>1, <1>3, <1>5, <1>7, SameAsItself
  <2>2. /\ {} \in SUBSET Nat
        /\ \A i \in {} : i = Top.at /\ Top.at \in 1 .. End /\ Here.op \in {"load", "store"}
    OBVIOUS
  <2> QED BY <1>1, <1>2, <2>1, <2>2, StepOnNaming
<1> QED BY <1>6, <1>7

\* A load of a variable without a value is passed, or the program crashes.
LEMMA ReNameLoadOfNothingNames ==
  ASSUME StackInv, NamingOK, ReNameLoadOfNothing
  PROVE  NamingOK'
<1>1. /\ pc = "re_name" /\ calls # << >> /\ Top.at \in 1 .. End /\ Here.op = "load" /\ var_val_stack[Here.var] = << >>
      /\ UNCHANGED <<prog, code, var_val_stack>>
      /\ pc' = "undefined" \/ (UNCHANGED pc /\ Advance({Top.at}))
  <2>1. /\ pc = "re_name" /\ calls # << >> /\ Top.at \in 1 .. End /\ Here.op = "load" /\ var_val_stack[Here.var] = << >>
        /\ UNCHANGED <<prog, code, var_val_stack>>
    BY DEF ReNameLoadOfNothing, Naming
  <2>2. CASE Used(Here.id)
    <3>1. pc' = "undefined"
      BY <2>2 DEF ReNameLoadOfNothing
    <3> QED BY <2>1, <3>1
  <2>3. CASE ~Used(Here.id)
    <3>1. UNCHANGED pc /\ Advance({Top.at})
      BY <2>3 DEF ReNameLoadOfNothing
    <3> QED BY <2>1, <3>1
  <2> QED BY <2>2, <2>3
<1>2. Top.at \in 1 .. End + 1 /\ Here.var \in Var /\ Top.at \in Nat
  BY <1>1, HereFacts
<1>3. ~Initialised
  BY <1>1, <1>2, NamingFacts, HasValue
<1>4. CASE pc' = "undefined"
  BY <1>4 DEF NamingOK
<1>5. CASE UNCHANGED pc /\ Advance({Top.at})
  <2>1. SameShape(code, code')
    BY <1>1, NamingFacts, SameAsItself
  <2>2. /\ {Top.at} \in SUBSET Nat
        /\ \A i \in {Top.at} : i = Top.at /\ Top.at \in 1 .. End /\ Here.op \in {"load", "store"}
    BY <1>1, <1>2
  <2> QED BY <1>1, <1>2, <1>3, <1>5, <2>1, <2>2, StepOnNaming
<1> QED BY <1>1, <1>4, <1>5

\* The phis of the successors get a pair each.
LEMMA FillSuccessorsNames ==
  ASSUME StackInv, NamingOK, FillSuccessors
  PROVE  NamingOK'
<1> DEFINE s == prog.succ
           b == Top.bb
           top == [v \in Var |-> Last(var_val_stack[v])]
<1>1. /\ pc = "re_name" /\ calls # << >> /\ Top.at \in End + 1 .. End + 1
      /\ UNCHANGED <<prog, var_val_stack>>
  BY DEF FillSuccessors, Fill, Naming
<1>2. /\ ProgOK /\ ReNameOK /\ CodeOK(code) /\ s \in [Block -> SUBSET Block] /\ code \in [Block -> Seq(Instr)]
      /\ CallsOK(s, code, calls) /\ TreeOK(s, calls)
      /\ Initialised => Named(s, code, calls, var_val_stack) /\ StoredFirst(code)
  BY <1>1, NamingFacts
<1>3. End \in Nat /\ Top.at = End + 1 /\ End = Len(code[b]) /\ b \in Block
  <2>1. End \in Nat /\ End = Len(code[b]) /\ b \in Block
    BY <1>1, <1>2, TopFacts
  <2> QED BY <1>1, <2>1
<1>4. Top.at \in 1 .. End + 1 /\ Top.at \notin 1 .. End /\ \A v \in Var : ~StoresHere(v)
  BY <1>3 DEF StoresHere
<1>5. CASE pc' = "assert"
  BY <1>5 DEF NamingOK
<1>6. CASE pc' # "assert"
  <2>1. /\ code' = Filled(code, s[b], known, top, b)
        /\ \A d \in s[b] \cap Block : \A k \in DOMAIN code[d] :
             Gets(code[d][k], known) => top[code[d][k].var] \in Value
        /\ Advance({}) /\ UNCHANGED pc
    BY <1>6, FillSuccessorsKeeps
  <2> DEFINE succs == s[b]
  <2>2. SameShape(code, code')
    <3> HIDE DEF s, b, top, succs
    <3>1. \A d \in succs \cap Block : \A k \in DOMAIN code[d] :
            Gets(code[d][k], known) => top[code[d][k].var] \in Value
      BY <2>1 DEF succs
    <3>2. SameShape(code, Filled(code, succs, known, top, b))
      BY <1>2, <1>3, <3>1, FilledShape
    <3> QED BY <2>1, <3>2 DEF succs
  <2>3. /\ {} \in SUBSET Nat
        /\ \A i \in {} : i = Top.at /\ Top.at \in 1 .. End /\ Here.op \in {"load", "store"}
    OBVIOUS
  <2>4. PICK x : Advances(calls, calls', x)
    BY <1>1, <1>2, <1>4, <2>1, <2>2, <2>3, CallAdvances
  <2>5. ASSUME Initialised
        PROVE  PhisServed(s, code', calls') /\ PairsGood(s, code') /\ OperandsOK(s, code', calls')
    <3>1. Named(s, code, calls, var_val_stack)
      BY <1>2, <2>5
    <3>2. \A v \in Var : var_val_stack[v] # << >> /\ v \in known
      BY <1>1, <1>2, <1>4, <2>5, HasValue
    <3>3. known = Var
      <4>1. known \in SUBSET Var
        BY <1>1 DEF StackInv, ReNameOK, StacksOK
      <4> QED BY <4>1, <3>2
    <3>4. \A v \in Var : top[v] \in Value /\ Good(s, code, top[v], b)
      BY <1>1, <2>5, <3>2, TopOfStack
    <3>5. b = calls[Len(calls)].bb /\ calls[Len(calls)].at = Len(code[b]) + 1
      BY <1>3 DEF Top
    <3> HIDE DEF s, b, top
    <3>6. Fills(s, code, calls, top, code')
      BY <2>1, <3>3, <3>4, <3>5 DEF Fills
    <3>7. /\ PhisServed(s, code', calls') /\ PairsGood(s, code')
          /\ \A e \in Block : \A i \in DOMAIN code[e] : code'[e][i].arg = code[e][i].arg
      BY <1>2, <2>4, <3>1, <3>6, FillsServed DEF Named
    <3> DEFINE last == calls[Len(calls)]
    <3>8. ~(last.at \in DOMAIN code[last.bb] /\ code[last.bb][last.at].op = "load")
      <4>1. code[b] \in Seq(Instr) /\ last.bb = b /\ last.at = Len(code[b]) + 1
        BY <1>2, <1>3, <3>5
      <4>2. last.at \notin DOMAIN code[last.bb]
        <5> HIDE DEF last
        <5> QED BY <4>1
      <4> QED BY <4>2
    <3>9. OperandsOK(s, code', calls')
      BY <1>2, <2>2, <2>4, <3>1, <3>7, <3>8, OperandsAdvance DEF Named
    <3> QED BY <3>7, <3>9
  <2> QED BY <1>1, <1>4, <2>1, <2>2, <2>3, <2>5, StepOnNaming
<1> QED BY <1>5, <1>6

\* A call for a child: it gives what its phis are.
LEMMA ReNameChildNames ==
  ASSUME StackInv, NamingOK, ReNameChild
  PROVE  NamingOK'
<1> DEFINE s == prog.succ
<1>1. /\ pc = "re_name" /\ calls # << >> /\ UNCHANGED <<prog, code, pc>>
  BY DEF ReNameChild, Naming
<1>2. PICK b \in Top.children : Enter(b, [calls EXCEPT ![Len(calls)].children = @ \ {b}])
  BY DEF ReNameChild
<1> DEFINE below == [calls EXCEPT ![Len(calls)].children = @ \ {b}]
           y == [Top EXCEPT !.children = @ \ {b}]
           x == Call(b)
<1>3. /\ ProgOK /\ ReNameOK /\ CodeOK(code) /\ s \in [Block -> SUBSET Block] /\ code \in [Block -> Seq(Instr)]
      /\ CallsOK(s, code, calls) /\ TreeOK(s, calls) /\ calls \in Seq(CallRecord)
      /\ \A v \in Var : var_val_stack[v] \in Seq(Value) /\ Len(var_val_stack[v]) = Depth(code, calls, v)
      /\ Initialised => Named(s, code, calls, var_val_stack)
  BY <1>1, NamingFacts
<1>4. /\ y \in CallRecord /\ y.bb = Top.bb /\ y.at = Top.at
      /\ y.wait_delete = Top.wait_delete /\ y.children = Top.children \ {b}
      /\ TopIs(calls, below, y)
  BY <1>1, <1>3, DropChild DEF Top
<1>5. b \in Block /\ Child(s, Top.bb, b)
  <2>1. Top = calls[Len(calls)] /\ Len(calls) \in 1 .. Len(calls)
    BY <1>1, <1>3, CallsFacts DEF Top
  <2> QED BY <2>1, <1>2, <1>3, CallsFacts
<1>6. x \in CallRecord /\ x.bb = b /\ x.at = 1 /\ x.children = {z \in Block : Child(s, b, z)}
  BY <1>3, <1>5, ChildrenMeaning DEF Call, CallRecord
<1>7. calls' = Append(below, x)
  BY <1>2 DEF Enter
<1> HIDE DEF below, x, y
<1>8. Enters(s, calls, calls', b)
  BY <1>1, <1>2, <1>4, <1>6, <1>7 DEF Enters, Top
<1>9. TreeOK(s, calls')
  BY <1>3, <1>8, AheadEnters
<1>10. ASSUME Initialised PROVE Named(s, code, calls', var_val_stack')
  <2>1. Named(s, code, calls, var_val_stack)
    BY <1>3, <1>10
  <2>2. PhisServed(s, code, calls')
    <3>1. Served(s, code, calls') = Served(s, code, calls)
      BY <1>3, <1>8, ServedEnters
    <3> QED BY <2>1, <3>1 DEF Named, PhisServed
  <2>3. OperandsOK(s, code, calls')
    BY <1>3, <1>8, <2>1, OperandsEnters DEF Named
  <2>4. DeletesOK(s, code, calls')
    <3>1. y.bb = calls[Len(calls)].bb /\ y.at = calls[Len(calls)].at
          /\ y.wait_delete = calls[Len(calls)].wait_delete
      BY <1>4 DEF Top
    <3>2. Enters(s, calls, Append(below, x), x.bb)
      BY <1>6, <1>7, <1>8
    <3>3. DeletesOK(s, code, calls)
      BY <2>1 DEF Named
    <3>4. DeletesOK(s, code, Append(below, x))
      BY <1>1, <1>3, <1>4, <1>6, <3>1, <3>2, <3>3, DeletesEnters
    <3> QED BY <3>4, <1>7
  <2>5. StacksGood(s, code, calls', var_val_stack')
    <3>1. y.bb = calls[Len(calls)].bb /\ y.at = calls[Len(calls)].at /\ StacksGood(s, code, calls, var_val_stack)
      BY <1>4, <2>1 DEF Top, Named
    <3>2. StacksGood(s, code, below, var_val_stack)
      BY <1>1, <1>3, <1>4, <3>1, StacksTop
    <3>3. ASSUME NEW v \in Var
          PROVE  /\ Len(var_val_stack[v]) = Depth(code, below, v)
                 /\ \A m \in 1 .. Len(var_val_stack[v]) : var_val_stack'[v][m] = var_val_stack[v][m]
                 /\ HasPhi(code, b, v) => var_val_stack'[v][Len(var_val_stack[v]) + 1] = PhiName(b, v)
      <4>1. Depth(code, below, v) = Depth(code, calls, v)
        <5>1. /\ code \in [Block -> Seq(Instr)] /\ calls \in Seq(CallRecord) /\ calls # << >>
              /\ TopIs(calls, below, y) /\ y.bb = calls[Len(calls)].bb /\ y.at = calls[Len(calls)].at
          BY <1>1, <1>3, <1>4, <3>1
        <5> QED BY <5>1, DepthStays
      <4>2. var_val_stack[v] \in Seq(Value)
        BY <1>3
      <4>3. CASE HasPhi(code, b, v)
        <5>1. var_val_stack'[v] = Append(var_val_stack[v], PhiName(b, v))
          BY <1>2, <4>3 DEF Enter, PhiVars
        <5> QED BY <1>3, <4>1, <4>2, <5>1
      <4>4. CASE ~HasPhi(code, b, v)
        <5>1. var_val_stack'[v] = var_val_stack[v]
          BY <1>2, <4>4 DEF Enter, PhiVars
        <5> QED BY <1>3, <4>1, <4>4, <5>1
      <4> QED BY <4>3, <4>4
    <3>4. PushesPhis(code, below, x.bb, var_val_stack, var_val_stack')
      BY <3>3, <1>6 DEF PushesPhis
    <3>5. below \in Seq(CallRecord) /\ Len(below) = Len(calls) /\ below[Len(calls)] = y
      BY <1>4 DEF TopIs
    <3>6. x.bb \in Reached(s) /\ Dominates(s, below[Len(below)].bb, x.bb)
      <4>1. Dominates(s, Top.bb, b) /\ b \in Reached(s)
        <5>1. Top.bb \in Block
          BY <1>1, <1>3, TopFacts
        <5> QED BY <1>3, <1>5, <5>1, ProgFacts, DominatorReached DEF Child
      <4> QED BY <4>1, <3>5, <1>4, <1>6
    <3> QED BY <1>3, <1>6, <1>7, <3>2, <3>4, <3>5, <3>6, StacksEnter
  <2> QED BY <2>1, <2>2, <2>3, <2>4, <2>5 DEF Named
<1>11. Initialised' = Initialised
  BY <1>1 DEF Initialised
<1> QED BY <1>1, <1>9, <1>10, <1>11 DEF NamingOK, s

\* The end of a call: what is left of its block is what the block keeps.
LEMMA EndReNameNames ==
  ASSUME StackInv, NamingOK, EndReName
  PROVE  NamingOK'
<1> DEFINE s == prog.succ
           places == [b \in Block |-> IF b = Top.bb THEN DOMAIN code[b] \ Top.wait_delete ELSE DOMAIN code[b]]
<1>1. /\ pc = "re_name" /\ calls # << >> /\ Top.at \in End + 2 .. End + 2 /\ Top.children = {}
      /\ var_val_stack' = [v \in Var |-> SubSeq(var_val_stack[v], 1, Len(var_val_stack[v]) - Pushed(Top.bb, v))]
      /\ calls' = Front(calls) /\ UNCHANGED <<prog, pc>>
  BY DEF EndReName, EndReNameWith, Naming
<1>2. /\ ProgOK /\ ReNameOK /\ CodeOK(code) /\ s \in [Block -> SUBSET Block] /\ code \in [Block -> Seq(Instr)]
      /\ CallsOK(s, code, calls) /\ TreeOK(s, calls) /\ calls \in Seq(CallRecord)
      /\ \A v \in Var : var_val_stack[v] \in Seq(Value)
      /\ Initialised => Named(s, code, calls, var_val_stack)
  BY <1>1, NamingFacts
<1>3. code' = LeftOf(code, places) /\ KeepsPhis(code, places) /\ \A b \in Block : b # Top.bb => code'[b] = code[b]
  BY <1>2, EndReNameLeaves
<1>4. places[Top.bb] \cap Top.wait_delete = {}
  <2>1. Top.bb \in Block
    BY <1>1, <1>2, TopFacts
  <2> QED BY <2>1
<1> HIDE DEF places
<1>5. Top.at = Len(code[Top.bb]) + 2
  <2>1. Top.at \in Nat /\ End \in Nat /\ End = Len(code[Top.bb])
    BY <1>1, <1>2, TopFacts
  <2> QED BY <1>1, <2>1
<1>6. Ends(code, calls, calls') /\ calls' \in Seq(CallRecord)
  <2>1. /\ CallsOK(s, code', calls') /\ Len(calls') = Len(calls) - 1
        /\ \A k \in 1 .. Len(calls) - 1 : calls'[k] = calls[k]
    BY <1>1, <1>2, <1>3, PopCall DEF Top
  <2> QED BY <1>1, <1>5, <2>1 DEF Ends, CallsOK, Top
<1>7. CodeOK(code') /\ code' \in [Block -> Seq(Instr)]
  <2>1. CodeOK(code')
    BY <1>2, <1>3, LeftOK
  <2> QED BY <2>1 DEF CodeOK
<1>8. TreeOK(s, calls')
  BY <1>2, <1>6, AheadEnds
<1>9. StackInv'
  BY EndReNameKeeps
<1>10. pc' = "re_name" => \A v \in Var : Len(var_val_stack'[v]) = Depth(code', calls', v)
  BY <1>9 DEF StackInv, ReNameOK, StacksOK
<1>11. ASSUME Initialised PROVE Named(s, code', calls', var_val_stack')
  <2>1. Named(s, code, calls, var_val_stack)
    BY <1>2, <1>11
  <2>2. Elsewhere(code, code', calls)
    BY <1>3 DEF Top, Elsewhere
  <2>3. SamePhis(s, code, code') /\ PhisStay(code, code')
    BY <1>2, <1>3, LeftSamePhis, LeftPhis
  <2>4. Served(s, code', calls') = Served(s, code, calls)
    <3> HIDE DEF s
    <3>1. /\ s \in [Block -> SUBSET Block] /\ CodeOK(code) /\ CallsOK(s, code, calls) /\ TreeOK(s, calls)
          /\ Ends(code, calls, calls') /\ CodeOK(code') /\ Elsewhere(code, code', calls)
      BY <1>2, <1>6, <1>7, <2>2
    <3> QED BY <3>1, ServedEnds
  <2>5. PhisServed(s, code', calls') /\ PairsGood(s, code')
    BY <1>2, <2>1, <2>3, <2>4, SamePhisKept DEF Named
  <2>6. OperandsOK(s, code', calls')
    <3>1. \A b \in Block : b # calls[Len(calls)].bb => LeftOf(code, places)[b] = code[b]
      BY <1>3, <2>2 DEF Elsewhere
    <3>2. OperandsOK(s, LeftOf(code, places), calls')
      BY <1>2, <1>3, <1>6, <2>1, <3>1, OperandsEnds DEF Named
    <3> QED BY <1>3, <3>2
  <2>7. DeletesOK(s, code', calls')
    <3>1. \A b \in Block : b # calls[Len(calls)].bb => LeftOf(code, places)[b] = code[b]
      BY <1>3, <2>2 DEF Elsewhere
    <3>2. places[calls[Len(calls)].bb] \cap calls[Len(calls)].wait_delete = {}
      BY <1>4 DEF Top
    <3>3. DeletesOK(s, LeftOf(code, places), calls')
      BY <1>2, <1>3, <1>6, <2>1, <3>1, <3>2, DeletesEnds DEF Named
    <3> QED BY <1>3, <3>3
  <2>8. ASSUME NEW v \in Var, NEW m \in 1 .. Depth(code', calls', v)
        PROVE  var_val_stack'[v][m] = var_val_stack[v][m]
    <3> DEFINE st == var_val_stack[v]
               p == Pushed(Top.bb, v)
               n == Len(st) - p
    <3>1. var_val_stack'[v] = SubSeq(st, 1, n)
      BY <1>1
    <3>2. Len(var_val_stack'[v]) = Depth(code', calls', v)
      BY <1>1, <1>10
    <3>3. Len(st) \in Nat /\ Len(st) = Depth(code, calls, v) /\ st \in Seq(Value)
      BY <1>1, <1>2, NamingFacts, DepthToBelow
    <3>4. p \in Nat /\ p <= Len(st)
      <4>1. p = Cardinality(Values(code[Top.bb], v))
        BY DEF Pushed, Values
      <4>2. Ending(code, calls, Top.bb, code')
        BY <1>1, <1>3, <1>5 DEF Ending, Top
      <4>3. Cardinality(Values(code[Top.bb], v)) \in 0 .. Depth(code, calls, v)
        BY <1>2, <4>2, DepthPopped
      <4> HIDE DEF p
      <4> QED BY <3>3, <4>1, <4>3
    <3> HIDE DEF st, p
    <3>5. n \in Nat /\ n <= Len(st)
      BY <3>3, <3>4
    <3>6. \A i \in 1 .. n : st[i] \in Value
      BY <3>3, <3>5
    <3> HIDE DEF n
    <3>7. /\ Len(SubSeq(st, 1, n)) = n
          /\ \A i \in 1 .. n : SubSeq(st, 1, n)[i] = st[i]
      BY <3>5
    <3> QED BY <3>1, <3>2, <3>7 DEF st
  <2>9. StacksGood(s, code', calls', var_val_stack')
    <3>1. HoldsStill(code', calls', var_val_stack, var_val_stack')
      BY <2>8 DEF HoldsStill
    <3> HIDE DEF s
    <3>2. /\ s \in [Block -> SUBSET Block] /\ CallsOK(s, code, calls)
          /\ Ends(code, calls, calls') /\ calls' \in Seq(CallRecord) /\ code' \in [Block -> Seq(Instr)]
          /\ PhisStay(code, code') /\ StacksGood(s, code, calls, var_val_stack)
      BY <1>2, <1>6, <1>7, <2>1, <2>3 DEF Named
    <3> QED BY <2>2, <3>1, <3>2, StacksEnds
  <2> QED BY <2>5, <2>6, <2>7, <2>9 DEF Named
<1>12. Initialised' = Initialised
  BY <1>1 DEF Initialised
<1> QED BY <1>1, <1>8, <1>11, <1>12 DEF NamingOK, s

\* At the call for the entry everything that is reached is still to be handled.
LEMMA AllAhead ==
  ASSUME NEW s \in [Block -> SUBSET Block], NEW x, x.bb = Entry, x.at = 1,
         x.children = {z \in Block : Child(s, Entry, z)}, NEW cs, Len(cs) = 1, cs[1] = x
  PROVE  /\ TreeOK(s, cs)
         /\ \A p \in Reached(s) : p # Entry => Pending(s, cs, p)
         /\ \A p \in Reached(s) : \A j \in Nat : j > 0 => Ahead(s, cs, p, j)
<1>1. 1 .. Len(cs) = {1} /\ 1 .. Len(cs) - 1 = {} /\ Entry \in Block /\ Reached(s) \in SUBSET Block
  BY BlockAssumption, ReachedClosed
<1>2. ASSUME NEW p \in Reached(s), p # Entry PROVE Pending(s, cs, p)
  <2>1. PICK z \in Block : Child(s, Entry, z) /\ Dominates(s, z, p)
    BY <1>1, <1>2, DominatesItself, ChildExists
  <2> QED BY <2>1, <1>1 DEF Pending
<1>3. ASSUME NEW p \in Reached(s), NEW j \in Nat, j > 0 PROVE Ahead(s, cs, p, j)
  <2>1. CASE p = Entry
    BY <2>1, <1>1, <1>3 DEF Ahead
  <2>2. CASE p # Entry
    BY <2>2, <1>2 DEF Ahead
  <2> QED BY <2>1, <2>2
<1> QED BY <1>1, <1>2, <1>3 DEF TreeOK

\* Where an instruction of the program is once the phis are placed.
LEMMA PlacedOperand ==
  ASSUME ProgOK, code \in [Block -> Seq(Instr)], \A b \in Block : Placed(b),
         NEW b \in Reached(prog.succ), NEW i \in DOMAIN code[b], code[b][i].op \in {"store", "output"},
         NEW cs, \A p \in Reached(prog.succ) : \A j \in Nat : j > 0 => Ahead(prog.succ, cs, p, j)
  PROVE  \/ code[b][i].arg[1] = "const"
         \/ LoadAhead(prog.succ, code, cs, code[b][i].arg, b, i)
<1> DEFINE s == prog.succ
           x == code[b][i].arg
<1>1. /\ b \in Block /\ s \in [Block -> SUBSET Block] /\ Reached(s) \subseteq Block
      /\ prog.code \in [Block -> Seq(Instr)] /\ WellFormed(prog)
  BY ProgFacts
<1>2. \A e \in Block : \E n \in Nat :
        /\ Len(code[e]) = n + Len(prog.code[e]) /\ Len(prog.code[e]) \in Nat
        /\ \A k \in 1 .. n : code[e][k].op = "phi"
        /\ \A k \in DOMAIN prog.code[e] : code[e][n + k] = prog.code[e][k]
  BY PlacedCode
<1>3. ASSUME NEW e \in Block, NEW j \in DOMAIN prog.code[e]
      PROVE  \E k \in DOMAIN code[e] : k > 0 /\ k \in Nat /\ code[e][k] = prog.code[e][j]
  <2>1. PICK n \in Nat : /\ Len(code[e]) = n + Len(prog.code[e]) /\ Len(prog.code[e]) \in Nat
                         /\ \A k \in DOMAIN prog.code[e] : code[e][n + k] = prog.code[e][k]
    BY <1>2
  <2>2. code[e] \in Seq(Instr) /\ prog.code[e] \in Seq(Instr)
    BY <1>1
  <2>3. n + j \in DOMAIN code[e] /\ n + j > 0 /\ n + j \in Nat
    <3> DEFINE len == Len(prog.code[e])
    <3>1. n \in Nat /\ len \in Nat /\ j \in 1 .. len /\ DOMAIN code[e] = 1 .. n + len
      BY <2>1, <2>2
    <3> HIDE DEF len
    <3> QED BY <3>1
  <2> QED BY <2>1, <2>3
<1>4. PICK n \in Nat : /\ Len(code[b]) = n + Len(prog.code[b]) /\ Len(prog.code[b]) \in Nat
                       /\ \A k \in 1 .. n : code[b][k].op = "phi"
                       /\ \A k \in DOMAIN prog.code[b] : code[b][n + k] = prog.code[b][k]
  BY <1>1, <1>2
<1>5. code[b] \in Seq(Instr) /\ prog.code[b] \in Seq(Instr)
  BY <1>1
<1>6. i - n \in DOMAIN prog.code[b] /\ code[b][i] = prog.code[b][i - n] /\ i - n \in Nat
  <2>1. i \in 1 .. n + Len(prog.code[b])
    BY <1>4, <1>5
  <2>2. ~(i <= n)
    BY <1>4, <2>1
  <2>3. i - n \in 1 .. Len(prog.code[b]) /\ n + (i - n) = i
    BY <2>1, <2>2, <1>4
  <2>4. i - n \in DOMAIN prog.code[b]
    BY <2>3, <1>5
  <2> QED BY <1>4, <2>3, <2>4
<1>7. IsOperand(prog, x, b, i - n)
  BY <1>1, <1>6 DEF WellFormed
<1>8. CASE \E j \in 1 .. i - n - 1 : prog.code[b][j].op = "load" /\ prog.code[b][j].id = x
  <2>1. PICK j \in 1 .. i - n - 1 : prog.code[b][j].op = "load" /\ prog.code[b][j].id = x
    BY <1>8
  <2>2. j \in DOMAIN prog.code[b] /\ n + j \in DOMAIN code[b] /\ n + j < i /\ n + j \in Nat /\ n + j > 0
    <3>1. i - n \in 1 .. Len(prog.code[b]) /\ i \in Nat
      BY <1>5, <1>6
    <3> DEFINE len == Len(prog.code[b])
    <3>2. /\ n \in Nat /\ len \in Nat /\ i - n \in 1 .. len /\ i \in Nat /\ j \in 1 .. i - n - 1
          /\ DOMAIN prog.code[b] = 1 .. len /\ DOMAIN code[b] = 1 .. n + len
      BY <3>1, <1>4, <1>5
    <3> HIDE DEF len
    <3>3. j \in 1 .. len /\ n + j \in 1 .. n + len /\ n + j < i /\ n + j \in Nat /\ n + j > 0
      BY <3>2
    <3> QED BY <3>2, <3>3
  <2>3. code[b][n + j].op = "load" /\ code[b][n + j].id = x
    BY <1>4, <2>1, <2>2
  <2>4. Dominates(s, b, b) /\ Ahead(s, cs, b, n + j)
    BY <1>1, <2>2, DominatesItself
  <2> QED BY <1>1, <2>2, <2>3, <2>4 DEF LoadAhead
<1>9. CASE \E e \in Block : /\ StrictlyDominates(Doms(s), e, b)
                            /\ \E j \in DOMAIN prog.code[e] : prog.code[e][j].op = "load" /\ prog.code[e][j].id = x
  <2>1. PICK e \in Block : /\ StrictlyDominates(Doms(s), e, b)
                           /\ \E j \in DOMAIN prog.code[e] : prog.code[e][j].op = "load" /\ prog.code[e][j].id = x
    BY <1>9
  <2>2. PICK j \in DOMAIN prog.code[e] : prog.code[e][j].op = "load" /\ prog.code[e][j].id = x
    BY <2>1
  <2>3. PICK k \in DOMAIN code[e] : k > 0 /\ k \in Nat /\ code[e][k] = prog.code[e][j]
    BY <1>3
  <2>4. e # b /\ Dominates(s, e, b) /\ e \in Reached(s)
    BY <1>1, <2>1, DomsMeaning, DominatorReached DEF StrictlyDominates
  <2>5. Ahead(s, cs, e, k)
    BY <2>3, <2>4
  <2> QED BY <2>2, <2>3, <2>4, <2>5 DEF LoadAhead
<1> QED BY <1>7, <1>8, <1>9 DEF IsOperand

\* The first call.
LEMMA StartReNameNames ==
  ASSUME StackInv, StartReName
  PROVE  NamingOK'
<1> DEFINE s == prog.succ
           x == Call(Entry)
<1>1. /\ ProgOK /\ PlacingOK /\ pc = "generate_phi" /\ Enter(Entry, << >>) /\ UNCHANGED <<prog, code>>
  BY DEF StackInv, StartReName
<1>2. /\ var_val_stack = [v \in Var |-> << >>]
      /\ code \in [Block -> Seq(Instr)] /\ \A b \in Block : Placed(b)
  BY <1>1 DEF PlacingOK
<1>3. /\ CodeOK(code) /\ (\A b \in Block : \A i \in DOMAIN code[b] : code[b][i].pairs = << >>)
      /\ s \in [Block -> SUBSET Block] /\ Entry \in Block /\ Reached(s) \subseteq Block /\ Entry \in Reached(s)
  BY <1>1, <1>2, PlacedCode, ProgFacts
<1>4. x \in CallRecord /\ x.bb = Entry /\ x.at = 1 /\ x.children = {z \in Block : Child(s, Entry, z)}
  BY <1>1, <1>3, ChildrenMeaning DEF Call, CallRecord
<1>5. calls' = Append(<< >>, x)
  BY <1>1 DEF Enter
<1> HIDE DEF x
<1>6. Len(calls') = 1 /\ calls'[1] = x /\ << >> \in Seq(CallRecord) /\ 1 .. Len(calls') = {1}
  BY <1>4, <1>5
<1>7. /\ TreeOK(s, calls')
      /\ \A p \in Reached(s) : p # Entry => Pending(s, calls', p)
      /\ \A p \in Reached(s) : \A j \in Nat : j > 0 => Ahead(s, calls', p, j)
  BY <1>3, <1>4, <1>6, AllAhead
<1>8. PhisServed(s, code, calls')
  <2>1. Served(s, code, calls') = {}
    <3>1. \A p \in Reached(s) : Len(code[p]) + 1 \in Nat /\ Len(code[p]) + 1 > 0
      <4> TAKE p \in Reached(s)
      <4>1. Len(code[p]) \in Nat
        BY <1>2, <1>3
      <4> QED BY <4>1
    <3> QED BY <3>1, <1>7 DEF Served
  <2>2. ASSUME NEW d \in Reached(s), NEW i \in DOMAIN code[d] PROVE PairsFor(code[d][i], {})
    <3>1. code[d][i].pairs = << >> /\ DOMAIN << >> = {}
      BY <1>3
    <3> QED BY <3>1 DEF PairsFor, IsInjective
  <2> QED BY <2>1, <2>2 DEF PhisServed
<1>9. PairsGood(s, code)
  <2>1. \A d \in Reached(s) : \A i \in DOMAIN code[d] : DOMAIN code[d][i].pairs = {}
    BY <1>3
  <2> QED BY <2>1 DEF PairsGood
<1>10. OperandsOK(s, code, calls')
  <2>1. \A b \in Reached(s) : \A i \in DOMAIN code[b] :
          code[b][i].op \in {"store", "output"} =>
            code[b][i].arg[1] = "const" \/ LoadAhead(s, code, calls', code[b][i].arg, b, i)
    BY <1>1, <1>2, <1>7, PlacedOperand
  <2> QED BY <2>1 DEF OperandsOK, Good
<1>11. StacksGood(s, code, calls', var_val_stack')
  <2>1. StacksGood(s, code, << >>, var_val_stack)
    BY DEF StacksGood
  <2>2. ASSUME NEW v \in Var
        PROVE  /\ Len(var_val_stack[v]) = Depth(code, << >>, v)
               /\ \A m \in 1 .. Len(var_val_stack[v]) : var_val_stack'[v][m] = var_val_stack[v][m]
               /\ HasPhi(code, Entry, v) => var_val_stack'[v][Len(var_val_stack[v]) + 1] = PhiName(Entry, v)
    <3>1. Depth(code, << >>, v) = 0
      <4>1. Tagged(Gifts(code, << >>, v), 0) = {}
        BY DEF Tagged
      <4> QED BY <4>1, FS_EmptySet DEF Depth
    <3>2. var_val_stack[v] = << >> /\ Len(<< >>) = 0
      BY <1>2
    <3>3. HasPhi(code, Entry, v) => var_val_stack'[v] = Append(<< >>, PhiName(Entry, v))
      BY <1>1, <1>2 DEF Enter, PhiVars
    <3>4. Append(<< >>, PhiName(Entry, v))[1] = PhiName(Entry, v)
      OBVIOUS
    <3> QED BY <3>1, <3>2, <3>3, <3>4
  <2>3. PushesPhis(code, << >>, x.bb, var_val_stack, var_val_stack')
    BY <2>2, <1>4 DEF PushesPhis
  <2>4. x.bb \in Reached(s) /\ (<< >> # << >> => Dominates(s, (<< >>)[Len(<< >>)].bb, x.bb))
    BY <1>3, <1>4
  <2>5. StacksGood(s, code, Append(<< >>, x), var_val_stack')
    BY <1>3, <1>4, <1>6, <2>1, <2>3, <2>4, StacksEnter
  <2> QED BY <2>5, <1>5
<1>12. DeletesOK(s, code, calls')
  <2>1. \A i \in DOMAIN code[Entry] : ~(i < 1)
    <3>1. code[Entry] \in Seq(Instr)
      BY <1>2, <1>3
    <3> QED BY <3>1
  <2>2. \A p \in Reached(s) : Pending(s, calls', p) \/ calls'[1].bb = p
    BY <1>4, <1>6, <1>7
  <2> QED BY <2>1, <2>2, <1>4, <1>6 DEF DeletesOK
<1> QED BY <1>1, <1>7, <1>8, <1>9, <1>10, <1>11, <1>12 DEF NamingOK, Named, s

-----------------------------------------------------------------------------
(* After re_name.                                                          *)

\* When no call is left nothing is ahead, and every block has served its
\* successors.
LEMMA NothingLeft ==
  ASSUME NEW s \in [Block -> SUBSET Block], NoDeadPred(s), NEW c, CodeOK(c), NEW st, Named(s, c, << >>, st),
         NEW b \in Reached(s), NEW i \in DOMAIN c[b]
  PROVE  /\ c[b][i].op \in {"alloca", "output", "phi"}
         /\ c[b][i].op = "output" => Good(s, c, c[b][i].arg, b)
         /\ c[b][i].op = "phi" =>
              /\ PairsFor(c[b][i], {p \in Block : b \in s[p]})
              /\ \A k \in DOMAIN c[b][i].pairs : Good(s, c, c[b][i].pairs[k][1], c[b][i].pairs[k][2])
<1>1. 1 .. Len(<< >>) = {} /\ Reached(s) \in SUBSET Block /\ b \in Block /\ c[b][i] \in Instr
  <2>1. Reached(s) \in SUBSET Block /\ c \in [Block -> Seq(Instr)]
    BY ReachedClosed DEF CodeOK
  <2>2. c[b] \in Seq(Instr)
    BY <2>1
  <2> QED BY <2>1, <2>2
<1>2. \A p, j : ~Pending(s, << >>, p) /\ ~Ahead(s, << >>, p, j)
  BY <1>1 DEF Pending, Ahead
<1>3. c[b][i].op \in {"alloca", "output", "phi"}
  <2>1. c[b][i].op \notin {"load", "store"}
    BY <1>1, <1>2 DEF Named, DeletesOK
  <2>2. c[b][i].op \in {"alloca", "load", "store", "output", "phi"}
    BY <1>1 DEF Instr
  <2> QED BY <2>1, <2>2
<1>4. c[b][i].op = "output" => Good(s, c, c[b][i].arg, b)
  <2>1. ~LoadAhead(s, c, << >>, c[b][i].arg, b, i)
    BY <1>2 DEF LoadAhead
  <2> QED BY <2>1 DEF Named, OperandsOK
<1>5. c[b][i].op = "phi" => PairsFor(c[b][i], {p \in Block : b \in s[p]})
  <2>1. Served(s, c, << >>) = Reached(s)
    BY <1>2 DEF Served
  <2>2. {p \in Served(s, c, << >>) : b \in s[p]} = {p \in Block : b \in s[p]}
    BY <1>1, <2>1 DEF NoDeadPred
  <2> QED BY <2>2 DEF Named, PhisServed
<1>6. c[b][i].op = "phi" =>
        \A k \in DOMAIN c[b][i].pairs : Good(s, c, c[b][i].pairs[k][1], c[b][i].pairs[k][2])
  BY DEF Named, PairsGood
<1> QED BY <1>3, <1>4, <1>5, <1>6

\* remove_alloca leaves outputs and phis.
LEMMA RemoveAllocaDone ==
  ASSUME StackInv, NamingOK, RemoveAlloca
  PROVE  DoneOK'
<1> DEFINE s == prog.succ
           places == [b \in Block |-> {i \in DOMAIN code[b] : code[b][i].op # "alloca"}]
<1>1. /\ pc = "re_name" /\ calls = << >> /\ prog' = prog
      /\ code' = [b \in Block |-> Only(code[b], {i \in DOMAIN code[b] : code[b][i].op # "alloca"})]
  BY DEF RemoveAlloca
<1>2. /\ CodeOK(code) /\ code \in [Block -> Seq(Instr)] /\ s \in [Block -> SUBSET Block] /\ NoDeadPred(s)
      /\ Initialised => Named(s, code, calls, var_val_stack)
  BY <1>1, NamingFacts, ProgFacts
<1>3. KeepsPhis(code, places) /\ code' = LeftOf(code, places)
  BY <1>1 DEF KeepsPhis, LeftOf
<1>4. \A b \in Block : \A i \in places[b] : code[b][i].op # "alloca" /\ i \in DOMAIN code[b]
  OBVIOUS
<1> HIDE DEF places
<1>5. CodeOK(code') /\ PhisStay(code, code')
  BY <1>2, <1>3, LeftOK, LeftPhis
<1>6. Initialised' = Initialised
  BY <1>1 DEF Initialised
<1>7. ASSUME Initialised, NEW b \in Reached(s), NEW i \in DOMAIN code'[b]
      PROVE  /\ code'[b][i].op \in {"output", "phi"}
             /\ code'[b][i].op = "output" => Good(s, code', code'[b][i].arg, b)
             /\ code'[b][i].op = "phi" =>
                  /\ PairsFor(code'[b][i], {p \in Block : b \in s[p]})
                  /\ \A k \in DOMAIN code'[b][i].pairs :
                       Good(s, code', code'[b][i].pairs[k][1], code'[b][i].pairs[k][2])
  <2>1. b \in Block
    BY <1>2, ReachedClosed
  <2>2. PICK g \in [DOMAIN code'[b] -> places[b]] : \A k \in DOMAIN code'[b] : code'[b][k] = code[b][g[k]]
    <3>1. Keeps(LeftOf(code, places)[b], code[b], places[b])
      BY <1>2, <1>3, <2>1, LeftInOrder
    <3>2. Keeps(code'[b], code[b], places[b])
      BY <1>3, <3>1
    <3> QED BY <3>2 DEF Keeps
  <2>3. g[i] \in DOMAIN code[b] /\ code[b][g[i]].op # "alloca" /\ code'[b][i] = code[b][g[i]]
    BY <1>4, <2>1, <2>2
  <2> DEFINE x == code[b][g[i]]
  <2>4. /\ x.op \in {"alloca", "output", "phi"}
        /\ x.op = "output" => Good(s, code, x.arg, b)
        /\ x.op = "phi" => /\ PairsFor(x, {p \in Block : b \in s[p]})
                           /\ \A k \in DOMAIN x.pairs : Good(s, code, x.pairs[k][1], x.pairs[k][2])
    <3>1. Named(s, code, << >>, var_val_stack)
      BY <1>1, <1>2, <1>7
    <3> HIDE DEF s
    <3> QED BY <1>2, <2>3, <3>1, NothingLeft
  <2>5. /\ x.op = "output" => Good(s, code', x.arg, b)
        /\ x.op = "phi" => \A k \in DOMAIN x.pairs : Good(s, code', x.pairs[k][1], x.pairs[k][2])
    <3> HIDE DEF s, x
    <3> QED BY <1>5, <2>4, GoodStays
  <2> HIDE DEF s
  <2> QED BY <2>3, <2>4, <2>5
<1>8. Initialised => Finished(s, code')
  BY <1>7, Zenon DEF Finished
<1> QED BY <1>1, <1>5, <1>6, <1>8 DEF DoneOK, s

-----------------------------------------------------------------------------
\* The invariant holds at the start,
LEMMA SSAInvInit == Init => SSAInv
<1> SUFFICES ASSUME Init PROVE SSAInv
  OBVIOUS
<1>1. pc = "generate_phi"
  BY DEF Init
<1> QED BY <1>1, StackInvInit DEF SSAInv, NamingOK, DoneOK

\* and every step keeps it.
LEMMA SSAInvStep == SSAInv /\ [Next]_vars => SSAInv'
<1> SUFFICES ASSUME SSAInv, [Next]_vars PROVE NamingOK' /\ DoneOK'
  BY StackInvStep DEF SSAInv
<1>1. StackInv /\ NamingOK /\ DoneOK
  BY DEF SSAInv
<1>2. pc' \notin {"run", "end"} => DoneOK'
  BY DEF DoneOK
<1>3. pc' # "re_name" => NamingOK'
  BY DEF NamingOK
<1>4. CASE NextVar
  <2>1. pc' = "generate_phi"
    BY <1>4 DEF NextVar
  <2> QED BY <1>2, <1>3, <2>1
<1>5. CASE GeneratePhi
  <2>1. pc' = "generate_phi"
    BY <1>5 DEF GeneratePhi, PlacePhisAt
  <2> QED BY <1>2, <1>3, <2>1
<1>6. CASE StartReName
  <2>1. pc' = "re_name"
    BY <1>6 DEF StartReName
  <2>2. NamingOK'
    BY <1>1, <1>6, StartReNameNames
  <2> QED BY <1>2, <2>1, <2>2
<1>7. CASE ReNameLoad
  <2>1. pc' = "re_name"
    BY <1>7 DEF ReNameLoad, Naming
  <2>2. NamingOK'
    BY <1>1, <1>7, ReNameLoadNames
  <2> QED BY <1>2, <2>1, <2>2
<1>8. CASE ReNameLoadOfNothing
  <2>1. pc' = "undefined" \/ pc' = "re_name"
    BY <1>8 DEF ReNameLoadOfNothing, Naming
  <2>2. NamingOK'
    BY <1>1, <1>8, ReNameLoadOfNothingNames
  <2> QED BY <1>2, <2>1, <2>2
<1>9. CASE ReNameStore
  <2>1. pc' = "re_name"
    BY <1>9 DEF ReNameStore, Naming
  <2>2. NamingOK'
    BY <1>1, <1>9, ReNameStoreNames
  <2> QED BY <1>2, <2>1, <2>2
<1>10. CASE ReNameOther
  <2>1. pc' = "re_name"
    BY <1>10 DEF ReNameOther, Naming
  <2>2. NamingOK'
    BY <1>1, <1>10, ReNameOtherNames
  <2> QED BY <1>2, <2>1, <2>2
<1>11. CASE FillSuccessors
  <2>1. pc' = "assert" \/ pc' = "re_name"
    BY <1>11 DEF FillSuccessors, Fill, Naming
  <2>2. NamingOK'
    BY <1>1, <1>11, FillSuccessorsNames
  <2> QED BY <1>2, <2>1, <2>2
<1>12. CASE ReNameChild
  <2>1. pc' = "re_name"
    BY <1>12 DEF ReNameChild, Naming
  <2>2. NamingOK'
    BY <1>1, <1>12, ReNameChildNames
  <2> QED BY <1>2, <2>1, <2>2
<1>13. CASE EndReName
  <2>1. pc' = "re_name"
    BY <1>13 DEF EndReName, EndReNameWith, Naming
  <2>2. NamingOK'
    BY <1>1, <1>13, EndReNameNames
  <2> QED BY <1>2, <2>1, <2>2
<1>14. CASE RemoveAlloca
  <2>1. pc' = "run"
    BY <1>14 DEF RemoveAlloca
  <2>2. DoneOK'
    BY <1>1, <1>14, RemoveAllocaDone
  <2> QED BY <1>3, <2>1, <2>2
<1>15. CASE RunBlock
  <2>1. pc = "run" /\ prog' = prog /\ code' = code
    BY <1>15 DEF RunBlock
  <2>2. pc' # "re_name"
    BY <1>15 DEF RunBlock
  <2>3. Initialised' = Initialised
    BY <2>1 DEF Initialised
  <2>4. DoneOK'
    BY <1>1, <2>1, <2>3 DEF DoneOK
  <2> QED BY <1>3, <2>2, <2>4
<1>16. CASE UNCHANGED vars
  <2>1. UNCHANGED <<prog, code, pc, calls, var_val_stack>>
    BY <1>16 DEF vars
  <2>2. Initialised' = Initialised
    BY <2>1 DEF Initialised
  <2> QED BY <1>1, <2>1, <2>2 DEF NamingOK, DoneOK
<1> QED BY <1>4, <1>5, <1>6, <1>7, <1>8, <1>9, <1>10, <1>11, <1>12, <1>13, <1>14, <1>15, <1>16 DEF Next

\* re_name serves phis and replaces operands as the dominator tree says, to the
\* end, in every behaviour.
THEOREM SSAInvariant == Spec => []SSAInv
<1> QED BY SSAInvInit, SSAInvStep, PTL DEF Spec

\* After the pass every phi has one pair for each predecessor of its block.
LEMMA PhisCompleteFollows == SSAInv => PhisComplete
<1> SUFFICES ASSUME SSAInv, Initialised, pc = "run",
                    NEW b \in Reached(prog.succ), NEW i \in DOMAIN code[b], code[b][i].op = "phi"
             PROVE  LET from == [k \in DOMAIN code[b][i].pairs |-> code[b][i].pairs[k][2]]
                    IN  /\ IsInjective(from)
                        /\ {from[k] : k \in DOMAIN from} = {p \in Block : b \in prog.succ[p]}
  BY DEF PhisComplete
<1> DEFINE pairs == code[b][i].pairs
           from == [k \in DOMAIN pairs |-> pairs[k][2]]
<1>1. PairsFor(code[b][i], {p \in Block : b \in prog.succ[p]})
  BY DEF SSAInv, DoneOK, Finished
<1>2. IsInjective(from) /\ {pairs[k][2] : k \in DOMAIN pairs} = {p \in Block : b \in prog.succ[p]}
  BY <1>1 DEF PairsFor
<1>3. {from[k] : k \in DOMAIN from} = {pairs[k][2] : k \in DOMAIN pairs}
  OBVIOUS
<1> HIDE DEF from, pairs
<1> QED BY <1>2, <1>3 DEF from, pairs

\* When the pass is over, each phi of a reachable block has one pair for each
\* predecessor, in some order (PhisComplete).
THEOREM PhisAreComplete == Spec => []PhisComplete
<1> QED BY SSAInvariant, PhisCompleteFollows, PTL

\* A good value is defined before the instruction, or at the end of the block.
LEMMA GoodIsDefined ==
  ASSUME ProgOK, CodeOK(code), NEW b \in Block, NEW k \in Nat, NEW x, Good(prog.succ, code, x, b),
         \A j \in DOMAIN code[b] : code[b][j].op = "phi" => j < k
  PROVE  DefinedBefore(x, b, k)
<1> DEFINE s == prog.succ
<1>1. CASE x[1] = "const"
  BY <1>1 DEF DefinedBefore
<1>2. CASE x[1] # "const"
  <2>1. PICK d \in Block : \E v \in Var : x = PhiName(d, v) /\ HasPhi(code, d, v) /\ Dominates(s, d, b)
    BY <1>2 DEF Good
  <2>2. PICK v \in Var : x = PhiName(d, v) /\ HasPhi(code, d, v) /\ Dominates(s, d, b)
    BY <2>1
  <2>3. PICK j \in DOMAIN code[d] : code[d][j].op = "phi" /\ code[d][j].var = v
    BY <2>2 DEF HasPhi
  <2>4. code[d][j].id = x
    BY <2>2, <2>3 DEF CodeOK
  <2>5. CASE d = b
    <3>1. code[b] \in Seq(Instr)
      BY DEF CodeOK
    <3>2. j \in Nat /\ j >= 1 /\ j < k
      BY <2>3, <2>5, <3>1
    <3>3. j \in 1 .. k - 1
      BY <3>2
    <3> QED BY <2>4, <2>5, <3>3 DEF DefinedBefore
  <2>6. CASE d # b
    <3>1. dominators_.doms = Doms(s)
      BY ProgFacts DEF DominatorsOf
    <3>2. b \in Doms(s)[d]
      BY <2>2, DomsMeaning
    <3>3. d \in DefinedAt(x)
      BY <2>3, <2>4 DEF DefinedAt
    <3> QED BY <2>6, <3>1, <3>2, <3>3 DEF DefinedBefore, StrictlyDominates
  <2> QED BY <2>5, <2>6
<1> QED BY <1>1, <1>2

\* After the pass every operand is defined on every path to its use.
LEMMA InSSAFormFollows == SSAInv => InSSAForm
<1> SUFFICES ASSUME SSAInv, Initialised, pc = "run",
                    NEW b \in Reached(prog.succ), NEW i \in DOMAIN code[b]
             PROVE  /\ code[b][i].op \in {"output", "phi"}
                    /\ code[b][i].op = "output" => DefinedBefore(code[b][i].arg, b, i)
                    /\ code[b][i].op = "phi" =>
                         \A k \in DOMAIN code[b][i].pairs :
                           LET p == code[b][i].pairs[k] IN DefinedBefore(p[1], p[2], Len(code[p[2]]) + 1)
  BY DEF InSSAForm
<1>1. ProgOK /\ CodeOK(code) /\ Finished(prog.succ, code)
  BY DEF SSAInv, StackInv, DoneOK
<1>2. b \in Block /\ code \in [Block -> Seq(Instr)]
  BY <1>1, ProgFacts DEF CodeOK
<1>3. code[b] \in Seq(Instr) /\ code[b][i] \in Instr /\ i \in Nat
  BY <1>2
<1>4. ASSUME code[b][i].op = "output" PROVE DefinedBefore(code[b][i].arg, b, i)
  <2>1. Good(prog.succ, code, code[b][i].arg, b)
    BY <1>1, <1>4 DEF Finished
  <2>2. ASSUME NEW j \in DOMAIN code[b], code[b][j].op = "phi" PROVE j < i
    <3>1. j \in 1 .. Len(code[b]) /\ i \in 1 .. Len(code[b]) /\ Len(code[b]) \in Nat
      BY <1>3
    <3>2. \A l \in 1 .. j : code[b][l].op = "phi"
      BY <1>1, <1>2, <2>2 DEF CodeOK
    <3>3. ~(i <= j)
      BY <1>4, <3>1, <3>2
    <3> QED BY <3>1, <3>3
  <2> QED BY <1>1, <1>2, <1>3, <2>1, <2>2, GoodIsDefined
<1>5. ASSUME code[b][i].op = "phi", NEW k \in DOMAIN code[b][i].pairs
      PROVE  LET p == code[b][i].pairs[k] IN DefinedBefore(p[1], p[2], Len(code[p[2]]) + 1)
  <2> DEFINE p == code[b][i].pairs[k]
  <2>1. p[2] \in Block
    <3>1. code[b][i].pairs \in Seq(Value \X Block)
      BY <1>3, InstrFields
    <3> QED BY <3>1
  <2>2. Good(prog.succ, code, p[1], p[2])
    BY <1>1, <1>5 DEF Finished
  <2> HIDE DEF p
  <2>3. code[p[2]] \in Seq(Instr)
    BY <1>2, <2>1
  <2>4. Len(code[p[2]]) + 1 \in Nat /\ \A j \in DOMAIN code[p[2]] : j < Len(code[p[2]]) + 1
    BY <2>3
  <2>5. DefinedBefore(p[1], p[2], Len(code[p[2]]) + 1)
    BY <1>1, <2>1, <2>2, <2>4, GoodIsDefined
  <2> QED BY <2>5 DEF p
<1> QED BY <1>1, <1>4, <1>5 DEF Finished

\* The function is in SSA form when the pass is over: every operand of a
\* reachable block is defined on every path to its use, and no load or store of
\* a variable is left (InSSAForm).
THEOREM SSAForm == Spec => []InSSAForm
<1> QED BY SSAInvariant, InSSAFormFollows, PTL
=============================================================================
