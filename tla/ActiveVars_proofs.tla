------------------------- MODULE ActiveVars_proofs -------------------------
(***************************************************************************)
(* Proofs about ActiveVars: for functions that are WellFormed, what the    *)
(* rounds end with is never more than what is live, and exactly that where *)
(* the phis are not ambiguous.                                             *)
(*                                                                         *)
(* The first half of the invariant says what the use and def sets and the  *)
(* pairs of the phis mean (BlockFacts), the second that nothing is in      *)
(* live_in without a reason (Sound) and that what a round has not changed  *)
(* satisfies the equations (Settled).  What is live is a least fixpoint:   *)
(* what satisfies the equations is above it.                               *)
(***************************************************************************)
EXTENDS ActiveVars, Dominance_proofs, SequenceTheorems

Blocks == ToSet(f.bbs)

\* What use set U, def set D and pairs m say of block b after the instructions
\* ids of it: a value is counted as used when it is read in the block and not
\* defined there, or when a phi takes it from the block m names.
BlockFacts(b, U, D, ids, m) ==
  /\ U \cap D = {}
  /\ \A v \in U : v \in Values /\ (v \in ReadIn(b) \/ v \in DOMAIN m)
  /\ D \subseteq DefinedIn(b)
  /\ \A i \in ids : HasResult(f.ins[i]) => Result(i) \in U \cup D
  /\ \A v \in DOMAIN m : v \in U /\ m[v] \in Block /\ v \in TakenFrom(b, m[v])
  /\ \A i \in ids : \A v \in ReadBy(f.ins[i]) \ DefinedIn(b) :
       v \in U /\ (i \in Phis(b) => v \in DOMAIN m)

Facts(b) == BlockFacts(b, map_use[b], map_def[b], ToSet(f.list[b]), big_phi[b])

\* The first k instructions of b.
FirstOf(b, k) == {f.list[b][j] : j \in 1 .. k}

BuildInv ==
  /\ at \in Nat \ {0} /\ ip \in Nat \ {0}
  /\ live_in = Nothing /\ live_out = Nothing /\ ~is_change
  /\ \A j \in DOMAIN f.bbs :
       /\ j < at => Facts(f.bbs[j])
       /\ j = at => /\ ip - 1 <= Len(f.list[f.bbs[j]])
                    /\ BlockFacts(f.bbs[j], use, def, FirstOf(f.bbs[j], ip - 1), big_phi[f.bbs[j]])
       /\ j > at => big_phi[f.bbs[j]] = << >>

\* What is live into b after its phis, or taken by them.
MayBeLive(b) == {v \in Values : b \in Live[v]} \cup DOMAIN big_phi[b]
Sound(b) == live_in[b] \subseteq MayBeLive(b) /\ live_out[b] \subseteq LiveOut(Live, b)

\* What b gets from its successor s, and the equations of b.
FromTo(s, b) == {v \in live_in[s] : v \in DOMAIN big_phi[s] => big_phi[s][v] = b}
Settled(b) ==
  /\ live_out[b] = UNION {FromTo(s, b) : s \in ToSet(f.succ[b])}
  /\ live_in[b] = map_use[b] \cup (live_out[b] \ map_def[b])

FlowInv ==
  /\ at \in Nat \ {0}
  /\ \A b \in Blocks : Facts(b) /\ Sound(b)
  /\ pc = "flow" /\ ~is_change => \A j \in DOMAIN f.bbs : j < at => Settled(f.bbs[j])
  /\ pc = "done" => \A b \in Blocks : Settled(b)

IInv ==
  /\ WellFormed(f) /\ pc \in {"build", "flow", "done"}
  /\ DOMAIN map_use = Block /\ DOMAIN map_def = Block /\ DOMAIN big_phi = Block
  /\ DOMAIN live_in = Block /\ DOMAIN live_out = Block
  /\ pc = "build" => BuildInv
  /\ pc # "build" => FlowInv

-----------------------------------------------------------------------------
(* Operands.                                                               *)

\* Division by two, for places of pairs.
LEMMA Halves ==
  ASSUME NEW k \in Nat, k \in 1 .. 2 * (k \div 2) + 1
  PROVE  /\ k % 2 = 1 => \E n \in Nat : k = 2 * n - 1 /\ n >= 1
         /\ k % 2 # 1 => \E n \in Nat : k = 2 * n /\ n >= 1
<1>1. k = 2 * (k \div 2) + (k % 2) /\ k % 2 \in {0, 1} /\ k \div 2 \in Nat
  OBVIOUS
<1>2. CASE k % 2 = 1
  <2> DEFINE n == k \div 2 + 1
  <2>1. n \in Nat /\ k = 2 * n - 1 /\ n >= 1
    BY <1>1, <1>2
  <2> HIDE DEF n
  <2> QED BY <1>2, <2>1
<1>3. CASE k % 2 # 1
  <2>1. k \div 2 \in Nat /\ k = 2 * (k \div 2) /\ k \div 2 >= 1
    BY <1>1, <1>3
  <2> QED BY <1>3, <2>1
<1> QED BY <1>2, <1>3

\* Where every instruction has the operands it should have, what it reads is
\* counted, whatever it is.
LEMMA CountedMeaning ==
  ASSUME NEW i, OperandsFit(i)
  PROVE  Counted(i) = ReadBy(i)
<1>1. i.args \in Seq(ToSet(i.args))
  BY DEF OperandsFit
<1>2. DOMAIN i.args = 1 .. Len(i.args) /\ Len(i.args) \in Nat
  BY <1>1
<1>3. ASSUME Len(i.args) = 1 PROVE ToSet(i.args) = {i.args[1]}
  BY <1>2, <1>3 DEF ToSet
<1>4. ASSUME i.op = "alloca" PROVE Variables(i.args) = {}
  <2>1. i.args = << >>
    BY <1>4 DEF OperandsFit
  <2> QED BY <2>1 DEF Variables, ToSet
<1>5. ASSUME i.op = "br" PROVE Variables(i.args) = BranchUses(i)
  <2>1. Len(i.args) \in {1, 3} /\ \A k \in DOMAIN i.args : i.args[k][1] = "bb" <=> Len(i.args) = 1 \/ k > 1
    BY <1>5 DEF OperandsFit
  <2>2. CASE Len(i.args) = 1
    <3>1. \A a \in ToSet(i.args) : a[1] = "bb"
      BY <1>2, <2>1, <2>2 DEF ToSet
    <3> QED BY <2>2, <3>1 DEF Variables, BranchUses
  <2>3. CASE Len(i.args) = 3
    <3>1. ASSUME NEW a \in ToSet(i.args), a[1] # "bb" PROVE a = i.args[1]
      BY <1>2, <2>1, <2>3, <3>1 DEF ToSet
    <3>2. i.args[1] \in ToSet(i.args) /\ ToSet(<<i.args[1]>>) = {i.args[1]}
      BY <1>2, <2>3 DEF ToSet
    <3> QED BY <2>3, <3>1, <3>2 DEF Variables, BranchUses
  <2> QED BY <2>1, <2>2, <2>3
<1>6. i.op \in Pure \cup {"alloca", "load", "store", "gep", "call", "input", "output", "phi", "br", "ret"}
  BY DEF OperandsFit
<1>7. CASE i.op \in Casts
  <2>1. ReadBy(i) = {i.args[1]}
    <3>1. ToSet(i.args) = {i.args[1]}
      BY <1>3, <1>7 DEF OperandsFit
    <3> QED BY <1>7, <3>1 DEF ReadBy, Variables
  <2> QED BY <1>7, <2>1 DEF Counted, CastUses, Casts, Pure
<1>8. CASE i.op \in Pure \ Casts
  <2>1. ReadBy(i) = Variables(i.args)
    BY <1>8 DEF ReadBy
  <2> QED BY <1>8, <2>1 DEF Counted, OperandUses, Casts, Pure, IntOps, FloatOps, CmpOps, FCmpOps
<1>9. CASE i.op \in {"load", "store", "gep", "call", "input", "output", "phi", "br", "ret", "alloca"}
  <2>1. ReadBy(i) = Variables(i.args)
    BY <1>9 DEF ReadBy, Casts
  <2>2. i.op = "load" => Variables(i.args) = {i.args[1]}
    BY <1>3 DEF OperandsFit, Variables
  <2> QED
    BY <1>4, <1>5, <1>9, <2>1, <2>2
       DEF Counted, OperandUses, LoadUses, StoreUses, CallUses, ReturnUses, PhiUses,
           Casts, Pure, IntOps, FloatOps, CmpOps, FCmpOps
<1> QED BY <1>6, <1>7, <1>8, <1>9

\* What the pairs of a phi should be: every variable it takes that is not in D,
\* from a block it takes it from.
PairsRight(i, D, m) ==
  /\ DOMAIN m = Variables(i.args) \ D
  /\ \A v \in DOMAIN m : m[v] \in Block
                         /\ \E n \in DOMAIN i.args : i.args[n] = Label(m[v]) /\ i.args[n - 1] = v

\* They are that.
LEMMA PairsMeaning ==
  ASSUME NEW i, OperandsFit(i), PairsFit(i), NEW D
  PROVE  PairsRight(i, D, PhiPairs(i, D))
<1>1. i.args \in Seq(ToSet(i.args))
  BY DEF OperandsFit
<1>2. DOMAIN i.args = 1 .. Len(i.args) /\ Len(i.args) \in Nat
  BY <1>1
<1> DEFINE half == Len(i.args) \div 2
           places(v) == {n \in 1 .. half : i.args[2 * n - 1] = v}
           m == PhiPairs(i, D)
<1>3. half \in Nat /\ 2 * half <= Len(i.args) /\ Len(i.args) <= 2 * half + 1
  <2>1. \A l \in Nat : l \div 2 \in Nat /\ 2 * (l \div 2) <= l /\ l <= 2 * (l \div 2) + 1
    OBVIOUS
  <2> QED BY <1>2, <2>1
<1>4. ASSUME NEW v \in Variables(i.args) PROVE places(v) # {}
  <2>1. v \in ToSet(i.args) /\ v[1] # "bb"
    BY DEF Variables
  <2>2. PICK k \in DOMAIN i.args : i.args[k] = v
    BY <2>1 DEF ToSet
  <2>3. k % 2 = 1 /\ k < Len(i.args)
    BY <2>1, <2>2 DEF PairsFit, Label
  <2>4. k \in Nat /\ k \in 1 .. 2 * (k \div 2) + 1
    BY <1>2
  <2>5. PICK n \in Nat : k = 2 * n - 1 /\ n >= 1
    BY <2>3, <2>4, Halves
  <2>6. n \in 1 .. half
    <3> HIDE DEF half
    <3> QED BY <1>2, <1>3, <2>3, <2>5
  <2> QED BY <2>2, <2>5, <2>6
<1>5. m = [v \in {w \in Variables(i.args) \ D : places(w) # {}} |-> i.args[2 * Min(places(v))][2]]
  BY DEF PhiPairs
<1>6. {w \in Variables(i.args) \ D : places(w) # {}} = Variables(i.args) \ D
  BY <1>4
<1>7. ASSUME NEW v \in Variables(i.args) PROVE Min(places(v)) \in places(v)
  <2>1. places(v) \in SUBSET Nat /\ places(v) # {}
    <3>1. places(v) # {}
      BY <1>4
    <3> HIDE DEF half
    <3> QED BY <1>3, <3>1
  <2>2. \E n \in places(v) : \A o \in places(v) : n <= o
    <3> HIDE DEF places
    <3> QED BY <2>1, LeastNatural
  <2> QED BY <2>2 DEF Min
<1> HIDE DEF m
<1>8. DOMAIN m = Variables(i.args) \ D
  BY <1>5, <1>6
<1>9. ASSUME NEW v \in DOMAIN m
      PROVE  /\ m[v] \in Block
             /\ \E n \in DOMAIN i.args : i.args[n] = Label(m[v]) /\ i.args[n - 1] = v
  <2>1. v \in Variables(i.args)
    BY <1>8
  <2> DEFINE n == Min(places(v))
  <2>2. n \in 1 .. half /\ i.args[2 * n - 1] = v
    BY <1>7, <2>1
  <2>3. m[v] = i.args[2 * n][2]
    BY <1>5, <1>6, <2>1, <1>8
  <2> HIDE DEF n, places, half
  <2>4. 2 * n \in DOMAIN i.args /\ (2 * n) % 2 = 0
    BY <1>2, <1>3, <2>2
  <2>5. PICK p \in Block : i.args[2 * n] = Label(p)
    BY <2>4 DEF PairsFit
  <2>6. m[v] = p
    BY <2>3, <2>5 DEF Label
  <2> QED BY <2>2, <2>4, <2>5, <2>6
<1> QED BY <1>8, <1>9 DEF m, PairsRight

-----------------------------------------------------------------------------
(* The use and def sets of a block.                                        *)

\* What is read in a block, and what its phis take.
LEMMA ReadMeaning ==
  ASSUME NEW b, NEW i \in ToSet(f.list[b]) \ Phis(b), NEW v \in ReadBy(f.ins[i]),
         v \notin DefinedIn(b)
  PROVE  v \in ReadIn(b)
BY DEF ReadIn

LEMMA TakenMeaning ==
  ASSUME NEW b, NEW p, NEW i \in Phis(b), NEW n \in DOMAIN f.ins[i].args,
         f.ins[i].args[n] = Label(p), f.ins[i].args[n - 1] \in Variables(f.ins[i].args)
  PROVE  f.ins[i].args[n - 1] \in TakenFrom(b, p)
BY DEF TakenFrom

\* Instructions, operands and values of a block.
LEMMA BlockMeaning ==
  ASSUME WellFormed(f), NEW b \in Blocks
  PROVE  /\ f.list[b] \in Seq(DOMAIN f.ins) /\ DOMAIN f.list[b] = 1 .. Len(f.list[b])
         /\ Len(f.list[b]) \in Nat
         /\ \A k \in DOMAIN f.list[b] :
              /\ f.list[b][k] \in DOMAIN f.ins /\ OperandsFit(f.ins[f.list[b][k]])
              /\ Result(f.list[b][k]) \in DefinedIn(b)
              /\ ReadBy(f.ins[f.list[b][k]]) \subseteq Values
              /\ f.list[b][k] \in Phis(b) <=> f.ins[f.list[b][k]].op = "phi"
<1>1. f.list[b] \in Seq(DOMAIN f.ins)
  BY DEF WellFormed, Blocks
<1>2. \A k \in DOMAIN f.list[b] : f.list[b][k] \in DOMAIN f.ins /\ f.list[b][k] \in ToSet(f.list[b])
  BY <1>1 DEF ToSet
<1>3. \A id \in DOMAIN f.ins : OperandsFit(f.ins[id])
  BY DEF WellFormed
<1> QED
  BY <1>1, <1>2, <1>3 DEF DefinedIn, Values, Phis

\* What an instruction defines.
Defines(id, i, U) == {v \in {Result(id)} : HasResult(i) /\ v \notin U}

\* And the pairs that are known after it.
PairsAfter(m, i, D) == IF i.op = "phi" THEN Inserted(m, PhiPairs(i, D)) ELSE m

\* One instruction more.
LEMMA ScanFacts ==
  ASSUME WellFormed(f), NEW b \in Blocks, NEW k \in DOMAIN f.list[b], NEW U, NEW D, NEW m,
         BlockFacts(b, U, D, FirstOf(b, k - 1), m),
         NEW i, i = f.ins[f.list[b][k]],
         NEW U2, U2 = U \cup (Counted(i) \ D),
         NEW D2, D2 = D \cup Defines(f.list[b][k], i, U2),
         NEW m2, m2 = PairsAfter(m, i, D)
  PROVE  BlockFacts(b, U2, D2, FirstOf(b, k), m2)
<1> DEFINE id == f.list[b][k]
           ids == FirstOf(b, k - 1)
<1>a. k \in 1 .. Len(f.list[b]) /\ Len(f.list[b]) \in Nat
  BY BlockMeaning
<1>b. k \in Nat /\ k >= 1
  <2> DEFINE n == Len(f.list[b])
  <2>1. k \in 1 .. n /\ n \in Nat
    BY <1>a
  <2> HIDE DEF n
  <2> QED BY <2>1
<1>1. /\ id \in DOMAIN f.ins /\ OperandsFit(i)
      /\ Result(id) \in DefinedIn(b) /\ ReadBy(i) \subseteq Values
      /\ id \in Phis(b) <=> i.op = "phi"
  BY BlockMeaning
<1>2. Counted(i) = ReadBy(i) /\ (i.op = "phi" => ReadBy(i) = Variables(i.args))
  BY <1>1, CountedMeaning DEF ReadBy, Casts
<1>3. FirstOf(b, k) = ids \cup {id}
  <2>1. 1 .. k = (1 .. k - 1) \cup {k}
    BY <1>b
  <2> QED BY <2>1 DEF FirstOf
<1>4. i.op = "phi" => PairsFit(i)
  BY DEF WellFormed, Blocks
<1>5. i.op # "phi" => DefinedBefore(f, b, k)
  BY DEF WellFormed, Blocks
<1>6. /\ U \cap D = {} /\ D \subseteq DefinedIn(b)
      /\ \A v \in U : v \in Values /\ (v \in ReadIn(b) \/ v \in DOMAIN m)
      /\ \A x \in ids : HasResult(f.ins[x]) => Result(x) \in U \cup D
      /\ \A v \in DOMAIN m : v \in U /\ m[v] \in Block /\ v \in TakenFrom(b, m[v])
      /\ \A x \in ids : \A v \in ReadBy(f.ins[x]) \ DefinedIn(b) :
           v \in U /\ (x \in Phis(b) => v \in DOMAIN m)
  BY DEF BlockFacts
<1> DEFINE pairs == PhiPairs(i, D)
<1>7. ASSUME i.op = "phi"
      PROVE  /\ DOMAIN pairs = Variables(i.args) \ D
             /\ \A v \in DOMAIN pairs : pairs[v] \in Block /\ v \in TakenFrom(b, pairs[v])
  <2>0. OperandsFit(i) /\ PairsFit(i)
    BY <1>1, <1>4, <1>7
  <2>1. PairsRight(i, D, pairs)
    BY <2>0, PairsMeaning
  <2>2. ASSUME NEW v \in DOMAIN pairs PROVE v \in TakenFrom(b, pairs[v])
    <3>1. PICK n \in DOMAIN i.args : i.args[n] = Label(pairs[v]) /\ i.args[n - 1] = v
      BY <2>1 DEF PairsRight
    <3>2. id \in Phis(b) /\ v \in Variables(i.args)
      BY <1>1, <1>7, <2>1 DEF PairsRight
    <3> HIDE DEF pairs
    <3> QED BY <3>1, <3>2, TakenMeaning
  <2> QED BY <2>1, <2>2 DEF PairsRight
<1>8. /\ DOMAIN m \subseteq DOMAIN m2
      /\ i.op = "phi" => DOMAIN m2 = DOMAIN m \cup (Variables(i.args) \ D)
      /\ \A v \in DOMAIN m2 : v \in U2 /\ m2[v] \in Block /\ v \in TakenFrom(b, m2[v])
  <2>1. CASE i.op # "phi"
    BY <1>6, <2>1 DEF PairsAfter
  <2>2. CASE i.op = "phi"
    <3>1. /\ DOMAIN m2 = DOMAIN m \cup DOMAIN pairs
          /\ \A v \in DOMAIN m : m2[v] = m[v]
          /\ \A v \in DOMAIN pairs \ DOMAIN m : m2[v] = pairs[v]
      BY <2>2 DEF Inserted, PairsAfter
    <3> HIDE DEF pairs
    <3> QED BY <1>2, <1>6, <1>7, <2>2, <3>1
  <2> QED BY <2>1, <2>2
<1> HIDE DEF pairs
<1>9. U2 \cap D2 = {}
  BY <1>6 DEF Defines
<1>10. ASSUME NEW v \in U2 PROVE v \in Values /\ (v \in ReadIn(b) \/ v \in DOMAIN m2)
  <2>1. CASE v \in U
    BY <1>6, <1>8, <2>1
  <2>2. CASE v \notin U /\ i.op = "phi"
    BY <1>1, <1>2, <1>8, <2>2
  <2>3. CASE v \notin U /\ i.op # "phi"
    <3>1. v \in ReadBy(i) /\ v \notin D /\ v \in Values
      BY <1>1, <1>2, <2>3
    <3>2. v \notin DefinedIn(b)
      <4>1. SUFFICES ASSUME v \in DefinedIn(b) PROVE FALSE
        OBVIOUS
      <4>2. PICK j \in DOMAIN f.list[b] : v = Result(f.list[b][j])
        BY <4>1 DEF DefinedIn, ToSet
      <4>3. v \in ToSet(i.args)
        BY <3>1 DEF ReadBy, Variables
      <4>4. j < k
        BY <1>5, <2>3, <4>2, <4>3 DEF DefinedBefore
      <4>5. f.list[b][j] \in ids
        <5>1. j \in 1 .. Len(f.list[b])
          BY BlockMeaning
        <5>2. j \in Nat /\ j >= 1
          <6> DEFINE n == Len(f.list[b])
          <6>1. j \in 1 .. n /\ n \in Nat
            BY <1>a, <5>1
          <6> HIDE DEF n
          <6> QED BY <6>1
        <5>3. j \in 1 .. k - 1
          BY <1>b, <4>4, <5>2
        <5> QED BY <5>3 DEF FirstOf
      <4>6. f.list[b][j] \in DOMAIN f.ins
        BY BlockMeaning
      <4>7. HasResult(f.ins[f.list[b][j]])
        BY <1>1, <4>2, <4>3, <4>6 DEF WellFormed
      <4> QED BY <1>6, <2>3, <3>1, <4>2, <4>5, <4>7
    <3>3. id \in ToSet(f.list[b]) \ Phis(b)
      BY <1>1, <2>3 DEF ToSet
    <3>4. v \in ReadIn(b)
      <4>1. v \in ReadBy(f.ins[id])
        BY <3>1
      <4> HIDE DEF id
      <4> QED BY <3>2, <3>3, <4>1, ReadMeaning
    <3> QED BY <3>1, <3>4
  <2> QED BY <2>1, <2>2, <2>3
<1>11. D2 \subseteq DefinedIn(b)
  BY <1>1, <1>6 DEF Defines
<1>12. \A x \in ids \cup {id} : HasResult(f.ins[x]) => Result(x) \in U2 \cup D2
  BY <1>6 DEF Defines
<1>13. \A x \in ids \cup {id} : \A v \in ReadBy(f.ins[x]) \ DefinedIn(b) :
         v \in U2 /\ (x \in Phis(b) => v \in DOMAIN m2)
  BY <1>1, <1>2, <1>6, <1>8
<1> QED
  BY <1>3, <1>8, <1>9, <1>10, <1>11, <1>12, <1>13 DEF BlockFacts

-----------------------------------------------------------------------------
(* What is live: the least solution.                                       *)

\* The blocks that read v, or at whose end a phi takes it.
Needs(v) ==
  {b \in Blocks : \/ v \in ReadIn(b)
                  \/ v \notin DefinedIn(b) /\ \E s \in ToSet(f.succ[b]) : v \in TakenFrom(s, b)}

\* And those that hand it on to what is in X.
HandsOn(v) ==
  [X \in SUBSET Blocks |->
     X \cup {b \in Blocks : v \notin DefinedIn(b) /\ ToSet(f.succ[b]) \cap X # {}}]

\* A function has no more blocks than its list is long.
LEMMA BlocksFinite ==
  ASSUME WellFormed(f)
  PROVE  IsFiniteSet(Blocks) /\ Len(f.bbs) \in Nat /\ Cardinality(Blocks) <= Len(f.bbs)
<1>1. f.bbs \in Seq(Block)
  BY DEF WellFormed
<1> DEFINE n == Len(f.bbs)
           S == 1 .. n
           h == [k \in S |-> f.bbs[k]]
<1>2. n \in Nat /\ DOMAIN f.bbs = S
  BY <1>1
<1>3. Blocks = {f.bbs[k] : k \in S}
  BY <1>2 DEF Blocks, ToSet
<1>4. IsFiniteSet(S) /\ Cardinality(S) = n
  <2>1. 1 \in Int /\ n \in Int /\ n >= 0
    BY <1>2
  <2> HIDE DEF n
  <2> QED BY <2>1, FS_Interval
<1>5. h \in Surjection(S, Blocks)
  <2> HIDE DEF S
  <2> QED BY <1>3 DEF Surjection
<1> HIDE DEF h, S
<1>6. IsFiniteSet(Blocks) /\ Cardinality(Blocks) <= Cardinality(S)
  BY <1>4, <1>5, FS_Surjection
<1> QED
  BY <1>2, <1>4, <1>6

\* Live[v] is the least set that holds the blocks that need v and those that
\* hand it on.
LEMMA LiveMeaning ==
  ASSUME WellFormed(f), NEW v \in Values
  PROVE  /\ Live[v] \in SUBSET Blocks /\ Needs(v) \subseteq Live[v] /\ HandsOn(v)[Live[v]] = Live[v]
         /\ \A X \in SUBSET Blocks : Needs(v) \subseteq X /\ HandsOn(v)[X] \subseteq X => Live[v] \subseteq X
<1> DEFINE ends == [b \in ToSet(f.bbs) |-> UNION {TakenFrom(s, b) : s \in ToSet(f.succ[b])}]
           defs == [b \in ToSet(f.bbs) |-> DefinedIn(b)]
           read == [b \in ToSet(f.bbs) |-> ReadIn(b) \cup (ends[b] \ defs[b])]
           Eq(g) == g = [k \in Nat |->
                           IF k = 0 THEN {b \in DOMAIN read : v \in read[b]}
                           ELSE LET seen == g[k - 1]
                                IN  seen \cup {b \in DOMAIN read :
                                                 v \notin defs[b] /\ ToSet(f.succ[b]) \cap seen # {}}]
           h == CHOOSE g : Eq(g)
           F == HandsOn(v)
           x == Needs(v)
<1>1. Live[v] = h[Len(f.bbs)]
  BY DEF Live
<1>2. DOMAIN read = Blocks /\ \A b \in Blocks : defs[b] = DefinedIn(b)
  BY DEF Blocks
<1>3. {b \in DOMAIN read : v \in read[b]} = x
  <2>1. ASSUME NEW b \in Blocks PROVE v \in read[b] <=> b \in x
    <3>1. read[b] = ReadIn(b) \cup (ends[b] \ defs[b])
      BY DEF Blocks
    <3>2. v \in ends[b] <=> \E s \in ToSet(f.succ[b]) : v \in TakenFrom(s, b)
      BY DEF Blocks
    <3> HIDE DEF read, ends, defs
    <3> QED BY <1>2, <3>1, <3>2 DEF Needs
  <2>2. x \subseteq Blocks
    BY DEF Needs
  <2> HIDE DEF read, x
  <2> QED BY <1>2, <2>1, <2>2
<1> HIDE DEF read, defs, x
<1>4. GrowsFrom(F, Blocks, x)
  <2>1. F \in [SUBSET Blocks -> SUBSET Blocks] /\ x \in SUBSET Blocks /\ x \subseteq F[x]
    BY DEF HandsOn, Needs, x
  <2>2. ASSUME NEW X \in SUBSET Blocks, NEW Y \in SUBSET Blocks, X \subseteq Y PROVE F[X] \subseteq F[Y]
    BY <2>2 DEF HandsOn
  <2> QED BY <2>1, <2>2 DEF GrowsFrom
<1>5. ASSUME NEW X \in SUBSET Blocks
      PROVE  F[X] = X \cup {b \in DOMAIN read : v \notin defs[b] /\ ToSet(f.succ[b]) \cap X # {}}
  BY <1>2 DEF HandsOn
<1>6. \E g : Eq(g)
  <2>1. F \in [SUBSET Blocks -> SUBSET Blocks] /\ x \in SUBSET Blocks
    BY <1>4 DEF GrowsFrom
  <2>2. PICK g \in [Nat -> SUBSET Blocks] : IsIteration(g, F, x)
    <3> HIDE DEF F, Eq
    <3> QED BY <2>1, IterationExists
  <2>3. ASSUME NEW k \in Nat, k # 0
        PROVE  g[k] = g[k - 1] \cup {b \in DOMAIN read : v \notin defs[b] /\ ToSet(f.succ[b]) \cap g[k - 1] # {}}
    <3>1. k - 1 \in Nat /\ (k - 1) + 1 = k /\ g[k - 1] \in SUBSET Blocks
      BY <2>3
    <3>2. g[(k - 1) + 1] = F[g[k - 1]]
      BY <2>2, <3>1 DEF IsIteration
    <3> HIDE DEF F
    <3> QED BY <1>5, <3>1, <3>2
  <2>4. Eq(g)
    BY <1>3, <2>2, <2>3 DEF IsIteration
  <2> QED BY <2>4
<1>7. Eq(h)
  <2> HIDE DEF Eq
  <2> QED BY <1>6
<1> HIDE DEF h
<1>8. h[0] = x
  BY <1>3, <1>7
<1>9. ASSUME NEW k \in Nat, h[k] \in SUBSET Blocks PROVE h[k + 1] = F[h[k]]
  <2>1. k + 1 \in Nat /\ k + 1 # 0 /\ (k + 1) - 1 = k
    OBVIOUS
  <2>2. h[k + 1] = h[(k + 1) - 1] \cup
          {b \in DOMAIN read : v \notin defs[b] /\ ToSet(f.succ[b]) \cap h[(k + 1) - 1] # {}}
    BY <1>7, <2>1
  <2> HIDE DEF F, Eq
  <2> QED BY <1>5, <1>9, <2>1, <2>2
<1> HIDE DEF Eq, F
<1>10. IsIteration(h, F, x)
  BY <1>4, <1>8, <1>9, IterationOfSets
<1>11. /\ h[Len(f.bbs)] \in SUBSET Blocks /\ x \subseteq h[Len(f.bbs)] /\ F[h[Len(f.bbs)]] = h[Len(f.bbs)]
       /\ \A X \in SUBSET Blocks : x \subseteq X /\ F[X] \subseteq X => h[Len(f.bbs)] \subseteq X
  BY <1>4, <1>10, BlocksFinite, LeastFixpoint
<1> QED
  BY <1>1, <1>11 DEF F, x

\* A value that a block needs is live into it, and so is one that is live
\* into a successor and not defined in the block.
LEMMA LiveGoesUp ==
  ASSUME WellFormed(f), NEW v \in Values, NEW b \in Blocks
  PROVE  /\ v \in ReadIn(b) => b \in Live[v]
         /\ v \notin DefinedIn(b) => \A s \in ToSet(f.succ[b]) :
                                       v \in TakenFrom(s, b) \/ s \in Live[v] => b \in Live[v]
<1>1. Live[v] \in SUBSET Blocks /\ Needs(v) \subseteq Live[v] /\ HandsOn(v)[Live[v]] = Live[v]
  BY LiveMeaning
<1>2. v \in ReadIn(b) => b \in Live[v]
  BY <1>1 DEF Needs
<1>3. ASSUME v \notin DefinedIn(b), NEW s \in ToSet(f.succ[b]), v \in TakenFrom(s, b) PROVE b \in Live[v]
  BY <1>1, <1>3 DEF Needs
<1>4. ASSUME v \notin DefinedIn(b), NEW s \in ToSet(f.succ[b]), s \in Live[v] PROVE b \in Live[v]
  BY <1>1, <1>4 DEF HandsOn
<1> QED
  BY <1>2, <1>3, <1>4

\* A set that holds what needs v and what hands it on holds all that is live.
LEMMA LiveIsLeast ==
  ASSUME WellFormed(f), NEW v \in Values, NEW X \in SUBSET Blocks,
         \A b \in Blocks : v \in ReadIn(b) => b \in X,
         \A b \in Blocks : v \notin DefinedIn(b) =>
           \A s \in ToSet(f.succ[b]) : v \in TakenFrom(s, b) \/ s \in X => b \in X
  PROVE  Live[v] \subseteq X
<1>1. Needs(v) \subseteq X
  BY DEF Needs
<1>2. HandsOn(v)[X] \subseteq X
  BY DEF HandsOn
<1> QED
  BY <1>1, <1>2, LiveMeaning

-----------------------------------------------------------------------------
(* A step that leaves the function alone.                                  *)

\* Everything that is read off the function stays.
LEMMA SameMeaning ==
  ASSUME f' = f, NEW b, NEW p
  PROVE  /\ Blocks' = Blocks /\ Values' = Values /\ Phis(b)' = Phis(b)
         /\ DefinedIn(b)' = DefinedIn(b) /\ ReadIn(b)' = ReadIn(b)
         /\ TakenFrom(b, p)' = TakenFrom(b, p) /\ WellFormed(f)' = WellFormed(f)
         /\ Live' = Live /\ FirstOf(b, p)' = FirstOf(b, p)
<1>1. Blocks' = Blocks /\ Values' = Values /\ Phis(b)' = Phis(b)
  BY DEF Blocks, Values, ReadBy, Phis
<1>2. DefinedIn(b)' = DefinedIn(b) /\ ReadIn(b)' = ReadIn(b)
  BY DEF DefinedIn, ReadIn, ReadBy, Phis
<1>3. TakenFrom(b, p)' = TakenFrom(b, p) /\ WellFormed(f)' = WellFormed(f)
  BY DEF TakenFrom, Phis
<1>4. Live' = Live
  BY DEF Live, Values, TakenFrom, DefinedIn, ReadIn, ReadBy, Phis
<1>5. FirstOf(b, p)' = FirstOf(b, p)
  BY DEF FirstOf
<1> QED BY <1>1, <1>2, <1>3, <1>4, <1>5

\* And so does what is known of a block whose sets stay.
LEMMA SameFacts ==
  ASSUME f' = f, NEW b, map_use'[b] = map_use[b], map_def'[b] = map_def[b], big_phi'[b] = big_phi[b]
  PROVE  Facts(b)' <=> Facts(b)
BY SameMeaning DEF Facts, BlockFacts

\* What is known of block b, of which k instructions have been scanned, once
\* it is known of the new values.
LEMMA NewBlockFacts ==
  ASSUME f' = f, NEW j, BlockFacts(f.bbs[j], use', def', FirstOf(f.bbs[j], ip' - 1), big_phi'[f.bbs[j]])
  PROVE  BlockFacts(f.bbs[j], use, def, FirstOf(f.bbs[j], ip - 1), big_phi[f.bbs[j]])'
BY SameMeaning DEF BlockFacts

-----------------------------------------------------------------------------
(* Building the use and def sets.                                          *)

\* Places in the list of blocks.
LEMMA Places ==
  ASSUME WellFormed(f)
  PROVE  /\ DOMAIN f.bbs = 1 .. Len(f.bbs) /\ Len(f.bbs) \in Nat
         /\ \A j \in DOMAIN f.bbs : f.bbs[j] \in Blocks /\ f.bbs[j] \in Block
         /\ \A i, j \in DOMAIN f.bbs : f.bbs[i] = f.bbs[j] => i = j
         /\ \A b \in Blocks : \E j \in DOMAIN f.bbs : f.bbs[j] = b
         /\ Blocks \subseteq Block
         /\ \A b \in Blocks : \A s \in ToSet(f.succ[b]) : s \in Blocks
<1>1. f.bbs \in Seq(Block)
  BY DEF WellFormed
<1>2. DOMAIN f.bbs = 1 .. Len(f.bbs) /\ Len(f.bbs) \in Nat /\ Blocks = {f.bbs[j] : j \in DOMAIN f.bbs}
  BY <1>1 DEF Blocks, ToSet
<1>3. \A i, j \in DOMAIN f.bbs : f.bbs[i] = f.bbs[j] => i = j
  BY DEF WellFormed
<1>4. \A j \in DOMAIN f.bbs : f.bbs[j] \in Block
  BY <1>1
<1>5. \A b \in Blocks : \A s \in ToSet(f.succ[b]) : s \in Blocks
  BY DEF WellFormed, Blocks
<1> QED
  BY <1>2, <1>3, <1>4, <1>5

\* Nothing is known of a block before it is scanned.
LEMMA NothingScanned ==
  ASSUME NEW b, NEW m, m = << >>
  PROVE  BlockFacts(b, {}, {}, FirstOf(b, 0), m)
<1>1. FirstOf(b, 0) = {} /\ DOMAIN m = {}
  BY DEF FirstOf
<1> QED
  BY <1>1 DEF BlockFacts

\* Before the first instruction.
LEMMA InitIInv == Init => IInv
<1> SUFFICES ASSUME Init PROVE IInv
  OBVIOUS
<1>1. WellFormed(f)
  BY ProgramsAssumption DEF Init
<1>2. /\ DOMAIN map_use = Block /\ DOMAIN map_def = Block /\ DOMAIN big_phi = Block
      /\ DOMAIN live_in = Block /\ DOMAIN live_out = Block
  BY DEF Init, Nothing
<1>3. ASSUME NEW j \in DOMAIN f.bbs
      PROVE  /\ ~(j < at) /\ big_phi[f.bbs[j]] = << >>
             /\ ip - 1 <= Len(f.list[f.bbs[j]])
             /\ BlockFacts(f.bbs[j], use, def, FirstOf(f.bbs[j], ip - 1), big_phi[f.bbs[j]])
  <2>1. f.bbs[j] \in Block /\ f.bbs[j] \in Blocks /\ j \in 1 .. Len(f.bbs)
    BY <1>1, Places
  <2>2. at = 1 /\ ip - 1 = 0 /\ use = {} /\ def = {} /\ big_phi[f.bbs[j]] = << >>
    BY <2>1 DEF Init
  <2>3. Len(f.list[f.bbs[j]]) \in Nat
    BY <1>1, <2>1, BlockMeaning
  <2>4. BlockFacts(f.bbs[j], use, def, FirstOf(f.bbs[j], ip - 1), big_phi[f.bbs[j]])
    BY <2>2, NothingScanned
  <2> QED BY <2>1, <2>2, <2>3, <2>4, <1>1, Places
<1>4. BuildInv
  BY <1>3 DEF Init, BuildInv
<1> QED
  BY <1>1, <1>2, <1>4 DEF Init, IInv

\* An instruction.
LEMMA ScanInv == IInv /\ Scan => IInv'
<1> SUFFICES ASSUME IInv, Scan PROVE IInv'
  OBVIOUS
<1>1. /\ pc = "build" /\ pc' = pc /\ f' = f /\ at' = at /\ ip' = ip + 1 /\ at <= Len(f.bbs)
      /\ ip <= Len(f.list[bb]) /\ map_use' = map_use /\ map_def' = map_def
      /\ live_in' = live_in /\ live_out' = live_out /\ is_change' = is_change
  BY DEF Scan, AtInstr
<1>2. WellFormed(f) /\ BuildInv /\ DOMAIN big_phi = Block
  BY <1>1 DEF IInv
<1>3. at \in DOMAIN f.bbs /\ at \in Nat /\ ip \in Nat \ {0} /\ bb = f.bbs[at] /\ bb \in Blocks /\ bb \in Block
  BY <1>1, <1>2, Places DEF BuildInv, bb
<1>4. ip \in DOMAIN f.list[bb] /\ Len(f.list[bb]) \in Nat
  BY <1>1, <1>2, <1>3, BlockMeaning
<1>5. BlockFacts(bb, use, def, FirstOf(bb, ip - 1), big_phi[bb])
  BY <1>2, <1>3 DEF BuildInv
<1>6. \A b \in Block : b # bb => big_phi'[b] = big_phi[b]
  BY DEF Scan
<1>7. /\ use' = use \cup (Counted(instr) \ def)
      /\ def' = def \cup Defines(f.list[bb][ip], instr, use')
      /\ big_phi'[bb] = PairsAfter(big_phi[bb], instr, def)
      /\ DOMAIN big_phi' = Block
  BY <1>2, <1>3 DEF Scan, Defines, PairsAfter
<1>8. BlockFacts(bb, use', def', FirstOf(bb, ip), big_phi'[bb])
  <2>1. instr = f.ins[f.list[bb][ip]]
    BY DEF instr
  <2> HIDE DEF instr
  <2> QED BY <1>2, <1>3, <1>4, <1>5, <1>7, <2>1, ScanFacts
<1>9. ASSUME NEW j \in DOMAIN f'.bbs
      PROVE  (/\ j < at => Facts(f.bbs[j])
              /\ j = at => /\ ip - 1 <= Len(f.list[f.bbs[j]])
                           /\ BlockFacts(f.bbs[j], use, def, FirstOf(f.bbs[j], ip - 1), big_phi[f.bbs[j]])
              /\ j > at => big_phi[f.bbs[j]] = << >>)'
  <2>1. j \in DOMAIN f.bbs /\ f.bbs[j] \in Block
    BY <1>1, <1>2, Places
  <2>2. CASE j = at
    <3>1. ip' - 1 = ip /\ bb = f.bbs[j]
      BY <1>1, <1>3, <2>2
    <3>2. BlockFacts(f.bbs[j], use', def', FirstOf(f.bbs[j], ip' - 1), big_phi'[f.bbs[j]])
      BY <1>8, <3>1
    <3>3. BlockFacts(f.bbs[j], use, def, FirstOf(f.bbs[j], ip - 1), big_phi[f.bbs[j]])'
      BY <1>1, <3>2, NewBlockFacts
    <3>4. (ip - 1 <= Len(f.list[f.bbs[j]]))'
      BY <1>1, <3>1
    <3>5. ~(j < at') /\ ~(j > at')
      BY <1>1, <1>3, <2>2
    <3> QED BY <3>3, <3>4, <3>5
  <2>3. CASE j # at
    <3>1. f.bbs[j] # bb
      BY <1>2, <1>3, <2>1, <2>3, Places
    <3>2. big_phi'[f.bbs[j]] = big_phi[f.bbs[j]]
      BY <1>6, <2>1, <3>1
    <3>3. /\ j < at => Facts(f.bbs[j])
          /\ j > at => big_phi[f.bbs[j]] = << >>
      BY <1>2, <2>1 DEF BuildInv
    <3>4. (Facts(f.bbs[j]))' <=> Facts(f.bbs[j])
      BY <1>1, <3>2, SameFacts
    <3> QED BY <1>1, <2>3, <3>2, <3>3, <3>4
  <2> QED BY <2>2, <2>3
<1>10. BuildInv'
  <2>1. (/\ at \in Nat \ {0} /\ ip \in Nat \ {0}
         /\ live_in = Nothing /\ live_out = Nothing /\ ~is_change)'
    BY <1>1, <1>2 DEF BuildInv, Nothing
  <2> QED BY <1>9, <2>1 DEF BuildInv
<1>11. WellFormed(f)'
  BY <1>1, <1>2, SameMeaning
<1> QED
  BY <1>1, <1>7, <1>10, <1>11 DEF IInv

\* The end of a block.
LEMMA EndOfBlockInv == IInv /\ EndOfBlock => IInv'
<1> SUFFICES ASSUME IInv, EndOfBlock PROVE IInv'
  OBVIOUS
<1>1. /\ pc = "build" /\ pc' = pc /\ f' = f /\ at' = at + 1 /\ ip' = 1 /\ at <= Len(f.bbs)
      /\ ip > Len(f.list[bb]) /\ use' = {} /\ def' = {} /\ big_phi' = big_phi
      /\ map_use' = [map_use EXCEPT ![bb] = use] /\ map_def' = [map_def EXCEPT ![bb] = def]
      /\ live_in' = live_in /\ live_out' = live_out /\ is_change' = is_change
  BY DEF EndOfBlock
<1>2. WellFormed(f) /\ BuildInv /\ DOMAIN map_use = Block /\ DOMAIN map_def = Block
  BY <1>1 DEF IInv
<1>3. at \in DOMAIN f.bbs /\ at \in Nat \ {0} /\ ip \in Nat \ {0} /\ bb = f.bbs[at]
      /\ bb \in Blocks /\ bb \in Block
  BY <1>1, <1>2, Places DEF BuildInv, bb
<1>4. /\ map_use'[bb] = use /\ map_def'[bb] = def
      /\ \A b \in Block : b # bb => map_use'[b] = map_use[b] /\ map_def'[b] = map_def[b]
  BY <1>1, <1>2, <1>3
<1>5. BlockFacts(bb, use, def, ToSet(f.list[bb]), big_phi[bb])
  <2>1. BlockFacts(bb, use, def, FirstOf(bb, ip - 1), big_phi[bb]) /\ ip - 1 <= Len(f.list[bb])
    BY <1>2, <1>3 DEF BuildInv
  <2>2. DOMAIN f.list[bb] = 1 .. Len(f.list[bb]) /\ Len(f.list[bb]) \in Nat
    BY <1>2, <1>3, BlockMeaning
  <2>3. ip - 1 = Len(f.list[bb])
    BY <1>1, <1>3, <2>1, <2>2
  <2>4. FirstOf(bb, ip - 1) = ToSet(f.list[bb])
    BY <2>2, <2>3 DEF FirstOf, ToSet
  <2> QED BY <2>1, <2>4
<1>6. ASSUME NEW j, j = at PROVE Facts(f.bbs[j])'
  <2>1. bb = f.bbs[j]
    BY <1>3, <1>6
  <2>2. BlockFacts(f.bbs[j], map_use'[f.bbs[j]], map_def'[f.bbs[j]], ToSet(f.list[f.bbs[j]]), big_phi'[f.bbs[j]])
    BY <1>1, <1>4, <1>5, <2>1
  <2> QED BY <1>1, <2>2, SameMeaning DEF Facts, BlockFacts
<1>7. ASSUME NEW j \in DOMAIN f'.bbs
      PROVE  (/\ j < at => Facts(f.bbs[j])
              /\ j = at => /\ ip - 1 <= Len(f.list[f.bbs[j]])
                           /\ BlockFacts(f.bbs[j], use, def, FirstOf(f.bbs[j], ip - 1), big_phi[f.bbs[j]])
              /\ j > at => big_phi[f.bbs[j]] = << >>)'
  <2>1. j \in DOMAIN f.bbs /\ f.bbs[j] \in Block /\ f.bbs[j] \in Blocks /\ j \in Nat
    BY <1>1, <1>2, Places
  <2>2. CASE j < at
    <3>1. Facts(f.bbs[j]) /\ f.bbs[j] # bb
      BY <1>2, <1>3, <2>1, <2>2, Places DEF BuildInv
    <3>2. (Facts(f.bbs[j]))' <=> Facts(f.bbs[j])
      BY <1>1, <1>4, <2>1, <3>1, SameFacts
    <3> QED BY <1>1, <1>3, <2>1, <2>2, <3>1, <3>2
  <2>3. CASE j = at
    BY <1>1, <1>3, <1>6, <2>1, <2>3
  <2>4. CASE j > at
    <3>1. big_phi'[f.bbs[j]] = << >>
      BY <1>1, <1>2, <2>1, <2>4 DEF BuildInv
    <3>2. BlockFacts(f.bbs[j], use', def', FirstOf(f.bbs[j], ip' - 1), big_phi'[f.bbs[j]])
      <4>1. ip' - 1 = 0
        BY <1>1
      <4> QED BY <1>1, <3>1, <4>1, NothingScanned
    <3>3. BlockFacts(f.bbs[j], use, def, FirstOf(f.bbs[j], ip - 1), big_phi[f.bbs[j]])'
      BY <1>1, <3>2, NewBlockFacts
    <3>4. Len(f.list[f.bbs[j]]) \in Nat
      BY <1>2, <2>1, BlockMeaning
    <3>5. (ip - 1 <= Len(f.list[f.bbs[j]]))'
      BY <1>1, <3>4
    <3>6. ~(j < at')
      BY <1>1, <1>3, <2>1, <2>4
    <3> QED BY <1>1, <3>1, <3>3, <3>5, <3>6
  <2> QED BY <1>3, <2>1, <2>2, <2>3, <2>4
<1>8. BuildInv'
  <2>1. (/\ at \in Nat \ {0} /\ ip \in Nat \ {0}
         /\ live_in = Nothing /\ live_out = Nothing /\ ~is_change)'
    BY <1>1, <1>2, <1>3 DEF BuildInv, Nothing
  <2> QED BY <1>7, <2>1 DEF BuildInv
<1>9. WellFormed(f)'
  BY <1>1, <1>2, SameMeaning
<1>10. /\ DOMAIN map_use' = Block /\ DOMAIN map_def' = Block /\ DOMAIN big_phi' = Block
       /\ DOMAIN live_in' = Block /\ DOMAIN live_out' = Block
  BY <1>1, <1>2 DEF IInv
<1> QED
  BY <1>1, <1>8, <1>9, <1>10 DEF IInv

-----------------------------------------------------------------------------
(* The rounds.                                                             *)

\* Live is about the values.
LEMMA LiveDomain == DOMAIN Live = Values
BY DEF Live

\* A value defined in a block is in its def set or in its use set.
LEMMA DefinedIsKnown ==
  ASSUME WellFormed(f), NEW b \in Blocks, Facts(b), NEW v \in Values, v \in DefinedIn(b)
  PROVE  v \in map_use[b] \cup map_def[b]
<1>1. PICK i \in ToSet(f.list[b]) : v = Result(i)
  BY DEF DefinedIn
<1>2. i \in DOMAIN f.ins
  BY BlockMeaning DEF ToSet
<1>3. PICK id \in DOMAIN f.ins : v \in ToSet(f.ins[id].args)
  BY DEF Values, ReadBy, Variables
<1>4. HasResult(f.ins[i])
  BY <1>1, <1>2, <1>3 DEF WellFormed
<1> QED
  BY <1>1, <1>4 DEF Facts, BlockFacts

\* What the equations give a block is live if what is in live_in is.
LEMMA EquationsSound ==
  ASSUME WellFormed(f), \A c \in Blocks : Facts(c) /\ live_in[c] \subseteq MayBeLive(c),
         NEW b \in Blocks,
         NEW out, out = UNION {FromTo(s, b) : s \in ToSet(f.succ[b])}
  PROVE  out \subseteq LiveOut(Live, b) /\ map_use[b] \cup (out \ map_def[b]) \subseteq MayBeLive(b)
<1>1. ASSUME NEW v \in out
      PROVE  /\ v \in Values
             /\ \E s \in ToSet(f.succ[b]) : v \in TakenFrom(s, b) \/ s \in Live[v]
  <2>1. PICK s \in ToSet(f.succ[b]) : v \in FromTo(s, b)
    OBVIOUS
  <2>2. s \in Blocks
    BY <2>1, Places
  <2>3. v \in MayBeLive(s) /\ (v \in DOMAIN big_phi[s] => big_phi[s][v] = b)
    BY <2>1, <2>2 DEF FromTo
  <2>4. CASE v \in DOMAIN big_phi[s]
    <3>1. v \in map_use[s] /\ v \in TakenFrom(s, b)
      BY <2>2, <2>3, <2>4 DEF Facts, BlockFacts
    <3>2. v \in Values
      BY <2>2, <3>1 DEF Facts, BlockFacts
    <3> QED BY <2>1, <3>1, <3>2
  <2>5. CASE v \notin DOMAIN big_phi[s]
    BY <2>1, <2>3, <2>5 DEF MayBeLive
  <2> QED BY <2>4, <2>5
<1>2. out \subseteq LiveOut(Live, b)
  BY <1>1, LiveDomain DEF LiveOut
<1>3. ASSUME NEW v \in map_use[b] PROVE v \in MayBeLive(b)
  <2>1. v \in Values /\ (v \in ReadIn(b) \/ v \in DOMAIN big_phi[b])
    BY DEF Facts, BlockFacts
  <2> QED BY <2>1, LiveGoesUp DEF MayBeLive
<1>4. ASSUME NEW v \in out, v \notin map_def[b] PROVE v \in MayBeLive(b)
  <2>1. CASE v \in DefinedIn(b)
    BY <1>1, <1>3, <1>4, <2>1, DefinedIsKnown
  <2>2. CASE v \notin DefinedIn(b)
    <3>1. b \in Live[v]
      BY <1>1, <2>2, LiveGoesUp
    <3> QED BY <1>1, <3>1 DEF MayBeLive
  <2> QED BY <2>1, <2>2
<1> QED
  BY <1>2, <1>3, <1>4

\* What is known of a block stays when neither its sets nor its function change.
LEMMA SameSound ==
  ASSUME f' = f, NEW b, big_phi'[b] = big_phi[b], live_in'[b] = live_in[b], live_out'[b] = live_out[b]
  PROVE  Sound(b)' <=> Sound(b)
BY SameMeaning DEF Sound, MayBeLive, LiveOut

\* The sets are built: nothing is live yet.
LEMMA EndBuildInv == IInv /\ EndBuild => IInv'
<1> SUFFICES ASSUME IInv, EndBuild PROVE IInv'
  OBVIOUS
<1>1. /\ pc = "build" /\ pc' = "flow" /\ f' = f /\ at > Len(f.bbs) /\ at' = 1
      /\ UNCHANGED <<map_use, map_def, big_phi, live_in, live_out, is_change>>
  BY DEF EndBuild
<1>2. WellFormed(f) /\ BuildInv
  BY <1>1 DEF IInv
<1>3. ASSUME NEW b \in Blocks' PROVE (Facts(b) /\ Sound(b))'
  <2>1. b \in Blocks /\ b \in Block
    BY <1>1, <1>2, Places, SameMeaning
  <2>2. PICK j \in DOMAIN f.bbs : f.bbs[j] = b
    BY <1>2, <2>1, Places
  <2>3. j < at
    BY <1>1, <1>2, Places DEF BuildInv
  <2>4. Facts(b)
    BY <1>2, <2>2, <2>3 DEF BuildInv
  <2>5. live_in[b] = {} /\ live_out[b] = {}
    BY <1>2, <2>1 DEF BuildInv, Nothing
  <2>6. Sound(b)
    BY <2>5 DEF Sound
  <2>7. Facts(b)' <=> Facts(b)
    BY <1>1, SameFacts
  <2>8. Sound(b)' <=> Sound(b)
    BY <1>1, SameSound
  <2> QED BY <2>4, <2>6, <2>7, <2>8
<1>4. (\A j \in DOMAIN f.bbs : j < at => Settled(f.bbs[j]))'
  <2>1. \A j \in DOMAIN f.bbs : ~(j < 1)
    BY <1>2, Places
  <2> QED BY <1>1, <2>1
<1>5. FlowInv'
  BY <1>1, <1>3, <1>4 DEF FlowInv
<1>6. WellFormed(f)'
  BY <1>1, <1>2, SameMeaning
<1>7. (/\ DOMAIN map_use = Block /\ DOMAIN map_def = Block /\ DOMAIN big_phi = Block
       /\ DOMAIN live_in = Block /\ DOMAIN live_out = Block)'
  BY <1>1 DEF IInv
<1> QED
  BY <1>1, <1>5, <1>6, <1>7 DEF IInv

\* The equations of a block.
LEMMA FlowBlockInv == IInv /\ FlowBlock => IInv'
<1> SUFFICES ASSUME IInv, FlowBlock PROVE IInv'
  OBVIOUS
<1> DEFINE out == UNION {FromTo(s, bb) : s \in ToSet(f.succ[bb])}
           in == map_use[bb] \cup (out \ map_def[bb])
<1>1. /\ pc = "flow" /\ pc' = pc /\ f' = f /\ at <= Len(f.bbs) /\ at' = at + 1
      /\ map_use' = map_use /\ map_def' = map_def /\ big_phi' = big_phi
  BY DEF FlowBlock
<1>2. /\ live_out' = [live_out EXCEPT ![bb] = out] /\ live_in' = [live_in EXCEPT ![bb] = in]
      /\ is_change' = (is_change \/ in # live_in[bb])
  BY DEF FlowBlock, FromSucc, FromTo
<1>3. WellFormed(f) /\ FlowInv /\ DOMAIN live_in = Block /\ DOMAIN live_out = Block
  BY <1>1 DEF IInv
<1>4. at \in DOMAIN f.bbs /\ at \in Nat \ {0} /\ bb = f.bbs[at] /\ bb \in Blocks /\ bb \in Block
  BY <1>1, <1>3, Places DEF FlowInv, bb
<1>5. out \subseteq LiveOut(Live, bb) /\ in \subseteq MayBeLive(bb)
  <2>1. \A c \in Blocks : Facts(c) /\ live_in[c] \subseteq MayBeLive(c)
    BY <1>3 DEF FlowInv, Sound
  <2>2. out = UNION {FromTo(s, bb) : s \in ToSet(f.succ[bb])}
    OBVIOUS
  <2>3. WellFormed(f) /\ bb \in Blocks
    BY <1>3, <1>4
  <2> HIDE DEF out
  <2> QED BY <2>1, <2>2, <2>3, EquationsSound
<1> HIDE DEF in, out
<1>6. /\ live_out'[bb] = out /\ live_in'[bb] = in
      /\ \A b \in Block : b # bb => live_out'[b] = live_out[b] /\ live_in'[b] = live_in[b]
  BY <1>2, <1>3, <1>4
<1>7. ASSUME NEW b \in Blocks' PROVE (Facts(b) /\ Sound(b))'
  <2>1. b \in Blocks /\ b \in Block
    BY <1>1, <1>3, Places, SameMeaning
  <2>2. Facts(b) /\ (Facts(b)' <=> Facts(b))
    BY <1>1, <1>3, <2>1, SameFacts DEF FlowInv
  <2>3. CASE b # bb
    <3>1. Sound(b) /\ (Sound(b)' <=> Sound(b))
      BY <1>1, <1>3, <1>6, <2>1, <2>3, SameSound DEF FlowInv
    <3> QED BY <2>2, <3>1
  <2>4. CASE b = bb
    <3>1. live_in'[b] \subseteq MayBeLive(b) /\ live_out'[b] \subseteq LiveOut(Live, b)
      BY <1>5, <1>6, <2>4
    <3>2. MayBeLive(b)' = MayBeLive(b) /\ LiveOut(Live, b)' = LiveOut(Live, b)
      BY <1>1, SameMeaning DEF MayBeLive, LiveOut
    <3>3. Sound(b)'
      BY <3>1, <3>2 DEF Sound
    <3> QED BY <2>2, <3>3
  <2> QED BY <2>3, <2>4
<1>8. ASSUME ~is_change', NEW j \in DOMAIN f'.bbs, j < at' PROVE Settled(f.bbs[j])'
  <2>1. ~is_change /\ in = live_in[bb]
    BY <1>2, <1>8
  <2>2. \A b \in Block : live_in'[b] = live_in[b]
    BY <1>6, <2>1
  <2>3. j \in DOMAIN f.bbs /\ j \in Nat /\ f.bbs[j] \in Block
    BY <1>1, <1>3, Places
  <2>4. /\ live_out'[f.bbs[j]] = UNION {FromTo(s, f.bbs[j]) : s \in ToSet(f.succ[f.bbs[j]])}
        /\ live_in'[f.bbs[j]] = map_use[f.bbs[j]] \cup (live_out'[f.bbs[j]] \ map_def[f.bbs[j]])
    <3>1. CASE j = at
      BY <1>4, <1>6, <3>1 DEF in, out
    <3>2. CASE j # at
      <4>1. j < at /\ f.bbs[j] # bb
        BY <1>1, <1>3, <1>4, <1>8, <2>3, <3>2, Places
      <4>2. Settled(f.bbs[j])
        BY <1>1, <1>3, <2>1, <2>3, <4>1 DEF FlowInv
      <4>3. live_out'[f.bbs[j]] = live_out[f.bbs[j]]
        BY <1>6, <2>3, <4>1
      <4> QED BY <2>2, <2>3, <4>2, <4>3 DEF Settled
    <3> QED BY <3>1, <3>2
  <2>5. \A s \in Block : \A b : FromTo(s, b)' = FromTo(s, b)
    BY <1>1, <2>2 DEF FromTo
  <2>6. \A s \in ToSet(f.succ[f.bbs[j]]) : s \in Block
    BY <1>3, <2>3, Places
  <2> QED BY <1>1, <2>4, <2>5, <2>6 DEF Settled
<1>9. FlowInv'
  BY <1>1, <1>4, <1>7, <1>8 DEF FlowInv
<1>10. WellFormed(f)'
  BY <1>1, <1>3, SameMeaning
<1>11. (/\ DOMAIN map_use = Block /\ DOMAIN map_def = Block /\ DOMAIN big_phi = Block
        /\ DOMAIN live_in = Block /\ DOMAIN live_out = Block)'
  BY <1>1, <1>2 DEF IInv
<1> QED
  BY <1>1, <1>9, <1>10, <1>11 DEF IInv

\* Another round, or the end.
LEMMA RoundInv == IInv /\ (FlowAgain \/ Finish) => IInv'
<1> SUFFICES ASSUME IInv, FlowAgain \/ Finish PROVE IInv'
  OBVIOUS
<1>1. /\ pc = "flow" /\ f' = f /\ at > Len(f.bbs)
      /\ UNCHANGED <<map_use, map_def, big_phi, live_in, live_out>>
      /\ \/ pc' = "flow" /\ at' = 1
         \/ pc' = "done" /\ at' = at /\ ~is_change
  BY DEF FlowAgain, Finish
<1>2. WellFormed(f) /\ FlowInv
  BY <1>1 DEF IInv
<1>3. ASSUME NEW b \in Blocks' PROVE (Facts(b) /\ Sound(b))'
  BY <1>1, <1>2, SameMeaning, SameFacts, SameSound DEF FlowInv
<1>4. ASSUME pc' = "flow", NEW j \in DOMAIN f'.bbs PROVE ~(j < at')
  BY <1>1, <1>2, <1>4, Places
<1>5. ASSUME pc' = "done", NEW b \in Blocks' PROVE Settled(b)'
  <2>1. PICK j \in DOMAIN f.bbs : f.bbs[j] = b
    BY <1>1, <1>2, Places, SameMeaning
  <2>2. j < at
    BY <1>1, <1>2, Places DEF FlowInv
  <2>3. Settled(b)
    BY <1>1, <1>2, <1>5, <2>1, <2>2 DEF FlowInv
  <2> QED BY <1>1, <2>3 DEF Settled, FromTo
<1>6. FlowInv'
  <2>1. (at \in Nat \ {0})'
    BY <1>1, <1>2 DEF FlowInv
  <2> QED BY <1>3, <1>4, <1>5, <2>1 DEF FlowInv
<1>7. WellFormed(f)'
  BY <1>1, <1>2, SameMeaning
<1>8. (/\ DOMAIN map_use = Block /\ DOMAIN map_def = Block /\ DOMAIN big_phi = Block
       /\ DOMAIN live_in = Block /\ DOMAIN live_out = Block)'
  BY <1>1 DEF IInv
<1> QED
  BY <1>1, <1>6, <1>7, <1>8 DEF IInv

-----------------------------------------------------------------------------
(* What the analysis ends with.                                            *)

\* Every step keeps the invariant.
LEMMA NextIInv == IInv /\ [Next]_vars => IInv'
<1> SUFFICES ASSUME IInv, [Next]_vars PROVE IInv'
  OBVIOUS
<1>1. CASE Scan
  BY <1>1, ScanInv
<1>2. CASE EndOfBlock
  BY <1>2, EndOfBlockInv
<1>3. CASE EndBuild
  BY <1>3, EndBuildInv
<1>4. CASE FlowBlock
  BY <1>4, FlowBlockInv
<1>5. CASE FlowAgain \/ Finish
  BY <1>5, RoundInv
<1>6. CASE UNCHANGED vars
  <2>1. /\ f' = f /\ pc' = pc /\ at' = at /\ ip' = ip /\ use' = use /\ def' = def
        /\ map_use' = map_use /\ map_def' = map_def /\ big_phi' = big_phi
        /\ live_in' = live_in /\ live_out' = live_out /\ is_change' = is_change
    BY <1>6 DEF vars
  <2>2. \A b : (Facts(b)' <=> Facts(b)) /\ (Sound(b)' <=> Sound(b)) /\ (Settled(b)' <=> Settled(b))
    <3>1. ASSUME NEW b
          PROVE  (Facts(b)' <=> Facts(b)) /\ (Sound(b)' <=> Sound(b)) /\ (Settled(b)' <=> Settled(b))
      <4>1. Facts(b)' <=> Facts(b)
        BY <2>1, SameFacts
      <4>2. Sound(b)' <=> Sound(b)
        BY <2>1, SameSound
      <4>3. Settled(b)' <=> Settled(b)
        BY <2>1 DEF Settled, FromTo
      <4> QED BY <4>1, <4>2, <4>3
    <3> QED BY <3>1
  <2>3. \A j : BlockFacts(f.bbs[j], use, def, FirstOf(f.bbs[j], ip - 1), big_phi[f.bbs[j]])
          => BlockFacts(f.bbs[j], use, def, FirstOf(f.bbs[j], ip - 1), big_phi[f.bbs[j]])'
    <3>1. ASSUME NEW j, BlockFacts(f.bbs[j], use, def, FirstOf(f.bbs[j], ip - 1), big_phi[f.bbs[j]])
          PROVE  BlockFacts(f.bbs[j], use, def, FirstOf(f.bbs[j], ip - 1), big_phi[f.bbs[j]])'
      BY <2>1, <3>1, NewBlockFacts
    <3> QED BY <3>1
  <2>4. ASSUME pc = "build", NEW j \in DOMAIN f'.bbs
        PROVE  (/\ j < at => Facts(f.bbs[j])
                /\ j = at => /\ ip - 1 <= Len(f.list[f.bbs[j]])
                             /\ BlockFacts(f.bbs[j], use, def, FirstOf(f.bbs[j], ip - 1), big_phi[f.bbs[j]])
                /\ j > at => big_phi[f.bbs[j]] = << >>)'
    <3>1. /\ j < at => Facts(f.bbs[j])
          /\ j = at => /\ ip - 1 <= Len(f.list[f.bbs[j]])
                       /\ BlockFacts(f.bbs[j], use, def, FirstOf(f.bbs[j], ip - 1), big_phi[f.bbs[j]])
          /\ j > at => big_phi[f.bbs[j]] = << >>
      BY <2>1, <2>4 DEF IInv, BuildInv
    <3> QED BY <2>1, <2>2, <2>3, <3>1
  <2>5. pc = "build" => BuildInv'
    <3>1. pc = "build" => (/\ at \in Nat \ {0} /\ ip \in Nat \ {0}
                           /\ live_in = Nothing /\ live_out = Nothing /\ ~is_change)'
      BY <2>1 DEF IInv, BuildInv, Nothing
    <3> QED BY <2>4, <3>1 DEF BuildInv
  <2>6. pc # "build" => FlowInv'
    BY <2>1, <2>2, SameMeaning DEF IInv, FlowInv
  <2>7. WellFormed(f)'
    BY <2>1, SameMeaning DEF IInv
  <2> QED BY <2>1, <2>5, <2>6, <2>7 DEF IInv
<1> QED
  BY <1>1, <1>2, <1>3, <1>4, <1>5, <1>6 DEF Next

\* What the use and def sets, the pairs of the phis and the live sets mean at
\* any point of the analysis.
THEOREM AnalysisInvariant == Spec => []IInv
<1>1. Init => IInv
  BY InitIInv
<1>2. IInv /\ [Next]_vars => IInv'
  BY NextIInv
<1> QED
  BY <1>1, <1>2, PTL DEF Spec

\* What may be live into a block is, also when a phi of the block takes it.
LEMMA MayBeLiveIsLive ==
  ASSUME NEW b \in Blocks, Facts(b)
  PROVE  MayBeLive(b) \subseteq LiveIn(Live, b)
<1>1. ASSUME NEW v \in DOMAIN big_phi[b] PROVE v \in LiveIn(Live, b)
  <2>1. /\ v \in map_use[b] /\ big_phi[b][v] \in Block /\ v \in TakenFrom(b, big_phi[b][v])
    BY DEF Facts, BlockFacts
  <2>2. v \in Values
    BY <2>1 DEF Facts, BlockFacts
  <2> QED BY <2>1, <2>2, LiveDomain DEF LiveIn
<1> QED
  BY <1>1, LiveDomain DEF MayBeLive, LiveIn

\* The analysis reports nothing as live that no path reads, whatever the phis of
\* the function; a constant is reported where a path leads to a cast of it.
THEOREM NothingTooMuchReported == Spec => []NothingTooMuch
<1>1. IInv => NothingTooMuch
  <2> SUFFICES ASSUME IInv, pc = "done", NEW b \in Blocks
               PROVE  live_out[b] \subseteq LiveOut(Live, b) /\ live_in[b] \subseteq LiveIn(Live, b)
    BY DEF NothingTooMuch, Blocks
  <2>1. Facts(b) /\ Sound(b)
    BY DEF IInv, FlowInv
  <2> QED BY <2>1, MayBeLiveIsLive DEF Sound
<1> QED
  BY <1>1, AnalysisInvariant, PTL

\* What a phi takes from one block only, and the block of the phi neither
\* defines nor takes otherwise, is in the use set of that block.
LEMMA TakenIsUsed ==
  ASSUME WellFormed(f), PhisUnambiguous(Live), NEW s \in Blocks, Facts(s),
         NEW p \in Block, NEW v \in Values, v \in TakenFrom(s, p)
  PROVE  /\ s \notin Live[v] /\ v \in map_use[s]
         /\ v \in DOMAIN big_phi[s] /\ big_phi[s][v] = p
<1> DEFINE from == {q \in Block : v \in TakenFrom(s, q)}
<1>1. p \in from
  OBVIOUS
<1>2. Cardinality(from) = 1 /\ s \notin Live[v] /\ v \notin DefinedIn(s)
  BY <1>1, LiveDomain DEF PhisUnambiguous, Blocks
<1>3. PICK i \in Phis(s) : v \in Variables(f.ins[i].args)
  BY DEF TakenFrom
<1>4. v \in ReadBy(f.ins[i])
  BY <1>3 DEF ReadBy
<1>5. i \in ToSet(f.list[s])
  BY DEF Phis
<1>7. v \in map_use[s] /\ v \in DOMAIN big_phi[s]
  BY <1>2, <1>4, <1>5 DEF Facts, BlockFacts
<1>8. big_phi[s][v] \in from
  BY <1>7 DEF Facts, BlockFacts
<1>9. from = {p}
  <2>1. \E q : from = {q}
    <3>1. from \subseteq Block
      OBVIOUS
    <3>2. IsFiniteSet(from)
      BY <3>1, BlockAssumption, FS_Subset
    <3> HIDE DEF from
    <3> QED BY <1>2, <3>2, FS_Singleton
  <2> QED BY <1>1, <2>1
<1> QED
  BY <1>2, <1>7, <1>8, <1>9

\* What satisfies the equations is not less than what is live.
LEMMA LiveIsReported ==
  ASSUME WellFormed(f), PhisUnambiguous(Live), \A b \in Blocks : Facts(b) /\ Settled(b),
         NEW v \in Values, NEW b \in Blocks, b \in Live[v]
  PROVE  v \in live_in[b]
<1> DEFINE X == {c \in Live[v] : v \in live_in[c]}
<1>1. Live[v] \in SUBSET Blocks
  BY LiveMeaning
<1>2. ASSUME NEW c \in Blocks PROVE v \in ReadIn(c) => c \in X
  <2> SUFFICES ASSUME v \in ReadIn(c) PROVE c \in X
    OBVIOUS
  <2>1. c \in Live[v]
    BY LiveGoesUp
  <2>2. PICK i \in ToSet(f.list[c]) : v \in ReadBy(f.ins[i]) /\ v \notin DefinedIn(c)
    BY DEF ReadIn
  <2>3. v \in map_use[c]
    BY <2>2 DEF Facts, BlockFacts
  <2> QED BY <2>1, <2>3 DEF Settled
<1>3. ASSUME NEW c \in Blocks, v \notin DefinedIn(c), NEW s \in ToSet(f.succ[c]),
             v \in TakenFrom(s, c) \/ s \in X
      PROVE  c \in X
  <2>1. s \in Blocks /\ s \in Block /\ c \in Block
    BY Places
  <2>2. c \in Live[v]
    BY <1>3, LiveGoesUp
  <2>3. v \in FromTo(s, c)
    <3>1. CASE v \in TakenFrom(s, c)
      <4>1. v \in map_use[s] /\ big_phi[s][v] = c
        BY <2>1, <3>1, TakenIsUsed
      <4> QED BY <2>1, <4>1 DEF FromTo, Settled
    <3>2. CASE s \in X
      <4>1. s \in Live[v] /\ v \in live_in[s]
        BY <3>2
      <4>2. v \notin DOMAIN big_phi[s]
        <5>1. SUFFICES ASSUME v \in DOMAIN big_phi[s] PROVE FALSE
          OBVIOUS
        <5>2. big_phi[s][v] \in Block /\ v \in TakenFrom(s, big_phi[s][v])
          BY <2>1, <5>1 DEF Facts, BlockFacts
        <5> QED BY <2>1, <4>1, <5>2, TakenIsUsed
      <4> QED BY <4>1, <4>2 DEF FromTo
    <3> QED BY <1>3, <3>1, <3>2
  <2>4. v \in live_out[c]
    BY <2>3 DEF Settled
  <2>5. v \notin map_def[c]
    BY <1>3 DEF Facts, BlockFacts
  <2> QED BY <2>2, <2>4, <2>5 DEF Settled
<1>4. Live[v] \subseteq X
  <2>1. X \in SUBSET Blocks
    BY <1>1
  <2> HIDE DEF X
  <2> QED BY <1>2, <1>3, <2>1, LiveIsLeast
<1> QED
  BY <1>4

\* Where the phis are not ambiguous, the analysis reports what is live, no more
\* and no less.
THEOREM LivenessIsExact == Spec => []LivenessExact
<1>1. IInv /\ NothingTooMuch => LivenessExact
  <2> SUFFICES ASSUME IInv, NothingTooMuch, pc = "done", PhisUnambiguous(Live), NEW b \in Blocks
               PROVE  live_out[b] = LiveOut(Live, b) /\ live_in[b] = LiveIn(Live, b)
    BY DEF LivenessExact, Blocks
  <2>1. WellFormed(f) /\ \A c \in Blocks : Facts(c) /\ Settled(c)
    BY DEF IInv, FlowInv
  <2>2. live_out[b] \subseteq LiveOut(Live, b) /\ live_in[b] \subseteq LiveIn(Live, b)
    BY DEF NothingTooMuch, Blocks
  <2>3. ASSUME NEW v \in LiveOut(Live, b) PROVE v \in live_out[b]
    <3>1. v \in Values
      BY LiveDomain DEF LiveOut
    <3>2. PICK s \in ToSet(f.succ[b]) : v \in TakenFrom(s, b) \/ s \in Live[v]
      BY DEF LiveOut
    <3>3. s \in Blocks /\ s \in Block /\ b \in Block
      BY <2>1, Places
    <3>4. v \in FromTo(s, b)
      <4>1. CASE v \in TakenFrom(s, b)
        <5>1. v \in map_use[s] /\ big_phi[s][v] = b
          BY <2>1, <3>1, <3>3, <4>1, TakenIsUsed
        <5> QED BY <2>1, <3>3, <5>1 DEF FromTo, Settled
      <4>2. CASE s \in Live[v]
        <5>1. v \in live_in[s]
          BY <2>1, <3>1, <3>3, <4>2, LiveIsReported
        <5>2. v \notin DOMAIN big_phi[s]
          <6>1. SUFFICES ASSUME v \in DOMAIN big_phi[s] PROVE FALSE
            OBVIOUS
          <6>2. big_phi[s][v] \in Block /\ v \in TakenFrom(s, big_phi[s][v])
            BY <2>1, <3>3, <6>1 DEF Facts, BlockFacts
          <6> QED BY <2>1, <3>1, <3>3, <4>2, <6>2, TakenIsUsed
        <5> QED BY <5>1, <5>2 DEF FromTo
      <4> QED BY <3>2, <4>1, <4>2
    <3> QED BY <2>1, <3>4 DEF Settled
  <2>4. ASSUME NEW v \in LiveIn(Live, b) PROVE v \in live_in[b]
    <3>1. v \in Values
      BY LiveDomain DEF LiveIn
    <3>2. CASE b \in Live[v]
      BY <2>1, <3>1, <3>2, LiveIsReported
    <3>3. CASE b \notin Live[v]
      <4>1. PICK p \in Block : v \in TakenFrom(b, p)
        BY <3>3 DEF LiveIn
      <4>2. v \in map_use[b]
        BY <2>1, <3>1, <4>1, TakenIsUsed
      <4> QED BY <2>1, <4>2 DEF Settled
    <3> QED BY <3>2, <3>3
  <2> QED BY <2>2, <2>3, <2>4
<1> QED
  BY <1>1, AnalysisInvariant, NothingTooMuchReported, PTL

=============================================================================
