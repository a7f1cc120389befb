---------------------- MODULE ConstPropagation_proofs ----------------------
(***************************************************************************)
(* Proofs about ConstPropagation: of functions whose instructions are      *)
(* typed and whose blocks define a value before they use it, nothing that  *)
(* is constant is left to compute when the rounds end.                     *)
(*                                                                         *)
(* Two things are needed beside the types.  A round that changes nothing   *)
(* has seen every block that is kept, and left each of its instructions    *)
(* either to be deleted or with an operand that is not constant (RoundOK,  *)
(* BlockOK).  The one replacement that does not count as a change is that  *)
(* of a load; it is harmless because a load whose global is known goes in  *)
(* the first round (LoadsOK), when its uses in the block still come after  *)
(* it.                                                                     *)
(***************************************************************************)
EXTENDS ConstPropagation, FoldableCode, Dominance_proofs, SequenceTheorems

-----------------------------------------------------------------------------
(* The invariant.  g is the function as it is, q as it was built.          *)

InstrId(q) == DOMAIN q.ins \cup {NewBranch(b) : b \in Block}

\* An operand that may be replaced keeps its type; the others stay, but for
\* the pairs a phi loses.
OperandsOK(q, T, G, g, u) ==
  LET old == q.ins[u]
      new == g.ins[u]
  IN  /\ new.op = old.op
      /\ IF old.op = "phi"
         THEN /\ Len(new.args) >= 2 /\ Len(new.args) % 2 = 0
              /\ \A k \in DOMAIN new.args : k % 2 = 1 => Fits(q, T, new.args[k], {T[u]})
         ELSE /\ Len(new.args) = Len(old.args)
              /\ \A k \in DOMAIN new.args :
                   IF Wants(q, T, G, u, k) = {} THEN new.args[k] = old.args[k]
                   ELSE Fits(q, T, new.args[k], Wants(q, T, G, u, k))

InsOK(q, T, G, g) ==
  /\ DOMAIN q.ins \subseteq DOMAIN g.ins /\ DOMAIN g.ins \subseteq InstrId(q)
  /\ \A u \in DOMAIN g.ins :
       /\ DOMAIN g.ins[u] = {"op", "args", "parent"} /\ g.ins[u].parent = u[1]
       /\ IsSeq(g.ins[u].args)
       /\ IF u \in DOMAIN q.ins THEN OperandsOK(q, T, G, g, u)
          ELSE g.ins[u].op = "br" /\ Len(g.ins[u].args) = 1

\* A value that is used somewhere has the type that is wanted there.
UsesOK(q, T, G, g) ==
  \A x \in g.uses : /\ x[1] \in DOMAIN q.ins /\ x[2] \in DOMAIN q.ins /\ x[3] \in Nat
                    /\ T[x[1]] \in Wants(q, T, G, x[2], x[3] + 1)

\* The instructions of a block are in the order they were built in.
InOrder(g, s) ==
  \A j, k \in 1 .. Len(s) : j < k =>
    /\ g.ins[s[j]].op \notin Ends
    /\ g.ins[s[k]].op # "br" => Before(s[j], s[k])
ListOK(g, b) ==
  LET s == g.list[b]
  IN  /\ s # << >> /\ \A k \in 1 .. Len(s) : s[k] \in DOMAIN g.ins /\ s[k][1] = b
      /\ g.ins[s[Len(s)]].op \in Ends
      /\ InOrder(g, s)

CodeOK(q, T, G, g) ==
  /\ DOMAIN g = {"bbs", "succ", "pre", "list", "ins", "uses"} /\ g.bbs = q.bbs
  /\ g.list \in [Block -> Seq(InstrId(q))]
  /\ InsOK(q, T, G, g) /\ UsesOK(q, T, G, g)
  /\ \A b \in ToSet(q.bbs) : ListOK(g, b)

\* No instruction of a block that is not a phi uses what the block runs later.
UsesForward(q, g) ==
  /\ \A u \in DOMAIN q.ins : q.ins[u].op # "phi" =>
       \A k \in DOMAIN g.ins[u].args :
         LET v == g.ins[u].args[k]
         IN  v[1] = "op" /\ v[2][1] = u[1] => Before(v[2], u)
  /\ \A x \in g.uses : q.ins[x[2]].op # "phi" /\ x[1][1] = x[2][1] => Before(x[1], x[2])

\* u stores to the global that v loads.
IsLoad(q, v) == v \in DOMAIN q.ins /\ q.ins[v].op = "load"
Feeds(q, u, v) ==
  /\ u \in DOMAIN q.ins /\ q.ins[u].op = "store" /\ IsLoad(q, v)
  /\ q.ins[u].args[2][2] = q.ins[v].args[1][2]

NoKnownLoad(q, s) == \A j, k \in 1 .. Len(s) : j < k => ~Feeds(q, s[j], s[k])

\* The instruction i is not constant.
Varies(i) ==
  /\ i.op \in Pure => \E k \in DOMAIN i.args : ~IsInt(i.args[k]) /\ ~IsFP(i.args[k])
  /\ i.op = "phi" => Len(i.args) > 2
Undecided(i) == i.op = "br" /\ Len(i.args) = 3 => ~IsInt(i.args[1])
Folded(g, b) == \A k \in 1 .. Len(g.list[b]) : LET i == g.ins[g.list[b][k]] IN Varies(i) /\ Undecided(i)

Kept(q, D, k) == k \in 1 .. Len(q.bbs) /\ q.bbs[k] \notin D

\* n is the place of the round, c whether it has changed anything, D what is
\* deleted.
RoundOK(q, g, n, c, D) ==
  ~c => \A k \in 1 .. n - 1 : Kept(q, D, k) => Folded(g, q.bbs[k])

LoadsOK(q, g, n, c, D) ==
  \A k \in 1 .. Len(q.bbs) :
    Kept(q, D, k) => NoKnownLoad(q, g.list[q.bbs[k]]) \/ (k >= n /\ (c \/ UsesForward(q, g)))

\* The globals the first n instructions of s store to.
Stored(q, g, s, n) ==
  {q.ins[s[k]].args[2][2] : k \in {j \in 1 .. n : g.ins[s[j]].op = "store"}}

\* The block s = g.list[b], of which n - 1 instructions were visited; W is
\* wait_delete, m globalConstVar.
BlockOK(q, T, G, g, s, n, c, W, m) ==
  /\ n \in 1 .. Len(s) + 1
  /\ W \in Seq(DOMAIN q.ins) /\ \A u \in ToSet(W) : q.ins[u].op \in Pure \cup {"load", "phi"}
  /\ ~c => \A k \in 1 .. n - 1 : s[k] \in ToSet(W) \/ Varies(g.ins[s[k]])
  /\ \A j, k \in 1 .. n - 1 : j < k /\ Feeds(q, s[j], s[k]) => s[k] \in ToSet(W)
  /\ DOMAIN m = Stored(q, g, s, n - 1)
  /\ \A x \in DOMAIN m : Fits(q, T, m[x], {G[x]})
  /\ \/ c \/ NoKnownLoad(q, s)
     \/ /\ UsesForward(q, g)
        /\ \A x \in DOMAIN m : \A k \in n .. Len(s) :
             IsLoad(q, s[k]) /\ m[x][1] = "op" /\ m[x][2][1] = s[k][1] => Before(m[x][2], s[k])

Rounds == {"block", "instr"}

\* The function q as it was built, typed by T and G, and the loops l of it.
FunctionOK(q, T, G, l) ==
  /\ q.bbs \in Seq(Block) /\ IsInjective(q.bbs)
  /\ WellTyped(q, T, G)
  /\ \A u \in DOMAIN q.ins : u[1] \in Block /\ u[2] \in Nat \ {0} /\ IsSeq(q.ins[u].args)
  /\ l = NaturalLoops(Graph(q)) /\ HasInnermost(l)

\* Between two instructions of the round.
RoundsOK(q, T, G, g, n, c, D) ==
  /\ CodeOK(q, T, G, g)
  /\ n \in 1 .. Len(q.bbs) + 1
  /\ RoundOK(q, g, n, c, D) /\ LoadsOK(q, g, n, c, D)

\* While the pass is in the block at place n.
VisitOK(q, T, G, g, n, k, c, D, W, m) ==
  Kept(q, D, n) /\ BlockOK(q, T, G, g, g.list[q.bbs[n]], k, c, W, m)

\* What holds of the function q, typed by T and G.
PassOK(q, T, G) ==
  /\ FunctionOK(q, T, G, loops)
  /\ pc \in Rounds => RoundsOK(q, T, G, f, at, changed, deleteBlockSet)
  /\ pc = "instr" => VisitOK(q, T, G, f, at, ip, changed, deleteBlockSet, wait_delete, globalConstVar)

IInv ==
  /\ \E T, G : PassOK(prog, T, G)
  /\ pc \in Rounds \cup {"abort", "run"}
  /\ NothingLeftToFold

-----------------------------------------------------------------------------
(* Lists.                                                                  *)

\* A sequence over any set is one over its members.
LEMMA SequenceIs ==
  ASSUME NEW V, NEW s \in Seq(V)
  PROVE  IsSeq(s) /\ DOMAIN s = 1 .. Len(s) /\ ToSet(s) \subseteq V
<1>1. s \in [1 .. Len(s) -> V] /\ Len(s) \in Nat
  OBVIOUS
<1>2. s \in [1 .. Len(s) -> ToSet(s)]
  BY <1>1 DEF ToSet
<1>3. s \in Seq(ToSet(s))
  <2> DEFINE n == Len(s)
             W == ToSet(s)
  <2>1. n \in Nat /\ s \in [1 .. n -> W]
    BY <1>1, <1>2
  <2> HIDE DEF n, W
  <2>2. s \in Seq(W)
    BY <2>1
  <2> QED BY <2>2 DEF W
<1> QED
  BY <1>1, <1>3 DEF IsSeq, ToSet

\* A function on 1 .. n is a sequence.
LEMMA FunctionIsSequence ==
  ASSUME NEW n \in Nat, NEW s, s = [k \in 1 .. n |-> s[k]]
  PROVE  IsSeq(s) /\ Len(s) = n /\ DOMAIN s = 1 .. n
<1> DEFINE V == {s[k] : k \in 1 .. n}
<1>1. s \in [1 .. n -> V]
  OBVIOUS
<1> HIDE DEF V
<1>2. s \in Seq(V) /\ Len(s) = n
  BY <1>1
<1> QED
  BY <1>1, <1>2, SequenceIs

-----------------------------------------------------------------------------
(* What the operators on functions do.                                     *)

\* h is g with v written to the places of S, and no more.
IsWritten(g, S, v, h) ==
  /\ DOMAIN h = DOMAIN g /\ h.bbs = g.bbs /\ h.list = g.list
  /\ DOMAIN h.ins = DOMAIN g.ins
  /\ \A u \in DOMAIN g.ins :
       /\ DOMAIN h.ins[u] = {"op", "args", "parent"}
       /\ h.ins[u].op = g.ins[u].op /\ h.ins[u].parent = u[1]
       /\ h.ins[u].args = [k \in DOMAIN g.ins[u].args |->
                             IF \E y \in S : y[2] = u /\ y[3] = k - 1 THEN v ELSE g.ins[u].args[k]]
  /\ h.uses = g.uses \cup IF v[1] = "op" THEN {<<v[2], y[2], y[3]>> : y \in S} ELSE {}

\* That is what SetOperands does.
LEMMA SetOperandsMeaning ==
  ASSUME NEW q, NEW T, NEW G, NEW g, CodeOK(q, T, G, g), NEW S, NEW v, NEW h, h = SetOperands(g, S, v)
  PROVE  IsWritten(g, S, v, h)
<1>1. DOMAIN g = {"bbs", "succ", "pre", "list", "ins", "uses"}
  BY DEF CodeOK
<1>2. \A u \in DOMAIN g.ins :
        /\ DOMAIN g.ins[u] = {"op", "args", "parent"} /\ g.ins[u].parent = u[1]
        /\ IsSeq(g.ins[u].args)
  BY DEF CodeOK, InsOK
<1> DEFINE users == {y[2] : y \in S}
           hit(u, k) == \E y \in S : y[2] = u /\ y[3] = k - 1
           set(u) == [g.ins[u] EXCEPT !.args = [k \in DOMAIN @ |-> IF hit(u, k) THEN v ELSE @[k]]]
           new == [u \in DOMAIN g.ins |-> IF u \in users THEN set(u) ELSE g.ins[u]]
           more == IF v[1] = "op" THEN {<<v[2], y[2], y[3]>> : y \in S} ELSE {}
<1>3. h = [g EXCEPT !.ins = new, !.uses = @ \cup more]
  BY DEF SetOperands
<1>4. ASSUME NEW u \in DOMAIN g.ins
      PROVE  /\ DOMAIN new[u] = {"op", "args", "parent"}
             /\ new[u].op = g.ins[u].op /\ new[u].parent = u[1]
             /\ new[u].args = [k \in DOMAIN g.ins[u].args |-> IF hit(u, k) THEN v ELSE g.ins[u].args[k]]
  <2>1. CASE u \in users
    <3>1. new[u] = set(u)
      BY <2>1
    <3> HIDE DEF new, hit
    <3> QED BY <1>2, <3>1
  <2>2. CASE u \notin users
    <3>0. new[u] = g.ins[u]
      BY <2>2
    <3>1. \A k \in DOMAIN g.ins[u].args : ~hit(u, k)
      BY <2>2
    <3> HIDE DEF new, hit
    <3>2. g.ins[u].args \in Seq(ToSet(g.ins[u].args))
      BY <1>2 DEF IsSeq
    <3>3. g.ins[u].args = [k \in DOMAIN g.ins[u].args |-> g.ins[u].args[k]]
      BY <3>2
    <3>4. g.ins[u].args = [k \in DOMAIN g.ins[u].args |-> IF hit(u, k) THEN v ELSE g.ins[u].args[k]]
      BY <3>1, <3>3
    <3> QED BY <1>2, <3>0, <3>4
  <2> QED BY <2>1, <2>2
<1>5. DOMAIN new = DOMAIN g.ins
  OBVIOUS
<1> HIDE DEF new, more
<1>6. h.ins = new /\ h.uses = g.uses \cup more /\ DOMAIN h = DOMAIN g /\ h.bbs = g.bbs /\ h.list = g.list
  BY <1>1, <1>3
<1> QED
  BY <1>4, <1>5, <1>6 DEF more, IsWritten

\* A block's list stays in order when no instruction gets another op.
LEMMA SameOrder ==
  ASSUME NEW g, NEW h, NEW b, ListOK(g, b), h.list[b] = g.list[b], DOMAIN h.ins = DOMAIN g.ins,
         \A u \in DOMAIN g.ins : h.ins[u].op = g.ins[u].op
  PROVE  ListOK(h, b)
<1> PICK s : s = g.list[b]
  OBVIOUS
<1>1. /\ s # << >> /\ \A k \in 1 .. Len(s) : s[k] \in DOMAIN g.ins /\ s[k][1] = b
      /\ g.ins[s[Len(s)]].op \in Ends /\ InOrder(g, s)
  BY DEF ListOK
<1>2. \A k \in 1 .. Len(s) : h.ins[s[k]].op = g.ins[s[k]].op
  BY <1>1
<1>3. InOrder(h, s)
  <2> SUFFICES ASSUME NEW j \in 1 .. Len(s), NEW k \in 1 .. Len(s), j < k
               PROVE  h.ins[s[j]].op \notin Ends /\ (h.ins[s[k]].op # "br" => Before(s[j], s[k]))
    BY DEF InOrder
  <2>1. g.ins[s[j]].op \notin Ends /\ (g.ins[s[k]].op # "br" => Before(s[j], s[k]))
    BY <1>1 DEF InOrder
  <2>2. h.ins[s[j]].op = g.ins[s[j]].op /\ h.ins[s[k]].op = g.ins[s[k]].op
    BY <1>2
  <2> QED BY <2>1, <2>2
<1>4. h.ins[s[Len(s)]].op \in Ends
  <2>1. CASE s[Len(s)] \in DOMAIN g.ins
    BY <1>1, <2>1
  <2>2. CASE ~(Len(s) \in 1 .. Len(s))
    BY <1>1, <2>2
  <2> QED BY <1>1, <2>1, <2>2
<1> QED
  BY <1>1, <1>3, <1>4 DEF ListOK

\* A value of the type of x may take its place.
LEMMA SetOperandsOK ==
  ASSUME NEW q, NEW T, NEW G, NEW g, CodeOK(q, T, G, g), NEW x \in DOMAIN q.ins,
         NEW S \in SUBSET UseList(g, x), NEW v, Fits(q, T, v, {T[x]}),
         NEW h, h = SetOperands(g, S, v)
  PROVE  CodeOK(q, T, G, h)
<1>0. IsWritten(g, S, v, h)
  BY SetOperandsMeaning
<1>1. /\ DOMAIN h = DOMAIN g /\ h.bbs = g.bbs /\ h.list = g.list
      /\ DOMAIN h.ins = DOMAIN g.ins
      /\ \A u \in DOMAIN g.ins :
           /\ DOMAIN h.ins[u] = {"op", "args", "parent"}
           /\ h.ins[u].op = g.ins[u].op /\ h.ins[u].parent = u[1]
           /\ h.ins[u].args = [k \in DOMAIN g.ins[u].args |->
                                 IF \E y \in S : y[2] = u /\ y[3] = k - 1 THEN v ELSE g.ins[u].args[k]]
      /\ h.uses = g.uses \cup IF v[1] = "op" THEN {<<v[2], y[2], y[3]>> : y \in S} ELSE {}
  BY <1>0 DEF IsWritten
<1>2. \A y \in S : /\ y \in g.uses /\ y[2] \in DOMAIN q.ins /\ y[3] \in Nat
                   /\ T[x] \in Wants(q, T, G, y[2], y[3] + 1)
  BY DEF UseList, CodeOK, UsesOK
<1>3. ASSUME NEW u \in DOMAIN g.ins
      PROVE  /\ IsSeq(h.ins[u].args) /\ Len(h.ins[u].args) = Len(g.ins[u].args)
             /\ DOMAIN h.ins[u].args = DOMAIN g.ins[u].args
             /\ DOMAIN g.ins[u].args = 1 .. Len(g.ins[u].args)
  <2>1. IsSeq(g.ins[u].args)
    BY DEF CodeOK, InsOK
  <2>2. Len(g.ins[u].args) \in Nat /\ DOMAIN g.ins[u].args = 1 .. Len(g.ins[u].args)
    BY <2>1 DEF IsSeq
  <2>3. h.ins[u].args = [k \in 1 .. Len(g.ins[u].args) |-> h.ins[u].args[k]]
    BY <1>1, <2>2
  <2> QED BY <2>2, <2>3, FunctionIsSequence
<1>4. ASSUME NEW u \in DOMAIN g.ins, NEW k \in DOMAIN g.ins[u].args, h.ins[u].args[k] # g.ins[u].args[k]
      PROVE  /\ u \in DOMAIN q.ins /\ h.ins[u].args[k] = v
             /\ T[x] \in Wants(q, T, G, u, k)
  <2>1. PICK y \in S : y[2] = u /\ y[3] = k - 1
    BY <1>1, <1>4, Zenon
  <2>2. k \in Nat
    BY <1>3
  <2>3. (k - 1) + 1 = k
    BY <2>2
  <2>4. h.ins[u].args[k] = IF \E z \in S : z[2] = u /\ z[3] = k - 1 THEN v ELSE g.ins[u].args[k]
    BY <1>0 DEF IsWritten
  <2>5. h.ins[u].args[k] = v
    BY <2>1, <2>4
  <2> QED BY <1>2, <2>1, <2>3, <2>5
<1>5. ASSUME NEW K, T[x] \in K PROVE Fits(q, T, v, K) /\ K # {}
  BY <1>5 DEF Fits
<1>6. ASSUME NEW u \in DOMAIN q.ins, u \in DOMAIN g.ins, OperandsOK(q, T, G, g, u)
      PROVE  OperandsOK(q, T, G, h, u)
  <2>1. h.ins[u].op = g.ins[u].op
    BY <1>1, <1>6
  <2>2. CASE q.ins[u].op = "phi"
    <3>1. ASSUME NEW k \in DOMAIN h.ins[u].args, k % 2 = 1
          PROVE  Fits(q, T, h.ins[u].args[k], {T[u]})
      <4>1. CASE h.ins[u].args[k] = g.ins[u].args[k]
        BY <1>3, <1>6, <2>2, <3>1, <4>1 DEF OperandsOK
      <4>2. CASE h.ins[u].args[k] # g.ins[u].args[k]
        <5>1. h.ins[u].args[k] = v /\ T[x] \in Wants(q, T, G, u, k)
          BY <1>3, <1>4, <1>6, <4>2
        <5>2. Wants(q, T, G, u, k) = {T[u]}
          BY <2>2, <3>1 DEF Wants, TakesInt, TakesFP, IntOps, CmpOps, FloatOps, FCmpOps
        <5> QED BY <1>5, <5>1, <5>2
      <4> QED BY <4>1, <4>2
    <3> QED BY <1>3, <1>6, <2>1, <2>2, <3>1 DEF OperandsOK
  <2>3. CASE q.ins[u].op # "phi"
    <3>1. ASSUME NEW k \in DOMAIN h.ins[u].args
          PROVE  IF Wants(q, T, G, u, k) = {} THEN h.ins[u].args[k] = q.ins[u].args[k]
                 ELSE Fits(q, T, h.ins[u].args[k], Wants(q, T, G, u, k))
      <4>1. CASE h.ins[u].args[k] = g.ins[u].args[k]
        BY <1>3, <1>6, <2>3, <4>1 DEF OperandsOK
      <4>2. CASE h.ins[u].args[k] # g.ins[u].args[k]
        <5>1. h.ins[u].args[k] = v /\ T[x] \in Wants(q, T, G, u, k)
          BY <1>3, <1>4, <1>6, <4>2
        <5> QED BY <1>5, <5>1
      <4> QED BY <4>1, <4>2
    <3> QED BY <1>3, <1>6, <2>1, <2>3, <3>1 DEF OperandsOK
  <2> QED BY <2>2, <2>3
<1>7. InsOK(q, T, G, h)
  <2>1. InsOK(q, T, G, g)
    BY DEF CodeOK
  <2>2. ASSUME NEW u \in DOMAIN g.ins
        PROVE  IF u \in DOMAIN q.ins THEN OperandsOK(q, T, G, h, u)
               ELSE h.ins[u].op = "br" /\ Len(h.ins[u].args) = 1
    <3>1. h.ins[u].op = g.ins[u].op
      BY <1>1
    <3> QED BY <1>3, <1>6, <2>1, <3>1 DEF InsOK
  <2> QED BY <1>1, <1>3, <2>1, <2>2 DEF InsOK
<1>8. UsesOK(q, T, G, h)
  <2> SUFFICES ASSUME NEW z \in h.uses
               PROVE  /\ z[1] \in DOMAIN q.ins /\ z[2] \in DOMAIN q.ins /\ z[3] \in Nat
                      /\ T[z[1]] \in Wants(q, T, G, z[2], z[3] + 1)
    BY DEF UsesOK
  <2>1. CASE z \in g.uses
    BY <2>1 DEF CodeOK, UsesOK
  <2>2. CASE z \notin g.uses
    <3>1. v[1] = "op" /\ \E y \in S : z = <<v[2], y[2], y[3]>>
      BY <1>1, <2>2
    <3>2. PICK y \in S : z = <<v[2], y[2], y[3]>>
      BY <3>1
    <3>3. v[2] \in DOMAIN q.ins /\ T[v[2]] = T[x]
      BY <3>1 DEF Fits
    <3> QED BY <1>2, <3>2, <3>3
  <2> QED BY <2>1, <2>2
<1>9. ASSUME NEW b \in ToSet(q.bbs) PROVE ListOK(h, b)
  <2>1. h.list = g.list
    BY <1>1
  <2>2. \A u \in DOMAIN g.ins : h.ins[u].op = g.ins[u].op
    BY <1>1
  <2>3. ListOK(g, b)
    BY DEF CodeOK
  <2>4. DOMAIN h.ins = DOMAIN g.ins /\ h.list[b] = g.list[b]
    BY <1>1, <2>1
  <2> QED BY <2>2, <2>3, <2>4, SameOrder
<1>10. h.list \in [Block -> Seq(InstrId(q))]
  BY <1>1 DEF CodeOK
<1> QED
  BY <1>1, <1>7, <1>8, <1>9, <1>10 DEF CodeOK

-----------------------------------------------------------------------------
(* What replacing operands, removing pairs and deleting instructions leave.*)

\* What is not a user of the places written to, and a phi, varies as before.
LEMMA StillVaries ==
  ASSUME NEW q, NEW T, NEW G, NEW g, CodeOK(q, T, G, g), NEW S, NEW v, NEW h, IsWritten(g, S, v, h),
         NEW u \in DOMAIN g.ins, g.ins[u].op = "phi" \/ \A y \in S : y[2] # u, Varies(g.ins[u])
  PROVE  Varies(h.ins[u])
<1>1. IsSeq(g.ins[u].args)
  BY DEF CodeOK, InsOK
<1>2. Len(g.ins[u].args) \in Nat /\ DOMAIN g.ins[u].args = 1 .. Len(g.ins[u].args)
  BY <1>1 DEF IsSeq
<1>3. /\ h.ins[u].op = g.ins[u].op
      /\ h.ins[u].args = [k \in DOMAIN g.ins[u].args |->
                            IF \E y \in S : y[2] = u /\ y[3] = k - 1 THEN v ELSE g.ins[u].args[k]]
  BY DEF IsWritten
<1>4. Len(h.ins[u].args) = Len(g.ins[u].args) /\ DOMAIN h.ins[u].args = DOMAIN g.ins[u].args
  <2>1. h.ins[u].args = [k \in 1 .. Len(g.ins[u].args) |-> h.ins[u].args[k]]
    BY <1>2, <1>3
  <2> QED BY <1>2, <2>1, FunctionIsSequence
<1>5. CASE g.ins[u].op = "phi"
  <2>1. g.ins[u].op \notin Pure
    BY <1>5 DEF Pure, IntOps, FloatOps, CmpOps, FCmpOps, Casts
  <2> QED BY <1>3, <1>4, <1>5, <2>1 DEF Varies
<1>6. CASE \A y \in S : y[2] # u
  <2>1. \A k \in DOMAIN g.ins[u].args : h.ins[u].args[k] = g.ins[u].args[k]
    <3> SUFFICES ASSUME NEW k \in DOMAIN g.ins[u].args PROVE h.ins[u].args[k] = g.ins[u].args[k]
      OBVIOUS
    <3>1. h.ins[u].args[k] = IF \E y \in S : y[2] = u /\ y[3] = k - 1 THEN v ELSE g.ins[u].args[k]
      BY <1>3
    <3>2. ~\E y \in S : y[2] = u /\ y[3] = k - 1
      BY <1>6
    <3> QED BY <3>1, <3>2
  <2> QED BY <1>3, <1>4, <2>1 DEF Varies
<1> QED
  BY <1>5, <1>6

\* The uses of x in its block may be given what the block runs before x.
LEMMA StillForward ==
  ASSUME NEW q, NEW T, NEW G, NEW g, CodeOK(q, T, G, g), UsesForward(q, g),
         \A u \in DOMAIN q.ins : u[2] \in Nat,
         NEW x \in DOMAIN q.ins, NEW S \in SUBSET UseList(g, x), \A y \in S : y[2][1] = x[1],
         NEW v, Fits(q, T, v, {T[x]}), v[1] = "op" /\ v[2][1] = x[1] => Before(v[2], x),
         NEW h, IsWritten(g, S, v, h)
  PROVE  UsesForward(q, h)
<1>1. \A y \in S : y \in g.uses /\ y[1] = x /\ y[2] \in DOMAIN q.ins
  BY DEF UseList, CodeOK, UsesOK
<1>2. ASSUME NEW y \in S, q.ins[y[2]].op # "phi", v[1] = "op", v[2][1] = y[2][1]
      PROVE  Before(v[2], y[2])
  <2>1. Before(x, y[2])
    BY <1>1, <1>2 DEF UsesForward
  <2>2. Before(v[2], x)
    BY <1>2
  <2>3. v[2] \in DOMAIN q.ins
    BY <1>2 DEF Fits
  <2> QED BY <1>1, <2>1, <2>2, <2>3 DEF Before
<1>3. ASSUME NEW u \in DOMAIN q.ins, q.ins[u].op # "phi", NEW k \in DOMAIN h.ins[u].args,
             h.ins[u].args[k][1] = "op", h.ins[u].args[k][2][1] = u[1]
      PROVE  Before(h.ins[u].args[k][2], u)
  <2>1. u \in DOMAIN g.ins
    BY DEF CodeOK, InsOK
  <2>2. /\ k \in DOMAIN g.ins[u].args
        /\ h.ins[u].args[k] = IF \E y \in S : y[2] = u /\ y[3] = k - 1 THEN v ELSE g.ins[u].args[k]
    BY <1>3, <2>1 DEF IsWritten
  <2>3. CASE \E y \in S : y[2] = u /\ y[3] = k - 1
    BY <1>2, <1>3, <2>2, <2>3
  <2>4. CASE ~\E y \in S : y[2] = u /\ y[3] = k - 1
    BY <1>3, <2>2, <2>4 DEF UsesForward
  <2> QED BY <2>3, <2>4
<1>4. ASSUME NEW z \in h.uses, q.ins[z[2]].op # "phi", z[1][1] = z[2][1]
      PROVE  Before(z[1], z[2])
  <2>1. CASE z \in g.uses
    BY <1>4, <2>1 DEF UsesForward
  <2>2. CASE z \notin g.uses
    <3>1. v[1] = "op" /\ \E y \in S : z = <<v[2], y[2], y[3]>>
      BY <2>2 DEF IsWritten
    <3>2. PICK y \in S : z = <<v[2], y[2], y[3]>>
      BY <3>1
    <3> QED BY <1>2, <1>4, <3>1, <3>2
  <2> QED BY <2>1, <2>2
<1> QED
  BY <1>3, <1>4 DEF UsesForward

\* a is what s has up to place i, b what it has after i + 2.
Parts(V, s, i, a, b) ==
  /\ a \in Seq(V) /\ Len(a) = i /\ \A k \in 1 .. i : a[k] = s[k]
  /\ b \in Seq(V) /\ Len(b) = Len(s) - 2 - i /\ \A k \in 1 .. Len(s) - 2 - i : b[k] = s[k + i + 2]

\* The two parts of a list that erasing a pair leaves.
LEMMA PartsOf ==
  ASSUME NEW V, NEW s \in Seq(V), NEW i \in Nat, i + 2 <= Len(s)
  PROVE  Parts(V, s, i, SubSeq(s, 1, i), SubSeq(s, i + 3, Len(s)))
<1> PICK n \in Nat : n = Len(s)
  OBVIOUS
<1>0. i + 2 <= n /\ \A k \in 1 .. n : s[k] \in V
  OBVIOUS
<1>1. /\ 1 \in Int /\ i \in Int /\ i + 3 \in Int /\ n \in Int
      /\ \A k \in 1 .. i : k \in 1 .. n
      /\ \A k \in i + 3 .. n : k \in 1 .. n
      /\ i - 1 + 1 = i
      /\ (IF 1 <= i THEN i - 1 + 1 ELSE 0) = i
      /\ n - (i + 3) + 1 = n - 2 - i
      /\ (IF i + 3 <= n THEN n - (i + 3) + 1 ELSE 0) = n - 2 - i
      /\ \A k \in 1 .. i : 1 + k - 1 = k
      /\ \A k \in 1 .. n - 2 - i : i + 3 + k - 1 = k + i + 2
  BY <1>0
<1>3. (\A k \in 1 .. i : s[k] \in V) /\ (\A k \in i + 3 .. n : s[k] \in V)
  BY <1>0, <1>1
<1>4. /\ SubSeq(s, 1, i) \in Seq(V)
      /\ Len(SubSeq(s, 1, i)) = IF 1 <= i THEN i - 1 + 1 ELSE 0
      /\ \A k \in 1 .. i - 1 + 1 : SubSeq(s, 1, i)[k] = s[1 + k - 1]
  BY <1>1, <1>3, SubSeqProperties
<1>5. /\ SubSeq(s, i + 3, n) \in Seq(V)
      /\ Len(SubSeq(s, i + 3, n)) = IF i + 3 <= n THEN n - (i + 3) + 1 ELSE 0
      /\ \A k \in 1 .. n - (i + 3) + 1 : SubSeq(s, i + 3, n)[k] = s[i + 3 + k - 1]
  BY <1>1, <1>3, SubSeqProperties
<1>6. \A k \in 1 .. i : SubSeq(s, 1, i)[k] = s[k]
  BY <1>1, <1>4
<1>7. \A k \in 1 .. n - 2 - i : SubSeq(s, i + 3, n)[k] = s[k + i + 2]
  BY <1>1, <1>5
<1> QED
  BY <1>1, <1>4, <1>5, <1>6, <1>7 DEF Parts

\* Two lists joined: which members are where.
LEMMA Joined ==
  ASSUME NEW V, NEW a \in Seq(V), NEW b \in Seq(V)
  PROVE  /\ a \o b \in Seq(V) /\ Len(a \o b) = Len(a) + Len(b)
         /\ \A k \in 1 .. Len(a) + Len(b) : (a \o b)[k] = IF k <= Len(a) THEN a[k] ELSE b[k - Len(a)]
  BY ConcatProperties

\* r is s without the two members after place i.
WithoutPair(s, i, r) ==
  /\ IsSeq(r) /\ Len(r) = Len(s) - 2 /\ DOMAIN r = 1 .. Len(s) - 2
  /\ \A k \in 1 .. Len(s) - 2 : r[k] = IF k <= i THEN s[k] ELSE s[k + 2]

\* What erasing two members of a list leaves (PhiInst::remove_phi_operand).
LEMMA PairRemoved ==
  ASSUME NEW s, IsSeq(s), NEW i \in Nat, i + 2 <= Len(s)
  PROVE  WithoutPair(s, i, SubSeq(s, 1, i) \o SubSeq(s, i + 3, Len(s)))
<1>1. PICK V : s \in Seq(V)
  BY DEF IsSeq
<1>2. PICK n \in Nat : n = Len(s)
  BY <1>1
<1>0. PICK a, b : a = SubSeq(s, 1, i) /\ b = SubSeq(s, i + 3, Len(s)) /\ Parts(V, s, i, a, b)
  BY <1>1, PartsOf
<1>3. /\ a \in Seq(V) /\ Len(a) = i /\ \A k \in 1 .. i : a[k] = s[k]
      /\ b \in Seq(V) /\ Len(b) = n - 2 - i /\ \A k \in 1 .. n - 2 - i : b[k] = s[k + i + 2]
  BY <1>0, <1>2 DEF Parts
<1>4. SubSeq(s, 1, i) \o SubSeq(s, i + 3, Len(s)) = a \o b
  BY <1>0
<1>5. PICK r : r = a \o b
  OBVIOUS
<1>6. /\ r \in Seq(V) /\ Len(r) = Len(a) + Len(b)
      /\ \A k \in 1 .. Len(a) + Len(b) : r[k] = IF k <= Len(a) THEN a[k] ELSE b[k - Len(a)]
  <2>1. a \in Seq(V) /\ b \in Seq(V)
    BY <1>3
  <2>2. /\ a \o b \in Seq(V) /\ Len(a \o b) = Len(a) + Len(b)
        /\ \A k \in 1 .. Len(a) + Len(b) : (a \o b)[k] = IF k <= Len(a) THEN a[k] ELSE b[k - Len(a)]
    BY <2>1, Joined
  <2> QED BY <1>5, <2>2
<1>7. i + 2 <= n /\ Len(a) + Len(b) = n - 2
  BY <1>2, <1>3
<1>8. ASSUME NEW k \in 1 .. n - 2 PROVE r[k] = IF k <= i THEN s[k] ELSE s[k + 2]
  <2>1. r[k] = IF k <= i THEN a[k] ELSE b[k - i]
    BY <1>3, <1>6, <1>7
  <2>2. CASE k <= i
    <3>1. k \in 1 .. i
      BY <2>2
    <3> QED BY <1>3, <2>1, <2>2, <3>1
  <2>3. CASE k > i
    <3>1. k - i \in 1 .. n - 2 - i /\ (k - i) + i + 2 = k + 2
      BY <1>7, <2>3
    <3>2. b[k - i] = s[k + 2]
      BY <1>3, <3>1
    <3> QED BY <2>1, <2>3, <3>2
  <2> QED BY <2>2, <2>3
<1>9. IsSeq(r) /\ DOMAIN r = 1 .. Len(r)
  BY <1>6, SequenceIs
<1>10. WithoutPair(s, i, r)
  BY <1>2, <1>6, <1>7, <1>8, <1>9 DEF WithoutPair
<1> QED
  BY <1>4, <1>5, <1>10

\* What is left is a list of pairs.
LEMMA PairsLeft ==
  ASSUME NEW s, IsSeq(s), Len(s) % 2 = 0, Len(s) >= 4, NEW i \in Nat, NEW r, WithoutPair(s, i, r),
         NEW q, NEW T, NEW K,
         \A k \in 1 .. Len(s) : k % 2 = 1 => Fits(q, T, s[k], K)
  PROVE  /\ IsSeq(r) /\ Len(r) >= 2 /\ Len(r) % 2 = 0 /\ DOMAIN r = 1 .. Len(r)
         /\ \A k \in 1 .. Len(r) : k % 2 = 1 => Fits(q, T, r[k], K)
<1>1. PICK n \in Nat : n = Len(s)
  BY DEF IsSeq
<1>2. IsSeq(r) /\ Len(r) = n - 2 /\ DOMAIN r = 1 .. n - 2
  BY <1>1 DEF WithoutPair
<1>3. n - 2 >= 2 /\ (n - 2) % 2 = 0
  BY <1>1
<1>4. ASSUME NEW k \in 1 .. n - 2, k % 2 = 1 PROVE Fits(q, T, r[k], K)
  <2>1. r[k] = IF k <= i THEN s[k] ELSE s[k + 2]
    BY <1>1 DEF WithoutPair
  <2>2. k \in 1 .. n /\ k + 2 \in 1 .. n /\ (k + 2) % 2 = 1
    BY <1>4
  <2>3. Fits(q, T, s[k], K) /\ Fits(q, T, s[k + 2], K)
    BY <1>1, <1>4, <2>2
  <2> QED BY <2>1, <2>3
<1> QED
  BY <1>2, <1>3, <1>4

\* h is g but for the operands of u, which are r.
IsCut(g, u, r, h) ==
  /\ DOMAIN h = DOMAIN g /\ h.bbs = g.bbs /\ h.list = g.list /\ h.uses \subseteq g.uses
  /\ DOMAIN h.ins = DOMAIN g.ins /\ \A x \in DOMAIN g.ins : x # u => h.ins[x] = g.ins[x]
  /\ DOMAIN h.ins[u] = {"op", "args", "parent"} /\ h.ins[u].op = g.ins[u].op
  /\ h.ins[u].parent = g.ins[u].parent /\ h.ins[u].args = r

\* A phi that loses pairs and keeps one leaves the function typed.
LEMMA CutOK ==
  ASSUME NEW q, NEW T, NEW G, NEW g, CodeOK(q, T, G, g), NEW u \in DOMAIN q.ins, q.ins[u].op = "phi",
         NEW r, IsSeq(r), Len(r) >= 2, Len(r) % 2 = 0,
         \A k \in DOMAIN r : k % 2 = 1 => Fits(q, T, r[k], {T[u]}), NEW h, IsCut(g, u, r, h)
  PROVE  CodeOK(q, T, G, h)
<1>1. /\ DOMAIN g = {"bbs", "succ", "pre", "list", "ins", "uses"} /\ g.bbs = q.bbs
      /\ g.list \in [Block -> Seq(InstrId(q))]
      /\ InsOK(q, T, G, g) /\ UsesOK(q, T, G, g)
      /\ \A b \in ToSet(q.bbs) : ListOK(g, b)
  BY DEF CodeOK
<1>2. /\ u \in DOMAIN g.ins /\ DOMAIN g.ins[u] = {"op", "args", "parent"} /\ g.ins[u].parent = u[1]
      /\ OperandsOK(q, T, G, g, u)
  BY <1>1 DEF InsOK
<1>3. OperandsOK(q, T, G, h, u)
  <2>1. h.ins[u].op = q.ins[u].op /\ h.ins[u].args = r
    BY <1>2 DEF OperandsOK, IsCut
  <2> QED BY <2>1 DEF OperandsOK
<1>4. InsOK(q, T, G, h)
  <2>1. ASSUME NEW x \in DOMAIN g.ins
        PROVE  /\ DOMAIN h.ins[x] = {"op", "args", "parent"} /\ h.ins[x].parent = x[1]
               /\ IsSeq(h.ins[x].args)
               /\ IF x \in DOMAIN q.ins THEN OperandsOK(q, T, G, h, x)
                  ELSE h.ins[x].op = "br" /\ Len(h.ins[x].args) = 1
    <3>1. CASE x = u
      BY <1>2, <1>3, <3>1 DEF IsCut
    <3>2. CASE x # u
      <4>1. h.ins[x] = g.ins[x]
        BY <3>2 DEF IsCut
      <4>2. OperandsOK(q, T, G, g, x) <=> OperandsOK(q, T, G, h, x)
        BY <4>1 DEF OperandsOK
      <4> QED BY <1>1, <4>1, <4>2 DEF InsOK
    <3> QED BY <3>1, <3>2
  <2>2. DOMAIN h.ins = DOMAIN g.ins
    BY DEF IsCut
  <2> QED BY <1>1, <2>1, <2>2 DEF InsOK
<1>5. UsesOK(q, T, G, h)
  BY <1>1 DEF UsesOK, IsCut
<1>6. ASSUME NEW b \in ToSet(q.bbs) PROVE ListOK(h, b)
  <2>1. h.list[b] = g.list[b] /\ DOMAIN h.ins = DOMAIN g.ins /\ ListOK(g, b)
    BY <1>1 DEF IsCut
  <2>2. \A x \in DOMAIN g.ins : h.ins[x].op = g.ins[x].op
    BY DEF IsCut
  <2> QED BY <2>1, <2>2, SameOrder
<1>7. DOMAIN h = DOMAIN g /\ h.bbs = g.bbs /\ h.list = g.list
  BY DEF IsCut
<1> QED
  BY <1>1, <1>4, <1>5, <1>6, <1>7 DEF CodeOK

\* A phi may lose a pair when it has another one.
LEMMA RemovePairOK ==
  ASSUME NEW q, NEW T, NEW G, NEW g, CodeOK(q, T, G, g), NEW u \in DOMAIN q.ins, q.ins[u].op = "phi",
         NEW i \in Nat, i + 2 <= Len(g.ins[u].args), Len(g.ins[u].args) >= 4
  PROVE  /\ CodeOK(q, T, G, RemovePair(g, u, i))
         /\ \E r : IsCut(g, u, r, RemovePair(g, u, i)) /\ Len(r) = Len(g.ins[u].args) - 2
<1> DEFINE s == g.ins[u].args
           r == SubSeq(s, 1, i) \o SubSeq(s, i + 3, Len(s))
           w == WithoutUses(g, u, SubSeq(s, i + 1, i + 2))
<1> PICK h : h = RemovePair(g, u, i)
  OBVIOUS
<1>1. /\ DOMAIN g = {"bbs", "succ", "pre", "list", "ins", "uses"}
      /\ u \in DOMAIN g.ins /\ DOMAIN g.ins[u] = {"op", "args", "parent"} /\ IsSeq(s) /\ OperandsOK(q, T, G, g, u)
  BY DEF CodeOK, InsOK
<1>2. WithoutPair(s, i, r)
  <2>1. i + 2 <= Len(s)
    OBVIOUS
  <2> HIDE DEF s
  <2> QED BY <1>1, <2>1, PairRemoved DEF s
<1>3. DOMAIN w = DOMAIN g /\ w.bbs = g.bbs /\ w.list = g.list /\ w.ins = g.ins /\ w.uses \subseteq g.uses
  BY <1>1 DEF WithoutUses
<1>4. h = [w EXCEPT !.ins[u].args = r]
  BY DEF RemovePair
<1> HIDE DEF w, r
<1>5. IsCut(g, u, r, h)
  BY <1>1, <1>3, <1>4 DEF IsCut
<1>6. /\ Len(s) % 2 = 0 /\ Len(s) >= 4 /\ IsSeq(s)
      /\ \A k \in 1 .. Len(s) : k % 2 = 1 => Fits(q, T, s[k], {T[u]})
  <2>1. /\ Len(s) % 2 = 0 /\ \A k \in DOMAIN s : k % 2 = 1 => Fits(q, T, s[k], {T[u]})
    BY <1>1 DEF OperandsOK
  <2>2. Len(s) >= 4 /\ DOMAIN s = 1 .. Len(s)
    BY <1>1 DEF IsSeq
  <2> QED BY <1>1, <2>1, <2>2
<1> HIDE DEF s
<1>7. /\ IsSeq(r) /\ Len(r) >= 2 /\ Len(r) % 2 = 0 /\ DOMAIN r = 1 .. Len(r)
      /\ \A k \in 1 .. Len(r) : k % 2 = 1 => Fits(q, T, r[k], {T[u]})
  BY <1>2, <1>6, PairsLeft
<1>8. CodeOK(q, T, G, h)
  BY <1>5, <1>7, CutOK
<1>9. Len(r) = Len(s) - 2
  BY <1>2 DEF WithoutPair
<1> QED
  BY <1>5, <1>8, <1>9 DEF s

\* One step of the loop over the pairs of the phi id.
PrunedFrom(h, k) == IF k - 1 \in Nat THEN PrunedAt(h, k - 1) ELSE h
IsPruned(p, n) == p = [k \in 0 .. n |-> IF k = 0 THEN f ELSE PrunedFrom(p[k - 1], k)]

\* The loop comes to its end.
LEMMA PrunedExists ==
  ASSUME NEW n \in Nat
  PROVE  \E p : IsPruned(p, n)
<1> DEFINE S == {m \in Nat : \E p : IsPruned(p, m)}
<1>1. 0 \in S
  <2> DEFINE p == [k \in 0 .. 0 |-> f]
  <2>1. IsPruned(p, 0)
    BY DEF IsPruned
  <2> QED BY <2>1
<1>2. ASSUME NEW m \in Nat, m \in S PROVE m + 1 \in S
  <2>1. PICK p : IsPruned(p, m)
    BY <1>2
  <2>2. p[0] = f /\ \A k \in 1 .. m : p[k] = PrunedFrom(p[k - 1], k)
    BY <2>1 DEF IsPruned
  <2> DEFINE h == [k \in 0 .. m + 1 |-> IF k = m + 1 THEN PrunedFrom(p[m], m + 1) ELSE p[k]]
  <2>3. ASSUME NEW k \in 0 .. m + 1 PROVE h[k] = IF k = 0 THEN f ELSE PrunedFrom(h[k - 1], k)
    <3>1. CASE k = 0
      BY <2>2, <3>1
    <3>2. CASE k \in 1 .. m
      <4>1. h[k] = p[k] /\ h[k - 1] = p[k - 1]
        BY <3>2
      <4> QED BY <2>2, <3>2, <4>1
    <3>3. CASE k = m + 1
      <4>1. h[k] = PrunedFrom(p[m], m + 1) /\ h[k - 1] = p[m]
        BY <3>3
      <4> QED BY <3>3, <4>1
    <3> QED BY <3>1, <3>2, <3>3
  <2>4. IsPruned(h, m + 1)
    <3>1. h = [k \in 0 .. m + 1 |-> h[k]]
      OBVIOUS
    <3> HIDE DEF h
    <3> QED BY <2>3, <3>1 DEF IsPruned
  <2> QED BY <2>4
<1>3. Nat \subseteq S
  <2> HIDE DEF S
  <2> QED BY <1>1, <1>2, SetInduction
<1> QED
  BY <1>3

\* Its steps.
LEMMA PrunedSteps ==
  ASSUME NEW n \in Nat, NEW p, IsPruned(p, n)
  PROVE  p[0] = f /\ \A k \in 1 .. n : p[k] = PrunedFrom(p[k - 1], k)
<1>1. \A k \in 0 .. n : p[k] = IF k = 0 THEN f ELSE PrunedFrom(p[k - 1], k)
  BY DEF IsPruned
<1>2. 0 \in 0 .. n /\ \A k \in 1 .. n : k \in 0 .. n /\ k # 0
  OBVIOUS
<1> QED
  BY <1>1, <1>2

\* A phi with two pairs or more keeps one.
LEMMA PrunedOK ==
  ASSUME NEW q, NEW T, NEW G, CodeOK(q, T, G, f), id \in DOMAIN q.ins, q.ins[id].op = "phi",
         Len(instr.args) >= 4
  PROVE  CodeOK(q, T, G, Pruned(Nat)) /\ Pruned(Nat).list = f.list
<1> PICK u, n : u = id /\ n = Len(instr.args)
  OBVIOUS
<1>1. n \in Nat /\ n = Len(f.ins[u].args)
  BY DEF CodeOK, InsOK, IsSeq, instr
<1> DEFINE p == CHOOSE p : IsPruned(p, n)
           Good(h) == CodeOK(q, T, G, h) /\ h.list = f.list /\ Len(h.ins[u].args) \in Nat
           K == {k \in Nat : k <= n => Good(p[k]) /\ (k = 0 => Len(p[k].ins[u].args) >= 4)}
<1>2. IsPruned(p, n)
  BY <1>1, PrunedExists
<1>3. Pruned(Nat) = p[n]
  BY DEF Pruned, IsPruned, PrunedFrom
<1> HIDE DEF p
<1>4. p[0] = f /\ \A k \in 1 .. n : p[k] = PrunedFrom(p[k - 1], k)
  BY <1>1, <1>2, PrunedSteps
<1>5. 0 \in K
  BY <1>1, <1>4
<1>6. ASSUME NEW h, NEW k \in Nat, Good(h), k = 0 => Len(h.ins[u].args) >= 4
      PROVE  Good(PrunedAt(h, k))
  <2> DEFINE m == Len(h.ins[u].args)
  <2>1. CASE Dead(h.ins[id].args, k)
    <3>1. PrunedAt(h, k) = RemovePair(h, u, 2 * k) /\ 2 * k + 2 <= m
      BY <2>1 DEF PrunedAt, Dead
    <3>2. m >= 4 /\ 2 * k \in Nat
      BY <1>6, <3>1
    <3>3. /\ CodeOK(q, T, G, RemovePair(h, u, 2 * k))
          /\ \E r : IsCut(h, u, r, RemovePair(h, u, 2 * k)) /\ Len(r) = m - 2
      BY <1>6, <3>1, <3>2, RemovePairOK
    <3>4. Len(RemovePair(h, u, 2 * k).ins[u].args) = m - 2 /\ RemovePair(h, u, 2 * k).list = h.list
      BY <3>3 DEF IsCut
    <3>5. h.list = f.list /\ m - 2 \in Nat
      BY <1>6, <3>2
    <3> HIDE DEF m
    <3> QED BY <3>1, <3>3, <3>4, <3>5
  <2>2. CASE ~Dead(h.ins[id].args, k)
    BY <1>6, <2>2 DEF PrunedAt
  <2> QED BY <2>1, <2>2
<1>7. ASSUME NEW k \in Nat, k \in K PROVE k + 1 \in K
  <2> SUFFICES ASSUME k + 1 <= n PROVE Good(p[k + 1]) /\ k + 1 # 0
    OBVIOUS
  <2>1. k <= n /\ k + 1 \in 1 .. n /\ (k + 1) - 1 = k /\ k + 1 # 0
    BY <1>1
  <2>2. p[k + 1] = PrunedAt(p[k], k)
    BY <1>4, <2>1 DEF PrunedFrom
  <2>3. Good(p[k]) /\ (k = 0 => Len(p[k].ins[u].args) >= 4)
    BY <1>7, <2>1
  <2> HIDE DEF Good
  <2> QED BY <1>6, <2>1, <2>2, <2>3
<1>8. Nat \subseteq K
  <2> HIDE DEF K
  <2> QED BY <1>5, <1>7, SetInduction
<1> QED
  <2>1. n \in K /\ n <= n
    BY <1>1, <1>8
  <2>2. Good(p[n])
    BY <2>1
  <2> QED BY <1>3, <2>2

\* A list is itself without nothing.
LEMMA FilterNone ==
  ASSUME NEW S, NEW s \in Seq(S)
  PROVE  FilterOf(S, s, {}, Len(s), s)
  BY DEF FilterOf

\* To take off X, then Y, is to take off both.
LEMMA FilterTwice ==
  ASSUME NEW S, NEW s \in Seq(S), NEW X, NEW Y, NEW r, FilterOf(S, s, X, Len(s), r),
         NEW t, FilterOf(S, r, Y, Len(r), t)
  PROVE  FilterOf(S, s, X \cup Y, Len(s), t)
<1>1. /\ r \in Seq(S) /\ {r[i] : i \in 1 .. Len(r)} = {s[i] : i \in 1 .. Len(s)} \ X
      /\ \A i, j \in 1 .. Len(r) : i < j => \E k, l \in 1 .. Len(s) : k < l /\ r[i] = s[k] /\ r[j] = s[l]
      /\ Len(s) > 0 /\ s[Len(s)] \notin X => r # << >> /\ r[Len(r)] = s[Len(s)]
  BY DEF FilterOf
<1>2. /\ t \in Seq(S) /\ {t[i] : i \in 1 .. Len(t)} = {r[i] : i \in 1 .. Len(r)} \ Y
      /\ \A i, j \in 1 .. Len(t) : i < j => \E k, l \in 1 .. Len(r) : k < l /\ t[i] = r[k] /\ t[j] = r[l]
      /\ Len(r) > 0 /\ r[Len(r)] \notin Y => t # << >> /\ t[Len(t)] = r[Len(r)]
  BY DEF FilterOf
<1>3. {t[i] : i \in 1 .. Len(t)} = {s[i] : i \in 1 .. Len(s)} \ (X \cup Y)
  BY <1>1, <1>2
<1>4. ASSUME NEW i \in 1 .. Len(t), NEW j \in 1 .. Len(t), i < j
      PROVE  \E k, l \in 1 .. Len(s) : k < l /\ t[i] = s[k] /\ t[j] = s[l]
  <2>1. PICK k \in 1 .. Len(r), l \in 1 .. Len(r) : k < l /\ t[i] = r[k] /\ t[j] = r[l]
    BY <1>2, <1>4
  <2> QED BY <1>1, <2>1
<1>5. Len(s) > 0 /\ s[Len(s)] \notin X \cup Y => t # << >> /\ t[Len(t)] = s[Len(s)]
  BY <1>1, <1>2
<1> QED
  BY <1>2, <1>3, <1>4, <1>5 DEF FilterOf

\* h is g without the instructions X of block b.
IsThinned(q, g, b, X, h) ==
  /\ DOMAIN h = DOMAIN g /\ h.bbs = g.bbs /\ h.succ = g.succ /\ h.pre = g.pre
  /\ h.ins = g.ins /\ h.uses \subseteq g.uses
  /\ h.list \in [Block -> Seq(InstrId(q))] /\ \A c \in Block \ {b} : h.list[c] = g.list[c]
  /\ FilterOf(InstrId(q), g.list[b], X, Len(g.list[b]), h.list[b])

\* The parts of a function that is typed.
IsFunction(q, g) ==
  /\ DOMAIN g = {"bbs", "succ", "pre", "list", "ins", "uses"}
  /\ g.list \in [Block -> Seq(InstrId(q))]

\* delete_instr takes the one instruction out of the list of its block.
LEMMA DeleteThins ==
  ASSUME NEW q, NEW g, IsFunction(q, g), NEW b \in Block, NEW u
  PROVE  IsThinned(q, g, b, {u}, DeleteInstr(g, b, u)) /\ IsFunction(q, DeleteInstr(g, b, u))
<1> PICK h, w, r : /\ h = DeleteInstr(g, b, u) /\ w = WithoutUses(g, u, g.ins[u].args)
                   /\ r = Without(g.list[b], u)
  OBVIOUS
<1>1. /\ DOMAIN w = DOMAIN g /\ w.bbs = g.bbs /\ w.succ = g.succ /\ w.pre = g.pre
      /\ w.ins = g.ins /\ w.list = g.list /\ w.uses \subseteq g.uses
  BY DEF WithoutUses, IsFunction
<1>2. h = [w EXCEPT !.list[b] = r]
  BY <1>1 DEF DeleteInstr
<1>3. FilterOf(InstrId(q), g.list[b], {u}, Len(g.list[b]), r)
  <2>1. g.list[b] \in Seq(InstrId(q))
    BY DEF IsFunction
  <2>2. r = Filtered(g.list[b], {u})
    BY DEF Without, WithoutAll, Filtered, IsFilter
  <2> QED BY <2>1, <2>2, FilterMeaning
<1>4. r \in Seq(InstrId(q))
  BY <1>3 DEF FilterOf
<1>5. /\ DOMAIN h = DOMAIN g /\ h.bbs = g.bbs /\ h.succ = g.succ /\ h.pre = g.pre
      /\ h.ins = g.ins /\ h.uses = w.uses /\ h.list = [g.list EXCEPT ![b] = r]
  BY <1>1, <1>2 DEF IsFunction
<1>6. h.list \in [Block -> Seq(InstrId(q))] /\ h.list[b] = r /\ \A c \in Block \ {b} : h.list[c] = g.list[c]
  BY <1>4, <1>5 DEF IsFunction
<1> QED
  BY <1>1, <1>3, <1>5, <1>6 DEF IsThinned, IsFunction

\* Taking X out and then Y takes both out.
LEMMA ThinTwice ==
  ASSUME NEW q, NEW g, IsFunction(q, g), NEW b \in Block, NEW X, NEW Y, NEW h, IsThinned(q, g, b, X, h),
         NEW e, IsThinned(q, h, b, Y, e)
  PROVE  IsThinned(q, g, b, X \cup Y, e)
<1>1. FilterOf(InstrId(q), g.list[b], X \cup Y, Len(g.list[b]), e.list[b])
  <2>1. g.list[b] \in Seq(InstrId(q))
    BY DEF IsFunction
  <2>2. /\ FilterOf(InstrId(q), g.list[b], X, Len(g.list[b]), h.list[b])
        /\ FilterOf(InstrId(q), h.list[b], Y, Len(h.list[b]), e.list[b])
    BY DEF IsThinned
  <2> QED BY <2>1, <2>2, FilterTwice
<1>2. /\ DOMAIN e = DOMAIN g /\ e.bbs = g.bbs /\ e.succ = g.succ /\ e.pre = g.pre
      /\ e.ins = g.ins /\ e.uses \subseteq g.uses
      /\ e.list \in [Block -> Seq(InstrId(q))] /\ \A c \in Block \ {b} : e.list[c] = g.list[c]
  BY DEF IsThinned
<1> QED
  BY <1>1, <1>2 DEF IsThinned

\* What is left of a list is in its order.
LEMMA ThinnedInOrder ==
  ASSUME NEW g, NEW S, NEW s \in Seq(S), NEW X, NEW r, FilterOf(S, s, X, Len(s), r), InOrder(g, s)
  PROVE  InOrder(g, r)
<1> SUFFICES ASSUME NEW i \in 1 .. Len(r), NEW j \in 1 .. Len(r), i < j
             PROVE  g.ins[r[i]].op \notin Ends /\ (g.ins[r[j]].op # "br" => Before(r[i], r[j]))
  BY DEF InOrder
<1>1. PICK k \in 1 .. Len(s), l \in 1 .. Len(s) : k < l /\ r[i] = s[k] /\ r[j] = s[l]
  BY DEF FilterOf
<1> QED
  BY <1>1 DEF InOrder

\* What is left in a list was there, and is none of X.
LEMMA ThinnedMembers ==
  ASSUME NEW S, NEW s \in Seq(S), NEW X, NEW r, FilterOf(S, s, X, Len(s), r), NEW k \in 1 .. Len(r)
  PROVE  r[k] \notin X /\ \E l \in 1 .. Len(s) : r[k] = s[l]
<1>1. r[k] \in {r[i] : i \in 1 .. Len(r)}
  OBVIOUS
<1>2. r[k] \in {s[i] : i \in 1 .. Len(s)} \ X
  BY <1>1 DEF FilterOf
<1> QED
  BY <1>2

\* Instructions that do not end their block may go.
LEMMA ThinnedOK ==
  ASSUME NEW q, NEW T, NEW G, NEW g, CodeOK(q, T, G, g), ToSet(q.bbs) \subseteq Block,
         NEW b \in Block, NEW X, \A u \in X : u \in DOMAIN q.ins /\ q.ins[u].op \notin Ends, NEW h, IsThinned(q, g, b, X, h)
  PROVE  CodeOK(q, T, G, h)
<1>1. /\ DOMAIN g = {"bbs", "succ", "pre", "list", "ins", "uses"} /\ g.bbs = q.bbs
      /\ g.list \in [Block -> Seq(InstrId(q))]
      /\ InsOK(q, T, G, g) /\ UsesOK(q, T, G, g)
      /\ \A c \in ToSet(q.bbs) : ListOK(g, c)
  BY DEF CodeOK
<1>2. /\ DOMAIN h = DOMAIN g /\ h.bbs = g.bbs /\ h.ins = g.ins /\ h.uses \subseteq g.uses
      /\ h.list \in [Block -> Seq(InstrId(q))] /\ \A c \in Block \ {b} : h.list[c] = g.list[c]
      /\ FilterOf(InstrId(q), g.list[b], X, Len(g.list[b]), h.list[b])
  BY DEF IsThinned
<1>3. InsOK(q, T, G, h) /\ UsesOK(q, T, G, h)
  <2>1. \A u : OperandsOK(q, T, G, g, u) <=> OperandsOK(q, T, G, h, u)
    BY <1>2 DEF OperandsOK
  <2>2. InsOK(q, T, G, h)
    BY <1>1, <1>2, <2>1 DEF InsOK
  <2> QED BY <1>1, <1>2, <2>2 DEF UsesOK
<1>4. ASSUME b \in ToSet(q.bbs) PROVE ListOK(h, b)
  <2> PICK s, r : s = g.list[b] /\ r = h.list[b]
    OBVIOUS
  <2>1. /\ s # << >> /\ \A k \in 1 .. Len(s) : s[k] \in DOMAIN g.ins /\ s[k][1] = b
        /\ g.ins[s[Len(s)]].op \in Ends /\ InOrder(g, s)
    BY <1>1, <1>4 DEF ListOK
  <2>2. Len(s) \in Nat /\ Len(s) > 0 /\ Len(r) \in Nat
    BY <1>1, <1>2, <2>1
  <2>3. s[Len(s)] \notin X
    <3>1. \A u \in X : g.ins[u].op = q.ins[u].op
      BY <1>1 DEF InsOK, OperandsOK
    <3> QED BY <2>1, <3>1
  <2>4. s \in Seq(InstrId(q)) /\ FilterOf(InstrId(q), s, X, Len(s), r)
    BY <1>1, <1>2
  <2>5. r # << >> /\ r[Len(r)] = s[Len(s)]
    BY <2>2, <2>3, <2>4 DEF FilterOf
  <2>6. InOrder(g, r) /\ \A k \in 1 .. Len(r) : r[k] \in DOMAIN g.ins /\ r[k][1] = b
    BY <2>1, <2>4, ThinnedInOrder, ThinnedMembers
  <2>7. g.ins[r[Len(r)]].op \in Ends
    BY <2>1, <2>5
  <2>8. InOrder(h, r)
    BY <1>2, <2>6 DEF InOrder
  <2> QED BY <1>2, <2>5, <2>6, <2>7, <2>8 DEF ListOK
<1>5. ASSUME NEW c \in ToSet(q.bbs), c \in Block \ {b} PROVE ListOK(h, c)
  <2>1. h.list[c] = g.list[c] /\ ListOK(g, c)
    BY <1>1, <1>2, <1>5
  <2> QED BY <1>2, <2>1 DEF ListOK, InOrder
<1> QED
  BY <1>1, <1>2, <1>3, <1>4, <1>5 DEF CodeOK

\* The loop over wait_delete.
IsSwept(p, n) == p = [k \in 0 .. n |-> IF k = 0 THEN f ELSE DeleteInstr(p[k - 1], bbs, wait_delete[k])]

\* The loop over wait_delete has a result after any number of turns.
LEMMA SweptExists ==
  ASSUME NEW n \in Nat
  PROVE  \E p : IsSwept(p, n)
<1> DEFINE S == {m \in Nat : \E p : IsSwept(p, m)}
<1>1. 0 \in S
  <2> DEFINE p == [k \in 0 .. 0 |-> f]
  <2>1. IsSwept(p, 0)
    BY DEF IsSwept
  <2> QED BY <2>1
<1>2. ASSUME NEW m \in Nat, m \in S PROVE m + 1 \in S
  <2>1. PICK p : IsSwept(p, m)
    BY <1>2
  <2>2. p[0] = f /\ \A k \in 1 .. m : p[k] = DeleteInstr(p[k - 1], bbs, wait_delete[k])
    BY <2>1 DEF IsSwept
  <2> DEFINE h == [k \in 0 .. m + 1 |-> IF k = m + 1 THEN DeleteInstr(p[m], bbs, wait_delete[m + 1]) ELSE p[k]]
  <2>3. ASSUME NEW k \in 0 .. m + 1
        PROVE  h[k] = IF k = 0 THEN f ELSE DeleteInstr(h[k - 1], bbs, wait_delete[k])
    <3>1. CASE k = 0
      BY <2>2, <3>1
    <3>2. CASE k \in 1 .. m
      <4>1. h[k] = p[k] /\ h[k - 1] = p[k - 1]
        BY <3>2
      <4> QED BY <2>2, <3>2, <4>1
    <3>3. CASE k = m + 1
      <4>1. h[k] = DeleteInstr(p[m], bbs, wait_delete[m + 1]) /\ h[k - 1] = p[m]
        BY <3>3
      <4> QED BY <3>3, <4>1
    <3> QED BY <3>1, <3>2, <3>3
  <2>4. IsSwept(h, m + 1)
    <3>1. h = [k \in 0 .. m + 1 |-> h[k]]
      OBVIOUS
    <3> HIDE DEF h
    <3> QED BY <2>3, <3>1 DEF IsSwept
  <2> QED BY <2>4
<1>3. Nat \subseteq S
  <2> HIDE DEF S
  <2> QED BY <1>1, <1>2, SetInduction
<1> QED
  BY <1>3

\* The block loses what is in wait_delete.
LEMMA SweptThins ==
  ASSUME NEW q, IsFunction(q, f), bbs \in Block, IsSeq(wait_delete)
  PROVE  IsThinned(q, f, bbs, ToSet(wait_delete), Swept)
<1> PICK b, w, n : b = bbs /\ w = wait_delete /\ n = Len(wait_delete)
  OBVIOUS
<1>1. n \in Nat /\ DOMAIN w = 1 .. n
  BY DEF IsSeq
<1> DEFINE p == CHOOSE p : IsSwept(p, n)
           X(k) == {w[i] : i \in 1 .. k}
           K == {k \in Nat : k <= n => IsFunction(q, p[k]) /\ IsThinned(q, f, b, X(k), p[k])}
<1>2. IsSwept(p, n)
  BY <1>1, SweptExists
<1>3. Swept = p[n]
  BY DEF Swept, IsSwept
<1> HIDE DEF p
<1>4. p[0] = f /\ \A k \in 1 .. n : p[k] = DeleteInstr(p[k - 1], b, w[k])
  BY <1>1, <1>2 DEF IsSwept
<1>5. 0 \in K
  <2>1. X(0) = {}
    OBVIOUS
  <2>2. f.list[b] \in Seq(InstrId(q))
    BY DEF IsFunction
  <2>3. FilterOf(InstrId(q), f.list[b], {}, Len(f.list[b]), f.list[b])
    BY <2>2, FilterNone
  <2>4. IsThinned(q, f, b, {}, f)
    BY <2>3 DEF IsFunction, IsThinned
  <2> QED BY <1>4, <2>1, <2>4
<1>6. ASSUME NEW k \in Nat, k \in K PROVE k + 1 \in K
  <2> SUFFICES ASSUME k + 1 <= n
               PROVE  IsFunction(q, p[k + 1]) /\ IsThinned(q, f, b, X(k + 1), p[k + 1])
    OBVIOUS
  <2>1. k <= n /\ k + 1 \in 1 .. n /\ (k + 1) - 1 = k
    BY <1>1
  <2>2. p[k + 1] = DeleteInstr(p[k], b, w[k + 1])
    BY <1>4, <2>1
  <2>3. IsFunction(q, p[k]) /\ IsThinned(q, f, b, X(k), p[k])
    BY <1>6, <2>1
  <2>4. X(k + 1) = X(k) \cup {w[k + 1]}
    OBVIOUS
  <2> HIDE DEF X
  <2>5. IsThinned(q, p[k], b, {w[k + 1]}, p[k + 1]) /\ IsFunction(q, p[k + 1])
    BY <2>2, <2>3, DeleteThins
  <2> QED BY <2>3, <2>4, <2>5, ThinTwice
<1>7. Nat \subseteq K
  <2> HIDE DEF K
  <2> QED BY <1>5, <1>6, SetInduction
<1>8. X(n) = ToSet(wait_delete)
  BY <1>1 DEF ToSet
<1>9. n \in K
  <2> HIDE DEF K
  <2> QED BY <1>1, <1>7
<1>10. IsThinned(q, f, b, X(n), p[n])
  BY <1>1, <1>9
<1> QED
  BY <1>3, <1>8, <1>10

\* h is g but for its edges.
SameCode(g, h) ==
  DOMAIN h = DOMAIN g /\ h.bbs = g.bbs /\ h.list = g.list /\ h.ins = g.ins /\ h.uses = g.uses

\* Removing edges changes no code.
LEMMA EdgesOnly ==
  ASSUME NEW q, NEW g, IsFunction(q, g), NEW b, NEW c, NEW Y
  PROVE  /\ SameCode(g, RemovePre(g, b, c)) /\ SameCode(g, RemoveSucc(g, b, c))
         /\ SameCode(g, CutSuccessorsOf(g, Y))
  BY DEF IsFunction, SameCode, RemovePre, RemoveSucc, CutSuccessorsOf

\* A function that differs in its edges only is typed as before.
LEMMA CodeOfSame ==
  ASSUME NEW q, NEW T, NEW G, NEW g, CodeOK(q, T, G, g), NEW h, SameCode(g, h)
  PROVE  CodeOK(q, T, G, h)
<1>1. /\ DOMAIN h = DOMAIN g /\ h.bbs = g.bbs /\ h.list = g.list /\ h.ins = g.ins /\ h.uses = g.uses
  BY DEF SameCode
<1>2. /\ DOMAIN g = {"bbs", "succ", "pre", "list", "ins", "uses"} /\ g.bbs = q.bbs
      /\ g.list \in [Block -> Seq(InstrId(q))]
      /\ InsOK(q, T, G, g) /\ UsesOK(q, T, G, g)
      /\ \A b \in ToSet(q.bbs) : ListOK(g, b)
  BY DEF CodeOK
<1>3. InsOK(q, T, G, h)
  <2>1. \A u : OperandsOK(q, T, G, g, u) <=> OperandsOK(q, T, G, h, u)
    BY <1>1 DEF OperandsOK
  <2> QED BY <1>1, <1>2, <2>1 DEF InsOK
<1>4. UsesOK(q, T, G, h)
  BY <1>1, <1>2 DEF UsesOK
<1>5. \A b \in ToSet(q.bbs) : ListOK(h, b)
  BY <1>1, <1>2 DEF ListOK, InOrder
<1> QED
  BY <1>1, <1>2, <1>3, <1>4, <1>5 DEF CodeOK

-----------------------------------------------------------------------------
(* What folding a branch leaves.                                           *)

\* h is g with a new branch instead of the last instruction of b.
IsRedirected(q, g, b, h) ==
  /\ DOMAIN h = DOMAIN g /\ h.bbs = g.bbs /\ h.uses \subseteq g.uses
  /\ DOMAIN h.ins = DOMAIN g.ins \cup {NewBranch(b)}
  /\ \A u \in DOMAIN g.ins : u # NewBranch(b) => h.ins[u] = g.ins[u]
  /\ LET i == h.ins[NewBranch(b)]
     IN  DOMAIN i = {"op", "args", "parent"} /\ i.op = "br" /\ i.parent = b /\ IsSeq(i.args) /\ Len(i.args) = 1
  /\ h.list \in [Block -> Seq(InstrId(q))] /\ \A c \in Block \ {b} : h.list[c] = g.list[c]
  /\ FilterOf(InstrId(q), Append(g.list[b], NewBranch(b)), {Last(g.list[b])}, Len(g.list[b]) + 1, h.list[b])

\* A function that differs in its edges only has the same parts.
LEMMA SameCodeFunction ==
  ASSUME NEW q, NEW g, IsFunction(q, g), NEW h, SameCode(g, h)
  PROVE  IsFunction(q, h)
  BY DEF IsFunction, SameCode

\* h is g with a branch to t after the instructions of b.
HasNewBranch(q, g, t, b, h) ==
  /\ IsFunction(q, h) /\ DOMAIN h = DOMAIN g /\ h.bbs = g.bbs /\ h.uses = g.uses
  /\ DOMAIN h.ins = DOMAIN g.ins \cup {NewBranch(b)}
  /\ \A u \in DOMAIN g.ins : u # NewBranch(b) => h.ins[u] = g.ins[u]
  /\ h.ins[NewBranch(b)] = [op |-> "br", args |-> <<Label(t)>>, parent |-> b]
  /\ h.list = [g.list EXCEPT ![b] = Append(@, NewBranch(b))]

\* That is what CreateBr makes.
LEMMA CreateBrAdds ==
  ASSUME NEW q, NEW g, IsFunction(q, g), NEW b \in Block, NEW t, NEW h, h = CreateBr(g, t, b)
  PROVE  HasNewBranch(q, g, t, b, h)
<1> PICK new, y : /\ new = [op |-> "br", args |-> <<Label(t)>>, parent |-> b]
                  /\ y = [x \in DOMAIN g.ins \cup {NewBranch(b)} |-> IF x = NewBranch(b) THEN new ELSE g.ins[x]]
  OBVIOUS
<1> PICK e : e = [g EXCEPT !.pre[t] = Append(@, b), !.succ[b] = Append(@, t), !.ins = y]
  OBVIOUS
<1>1. h = [e EXCEPT !.list[b] = Append(@, NewBranch(b))]
  BY DEF CreateBr, AddInstruction, IsFunction
<1>2. DOMAIN e = DOMAIN g /\ e.bbs = g.bbs /\ e.uses = g.uses /\ e.ins = y /\ e.list = g.list
  BY DEF IsFunction
<1>3. /\ DOMAIN h = DOMAIN g /\ h.bbs = g.bbs /\ h.uses = g.uses /\ h.ins = y
      /\ h.list = [g.list EXCEPT ![b] = Append(@, NewBranch(b))]
  BY <1>1, <1>2 DEF IsFunction
<1>4. NewBranch(b) \in InstrId(q)
  BY DEF InstrId
<1>5. h.list \in [Block -> Seq(InstrId(q))]
  <2>1. g.list \in [Block -> Seq(InstrId(q))]
    BY DEF IsFunction
  <2>2. \A s \in Seq(InstrId(q)) : Append(s, NewBranch(b)) \in Seq(InstrId(q))
    BY <1>4
  <2>3. h.list = [g.list EXCEPT ![b] = Append(@, NewBranch(b))]
    BY <1>3
  <2> QED BY <2>1, <2>2, <2>3
<1> QED
  BY <1>3, <1>5 DEF IsFunction, HasNewBranch

\* Folding a branch changes the code of its block only: a new branch for the old.
LEMMA RedirectMeaning ==
  ASSUME NEW q, NEW g, IsFunction(q, g), bbs \in Block, NEW there, NEW gone, NEW dead
  PROVE  IsRedirected(q, g, bbs, Redirect(g, there, gone, dead))
<1> PICK b, last : b = bbs /\ last = Last(g.list[b])
  OBVIOUS
<1> PICK c1 : c1 = RemoveSucc(g, b, gone)
  OBVIOUS
<1> PICK cut : cut = RemovePre(c1, gone, b)
  OBVIOUS
<1> PICK left : left = IF dead THEN CutSuccessors(cut, gone) ELSE cut
  OBVIOUS
<1> PICK e : e = CreateBr(left, there, b)
  OBVIOUS
<1> PICK h : h = DeleteInstr(e, b, last)
  OBVIOUS
<1>0. b \in Block
  OBVIOUS
<1>1. Redirect(g, there, gone, dead) = h
  BY DEF Redirect
<1>2. SameCode(g, c1) /\ IsFunction(q, c1)
  BY EdgesOnly, SameCodeFunction
<1>3. SameCode(c1, cut) /\ IsFunction(q, cut)
  BY <1>2, EdgesOnly, SameCodeFunction
<1>4. SameCode(cut, left) /\ IsFunction(q, left)
  <2>1. SameCode(cut, cut) /\ SameCode(cut, CutSuccessors(cut, gone))
    BY <1>3, EdgesOnly DEF SameCode, CutSuccessors
  <2>2. SameCode(cut, left)
    BY <2>1
  <2> QED BY <1>3, <2>2, SameCodeFunction
<1>5. SameCode(g, left)
  BY <1>2, <1>3, <1>4 DEF SameCode
<1>6. /\ IsFunction(q, e) /\ DOMAIN e = DOMAIN left /\ e.bbs = left.bbs /\ e.uses = left.uses
      /\ DOMAIN e.ins = DOMAIN left.ins \cup {NewBranch(b)}
      /\ \A u \in DOMAIN left.ins : u # NewBranch(b) => e.ins[u] = left.ins[u]
      /\ e.ins[NewBranch(b)] = [op |-> "br", args |-> <<Label(there)>>, parent |-> b]
      /\ e.list = [left.list EXCEPT ![b] = Append(@, NewBranch(b))]
  <2>1. HasNewBranch(q, left, there, b, e)
    BY <1>0, <1>4, CreateBrAdds
  <2> QED BY <2>1 DEF HasNewBranch
<1>7. IsThinned(q, e, b, {last}, h)
  BY <1>0, <1>6, DeleteThins, Zenon
<1>8. /\ DOMAIN h = DOMAIN g /\ h.bbs = g.bbs /\ h.uses \subseteq g.uses
      /\ DOMAIN h.ins = DOMAIN g.ins \cup {NewBranch(b)}
      /\ \A u \in DOMAIN g.ins : u # NewBranch(b) => h.ins[u] = g.ins[u]
      /\ h.ins[NewBranch(b)] = [op |-> "br", args |-> <<Label(there)>>, parent |-> b]
  BY <1>5, <1>6, <1>7 DEF SameCode, IsThinned
<1>9. LET i == h.ins[NewBranch(b)]
      IN  DOMAIN i = {"op", "args", "parent"} /\ i.op = "br" /\ i.parent = b /\ IsSeq(i.args) /\ Len(i.args) = 1
  <2>1. IsSeq(<<Label(there)>>) /\ Len(<<Label(there)>>) = 1
    BY DEF IsSeq, ToSet
  <2> QED BY <1>8, <2>1
<1>10. e.list[b] = Append(g.list[b], NewBranch(b)) /\ \A c \in Block \ {b} : e.list[c] = g.list[c]
  BY <1>5, <1>6 DEF SameCode, IsFunction
<1>11. Len(e.list[b]) = Len(g.list[b]) + 1
  <2>1. g.list[b] \in Seq(InstrId(q))
    BY DEF IsFunction
  <2> QED BY <1>10, <2>1
<1>12. /\ h.list \in [Block -> Seq(InstrId(q))] /\ \A c \in Block \ {b} : h.list[c] = g.list[c]
       /\ FilterOf(InstrId(q), Append(g.list[b], NewBranch(b)), {last}, Len(g.list[b]) + 1, h.list[b])
  <2>1. /\ h.list \in [Block -> Seq(InstrId(q))] /\ \A c \in Block \ {b} : h.list[c] = e.list[c]
        /\ FilterOf(InstrId(q), e.list[b], {last}, Len(e.list[b]), h.list[b])
    BY <1>7 DEF IsThinned
  <2>2. FilterOf(InstrId(q), Append(g.list[b], NewBranch(b)), {last}, Len(g.list[b]) + 1, h.list[b])
    BY <1>10, <1>11, <2>1
  <2> QED BY <1>10, <2>1, <2>2
<1> QED
  BY <1>1, <1>8, <1>9, <1>12, Zenon DEF IsRedirected

\* r is the list s but for its last member, with x at the end.
LastReplaced(S, s, x, r) ==
  /\ s \in Seq(S) /\ Len(s) > 0 /\ \A j \in 1 .. Len(s) : s[j] # x
  /\ r \in Seq(S) /\ r # << >> /\ r[Len(r)] = x
  /\ \A k \in 1 .. Len(r) : r[k] = x \/ \E j \in 1 .. Len(s) - 1 : r[k] = s[j]
  /\ \A k, l \in 1 .. Len(r) : k < l =>
       /\ \E j \in 1 .. Len(s) - 1 : r[k] = s[j]
       /\ r[l] = x \/ \E i, j \in 1 .. Len(s) - 1 : i < j /\ r[k] = s[i] /\ r[l] = s[j]

\* Appending to a list and removing what was its last member replaces that.
LEMMA AppendThenRemove ==
  ASSUME NEW S, NEW s \in Seq(S), NEW n \in Nat \ {0}, n = Len(s), NEW x \in S,
         \A j \in 1 .. n : s[j] # x, \A j \in 1 .. n - 1 : s[j] # s[n],
         NEW r, FilterOf(S, Append(s, x), {s[n]}, n + 1, r)
  PROVE  LastReplaced(S, s, x, r)
<1> PICK a : a = Append(s, x)
  OBVIOUS
<1>1. a \in Seq(S) /\ Len(a) = n + 1 /\ a[n + 1] = x /\ \A k \in 1 .. n : a[k] = s[k]
  OBVIOUS
<1>2. FilterOf(S, a, {s[n]}, Len(a), r)
  BY <1>1
<1>3. n \in 1 .. n /\ s[n] # x
  OBVIOUS
<1>4. r \in Seq(S) /\ r # << >> /\ r[Len(r)] = x
  <2>1. Len(a) > 0 /\ a[Len(a)] = x /\ x \notin {s[n]}
    BY <1>1, <1>3
  <2> QED BY <1>2, <2>1 DEF FilterOf
<1>5. ASSUME NEW k \in 1 .. Len(r) PROVE r[k] # s[n] /\ \E l \in 1 .. n + 1 : r[k] = a[l]
  <2> PICK X : X = {s[n]}
    OBVIOUS
  <2>1. a \in Seq(S) /\ FilterOf(S, a, X, Len(a), r)
    BY <1>1, <1>2
  <2>2. r[k] \notin X /\ \E l \in 1 .. Len(a) : r[k] = a[l]
    <3>1. r[k] \in {r[i] : i \in 1 .. Len(r)}
      OBVIOUS
    <3>2. {r[i] : i \in 1 .. Len(r)} = {a[i] : i \in 1 .. Len(a)} \ X
      BY <2>1 DEF FilterOf
    <3> QED BY <3>1, <3>2
  <2> QED BY <1>1, <2>2
<1>6. ASSUME NEW k \in 1 .. Len(r) PROVE r[k] = x \/ \E j \in 1 .. n - 1 : r[k] = s[j]
  <2>1. PICK l \in 1 .. n + 1 : r[k] = a[l]
    BY <1>5
  <2>2. CASE l = n + 1
    BY <1>1, <2>1, <2>2
  <2>3. CASE l \in 1 .. n - 1
    BY <1>1, <2>1, <2>3
  <2>4. CASE l = n
    BY <1>1, <1>3, <1>5, <2>1, <2>4
  <2> QED BY <2>2, <2>3, <2>4
<1>7. ASSUME NEW k \in 1 .. Len(r), NEW l \in 1 .. Len(r), k < l
      PROVE  /\ \E j \in 1 .. n - 1 : r[k] = s[j]
             /\ r[l] = x \/ \E i, j \in 1 .. n - 1 : i < j /\ r[k] = s[i] /\ r[l] = s[j]
  <2>1. PICK i \in 1 .. Len(a), j \in 1 .. Len(a) : i < j /\ r[k] = a[i] /\ r[l] = a[j]
    BY <1>2, <1>7, Zenon DEF FilterOf
  <2>2. i \in 1 .. n
    BY <1>1, <2>1
  <2>3. i # n
    BY <1>1, <1>5, <2>1, <2>2
  <2>4. i \in 1 .. n - 1 /\ r[k] = s[i]
    BY <1>1, <2>1, <2>2, <2>3
  <2>5. CASE j = n + 1
    BY <1>1, <2>1, <2>4, <2>5
  <2>6. CASE j = n
    BY <1>1, <1>3, <1>5, <2>1, <2>6
  <2>7. CASE j \in 1 .. n - 1
    BY <1>1, <2>1, <2>4, <2>7
  <2> QED BY <1>1, <2>5, <2>6, <2>7
<1> QED
  BY <1>4, <1>6, <1>7 DEF LastReplaced

\* The list of a block that got a new branch.
LEMMA RedirectedList ==
  ASSUME NEW q, NEW T, NEW G, NEW g, CodeOK(q, T, G, g), \A u \in DOMAIN q.ins : u[2] \in Nat \ {0},
         NEW b \in ToSet(q.bbs), b \in Block, Len(TerminatorOf(g, b).args) = 3,
         NEW h, IsRedirected(q, g, b, h)
  PROVE  NewBranch(b) \notin DOMAIN q.ins /\ LastReplaced(InstrId(q), g.list[b], NewBranch(b), h.list[b])
<1> PICK nb, s, r : nb = NewBranch(b) /\ s = g.list[b] /\ r = h.list[b]
  OBVIOUS
<1> PICK n : n = Len(s)
  OBVIOUS
<1>1. nb \notin DOMAIN q.ins
  <2>1. nb[2] = 0
    BY DEF NewBranch, IdOf
  <2> QED BY <2>1
<1>2. /\ s \in Seq(InstrId(q)) /\ s # << >> /\ \A k \in 1 .. n : s[k] \in DOMAIN g.ins
      /\ g.ins[s[n]].op \in Ends /\ InOrder(g, s)
  <2>1. ListOK(g, b)
    BY DEF CodeOK
  <2>2. s \in Seq(InstrId(q))
    BY DEF CodeOK
  <2> QED BY <2>1, <2>2 DEF ListOK
<1>3. n \in Nat \ {0} /\ n \in 1 .. n
  BY <1>2
<1>4. nb \in DOMAIN g.ins => g.ins[nb].op = "br" /\ Len(g.ins[nb].args) = 1
  BY <1>1 DEF CodeOK, InsOK
<1>5. Last(s) = s[n] /\ Len(g.ins[s[n]].args) = 3
  BY DEF Last, TerminatorOf
<1>6. \A k \in 1 .. n - 1 : g.ins[s[k]].op \notin Ends
  <2>1. \A k \in 1 .. n - 1 : k \in 1 .. n /\ k < n
    BY <1>3
  <2> QED BY <1>2, <1>3, <2>1 DEF InOrder
<1>7. s[n] # nb
  <2> SUFFICES ASSUME s[n] = nb PROVE FALSE
    OBVIOUS
  <2>1. nb \in DOMAIN g.ins
    BY <1>2, <1>3
  <2>2. Len(g.ins[nb].args) = 3
    BY <1>5
  <2> QED BY <1>4, <2>1, <2>2
<1>8. \A k \in 1 .. n - 1 : s[k] # s[n]
  BY <1>2, <1>6
<1>9. \A k \in 1 .. n - 1 : s[k] # nb
  <2>1. \A k \in 1 .. n - 1 : s[k] \in DOMAIN g.ins
    BY <1>2, <1>3
  <2>2. "br" \in Ends
    BY DEF Ends
  <2> QED BY <1>4, <1>6, <2>1, <2>2
<1>10. \A k \in 1 .. n : s[k] # nb
  BY <1>3, <1>7, <1>9
<1>11. FilterOf(InstrId(q), Append(s, nb), {s[n]}, n + 1, r)
  <2>1. FilterOf(InstrId(q), Append(g.list[b], NewBranch(b)), {Last(g.list[b])}, Len(g.list[b]) + 1, h.list[b])
    BY DEF IsRedirected
  <2>2. FilterOf(InstrId(q), Append(s, nb), {Last(s)}, n + 1, r)
    BY <2>1
  <2> QED BY <1>5, <2>2
<1>12. nb \in InstrId(q)
  BY DEF InstrId
<1>13. LastReplaced(InstrId(q), s, nb, r)
  BY <1>2, <1>3, <1>8, <1>10, <1>11, <1>12, AppendThenRemove
<1> QED
  BY <1>1, <1>13

\* A block whose branch is conditional may be sent one way.
LEMMA RedirectedOK ==
  ASSUME NEW q, NEW T, NEW G, NEW g, CodeOK(q, T, G, g), \A u \in DOMAIN q.ins : u[2] \in Nat \ {0},
         ToSet(q.bbs) \subseteq Block, NEW b \in ToSet(q.bbs), Len(TerminatorOf(g, b).args) = 3,
         NEW h, IsRedirected(q, g, b, h)
  PROVE  CodeOK(q, T, G, h)
<1> PICK s, r, nb : s = g.list[b] /\ r = h.list[b] /\ nb = NewBranch(b)
  OBVIOUS
<1>1. /\ DOMAIN g = {"bbs", "succ", "pre", "list", "ins", "uses"} /\ g.bbs = q.bbs
      /\ InsOK(q, T, G, g) /\ UsesOK(q, T, G, g)
      /\ \A c \in ToSet(q.bbs) : ListOK(g, c)
  BY DEF CodeOK
<1>2. /\ DOMAIN h = DOMAIN g /\ h.bbs = g.bbs /\ h.uses \subseteq g.uses
      /\ DOMAIN h.ins = DOMAIN g.ins \cup {nb}
      /\ \A u \in DOMAIN g.ins : u # nb => h.ins[u] = g.ins[u]
      /\ h.list \in [Block -> Seq(InstrId(q))] /\ \A c \in Block \ {b} : h.list[c] = g.list[c]
  BY DEF IsRedirected
<1>3. /\ DOMAIN h.ins[nb] = {"op", "args", "parent"} /\ h.ins[nb].op = "br" /\ h.ins[nb].parent = b
      /\ IsSeq(h.ins[nb].args) /\ Len(h.ins[nb].args) = 1
  BY DEF IsRedirected
<1>4. nb \notin DOMAIN q.ins /\ LastReplaced(InstrId(q), s, nb, r)
  <2>1. b \in Block
    OBVIOUS
  <2> QED BY <2>1, RedirectedList
<1>5. nb[1] = b /\ nb \in InstrId(q)
  BY DEF NewBranch, IdOf, InstrId
<1>6. InsOK(q, T, G, h)
  <2>1. \A u \in DOMAIN q.ins : h.ins[u] = g.ins[u]
    BY <1>1, <1>2, <1>4 DEF InsOK
  <2>2. \A u \in DOMAIN q.ins : OperandsOK(q, T, G, g, u) => OperandsOK(q, T, G, h, u)
    BY <2>1 DEF OperandsOK
  <2>3. ASSUME NEW u \in DOMAIN h.ins
        PROVE  /\ DOMAIN h.ins[u] = {"op", "args", "parent"} /\ h.ins[u].parent = u[1]
               /\ IsSeq(h.ins[u].args)
               /\ IF u \in DOMAIN q.ins THEN OperandsOK(q, T, G, h, u)
                  ELSE h.ins[u].op = "br" /\ Len(h.ins[u].args) = 1
    <3>1. CASE u = nb
      BY <1>3, <1>4, <1>5, <3>1
    <3>2. CASE u # nb
      <4>1. u \in DOMAIN g.ins /\ h.ins[u] = g.ins[u]
        BY <1>2, <3>2
      <4> QED BY <1>1, <2>2, <4>1 DEF InsOK
    <3> QED BY <3>1, <3>2
  <2>4. DOMAIN q.ins \subseteq DOMAIN h.ins /\ DOMAIN h.ins \subseteq InstrId(q)
    BY <1>1, <1>2, <1>5 DEF InsOK
  <2> QED BY <2>3, <2>4 DEF InsOK
<1>7. UsesOK(q, T, G, h)
  BY <1>1, <1>2 DEF UsesOK
<1>8. ListOK(h, b)
  <2>1. /\ \A k \in 1 .. Len(s) : s[k] \in DOMAIN g.ins /\ s[k][1] = b
        /\ InOrder(g, s)
    BY <1>1 DEF ListOK
  <2>2. /\ Len(s) \in Nat /\ Len(s) \in 1 .. Len(s) /\ \A j \in 1 .. Len(s) : s[j] # nb
        /\ r # << >> /\ r[Len(r)] = nb
    BY <1>4 DEF LastReplaced
  <2>3. \A k \in 1 .. Len(s) - 1 : k \in 1 .. Len(s) /\ Len(s) \in 1 .. Len(s) /\ k < Len(s)
    BY <2>2
  <2>4. ASSUME NEW k \in 1 .. Len(s) - 1
        PROVE  s[k] \in DOMAIN h.ins /\ s[k][1] = b /\ h.ins[s[k]] = g.ins[s[k]] /\ h.ins[s[k]].op \notin Ends
    <3>1. s[k] \in DOMAIN g.ins /\ s[k][1] = b /\ s[k] # nb
      BY <2>1, <2>2, <2>3
    <3>2. h.ins[s[k]] = g.ins[s[k]] /\ s[k] \in DOMAIN h.ins
      BY <1>2, <3>1
    <3>3. g.ins[s[k]].op \notin Ends
      BY <2>1, <2>3 DEF InOrder
    <3> QED BY <3>1, <3>2, <3>3
  <2>5. ASSUME NEW k \in 1 .. Len(r) PROVE r[k] \in DOMAIN h.ins /\ r[k][1] = b
    <3>1. r[k] = nb \/ \E j \in 1 .. Len(s) - 1 : r[k] = s[j]
      BY <1>4 DEF LastReplaced
    <3> QED BY <1>2, <1>5, <2>4, <3>1
  <2>6. ASSUME NEW k \in 1 .. Len(r), NEW l \in 1 .. Len(r), k < l
        PROVE  h.ins[r[k]].op \notin Ends /\ (h.ins[r[l]].op # "br" => Before(r[k], r[l]))
    <3>0. /\ \E j \in 1 .. Len(s) - 1 : r[k] = s[j]
          /\ r[l] = nb \/ \E i, j \in 1 .. Len(s) - 1 : i < j /\ r[k] = s[i] /\ r[l] = s[j]
      BY <1>4, <2>6 DEF LastReplaced
    <3>1. h.ins[r[k]].op \notin Ends
      BY <2>4, <3>0
    <3>2. CASE r[l] = nb
      BY <1>3, <3>1, <3>2
    <3>3. CASE r[l] # nb
      <4>1. PICK i \in 1 .. Len(s) - 1, j \in 1 .. Len(s) - 1 : i < j /\ r[k] = s[i] /\ r[l] = s[j]
        BY <3>0, <3>3
      <4>2. i \in 1 .. Len(s) /\ j \in 1 .. Len(s)
        BY <2>3
      <4>3. h.ins[s[j]].op = g.ins[s[j]].op
        BY <2>4
      <4> QED BY <2>1, <3>1, <4>1, <4>2, <4>3 DEF InOrder
    <3> QED BY <3>2, <3>3
  <2>7. InOrder(h, r)
    BY <2>6 DEF InOrder
  <2>8. h.ins[r[Len(r)]].op \in Ends
    BY <1>3, <2>2 DEF Ends
  <2> QED BY <2>2, <2>5, <2>7, <2>8 DEF ListOK
<1>9. ASSUME NEW c \in ToSet(q.bbs), c # b PROVE ListOK(h, c)
  <2>1. h.list[c] = g.list[c] /\ ListOK(g, c)
    BY <1>1, <1>2, <1>9
  <2> PICK t : t = g.list[c]
    OBVIOUS
  <2>2. /\ t # << >> /\ \A k \in 1 .. Len(t) : t[k] \in DOMAIN g.ins /\ t[k][1] = c
        /\ g.ins[t[Len(t)]].op \in Ends /\ InOrder(g, t)
    BY <2>1 DEF ListOK
  <2>3. \A k \in 1 .. Len(t) : t[k] \in DOMAIN h.ins /\ h.ins[t[k]] = g.ins[t[k]]
    BY <1>2, <1>5, <1>9, <2>2
  <2>4. InOrder(h, t)
    BY <2>2, <2>3 DEF InOrder
  <2>5. Len(t) \in 1 .. Len(t)
    <3>1. t \in Seq(InstrId(q))
      BY DEF CodeOK
    <3> QED BY <2>2, <3>1
  <2> QED BY <2>1, <2>2, <2>3, <2>4, <2>5 DEF ListOK
<1> QED
  BY <1>1, <1>2, <1>6, <1>7, <1>8, <1>9 DEF CodeOK

-----------------------------------------------------------------------------
(* What a step leaves as it was.                                           *)

\* What is no user of the places written to keeps its operands.
LEMMA NotWritten ==
  ASSUME NEW q, NEW T, NEW G, NEW g, CodeOK(q, T, G, g), NEW S, NEW v, NEW h, IsWritten(g, S, v, h),
         NEW u \in DOMAIN g.ins, \A y \in S : y[2] # u
  PROVE  h.ins[u].op = g.ins[u].op /\ h.ins[u].args = g.ins[u].args
<1>1. IsSeq(g.ins[u].args)
  BY DEF CodeOK, InsOK
<1>2. g.ins[u].args = [k \in DOMAIN g.ins[u].args |-> g.ins[u].args[k]]
  BY <1>1 DEF IsSeq
<1>3. h.ins[u].args = [k \in DOMAIN g.ins[u].args |->
                         IF \E y \in S : y[2] = u /\ y[3] = k - 1 THEN v ELSE g.ins[u].args[k]]
  BY DEF IsWritten
<1>4. \A k \in DOMAIN g.ins[u].args : ~\E y \in S : y[2] = u /\ y[3] = k - 1
  OBVIOUS
<1>5. h.ins[u].args = [k \in DOMAIN g.ins[u].args |-> g.ins[u].args[k]]
  BY <1>3, <1>4
<1>6. h.ins[u].op = g.ins[u].op
  BY Zenon DEF IsWritten
<1> QED
  BY <1>2, <1>5, <1>6

\* Block b has the same code in both.
SameBlock(g, h, b) ==
  /\ h.list[b] = g.list[b]
  /\ \A k \in 1 .. Len(g.list[b]) : LET u == g.list[b][k]
                                    IN  h.ins[u].op = g.ins[u].op /\ h.ins[u].args = g.ins[u].args

\* Then what was folded stays folded.
LEMMA FoldedSame ==
  ASSUME NEW g, NEW h, NEW b, Folded(g, b), SameBlock(g, h, b)
  PROVE  Folded(h, b)
  BY DEF Folded, Varies, Undecided, SameBlock

\* Uses go, operands stay.
LEMMA ForwardSame ==
  ASSUME NEW q, NEW g, UsesForward(q, g), NEW h, h.uses \subseteq g.uses,
         \A u \in DOMAIN q.ins : h.ins[u] = g.ins[u]
  PROVE  UsesForward(q, h)
  BY DEF UsesForward

\* The blocks before place n that are folded stay so.
LeavesFolded(q, g, h, n, D) ==
  \A k \in 1 .. n - 1 : Kept(q, D, k) /\ Folded(g, q.bbs[k]) => Folded(h, q.bbs[k])

\* The lists of the other blocks stay.
LeavesLists(q, g, h, n, D) ==
  \A k \in 1 .. Len(q.bbs) : k # n /\ Kept(q, D, k) => h.list[q.bbs[k]] = g.list[q.bbs[k]]

\* The round goes on to the next block.
LEMMA RoundGoesOn ==
  ASSUME NEW q, NEW g, NEW n \in Nat, NEW c, NEW D, RoundOK(q, g, n, c, D),
         NEW h, NEW c2, NEW D2, D \subseteq D2, c => c2,
         ~c2 => LeavesFolded(q, g, h, n, D2),
         ~c2 /\ Kept(q, D2, n) => Folded(h, q.bbs[n])
  PROVE  RoundOK(q, h, n + 1, c2, D2)
<1> SUFFICES ASSUME ~c2, NEW k \in 1 .. n, Kept(q, D2, k) PROVE Folded(h, q.bbs[k])
  BY DEF RoundOK
<1>1. CASE k = n
  BY <1>1
<1>2. CASE k # n
  <2>1. k \in 1 .. n - 1 /\ Kept(q, D, k)
    BY <1>2 DEF Kept
  <2> QED BY <2>1 DEF RoundOK, LeavesFolded
<1> QED
  BY <1>1, <1>2

\* Loads of known globals stay accounted for when the round goes on to the next
\* block.
LEMMA LoadsGoOn ==
  ASSUME NEW q, NEW g, NEW n \in Nat, NEW c, NEW D, LoadsOK(q, g, n, c, D),
         NEW h, NEW c2, NEW D2, D \subseteq D2, c => c2,
         UsesForward(q, g) => UsesForward(q, h),
         LeavesLists(q, g, h, n, D2),
         Kept(q, D2, n) => NoKnownLoad(q, h.list[q.bbs[n]])
  PROVE  LoadsOK(q, h, n + 1, c2, D2)
<1> SUFFICES ASSUME NEW k \in 1 .. Len(q.bbs), Kept(q, D2, k)
             PROVE  NoKnownLoad(q, h.list[q.bbs[k]]) \/ (k >= n + 1 /\ (c2 \/ UsesForward(q, h)))
  BY DEF LoadsOK
<1>1. CASE k = n
  BY <1>1
<1>2. CASE k # n
  <2>1. Kept(q, D, k)
    BY DEF Kept
  <2>2. NoKnownLoad(q, g.list[q.bbs[k]]) \/ (k >= n /\ (c \/ UsesForward(q, g)))
    BY <2>1 DEF LoadsOK
  <2>3. k >= n => k >= n + 1
    BY <1>2
  <2>4. h.list[q.bbs[k]] = g.list[q.bbs[k]]
    BY <1>2 DEF LeavesLists
  <2> QED BY <2>2, <2>3, <2>4
<1> QED
  BY <1>1, <1>2

\* No instruction of block b is constant.
AllVary(g, b) == \A k \in 1 .. Len(g.list[b]) : Varies(g.ins[g.list[b][k]])

\* All of block b was visited.
EndOK(q, T, G, g, b, c, W, m) == BlockOK(q, T, G, g, g.list[b], Len(g.list[b]) + 1, c, W, m)

\* At the end of a block what is in wait_delete goes.
LEMMA BlockEnds ==
  ASSUME NEW q, NEW T, NEW G, NEW g, CodeOK(q, T, G, g), NEW b \in Block,
         NEW c, NEW W, NEW m, EndOK(q, T, G, g, b, c, W, m),
         NEW h, IsThinned(q, g, b, ToSet(W), h)
  PROVE  /\ NoKnownLoad(q, h.list[b])
         /\ ~c => AllVary(h, b)
<1> PICK s : s = g.list[b]
  OBVIOUS
<1> PICK n, r, X : n = Len(s) /\ r = h.list[b] /\ X = ToSet(W)
  OBVIOUS
<1>1. s \in Seq(InstrId(q)) /\ n \in Nat
  BY DEF CodeOK
<1>2. FilterOf(InstrId(q), s, X, Len(s), r)
  BY DEF IsThinned
<1>3. /\ ~c => \A k \in 1 .. n : s[k] \in X \/ Varies(g.ins[s[k]])
      /\ \A j, k \in 1 .. n : j < k /\ Feeds(q, s[j], s[k]) => s[k] \in X
  <2>1. (n + 1) - 1 = n
    BY <1>1
  <2> QED BY <2>1 DEF BlockOK, EndOK
<1>4. NoKnownLoad(q, r)
  <2> SUFFICES ASSUME NEW i \in 1 .. Len(r), NEW j \in 1 .. Len(r), i < j, Feeds(q, r[i], r[j]) PROVE FALSE
    BY DEF NoKnownLoad
  <2>1. PICK k \in 1 .. Len(s), l \in 1 .. Len(s) : k < l /\ r[i] = s[k] /\ r[j] = s[l]
    BY <1>2 DEF FilterOf
  <2>2. r[j] \in X
    BY <1>3, <2>1
  <2> QED BY <1>1, <1>2, <2>2, ThinnedMembers
<1>5. ASSUME ~c, NEW k \in 1 .. Len(r) PROVE Varies(h.ins[r[k]])
  <2>1. h.ins = g.ins
    BY DEF IsThinned
  <2>2. r[k] \notin X /\ \E l \in 1 .. Len(s) : r[k] = s[l]
    BY <1>1, <1>2, ThinnedMembers
  <2> QED BY <1>3, <1>5, <2>1, <2>2
<1> QED
  BY <1>4, <1>5 DEF AllVary

\* When nothing in it is constant and its branch is undecided, a block is done.
LEMMA FoldedAtEnd ==
  ASSUME NEW g, NEW b, ListOK(g, b), NEW S, g.list[b] \in Seq(S),
         AllVary(g, b), Undecided(TerminatorOf(g, b))
  PROVE  Folded(g, b)
<1> PICK s, n : s = g.list[b] /\ n = Len(s)
  OBVIOUS
<1>1. n \in Nat /\ s # << >> /\ InOrder(g, s)
  BY DEF ListOK
<1>2. TerminatorOf(g, b) = g.ins[s[n]]
  BY DEF TerminatorOf, Last
<1>3. ASSUME NEW k \in 1 .. n PROVE Undecided(g.ins[s[k]])
  <2>1. CASE k = n
    BY <1>2, <2>1
  <2>2. CASE k # n
    <3>1. n \in 1 .. n /\ k < n
      BY <1>1, <2>2
    <3>2. g.ins[s[k]].op \notin Ends
      BY <1>1, <3>1 DEF InOrder
    <3> QED BY <3>2 DEF Undecided, Ends
  <2> QED BY <2>1, <2>2
<1> QED
  BY <1>3 DEF Folded, AllVary

\* So is one that was sent one way.
LEMMA FoldedWhenRedirected ==
  ASSUME NEW q, NEW T, NEW G, NEW g, CodeOK(q, T, G, g), \A u \in DOMAIN q.ins : u[2] \in Nat \ {0},
         NEW b \in ToSet(q.bbs), b \in Block, Len(TerminatorOf(g, b).args) = 3,
         NEW h, IsRedirected(q, g, b, h), NoKnownLoad(q, g.list[b])
  PROVE  /\ NoKnownLoad(q, h.list[b])
         /\ AllVary(g, b) => Folded(h, b)
<1> PICK s, r, nb : s = g.list[b] /\ r = h.list[b] /\ nb = NewBranch(b)
  OBVIOUS
<1>1. nb \notin DOMAIN q.ins /\ LastReplaced(InstrId(q), s, nb, r)
  BY RedirectedList
<1>2. /\ s # << >> /\ \A k \in 1 .. Len(s) : s[k] \in DOMAIN g.ins
      /\ InOrder(g, s)
  BY DEF CodeOK, ListOK
<1>3. Len(s) \in Nat /\ Len(s) \in 1 .. Len(s) /\ \A j \in 1 .. Len(s) : s[j] # nb
  BY <1>1 DEF LastReplaced
<1>4. \A j \in 1 .. Len(s) - 1 : j \in 1 .. Len(s) /\ j < Len(s)
  BY <1>3
<1>5. NoKnownLoad(q, r)
  <2> SUFFICES ASSUME NEW k \in 1 .. Len(r), NEW l \in 1 .. Len(r), k < l, Feeds(q, r[k], r[l]) PROVE FALSE
    BY DEF NoKnownLoad
  <2>1. r[l] = nb \/ \E i, j \in 1 .. Len(s) - 1 : i < j /\ r[k] = s[i] /\ r[l] = s[j]
    BY <1>1 DEF LastReplaced
  <2>2. r[l] # nb
    BY <1>1 DEF Feeds, IsLoad
  <2>3. PICK i \in 1 .. Len(s) - 1, j \in 1 .. Len(s) - 1 : i < j /\ r[k] = s[i] /\ r[l] = s[j]
    BY <2>1, <2>2
  <2> QED BY <1>4, <2>3 DEF NoKnownLoad
<1>6. ASSUME \A k \in 1 .. Len(s) : Varies(g.ins[s[k]]), NEW k \in 1 .. Len(r)
      PROVE  Varies(h.ins[r[k]]) /\ Undecided(h.ins[r[k]])
  <2>1. r[k] = nb \/ \E j \in 1 .. Len(s) - 1 : r[k] = s[j]
    BY <1>1 DEF LastReplaced
  <2>2. CASE r[k] = nb
    <3>1. h.ins[nb].op = "br" /\ Len(h.ins[nb].args) = 1
      BY DEF IsRedirected
    <3> QED BY <2>2, <3>1 DEF Varies, Undecided, Pure, IntOps, FloatOps, CmpOps, FCmpOps, Casts
  <2>3. ASSUME NEW j \in 1 .. Len(s) - 1, r[k] = s[j] PROVE Varies(h.ins[r[k]]) /\ Undecided(h.ins[r[k]])
    <3>1. s[j] \in DOMAIN g.ins /\ s[j] # nb
      BY <1>2, <1>3, <1>4
    <3>2. h.ins[s[j]] = g.ins[s[j]]
      BY <3>1 DEF IsRedirected
    <3>3. g.ins[s[j]].op \notin Ends
      BY <1>2, <1>3, <1>4 DEF InOrder
    <3> QED BY <1>4, <1>6, <2>3, <3>2, <3>3 DEF Undecided, Ends
  <2> QED BY <2>1, <2>2, <2>3
<1>7. AllVary(g, b) => Folded(h, b)
  BY <1>6 DEF Folded, AllVary
<1> QED
  BY <1>5, <1>7

-----------------------------------------------------------------------------
(* One more instruction of a block.                                        *)

\* a is the list s with x at the end.
IsAppended(V, s, x, a) == a \in Seq(V) /\ ToSet(a) = ToSet(s) \cup {x}

\* Appending to a list adds to its members.
LEMMA AppendedSet ==
  ASSUME NEW V, NEW s, s \in Seq(V), NEW x \in V, NEW a, a = Append(s, x)
  PROVE  IsAppended(V, s, x, a)
<1> PICK n : n = Len(s)
  OBVIOUS
<1>1. /\ a \in Seq(V) /\ n \in Nat /\ DOMAIN s = 1 .. n /\ DOMAIN a = 1 .. n + 1
      /\ a[n + 1] = x /\ \A k \in 1 .. n : a[k] = s[k]
  OBVIOUS
<1>2. 1 .. n + 1 = (1 .. n) \cup {n + 1}
  BY <1>1
<1>3. ToSet(a) = ToSet(s) \cup {x}
  BY <1>1, <1>2 DEF ToSet
<1> QED
  BY <1>1, <1>3 DEF IsAppended

\* Both have the same ops among the first n of s.
SameOps(g, h, s, n) == \A k \in 1 .. n : h.ins[s[k]].op = g.ins[s[k]].op

\* The globals stored to are those stored to before an instruction that is no store.
LEMMA StoredSame ==
  ASSUME NEW q, NEW g, NEW s, NEW n \in Nat \ {0}, NEW h, SameOps(g, h, s, n), g.ins[s[n]].op # "store"
  PROVE  Stored(q, h, s, n) = Stored(q, g, s, n - 1)
<1>1. 1 .. n = (1 .. n - 1) \cup {n}
  OBVIOUS
<1>2. {j \in 1 .. n : h.ins[s[j]].op = "store"} = {j \in 1 .. n - 1 : g.ins[s[j]].op = "store"}
  BY <1>1 DEF SameOps
<1> QED
  BY <1>2 DEF Stored

\* The store at place n adds its global.
StoresMore(q, g, s, n) ==
  Stored(q, g, s, n) = Stored(q, g, s, n - 1) \cup {q.ins[s[n]].args[2][2]}

\* A store adds the global it stores to.
LEMMA StoredNew ==
  ASSUME NEW q, NEW g, NEW s, NEW n \in Nat \ {0}, g.ins[s[n]].op = "store"
  PROVE  StoresMore(q, g, s, n)
<1>1. 1 .. n = (1 .. n - 1) \cup {n}
  OBVIOUS
<1>2. {j \in 1 .. n : g.ins[s[j]].op = "store"} = {j \in 1 .. n - 1 : g.ins[s[j]].op = "store"} \cup {n}
  BY <1>1
<1> QED
  BY <1>2 DEF Stored, StoresMore

\* The place after n, and the places before and after it.
LEMMA NextPlace ==
  ASSUME NEW l \in Nat, NEW n \in 1 .. l
  PROVE  /\ n \in Nat \ {0} /\ n \in 1 .. n /\ n + 1 \in 1 .. l + 1 /\ (n + 1) - 1 = n
         /\ \A k \in 1 .. n : k = n \/ k \in 1 .. n - 1
         /\ \A k \in 1 .. n - 1 : k \in 1 .. l /\ k < n
         /\ \A k \in n + 1 .. l : k \in n .. l /\ k \in 1 .. l /\ n < k
  OBVIOUS

\* No store among the first n - 1 of s feeds the instruction at place n.
NoneFeeds(q, s, n) == \A k \in 1 .. n - 1 : ~Feeds(q, s[k], s[n])

\* Unless h counts as changed it is g, and i varies.
ChangedOrVaries(g, h, c, c2, i) == ~c2 => ~c /\ h = g /\ Varies(i)

\* W2 is W, or W and u, which may be deleted.
IsWaiting(q, W, u, W2) ==
  W2 = W \/ (W2 = Append(W, u) /\ u \in DOMAIN q.ins /\ q.ins[u].op \in Pure \cup {"load", "phi"})

\* An instruction that is neither a load nor a store was visited, and either
\* something has changed or it is not constant.
LEMMA OneMore ==
  ASSUME NEW q, NEW T, NEW G, NEW g, NEW s, NEW n \in 1 .. Len(s), Len(s) \in Nat, NEW c, NEW W, NEW m,
         BlockOK(q, T, G, g, s, n, c, W, m), g.ins[s[n]].op # "store",
         NoneFeeds(q, s, n), NEW h, SameOps(g, h, s, n), NEW c2, ChangedOrVaries(g, h, c, c2, g.ins[s[n]]),
         NEW W2, IsWaiting(q, W, s[n], W2)
  PROVE  BlockOK(q, T, G, h, s, n + 1, c2, W2, m)
<1>1. /\ W \in Seq(DOMAIN q.ins) /\ \A u \in ToSet(W) : q.ins[u].op \in Pure \cup {"load", "phi"}
      /\ ~c => \A k \in 1 .. n - 1 : s[k] \in ToSet(W) \/ Varies(g.ins[s[k]])
      /\ \A j, k \in 1 .. n - 1 : j < k /\ Feeds(q, s[j], s[k]) => s[k] \in ToSet(W)
      /\ DOMAIN m = Stored(q, g, s, n - 1)
      /\ \A x \in DOMAIN m : Fits(q, T, m[x], {G[x]})
      /\ \/ c \/ NoKnownLoad(q, s)
         \/ /\ UsesForward(q, g)
            /\ \A x \in DOMAIN m : \A k \in n .. Len(s) :
                 IsLoad(q, s[k]) /\ m[x][1] = "op" /\ m[x][2][1] = s[k][1] => Before(m[x][2], s[k])
  BY DEF BlockOK
<1>2. /\ W2 \in Seq(DOMAIN q.ins) /\ ToSet(W) \subseteq ToSet(W2)
      /\ \A u \in ToSet(W2) : q.ins[u].op \in Pure \cup {"load", "phi"}
  <2>1. CASE W2 = W
    BY <1>1, <2>1
  <2>2. CASE W2 # W
    <3>1. /\ W2 = Append(W, s[n]) /\ s[n] \in DOMAIN q.ins
          /\ q.ins[s[n]].op \in Pure \cup {"load", "phi"}
      BY <2>2 DEF IsWaiting
    <3>2. W2 \in Seq(DOMAIN q.ins) /\ ToSet(W2) = ToSet(W) \cup {s[n]}
      <4>1. IsAppended(DOMAIN q.ins, W, s[n], W2)
        BY <1>1, <3>1, AppendedSet
      <4> QED BY <4>1 DEF IsAppended
    <3> QED BY <1>1, <3>1, <3>2
  <2> QED BY <2>1, <2>2
<1>3. /\ n \in Nat \ {0} /\ n + 1 \in 1 .. Len(s) + 1 /\ (n + 1) - 1 = n
      /\ \A k \in 1 .. n : k = n \/ k \in 1 .. n - 1
      /\ \A k \in n + 1 .. Len(s) : k \in n .. Len(s)
  BY NextPlace
<1>4. DOMAIN m = Stored(q, h, s, n)
  <2>1. Stored(q, h, s, n) = Stored(q, g, s, n - 1)
    <3>1. n \in Nat \ {0} /\ SameOps(g, h, s, n) /\ g.ins[s[n]].op # "store"
      BY <1>3
    <3> QED BY <3>1, StoredSame, Zenon
  <2> QED BY <1>1, <2>1
<1>5. ASSUME ~c2, NEW k \in 1 .. n PROVE s[k] \in ToSet(W2) \/ Varies(h.ins[s[k]])
  <2>1. ~c /\ h = g /\ Varies(g.ins[s[n]])
    BY <1>5 DEF ChangedOrVaries
  <2>2. CASE k = n
    BY <2>1, <2>2
  <2>3. CASE k \in 1 .. n - 1
    BY <1>1, <1>2, <2>1, <2>3
  <2> QED BY <1>3, <2>2, <2>3
<1>6. ASSUME NEW j \in 1 .. n, NEW k \in 1 .. n, j < k, Feeds(q, s[j], s[k]) PROVE s[k] \in ToSet(W2)
  <2>1. j \in 1 .. n - 1
    BY <1>6
  <2>2. k # n
    BY <1>6, <2>1 DEF NoneFeeds
  <2>3. k \in 1 .. n - 1
    BY <1>3, <2>2
  <2> QED BY <1>1, <1>2, <1>6, <2>1, <2>3
<1>7. \/ c2 \/ NoKnownLoad(q, s)
      \/ /\ UsesForward(q, h)
         /\ \A x \in DOMAIN m : \A k \in n + 1 .. Len(s) :
              IsLoad(q, s[k]) /\ m[x][1] = "op" /\ m[x][2][1] = s[k][1] => Before(m[x][2], s[k])
  <2>1. c2 \/ (~c /\ h = g)
    BY DEF ChangedOrVaries
  <2> QED BY <1>1, <1>3, <2>1
<1> QED
  BY <1>1, <1>2, <1>3, <1>4, <1>5, <1>6, <1>7 DEF BlockOK

\* A store is never constant.
LEMMA StoreVaries ==
  ASSUME NEW i, i.op = "store"
  PROVE  Varies(i)
  BY DEF Varies, Pure, IntOps, FloatOps, CmpOps, FCmpOps, Casts

\* Of three instructions in order the first comes before the last.
LEMMA BeforeBefore ==
  ASSUME NEW x, NEW y, NEW z, x[2] \in Nat, y[2] \in Nat, z[2] \in Nat, Before(x, y), Before(y, z)
  PROVE  Before(x, z)
  BY DEF Before

\* The places of instructions are numbers.
Placed(q) == \A u \in DOMAIN q.ins : u[2] \in Nat

\* The instructions of s are of block b.
ListIn(g, s, b) == \A k \in 1 .. Len(s) : s[k] \in DOMAIN g.ins /\ s[k][1] = b

\* The uses of S are in block b.
AllIn(S, b) == \A y \in S : y[2][1] = b

\* S are uses of u.
IsUsersOf(g, u, S) == S \subseteq UseList(g, u)

\* The store u is to global x.
StoresTo(q, u, x) == x = q.ins[u].args[2][2]

\* The value v, if u uses it in its block, comes before u.
ComesBefore(q, g, v, u) == UsesForward(q, g) /\ v[1] = "op" /\ v[2][1] = u[1] => Before(v[2], u)

\* m2 is m with v for x.
IsWith(m, x, v, m2) == DOMAIN m2 = DOMAIN m \cup {x} /\ \A y \in DOMAIN m2 : m2[y] = IF y = x THEN v ELSE m[y]

\* What With is.
LEMMA WithIs ==
  ASSUME NEW m, NEW x, NEW v
  PROVE  IsWith(m, x, v, With(m, x, v))
  BY DEF With, IsWith

\* The ops are those the function was built with.
LEMMA OpsStay ==
  ASSUME NEW q, NEW T, NEW G, NEW g, CodeOK(q, T, G, g), NEW u \in DOMAIN q.ins
  PROVE  u \in DOMAIN g.ins /\ g.ins[u].op = q.ins[u].op
  BY DEF CodeOK, InsOK, OperandsOK

\* What is known of a stored value when a load of the block is reached.
LEMMA StoredBefore ==
  ASSUME NEW q, NEW T, NEW G, NEW g, CodeOK(q, T, G, g), Placed(q),
         NEW s, NEW n \in 1 .. Len(s), Len(s) \in Nat, InOrder(g, s), ListIn(g, s, s[n][1]), s[n] \in DOMAIN q.ins,
         NEW v, NEW K, Fits(q, T, v, K), ComesBefore(q, g, v, s[n]), UsesForward(q, g),
         NEW k \in n + 1 .. Len(s), IsLoad(q, s[k]), v[1] = "op", v[2][1] = s[k][1]
  PROVE  Before(v[2], s[k])
<1>1. k \in 1 .. Len(s) /\ n < k
  BY NextPlace
<1>2. s[k][1] = s[n][1]
  BY <1>1 DEF ListIn
<1>3. Before(v[2], s[n])
  BY <1>2 DEF ComesBefore
<1>4. g.ins[s[k]].op # "br"
  <2>1. s[k] \in DOMAIN q.ins /\ q.ins[s[k]].op = "load"
    BY DEF IsLoad
  <2> QED BY <2>1, OpsStay
<1>5. Before(s[n], s[k])
  BY <1>1, <1>4 DEF InOrder
<1>6. v[2][2] \in Nat /\ s[n][2] \in Nat /\ s[k][2] \in Nat
  BY DEF Fits, IsLoad, Placed
<1> QED
  BY <1>3, <1>5, <1>6, BeforeBefore

\* What is known of the stored values when a load is reached, and the same of
\* those known after the instruction at place n.
KnownBefore(q, s, m, n) ==
  \A y \in DOMAIN m : \A k \in n .. Len(s) :
    IsLoad(q, s[k]) /\ m[y][1] = "op" /\ m[y][2][1] = s[k][1] => Before(m[y][2], s[k])

\* What is known after a store.
LEMMA KnownAfterStore ==
  ASSUME NEW q, NEW T, NEW G, NEW g, CodeOK(q, T, G, g), Placed(q),
         NEW s, NEW n \in 1 .. Len(s), Len(s) \in Nat, InOrder(g, s), ListIn(g, s, s[n][1]), s[n] \in DOMAIN q.ins,
         NEW v, NEW K, Fits(q, T, v, K), ComesBefore(q, g, v, s[n]), UsesForward(q, g),
         NEW m, NEW x, NEW m2, IsWith(m, x, v, m2), KnownBefore(q, s, m, n)
  PROVE  KnownBefore(q, s, m2, n + 1)
<1> SUFFICES ASSUME NEW y \in DOMAIN m2, NEW k \in n + 1 .. Len(s),
                    IsLoad(q, s[k]), m2[y][1] = "op", m2[y][2][1] = s[k][1]
             PROVE  Before(m2[y][2], s[k])
  BY DEF KnownBefore
<1>1. m2[y] = v \/ (y \in DOMAIN m /\ m2[y] = m[y])
  BY DEF IsWith
<1>2. CASE m2[y] = v
  <2>1. v[1] = "op" /\ v[2][1] = s[k][1]
    BY <1>2
  <2>2. Before(v[2], s[k])
    BY <2>1, StoredBefore
  <2> QED BY <1>2, <2>2
<1>3. CASE y \in DOMAIN m /\ m2[y] = m[y]
  <2>1. k \in n .. Len(s)
    BY NextPlace
  <2>2. Before(m[y][2], s[k])
    BY <1>3, <2>1 DEF KnownBefore
  <2> QED BY <1>3, <2>2
<1> QED
  BY <1>1, <1>2, <1>3

\* A store was visited.
LEMMA OneMoreStore ==
  ASSUME NEW q, NEW T, NEW G, NEW g, CodeOK(q, T, G, g), Placed(q),
         NEW s, NEW n \in 1 .. Len(s), Len(s) \in Nat, InOrder(g, s), ListIn(g, s, s[n][1]),
         NEW c, NEW W, NEW m, BlockOK(q, T, G, g, s, n, c, W, m),
         s[n] \in DOMAIN q.ins, q.ins[s[n]].op = "store", NEW x, StoresTo(q, s[n], x),
         NEW v, Fits(q, T, v, {G[x]}), ComesBefore(q, g, v, s[n]),
         NEW m2, IsWith(m, x, v, m2)
  PROVE  BlockOK(q, T, G, g, s, n + 1, c, W, m2)
<1>1. /\ W \in Seq(DOMAIN q.ins) /\ \A u \in ToSet(W) : q.ins[u].op \in Pure \cup {"load", "phi"}
      /\ ~c => \A k \in 1 .. n - 1 : s[k] \in ToSet(W) \/ Varies(g.ins[s[k]])
      /\ \A j, k \in 1 .. n - 1 : j < k /\ Feeds(q, s[j], s[k]) => s[k] \in ToSet(W)
  BY DEF BlockOK
<1>2. /\ DOMAIN m = Stored(q, g, s, n - 1)
      /\ \A y \in DOMAIN m : Fits(q, T, m[y], {G[y]})
      /\ c \/ NoKnownLoad(q, s) \/ (UsesForward(q, g) /\ KnownBefore(q, s, m, n))
  BY DEF BlockOK, KnownBefore
<1>3. /\ n \in Nat \ {0} /\ n \in 1 .. n /\ n + 1 \in 1 .. Len(s) + 1 /\ (n + 1) - 1 = n
      /\ \A k \in 1 .. n : k = n \/ k \in 1 .. n - 1
  BY NextPlace
<1>4. g.ins[s[n]].op = "store"
  BY OpsStay, Zenon
<1>5. DOMAIN m2 = Stored(q, g, s, n)
  <2>1. StoresMore(q, g, s, n)
    BY <1>3, <1>4, StoredNew
  <2>2. DOMAIN m2 = DOMAIN m \cup {x}
    BY DEF IsWith
  <2> QED BY <1>2, <2>1, <2>2, Zenon DEF StoresMore, StoresTo
<1>6. Varies(g.ins[s[n]])
  BY <1>4, StoreVaries
<1>7. ASSUME ~c, NEW k \in 1 .. n PROVE s[k] \in ToSet(W) \/ Varies(g.ins[s[k]])
  <2>1. CASE k = n
    BY <1>6, <2>1
  <2>2. CASE k \in 1 .. n - 1
    BY <1>1, <1>7, <2>2
  <2> QED BY <1>3, <2>1, <2>2
<1>8. ASSUME NEW j \in 1 .. n, NEW k \in 1 .. n, j < k, Feeds(q, s[j], s[k]) PROVE s[k] \in ToSet(W)
  <2>1. k # n
    BY <1>8 DEF Feeds, IsLoad
  <2>2. j \in 1 .. n - 1 /\ k \in 1 .. n - 1
    <3>1. k \in 1 .. n - 1
      BY <1>3, <2>1
    <3>2. j # n
      BY <1>8, <3>1
    <3> QED BY <1>3, <3>1, <3>2
  <2> QED BY <1>1, <1>8, <2>2
<1>9. \A y \in DOMAIN m2 : Fits(q, T, m2[y], {G[y]})
  <2> TAKE y \in DOMAIN m2
  <2>1. (y = x /\ m2[y] = v) \/ (y \in DOMAIN m /\ m2[y] = m[y])
    BY DEF IsWith
  <2> QED BY <1>2, <2>1
<1>10. c \/ NoKnownLoad(q, s) \/ (UsesForward(q, g) /\ KnownBefore(q, s, m2, n + 1))
  <2>1. ASSUME UsesForward(q, g), KnownBefore(q, s, m, n) PROVE KnownBefore(q, s, m2, n + 1)
    BY <2>1, KnownAfterStore
  <2> QED BY <1>2, <2>1
<1>11. /\ n + 1 \in 1 .. Len(s) + 1
       /\ W \in Seq(DOMAIN q.ins) /\ \A u \in ToSet(W) : q.ins[u].op \in Pure \cup {"load", "phi"}
       /\ ~c => \A k \in 1 .. (n + 1) - 1 : s[k] \in ToSet(W) \/ Varies(g.ins[s[k]])
       /\ \A j, k \in 1 .. (n + 1) - 1 : j < k /\ Feeds(q, s[j], s[k]) => s[k] \in ToSet(W)
       /\ DOMAIN m2 = Stored(q, g, s, (n + 1) - 1)
  BY <1>1, <1>3, <1>5, <1>7, <1>8
<1> QED
  BY <1>9, <1>10, <1>11 DEF BlockOK, KnownBefore

\* The load u is of global x.
LoadsFrom(q, T, G, g, u, x) ==
  /\ x = q.ins[u].args[1][2] /\ x = g.ins[u].args[1][2] /\ T[u] = G[x]

\* A load whose global is known was visited.
LEMMA OneMoreLoad ==
  ASSUME NEW q, NEW T, NEW G, NEW g, CodeOK(q, T, G, g), Placed(q),
         NEW s, NEW n \in 1 .. Len(s), Len(s) \in Nat, InOrder(g, s),
         ListIn(g, s, s[n][1]),
         NEW c, NEW W, NEW m, BlockOK(q, T, G, g, s, n, c, W, m),
         s[n] \in DOMAIN q.ins, q.ins[s[n]].op = "load", NEW x \in DOMAIN m, LoadsFrom(q, T, G, g, s[n], x), NEW S, AllIn(S, s[n][1]), IsUsersOf(g, s[n], S),
         NEW h, IsWritten(g, S, m[x], h), NEW W2, IsAppended(DOMAIN q.ins, W, s[n], W2)
  PROVE  BlockOK(q, T, G, h, s, n + 1, c, W2, m) /\ (~c => UsesForward(q, h))
<1>1. /\ W \in Seq(DOMAIN q.ins) /\ \A u \in ToSet(W) : q.ins[u].op \in Pure \cup {"load", "phi"}
      /\ ~c => \A k \in 1 .. n - 1 : s[k] \in ToSet(W) \/ Varies(g.ins[s[k]])
      /\ \A j, k \in 1 .. n - 1 : j < k /\ Feeds(q, s[j], s[k]) => s[k] \in ToSet(W)
      /\ DOMAIN m = Stored(q, g, s, n - 1)
      /\ \A y \in DOMAIN m : Fits(q, T, m[y], {G[y]})
      /\ \/ c \/ NoKnownLoad(q, s)
         \/ /\ UsesForward(q, g)
            /\ \A y \in DOMAIN m : \A k \in n .. Len(s) :
                 IsLoad(q, s[k]) /\ m[y][1] = "op" /\ m[y][2][1] = s[k][1] => Before(m[y][2], s[k])
  BY DEF BlockOK
<1>2. n + 1 \in 1 .. Len(s) + 1 /\ (n + 1) - 1 = n /\ n \in Nat \ {0} /\ n \in 1 .. n
  OBVIOUS
<1>3. \A u \in DOMAIN g.ins : h.ins[u].op = g.ins[u].op
  BY DEF IsWritten
<1>4. \A u \in DOMAIN q.ins : u \in DOMAIN g.ins /\ g.ins[u].op = q.ins[u].op
  BY DEF CodeOK, InsOK, OperandsOK
<1>5. x = q.ins[s[n]].args[1][2] /\ T[s[n]] = G[x]
  BY DEF LoadsFrom
<1>6. /\ W2 \in Seq(DOMAIN q.ins) /\ ToSet(W2) = ToSet(W) \cup {s[n]}
      /\ \A u \in ToSet(W2) : q.ins[u].op \in Pure \cup {"load", "phi"}
  BY <1>1 DEF IsAppended
<1>7. DOMAIN m = Stored(q, h, s, n)
  <2>1. SameOps(g, h, s, n)
    BY <1>3 DEF SameOps, ListIn
  <2>2. n \in Nat \ {0} /\ g.ins[s[n]].op # "store"
    BY <1>2, <1>4
  <2>3. Stored(q, h, s, n) = Stored(q, g, s, n - 1)
    BY <2>1, <2>2, StoredSame
  <2> QED BY <1>1, <2>3
<1>8. ASSUME ~c
      PROVE  /\ UsesForward(q, g)
             /\ \A y \in DOMAIN m : \A k \in n .. Len(s) :
                  IsLoad(q, s[k]) /\ m[y][1] = "op" /\ m[y][2][1] = s[k][1] => Before(m[y][2], s[k])
  <2>1. x \in Stored(q, g, s, n - 1)
    BY <1>1
  <2>2. PICK j \in 1 .. n - 1 : g.ins[s[j]].op = "store" /\ x = q.ins[s[j]].args[2][2]
    BY <2>1 DEF Stored
  <2>3. j \in 1 .. Len(s) /\ j < n
    BY NextPlace
  <2>4. s[j] \in DOMAIN q.ins /\ q.ins[s[j]].op = "store"
    <3>1. s[j] \in DOMAIN g.ins
      BY <2>3, Zenon DEF ListIn
    <3>2. s[j] \in DOMAIN q.ins
      BY <2>2, <3>1, Zenon DEF CodeOK, InsOK
    <3> QED BY <1>4, <2>2, <3>2
  <2>5. Feeds(q, s[j], s[n])
    BY <1>5, <2>2, <2>4 DEF Feeds, IsLoad
  <2>6. ~NoKnownLoad(q, s)
    BY <2>3, <2>5 DEF NoKnownLoad
  <2> QED BY <1>1, <1>8, <2>6
<1>9. ASSUME ~c PROVE UsesForward(q, h)
  <2> PICK u, v : u = s[n] /\ v = m[x]
    OBVIOUS
  <2>1. UsesForward(q, g) /\ Fits(q, T, v, {T[u]})
    BY <1>1, <1>5, <1>8, <1>9, Zenon
  <2>2. v[1] = "op" /\ v[2][1] = u[1] => Before(v[2], u)
    <3>1. n \in n .. Len(s) /\ IsLoad(q, s[n])
      BY DEF IsLoad
    <3> QED BY <1>8, <1>9, <3>1
  <2>3. u \in DOMAIN q.ins /\ S \in SUBSET UseList(g, u) /\ (\A y \in S : y[2][1] = u[1]) /\ IsWritten(g, S, v, h)
    BY DEF AllIn, IsUsersOf
  <2>4. \A w \in DOMAIN q.ins : w[2] \in Nat
    BY DEF Placed
  <2> QED BY <2>1, <2>2, <2>3, <2>4, StillForward, Zenon
<1>10. ASSUME ~c, NEW k \in 1 .. n PROVE s[k] \in ToSet(W2) \/ Varies(h.ins[s[k]])
  <2>1. CASE k = n
    BY <1>6, <2>1
  <2>2. CASE k # n
    <3>1. k \in 1 .. n - 1 /\ k \in 1 .. Len(s) /\ k < n
      BY <2>2
    <3>2. s[k] \in ToSet(W2) \/ Varies(g.ins[s[k]])
      BY <1>1, <1>6, <1>10, <3>1
    <3>3. g.ins[s[k]].op = "phi" \/ \A y \in S : y[2] # s[k]
      <4> SUFFICES ASSUME g.ins[s[k]].op # "phi", NEW y \in S, y[2] = s[k] PROVE FALSE
        OBVIOUS
      <4>1. y \in g.uses /\ y[1] = s[n] /\ y[2] \in DOMAIN q.ins
        BY DEF IsUsersOf, UseList, CodeOK, UsesOK
      <4>2. q.ins[y[2]].op # "phi" /\ y[1][1] = y[2][1]
        BY <1>4, <4>1 DEF AllIn
      <4>3. Before(s[n], s[k])
        BY <1>8, <1>10, <4>1, <4>2 DEF UsesForward
      <4>4. Before(s[k], s[n])
        BY <1>4, <3>1 DEF InOrder
      <4>5. s[k][2] \in Nat /\ s[n][2] \in Nat
        BY <4>1 DEF Placed
      <4> QED BY <4>3, <4>4, <4>5 DEF Before
    <3>4. s[k] \in DOMAIN g.ins
      BY <3>1 DEF ListIn
    <3> QED BY <3>2, <3>3, <3>4, StillVaries
  <2> QED BY <2>1, <2>2
<1>11. ASSUME NEW j \in 1 .. n, NEW k \in 1 .. n, j < k, Feeds(q, s[j], s[k]) PROVE s[k] \in ToSet(W2)
  <2>1. CASE k = n
    BY <1>6, <2>1
  <2>2. CASE k # n
    <3>1. j \in 1 .. n - 1 /\ k \in 1 .. n - 1
      BY <1>11, <2>2
    <3> QED BY <1>1, <1>6, <1>11, <3>1
  <2> QED BY <2>1, <2>2
<1>12. \/ c \/ NoKnownLoad(q, s)
       \/ /\ UsesForward(q, h)
          /\ \A y \in DOMAIN m : \A k \in n + 1 .. Len(s) :
               IsLoad(q, s[k]) /\ m[y][1] = "op" /\ m[y][2][1] = s[k][1] => Before(m[y][2], s[k])
  <2>1. \A k \in n + 1 .. Len(s) : k \in n .. Len(s)
    OBVIOUS
  <2> QED BY <1>8, <1>9, <2>1
<1>13. BlockOK(q, T, G, h, s, n + 1, c, W2, m)
  BY <1>1, <1>2, <1>6, <1>7, <1>10, <1>11, <1>12 DEF BlockOK
<1> QED
  BY <1>9, <1>13

-----------------------------------------------------------------------------
(* The visit of an instruction.                                            *)

\* The instruction that is visited.
LEMMA Visited ==
  ASSUME NEW q, NEW T, NEW G, PassOK(q, T, G), pc = "instr", ip <= Len(f.list[bbs])
  PROVE  /\ FunctionOK(q, T, G, loops) /\ CodeOK(q, T, G, f) /\ RoundsOK(q, T, G, f, at, changed, deleteBlockSet)
         /\ bbs = q.bbs[at] /\ bbs \in Block /\ bbs \in ToSet(q.bbs) /\ Kept(q, deleteBlockSet, at)
         /\ Len(f.list[bbs]) \in Nat /\ ip \in 1 .. Len(f.list[bbs])
         /\ InOrder(f, f.list[bbs])
         /\ \A k \in 1 .. Len(f.list[bbs]) : f.list[bbs][k] \in DOMAIN f.ins /\ f.list[bbs][k][1] = bbs
         /\ id \in DOMAIN f.ins /\ id[1] = bbs
         /\ BlockOK(q, T, G, f, f.list[bbs], ip, changed, wait_delete, globalConstVar)
<1>1. /\ FunctionOK(q, T, G, loops) /\ RoundsOK(q, T, G, f, at, changed, deleteBlockSet)
      /\ VisitOK(q, T, G, f, at, ip, changed, deleteBlockSet, wait_delete, globalConstVar)
  BY DEF PassOK, Rounds
<1>2. CodeOK(q, T, G, f) /\ Kept(q, deleteBlockSet, at) /\ f.bbs = q.bbs
  BY <1>1 DEF RoundsOK, VisitOK, CodeOK
<1>3. bbs = q.bbs[at] /\ bbs \in Block /\ bbs \in ToSet(q.bbs)
  <2>1. q.bbs \in Seq(Block) /\ at \in 1 .. Len(q.bbs)
    BY <1>1, <1>2 DEF FunctionOK, Kept
  <2>2. bbs = q.bbs[at] /\ q.bbs[at] \in Block
    BY <1>2, <2>1 DEF bbs
  <2>3. q.bbs[at] \in ToSet(q.bbs)
    BY <2>1 DEF ToSet
  <2> QED BY <2>2, <2>3
<1>4. ListOK(f, bbs) /\ f.list[bbs] \in Seq(InstrId(q))
  BY <1>2, <1>3 DEF CodeOK
<1>5. BlockOK(q, T, G, f, f.list[bbs], ip, changed, wait_delete, globalConstVar)
  BY <1>1, <1>3 DEF VisitOK
<1>6. Len(f.list[bbs]) \in Nat /\ ip \in 1 .. Len(f.list[bbs])
  <2>1. Len(f.list[bbs]) \in Nat
    BY <1>4
  <2>2. ip \in 1 .. Len(f.list[bbs]) + 1
    BY <1>5 DEF BlockOK
  <2> QED BY <2>1, <2>2
<1>7. /\ \A k \in 1 .. Len(f.list[bbs]) : f.list[bbs][k] \in DOMAIN f.ins /\ f.list[bbs][k][1] = bbs
      /\ InOrder(f, f.list[bbs])
  BY <1>4 DEF ListOK
<1>8. id \in DOMAIN f.ins /\ id[1] = bbs
  BY <1>6, <1>7 DEF id
<1> QED
  BY <1>1, <1>2, <1>3, <1>5, <1>6, <1>7, <1>8

\* An instruction that is no branch the pass added is one the function had.
LEMMA VisitedOperands ==
  ASSUME NEW q, NEW T, NEW G, NEW g, CodeOK(q, T, G, g), NEW u \in DOMAIN g.ins, g.ins[u].op # "br"
  PROVE  u \in DOMAIN q.ins /\ g.ins[u].op = q.ins[u].op /\ OperandsOK(q, T, G, g, u)
  BY DEF CodeOK, InsOK, OperandsOK

\* Where the instructions stay on their lists, the round is where it was.
LEMMA RoundsStay ==
  ASSUME NEW q, NEW T, NEW G, NEW g, NEW n, NEW c, NEW D, RoundsOK(q, T, G, g, n, c, D),
         NEW h, CodeOK(q, T, G, h), h.list = g.list, NEW c2, c => c2,
         ~c2 => \A k \in 1 .. n - 1 : Kept(q, D, k) /\ Folded(g, q.bbs[k]) => Folded(h, q.bbs[k]),
         ~c2 /\ UsesForward(q, g) => UsesForward(q, h)
  PROVE  RoundsOK(q, T, G, h, n, c2, D)
<1>1. n \in 1 .. Len(q.bbs) + 1 /\ RoundOK(q, g, n, c, D) /\ LoadsOK(q, g, n, c, D)
  BY DEF RoundsOK
<1>2. RoundOK(q, h, n, c2, D)
  BY <1>1 DEF RoundOK
<1>3. LoadsOK(q, h, n, c2, D)
  BY <1>1 DEF LoadsOK
<1> QED
  BY <1>1, <1>2, <1>3 DEF RoundsOK

\* The pass stops, or is done.
LEMMA Stops ==
  ASSUME NEW q, NEW T, NEW G, PassOK(q, T, G), loops' = loops, pc' \notin Rounds
  PROVE  PassOK(q, T, G)'
  BY DEF PassOK, Rounds

\* The pass goes on to the next instruction.
LEMMA VisitGoesOn ==
  ASSUME NEW q, NEW T, NEW G, PassOK(q, T, G), pc = "instr", pc' = "instr", ip <= Len(f.list[bbs]),
         loops' = loops, at' = at, deleteBlockSet' = deleteBlockSet, ip' = ip + 1,
         CodeOK(q, T, G, f'), f'.list = f.list, changed => changed',
         ~changed' => \A k \in 1 .. at - 1 :
            Kept(q, deleteBlockSet, k) /\ Folded(f, q.bbs[k]) => Folded(f', q.bbs[k]),
         ~changed' /\ UsesForward(q, f) => UsesForward(q, f'),
         BlockOK(q, T, G, f', f.list[bbs], ip + 1, changed', wait_delete', globalConstVar')
  PROVE  PassOK(q, T, G)'
<1>1. /\ FunctionOK(q, T, G, loops) /\ RoundsOK(q, T, G, f, at, changed, deleteBlockSet)
      /\ bbs = q.bbs[at] /\ Kept(q, deleteBlockSet, at)
  BY Visited
<1>2. RoundsOK(q, T, G, f', at, changed', deleteBlockSet)
  BY <1>1, RoundsStay
<1>3. VisitOK(q, T, G, f', at, ip + 1, changed', deleteBlockSet, wait_delete', globalConstVar')
  BY <1>1 DEF VisitOK
<1> QED
  BY <1>1, <1>2, <1>3 DEF PassOK

\* Nothing stored can be known of an instruction that is not a load.
LEMMA NotFed ==
  ASSUME NEW q, NEW T, NEW G, NEW g, CodeOK(q, T, G, g), NEW u \in DOMAIN g.ins, g.ins[u].op # "load", NEW v
  PROVE  ~Feeds(q, v, u)
<1> SUFFICES ASSUME Feeds(q, v, u) PROVE FALSE
  OBVIOUS
<1>1. u \in DOMAIN q.ins /\ q.ins[u].op = "load"
  BY DEF Feeds, IsLoad
<1> QED
  BY <1>1, OpsStay

\* Uses are replaced and the instruction is to go.
LEMMA ReplaceChanges ==
  ASSUME NEW q, NEW T, NEW G, PassOK(q, T, G), pc = "instr", ip <= Len(f.list[bbs]),
         f.ins[id].op \in Pure \cup {"phi"}, NEW S \in SUBSET UseList(f, id),
         NEW v, Fits(q, T, v, {T[id]}), Replace(S, v), changed' = TRUE, globalConstVar' = globalConstVar,
         loops' = loops, at' = at, deleteBlockSet' = deleteBlockSet
  PROVE  PassOK(q, T, G)'
<1>1. CASE ~InRange(f, S)
  <2>1. pc' \notin Rounds
    BY <1>1 DEF Replace, Rounds
  <2> QED BY <2>1, Stops
<1>2. CASE InRange(f, S)
  <2> PICK g : g = f
    OBVIOUS
  <2> PICK s : s = g.list[bbs]
    OBVIOUS
  <2> PICK u, n : u = id /\ n = ip
    OBVIOUS
  <2> PICK h : h = SetOperands(g, S, v)
    OBVIOUS
  <2>1. f' = h /\ wait_delete' = Append(wait_delete, u) /\ ip' = ip + 1 /\ pc' = pc
    BY <1>2 DEF Replace, NextInstr
  <2>2. /\ CodeOK(q, T, G, g) /\ Len(s) \in Nat /\ n \in 1 .. Len(s) /\ u \in DOMAIN g.ins /\ u = s[n]
        /\ BlockOK(q, T, G, g, s, n, changed, wait_delete, globalConstVar)
    BY Visited DEF id
  <2>3. g.ins[u].op # "br" /\ g.ins[u].op # "store" /\ g.ins[u].op # "load"
    BY DEF Pure, IntOps, FloatOps, CmpOps, FCmpOps, Casts
  <2>4. u \in DOMAIN q.ins /\ q.ins[u].op = g.ins[u].op
    BY <2>2, <2>3, VisitedOperands
  <2>5. CodeOK(q, T, G, h)
    BY <2>2, <2>4, SetOperandsOK
  <2>6. IsWritten(g, S, v, h)
    BY <2>2, SetOperandsMeaning
  <2>7. h.list = g.list /\ \A w \in DOMAIN g.ins : h.ins[w].op = g.ins[w].op
    BY <2>6 DEF IsWritten
  <2>8. SameOps(g, h, s, n)
    <3>1. \A k \in 1 .. n : s[k] \in DOMAIN g.ins
      <4>1. \A k \in 1 .. Len(s) : s[k] \in DOMAIN g.ins
        BY Visited
      <4> QED BY <2>2, <4>1
    <3> QED BY <2>7, <3>1 DEF SameOps
  <2>9. NoneFeeds(q, s, n)
    BY <2>2, <2>3, NotFed, Zenon DEF NoneFeeds
  <2> PICK W2 : W2 = Append(wait_delete, s[n])
    OBVIOUS
  <2>10. q.ins[s[n]].op \in Pure \cup {"load", "phi"} /\ s[n] \in DOMAIN q.ins
    BY <2>2, <2>4
  <2>11. BlockOK(q, T, G, h, s, n + 1, TRUE, W2, globalConstVar)
    <3>1. g.ins[s[n]].op # "store"
      BY <2>2, <2>3
    <3>2. ChangedOrVaries(g, h, changed, TRUE, g.ins[s[n]])
      BY DEF ChangedOrVaries
    <3>3. IsWaiting(q, wait_delete, s[n], W2)
      BY <2>10 DEF IsWaiting
    <3> QED BY <2>2, <2>8, <2>9, <3>1, <3>2, <3>3, OneMore
  <2>12. wait_delete' = W2
    BY <2>1, <2>2
  <2>13. BlockOK(q, T, G, f', f.list[bbs], ip + 1, changed', wait_delete', globalConstVar')
    BY <2>1, <2>11, <2>12
  <2> QED BY <2>1, <2>5, <2>7, <2>13, VisitGoesOn
<1> QED
  BY <1>1, <1>2

\* The number c has the type t.
IsOf(c, t) == t \in Numbers /\ c[1] = t

\* An integer constant is an int.
LEMMA IntIs ==
  ASSUME NEW x, NEW c, c = ConstInt(x)
  PROVE  IsOf(c, "int")
  BY DEF ConstInt, IsOf, Numbers

\* A floating constant is a float.
LEMMA FPIs ==
  ASSUME NEW x, NEW c, c = ConstFP(x)
  PROVE  IsOf(c, "fp")
  BY DEF ConstFP, IsOf, Numbers

\* A number fits where a value of its type is wanted.
LEMMA NumberFits ==
  ASSUME NEW q, NEW T, NEW v, NEW x, IsOf(v, T[x])
  PROVE  Fits(q, T, v, {T[x]})
  BY DEF Fits, IsOf, Numbers

\* The type of a visited instruction.
LEMMA TypeOfVisited ==
  ASSUME NEW q, NEW T, NEW G, PassOK(q, T, G), pc = "instr", ip <= Len(f.list[bbs]), instr.op # "br"
  PROVE  /\ id \in DOMAIN q.ins /\ instr.op = q.ins[id].op /\ instr = f.ins[id]
         /\ OperandsOK(q, T, G, f, id)
         /\ instr.op \in GivesInt => T[id] = "int"
         /\ instr.op \in GivesFP => T[id] = "fp"
         /\ instr.op = "load" => T[id] = G[q.ins[id].args[1][2]]
<1>1. /\ instr = f.ins[id] /\ id \in DOMAIN f.ins /\ CodeOK(q, T, G, f) /\ WellTyped(q, T, G)
  BY Visited DEF instr, FunctionOK
<1>2. id \in DOMAIN q.ins /\ f.ins[id].op = q.ins[id].op /\ OperandsOK(q, T, G, f, id)
  BY <1>1, VisitedOperands
<1> QED
  BY <1>1, <1>2 DEF WellTyped

\* The instruction is folded.
LEMMA FoldInstrOK ==
  ASSUME NEW q, NEW T, NEW G, PassOK(q, T, G), pc = "instr", ip <= Len(f.list[bbs]), instr.op \in Pure,
         NEW c, IsOf(c, T[id]), FoldInstr(c),
         loops' = loops, at' = at, deleteBlockSet' = deleteBlockSet
  PROVE  PassOK(q, T, G)'
<1>1. Fits(q, T, c, {T[id]})
  BY NumberFits
<1>2. f.ins[id].op \in Pure \cup {"phi"}
  BY DEF instr
<1>3. Replace(UseList(f, id), c) /\ changed' = TRUE /\ globalConstVar' = globalConstVar
  BY DEF FoldInstr
<1>4. UseList(f, id) \in SUBSET UseList(f, id)
  OBVIOUS
<1> QED
  BY <1>1, <1>2, <1>3, <1>4, ReplaceChanges

\* Folding integer arithmetic keeps the invariant.
LEMMA FoldBinaryOK ==
  ASSUME NEW q, NEW T, NEW G, PassOK(q, T, G), FoldBinary
  PROVE  PassOK(q, T, G)'
<1>1. pc = "instr" /\ ip <= Len(f.list[bbs]) /\ instr.op \in IntOps
  BY DEF FoldBinary, Visiting
<1>2. loops' = loops /\ at' = at /\ deleteBlockSet' = deleteBlockSet
  BY DEF FoldBinary, OtherThanInstrs
<1>3. CASE Traps(instr.op, A[2], B[2])
  <2>1. pc' = "abort"
    BY <1>3 DEF FoldBinary
  <2> QED BY <1>2, <2>1, Stops DEF Rounds
<1>4. CASE ~Traps(instr.op, A[2], B[2])
  <2> PICK c : c = compute(instr.op, A[2], B[2])
    OBVIOUS
  <2>1. FoldInstr(c)
    BY <1>4 DEF FoldBinary
  <2>2. IsOf(c, "int")
    BY IntIs DEF compute
  <2>3. T[id] = "int"
    BY <1>1, TypeOfVisited DEF IntOps, GivesInt
  <2>4. instr.op \in Pure
    BY <1>1 DEF Pure
  <2> QED BY <1>1, <1>2, <2>1, <2>2, <2>3, <2>4, FoldInstrOK
<1> QED
  BY <1>3, <1>4

\* Folding floating arithmetic keeps the invariant.
LEMMA FoldFloatOK ==
  ASSUME NEW q, NEW T, NEW G, PassOK(q, T, G), FoldFloat
  PROVE  PassOK(q, T, G)'
<1> PICK c : c = computefp(instr.op, A[2], B[2])
  OBVIOUS
<1>1. pc = "instr" /\ ip <= Len(f.list[bbs]) /\ instr.op \in FloatOps /\ FoldInstr(c)
  BY DEF FoldFloat, Visiting
<1>2. loops' = loops /\ at' = at /\ deleteBlockSet' = deleteBlockSet
  BY DEF FoldFloat, OtherThanInstrs
<1>3. IsOf(c, "fp")
  BY FPIs DEF computefp
<1>4. T[id] = "fp"
  BY <1>1, TypeOfVisited DEF FloatOps, GivesFP
<1>5. instr.op \in Pure
  BY <1>1 DEF Pure
<1> QED
  BY <1>1, <1>2, <1>3, <1>4, <1>5, FoldInstrOK

\* Folding a cast keeps the invariant.
LEMMA FoldCastOK ==
  ASSUME NEW q, NEW T, NEW G, PassOK(q, T, G), FoldCast
  PROVE  PassOK(q, T, G)'
<1> PICK c : c = convert(instr.op, instr.args[1][2])
  OBVIOUS
<1>1. pc = "instr" /\ ip <= Len(f.list[bbs]) /\ instr.op \in Casts /\ FoldInstr(c)
  BY DEF FoldCast, Visiting
<1>2. loops' = loops /\ at' = at /\ deleteBlockSet' = deleteBlockSet
  BY DEF FoldCast, OtherThanInstrs
<1>3. IsOf(c, T[id])
  <2>1. CASE instr.op = "fp2si"
    <3>1. IsOf(c, "int")
      BY <2>1, IntIs DEF convert
    <3>2. T[id] = "int"
      BY <1>1, <2>1, TypeOfVisited DEF GivesInt
    <3> QED BY <3>1, <3>2
  <2>2. CASE instr.op = "si2fp"
    <3>1. IsOf(c, "fp")
      BY <2>2, FPIs DEF convert
    <3>2. T[id] = "fp"
      BY <1>1, <2>2, TypeOfVisited DEF GivesFP
    <3> QED BY <3>1, <3>2
  <2>3. CASE instr.op = "zext"
    <3>1. IsOf(c, "int")
      BY <2>3, IntIs DEF convert
    <3>2. T[id] = "int"
      BY <1>1, <2>3, TypeOfVisited DEF GivesInt
    <3> QED BY <3>1, <3>2
  <2> QED BY <1>1, <2>1, <2>2, <2>3 DEF Casts
<1>4. instr.op \in Pure
  BY <1>1 DEF Pure
<1> QED
  BY <1>1, <1>2, <1>3, <1>4, FoldInstrOK

\* Folding an integer compare keeps the invariant.
LEMMA FoldCmpOK ==
  ASSUME NEW q, NEW T, NEW G, PassOK(q, T, G), FoldCmp
  PROVE  PassOK(q, T, G)'
<1> PICK c : c = compute_comp(instr.op, instr.args[1][2], instr.args[2][2])
  OBVIOUS
<1>1. pc = "instr" /\ ip <= Len(f.list[bbs]) /\ instr.op \in CmpOps /\ FoldInstr(c)
  BY DEF FoldCmp, Visiting
<1>2. loops' = loops /\ at' = at /\ deleteBlockSet' = deleteBlockSet
  BY DEF FoldCmp, OtherThanInstrs
<1>3. IsOf(c, "int")
  BY IntIs DEF compute_comp
<1>4. T[id] = "int"
  BY <1>1, TypeOfVisited DEF CmpOps, GivesInt
<1>5. instr.op \in Pure
  BY <1>1 DEF Pure
<1> QED
  BY <1>1, <1>2, <1>3, <1>4, <1>5, FoldInstrOK

\* Folding a floating compare keeps the invariant.
LEMMA FoldFCmpOK ==
  ASSUME NEW q, NEW T, NEW G, PassOK(q, T, G), FoldFCmp
  PROVE  PassOK(q, T, G)'
<1> PICK c : c = compute_fcomp(instr.op, instr.args[1][2], instr.args[2][2])
  OBVIOUS
<1>1. pc = "instr" /\ ip <= Len(f.list[bbs]) /\ instr.op \in FCmpOps /\ FoldInstr(c)
  BY DEF FoldFCmp, Visiting
<1>2. loops' = loops /\ at' = at /\ deleteBlockSet' = deleteBlockSet
  BY DEF FoldFCmp, OtherThanInstrs
<1>3. IsOf(c, "int")
  BY IntIs DEF compute_fcomp
<1>4. T[id] = "int"
  BY <1>1, TypeOfVisited DEF FCmpOps, GivesInt
<1>5. instr.op \in Pure
  BY <1>1 DEF Pure
<1> QED
  BY <1>1, <1>2, <1>3, <1>4, <1>5, FoldInstrOK

\* A phi with one pair becomes its value.
LEMMA PhiOfOneOK ==
  ASSUME NEW q, NEW T, NEW G, PassOK(q, T, G), PhiOfOne
  PROVE  PassOK(q, T, G)'
<1> PICK v : v = instr.args[1]
  OBVIOUS
<1>1. /\ pc = "instr" /\ ip <= Len(f.list[bbs]) /\ instr.op = "phi" /\ Len(instr.args) = 2
      /\ Replace(UseList(f, id), v) /\ changed' = TRUE /\ globalConstVar' = globalConstVar
  BY DEF PhiOfOne, Visiting
<1>2. loops' = loops /\ at' = at /\ deleteBlockSet' = deleteBlockSet
  BY DEF PhiOfOne, OtherThanInstrs
<1>3. Fits(q, T, v, {T[id]})
  <2>1. id \in DOMAIN q.ins /\ instr.op = q.ins[id].op /\ instr = f.ins[id] /\ OperandsOK(q, T, G, f, id)
    BY <1>1, TypeOfVisited
  <2>2. IsSeq(instr.args)
    BY <2>1, <1>1, Visited DEF CodeOK, InsOK
  <2>3. 1 \in DOMAIN instr.args /\ 1 % 2 = 1
    BY <1>1, <2>2 DEF IsSeq
  <2> QED BY <1>1, <2>1, <2>3 DEF OperandsOK
<1>4. UseList(f, id) \in SUBSET UseList(f, id) /\ f.ins[id].op \in Pure \cup {"phi"}
  BY <1>1 DEF instr
<1> QED
  BY <1>1, <1>2, <1>3, <1>4, ReplaceChanges

\* A store keeps its global and is given a value of its type.
LEMMA StoreOperands ==
  ASSUME NEW q, NEW T, NEW G, WellTyped(q, T, G), NEW g, CodeOK(q, T, G, g),
         NEW u \in DOMAIN q.ins, q.ins[u].op = "store"
  PROVE  /\ 1 \in DOMAIN g.ins[u].args /\ g.ins[u].args[2] = q.ins[u].args[2]
         /\ Fits(q, T, g.ins[u].args[1], {G[q.ins[u].args[2][2]]})
<1>1. u \in DOMAIN g.ins /\ IsSeq(g.ins[u].args) /\ OperandsOK(q, T, G, g, u)
  BY DEF CodeOK, InsOK
<1>2. Len(q.ins[u].args) >= 2
  BY DEF WellTyped, Arity
<1>3. /\ Len(g.ins[u].args) = Len(q.ins[u].args)
      /\ \A k \in DOMAIN g.ins[u].args :
           IF Wants(q, T, G, u, k) = {} THEN g.ins[u].args[k] = q.ins[u].args[k]
           ELSE Fits(q, T, g.ins[u].args[k], Wants(q, T, G, u, k))
  BY <1>1 DEF OperandsOK
<1>4. 1 \in DOMAIN g.ins[u].args /\ 2 \in DOMAIN g.ins[u].args
  BY <1>1, <1>2, <1>3 DEF IsSeq
<1>5. Wants(q, T, G, u, 1) = {G[q.ins[u].args[2][2]]} /\ Wants(q, T, G, u, 2) = {}
  BY DEF Wants, TakesInt, TakesFP, IntOps, CmpOps, FloatOps, FCmpOps
<1> QED
  BY <1>3, <1>4, <1>5

\* A load keeps its global.
LEMMA LoadOperands ==
  ASSUME NEW q, NEW T, NEW G, WellTyped(q, T, G), NEW g, CodeOK(q, T, G, g),
         NEW u \in DOMAIN q.ins, q.ins[u].op = "load"
  PROVE  g.ins[u].args[1] = q.ins[u].args[1] /\ T[u] = G[q.ins[u].args[1][2]]
<1>1. u \in DOMAIN g.ins /\ IsSeq(g.ins[u].args) /\ OperandsOK(q, T, G, g, u)
  BY DEF CodeOK, InsOK
<1>2. Len(q.ins[u].args) >= 1 /\ T[u] = G[q.ins[u].args[1][2]]
  BY DEF WellTyped, Arity, Casts, IntOps, FloatOps, CmpOps, FCmpOps
<1>3. /\ Len(g.ins[u].args) = Len(q.ins[u].args)
      /\ \A k \in DOMAIN g.ins[u].args :
           IF Wants(q, T, G, u, k) = {} THEN g.ins[u].args[k] = q.ins[u].args[k]
           ELSE Fits(q, T, g.ins[u].args[k], Wants(q, T, G, u, k))
  BY <1>1 DEF OperandsOK
<1>4. 1 \in DOMAIN g.ins[u].args
  BY <1>1, <1>2, <1>3 DEF IsSeq
<1>5. Wants(q, T, G, u, 1) = {}
  BY DEF Wants, TakesInt, TakesFP, IntOps, CmpOps, FloatOps, FCmpOps
<1> QED
  BY <1>2, <1>3, <1>4, <1>5

\* Operand k of u is a number of type t or a result.
IsOperand(g, u, k, t) == k \in DOMAIN g.ins[u].args /\ g.ins[u].args[k][1] \in {"op", t}

\* What the operands of an instruction that takes one type may be.
LEMMA OperandIs ==
  ASSUME NEW q, NEW T, NEW G, WellTyped(q, T, G), NEW g, CodeOK(q, T, G, g),
         NEW u \in DOMAIN q.ins, NEW t, NEW k \in 1 .. Arity(q.ins[u].op), q.ins[u].op # "phi",
         Wants(q, T, G, u, k) = {t}
  PROVE  IsOperand(g, u, k, t)
<1>1. u \in DOMAIN g.ins /\ IsSeq(g.ins[u].args) /\ OperandsOK(q, T, G, g, u)
  BY DEF CodeOK, InsOK
<1>2. Len(q.ins[u].args) >= Arity(q.ins[u].op) /\ Arity(q.ins[u].op) \in {0, 1, 2}
  BY DEF WellTyped, Arity
<1>3. /\ Len(g.ins[u].args) = Len(q.ins[u].args)
      /\ \A i \in DOMAIN g.ins[u].args :
           IF Wants(q, T, G, u, i) = {} THEN g.ins[u].args[i] = q.ins[u].args[i]
           ELSE Fits(q, T, g.ins[u].args[i], Wants(q, T, G, u, i))
  BY <1>1 DEF OperandsOK
<1>4. Len(g.ins[u].args) \in Nat /\ DOMAIN g.ins[u].args = 1 .. Len(g.ins[u].args)
  BY <1>1 DEF IsSeq
<1>5. k \in DOMAIN g.ins[u].args
  BY <1>2, <1>3, <1>4
<1> QED
  BY <1>3, <1>5 DEF Fits, IsOperand

\* The store u gives the value v to global x.
Gives(g, u, x, v) == x = g.ins[u].args[2][2] /\ v = g.ins[u].args[1]

\* What a store gives its global comes before it.
LEMMA StoreForward ==
  ASSUME NEW q, NEW g, NEW u \in DOMAIN q.ins, q.ins[u].op = "store", 1 \in DOMAIN g.ins[u].args
  PROVE  ComesBefore(q, g, g.ins[u].args[1], u)
<1>1. ASSUME UsesForward(q, g), g.ins[u].args[1][1] = "op", g.ins[u].args[1][2][1] = u[1]
      PROVE  Before(g.ins[u].args[1][2], u)
  <2>1. \A k \in DOMAIN g.ins[u].args :
          g.ins[u].args[k][1] = "op" /\ g.ins[u].args[k][2][1] = u[1] => Before(g.ins[u].args[k][2], u)
    BY <1>1 DEF UsesForward
  <2> QED BY <1>1, <2>1
<1> QED
  BY <1>1 DEF ComesBefore

\* A store tells what is known of its global.
LEMMA VisitStore ==
  ASSUME NEW q, NEW T, NEW G, NEW g, CodeOK(q, T, G, g), WellTyped(q, T, G), Placed(q),
         NEW s, NEW n \in 1 .. Len(s), Len(s) \in Nat, InOrder(g, s), ListIn(g, s, s[n][1]),
         s[n] \in DOMAIN q.ins, q.ins[s[n]].op = "store",
         NEW c, NEW W, NEW m, BlockOK(q, T, G, g, s, n, c, W, m),
         NEW x, NEW v, Gives(g, s[n], x, v)
  PROVE  BlockOK(q, T, G, g, s, n + 1, c, W, With(m, x, v))
<1>1. /\ 1 \in DOMAIN g.ins[s[n]].args /\ g.ins[s[n]].args[2] = q.ins[s[n]].args[2]
      /\ Fits(q, T, g.ins[s[n]].args[1], {G[q.ins[s[n]].args[2][2]]})
  BY StoreOperands
<1>2. StoresTo(q, s[n], x) /\ Fits(q, T, v, {G[x]})
  BY <1>1 DEF Gives, StoresTo
<1>3. ComesBefore(q, g, v, s[n])
  <2>1. ComesBefore(q, g, g.ins[s[n]].args[1], s[n])
    BY <1>1, StoreForward
  <2> QED BY <2>1, Zenon DEF Gives
<1> QED
  BY <1>2, <1>3, WithIs, OneMoreStore

\* Where a visit of a load or a store begins.
LEMMA VisitBegins ==
  ASSUME NEW q, NEW T, NEW G, PassOK(q, T, G), pc = "instr", ip <= Len(f.list[bbs]),
         instr.op \in {"load", "store"}
  PROVE  /\ CodeOK(q, T, G, f) /\ WellTyped(q, T, G) /\ Placed(q)
         /\ Len(f.list[bbs]) \in Nat /\ ip \in 1 .. Len(f.list[bbs])
         /\ InOrder(f, f.list[bbs]) /\ ListIn(f, f.list[bbs], f.list[bbs][ip][1])
         /\ f.list[bbs][ip] \in DOMAIN q.ins /\ q.ins[f.list[bbs][ip]].op = instr.op
         /\ instr = f.ins[f.list[bbs][ip]] /\ id = f.list[bbs][ip] /\ f.list[bbs][ip][1] = bbs
         /\ BlockOK(q, T, G, f, f.list[bbs], ip, changed, wait_delete, globalConstVar)
<1>1. /\ CodeOK(q, T, G, f) /\ Len(f.list[bbs]) \in Nat /\ ip \in 1 .. Len(f.list[bbs])
      /\ BlockOK(q, T, G, f, f.list[bbs], ip, changed, wait_delete, globalConstVar)
      /\ InOrder(f, f.list[bbs])
      /\ \A k \in 1 .. Len(f.list[bbs]) : f.list[bbs][k] \in DOMAIN f.ins /\ f.list[bbs][k][1] = bbs
  BY Visited
<1>2. WellTyped(q, T, G) /\ Placed(q)
  BY Visited DEF FunctionOK, Placed
<1>3. id = f.list[bbs][ip] /\ f.list[bbs][ip][1] = bbs
  BY <1>1 DEF id
<1>4. ListIn(f, f.list[bbs], f.list[bbs][ip][1])
  BY <1>1, <1>3 DEF ListIn
<1>5. id \in DOMAIN q.ins /\ q.ins[id].op = instr.op /\ instr = f.ins[id]
  BY TypeOfVisited
<1>6. f.list[bbs][ip] \in DOMAIN q.ins /\ q.ins[f.list[bbs][ip]].op = instr.op /\ instr = f.ins[f.list[bbs][ip]]
  BY <1>3, <1>5
<1> QED
  BY <1>1, <1>2, <1>3, <1>4, <1>6

\* Remembering what is stored to a global keeps the invariant.
LEMMA StoreOK ==
  ASSUME NEW q, NEW T, NEW G, PassOK(q, T, G), Store
  PROVE  PassOK(q, T, G)'
<1>1. pc = "instr" /\ ip <= Len(f.list[bbs]) /\ instr.op = "store"
  BY DEF Store, Visiting
<1>2. /\ globalConstVar' = With(globalConstVar, instr.args[2][2], instr.args[1])
      /\ ip' = ip + 1 /\ f' = f /\ pc' = pc /\ wait_delete' = wait_delete /\ changed' = changed
      /\ loops' = loops /\ at' = at /\ deleteBlockSet' = deleteBlockSet
  BY DEF Store, NextInstr, OtherThanInstrs
<1>3. /\ CodeOK(q, T, G, f) /\ WellTyped(q, T, G) /\ Placed(q)
      /\ Len(f.list[bbs]) \in Nat /\ ip \in 1 .. Len(f.list[bbs])
      /\ InOrder(f, f.list[bbs]) /\ ListIn(f, f.list[bbs], f.list[bbs][ip][1])
      /\ f.list[bbs][ip] \in DOMAIN q.ins /\ q.ins[f.list[bbs][ip]].op = "store"
      /\ BlockOK(q, T, G, f, f.list[bbs], ip, changed, wait_delete, globalConstVar)
  BY <1>1, VisitBegins
<1>4. Gives(f, f.list[bbs][ip], instr.args[2][2], instr.args[1])
  BY <1>1, VisitBegins DEF Gives
<1>5. BlockOK(q, T, G, f, f.list[bbs], ip + 1, changed, wait_delete,
              With(globalConstVar, instr.args[2][2], instr.args[1]))
  BY <1>3, <1>4, VisitStore
<1>6. BlockOK(q, T, G, f', f.list[bbs], ip + 1, changed', wait_delete', globalConstVar')
  BY <1>2, <1>5
<1>7. CodeOK(q, T, G, f')
  BY <1>2, <1>3
<1> QED
  BY <1>1, <1>2, <1>6, <1>7, VisitGoesOn

\* The pass passes an instruction over that is not constant.
LEMMA PassedOver ==
  ASSUME NEW q, NEW T, NEW G, NEW g, NEW s, NEW n \in 1 .. Len(s), Len(s) \in Nat, NEW c, NEW W, NEW m,
         BlockOK(q, T, G, g, s, n, c, W, m), g.ins[s[n]].op # "store", NoneFeeds(q, s, n), Varies(g.ins[s[n]])
  PROVE  BlockOK(q, T, G, g, s, n + 1, c, W, m)
<1>1. SameOps(g, g, s, n)
  BY DEF SameOps
<1>2. ChangedOrVaries(g, g, c, c, g.ins[s[n]])
  BY DEF ChangedOrVaries
<1>3. IsWaiting(q, W, s[n], W)
  BY DEF IsWaiting
<1> QED
  BY <1>1, <1>2, <1>3, OneMore

\* Nothing is known of the global of a load that no store above feeds.
LEMMA UnknownLoad ==
  ASSUME NEW q, NEW T, NEW G, NEW g, CodeOK(q, T, G, g), WellTyped(q, T, G),
         NEW s, NEW n \in 1 .. Len(s), Len(s) \in Nat, NEW c, NEW W, NEW m, BlockOK(q, T, G, g, s, n, c, W, m),
         s[n] \in DOMAIN q.ins, q.ins[s[n]].op = "load", g.ins[s[n]].args[1][2] \notin DOMAIN m
  PROVE  NoneFeeds(q, s, n)
<1> SUFFICES ASSUME NEW k \in 1 .. n - 1, Feeds(q, s[k], s[n]) PROVE FALSE
  BY DEF NoneFeeds
<1>1. s[k] \in DOMAIN q.ins /\ q.ins[s[k]].op = "store" /\ q.ins[s[k]].args[2][2] = q.ins[s[n]].args[1][2]
  BY DEF Feeds
<1>2. g.ins[s[k]].op = "store"
  BY <1>1, OpsStay
<1>3. q.ins[s[k]].args[2][2] \in Stored(q, g, s, n - 1)
  BY <1>2, Zenon DEF Stored
<1>4. DOMAIN m = Stored(q, g, s, n - 1)
  BY DEF BlockOK
<1>5. g.ins[s[n]].args[1] = q.ins[s[n]].args[1]
  BY LoadOperands
<1> QED
  BY <1>1, <1>3, <1>4, <1>5

\* An operand that is a result is not constant.
LEMMA ResultVaries ==
  ASSUME NEW i, i.op \in Pure, NEW k \in DOMAIN i.args, i.args[k][1] = "op"
  PROVE  Varies(i)
<1>1. i.op # "phi"
  BY DEF Pure, IntOps, FloatOps, CmpOps, FCmpOps, Casts
<1>2. ~IsInt(i.args[k]) /\ ~IsFP(i.args[k])
  BY DEF IsInt, IsFP
<1> QED
  BY <1>1, <1>2 DEF Varies

\* An integer operation that is not folded has a result among its operands.
LEMMA IntVaries ==
  ASSUME NEW q, NEW T, NEW G, WellTyped(q, T, G), NEW g, CodeOK(q, T, G, g),
         NEW u \in DOMAIN q.ins, q.ins[u].op \in IntOps \cup CmpOps,
         ~(g.ins[u].args[1][1] = "int" /\ g.ins[u].args[2][1] = "int")
  PROVE  Varies(g.ins[u])
<1>1. Wants(q, T, G, u, 1) = {"int"} /\ Wants(q, T, G, u, 2) = {"int"}
  BY DEF Wants, TakesInt
<1>2. Arity(q.ins[u].op) = 2 /\ q.ins[u].op # "phi" /\ g.ins[u].op = q.ins[u].op
  <2>1. g.ins[u].op = q.ins[u].op
    BY OpsStay
  <2> QED BY <2>1 DEF Arity, IntOps, CmpOps
<1>3. IsOperand(g, u, 1, "int") /\ IsOperand(g, u, 2, "int")
  <2>1. 1 \in 1 .. Arity(q.ins[u].op) /\ 2 \in 1 .. Arity(q.ins[u].op)
    BY <1>2
  <2> QED BY <1>1, <1>2, <2>1, OperandIs
<1>4. \E k \in DOMAIN g.ins[u].args : g.ins[u].args[k][1] = "op"
  BY <1>3 DEF IsOperand
<1>5. g.ins[u].op \in Pure
  BY <1>2 DEF Pure
<1> QED
  BY <1>4, <1>5, ResultVaries

\* Floating arithmetic and compares vary unless both operands are constants.
LEMMA FloatVaries ==
  ASSUME NEW q, NEW T, NEW G, WellTyped(q, T, G), NEW g, CodeOK(q, T, G, g),
         NEW u \in DOMAIN q.ins, q.ins[u].op \in FloatOps \cup FCmpOps,
         ~(g.ins[u].args[1][1] = "fp" /\ g.ins[u].args[2][1] = "fp")
  PROVE  Varies(g.ins[u])
<1>1. Wants(q, T, G, u, 1) = {"fp"} /\ Wants(q, T, G, u, 2) = {"fp"}
  BY DEF Wants, TakesInt, TakesFP, IntOps, FloatOps, CmpOps, FCmpOps
<1>2. Arity(q.ins[u].op) = 2 /\ q.ins[u].op # "phi" /\ g.ins[u].op = q.ins[u].op
  <2>1. g.ins[u].op = q.ins[u].op
    BY OpsStay
  <2> QED BY <2>1 DEF Arity, FloatOps, FCmpOps
<1>3. IsOperand(g, u, 1, "fp") /\ IsOperand(g, u, 2, "fp")
  <2>1. 1 \in 1 .. Arity(q.ins[u].op) /\ 2 \in 1 .. Arity(q.ins[u].op)
    BY <1>2
  <2> QED BY <1>1, <1>2, <2>1, OperandIs
<1>4. \E k \in DOMAIN g.ins[u].args : g.ins[u].args[k][1] = "op"
  BY <1>3 DEF IsOperand
<1>5. g.ins[u].op \in Pure
  BY <1>2 DEF Pure
<1> QED
  BY <1>4, <1>5, ResultVaries

\* A cast varies unless its operand is a constant.
LEMMA CastVaries ==
  ASSUME NEW q, NEW T, NEW G, WellTyped(q, T, G), NEW g, CodeOK(q, T, G, g),
         NEW u \in DOMAIN q.ins, q.ins[u].op \in Casts,
         ~((q.ins[u].op = "fp2si" => g.ins[u].args[1][1] = "fp")
           /\ (q.ins[u].op \in {"si2fp", "zext"} => g.ins[u].args[1][1] = "int"))
  PROVE  Varies(g.ins[u])
<1>1. Arity(q.ins[u].op) = 1 /\ q.ins[u].op # "phi" /\ g.ins[u].op = q.ins[u].op
  <2>1. g.ins[u].op = q.ins[u].op
    BY OpsStay
  <2>2. q.ins[u].op # "phi"
    BY DEF Casts
  <2>3. Arity(q.ins[u].op) = 1
    BY DEF Arity, IntOps, FloatOps, CmpOps, FCmpOps, Casts
  <2> QED BY <2>1, <2>2, <2>3
<1>2. 1 \in DOMAIN g.ins[u].args /\ g.ins[u].args[1][1] = "op"
  <2>1. 1 \in 1 .. Arity(q.ins[u].op)
    BY <1>1
  <2>2. CASE q.ins[u].op = "fp2si"
    <3>1. Wants(q, T, G, u, 1) = {"fp"}
      BY <2>2 DEF Wants, TakesInt, TakesFP, IntOps, FloatOps, CmpOps, FCmpOps
    <3>2. IsOperand(g, u, 1, "fp")
      BY <1>1, <2>1, <3>1, OperandIs
    <3> QED BY <2>2, <3>2 DEF IsOperand
  <2>3. CASE q.ins[u].op \in {"si2fp", "zext"}
    <3>1. Wants(q, T, G, u, 1) = {"int"}
      BY <2>3 DEF Wants, TakesInt
    <3>2. IsOperand(g, u, 1, "int")
      BY <1>1, <2>1, <3>1, OperandIs
    <3> QED BY <2>3, <3>2 DEF IsOperand
  <2> QED BY <2>2, <2>3 DEF Casts
<1>3. g.ins[u].op \in Pure
  BY <1>1 DEF Pure
<1> QED
  BY <1>2, <1>3, ResultVaries

\* What is not folded is not constant.
LEMMA NotFoldedVaries ==
  ASSUME NEW q, NEW T, NEW G, PassOK(q, T, G), PassOver
  PROVE  Varies(instr)
<1>1. /\ pc = "instr" /\ ip <= Len(f.list[bbs])
      /\ \/ instr.op \in {"call", "input", "output", "br", "ret", "load"}
         \/ instr.op \in IntOps /\ ~(IsInt(A) /\ IsInt(B))
         \/ instr.op \in FloatOps /\ ~(IsFP(A) /\ IsFP(B))
         \/ instr.op \in Casts /\ ~ConstantCast
         \/ instr.op \in CmpOps /\ ~(IsInt(instr.args[1]) /\ IsInt(instr.args[2]))
         \/ instr.op \in FCmpOps /\ ~(IsFP(instr.args[1]) /\ IsFP(instr.args[2]))
  BY DEF PassOver, Visiting
<1>2. WellTyped(q, T, G) /\ CodeOK(q, T, G, f)
  BY <1>1, Visited DEF FunctionOK
<1>3. instr.op # "br" => id \in DOMAIN q.ins /\ instr.op = q.ins[id].op /\ instr = f.ins[id]
  BY <1>1, TypeOfVisited
<1>4. CASE instr.op \in {"call", "input", "output", "br", "ret", "load"}
  BY <1>4 DEF Varies, Pure, IntOps, FloatOps, CmpOps, FCmpOps, Casts
<1>5. /\ IsInt(instr.args[1]) => IsInt(A)
      /\ IsInt(instr.args[2]) => IsInt(B)
      /\ IsFP(instr.args[1]) => IsFP(A)
      /\ IsFP(instr.args[2]) => IsFP(B)
  BY DEF IsInt, IsFP, A, B, Constant
<1>6. CASE instr.op \in IntOps \cup CmpOps /\ ~(IsInt(instr.args[1]) /\ IsInt(instr.args[2]))
  <2>1. instr.op # "br"
    BY <1>6 DEF IntOps, CmpOps
  <2>2. ~(f.ins[id].args[1][1] = "int" /\ f.ins[id].args[2][1] = "int")
    BY <1>3, <1>6, <2>1 DEF IsInt
  <2>3. q.ins[id].op \in IntOps \cup CmpOps /\ id \in DOMAIN q.ins
    BY <1>3, <1>6, <2>1
  <2> QED BY <1>2, <1>3, <2>1, <2>2, <2>3, IntVaries
<1>7. CASE instr.op \in FloatOps \cup FCmpOps /\ ~(IsFP(instr.args[1]) /\ IsFP(instr.args[2]))
  <2>1. instr.op # "br"
    BY <1>7 DEF FloatOps, FCmpOps
  <2>2. ~(f.ins[id].args[1][1] = "fp" /\ f.ins[id].args[2][1] = "fp")
    BY <1>3, <1>7, <2>1 DEF IsFP
  <2>3. q.ins[id].op \in FloatOps \cup FCmpOps /\ id \in DOMAIN q.ins
    BY <1>3, <1>7, <2>1
  <2> QED BY <1>2, <1>3, <2>1, <2>2, <2>3, FloatVaries
<1>8. CASE instr.op \in Casts /\ ~ConstantCast
  <2>1. instr.op # "br"
    BY <1>8 DEF Casts
  <2>2. ~((q.ins[id].op = "fp2si" => f.ins[id].args[1][1] = "fp")
          /\ (q.ins[id].op \in {"si2fp", "zext"} => f.ins[id].args[1][1] = "int"))
    BY <1>3, <1>8, <2>1 DEF IsFP, IsInt, ConstantCast
  <2>3. q.ins[id].op \in Casts /\ id \in DOMAIN q.ins
    BY <1>3, <1>8, <2>1
  <2> QED BY <1>2, <1>3, <2>1, <2>2, <2>3, CastVaries
<1> QED
  BY <1>1, <1>4, <1>5, <1>6, <1>7, <1>8

\* An instruction that is passed over varies, so the invariant is kept.
LEMMA PassOverOK ==
  ASSUME NEW q, NEW T, NEW G, PassOK(q, T, G), PassOver
  PROVE  PassOK(q, T, G)'
<1>1. /\ pc = "instr" /\ ip <= Len(f.list[bbs])
      /\ instr.op \in {"call", "input", "output", "br", "ret"} \cup Pure \/ (instr.op = "load" /\ ~Known(instr.args[1][2]))
      /\ ip' = ip + 1 /\ f' = f /\ pc' = pc /\ wait_delete' = wait_delete /\ changed' = changed
      /\ globalConstVar' = globalConstVar
      /\ loops' = loops /\ at' = at /\ deleteBlockSet' = deleteBlockSet
  BY DEF PassOver, Visiting, NextInstr, OtherThanInstrs, Pure
<1>2. /\ CodeOK(q, T, G, f) /\ Len(f.list[bbs]) \in Nat /\ ip \in 1 .. Len(f.list[bbs])
      /\ BlockOK(q, T, G, f, f.list[bbs], ip, changed, wait_delete, globalConstVar)
      /\ WellTyped(q, T, G) /\ id \in DOMAIN f.ins
  BY <1>1, Visited DEF FunctionOK
<1>3. id = f.list[bbs][ip] /\ instr = f.ins[id]
  BY DEF id, instr
<1>4. Varies(f.ins[f.list[bbs][ip]])
  BY <1>3, NotFoldedVaries
<1>5. f.ins[f.list[bbs][ip]].op # "store"
  BY <1>1, <1>3 DEF Pure, IntOps, FloatOps, CmpOps, FCmpOps, Casts
<1>6. NoneFeeds(q, f.list[bbs], ip)
  <2>1. CASE instr.op # "load"
    <3>1. f.list[bbs][ip] \in DOMAIN f.ins /\ f.ins[f.list[bbs][ip]].op # "load"
      BY <1>2, <1>3, <2>1, Zenon
    <3> QED BY <1>2, <3>1, NotFed DEF NoneFeeds
  <2>2. CASE instr.op = "load"
    <3>1. f.ins[f.list[bbs][ip]].args[1][2] \notin DOMAIN globalConstVar
      <4>1. instr.op \notin {"call", "input", "output", "br", "ret"} \cup Pure
        BY <2>2 DEF Pure, IntOps, FloatOps, CmpOps, FCmpOps, Casts
      <4>2. ~Known(instr.args[1][2])
        BY <1>1, <4>1
      <4>3. instr = f.ins[f.list[bbs][ip]]
        BY <1>3, Zenon
      <4> QED BY <4>2, <4>3, Zenon DEF Known
    <3>2. f.list[bbs][ip] \in DOMAIN q.ins /\ q.ins[f.list[bbs][ip]].op = "load"
      BY <1>1, <1>3, <2>2, VisitBegins
    <3> QED BY <1>2, <3>1, <3>2, UnknownLoad
  <2> QED BY <2>1, <2>2
<1>7. BlockOK(q, T, G, f, f.list[bbs], ip + 1, changed, wait_delete, globalConstVar)
  BY <1>2, <1>4, <1>5, <1>6, PassedOver
<1>8. BlockOK(q, T, G, f', f.list[bbs], ip + 1, changed', wait_delete', globalConstVar')
  BY <1>1, <1>7
<1>9. CodeOK(q, T, G, f')
  BY <1>1, <1>2
<1> QED
  BY <1>1, <1>8, <1>9, VisitGoesOn

\* An even number above 2 is at least 4.
LEMMA EvenMany ==
  ASSUME NEW n \in Nat, n >= 2, n % 2 = 0, n # 2
  PROVE  n >= 4
  OBVIOUS

\* A phi is pruned of deleted blocks.
LEMMA PhiOfManyOK ==
  ASSUME NEW q, NEW T, NEW G, PassOK(q, T, G), PhiOfMany
  PROVE  PassOK(q, T, G)'
<1>1. /\ pc = "instr" /\ ip <= Len(f.list[bbs]) /\ instr.op = "phi" /\ Len(instr.args) # 2
      /\ f' = Pruned(Nat) /\ changed' = (changed \/ f' # f)
      /\ ip' = ip + 1 /\ pc' = pc /\ wait_delete' = wait_delete
      /\ globalConstVar' = globalConstVar
      /\ loops' = loops /\ at' = at /\ deleteBlockSet' = deleteBlockSet
  BY DEF PhiOfMany, Visiting, NextInstr, OtherThanInstrs
<1>2. /\ CodeOK(q, T, G, f) /\ Len(f.list[bbs]) \in Nat /\ ip \in 1 .. Len(f.list[bbs])
      /\ BlockOK(q, T, G, f, f.list[bbs], ip, changed, wait_delete, globalConstVar)
      /\ id \in DOMAIN f.ins /\ bbs \in ToSet(q.bbs)
      /\ \A k \in 1 .. Len(f.list[bbs]) : f.list[bbs][k] \in DOMAIN f.ins
  BY <1>1, Visited
<1>3. id \in DOMAIN q.ins /\ q.ins[id].op = "phi" /\ OperandsOK(q, T, G, f, id) /\ instr = f.ins[id]
  BY <1>1, TypeOfVisited
<1>4. Len(instr.args) >= 4
  <2>1. Len(instr.args) >= 2 /\ Len(instr.args) % 2 = 0
    BY <1>3 DEF OperandsOK
  <2>2. Len(instr.args) \in Nat
    BY <1>2, <1>3 DEF CodeOK, InsOK, IsSeq
  <2> QED BY <1>1, <2>1, <2>2, EvenMany
<1> PICK h : h = Pruned(Nat)
  OBVIOUS
<1>5. CodeOK(q, T, G, h) /\ h.list = f.list
  BY <1>2, <1>3, <1>4, PrunedOK
<1>6. f' = h
  BY <1>1
<1>7. SameOps(f, h, f.list[bbs], ip)
  <2>1. \A k \in 1 .. ip : f.list[bbs][k] \in DOMAIN f.ins
    BY <1>2
  <2>2. \A k \in 1 .. ip : f.list[bbs][k] \in DOMAIN h.ins
    <3>1. ListOK(h, bbs)
      BY <1>2, <1>5 DEF CodeOK
    <3> QED BY <1>2, <1>5, <3>1 DEF ListOK
  <2>3. \A u \in DOMAIN f.ins : u \in DOMAIN h.ins => h.ins[u].op = f.ins[u].op
    <3> TAKE u \in DOMAIN f.ins
    <3>1. CASE u \in DOMAIN q.ins
      BY <1>2, <1>5, <3>1, OpsStay
    <3>2. CASE u \notin DOMAIN q.ins
      BY <1>2, <1>5, <3>2 DEF CodeOK, InsOK
    <3> QED BY <3>1, <3>2
  <2> QED BY <2>1, <2>2, <2>3 DEF SameOps
<1>8. f.ins[f.list[bbs][ip]].op = "phi" /\ Varies(f.ins[f.list[bbs][ip]])
  <2>1. f.ins[f.list[bbs][ip]] = instr
    BY DEF id, instr
  <2> QED BY <1>1, <1>4, <2>1 DEF Varies, Pure, IntOps, FloatOps, CmpOps, FCmpOps, Casts
<1>9. NoneFeeds(q, f.list[bbs], ip)
  <2>1. f.list[bbs][ip] \in DOMAIN f.ins /\ f.ins[f.list[bbs][ip]].op # "load"
    BY <1>2, <1>8
  <2> QED BY <1>2, <2>1, NotFed DEF NoneFeeds
<1> PICK c2 : c2 = (changed \/ h # f)
  OBVIOUS
<1>10. BlockOK(q, T, G, h, f.list[bbs], ip + 1, c2, wait_delete, globalConstVar)
  <2>1. ChangedOrVaries(f, h, changed, c2, f.ins[f.list[bbs][ip]])
    BY <1>8 DEF ChangedOrVaries
  <2>2. f.ins[f.list[bbs][ip]].op # "store"
    BY <1>8
  <2>3. IsWaiting(q, wait_delete, f.list[bbs][ip], wait_delete)
    BY DEF IsWaiting
  <2> QED BY <1>2, <1>7, <1>9, <2>1, <2>2, <2>3, OneMore
<1>11. changed' = c2 /\ BlockOK(q, T, G, f', f.list[bbs], ip + 1, changed', wait_delete', globalConstVar')
  BY <1>1, <1>6, <1>10
<1>12. CodeOK(q, T, G, f') /\ f'.list = f.list
  BY <1>5, <1>6
<1>13. (changed => changed') /\ (~changed' => f' = f)
  BY <1>1
<1> QED
  BY <1>1, <1>11, <1>12, <1>13, VisitGoesOn

\* The users of a load in its block.
UsersIn(g, u, b) == {x \in UseList(g, u) : g.ins[x[2]].parent = b}

\* The users in a block are instructions of the block.
LEMMA UsersInside ==
  ASSUME NEW q, NEW T, NEW G, NEW g, CodeOK(q, T, G, g), NEW u, NEW b, NEW y \in UsersIn(g, u, b)
  PROVE  y[2][1] = b
<1>1. y \in g.uses /\ g.ins[y[2]].parent = b
  BY DEF UsersIn, UseList
<1>2. y[2] \in DOMAIN g.ins
  BY <1>1 DEF CodeOK, UsesOK, InsOK
<1> QED
  BY <1>1, <1>2 DEF CodeOK, InsOK

\* The other blocks are not written to.
OthersStay(q, g, h, b) == \A d \in ToSet(q.bbs) : d # b /\ Folded(g, d) => Folded(h, d)

\* Writing to users in one block leaves the others folded.
LEMMA OthersFolded ==
  ASSUME NEW q, NEW T, NEW G, NEW g, CodeOK(q, T, G, g), NEW S, NEW v, NEW h, IsWritten(g, S, v, h),
         NEW b, AllIn(S, b), NEW d \in ToSet(q.bbs), d # b, Folded(g, d)
  PROVE  Folded(h, d)
<1>1. \A k \in 1 .. Len(g.list[d]) : g.list[d][k] \in DOMAIN g.ins /\ g.list[d][k][1] = d
  BY DEF CodeOK, ListOK
<1>2. h.list[d] = g.list[d]
  BY DEF IsWritten
<1>3. \A k \in 1 .. Len(g.list[d]) : LET u == g.list[d][k]
                                     IN  h.ins[u].op = g.ins[u].op /\ h.ins[u].args = g.ins[u].args
  <2> TAKE k \in 1 .. Len(g.list[d])
  <2> PICK u : u = g.list[d][k]
    OBVIOUS
  <2>1. u \in DOMAIN g.ins /\ \A y \in S : y[2] # u
    BY <1>1 DEF AllIn
  <2>2. h.ins[u].op = g.ins[u].op /\ h.ins[u].args = g.ins[u].args
    BY <2>1, NotWritten
  <2> QED BY <2>2
<1> QED
  BY <1>2, <1>3, FoldedSame DEF SameBlock

\* h is g with the uses of u in block b replaced by what m knows of its global.
IsLoaded(g, u, b, m, h) == h = SetOperands(g, UsersIn(g, u, b), m[g.ins[u].args[1][2]])

\* A load keeps the global and the type it was built with.
LEMMA LoadKeeps ==
  ASSUME NEW q, NEW T, NEW G, NEW g, CodeOK(q, T, G, g), WellTyped(q, T, G),
         NEW u \in DOMAIN q.ins, q.ins[u].op = "load", NEW x, x = g.ins[u].args[1][2]
  PROVE  LoadsFrom(q, T, G, g, u, x)
<1>1. g.ins[u].args[1] = q.ins[u].args[1] /\ T[u] = G[q.ins[u].args[1][2]]
  BY LoadOperands
<1> QED
  BY <1>1 DEF LoadsFrom

\* Replacing the uses of a load in its block leaves the function typed and writes to
\* users in that block only.
LEMMA LoadedMeaning ==
  ASSUME NEW q, NEW T, NEW G, NEW g, CodeOK(q, T, G, g), NEW u \in DOMAIN q.ins, NEW m, NEW x \in DOMAIN m,
         LoadsFrom(q, T, G, g, u, x), Fits(q, T, m[x], {G[x]}), NEW b, NEW h, IsLoaded(g, u, b, m, h)
  PROVE  /\ CodeOK(q, T, G, h)
         /\ \E S : IsUsersOf(g, u, S) /\ AllIn(S, b) /\ IsWritten(g, S, m[x], h)
<1> PICK v : v = m[x]
  OBVIOUS
<1>1. Fits(q, T, v, {T[u]})
  BY DEF LoadsFrom
<1> PICK S : S = UsersIn(g, u, b)
  OBVIOUS
<1>2. S \in SUBSET UseList(g, u)
  BY DEF UsersIn
<1>3. AllIn(S, b)
  BY UsersInside, Zenon DEF AllIn
<1>4. h = SetOperands(g, S, v)
  BY DEF IsLoaded, LoadsFrom
<1>5. CodeOK(q, T, G, h)
  BY <1>1, <1>2, <1>4, SetOperandsOK
<1>6. IsWritten(g, S, v, h)
  BY <1>4, SetOperandsMeaning
<1> QED
  BY <1>2, <1>3, <1>5, <1>6 DEF IsUsersOf

\* A known load is replaced in its block.
LEMMA VisitLoad ==
  ASSUME NEW q, NEW T, NEW G, NEW g, CodeOK(q, T, G, g), Placed(q),
         NEW s, NEW n \in 1 .. Len(s), Len(s) \in Nat, InOrder(g, s),
         ListIn(g, s, s[n][1]),
         NEW c, NEW W, NEW m, BlockOK(q, T, G, g, s, n, c, W, m),
         s[n] \in DOMAIN q.ins, q.ins[s[n]].op = "load",
         NEW x \in DOMAIN m, LoadsFrom(q, T, G, g, s[n], x), NEW h, IsLoaded(g, s[n], s[n][1], m, h)
  PROVE  /\ BlockOK(q, T, G, h, s, n + 1, c, Append(W, s[n]), m)
         /\ ~c => UsesForward(q, h)
         /\ CodeOK(q, T, G, h) /\ h.list = g.list
         /\ OthersStay(q, g, h, s[n][1])
<1>1. Fits(q, T, m[x], {G[x]}) /\ W \in Seq(DOMAIN q.ins)
  BY DEF BlockOK
<1>2. /\ CodeOK(q, T, G, h)
      /\ \E S : IsUsersOf(g, s[n], S) /\ AllIn(S, s[n][1]) /\ IsWritten(g, S, m[x], h)
  BY <1>1, LoadedMeaning
<1>3. PICK S : IsUsersOf(g, s[n], S) /\ AllIn(S, s[n][1]) /\ IsWritten(g, S, m[x], h)
  BY <1>2
<1>4. h.list = g.list
  BY <1>3 DEF IsWritten
<1>5. OthersStay(q, g, h, s[n][1])
  BY <1>3, OthersFolded DEF OthersStay
<1>6. IsAppended(DOMAIN q.ins, W, s[n], Append(W, s[n]))
  BY <1>1, AppendedSet
<1>7. BlockOK(q, T, G, h, s, n + 1, c, Append(W, s[n]), m) /\ (~c => UsesForward(q, h))
  BY <1>3, <1>6, OneMoreLoad
<1> QED
  BY <1>2, <1>4, <1>5, <1>7

\* Replacing a load whose global is known keeps the invariant: it happens before the
\* block has been folded, while the uses in the block still come after the load.
LEMMA LoadOK ==
  ASSUME NEW q, NEW T, NEW G, PassOK(q, T, G), Load
  PROVE  PassOK(q, T, G)'
<1>1. pc = "instr" /\ ip <= Len(f.list[bbs]) /\ instr.op = "load" /\ Known(instr.args[1][2])
  BY DEF Load, Visiting
<1>2. Replace(UsersIn(f, id, bbs), globalConstVar[instr.args[1][2]])
  BY DEF Load, UsersIn
<1>3. loops' = loops /\ at' = at /\ deleteBlockSet' = deleteBlockSet
  BY DEF Load, OtherThanInstrs
<1>4. globalConstVar' = globalConstVar /\ changed' = changed
  BY DEF Load
<1>5. CASE ~InRange(f, UsersIn(f, id, bbs))
  <2>1. pc' \notin Rounds
    BY <1>2, <1>5 DEF Replace, Rounds
  <2> QED BY <1>3, <2>1, Stops
<1>6. CASE InRange(f, UsersIn(f, id, bbs))
  <2> PICK s, u, n, c, W, m : s = f.list[bbs] /\ u = id /\ n = ip /\ c = changed /\ W = wait_delete
                              /\ m = globalConstVar
    OBVIOUS
  <2>1. /\ CodeOK(q, T, G, f) /\ WellTyped(q, T, G) /\ Placed(q)
        /\ Len(s) \in Nat /\ n \in 1 .. Len(s) /\ InOrder(f, s) /\ ListIn(f, s, s[n][1])
        /\ s[n] \in DOMAIN q.ins /\ q.ins[s[n]].op = "load" /\ BlockOK(q, T, G, f, s, n, c, W, m)
    BY <1>1, VisitBegins
  <2>2. u = s[n] /\ instr = f.ins[s[n]] /\ s[n][1] = bbs
    BY <1>1, VisitBegins
  <2>3. PICK x : x = f.ins[s[n]].args[1][2]
    OBVIOUS
  <2>4. x \in DOMAIN m /\ LoadsFrom(q, T, G, f, s[n], x)
    <3>1. x \in DOMAIN m
      BY <1>1, <2>2, <2>3 DEF Known
    <3>2. LoadsFrom(q, T, G, f, s[n], x)
      BY <2>1, <2>3, LoadKeeps, Zenon
    <3> QED BY <3>1, <3>2
  <2>5. wait_delete' = Append(W, s[n]) /\ ip' = ip + 1 /\ pc' = "instr"
    BY <1>1, <1>2, <1>6, <2>2, Zenon DEF Replace, NextInstr
  <2>6. IsLoaded(f, s[n], s[n][1], m, f')
    <3>1. f' = SetOperands(f, UsersIn(f, id, bbs), globalConstVar[instr.args[1][2]])
      BY <1>2, <1>6 DEF Replace
    <3> QED BY <2>2, <3>1, Zenon DEF IsLoaded
  <2>7. /\ BlockOK(q, T, G, f', s, n + 1, c, Append(W, s[n]), m)
        /\ (~c => UsesForward(q, f')) /\ CodeOK(q, T, G, f') /\ f'.list = f.list
        /\ OthersStay(q, f, f', s[n][1])
    BY <2>1, <2>4, <2>6, VisitLoad
  <2>8. BlockOK(q, T, G, f', f.list[bbs], ip + 1, changed', wait_delete', globalConstVar')
    BY <1>4, <2>5, <2>7
  <2>9. CodeOK(q, T, G, f') /\ f'.list = f.list /\ (~changed' => UsesForward(q, f')) /\ (changed => changed')
    BY <1>4, <2>7
  <2>10. ASSUME NEW k \in 1 .. at - 1, Kept(q, deleteBlockSet, k), Folded(f, q.bbs[k])
         PROVE  Folded(f', q.bbs[k])
    <3>1. /\ q.bbs \in Seq(Block) /\ IsInjective(q.bbs) /\ bbs = q.bbs[at] /\ Kept(q, deleteBlockSet, at)
      BY <1>1, Visited DEF FunctionOK
    <3>2. at \in 1 .. Len(q.bbs) /\ k \in 1 .. Len(q.bbs) /\ k # at
      BY <2>10, <3>1 DEF Kept
    <3>3. q.bbs[k] # bbs /\ q.bbs[k] \in ToSet(q.bbs)
      BY <3>1, <3>2 DEF IsInjective, ToSet
    <3>4. OthersStay(q, f, f', bbs)
      BY <2>2, <2>7
    <3> QED BY <2>10, <3>3, <3>4 DEF OthersStay
  <2>11. ~changed' => \A k \in 1 .. at - 1 :
           Kept(q, deleteBlockSet, k) /\ Folded(f, q.bbs[k]) => Folded(f', q.bbs[k])
    BY <2>10
  <2> QED BY <1>1, <1>3, <2>5, <2>8, <2>9, <2>11, VisitGoesOn
<1> QED
  BY <1>5, <1>6

-----------------------------------------------------------------------------
(* The start of a block and of a round.                                    *)

\* The block the round comes to.
LEMMA AtBlockIs ==
  ASSUME NEW q, NEW T, NEW G, PassOK(q, T, G), AtBlock
  PROVE  /\ FunctionOK(q, T, G, loops) /\ RoundsOK(q, T, G, f, at, changed, deleteBlockSet)
         /\ CodeOK(q, T, G, f) /\ q.bbs \in Seq(Block) /\ at \in 1 .. Len(q.bbs) /\ Len(q.bbs) \in Nat
         /\ bbs = q.bbs[at] /\ bbs \in Block /\ bbs \in ToSet(q.bbs)
<1>1. pc = "block" /\ at <= Len(f.bbs)
  BY DEF AtBlock
<1>2. FunctionOK(q, T, G, loops) /\ RoundsOK(q, T, G, f, at, changed, deleteBlockSet)
  BY <1>1 DEF PassOK, Rounds
<1>3. CodeOK(q, T, G, f) /\ f.bbs = q.bbs /\ q.bbs \in Seq(Block) /\ at \in 1 .. Len(q.bbs) + 1
  BY <1>2 DEF RoundsOK, CodeOK, FunctionOK
<1>4. at \in 1 .. Len(q.bbs) /\ Len(q.bbs) \in Nat
  BY <1>1, <1>3
<1>5. q.bbs[at] \in Block /\ q.bbs[at] \in ToSet(q.bbs)
  BY <1>3, <1>4 DEF ToSet
<1> QED
  BY <1>2, <1>3, <1>4, <1>5 DEF bbs

\* The round goes on to the next block.
LEMMA RoundsGoOn ==
  ASSUME NEW q, NEW T, NEW G, NEW g, NEW n, NEW c, NEW D, RoundsOK(q, T, G, g, n, c, D),
         n \in 1 .. Len(q.bbs), Len(q.bbs) \in Nat,
         NEW h, NEW c2, NEW D2, CodeOK(q, T, G, h), D \subseteq D2, c => c2,
         ~c2 => LeavesFolded(q, g, h, n, D2), ~c2 /\ Kept(q, D2, n) => Folded(h, q.bbs[n]),
         UsesForward(q, g) => UsesForward(q, h), LeavesLists(q, g, h, n, D2),
         Kept(q, D2, n) => NoKnownLoad(q, h.list[q.bbs[n]])
  PROVE  RoundsOK(q, T, G, h, n + 1, c2, D2)
<1>1. n \in Nat /\ n + 1 \in 1 .. Len(q.bbs) + 1 /\ RoundOK(q, g, n, c, D) /\ LoadsOK(q, g, n, c, D)
  BY DEF RoundsOK
<1>2. RoundOK(q, h, n + 1, c2, D2)
  BY <1>1, RoundGoesOn
<1>3. LoadsOK(q, h, n + 1, c2, D2)
  BY <1>1, LoadsGoOn
<1> QED
  BY <1>1, <1>2, <1>3 DEF RoundsOK

\* Edges go, and perhaps the block of place n.
LEMMA EdgesGo ==
  ASSUME NEW q, NEW T, NEW G, NEW g, NEW n, NEW c, NEW D, RoundsOK(q, T, G, g, n, c, D),
         n \in 1 .. Len(q.bbs), Len(q.bbs) \in Nat,
         NEW h, NEW c2, NEW D2, SameCode(g, h), D \subseteq D2, c => c2, q.bbs[n] \in D2
  PROVE  RoundsOK(q, T, G, h, n + 1, c2, D2)
<1>1. CodeOK(q, T, G, h)
  BY CodeOfSame DEF RoundsOK
<1>2. h.list = g.list /\ h.ins = g.ins /\ h.uses = g.uses
  BY DEF SameCode
<1>3. ~Kept(q, D2, n)
  BY DEF Kept
<1>4. LeavesFolded(q, g, h, n, D2) /\ LeavesLists(q, g, h, n, D2)
  BY <1>2 DEF LeavesFolded, LeavesLists, Folded
<1>5. UsesForward(q, g) => UsesForward(q, h)
  BY <1>2 DEF UsesForward
<1>6. /\ ~c2 => LeavesFolded(q, g, h, n, D2)
      /\ ~c2 /\ Kept(q, D2, n) => Folded(h, q.bbs[n])
      /\ Kept(q, D2, n) => NoKnownLoad(q, h.list[q.bbs[n]])
  BY <1>3, <1>4
<1> QED
  BY <1>1, <1>4, <1>5, <1>6, RoundsGoOn

\* Skipping a deleted block keeps the invariant.
LEMMA SkipDeletedOK ==
  ASSUME NEW q, NEW T, NEW G, PassOK(q, T, G), SkipDeleted
  PROVE  PassOK(q, T, G)'
<1>1. /\ AtBlock /\ bbs \in deleteBlockSet /\ at' = at + 1 /\ pc' = "block" /\ f' = f /\ loops' = loops
      /\ deleteBlockSet' = deleteBlockSet /\ changed' = changed
  BY DEF SkipDeleted, NextBB, OtherThanBlocks, AtBlock
<1>2. /\ FunctionOK(q, T, G, loops) /\ RoundsOK(q, T, G, f, at, changed, deleteBlockSet)
      /\ at \in 1 .. Len(q.bbs) /\ Len(q.bbs) \in Nat /\ q.bbs[at] \in deleteBlockSet
  BY <1>1, AtBlockIs
<1>3. SameCode(f, f)
  BY DEF SameCode
<1>4. RoundsOK(q, T, G, f, at + 1, changed, deleteBlockSet)
  BY <1>2, <1>3, EdgesGo
<1> QED
  BY <1>1, <1>2, <1>4 DEF PassOK

\* The header of a block is one of the loops the block is in.
LEMMA HeaderIs ==
  ASSUME NEW b \in Block, HasInnermost(loops), Header(b) = b
  PROVE  b \in loops[b]
<1> DEFINE around == {h \in DOMAIN loops : b \in loops[h]}
<1>1. around # {}
  BY BlockAssumption DEF Header, InnermostHeader
<1>2. \E h \in around : \A k \in around : loops[h] \subseteq loops[k]
  BY <1>1 DEF HasInnermost
<1>3. Header(b) = CHOOSE h \in around : \A k \in around : loops[h] \subseteq loops[k]
  BY <1>1 DEF Header, InnermostHeader
<1>4. Header(b) \in around
  BY <1>2, <1>3
<1> QED
  BY <1>4

\* Deleting a loop keeps the invariant: less is kept and no code changes.
LEMMA DeleteLoopOK ==
  ASSUME NEW q, NEW T, NEW G, PassOK(q, T, G), DeleteLoop
  PROVE  PassOK(q, T, G)'
<1>1. /\ AtBlock /\ at' = at + 1 /\ pc' = "block" /\ f' = CutSuccessorsOf(f, loops[bbs]) /\ loops' = loops
      /\ deleteBlockSet' = deleteBlockSet \cup loops[bbs] /\ changed' = changed /\ Header(bbs) = bbs
  BY DEF DeleteLoop, NextBB, OtherThanBlocks, AtBlock, LoopIsDead
<1>2. /\ FunctionOK(q, T, G, loops) /\ RoundsOK(q, T, G, f, at, changed, deleteBlockSet)
      /\ at \in 1 .. Len(q.bbs) /\ Len(q.bbs) \in Nat /\ bbs = q.bbs[at] /\ bbs \in Block
  BY <1>1, AtBlockIs
<1>3. bbs \in loops[bbs]
  BY <1>1, <1>2, HeaderIs DEF FunctionOK
<1>4. IsFunction(q, f)
  BY <1>2 DEF RoundsOK, CodeOK, IsFunction
<1>5. SameCode(f, f')
  BY <1>1, <1>4, EdgesOnly
<1>6. q.bbs[at] \in deleteBlockSet' /\ deleteBlockSet \subseteq deleteBlockSet' /\ (changed => changed')
  BY <1>1, <1>2, <1>3
<1>7. RoundsOK(q, T, G, f', at + 1, changed', deleteBlockSet')
  BY <1>2, <1>5, <1>6, EdgesGo
<1> QED
  BY <1>1, <1>2, <1>7 DEF PassOK

\* Deleting a block without predecessors keeps the invariant.
LEMMA DeletePredlessOK ==
  ASSUME NEW q, NEW T, NEW G, PassOK(q, T, G), DeletePredless
  PROVE  PassOK(q, T, G)'
<1>1. /\ AtBlock /\ at' = at + 1 /\ pc' = "block" /\ f' = CutSuccessors(f, bbs) /\ loops' = loops
      /\ deleteBlockSet' = deleteBlockSet \cup {bbs} /\ changed' = TRUE
  BY DEF DeletePredless, NextBB, OtherThanBlocks, AtBlock
<1>2. /\ FunctionOK(q, T, G, loops) /\ RoundsOK(q, T, G, f, at, changed, deleteBlockSet)
      /\ at \in 1 .. Len(q.bbs) /\ Len(q.bbs) \in Nat /\ bbs = q.bbs[at] /\ bbs \in Block
  BY <1>1, AtBlockIs
<1>3. IsFunction(q, f)
  BY <1>2 DEF RoundsOK, CodeOK, IsFunction
<1>4. SameCode(f, f')
  BY <1>1, <1>3, EdgesOnly DEF CutSuccessors
<1>5. q.bbs[at] \in deleteBlockSet' /\ deleteBlockSet \subseteq deleteBlockSet'
  BY <1>1, <1>2
<1>6. RoundsOK(q, T, G, f', at + 1, changed', deleteBlockSet')
  BY <1>1, <1>2, <1>4, <1>5, EdgesGo
<1> QED
  BY <1>1, <1>2, <1>6 DEF PassOK

\* Nothing of the block was visited.
LEMMA BlockStarts ==
  ASSUME NEW q, NEW T, NEW G, NEW g, NEW s, Len(s) \in Nat, NEW c,
         NoKnownLoad(q, s) \/ c \/ UsesForward(q, g)
  PROVE  BlockOK(q, T, G, g, s, 1, c, << >>, << >>)
<1>1. 1 \in 1 .. Len(s) + 1 /\ 1 - 1 = 0 /\ 1 .. 0 = {}
  OBVIOUS
<1>2. << >> \in Seq(DOMAIN q.ins) /\ ToSet(<< >>) = {} /\ DOMAIN << >> = {}
  BY DEF ToSet
<1>3. Stored(q, g, s, 0) = {}
  BY <1>1 DEF Stored
<1> QED
  BY <1>1, <1>2, <1>3 DEF BlockOK

\* A block that is entered starts with nothing visited.
LEMMA EnterBlockOK ==
  ASSUME NEW q, NEW T, NEW G, PassOK(q, T, G), EnterBlock
  PROVE  PassOK(q, T, G)'
<1>1. /\ AtBlock /\ bbs \notin deleteBlockSet /\ wait_delete' = << >> /\ globalConstVar' = << >>
      /\ pc' = "instr" /\ ip' = 1 /\ f' = f /\ loops' = loops /\ at' = at /\ deleteBlockSet' = deleteBlockSet
      /\ changed' = changed
  BY DEF EnterBlock
<1>2. /\ FunctionOK(q, T, G, loops) /\ RoundsOK(q, T, G, f, at, changed, deleteBlockSet)
      /\ at \in 1 .. Len(q.bbs) /\ Len(q.bbs) \in Nat /\ bbs = q.bbs[at] /\ bbs \in Block
      /\ CodeOK(q, T, G, f)
  BY <1>1, AtBlockIs
<1>3. Kept(q, deleteBlockSet, at)
  BY <1>1, <1>2 DEF Kept
<1>4. NoKnownLoad(q, f.list[bbs]) \/ changed \/ UsesForward(q, f)
  BY <1>2, <1>3 DEF RoundsOK, LoadsOK
<1>5. Len(f.list[bbs]) \in Nat
  BY <1>2 DEF CodeOK
<1>6. BlockOK(q, T, G, f, f.list[bbs], 1, changed, << >>, << >>)
  BY <1>4, <1>5, BlockStarts
<1>7. VisitOK(q, T, G, f, at, 1, changed, deleteBlockSet, << >>, << >>)
  BY <1>2, <1>3, <1>6 DEF VisitOK
<1> QED
  BY <1>1, <1>2, <1>7 DEF PassOK

\* A round after one that changed something starts with nothing seen; the loads are
\* accounted for by the round before.
LEMMA NextRoundOK ==
  ASSUME NEW q, NEW T, NEW G, PassOK(q, T, G), NextRound
  PROVE  PassOK(q, T, G)'
<1>1. /\ pc = "block" /\ at > Len(f.bbs) /\ at' = 1 /\ changed' = FALSE /\ f' = f /\ pc' = pc /\ loops' = loops
      /\ deleteBlockSet' = deleteBlockSet
  BY DEF NextRound, EndOfRound, OtherThanBlocks
<1>2. FunctionOK(q, T, G, loops) /\ RoundsOK(q, T, G, f, at, changed, deleteBlockSet)
  BY <1>1 DEF PassOK, Rounds
<1>3. /\ CodeOK(q, T, G, f) /\ f.bbs = q.bbs /\ Len(q.bbs) \in Nat /\ at \in 1 .. Len(q.bbs) + 1
      /\ LoadsOK(q, f, at, changed, deleteBlockSet)
  BY <1>2 DEF RoundsOK, CodeOK, FunctionOK
<1>4. \A k \in 1 .. Len(q.bbs) : ~(k >= at)
  BY <1>1, <1>3
<1>5. LoadsOK(q, f, 1, FALSE, deleteBlockSet)
  BY <1>3, <1>4 DEF LoadsOK
<1>6. RoundOK(q, f, 1, FALSE, deleteBlockSet)
  BY DEF RoundOK
<1>7. RoundsOK(q, T, G, f, 1, FALSE, deleteBlockSet)
  <2>1. 1 \in 1 .. Len(q.bbs) + 1
    BY <1>3
  <2> QED BY <1>3, <1>5, <1>6, <2>1 DEF RoundsOK
<1> QED
  BY <1>1, <1>2, <1>7 DEF PassOK

-----------------------------------------------------------------------------
(* The end of a block.                                                     *)

\* h is g without what was to go from the block at place n.
SweptOK(q, T, G, g, h, n, c, D) ==
  /\ CodeOK(q, T, G, h)
  /\ NoKnownLoad(q, h.list[q.bbs[n]])
  /\ ~c => AllVary(h, q.bbs[n])
  /\ UsesForward(q, g) => UsesForward(q, h)
  /\ LeavesFolded(q, g, h, n, D) /\ LeavesLists(q, g, h, n, D)

\* Another place is another block.
LEMMA OtherPlace ==
  ASSUME NEW q, q.bbs \in Seq(Block), IsInjective(q.bbs), NEW n \in 1 .. Len(q.bbs), NEW k \in 1 .. Len(q.bbs), k # n
  PROVE  q.bbs[k] \in Block \ {q.bbs[n]} /\ q.bbs[k] \in ToSet(q.bbs)
  BY DEF IsInjective, ToSet

\* What holds of the function that is swept.
LEMMA ThinnedIsSwept ==
  ASSUME NEW q, NEW T, NEW G, q.bbs \in Seq(Block), IsInjective(q.bbs), NEW g, CodeOK(q, T, G, g),
         NEW n \in 1 .. Len(q.bbs), NEW b, b = q.bbs[n],
         NEW c, NEW W, NEW m, EndOK(q, T, G, g, b, c, W, m),
         NEW D, NEW h, IsThinned(q, g, b, ToSet(W), h)
  PROVE  SweptOK(q, T, G, g, h, n, c, D)
<1>1. b \in Block /\ ToSet(q.bbs) \subseteq Block
  BY DEF ToSet
<1>2. \A u \in ToSet(W) : u \in DOMAIN q.ins /\ q.ins[u].op \notin Ends
  <2>1. W \in Seq(DOMAIN q.ins) /\ \A u \in ToSet(W) : q.ins[u].op \in Pure \cup {"load", "phi"}
    BY Zenon DEF BlockOK, EndOK
  <2>2. ToSet(W) \subseteq DOMAIN q.ins
    BY <2>1, SequenceIs
  <2>3. \A x \in Pure \cup {"load", "phi"} : x \notin Ends
    BY DEF Pure, IntOps, FloatOps, CmpOps, FCmpOps, Casts, Ends
  <2> QED BY <2>1, <2>2, <2>3, Zenon
<1>3. CodeOK(q, T, G, h)
  BY <1>1, <1>2, ThinnedOK
<1>4. /\ NoKnownLoad(q, h.list[b])
      /\ ~c => AllVary(h, b)
  BY <1>1, BlockEnds
<1>5. h.uses \subseteq g.uses /\ h.ins = g.ins /\ \A d \in Block \ {b} : h.list[d] = g.list[d]
  BY DEF IsThinned
<1>6. UsesForward(q, g) => UsesForward(q, h)
  BY <1>5, ForwardSame
<1>7. \A k \in 1 .. Len(q.bbs) : k # n => h.list[q.bbs[k]] = g.list[q.bbs[k]]
  BY <1>5, OtherPlace
<1>8. LeavesLists(q, g, h, n, D)
  BY <1>7 DEF LeavesLists
<1>9. LeavesFolded(q, g, h, n, D)
  <2> SUFFICES ASSUME NEW k \in 1 .. n - 1, Folded(g, q.bbs[k]) PROVE Folded(h, q.bbs[k])
    BY DEF LeavesFolded
  <2>1. k \in 1 .. Len(q.bbs) /\ k # n
    OBVIOUS
  <2>2. SameBlock(g, h, q.bbs[k])
    BY <1>5, <1>7, <2>1 DEF SameBlock
  <2> QED BY <2>2, FoldedSame
<1> QED
  BY <1>3, <1>4, <1>6, <1>8, <1>9 DEF SweptOK

\* What wait_delete leaves of the block is folded, unless something has changed.
LEMMA SweptIsOK ==
  ASSUME NEW q, NEW T, NEW G, PassOK(q, T, G), AtEnd
  PROVE  /\ FunctionOK(q, T, G, loops) /\ RoundsOK(q, T, G, f, at, changed, deleteBlockSet)
         /\ at \in 1 .. Len(q.bbs) /\ Len(q.bbs) \in Nat /\ bbs = q.bbs[at]
         /\ SweptOK(q, T, G, f, Swept, at, changed, deleteBlockSet)
<1>1. /\ FunctionOK(q, T, G, loops) /\ RoundsOK(q, T, G, f, at, changed, deleteBlockSet)
      /\ VisitOK(q, T, G, f, at, ip, changed, deleteBlockSet, wait_delete, globalConstVar)
      /\ ip > Len(f.list[bbs])
  BY DEF AtEnd, PassOK, Rounds
<1>2. /\ CodeOK(q, T, G, f) /\ f.bbs = q.bbs /\ q.bbs \in Seq(Block) /\ IsInjective(q.bbs)
      /\ at \in 1 .. Len(q.bbs)
  BY <1>1 DEF RoundsOK, CodeOK, FunctionOK, VisitOK, Kept
<1>3. bbs = q.bbs[at] /\ bbs \in Block /\ Len(q.bbs) \in Nat
  BY <1>2 DEF bbs
<1>4. BlockOK(q, T, G, f, f.list[bbs], ip, changed, wait_delete, globalConstVar)
  BY <1>1, <1>3 DEF VisitOK
<1>5. ip = Len(f.list[bbs]) + 1
  <2>1. Len(f.list[bbs]) \in Nat
    BY <1>2, <1>3 DEF CodeOK
  <2>2. ip \in 1 .. Len(f.list[bbs]) + 1
    BY <1>4 DEF BlockOK
  <2> QED BY <1>1, <2>1, <2>2
<1>6. EndOK(q, T, G, f, bbs, changed, wait_delete, globalConstVar)
  BY <1>4, <1>5 DEF EndOK
<1>7. IsThinned(q, f, bbs, ToSet(wait_delete), Swept)
  <2>1. IsFunction(q, f)
    BY <1>2 DEF IsFunction, CodeOK
  <2>2. wait_delete \in Seq(DOMAIN q.ins)
    BY <1>4 DEF BlockOK
  <2>3. IsSeq(wait_delete)
    BY <2>2, SequenceIs
  <2> QED BY <1>3, <2>1, <2>3, SweptThins
<1>8. SweptOK(q, T, G, f, Swept, at, changed, deleteBlockSet)
  BY <1>2, <1>3, <1>6, <1>7, ThinnedIsSwept
<1> QED
  BY <1>1, <1>2, <1>3, <1>8

\* The branch stays.
LEMMA KeptGoesOn ==
  ASSUME NEW q, NEW T, NEW G, NEW g, NEW n, NEW c, NEW D, RoundsOK(q, T, G, g, n, c, D),
         q.bbs \in Seq(Block), n \in 1 .. Len(q.bbs), NEW h, SweptOK(q, T, G, g, h, n, c, D),
         Undecided(TerminatorOf(h, q.bbs[n]))
  PROVE  RoundsOK(q, T, G, h, n + 1, c, D)
<1>1. /\ CodeOK(q, T, G, h)
      /\ NoKnownLoad(q, h.list[q.bbs[n]])
      /\ ~c => AllVary(h, q.bbs[n])
      /\ UsesForward(q, g) => UsesForward(q, h)
      /\ LeavesFolded(q, g, h, n, D) /\ LeavesLists(q, g, h, n, D)
  BY DEF SweptOK
<1>2. ~c => Folded(h, q.bbs[n])
  <2>1. q.bbs[n] \in Block /\ q.bbs[n] \in ToSet(q.bbs)
    BY DEF ToSet
  <2>2. ListOK(h, q.bbs[n]) /\ h.list[q.bbs[n]] \in Seq(InstrId(q))
    BY <1>1, <2>1 DEF CodeOK
  <2> QED BY <1>1, <2>2, FoldedAtEnd
<1>3. Len(q.bbs) \in Nat /\ D \subseteq D /\ (c => c) /\ (~c => LeavesFolded(q, g, h, n, D)) /\ (~c /\ Kept(q, D, n) => Folded(h, q.bbs[n]))
  BY <1>1, <1>2
<1> QED
  BY <1>1, <1>3, RoundsGoOn

\* Leaving a block whose branch stays keeps the invariant.
LEMMA KeepBranchOK ==
  ASSUME NEW q, NEW T, NEW G, PassOK(q, T, G), KeepBranch
  PROVE  PassOK(q, T, G)'
<1>1. /\ AtEnd /\ ~Branches(Swept) /\ f' = Swept /\ pc' = "block" /\ at' = at + 1 /\ changed' = changed
      /\ deleteBlockSet' = deleteBlockSet /\ loops' = loops
  BY DEF KeepBranch, EndBlock, OtherThanBlocks
<1>2. /\ FunctionOK(q, T, G, loops) /\ RoundsOK(q, T, G, f, at, changed, deleteBlockSet)
      /\ at \in 1 .. Len(q.bbs) /\ bbs = q.bbs[at] /\ q.bbs \in Seq(Block)
      /\ SweptOK(q, T, G, f, Swept, at, changed, deleteBlockSet)
  BY <1>1, SweptIsOK DEF FunctionOK
<1>3. Undecided(TerminatorOf(Swept, q.bbs[at]))
  BY <1>1, <1>2 DEF Branches, Undecided
<1>4. RoundsOK(q, T, G, Swept, at + 1, changed, deleteBlockSet)
  BY <1>2, <1>3, KeptGoesOn
<1> QED
  BY <1>1, <1>2, <1>4 DEF PassOK

\* The branch is folded.
LEMMA RedirectedGoesOn ==
  ASSUME NEW q, NEW T, NEW G, NEW g, NEW n, NEW c, NEW D, RoundsOK(q, T, G, g, n, c, D),
         q.bbs \in Seq(Block), IsInjective(q.bbs), n \in 1 .. Len(q.bbs),
         \A u \in DOMAIN q.ins : u[2] \in Nat \ {0},
         NEW e, SweptOK(q, T, G, g, e, n, c, D), Len(TerminatorOf(e, q.bbs[n]).args) = 3,
         NEW h, IsRedirected(q, e, q.bbs[n], h), NEW D2, D \subseteq D2
  PROVE  RoundsOK(q, T, G, h, n + 1, c, D2)
<1> PICK b : b = q.bbs[n]
  OBVIOUS
<1>1. b \in Block /\ b \in ToSet(q.bbs) /\ ToSet(q.bbs) \subseteq Block
  BY DEF ToSet
<1>2. /\ CodeOK(q, T, G, e)
      /\ NoKnownLoad(q, e.list[b])
      /\ ~c => AllVary(e, b)
      /\ UsesForward(q, g) => UsesForward(q, e)
      /\ LeavesFolded(q, g, e, n, D) /\ LeavesLists(q, g, e, n, D)
  BY DEF SweptOK
<1>3. Len(TerminatorOf(e, b).args) = 3 /\ IsRedirected(q, e, b, h)
  OBVIOUS
<1>4. CodeOK(q, T, G, h)
  BY <1>1, <1>2, <1>3, RedirectedOK
<1>5. NoKnownLoad(q, h.list[b]) /\ (~c => Folded(h, b))
  BY <1>1, <1>2, <1>3, FoldedWhenRedirected, Zenon
<1>6. /\ h.uses \subseteq e.uses /\ \A d \in Block \ {b} : h.list[d] = e.list[d]
      /\ \A u \in DOMAIN e.ins : u # NewBranch(b) => h.ins[u] = e.ins[u]
  BY <1>3, Zenon DEF IsRedirected
<1>7. UsesForward(q, g) => UsesForward(q, h)
  <2>1. \A u \in DOMAIN q.ins : u \in DOMAIN e.ins /\ u # NewBranch(b)
    BY <1>2 DEF CodeOK, InsOK, NewBranch, IdOf
  <2>2. \A u \in DOMAIN q.ins : h.ins[u] = e.ins[u]
    BY <1>6, <2>1
  <2> QED BY <1>2, <1>6, <2>2, ForwardSame
<1>8. \A k \in 1 .. Len(q.bbs) : k # n => /\ q.bbs[k] \in ToSet(q.bbs) /\ q.bbs[k] # b
                                         /\ h.list[q.bbs[k]] = e.list[q.bbs[k]]
  BY <1>6, OtherPlace
<1>9. \A k : Kept(q, D2, k) => Kept(q, D, k)
  BY DEF Kept
<1>10. LeavesLists(q, g, h, n, D2)
  BY <1>2, <1>8, <1>9 DEF LeavesLists
<1>11. LeavesFolded(q, g, h, n, D2)
  <2> SUFFICES ASSUME NEW k \in 1 .. n - 1, Kept(q, D2, k), Folded(g, q.bbs[k]) PROVE Folded(h, q.bbs[k])
    BY DEF LeavesFolded
  <2> PICK d : d = q.bbs[k]
    OBVIOUS
  <2>1. Folded(e, d)
    BY <1>2, <1>9 DEF LeavesFolded
  <2>2. d \in ToSet(q.bbs) /\ d # b /\ h.list[d] = e.list[d]
    BY <1>8
  <2>3. \A i \in 1 .. Len(e.list[d]) : LET u == e.list[d][i]
                                       IN  h.ins[u].op = e.ins[u].op /\ h.ins[u].args = e.ins[u].args
    <3> TAKE i \in 1 .. Len(e.list[d])
    <3> PICK u : u = e.list[d][i]
      OBVIOUS
    <3>1. u \in DOMAIN e.ins /\ u[1] = d
      BY <1>2, <2>2 DEF CodeOK, ListOK
    <3>2. u # NewBranch(b)
      BY <2>2, <3>1 DEF NewBranch, IdOf
    <3>3. h.ins[u] = e.ins[u]
      BY <1>6, <3>1, <3>2, Zenon
    <3> QED BY <3>3
  <2>4. SameBlock(e, h, d)
    BY <2>2, <2>3, Zenon DEF SameBlock
  <2> QED BY <2>1, <2>4, FoldedSame
<1>12. /\ Len(q.bbs) \in Nat /\ (c => c) /\ (~c => LeavesFolded(q, g, h, n, D2)) /\ (~c /\ Kept(q, D2, n) => Folded(h, q.bbs[n]))
       /\ (Kept(q, D2, n) => NoKnownLoad(q, h.list[q.bbs[n]]))
  BY <1>5, <1>11
<1> QED
  BY <1>4, <1>7, <1>10, <1>12, RoundsGoOn

-----------------------------------------------------------------------------
(* The fold of a branch and the end of the rounds.                         *)

\* A fold of the branch, whichever way it goes.
LEMMA FoldBranchOK ==
  ASSUME NEW q, NEW T, NEW G, PassOK(q, T, G), AtEnd, Branches(Swept),
         NEW there, NEW gone, NEW dead, f' = Redirect(Swept, there, gone, dead),
         pc' = "block", at' = at + 1, changed' = changed, loops' = loops,
         deleteBlockSet \subseteq deleteBlockSet'
  PROVE  PassOK(q, T, G)'
<1>1. /\ FunctionOK(q, T, G, loops) /\ RoundsOK(q, T, G, f, at, changed, deleteBlockSet)
      /\ at \in 1 .. Len(q.bbs) /\ bbs = q.bbs[at]
      /\ SweptOK(q, T, G, f, Swept, at, changed, deleteBlockSet)
  BY SweptIsOK
<1>2. /\ q.bbs \in Seq(Block) /\ IsInjective(q.bbs)
      /\ \A u \in DOMAIN q.ins : u[2] \in Nat \ {0}
  BY <1>1 DEF FunctionOK
<1>3. Len(TerminatorOf(Swept, q.bbs[at]).args) = 3
  BY <1>1 DEF Branches
<1>4. IsRedirected(q, Swept, q.bbs[at], f')
  <2>1. IsFunction(q, Swept) /\ bbs \in Block
    BY <1>1, <1>2 DEF SweptOK, CodeOK, IsFunction
  <2>2. IsRedirected(q, Swept, bbs, Redirect(Swept, there, gone, dead))
    BY <2>1, RedirectMeaning
  <2> QED BY <1>1, <2>2
<1>5. RoundsOK(q, T, G, f', at + 1, changed, deleteBlockSet')
  BY <1>1, <1>2, <1>3, <1>4, RedirectedGoesOn
<1> QED
  BY <1>1, <1>5 DEF PassOK

\* Folding a branch to its first block keeps the invariant.
LEMMA FoldTrueOK ==
  ASSUME NEW q, NEW T, NEW G, PassOK(q, T, G), FoldTrue
  PROVE  PassOK(q, T, G)'
<1>1. /\ AtEnd /\ Branches(Swept) /\ pc' = "block" /\ at' = at + 1 /\ changed' = changed /\ loops' = loops
      /\ \E there, gone, dead : f' = Redirect(Swept, there, gone, dead)
      /\ deleteBlockSet \subseteq deleteBlockSet'
  BY Zenon DEF FoldTrue, FoldTrueWith, EndBlock, OtherThanBlocks
<1> QED
  BY <1>1, FoldBranchOK, Zenon

\* Folding a branch to its second block keeps the invariant.
LEMMA FoldFalseOK ==
  ASSUME NEW q, NEW T, NEW G, PassOK(q, T, G), FoldFalse
  PROVE  PassOK(q, T, G)'
<1>1. /\ AtEnd /\ Branches(Swept) /\ pc' = "block" /\ at' = at + 1 /\ changed' = changed /\ loops' = loops
      /\ \E there, gone, dead : f' = Redirect(Swept, there, gone, dead)
      /\ deleteBlockSet \subseteq deleteBlockSet'
  BY DEF FoldFalse, EndBlock, OtherThanBlocks
<1> QED
  BY <1>1, FoldBranchOK

\* The instruction i is not one the pass folds.
NotFoldable(i) ==
  LET args == i.args
      constant == \A a \in ToSet(args) : IsInt(a) \/ IsFP(a)
  IN  CASE i.op \in Pure -> ~constant
        [] i.op = "br"  -> Len(args) = 3 => ~IsInt(args[1])
        [] i.op = "phi" -> Len(args) > 2
        [] OTHER -> TRUE

\* An instruction of a folded block is not constant.
LEMMA FoldedMeans ==
  ASSUME NEW i, Varies(i), Undecided(i)
  PROVE  NotFoldable(i)
<1>1. CASE i.op \in Pure
  <2>1. PICK k \in DOMAIN i.args : ~IsInt(i.args[k]) /\ ~IsFP(i.args[k])
    BY <1>1 DEF Varies
  <2>2. i.args[k] \in ToSet(i.args)
    BY DEF ToSet
  <2>3. i.op # "br" /\ i.op # "phi"
    BY <1>1 DEF Pure, IntOps, FloatOps, CmpOps, FCmpOps, Casts
  <2> QED BY <1>1, <2>1, <2>2, <2>3 DEF NotFoldable
<1>2. CASE i.op = "br"
  <2>1. i.op \notin Pure
    BY <1>2 DEF Pure, IntOps, FloatOps, CmpOps, FCmpOps, Casts
  <2> QED BY <1>2, <2>1 DEF NotFoldable, Undecided
<1>3. CASE i.op = "phi"
  <2>1. i.op \notin Pure
    BY <1>3 DEF Pure, IntOps, FloatOps, CmpOps, FCmpOps, Casts
  <2> QED BY <1>3, <2>1 DEF NotFoldable, Varies
<1>4. CASE i.op \notin Pure /\ i.op # "br" /\ i.op # "phi"
  BY <1>4 DEF NotFoldable
<1> QED
  BY <1>1, <1>2, <1>3, <1>4

\* Nothing is left to fold in g.
AllFolded(g) == \A b \in ToSet(g.bbs) : \A i \in ToSet(g.list[b]) : NotFoldable(g.ins[i])

\* A round that changed nothing leaves nothing.
LEMMA NothingAfterRound ==
  ASSUME NEW q, NEW T, NEW G, NEW g, NEW n, NEW D, q.bbs \in Seq(Block), RoundsOK(q, T, G, g, n, FALSE, D),
         n > Len(q.bbs)
  PROVE  AllFolded(RemoveBlocks(g, D))
<1>1. CodeOK(q, T, G, g) /\ g.bbs = q.bbs /\ n = Len(q.bbs) + 1 /\ RoundOK(q, g, n, FALSE, D) /\ Len(q.bbs) \in Nat
  <2>1. Len(q.bbs) \in Nat
    OBVIOUS
  <2>2. CodeOK(q, T, G, g) /\ n \in 1 .. Len(q.bbs) + 1 /\ RoundOK(q, g, n, FALSE, D)
    BY DEF RoundsOK
  <2>3. g.bbs = q.bbs
    BY <2>2 DEF CodeOK
  <2>4. n = Len(q.bbs) + 1
    BY <2>1, <2>2
  <2> QED BY <2>1, <2>2, <2>3, <2>4
<1> PICK h : h = RemoveBlocks(g, D)
  OBVIOUS
<1>2. h.bbs = WithoutAll(g.bbs, D) /\ h.list = g.list /\ h.ins = g.ins
  <2>1. DOMAIN g = {"bbs", "succ", "pre", "list", "ins", "uses"}
    BY <1>1 DEF CodeOK
  <2> QED BY <2>1 DEF RemoveBlocks, CutSuccessorsOf
<1>3. FilterOf(Block, q.bbs, D, Len(q.bbs), h.bbs)
  <2>1. WithoutAll(q.bbs, D) = Filtered(q.bbs, D)
    BY DEF WithoutAll, Filtered, IsFilter
  <2> QED BY <1>1, <1>2, <2>1, FilterMeaning
<1>4. ASSUME NEW b \in ToSet(h.bbs) PROVE Folded(g, b) /\ g.list[b] \in Seq(InstrId(q))
  <2>1. h.bbs \in Seq(Block) /\ {h.bbs[i] : i \in 1 .. Len(h.bbs)} = {q.bbs[i] : i \in 1 .. Len(q.bbs)} \ D
    BY <1>3 DEF FilterOf
  <2>2. b \in {h.bbs[i] : i \in 1 .. Len(h.bbs)}
    BY <2>1 DEF ToSet
  <2>3. PICK k \in 1 .. Len(q.bbs) : b = q.bbs[k] /\ b \notin D
    BY <2>1, <2>2
  <2>4. k \in 1 .. n - 1 /\ Kept(q, D, k) /\ b \in Block
    BY <1>1, <2>3 DEF Kept
  <2>5. Folded(g, b)
    BY <1>1, <2>3, <2>4 DEF RoundOK
  <2> QED BY <1>1, <2>4, <2>5 DEF CodeOK
<1>5. ASSUME NEW b \in ToSet(h.bbs), NEW i \in ToSet(h.list[b]) PROVE NotFoldable(h.ins[i])
  <2>1. Folded(g, b) /\ g.list[b] \in Seq(InstrId(q)) /\ i \in ToSet(g.list[b])
    BY <1>2, <1>4
  <2>2. PICK k \in 1 .. Len(g.list[b]) : i = g.list[b][k]
    BY <2>1 DEF ToSet
  <2>3. Varies(g.ins[i]) /\ Undecided(g.ins[i])
    BY <2>1, <2>2 DEF Folded
  <2> QED BY <1>2, <2>3, FoldedMeans
<1> QED
  BY <1>5 DEF AllFolded

\* When the rounds end, nothing constant is left in the blocks that stay.
LEMMA RemoveDeletedOK ==
  ASSUME NEW q, NEW T, NEW G, PassOK(q, T, G), RemoveDeleted
  PROVE  PassOK(q, T, G)' /\ NothingLeftToFold'
<1>1. /\ pc = "block" /\ at > Len(f.bbs) /\ ~changed /\ f' = RemoveBlocks(f, deleteBlockSet)
      /\ pc' = "run" /\ loops' = loops
  BY DEF RemoveDeleted, EndOfRound
<1>2. PassOK(q, T, G)'
  BY <1>1, Stops DEF Rounds
<1>3. FunctionOK(q, T, G, loops) /\ RoundsOK(q, T, G, f, at, changed, deleteBlockSet)
  BY <1>1 DEF PassOK, Rounds
<1>4. RoundsOK(q, T, G, f, at, FALSE, deleteBlockSet)
  BY <1>1, <1>3 DEF RoundsOK, RoundOK, LoadsOK
<1>5. q.bbs \in Seq(Block) /\ at > Len(q.bbs)
  BY <1>1, <1>3 DEF FunctionOK, RoundsOK, CodeOK
<1>6. AllFolded(f')
  BY <1>1, <1>4, <1>5, NothingAfterRound
<1>7. NothingLeftToFold'
  BY <1>6 DEF NothingLeftToFold, AllFolded, NotFoldable
<1> QED
  BY <1>2, <1>7

-----------------------------------------------------------------------------
(* The start of the pass.                                                  *)

\* What a function is built of.
IsBuilt(bs, code, q) ==
  /\ DOMAIN q = {"bbs", "succ", "pre", "list", "ins", "uses"} /\ q.bbs = bs
  /\ q.list = [b \in Block |-> [k \in DOMAIN code[b] |-> IdOf(b, k)]]
  /\ DOMAIN q.ins = UNION {{IdOf(b, k) : k \in DOMAIN code[b]} : b \in Block}
  /\ \A u \in DOMAIN q.ins : q.ins[u] = [op |-> code[u[1]][u[2]].op, args |-> code[u[1]][u[2]].args, parent |-> u[1]]
  /\ q.uses = UNION {UsesOf(u, q.ins[u].args) : u \in DOMAIN q.ins}

\* Built is what IsBuilt says.
LEMMA BuiltIs ==
  ASSUME NEW bs, NEW code, NEW q, q = Built(bs, code)
  PROVE  IsBuilt(bs, code, q)
<1>1. DOMAIN q = {"bbs", "succ", "pre", "list", "ins", "uses"}
  BY DEF Built
<1>2. q.bbs = bs
  BY DEF Built
<1>3. q.list = [b \in Block |-> [k \in DOMAIN code[b] |-> IdOf(b, k)]]
  BY DEF Built
<1>4. q.ins = [u \in UNION {{IdOf(b, k) : k \in DOMAIN code[b]} : b \in Block} |->
                 [op |-> code[u[1]][u[2]].op, args |-> code[u[1]][u[2]].args, parent |-> u[1]]]
  BY Zenon DEF Built
<1>5. q.uses = UNION {UsesOf(u, q.ins[u].args) : u \in DOMAIN q.ins}
  BY <1>4 DEF Built
<1> QED
  BY <1>1, <1>2, <1>3, <1>4, <1>5 DEF IsBuilt

\* The parts of a function that is built.
BuiltOK(p, q) ==
  /\ DOMAIN q = {"bbs", "succ", "pre", "list", "ins", "uses"} /\ q.bbs = p.bbs
  /\ q.list \in [Block -> Seq(DOMAIN q.ins)]
  /\ \A b \in Block : Len(q.list[b]) = Len(p.code[b]) /\ \A k \in 1 .. Len(p.code[b]) : q.list[b][k] = IdOf(b, k)
  /\ \A u \in DOMAIN q.ins :
       /\ u[1] \in Block /\ u[2] \in 1 .. Len(p.code[u[1]]) /\ u = IdOf(u[1], u[2])
       /\ DOMAIN q.ins[u] = {"op", "args", "parent"} /\ q.ins[u].parent = u[1]
       /\ q.ins[u].op = p.code[u[1]][u[2]].op /\ IsSeq(q.ins[u].args)
  /\ \A b \in Block : \A k \in 1 .. Len(p.code[b]) : IdOf(b, k) \in DOMAIN q.ins
  /\ \A x \in q.uses : \E u \in DOMAIN q.ins : \E i \in DOMAIN q.ins[u].args :
       q.ins[u].args[i][1] = "op" /\ x[1] = q.ins[u].args[i][2] /\ x[2] = u /\ x[3] = i - 1

\* What a function is when it is built of blocks that have code.
LEMMA BuiltIsOK ==
  ASSUME NEW p, HasCode(p), NEW q, IsBuilt(p.bbs, p.code, q)
  PROVE  BuiltOK(p, q)
<1>1. /\ DOMAIN q = {"bbs", "succ", "pre", "list", "ins", "uses"} /\ q.bbs = p.bbs
      /\ q.list = [b \in Block |-> [k \in DOMAIN p.code[b] |-> IdOf(b, k)]]
      /\ DOMAIN q.ins = UNION {{IdOf(b, k) : k \in DOMAIN p.code[b]} : b \in Block}
      /\ \A u \in DOMAIN q.ins :
           q.ins[u] = [op |-> p.code[u[1]][u[2]].op, args |-> p.code[u[1]][u[2]].args, parent |-> u[1]]
      /\ q.uses = UNION {UsesOf(u, q.ins[u].args) : u \in DOMAIN q.ins}
  BY DEF IsBuilt
<1>2. \A b \in Block : /\ IsSeq(p.code[b]) /\ Len(p.code[b]) \in Nat /\ DOMAIN p.code[b] = 1 .. Len(p.code[b])
                      /\ \A k \in DOMAIN p.code[b] : IsSeq(p.code[b][k].args)
  BY DEF HasCode, IsSeq
<1>3. \A b \in Block : \A k \in 1 .. Len(p.code[b]) : IdOf(b, k) \in DOMAIN q.ins
  BY <1>1, <1>2
<1>4. ASSUME NEW b \in Block
      PROVE  /\ q.list[b] \in Seq(DOMAIN q.ins) /\ Len(q.list[b]) = Len(p.code[b])
             /\ \A k \in 1 .. Len(p.code[b]) : q.list[b][k] = IdOf(b, k)
  <2> PICK n : n = Len(p.code[b])
    OBVIOUS
  <2>1. n \in Nat /\ q.list[b] = [k \in 1 .. n |-> IdOf(b, k)]
    BY <1>1, <1>2
  <2>2. \A k \in 1 .. n : IdOf(b, k) \in DOMAIN q.ins
    BY <1>3
  <2> QED BY <2>1, <2>2
<1>5. q.list \in [Block -> Seq(DOMAIN q.ins)]
  BY <1>1, <1>4
<1>6. ASSUME NEW u \in DOMAIN q.ins
      PROVE  /\ u[1] \in Block /\ u[2] \in 1 .. Len(p.code[u[1]]) /\ u = IdOf(u[1], u[2])
             /\ DOMAIN q.ins[u] = {"op", "args", "parent"} /\ q.ins[u].parent = u[1]
             /\ q.ins[u].op = p.code[u[1]][u[2]].op /\ IsSeq(q.ins[u].args)
  <2> PICK b \in Block : \E k \in DOMAIN p.code[b] : u = IdOf(b, k)
    BY <1>1
  <2>1. PICK k \in DOMAIN p.code[b] : u = IdOf(b, k)
    OBVIOUS
  <2>2. u[1] = b /\ u[2] = k
    BY <2>1 DEF IdOf
  <2>3. q.ins[u] = [op |-> p.code[b][k].op, args |-> p.code[b][k].args, parent |-> b]
    BY <1>1, <2>2
  <2>4. IsSeq(p.code[b][k].args) /\ k \in 1 .. Len(p.code[b])
    BY <1>2
  <2> QED BY <2>1, <2>2, <2>3, <2>4
<1>7. \A x \in q.uses : \E u \in DOMAIN q.ins : \E i \in DOMAIN q.ins[u].args :
         q.ins[u].args[i][1] = "op" /\ x[1] = q.ins[u].args[i][2] /\ x[2] = u /\ x[3] = i - 1
  <2> TAKE x \in q.uses
  <2>1. PICK u \in DOMAIN q.ins : x \in UsesOf(u, q.ins[u].args)
    BY <1>1
  <2>2. PICK i \in DOMAIN q.ins[u].args : q.ins[u].args[i][1] = "op" /\ x = <<q.ins[u].args[i][2], u, i - 1>>
    BY <2>1 DEF UsesOf
  <2> QED BY <2>2
<1> QED
  BY <1>1, <1>3, <1>4, <1>5, <1>6, <1>7 DEF BuiltOK

\* Operands are what they are built with.
LEMMA BuiltOperands ==
  ASSUME NEW p, NEW q, BuiltOK(p, q), NEW T, NEW G, WellTyped(q, T, G), NEW u \in DOMAIN q.ins
  PROVE  OperandsOK(q, T, G, q, u)
<1>1. /\ Len(q.ins[u].args) >= Arity(q.ins[u].op)
      /\ q.ins[u].op = "phi" => Len(q.ins[u].args) % 2 = 0
      /\ \A k \in DOMAIN q.ins[u].args :
             IF Wants(q, T, G, u, k) = {} THEN q.ins[u].args[k][1] # "op"
             ELSE Fits(q, T, q.ins[u].args[k], Wants(q, T, G, u, k))
  BY DEF WellTyped
<1>2. CASE q.ins[u].op = "phi"
  <2>1. Arity(q.ins[u].op) = 2
    BY <1>2 DEF Arity
  <2>2. ASSUME NEW k \in DOMAIN q.ins[u].args, k % 2 = 1 PROVE Fits(q, T, q.ins[u].args[k], {T[u]})
    <3>1. Wants(q, T, G, u, k) = {T[u]}
      BY <1>2, <2>2 DEF Wants, TakesInt, TakesFP, IntOps, CmpOps, FloatOps, FCmpOps
    <3> QED BY <1>1, <3>1
  <2> QED BY <1>1, <1>2, <2>1, <2>2 DEF OperandsOK
<1>3. CASE q.ins[u].op # "phi"
  BY <1>1, <1>3 DEF OperandsOK
<1> QED
  BY <1>2, <1>3

\* A use that is built has the type that is wanted.
LEMMA BuiltUses ==
  ASSUME NEW p, NEW q, BuiltOK(p, q), NEW T, NEW G, WellTyped(q, T, G)
  PROVE  UsesOK(q, T, G, q)
<1> SUFFICES ASSUME NEW x \in q.uses
             PROVE  /\ x[1] \in DOMAIN q.ins /\ x[2] \in DOMAIN q.ins /\ x[3] \in Nat
                    /\ T[x[1]] \in Wants(q, T, G, x[2], x[3] + 1)
  BY DEF UsesOK
<1>1. PICK u \in DOMAIN q.ins : \E i \in DOMAIN q.ins[u].args :
         q.ins[u].args[i][1] = "op" /\ x[1] = q.ins[u].args[i][2] /\ x[2] = u /\ x[3] = i - 1
  BY DEF BuiltOK
<1>2. PICK i \in DOMAIN q.ins[u].args :
         q.ins[u].args[i][1] = "op" /\ x[1] = q.ins[u].args[i][2] /\ x[2] = u /\ x[3] = i - 1
  BY <1>1
<1>3. i \in Nat /\ i - 1 \in Nat /\ (i - 1) + 1 = i
  <2>1. IsSeq(q.ins[u].args)
    BY DEF BuiltOK
  <2>2. i \in 1 .. Len(q.ins[u].args) /\ Len(q.ins[u].args) \in Nat
    BY <2>1 DEF IsSeq
  <2> QED BY <2>2
<1>4. /\ Wants(q, T, G, u, i) = {} => q.ins[u].args[i][1] # "op"
      /\ Wants(q, T, G, u, i) # {} => Fits(q, T, q.ins[u].args[i], Wants(q, T, G, u, i))
  BY DEF WellTyped
<1>5. Fits(q, T, q.ins[u].args[i], Wants(q, T, G, u, i))
  BY <1>2, <1>4
<1>6. q.ins[u].args[i][2] \in DOMAIN q.ins /\ T[q.ins[u].args[i][2]] \in Wants(q, T, G, u, i)
  BY <1>2, <1>5 DEF Fits
<1> QED
  BY <1>2, <1>3, <1>6

\* The list of a block that has code.
LEMMA BuiltList ==
  ASSUME NEW p, HasCode(p), NEW q, BuiltOK(p, q), NEW b \in ToSet(q.bbs)
  PROVE  ListOK(q, b)
<1> PICK s, n : s = q.list[b] /\ n = Len(p.code[b])
  OBVIOUS
<1>1. /\ b \in Block /\ p.code[b] # << >> /\ DOMAIN p.code[b] = 1 .. n /\ n \in Nat /\ n # 0
      /\ \A k \in 1 .. n : p.code[b][k].op \in Ends <=> k = n
  <2>1. q.bbs = p.bbs /\ p.bbs \in Seq(Block)
    BY DEF BuiltOK, HasCode
  <2>2. b \in Block
    BY <2>1 DEF ToSet
  <2>3. IsSeq(p.code[b]) /\ p.code[b] # << >>
    BY <2>1, <2>2 DEF HasCode
  <2>4. DOMAIN p.code[b] = 1 .. n /\ n \in Nat /\ n # 0
    BY <2>3 DEF IsSeq
  <2> QED BY <2>1, <2>2, <2>3, <2>4 DEF HasCode
<1>2. Len(s) = n /\ \A k \in 1 .. n : s[k] = IdOf(b, k) /\ IdOf(b, k) \in DOMAIN q.ins
  BY <1>1 DEF BuiltOK
<1>3. \A k \in 1 .. n : s[k] \in DOMAIN q.ins /\ s[k][1] = b /\ s[k][2] = k
  <2> TAKE k \in 1 .. n
  <2>1. s[k] = IdOf(b, k) /\ s[k] \in DOMAIN q.ins
    BY <1>2
  <2>2. IdOf(b, k)[1] = b /\ IdOf(b, k)[2] = k
    BY DEF IdOf
  <2> QED BY <2>1, <2>2
<1>4. \A k \in 1 .. n : q.ins[s[k]].op = p.code[b][k].op
  BY <1>3 DEF BuiltOK
<1>5. s # << >> /\ q.ins[s[Len(s)]].op \in Ends
  BY <1>1, <1>2, <1>4
<1>6. InOrder(q, s)
  <2> SUFFICES ASSUME NEW j \in 1 .. Len(s), NEW k \in 1 .. Len(s), j < k
               PROVE  q.ins[s[j]].op \notin Ends /\ Before(s[j], s[k])
    BY DEF InOrder
  <2>1. j \in 1 .. n /\ k \in 1 .. n /\ j # n
    BY <1>1, <1>2
  <2>2. q.ins[s[j]].op \notin Ends
    BY <1>1, <1>4, <2>1
  <2>3. Before(s[j], s[k])
    BY <1>3, <2>1 DEF Before
  <2> QED BY <2>2, <2>3
<1> QED
  BY <1>2, <1>3, <1>5, <1>6 DEF ListOK

\* As it is built, a function is typed, in order, and uses nothing ahead.
LEMMA BuiltCode ==
  ASSUME NEW p, HasCode(p), NEW q, BuiltOK(p, q), NEW T, NEW G, WellTyped(q, T, G)
  PROVE  CodeOK(q, T, G, q)
<1>1. DOMAIN q = {"bbs", "succ", "pre", "list", "ins", "uses"}
  BY DEF BuiltOK
<1>2. q.list \in [Block -> Seq(InstrId(q))]
  <2>1. DOMAIN q.ins \subseteq InstrId(q)
    BY DEF InstrId
  <2>2. \A s \in Seq(DOMAIN q.ins) : s \in Seq(InstrId(q))
    BY <2>1
  <2>3. q.list \in [Block -> Seq(DOMAIN q.ins)]
    BY DEF BuiltOK
  <2> QED BY <2>2, <2>3
<1>3. InsOK(q, T, G, q)
  <2>1. DOMAIN q.ins \subseteq DOMAIN q.ins /\ DOMAIN q.ins \subseteq InstrId(q)
    BY DEF InstrId
  <2>2. \A u \in DOMAIN q.ins : /\ DOMAIN q.ins[u] = {"op", "args", "parent"} /\ q.ins[u].parent = u[1]
                                /\ IsSeq(q.ins[u].args)
    BY DEF BuiltOK
  <2>3. \A u \in DOMAIN q.ins : OperandsOK(q, T, G, q, u)
    BY BuiltOperands
  <2> QED BY <2>1, <2>2, <2>3 DEF InsOK
<1>4. UsesOK(q, T, G, q)
  BY BuiltUses
<1>5. \A b \in ToSet(q.bbs) : ListOK(q, b)
  BY BuiltList
<1> QED
  BY <1>1, <1>2, <1>3, <1>4, <1>5 DEF CodeOK

\* A function as it is built uses nothing ahead.
LEMMA BuiltForward ==
  ASSUME NEW p, NEW q, BuiltOK(p, q), DefinedFirst(q)
  PROVE  UsesForward(q, q)
<1>1. ASSUME NEW x \in q.uses, q.ins[x[2]].op # "phi", x[1][1] = x[2][1] PROVE Before(x[1], x[2])
  <2>1. PICK u \in DOMAIN q.ins : \E i \in DOMAIN q.ins[u].args :
           q.ins[u].args[i][1] = "op" /\ x[1] = q.ins[u].args[i][2] /\ x[2] = u /\ x[3] = i - 1
    BY DEF BuiltOK
  <2>2. PICK i \in DOMAIN q.ins[u].args :
           q.ins[u].args[i][1] = "op" /\ x[1] = q.ins[u].args[i][2] /\ x[2] = u /\ x[3] = i - 1
    BY <2>1
  <2> QED BY <1>1, <2>2 DEF DefinedFirst
<1> QED
  BY <1>1 DEF UsesForward, DefinedFirst

\* The pass starts well.
LEMMA StartsOK ==
  ASSUME Init, \A p \in Programs : Foldable(p)
  PROVE  IInv
<1>1. PICK p \in Programs : prog = Built(p.bbs, p.code)
  BY DEF Init
<1> PICK q : q = prog
  OBVIOUS
<1>0. PICK T, G : FoldableAs(p, T, G)
  BY DEF Foldable
<1>2. HasCode(p) /\ DefinedFirst(q) /\ HasInnermost(NaturalLoops(Graph(q)))
  BY <1>0, <1>1 DEF FoldableAs
<1>3. WellTyped(q, T, G)
  BY <1>0, <1>1 DEF FoldableAs
<1>4. BuiltOK(p, q)
  <2>1. IsBuilt(p.bbs, p.code, q)
    BY <1>1, BuiltIs
  <2> QED BY <1>2, <2>1, BuiltIsOK
<1>5. /\ f = q /\ loops = NaturalLoops(Graph(q)) /\ pc = "block" /\ at = 1 /\ changed = FALSE
      /\ deleteBlockSet = {}
  BY DEF Init
<1>6. q.bbs \in Seq(Block) /\ IsInjective(q.bbs)
  BY <1>2, <1>4 DEF HasCode, BuiltOK
<1>7. FunctionOK(q, T, G, loops)
  <2>1. \A u \in DOMAIN q.ins : u[1] \in Block /\ u[2] \in Nat \ {0} /\ IsSeq(q.ins[u].args)
    BY <1>4 DEF BuiltOK
  <2> QED BY <1>2, <1>3, <1>5, <1>6, <2>1 DEF FunctionOK
<1>8. CodeOK(q, T, G, q)
  BY <1>2, <1>3, <1>4, BuiltCode
<1>9. UsesForward(q, q)
  BY <1>2, <1>4, BuiltForward
<1>10. RoundsOK(q, T, G, q, 1, FALSE, {})
  <2>1. Len(q.bbs) \in Nat /\ 1 \in 1 .. Len(q.bbs) + 1
    BY <1>6
  <2>2. RoundOK(q, q, 1, FALSE, {})
    BY DEF RoundOK
  <2>3. LoadsOK(q, q, 1, FALSE, {})
    BY <1>9, <2>1 DEF LoadsOK
  <2> QED BY <1>8, <2>1, <2>2, <2>3 DEF RoundsOK
<1>11. PassOK(prog, T, G)
  BY <1>5, <1>7, <1>10 DEF PassOK
<1>12. NothingLeftToFold
  BY <1>5 DEF NothingLeftToFold, JustEnded
<1>13. pc \in Rounds \cup {"abort", "run"}
  BY <1>5 DEF Rounds
<1> QED
  BY <1>11, <1>12, <1>13 DEF IInv

\* A step of the pass keeps the function typed and the round as it should be.
LEMMA PassKeeps ==
  ASSUME NEW q, NEW T, NEW G, PassOK(q, T, G), Pass
  PROVE  PassOK(q, T, G)'
<1>1. CASE SkipDeleted    BY <1>1, SkipDeletedOK
<1>2. CASE DeleteLoop     BY <1>2, DeleteLoopOK
<1>3. CASE DeletePredless BY <1>3, DeletePredlessOK
<1>4. CASE EnterBlock     BY <1>4, EnterBlockOK
<1>5. CASE Store          BY <1>5, StoreOK
<1>6. CASE Load           BY <1>6, LoadOK
<1>7. CASE PhiOfOne       BY <1>7, PhiOfOneOK
<1>8. CASE PhiOfMany      BY <1>8, PhiOfManyOK
<1>9. CASE FoldBinary     BY <1>9, FoldBinaryOK
<1>10. CASE FoldFloat     BY <1>10, FoldFloatOK
<1>11. CASE FoldCast      BY <1>11, FoldCastOK
<1>12. CASE FoldCmp       BY <1>12, FoldCmpOK
<1>13. CASE FoldFCmp      BY <1>13, FoldFCmpOK
<1>14. CASE PassOver      BY <1>14, PassOverOK
<1>15. CASE KeepBranch    BY <1>15, KeepBranchOK
<1>16. CASE FoldTrue      BY <1>16, FoldTrueOK
<1>17. CASE FoldFalse     BY <1>17, FoldFalseOK
<1>18. CASE NextRound     BY <1>18, NextRoundOK
<1>19. CASE RemoveDeleted BY <1>19, RemoveDeletedOK
<1> QED
  BY <1>1, <1>2, <1>3, <1>4, <1>5, <1>6, <1>7, <1>8, <1>9, <1>10, <1>11, <1>12, <1>13, <1>14, <1>15,
     <1>16, <1>17, <1>18, <1>19 DEF Pass

-----------------------------------------------------------------------------
(* The invariant.                                                          *)

\* Where run() may be after a step that is not its last.
StillRounds == pc' \in Rounds \cup {"abort"} /\ prog' = prog

\* A step of the pass other than its last leaves run() in the rounds or aborts
\* it, and no step touches the function kept from before the pass.
LEMMA PassStaysInRounds ==
  ASSUME Pass, ~RemoveDeleted
  PROVE  StillRounds
<1> USE DEF StillRounds, Rounds
<1>1. CASE SkipDeleted
  BY <1>1 DEF SkipDeleted, AtBlock, NextBB, OtherThanBlocks
<1>2. CASE DeleteLoop
  BY <1>2 DEF DeleteLoop, AtBlock, NextBB, OtherThanBlocks
<1>3. CASE DeletePredless
  BY <1>3 DEF DeletePredless, AtBlock, NextBB, OtherThanBlocks
<1>4. CASE EnterBlock
  BY <1>4 DEF EnterBlock
<1>5. CASE Store
  BY <1>5 DEF Store, Visiting, OtherThanInstrs
<1>6. CASE Load
  BY <1>6 DEF Load, Visiting, Replace, OtherThanInstrs
<1>7. CASE PhiOfOne
  BY <1>7 DEF PhiOfOne, Visiting, Replace, OtherThanInstrs
<1>8. CASE PhiOfMany
  BY <1>8 DEF PhiOfMany, Visiting, OtherThanInstrs
<1>9. CASE FoldBinary
  BY <1>9 DEF FoldBinary, FoldInstr, Visiting, Replace, OtherThanInstrs
<1>10. CASE FoldFloat
  BY <1>10 DEF FoldFloat, FoldInstr, Visiting, Replace, OtherThanInstrs
<1>11. CASE FoldCast
  BY <1>11 DEF FoldCast, FoldInstr, Visiting, Replace, OtherThanInstrs
<1>12. CASE FoldCmp
  BY <1>12 DEF FoldCmp, FoldInstr, Visiting, Replace, OtherThanInstrs
<1>13. CASE FoldFCmp
  BY <1>13 DEF FoldFCmp, FoldInstr, Visiting, Replace, OtherThanInstrs
<1>14. CASE PassOver
  BY <1>14 DEF PassOver, Visiting, OtherThanInstrs
<1>15. CASE KeepBranch
  BY <1>15, Zenon DEF KeepBranch, EndBlock, OtherThanBlocks
<1>16. CASE FoldTrue
  BY <1>16 DEF FoldTrue, FoldTrueWith, EndBlock, OtherThanBlocks
<1>17. CASE FoldFalse
  BY <1>17 DEF FoldFalse, EndBlock, OtherThanBlocks
<1>18. CASE NextRound
  BY <1>18 DEF NextRound, EndOfRound, OtherThanBlocks
<1> QED
  BY <1>1, <1>2, <1>3, <1>4, <1>5, <1>6, <1>7, <1>8, <1>9, <1>10, <1>11, <1>12, <1>13, <1>14, <1>15,
     <1>16, <1>17, <1>18 DEF Pass

\* The function the invariant is about is the one before the pass.
LEMMA PassOKOfProg ==
  ASSUME NEW T, NEW G, PassOK(prog, T, G), prog' = prog,
         \A q : PassOK(q, T, G) => PassOK(q, T, G)'
  PROVE  PassOK(prog, T, G)'
<1> PICK q : q = prog
  OBVIOUS
<1>1. PassOK(q, T, G)
  OBVIOUS
<1>2. PassOK(q, T, G)'
  BY <1>1
<1> QED
  BY <1>2

\* IInv is kept by every step of the pass and of the two executions.
LEMMA IInvInductive ==
  IInv /\ [Next]_vars => IInv'
<1> SUFFICES ASSUME IInv, [Next]_vars PROVE IInv'
  OBVIOUS
<1>0. PICK T, G : PassOK(prog, T, G)
  BY DEF IInv
<1>1. CASE RemoveDeleted
  <2>1. PassOK(prog, T, G)' /\ NothingLeftToFold'
    <3> PICK q : q = prog
      OBVIOUS
    <3>1. prog' = q
      BY <1>1 DEF RemoveDeleted
    <3>2. PassOK(q, T, G)' /\ NothingLeftToFold'
      BY <1>0, <1>1, RemoveDeletedOK
    <3> QED BY <3>1, <3>2
  <2>2. (pc \in Rounds \cup {"abort", "run"})'
    BY <1>1 DEF RemoveDeleted
  <2> QED BY <2>1, <2>2 DEF IInv
<1>2. CASE Pass /\ ~RemoveDeleted
  <2>1. StillRounds
    BY <1>2, PassStaysInRounds
  <2>2. PassOK(prog, T, G)'
    <3>1. \A q : PassOK(q, T, G) => PassOK(q, T, G)'
      BY <1>2, PassKeeps
    <3> QED BY <1>0, <2>1, <3>1, PassOKOfProg DEF StillRounds
  <2>3. NothingLeftToFold'
    BY <2>1 DEF StillRounds, Rounds, NothingLeftToFold, JustEnded
  <2> QED BY <2>1, <2>2, <2>3 DEF IInv, StillRounds
<1>3. CASE RunBlock
  <2>1. pc = "run" /\ pc' = "run" /\ loops' = loops /\ prog' = prog
    BY <1>3 DEF RunBlock
  <2>2. PassOK(prog, T, G)'
    <3>1. \A q : PassOK(q, T, G) => PassOK(q, T, G)'
      BY <2>1, Stops DEF Rounds
    <3> QED BY <1>0, <2>1, <3>1, PassOKOfProg
  <2>3. NothingLeftToFold'
    <3>1. run.bb # Null /\ run'.prev = run.bb
      BY <1>3 DEF RunBlock
    <3> QED BY <3>1 DEF NothingLeftToFold, JustEnded
  <2> QED BY <2>1, <2>2, <2>3 DEF IInv
<1>4. CASE UNCHANGED vars
  <2>1. /\ prog' = prog /\ f' = f /\ loops' = loops /\ pc' = pc /\ at' = at /\ ip' = ip
        /\ wait_delete' = wait_delete /\ globalConstVar' = globalConstVar
        /\ deleteBlockSet' = deleteBlockSet /\ changed' = changed /\ run' = run
    BY <1>4 DEF vars
  <2>2. PassOK(prog, T, G)'
    BY <1>0, <2>1 DEF PassOK
  <2>3. NothingLeftToFold'
    BY <2>1 DEF IInv, NothingLeftToFold, JustEnded
  <2> QED BY <2>1, <2>2, <2>3 DEF IInv
<1> QED
  BY <1>1, <1>2, <1>3, <1>4 DEF Next

\* Of typed functions that define each value before they use it, whose blocks
\* end with their one branch or return and whose loops nest, the pass leaves
\* nothing that is constant to compute, in whatever order its rounds fold and
\* delete: ConstPropagation::run stops only after a round that looked at every
\* block that stays and found nothing.
THEOREM NothingConstantLeft ==
  ASSUME \A p \in Programs : Foldable(p)
  PROVE  Spec => []NothingLeftToFold
<1>1. Init => IInv
  BY StartsOK
<1>2. IInv /\ [Next]_vars => IInv'
  BY IInvInductive
<1>3. IInv => NothingLeftToFold
  BY DEF IInv
<1> QED
  BY <1>1, <1>2, <1>3, PTL DEF Spec
=============================================================================
