---------------------------- MODULE FoldableCode ----------------------------
(***************************************************************************)
(* The functions of which ConstPropagation_proofs shows that               *)
(* ConstPropagation leaves nothing constant to compute: each block ends    *)
(* with its one branch or return, values are typed and defined in a block  *)
(* before it uses them, and loops nest.  The pass asks none of this; it is *)
(* what CminusfBuilder and Mem2Reg make, but for a phi that gets no pair   *)
(* because nothing reaches its block.  q is the function as it was built;  *)
(* T is the type of each instruction that has a value, G of each global.   *)
(***************************************************************************)
EXTENDS FunctionIR, Loops

TakesInt == IntOps \cup CmpOps \cup {"si2fp", "zext"}
TakesFP  == FloatOps \cup FCmpOps \cup {"fp2si"}
GivesInt == IntOps \cup CmpOps \cup FCmpOps \cup {"fp2si", "zext"}
GivesFP  == FloatOps \cup {"si2fp"}
Ends     == {"br", "ret"}
Numbers  == {"int", "fp"}

IsSeq(s) == s \in Seq(ToSet(s))

\* The types of the value that operand k of instruction u may be; none when
\* it is a block or a global.
Wants(q, T, G, u, k) ==
  LET i == q.ins[u]
  IN  IF i.op \in TakesInt THEN {"int"}
      ELSE IF i.op \in TakesFP THEN {"fp"}
      ELSE IF i.op = "phi" THEN IF k % 2 = 1 THEN {T[u]} ELSE {}
      ELSE IF i.op = "store" /\ k = 1 THEN {G[i.args[2][2]]}
      ELSE IF i.op \in {"output", "ret"} \/ (i.op = "br" /\ Len(i.args) = 3 /\ k = 1) THEN Numbers
      ELSE {}

\* How many operands an instruction has at least.
Arity(op) ==
  IF op \in IntOps \cup FloatOps \cup CmpOps \cup FCmpOps \cup {"store", "phi"} THEN 2
  ELSE IF op \in Casts \cup {"load"} THEN 1 ELSE 0

\* The value v has a type of K.
Fits(q, T, v, K) ==
  IF v[1] = "op" THEN v[2] \in DOMAIN q.ins /\ T[v[2]] \in K ELSE v[1] \in K

WellTyped(q, T, G) ==
  \A u \in DOMAIN q.ins :
    LET i == q.ins[u]
    IN  /\ Len(i.args) >= Arity(i.op)
        /\ i.op \in GivesInt => T[u] = "int"
        /\ i.op \in GivesFP => T[u] = "fp"
        /\ i.op = "load" => T[u] = G[i.args[1][2]]
        /\ i.op = "phi" => Len(i.args) % 2 = 0
        /\ \A k \in DOMAIN i.args :
             IF Wants(q, T, G, u, k) = {} THEN i.args[k][1] # "op"
             ELSE Fits(q, T, i.args[k], Wants(q, T, G, u, k))

\* The instructions a block runs are defined there before they are used; a phi
\* may be given what comes later.
Before(x, u) == x[2] < u[2]
DefinedFirst(q) ==
  \A u \in DOMAIN q.ins : q.ins[u].op # "phi" =>
    \A k \in DOMAIN q.ins[u].args :
      LET v == q.ins[u].args[k]
      IN  v[1] = "op" /\ v[2][1] = u[1] => Before(v[2], u)

\* Each block has code, which ends with its branch or return.
HasCode(p) ==
  /\ p.bbs \in Seq(Block) /\ IsInjective(p.bbs)
  /\ \A b \in Block : IsSeq(p.code[b]) /\ \A k \in DOMAIN p.code[b] : IsSeq(p.code[b][k].args)
  /\ \A b \in ToSet(p.bbs) :
       /\ p.code[b] # << >>
       /\ \A k \in DOMAIN p.code[b] : p.code[b][k].op \in Ends <=> k = Len(p.code[b])

\* Of the loops a block is in there is a smallest one, as where they nest.
HasInnermost(l) ==
  \A b \in Block : LET around == {h \in DOMAIN l : b \in l[h]}
                   IN  around # {} => \E h \in around : \A g \in around : l[h] \subseteq l[g]

FoldableAs(p, T, G) ==
  LET q == Built(p.bbs, p.code)
  IN  HasCode(p) /\ DefinedFirst(q) /\ HasInnermost(NaturalLoops(Graph(q))) /\ WellTyped(q, T, G)
Foldable(p) == \E T, G : FoldableAs(p, T, G)
=============================================================================
