--------------------------- MODULE UseDef_proofs ---------------------------
(***************************************************************************)
(* Proofs about UseDef, for any number of values, instructions, operands   *)
(* and phi pairs.                                                          *)
(*                                                                         *)
(* The four invariants are only inductive together: that the assertion of  *)
(* set_operand holds needs DefUseExact, keeping DefUseExact over a         *)
(* replacement needs that no slot of the replaced value is missed, and     *)
(* NoDanglingOperand needs both.                                           *)
(***************************************************************************)
EXTENDS UseDef, SequenceTheorems, TLAPS

IInv == TypeOK /\ DefUseExact /\ NoDanglingOperand /\ SetOperandInRange

(* A function on 1..n with values in S is a sequence over S of length n:   *)
(* what the operand vector of a replaced value's users is.                 *)
LEMMA FunctionIsSeq ==
  ASSUME NEW S, NEW n \in Nat, NEW f \in [1 .. n -> S]
  PROVE  f \in Seq(S) /\ Len(f) = n /\ DOMAIN f = 1 .. n
OBVIOUS

LEMMA InitInv == Init => IInv
<1> SUFFICES ASSUME Init PROVE IInv
  OBVIOUS
<1>1. TypeOK
  <2>1. << >> \in Seq(Value)
    OBVIOUS
  <2>2. operands_ \in [User -> Seq(Value)]
    BY <2>1 DEF Init
  <2> QED BY <2>2 DEF Init, TypeOK
<1>2. DefUseExact
  BY DEF Init, DefUseExact
<1>3. NoDanglingOperand /\ SetOperandInRange
  BY DEF Init, NoDanglingOperand, SetOperandInRange
<1> QED BY <1>1, <1>2, <1>3 DEF IInv

(* Building an instruction records every slot of it, and no list mentioned *)
(* it before.                                                              *)
LEMMA ConstructInv ==
  ASSUME IInv, NEW u \in User, NEW ops \in BoundedOps, Construct(u, ops)
  PROVE  IInv'
<1> USE DEF IInv, TypeOK
<1>1. PICK n \in 0 .. MaxArgs : ops \in [1 .. n -> Usable]
  BY DEF BoundedOps
<1>2. ops \in Seq(Value) /\ DOMAIN ops = 1 .. n /\ \A i \in DOMAIN ops : ops[i] \in Usable
  <2>1. Usable \subseteq Value
    BY ValueAssumption DEF Usable
  <2>2. ops \in [1 .. n -> Value]
    BY <1>1, <2>1
  <2> QED BY <1>1, <2>2, FunctionIsSeq, BoundAssumption
<1>3. TypeOK'
  <2>1. operands_' \in [User -> Seq(Value)]
    BY <1>2 DEF Construct
  <2>2. use_list_' \in [Value -> SUBSET (User \X Nat)]
    BY <1>2 DEF Construct
  <2> QED BY <2>1, <2>2 DEF Construct
<1>4. \A x \in User \ {u} : operands_'[x] = operands_[x]
  BY DEF Construct
<1>5. operands_'[u] = ops
  BY DEF Construct
<1>6. ASSUME NEW v \in Value, NEW r \in use_list_'[v]
      PROVE  r \in use_list_[v] \/ (r[1] = u /\ r[2] \in DOMAIN ops /\ ops[r[2]] = v)
  BY DEF Construct
<1>7. DefUseExact'
  <2>1. ASSUME NEW v \in (Value \ replaced)', NEW r \in use_list_'[v]
        PROVE  r[1] \in instr_list_' /\ InRange(r)' /\ operands_'[r[1]][r[2]] = v
    <3>1. CASE r \in use_list_[v]
      <4>1. r[1] \in instr_list_ /\ InRange(r) /\ operands_[r[1]][r[2]] = v
        BY <3>1 DEF DefUseExact, Construct
      <4>2. r[1] \in User \ {u}
        BY <4>1 DEF Construct
      <4> QED BY <4>1, <4>2, <1>4 DEF Construct, InRange
    <3>2. CASE r[1] = u /\ r[2] \in DOMAIN ops /\ ops[r[2]] = v
      BY <3>2, <1>5 DEF Construct, InRange
    <3> QED BY <3>1, <3>2, <1>6
  <2>2. ASSUME NEW x \in instr_list_', NEW i \in DOMAIN operands_'[x]
        PROVE  <<x, i>> \in use_list_'[operands_'[x][i]]
    <3>1. CASE x = u
      <4>1. ops[i] \in Value
        BY <3>1, <1>2, <1>5
      <4> QED BY <3>1, <1>5, <4>1 DEF Construct
    <3>2. CASE x # u
      <4>1. x \in instr_list_ /\ operands_'[x] = operands_[x]
        BY <3>2, <1>4 DEF Construct
      <4>2. <<x, i>> \in use_list_[operands_[x][i]] /\ operands_[x][i] \in Value
        BY <4>1 DEF DefUseExact
      <4> QED BY <4>1, <4>2 DEF Construct
    <3> QED BY <3>1, <3>2
  <2> QED BY <2>1, <2>2 DEF DefUseExact
<1>8. NoDanglingOperand'
  <2>1. Usable \subseteq Usable'
    BY DEF Usable, Construct
  <2>2. ASSUME NEW x \in instr_list_', NEW i \in DOMAIN operands_'[x]
        PROVE  operands_'[x][i] \in Usable'
    <3>1. CASE x = u
      BY <3>1, <1>2, <1>5, <2>1
    <3>2. CASE x # u
      <4>1. x \in instr_list_ /\ operands_'[x] = operands_[x]
        BY <3>2, <1>4 DEF Construct
      <4> QED BY <4>1, <2>1 DEF NoDanglingOperand
    <3> QED BY <3>1, <3>2
  <2> QED BY <2>2 DEF NoDanglingOperand
<1>9. SetOperandInRange'
  BY DEF Construct, SetOperandInRange
<1> QED BY <1>3, <1>7, <1>8, <1>9
(* A phi grows by one pair: two new slots, one record for each.            *)
LEMMA AddPhiPairOperandInv ==
  ASSUME IInv, NEW u \in Phi, NEW v \in Value, NEW bb \in Block,
         AddPhiPairOperand(u, v, bb)
  PROVE  IInv'
<1> USE ValueAssumption DEF IInv, TypeOK
<1> DEFINE n == Len(operands_[u])
<1>1. /\ u \in User /\ n \in Nat /\ operands_[u] \in Seq(Value)
      /\ v \in Value /\ bb \in Value /\ v # bb
      /\ u \in instr_list_ /\ v \in Usable /\ bb \in Usable
  BY DEF AddPhiPairOperand, Usable
<1>2. /\ operands_' \in [User -> Seq(Value)]
      /\ \A x \in User \ {u} : operands_'[x] = operands_[x]
      /\ operands_'[u] = operands_[u] \o <<v, bb>>
  BY <1>1 DEF AddPhiPairOperand
<1>3. /\ DOMAIN operands_'[u] = 1 .. n + 2
      /\ \A i \in 1 .. n : operands_'[u][i] = operands_[u][i]
      /\ operands_'[u][n + 1] = v /\ operands_'[u][n + 2] = bb
  BY <1>1, <1>2
<1>4. use_list_' = [use_list_ EXCEPT ![v] = @ \cup {<<u, n + 1>>},
                                     ![bb] = @ \cup {<<u, n + 2>>}]
  BY DEF AddPhiPairOperand
<1>5. /\ use_list_'[v] = use_list_[v] \cup {<<u, n + 1>>}
      /\ use_list_'[bb] = use_list_[bb] \cup {<<u, n + 2>>}
      /\ \A x \in Value \ {v, bb} : use_list_'[x] = use_list_[x]
  BY <1>1, <1>4
<1>6. UNCHANGED <<instr_list_, made, replaced, aborted, Usable>>
  BY DEF AddPhiPairOperand, Usable
<1>7. TypeOK'
  <2>1. use_list_' \in [Value -> SUBSET (User \X Nat)]
    BY <1>1, <1>4
  <2> QED BY <1>2, <1>6, <2>1
<1>8. DefUseExact'
  <2>1. ASSUME NEW x \in Value \ replaced, NEW r \in use_list_[x]
        PROVE  /\ r[1] \in instr_list_ /\ r[2] \in DOMAIN operands_'[r[1]]
               /\ operands_'[r[1]][r[2]] = x
    <3>1. r[1] \in instr_list_ /\ r[2] \in DOMAIN operands_[r[1]]
          /\ operands_[r[1]][r[2]] = x
      BY DEF DefUseExact, InRange
    <3>2. CASE r[1] = u
      BY <3>1, <3>2, <1>1, <1>3
    <3>3. CASE r[1] # u
      BY <3>1, <3>3, <1>2
    <3> QED BY <3>2, <3>3
  <2>2. ASSUME NEW x \in (Value \ replaced)', NEW r \in use_list_'[x]
        PROVE  r[1] \in instr_list_' /\ InRange(r)' /\ operands_'[r[1]][r[2]] = x
    <3>1. CASE r \in use_list_[x]
      BY <3>1, <2>1, <1>6 DEF InRange
    <3>2. CASE x = v /\ r = <<u, n + 1>>
      BY <3>2, <1>1, <1>3, <1>6 DEF InRange
    <3>3. CASE x = bb /\ r = <<u, n + 2>>
      BY <3>3, <1>1, <1>3, <1>6 DEF InRange
    <3> QED BY <3>1, <3>2, <3>3, <1>5
  <2>3. ASSUME NEW x \in instr_list_', NEW i \in DOMAIN operands_'[x]
        PROVE  <<x, i>> \in use_list_'[operands_'[x][i]]
    <3>1. ASSUME i \in DOMAIN operands_[x], operands_'[x][i] = operands_[x][i]
          PROVE  <<x, i>> \in use_list_'[operands_'[x][i]]
      <4>1. /\ <<x, i>> \in use_list_[operands_[x][i]] /\ operands_[x][i] \in Value
        BY <3>1, <1>6 DEF DefUseExact
      <4> QED BY SMTT(30), <4>1, <3>1, <1>5
    <3>2. CASE x # u
      BY <3>1, <3>2, <1>2, <1>6
    <3>3. CASE x = u /\ i \in 1 .. n
      BY <3>1, <3>3, <1>1, <1>3
    <3>4. CASE x = u /\ i = n + 1
      BY <3>4, <1>3, <1>5
    <3>5. CASE x = u /\ i = n + 2
      BY <3>5, <1>3, <1>5
    <3>6. x = u => i \in 1 .. n \/ i = n + 1 \/ i = n + 2
      BY <1>1, <1>3
    <3> QED BY <3>2, <3>3, <3>4, <3>5, <3>6
  <2> QED BY <2>2, <2>3 DEF DefUseExact
<1>9. NoDanglingOperand'
  <2>1. ASSUME NEW x \in instr_list_', NEW i \in DOMAIN operands_'[x]
        PROVE  operands_'[x][i] \in Usable'
    <3>1. CASE x # u
      BY <3>1, <1>2, <1>6 DEF NoDanglingOperand
    <3>2. CASE x = u /\ i \in 1 .. n
      BY <3>2, <1>1, <1>3, <1>6 DEF NoDanglingOperand
    <3>3. CASE x = u /\ i \notin 1 .. n
      <4>1. i = n + 1 \/ i = n + 2
        BY <3>3, <1>1, <1>3
      <4> QED BY <3>3, <4>1, <1>1, <1>3, <1>6
    <3> QED BY <3>1, <3>2, <3>3
  <2> QED BY <2>1 DEF NoDanglingOperand
<1>10. SetOperandInRange'
  BY <1>6 DEF SetOperandInRange
<1> QED BY <1>7, <1>8, <1>9, <1>10

(* replace_all_use_with: the records of v are exactly its slots, so each   *)
(* slot that held v now holds w, and w has a record for it.                *)
LEMMA ReplaceAllUseWithInv ==
  ASSUME IInv, NEW v \in Value, NEW w \in Value, ReplaceAllUseWith(v, w)
  PROVE  IInv' /\ \A u \in User : \A i \in DOMAIN operands_[u] :
                    u \in instr_list_ =>
                      operands_'[u][i] = (IF operands_[u][i] = v THEN w ELSE operands_[u][i])
<1> USE ValueAssumption DEF IInv, TypeOK
<1>1. v \in instr_list_ /\ v \in User /\ v \notin replaced /\ w \in Usable /\ w # v
  BY DEF ReplaceAllUseWith, Usable
<1>2. \A r \in use_list_[v] : InRange(r)
  BY <1>1 DEF DefUseExact
<1>3. /\ operands_' = [u \in User |->
                         [i \in DOMAIN operands_[u] |->
                            IF <<u, i>> \in use_list_[v] THEN w ELSE operands_[u][i]]]
      /\ use_list_' = [use_list_ EXCEPT ![w] = @ \cup use_list_[v]]
      /\ replaced' = replaced \cup {v}
      /\ UNCHANGED <<instr_list_, made, aborted>>
  BY <1>2 DEF ReplaceAllUseWith
<1>4. ASSUME NEW u \in User
      PROVE  operands_'[u] \in Seq(Value) /\ DOMAIN operands_'[u] = DOMAIN operands_[u]
  <2>1. operands_[u] \in Seq(Value) /\ DOMAIN operands_[u] = 1 .. Len(operands_[u])
        /\ Len(operands_[u]) \in Nat
    OBVIOUS
  <2>2. operands_'[u] \in [1 .. Len(operands_[u]) -> Value]
    BY <1>3, <2>1
  <2> QED BY <2>1, <2>2, FunctionIsSeq
<1>5. ASSUME NEW u \in instr_list_, NEW i \in DOMAIN operands_[u]
      PROVE  <<u, i>> \in use_list_[v] <=> operands_[u][i] = v
  BY <1>1 DEF DefUseExact
<1>6. ASSUME NEW u \in instr_list_, NEW i \in DOMAIN operands_[u]
      PROVE  operands_'[u][i] = IF operands_[u][i] = v THEN w ELSE operands_[u][i]
  BY <1>3, <1>5
<1>7. /\ use_list_'[w] = use_list_[w] \cup use_list_[v]
      /\ \A x \in Value \ {w} : use_list_'[x] = use_list_[x]
  BY <1>3
<1>8. TypeOK'
  <2>1. operands_' \in [User -> Seq(Value)]
    BY <1>3, <1>4
  <2>2. use_list_' \in [Value -> SUBSET (User \X Nat)]
    BY <1>3
  <2> QED BY <1>1, <1>3, <2>1, <2>2
<1>9. DefUseExact'
  <2>1. ASSUME NEW x \in (Value \ replaced)', NEW r \in use_list_'[x]
        PROVE  r[1] \in instr_list_' /\ InRange(r)' /\ operands_'[r[1]][r[2]] = x
    <3>1. x \in Value /\ x \notin replaced /\ x # v
      BY <1>3
    <3>2. r \in User \X Nat /\ r = <<r[1], r[2]>>
      BY <1>8, <3>1
    <3>3. CASE r \in use_list_[x]
      <4>1. r[1] \in instr_list_ /\ r[2] \in DOMAIN operands_[r[1]]
            /\ operands_[r[1]][r[2]] = x
        BY <3>1, <3>3 DEF DefUseExact, InRange
      <4>2. operands_'[r[1]][r[2]] = x
        BY <4>1, <3>1, <1>6
      <4> QED BY <4>1, <4>2, <1>3, <1>4, <3>2 DEF InRange
    <3>4. CASE x = w /\ r \in use_list_[v]
      <4>1. r[1] \in instr_list_ /\ r[2] \in DOMAIN operands_[r[1]]
            /\ operands_[r[1]][r[2]] = v
        BY <1>1, <3>4 DEF DefUseExact, InRange
      <4>2. operands_'[r[1]][r[2]] = w
        BY <4>1, <1>6
      <4> QED BY <4>1, <4>2, <3>4, <1>3, <1>4, <3>2 DEF InRange
    <3> QED BY <3>1, <3>3, <3>4, <1>7
  <2>2. ASSUME NEW u \in instr_list_', NEW i \in DOMAIN operands_'[u]
        PROVE  <<u, i>> \in use_list_'[operands_'[u][i]]
    <3>1. u \in instr_list_ /\ u \in User /\ i \in DOMAIN operands_[u]
      BY <1>3, <1>4
    <3>2. <<u, i>> \in use_list_[operands_[u][i]] /\ operands_[u][i] \in Value
      BY <3>1 DEF DefUseExact
    <3> QED BY SMTT(30), <3>1, <3>2, <1>6, <1>7
  <2> QED BY <2>1, <2>2 DEF DefUseExact
<1>10. NoDanglingOperand'
  <2>1. Usable' = Usable \ {v}
    BY <1>1, <1>3 DEF Usable
  <2>2. ASSUME NEW u \in instr_list_', NEW i \in DOMAIN operands_'[u]
        PROVE  operands_'[u][i] \in Usable'
    <3>1. u \in instr_list_ /\ u \in User /\ i \in DOMAIN operands_[u]
      BY <1>3, <1>4
    <3>2. operands_[u][i] \in Usable
      BY <3>1 DEF NoDanglingOperand
    <3> QED BY <3>1, <3>2, <1>1, <1>6, <2>1
  <2> QED BY <2>2 DEF NoDanglingOperand
<1>11. SetOperandInRange'
  BY <1>3 DEF SetOperandInRange
<1> QED BY <1>6, <1>8, <1>9, <1>10, <1>11
(* delete_instr: what refers to the instruction is gone already (it was    *)
(* replaced, or nobody used it), and its own records go with it.           *)
LEMMA DeleteInstrInv ==
  ASSUME IInv, NEW u \in User, DeleteInstr(u)
  PROVE  IInv'
<1> USE ValueAssumption DEF IInv, TypeOK
<1> DEFINE vs == {operands_[u][i] : i \in DOMAIN operands_[u]}
<1>1. /\ use_list_' = [v \in Value |-> IF v \in vs THEN {r \in use_list_[v] : r[1] # u}
                                                   ELSE use_list_[v]]
      /\ instr_list_' = instr_list_ \ {u}
      /\ UNCHANGED <<operands_, made, replaced, aborted>>
  BY DEF DeleteInstr, RemoveUse
<1>2. ASSUME NEW x \in instr_list_', NEW i \in DOMAIN operands_[x]
      PROVE  operands_[x][i] \in Usable /\ operands_[x][i] # u
  <2>1. x \in instr_list_ /\ operands_[x][i] \in Usable
    BY <1>1 DEF NoDanglingOperand
  <2>2. CASE u \in replaced
    BY <2>1, <2>2 DEF Usable
  <2>3. CASE Unused(u)
    BY <2>1, <2>3 DEF Unused
  <2> QED BY <2>1, <2>2, <2>3 DEF DeleteInstr
<1>3. TypeOK'
  <2>1. use_list_' \in [Value -> SUBSET (User \X Nat)]
    BY <1>1
  <2> QED BY <1>1, <2>1
<1>4. DefUseExact'
  <2>1. ASSUME NEW v \in (Value \ replaced)', NEW r \in use_list_'[v]
        PROVE  r[1] \in instr_list_' /\ InRange(r)' /\ operands_'[r[1]][r[2]] = v
    <3>1. v \in Value \ replaced /\ r \in use_list_[v] /\ (v \in vs => r[1] # u)
      BY <1>1
    <3>2. r[1] \in instr_list_ /\ r[2] \in DOMAIN operands_[r[1]]
          /\ operands_[r[1]][r[2]] = v
      BY <3>1 DEF DefUseExact, InRange
    <3>3. r[1] # u
      BY <3>1, <3>2
    <3> QED BY <3>2, <3>3, <1>1 DEF InRange
  <2>2. ASSUME NEW x \in instr_list_', NEW i \in DOMAIN operands_'[x]
        PROVE  <<x, i>> \in use_list_'[operands_'[x][i]]
    <3>1. x \in instr_list_ /\ x # u /\ i \in DOMAIN operands_[x]
      BY <1>1
    <3>2. <<x, i>> \in use_list_[operands_[x][i]] /\ operands_[x][i] \in Value
      BY <3>1 DEF DefUseExact
    <3> QED BY <3>1, <3>2, <1>1
  <2> QED BY <2>1, <2>2 DEF DefUseExact
<1>5. NoDanglingOperand'
  <2>1. Usable \ {u} \subseteq Usable'
    BY <1>1 DEF Usable
  <2> QED BY <1>1, <1>2, <2>1 DEF NoDanglingOperand
<1>6. SetOperandInRange'
  BY <1>1 DEF SetOperandInRange
<1> QED BY <1>3, <1>4, <1>5, <1>6

(* remove_operands on the last pair, when its value and its block are      *)
(* nowhere else in the phi: the slots that stay keep their numbers and     *)
(* their records.                                                          *)
LEMMA RemoveLastPairInv ==
  ASSUME IInv, NEW u \in Phi, NEW k \in 1 .. MaxPairs,
         2 * k = Len(operands_[u]), TrailingAndDistinct(u, 2 * k - 1), RemovePair(u, k)
  PROVE  IInv' /\ operands_' = [operands_ EXCEPT ![u] = SubSeq(@, 1, 2 * k - 2)]
               /\ instr_list_' = instr_list_ /\ u \in instr_list_
<1> USE ValueAssumption, BoundAssumption DEF IInv, TypeOK
<1> DEFINE n == 2 * k - 2
           vs == {operands_[u][m] : m \in 2 * k - 1 .. 2 * k}
<1>1. /\ u \in instr_list_ /\ u \in User /\ k \in Nat /\ n \in Nat
      /\ operands_[u] \in Seq(Value) /\ DOMAIN operands_[u] = 1 .. 2 * k
      /\ use_list_' = [v \in Value |-> IF v \in vs THEN {r \in use_list_[v] : r[1] # u}
                                                   ELSE use_list_[v]]
      /\ UNCHANGED <<instr_list_, made, replaced, aborted>>
  BY SMTT(30) DEF RemovePair, RemoveOperands, RemoveUse
<1>2. SubSeq(operands_[u], 1, 2 * k - 1 - 1)
        \o SubSeq(operands_[u], 2 * k + 1, Len(operands_[u]))
      = SubSeq(operands_[u], 1, n)
  <2>1. SubSeq(operands_[u], 2 * k + 1, Len(operands_[u])) = << >>
    BY SMTT(30), <1>1
  <2>2. 2 * k - 1 - 1 = n
    BY <1>1
  <2>3. SubSeq(operands_[u], 1, n) \in Seq(Value)
    BY <1>1
  <2> QED BY <2>1, <2>2, <2>3, ConcatEmptySeq
<1>3. operands_' = [operands_ EXCEPT ![u] = SubSeq(@, 1, n)]
  BY <1>2 DEF RemovePair, RemoveOperands
<1>4. /\ operands_'[u] = SubSeq(operands_[u], 1, n)
      /\ \A x \in User \ {u} : operands_'[x] = operands_[x]
  BY <1>1, <1>3
<1>5. /\ operands_'[u] \in Seq(Value) /\ DOMAIN operands_'[u] = 1 .. n
      /\ \A i \in 1 .. n : operands_'[u][i] = operands_[u][i]
  BY <1>1, <1>4
<1>6. \A i \in 1 .. n : operands_[u][i] \notin vs
  <2>1. ASSUME NEW i \in 1 .. n, NEW m \in 2 * k - 1 .. 2 * k
        PROVE  operands_[u][i] # operands_[u][m]
    <3>1. m \in 2 * k - 1 .. Len(operands_[u]) /\ i \in 1 .. 2 * k - 1 - 1
      BY <1>1
    <3> QED BY <3>1 DEF TrailingAndDistinct
  <2> QED BY <2>1
<1>7. TypeOK'
  <2>1. operands_' \in [User -> Seq(Value)]
    BY <1>3, <1>5
  <2>2. use_list_' \in [Value -> SUBSET (User \X Nat)]
    BY <1>1
  <2> QED BY <1>1, <2>1, <2>2
<1>8. DefUseExact'
  <2>1. ASSUME NEW v \in (Value \ replaced)', NEW r \in use_list_'[v]
        PROVE  r[1] \in instr_list_' /\ InRange(r)' /\ operands_'[r[1]][r[2]] = v
    <3>1. v \in Value \ replaced /\ r \in use_list_[v] /\ (v \in vs => r[1] # u)
      BY <1>1
    <3>2. r[1] \in instr_list_ /\ r[2] \in DOMAIN operands_[r[1]]
          /\ operands_[r[1]][r[2]] = v
      BY <3>1 DEF DefUseExact, InRange
    <3>3. CASE r[1] # u
      BY <3>2, <3>3, <1>1, <1>4 DEF InRange
    <3>4. CASE r[1] = u
      <4>1. r[2] \in 1 .. 2 * k /\ r[2] \notin 2 * k - 1 .. 2 * k
        BY <3>1, <3>2, <3>4, <1>1
      <4>2. r[2] \in 1 .. n
        BY <4>1, <1>1
      <4> QED BY <3>2, <3>4, <4>2, <1>1, <1>5 DEF InRange
    <3> QED BY <3>3, <3>4
  <2>2. ASSUME NEW x \in instr_list_', NEW i \in DOMAIN operands_'[x]
        PROVE  <<x, i>> \in use_list_'[operands_'[x][i]]
    <3>1. /\ x \in instr_list_ /\ i \in DOMAIN operands_[x]
          /\ operands_'[x][i] = operands_[x][i]
          /\ x = u => operands_[x][i] \notin vs
      BY <1>1, <1>4, <1>5, <1>6
    <3>2. <<x, i>> \in use_list_[operands_[x][i]] /\ operands_[x][i] \in Value
      BY <3>1 DEF DefUseExact
    <3> QED BY <3>1, <3>2, <1>1
  <2> QED BY <2>1, <2>2 DEF DefUseExact
<1>9. NoDanglingOperand'
  <2>1. Usable' = Usable
    BY <1>1 DEF Usable
  <2>2. ASSUME NEW x \in instr_list_', NEW i \in DOMAIN operands_'[x]
        PROVE  operands_'[x][i] \in Usable'
    <3>1. /\ x \in instr_list_ /\ i \in DOMAIN operands_[x]
          /\ operands_'[x][i] = operands_[x][i]
      BY SMTT(30), <1>1, <1>4, <1>5
    <3> QED BY <3>1, <2>1 DEF NoDanglingOperand
  <2> QED BY <2>2 DEF NoDanglingOperand
<1>10. SetOperandInRange'
  BY <1>1 DEF SetOperandInRange
<1> QED BY <1>1, <1>3, <1>7, <1>8, <1>9, <1>10

(* Every step of the passes before ConstPropagation's phi editing keeps    *)
(* the four invariants.                                                    *)
LEMMA NextInv == IInv /\ [Next]_vars => IInv'
<1> SUFFICES ASSUME IInv, [Next]_vars PROVE IInv'
  OBVIOUS
<1>1. ASSUME NEW u \in User, NEW ops \in BoundedOps, Construct(u, ops) PROVE IInv'
  BY <1>1, ConstructInv
<1>2. ASSUME NEW u \in Phi, NEW v \in Value, NEW bb \in Block, AddPhiPairOperand(u, v, bb)
      PROVE  IInv'
  BY <1>2, AddPhiPairOperandInv
<1>3. ASSUME NEW v \in Value, NEW w \in Value, ReplaceAllUseWith(v, w) PROVE IInv'
  BY <1>3, ReplaceAllUseWithInv
<1>4. ASSUME NEW u \in User, DeleteInstr(u) PROVE IInv'
  BY <1>4, DeleteInstrInv
<1>5. ASSUME NEW u \in Phi, NEW k \in 1 .. MaxPairs, 2 * k = Len(operands_[u]),
             TrailingAndDistinct(u, 2 * k - 1), RemovePair(u, k)
      PROVE  IInv'
  BY <1>5, RemoveLastPairInv
<1>6. CASE UNCHANGED vars
  BY <1>6 DEF vars, IInv, TypeOK, DefUseExact, NoDanglingOperand, SetOperandInRange,
              InRange, Usable
<1> QED BY <1>1, <1>2, <1>3, <1>4, <1>5, <1>6 DEF Next, Edit

(* A value that was not replaced has exactly the use records of the        *)
(* operand slots it occupies.                                              *)
THEOREM DefUseCorrect == Spec => []DefUseExact
<1>1. IInv => DefUseExact
  BY DEF IInv
<1> QED BY InitInv, NextInv, <1>1, PTL DEF Spec

(* No instruction in a block refers to a replaced or deleted instruction.  *)
THEOREM NoDangling == Spec => []NoDanglingOperand
<1>1. IInv => NoDanglingOperand
  BY DEF IInv
<1> QED BY InitInv, NextInv, <1>1, PTL DEF Spec

(* The assertion of User::set_operand holds whenever it is evaluated.      *)
THEOREM AssertionHolds == Spec => []SetOperandInRange
<1>1. IInv => SetOperandInRange
  BY DEF IInv
<1> QED BY InitInv, NextInv, <1>1, PTL DEF Spec

-----------------------------------------------------------------------------
(* The operands of the instructions in blocks, as OperandMap sees them.    *)
Seen == [u \in User |-> IF u \in instr_list_ THEN operands_[u] ELSE << >>]

(* A step of UseDef is a step of OperandMap, or leaves it unchanged.       *)
LEMMA StepSimulation ==
  ASSUME IInv, [Next]_vars
  PROVE  [Abstract!Next]_<<Seen, instr_list_>>
<1> USE ValueAssumption, BoundAssumption DEF IInv, TypeOK
<1>1. ASSUME NEW u \in User, NEW ops \in BoundedOps, Construct(u, ops)
      PROVE  Abstract!Create(u)
  <2>1. u \notin instr_list_ /\ instr_list_' = instr_list_ \cup {u}
    BY <1>1 DEF Construct
  <2>2. operands_' = [operands_ EXCEPT ![u] = ops]
    BY <1>1 DEF Construct
  <2>3. Seen' = [Seen EXCEPT ![u] = Seen'[u]]
    BY <2>1, <2>2 DEF Seen
  <2>4. Seen'[u] \in Seq(Value)
    <3>1. IInv'
      BY <1>1, ConstructInv
    <3> QED BY <3>1, <2>1 DEF Seen
  <2> QED BY <2>1, <2>3, <2>4 DEF Abstract!Create, Seen
<1>2. ASSUME NEW u \in Phi, NEW v \in Value, NEW bb \in Block, AddPhiPairOperand(u, v, bb)
      PROVE  Abstract!Extend(u, v, bb)
  <2>1. /\ u \in instr_list_ /\ u \in User /\ instr_list_' = instr_list_
        /\ operands_' = [operands_ EXCEPT ![u] = @ \o <<v, bb>>]
    BY <1>2 DEF AddPhiPairOperand
  <2>2. Seen' = [Seen EXCEPT ![u] = @ \o <<v, bb>>]
    BY <2>1 DEF Seen
  <2> QED BY <2>1, <2>2 DEF Abstract!Extend, Seen
<1>3. ASSUME NEW v \in Value, NEW w \in Value, ReplaceAllUseWith(v, w)
      PROVE  Abstract!Replace(v, w)
  <2> DEFINE After == [u \in User |->
                         [i \in DOMAIN Seen[u] |-> IF Seen[u][i] = v THEN w ELSE Seen[u][i]]]
  <2>1. /\ IInv'
        /\ \A u \in User : \A i \in DOMAIN operands_[u] :
              u \in instr_list_ =>
                operands_'[u][i] = (IF operands_[u][i] = v THEN w ELSE operands_[u][i])
    BY <1>3, ReplaceAllUseWithInv
  <2>2. instr_list_' = instr_list_
    BY <1>3 DEF ReplaceAllUseWith
  <2>3. v \in instr_list_ \ replaced
    BY <1>3 DEF ReplaceAllUseWith
  <2>4. operands_' = [u \in User |->
                        [i \in DOMAIN operands_[u] |->
                           IF <<u, i>> \in use_list_[v] THEN w ELSE operands_[u][i]]]
    <3>1. \A r \in use_list_[v] : InRange(r)
      BY <2>3 DEF DefUseExact
    <3> QED BY <1>3, <3>1 DEF ReplaceAllUseWith
  <2>5. ASSUME NEW u \in User PROVE Seen'[u] = After[u]
    <3>1. CASE u \in instr_list_
      <4>1. Seen'[u] = operands_'[u] /\ Seen[u] = operands_[u]
        BY <3>1, <2>2 DEF Seen
      <4>2. operands_'[u] = [i \in DOMAIN operands_[u] |->
                               IF operands_[u][i] = v THEN w ELSE operands_[u][i]]
        BY <3>1, <2>1, <2>4
      <4> QED BY <4>1, <4>2
    <3>2. CASE u \notin instr_list_
      <4>1. Seen'[u] = << >> /\ Seen[u] = << >>
        BY <3>2, <2>2 DEF Seen
      <4>2. After[u] = << >>
        BY <4>1
      <4> QED BY <4>1, <4>2
    <3> QED BY <3>1, <3>2
  <2>6. Seen' = After
    <3>1. Seen' = [u \in User |-> Seen'[u]]
      BY DEF Seen
    <3> QED BY <3>1, <2>5
  <2> QED BY <2>2, <2>6 DEF Abstract!Replace, Seen
<1>4. ASSUME NEW u \in User, DeleteInstr(u)
      PROVE  Abstract!Delete(u)
  <2>1. /\ u \in instr_list_ /\ instr_list_' = instr_list_ \ {u}
        /\ operands_' = operands_
    BY <1>4 DEF DeleteInstr
  <2>2. Seen' = [Seen EXCEPT ![u] = << >>]
    BY <2>1 DEF Seen
  <2> QED BY <2>1, <2>2 DEF Abstract!Delete, Seen
<1>5. ASSUME NEW u \in Phi, NEW k \in 1 .. MaxPairs, 2 * k = Len(operands_[u]),
             TrailingAndDistinct(u, 2 * k - 1), RemovePair(u, k)
      PROVE  Abstract!Truncate(u, 2 * k - 2) /\ 2 * k - 2 \in 0 .. Len(Seen[u])
  <2>1. /\ u \in instr_list_ /\ instr_list_' = instr_list_ /\ u \in User
        /\ operands_' = [operands_ EXCEPT ![u] = SubSeq(@, 1, 2 * k - 2)]
    BY <1>5, RemoveLastPairInv
  <2>2. Seen' = [Seen EXCEPT ![u] = SubSeq(@, 1, 2 * k - 2)]
    BY <2>1 DEF Seen
  <2>3. Seen[u] = operands_[u]
    BY <2>1 DEF Seen
  <2>4. 2 * k - 2 \in 0 .. Len(Seen[u])
    BY <1>5, <2>3
  <2> QED BY <2>1, <2>2, <2>4 DEF Abstract!Truncate, Seen
<1>6. CASE UNCHANGED vars
  BY <1>6 DEF vars, Seen
<1>7. ASSUME NEW u \in User, NEW ops \in BoundedOps, Construct(u, ops) PROVE Abstract!Next
  BY <1>1, <1>7 DEF Abstract!Next
<1>8. ASSUME NEW u \in Phi, NEW v \in Value, NEW bb \in Block, AddPhiPairOperand(u, v, bb)
      PROVE  Abstract!Next
  BY <1>2, <1>8 DEF Abstract!Next
<1>9. ASSUME NEW v \in Value, NEW w \in Value, ReplaceAllUseWith(v, w) PROVE Abstract!Next
  BY <1>3, <1>9 DEF Abstract!Next
<1>10. ASSUME NEW u \in User, DeleteInstr(u) PROVE Abstract!Next
  BY <1>4, <1>10 DEF Abstract!Next
<1>11. ASSUME NEW u \in Phi, NEW k \in 1 .. MaxPairs, 2 * k = Len(operands_[u]),
              TrailingAndDistinct(u, 2 * k - 1), RemovePair(u, k)
       PROVE  Abstract!Next
  BY <1>5, <1>11 DEF Abstract!Next, Seen
<1> QED BY <1>6, <1>7, <1>8, <1>9, <1>10, <1>11 DEF Next, Edit

(* The operand vectors and use lists implement OperandMap: seen from the   *)
(* instructions in blocks, replacing a value replaces it everywhere and    *)
(* nothing else changes.                                                   *)
THEOREM Refinement == Spec => ImplementsOperandMap
<1>1. Init => Abstract!Init
  BY DEF Init, Abstract!Init
<1>2. IInv /\ [Next]_vars => [Abstract!Next]_<<Seen, instr_list_>>
  BY StepSimulation
<1>3. [Abstract!Next]_<<Seen, instr_list_>> => [Abstract!Next]_(Abstract!vars)
  BY DEF Abstract!vars, Seen
<1> QED BY InitInv, NextInv, <1>1, <1>2, <1>3, PTL DEF Spec, ImplementsOperandMap, Abstract!Spec
=============================================================================
