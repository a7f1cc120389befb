------------------------------- MODULE UseDef -------------------------------
(***************************************************************************)
(* The def-use bookkeeping of LightIR (src/lightir/User.cpp, Value.cpp,    *)
(* BasicBlock::delete_instr).  Every instruction (a User) has a vector of  *)
(* operands; every Value has a list of uses, the <<user, arg_no>> records  *)
(* that replace_all_use_with walks.  The two are kept in step by hand: a   *)
(* set_operand adds a record for the new operand and leaves the record of  *)
(* the old one, remove_use drops every record of a user at once, and       *)
(* remove_operands shifts operands without renumbering their records.      *)
(*                                                                         *)
(* The actions are the API calls in the order the passes make them:        *)
(*   - an instruction is built from values that are still in use,          *)
(*   - a pass replaces an instruction once, and deletes it some time later *)
(*     (the wait_delete vectors of Mem2Reg and ConstPropagation),          *)
(*   - an instruction nobody uses (a store, a branch) may be deleted too.  *)
(*                                                                         *)
(* Operand numbers start at 1 here and at 0 in the code.  A use list is a  *)
(* set of records: no operation depends on their order or multiplicity.    *)
(***************************************************************************)
EXTENDS Naturals, Sequences

CONSTANTS Value,    \* every Value object: constants, blocks, instructions
          User,     \* the Values that are instructions
          Phi,      \* the instructions that are phis
          Block,    \* the Values that are basic blocks
          MaxArgs,  \* bound on the operands of an instruction that is no phi
          MaxPairs  \* bound on the <<value, block>> pairs of a phi

ASSUME ValueAssumption ==
  /\ User \subseteq Value /\ Block \subseteq Value /\ User \cap Block = {}
  /\ Phi \subseteq User
ASSUME BoundAssumption == MaxArgs \in Nat /\ MaxPairs \in Nat

VARIABLES operands_,   \* operands_[u]: User::operands_ (num_ops_ is its length)
          use_list_,   \* use_list_[v]: Value::use_list_
          instr_list_, \* the instructions that are in a block
          made,        \* the instructions constructed so far
          replaced,    \* the instructions a pass has replaced, hence will delete
          aborted      \* the assertion of set_operand has failed

vars == <<operands_, use_list_, instr_list_, made, replaced, aborted>>

Init ==
  /\ operands_ = [u \in User |-> << >>]
  /\ use_list_ = [v \in Value |-> {}]
  /\ instr_list_ = {}
  /\ made = {}
  /\ replaced = {}
  /\ aborted = FALSE

-----------------------------------------------------------------------------
(* The values a pass may still mention: constants, arguments and blocks,   *)
(* and the instructions that are in a block and not replaced.              *)
Usable == (Value \ User) \cup (instr_list_ \ replaced)

(* Faulty variants of the operations below, for the mutation runs.         *)
AddPhiPairOperandCountsFirst(u, v, bb) ==
  /\ ~aborted /\ u \in instr_list_ \cap Phi /\ v \in Usable \ Block /\ bb \in Block
  /\ Len(operands_[u]) < 2 * MaxPairs
  /\ operands_' = [operands_ EXCEPT ![u] = @ \o <<v, bb>>]
  /\ use_list_' = [use_list_ EXCEPT ![v] = @ \cup {<<u, Len(operands_[u]) + 2>>}]
  /\ UNCHANGED <<instr_list_, made, replaced, aborted>>

DeleteInstrKeepsUses(u) ==
  /\ ~aborted /\ u \in instr_list_ /\ u \in replaced
  /\ instr_list_' = instr_list_ \ {u}
  /\ UNCHANGED <<operands_, use_list_, made, replaced, aborted>>

RemoveOperandsKeepsUses(u, i, j) ==
  /\ ~aborted /\ u \in instr_list_ \cap Phi
  /\ operands_' = [operands_ EXCEPT
                     ![u] = SubSeq(@, 1, i - 1) \o SubSeq(@, j + 1, Len(@))]
  /\ UNCHANGED <<use_list_, instr_list_, made, replaced, aborted>>

RemoveOperandsOneShort(u, i, j) ==
  /\ ~aborted /\ u \in instr_list_ \cap Phi
  /\ operands_' = [operands_ EXCEPT
                     ![u] = SubSeq(@, 1, i - 1) \o SubSeq(@, j, Len(@))]
  /\ UNCHANGED <<use_list_, instr_list_, made, replaced, aborted>>

-----------------------------------------------------------------------------
\* Value::remove_use(u), on every value of the set vs.
RemoveUse(u, vs) ==
  use_list_' = [v \in Value |->
                  IF v \in vs THEN {r \in use_list_[v] : r[1] # u}
                              ELSE use_list_[v]]

\* The constructors: the operand vector is sized, then each operand is set.
\* PhiInst::create_phi starts from empty vectors.
Construct(u, ops) ==
  /\ ~aborted
  /\ u \notin made
  /\ u \in Phi => ops = << >>
  /\ made' = made \cup {u}
  /\ instr_list_' = instr_list_ \cup {u}
  /\ operands_' = [operands_ EXCEPT ![u] = ops]
  /\ use_list_' = [v \in Value |->
                     use_list_[v] \cup {<<u, i>> : i \in {j \in DOMAIN ops : ops[j] = v}}]
  /\ UNCHANGED <<replaced, aborted>>

(* PhiInst::add_phi_pair_operand, two calls of User::add_operand: a value  *)
(* and the predecessor it comes from, each predecessor once.               *)
AddPhiPairOperand(u, v, bb) ==
  /\ ~aborted
  /\ u \in instr_list_ \cap Phi
  /\ v \in Usable \ Block
  /\ bb \in Block
  /\ Len(operands_[u]) < 2 * MaxPairs
  /\ \A i \in DOMAIN operands_[u] : operands_[u][i] # bb
  /\ operands_' = [operands_ EXCEPT ![u] = @ \o <<v, bb>>]
  /\ use_list_' = [use_list_ EXCEPT
                      ![v] = @ \cup {<<u, Len(operands_[u]) + 1>>},
                      ![bb] = @ \cup {<<u, Len(operands_[u]) + 2>>}]
  /\ UNCHANGED <<instr_list_, made, replaced, aborted>>

(* Value::replace_all_use_with: v->set_operand(arg_no, w) for each record  *)
(* of v.  set_operand asserts that arg_no is in range, adds the record of  *)
(* w, and does not take the record of v away.  A phi is only ever replaced *)
(* by the value of its one remaining pair (ConstPropagation.cpp:322).      *)
InRange(r) == r[2] \in DOMAIN operands_[r[1]]

ReplaceAllUseWith(v, w) ==
  /\ ~aborted
  /\ v \in instr_list_ \ replaced
  /\ w \in Usable \ (Block \cup {v})
  /\ v \in Phi => Len(operands_[v]) = 2 /\ w = operands_[v][1]
  /\ IF \A r \in use_list_[v] : InRange(r)
     THEN /\ operands_' = [u \in User |->
                             [i \in DOMAIN operands_[u] |->
                                IF <<u, i>> \in use_list_[v] THEN w ELSE operands_[u][i]]]
          /\ use_list_' = [use_list_ EXCEPT ![w] = @ \cup use_list_[v]]
          /\ replaced' = replaced \cup {v}
          /\ UNCHANGED aborted
     ELSE /\ aborted' = TRUE
          /\ UNCHANGED <<operands_, use_list_, replaced>>
  /\ UNCHANGED <<instr_list_, made>>

\* No instruction in a block has u among its operands.
Unused(u) == \A x \in instr_list_ : \A i \in DOMAIN operands_[x] : operands_[x][i] # u

\* BasicBlock::delete_instr, with User::remove_use_of_ops.
DeleteInstr(u) ==
  /\ ~aborted
  /\ u \in instr_list_
  /\ u \in replaced \/ Unused(u)
  /\ instr_list_' = instr_list_ \ {u}
  /\ RemoveUse(u, {operands_[u][i] : i \in DOMAIN operands_[u]})
  /\ UNCHANGED <<operands_, made, replaced, aborted>>

\* User::remove_operands(i, j).
RemoveOperands(u, i, j) ==
  /\ ~aborted
  /\ u \in instr_list_ \cap Phi
  /\ RemoveUse(u, {operands_[u][k] : k \in i .. j})
  /\ operands_' = [operands_ EXCEPT
                     ![u] = SubSeq(@, 1, i - 1) \o SubSeq(@, j + 1, Len(@))]
  /\ UNCHANGED <<instr_list_, made, replaced, aborted>>

-----------------------------------------------------------------------------
(* remove_operands keeps the lists in step only when it takes the last     *)
(* operands of the vector, and these occur nowhere else in it.             *)
TrailingAndDistinct(u, i) ==
  \A k \in i .. Len(operands_[u]) : \A m \in 1 .. i - 1 :
     operands_[u][m] # operands_[u][k]

BoundedOps == UNION {[1 .. n -> Usable] : n \in 0 .. MaxArgs}

Edit ==
  \/ \E u \in User : \E ops \in BoundedOps : Construct(u, ops)
  \/ \E u \in Phi, v \in Value, bb \in Block : AddPhiPairOperand(u, v, bb)
  \/ \E v, w \in Value : ReplaceAllUseWith(v, w)
  \/ \E u \in User : DeleteInstr(u)

\* ConstPropagation removes the <<value, block>> pair of a dead block.
RemovePair(u, k) ==
  /\ 2 * k \in DOMAIN operands_[u]
  /\ RemoveOperands(u, 2 * k - 1, 2 * k)

Next ==
  \/ Edit
  \/ \E u \in Phi, k \in 1 .. MaxPairs :
        /\ 2 * k = Len(operands_[u])
        /\ TrailingAndDistinct(u, 2 * k - 1)
        /\ RemovePair(u, k)

Spec == Init /\ [][Next]_vars

-----------------------------------------------------------------------------
(* Each variable keeps to its type, for the proofs: only constructed       *)
(* instructions are in a block.                                            *)
TypeOK ==
  /\ operands_ \in [User -> Seq(Value)]
  /\ use_list_ \in [Value -> SUBSET (User \X Nat)]
  /\ instr_list_ \subseteq made
  /\ made \subseteq User
  /\ replaced \subseteq User
  /\ aborted \in BOOLEAN

(* For every value that has not been replaced, its use list holds exactly  *)
(* the operand slots it occupies in the instructions that are in a block:  *)
(* none is missing, none is left over from a deleted instruction.          *)
DefUseExact ==
  /\ \A v \in Value \ replaced : \A r \in use_list_[v] :
        r[1] \in instr_list_ /\ InRange(r) /\ operands_[r[1]][r[2]] = v
  /\ \A u \in instr_list_ : \A i \in DOMAIN operands_[u] :
        <<u, i>> \in use_list_[operands_[u][i]]

(* No instruction in a block uses an instruction that was replaced or      *)
(* deleted: what a wait_delete vector removes is never referred to again   *)
(* (Mem2Reg.cpp:169, ConstPropagation.cpp:516).                            *)
NoDanglingOperand ==
  \A u \in instr_list_ : \A i \in DOMAIN operands_[u] : operands_[u][i] \in Usable

(* assert(i < num_ops_ && "set_operand out of index") of User.cpp:24 never *)
(* fails inside replace_all_use_with.                                      *)
SetOperandInRange == ~aborted

(* The use lists are an implementation detail: seen through the operands   *)
(* of the instructions in blocks, replace_all_use_with replaces a value    *)
(* everywhere and touches nothing else.                                    *)
Abstract == INSTANCE OperandMap
              WITH ops  <- [u \in User |-> IF u \in instr_list_ THEN operands_[u] ELSE << >>],
                   live <- instr_list_
ImplementsOperandMap == Abstract!Spec
=============================================================================
