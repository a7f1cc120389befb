----------------------------- MODULE OperandMap -----------------------------
(***************************************************************************)
(* What LightIR promises of operands, with no use list in sight: an        *)
(* instruction that is in a block has a sequence of operands, and          *)
(* replacing a value replaces it in every one of them at once              *)
(* (Documentations/common/LightIR.md, "Value", replace_all_use_with).      *)
(* Module UseDef implements this with operand vectors and use lists.       *)
(***************************************************************************)
EXTENDS Naturals, Sequences

CONSTANTS Value,    \* every Value object
          User      \* the Values that are instructions

VARIABLES ops,      \* ops[u]: the operands of instruction u
          live      \* the instructions that are in a block

vars == <<ops, live>>

Init ==
  /\ ops = [u \in User |-> << >>]
  /\ live = {}

Create(u) ==
  /\ u \notin live
  /\ live' = live \cup {u}
  /\ ops'[u] \in Seq(Value)
  /\ ops' = [ops EXCEPT ![u] = ops'[u]]

Extend(u, v, w) ==
  /\ u \in live
  /\ ops' = [ops EXCEPT ![u] = @ \o <<v, w>>]
  /\ UNCHANGED live

Truncate(u, n) ==
  /\ u \in live
  /\ ops' = [ops EXCEPT ![u] = SubSeq(@, 1, n)]
  /\ UNCHANGED live

\* Every occurrence of v, in every live instruction, becomes w.
Replace(v, w) ==
  /\ ops' = [u \in User |->
               [i \in DOMAIN ops[u] |-> IF ops[u][i] = v THEN w ELSE ops[u][i]]]
  /\ UNCHANGED live

Delete(u) ==
  /\ u \in live
  /\ live' = live \ {u}
  /\ ops' = [ops EXCEPT ![u] = << >>]

Next ==
  \/ \E u \in User : Create(u) \/ Delete(u)
  \/ \E u \in User, v, w \in Value : Extend(u, v, w)
  \/ \E u \in User : \E n \in 0 .. Len(ops[u]) : Truncate(u, n)
  \/ \E v, w \in Value : Replace(v, w)

Spec == Init /\ [][Next]_vars
=============================================================================
