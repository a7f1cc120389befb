----------------------------- MODULE MC_UseDef -----------------------------
(* Bounded instances of UseDef: one phi, one or two other instructions, a  *)
(* constant and the two predecessors of a join.                            *)
EXTENDS UseDef, TLC

CONSTANTS c1, b1, b2, p1, u1, u2

MCPhi   == {p1}
MCBlock == {b1, b2}
MCUser  == {p1, u1, u2}
MCValue == {c1} \cup MCBlock \cup MCUser
Symmetry == Permutations({u1, u2}) \cup Permutations(MCBlock)
=============================================================================
