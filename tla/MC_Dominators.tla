--------------------------- MODULE MC_Dominators ---------------------------
(* Bounded instances of Dominators: every graph of a given size with at    *)
(* most two successors per block and an entry no edge leads to, as         *)
(* CminusfBuilder makes them.                                              *)
EXTENDS Dominators

CONSTANT N      \* number of blocks

MCBlock == 1 .. N
Targets == {s \in SUBSET (2 .. N) : Cardinality(s) <= 2}

\* Every graph whose reachable blocks have only reachable predecessors.
CleanGraphs == {s \in [MCBlock -> Targets] : NoDeadPred(s)}

\* entry -> exprBB; exprBB -> trueBB | end; trueBB -> return | return; the block
\* after the if, which nothing reaches, branches back to exprBB.
DeadJoin ==
  {[b \in MCBlock |-> CASE b = 1 -> {2} [] b = 2 -> {3, 4} [] b = 3 -> {5, 6}
                        [] b = 7 -> {2} [] OTHER -> {}]}
=============================================================================
