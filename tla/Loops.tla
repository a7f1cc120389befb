------------------------------- MODULE Loops -------------------------------
(***************************************************************************)
(* The textbook definition of the loops of a control-flow graph, which the *)
(* LoopSearch analysis computes and the passes ask it for.  A graph is a   *)
(* function from a block to the set of its successors.                     *)
(***************************************************************************)
EXTENDS Dominance

\* The blocks that jump back to h, which dominates them.
BackTo(s, doms, h) == {t \in Reached(s) : h \in s[t] /\ t \in doms[h]}

\* The natural loop of h: h and what leads back to h without meeting h.
NaturalLoop(s, doms, h) ==
  LET into[k \in Nat] ==
        IF k = 0 THEN BackTo(s, doms, h)
        ELSE LET seen == into[k - 1]
             IN  seen \cup {b \in Reached(s) \ {h} : s[b] \cap (seen \ {h}) # {}}
  IN  {h} \cup into[Cardinality(Block)]

\* Every loop by its header; a block that jumps to itself is not a loop here.
NaturalLoops(s) ==
  LET doms == Doms(s)
  IN  [h \in {b \in Block : BackTo(s, doms, b) \ {b} # {}} |-> NaturalLoop(s, doms, h)]

\* The header of the smallest loop b is in, Null if b is in none.
InnermostHeader(loops, b) ==
  LET around == {h \in DOMAIN loops : b \in loops[h]}
  IN  IF around = {} THEN Null
      ELSE CHOOSE h \in around : \A g \in around : loops[h] \subseteq loops[g]

\* Without the edges back to a header the graph has no cycle.
Reducible(s) ==
  LET doms == Doms(s)
      forward == [b \in Block |-> {c \in s[b] : b \notin doms[c]}]
      peel[k \in Nat] ==
        IF k = 0 THEN Reached(s)
        ELSE LET left == peel[k - 1] IN {b \in left : forward[b] \cap left # {}}
  IN  peel[Cardinality(Block)] = {}
=============================================================================
