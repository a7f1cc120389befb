----------------------------- MODULE Dominance -----------------------------
(***************************************************************************)
(* The textbook definitions of dominance in a control-flow graph: what the *)
(* Dominators analysis is compared with, and what Mem2Reg works from.  A   *)
(* graph is a function from a block to the set of its successors.          *)
(***************************************************************************)
EXTENDS Naturals, FiniteSets

CONSTANTS Block,        \* the blocks of the function, as numbers
          Entry,        \* get_entry_block()
          Null          \* nullptr

ASSUME BlockAssumption ==
  /\ Block \subseteq Nat /\ IsFiniteSet(Block)
  /\ Entry \in Block /\ Null \notin Block

\* The blocks the entry reaches in the graph s without going through d.
ReachedAvoiding(s, d) ==
  LET reach[k \in Nat] ==
        IF k = 0 THEN {Entry} \ {d}
        ELSE LET seen == reach[k - 1]
             IN  (seen \cup UNION {s[b] : b \in seen}) \ {d}
  IN  reach[Cardinality(Block)]
Reached(s) == ReachedAvoiding(s, Null)

\* d dominates b: without d, b is not reached.
Doms(s) == [d \in Block |-> Reached(s) \ ReachedAvoiding(s, d)]

\* A reachable block has no predecessor that is unreachable.
NoDeadPred(s) == \A b \in Block : \A c \in s[b] : c \in Reached(s) => b \in Reached(s)

\* d is the immediate dominator of b, where doms is Doms(s): it strictly
\* dominates b and every other strict dominator of b dominates it.
StrictlyDominates(doms, d, b) == d # b /\ b \in doms[d]
ImmediatelyDominates(doms, d, b) ==
  /\ StrictlyDominates(doms, d, b)
  /\ \A e \in Block : StrictlyDominates(doms, e, b) => d \in doms[e]

\* The dominance frontier of d: where its dominance ends, at the blocks it
\* does not strictly dominate although it dominates a predecessor of theirs.
Frontier(s, doms, d) ==
  {b \in Reached(s) : /\ \E p \in doms[d] : b \in s[p]
                      /\ ~StrictlyDominates(doms, d, b)}
=============================================================================
