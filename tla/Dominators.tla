----------------------------- MODULE Dominators -----------------------------
(***************************************************************************)
(* The Dominators analysis (src/optimization/Dominators.cpp) of one        *)
(* function: depth-first numbering, the iterative immediate-dominator      *)
(* computation with the two-finger intersect, dominance frontiers, and the *)
(* children of the dominator tree.  One behaviour is one call of run() on  *)
(* one graph.                                                              *)
(*                                                                         *)
(* Where the code walks a list of predecessors or successors the order is  *)
(* left open, so a result that holds here holds for every order in which   *)
(* the branches of the function were created.                              *)
(***************************************************************************)
EXTENDS Dominance, Sequences

CONSTANT Graphs         \* the control-flow graphs considered

ASSUME GraphsAssumption == Graphs \subseteq [Block -> SUBSET Block]

VARIABLES succ,         \* get_succ_basic_blocks() of every block
          pc,           \* what run() is doing
          path,         \* the post_order_visit calls in progress, innermost last
          visited,      \* the `visited` set of post_order_visit
          post,         \* post_order_id_
          order,        \* the blocks in the order post_order_visit left them
          idom,         \* idom_
          changed, i,   \* create_idom: the flag, the position in reverse_post_order_
          todo,         \* create_idom: predecessors not merged yet
          new_idom,     \* create_idom: the dominator merged so far
          b1, b2,       \* intersect: the two fingers
          work,         \* create_dominance_frontier: <<bb, p>> pairs not done yet
          runner,       \* create_dominance_frontier: the runner
          dom_frontier, \* dom_frontier_
          tree_succ,    \* dom_tree_succ_blocks_
          failed        \* an assertion has failed

vars == <<succ, pc, path, visited, post, order, idom, changed, i, todo, new_idom,
          b1, b2, work, runner, dom_frontier, tree_succ, failed>>

dfsVars   == <<path, visited, post, order>>
mergeVars == <<todo, new_idom, b1, b2>>
frontVars == <<work, runner, dom_frontier>>

\* get_pre_basic_blocks()
Pred(b) == {p \in Block : b \in succ[p]}

\* reverse_post_order_, the k-th block of it
RPO(k) == order[Len(order) + 1 - k]

Init ==
  /\ succ \in Graphs
  /\ pc = "dfs"
  /\ path = <<Entry>> /\ visited = {Entry}
  /\ post = [b \in Block |-> 0] /\ order = << >>
  /\ idom = [b \in Block |-> Null]
  /\ changed = TRUE /\ i = 0
  /\ todo = {} /\ new_idom = Null /\ b1 = Null /\ b2 = Null
  /\ work = {} /\ runner = Null
  /\ dom_frontier = [b \in Block \cup {Null} |-> {}]
  /\ tree_succ = [b \in Block \cup {Null} |-> {}]
  /\ failed = FALSE

-----------------------------------------------------------------------------
\* post_order_visit: a successor that was not visited is visited next ...
Descend ==
  /\ pc = "dfs" /\ path # << >>
  /\ \E b \in succ[path[Len(path)]] \ visited :
        /\ path' = Append(path, b)
        /\ visited' = visited \cup {b}
  /\ UNCHANGED <<succ, pc, post, order, idom, changed, i, mergeVars, frontVars, tree_succ, failed>>

\* Mutant of Leave: the numbers run down instead of up.
LeaveNumbersDown ==
  /\ pc = "dfs" /\ path # << >>
  /\ LET bb == path[Len(path)]
     IN  /\ succ[bb] \subseteq visited
         /\ post' = [post EXCEPT ![bb] = Cardinality(Block) - Len(order)]
         /\ order' = Append(order, bb)
  /\ path' = SubSeq(path, 1, Len(path) - 1)
  /\ UNCHANGED <<succ, pc, visited, idom, changed, i, mergeVars, frontVars, tree_succ, failed>>

\* ... and a block all of whose successors were is numbered and left.
Leave ==
  /\ pc = "dfs" /\ path # << >>
  /\ LET bb == path[Len(path)]
     IN  /\ succ[bb] \subseteq visited
         /\ post' = [post EXCEPT ![bb] = Len(order)]
         /\ order' = Append(order, bb)
  /\ path' = SubSeq(path, 1, Len(path) - 1)
  /\ UNCHANGED <<succ, pc, visited, idom, changed, i, mergeVars, frontVars, tree_succ, failed>>

\* create_idom: the root is its own dominator, no other block has one yet.
StartIdom ==
  /\ pc = "dfs" /\ path = << >>
  /\ idom' = [b \in Block |-> IF b = Entry THEN Entry ELSE Null]
  /\ changed' = TRUE
  /\ pc' = "pass"
  /\ UNCHANGED <<succ, dfsVars, i, mergeVars, frontVars, tree_succ, failed>>

\* while (changed)
StartPass ==
  /\ pc = "pass" /\ changed
  /\ changed' = FALSE /\ i' = 1
  /\ pc' = "block"
  /\ UNCHANGED <<succ, dfsVars, idom, mergeVars, frontVars, tree_succ, failed>>

\* for (auto bb : reverse_post_order_): the root is skipped,
SkipRoot ==
  /\ pc = "block" /\ i <= Len(order) /\ RPO(i) = Entry
  /\ i' = i + 1
  /\ UNCHANGED <<succ, pc, dfsVars, idom, changed, mergeVars, frontVars, tree_succ, failed>>

\* Mutant of FindPred: the first predecessor of the list is taken as it is.
FindPredTakesFirst ==
  /\ pc = "block" /\ i <= Len(order) /\ RPO(i) # Entry
  /\ \E p \in Pred(RPO(i)) :
        /\ new_idom' = p
        /\ todo' = Pred(RPO(i)) \ {p}
        /\ failed' = (idom[p] = Null)
        /\ pc' = IF idom[p] = Null THEN "abort" ELSE "merge"
  /\ UNCHANGED <<succ, dfsVars, idom, changed, i, b1, b2, frontVars, tree_succ>>

\* any other block starts from a predecessor that has a dominator; assert(pred).
FindPred ==
  /\ pc = "block" /\ i <= Len(order) /\ RPO(i) # Entry
  /\ \/ \E p \in Pred(RPO(i)) :
           /\ idom[p] # Null
           /\ new_idom' = p
           /\ todo' = Pred(RPO(i)) \ {p}
           /\ pc' = "merge"
           /\ UNCHANGED failed
     \/ /\ \A p \in Pred(RPO(i)) : idom[p] = Null
        /\ failed' = TRUE /\ pc' = "abort"
        /\ UNCHANGED <<new_idom, todo>>
  /\ UNCHANGED <<succ, dfsVars, idom, changed, i, b1, b2, frontVars, tree_succ>>

\* Each further predecessor that has a dominator is intersected in.
StartIntersect ==
  /\ pc = "merge"
  /\ \E p \in todo :
        /\ idom[p] # Null
        /\ todo' = todo \ {p}
        /\ b1' = p /\ b2' = new_idom
  /\ pc' = "intersect"
  /\ UNCHANGED <<succ, dfsVars, idom, changed, i, new_idom, frontVars, tree_succ, failed>>

\* The finger that is lower in post-order climbs; assert(get_idom(finger)).
Climb ==
  /\ pc = "intersect" /\ b1 # b2
  /\ LET low == IF post[b1] < post[b2] THEN b1 ELSE b2
     IN  IF idom[low] = Null
         THEN /\ failed' = TRUE /\ pc' = "abort"
              /\ UNCHANGED <<b1, b2>>
         ELSE /\ b1' = IF low = b1 THEN idom[b1] ELSE b1
              /\ b2' = IF low = b2 THEN idom[b2] ELSE b2
              /\ UNCHANGED <<failed, pc>>
  /\ UNCHANGED <<succ, dfsVars, idom, changed, i, todo, new_idom, frontVars, tree_succ>>

EndIntersect ==
  /\ pc = "intersect" /\ b1 = b2
  /\ new_idom' = b1
  /\ pc' = "merge"
  /\ UNCHANGED <<succ, dfsVars, idom, changed, i, todo, b1, b2, frontVars, tree_succ, failed>>

\* The end of one block of the pass.
SetIdomOf(merged, change, step) ==
  /\ pc = "merge" /\ merged
  /\ idom' = [idom EXCEPT ![RPO(i)] = new_idom]
  /\ changed' = change
  /\ i' = i + step
  /\ pc' = "block"
  /\ UNCHANGED <<succ, dfsVars, mergeVars, frontVars, tree_succ, failed>>
AllMerged == \A p \in todo : idom[p] = Null

\* Mutants of SetIdom: the other predecessors are not merged, the flag is always
\* set.
SetIdomUnmerged == SetIdomOf(TRUE, changed \/ idom[RPO(i)] # new_idom, 1)
SetIdomAlwaysChanged == SetIdomOf(AllMerged, TRUE, 1)

\* if (get_idom(bb) != new_idom) { set_idom(bb, new_idom); changed = true; }
SetIdom == SetIdomOf(AllMerged, changed \/ idom[RPO(i)] # new_idom, 1)

EndPass ==
  /\ pc = "block" /\ i > Len(order)
  /\ pc' = "pass"
  /\ UNCHANGED <<succ, dfsVars, idom, changed, i, mergeVars, frontVars, tree_succ, failed>>

-----------------------------------------------------------------------------
\* Mutant of StartFrontier: a block needs three predecessors.
StartFrontierThreePreds ==
  /\ pc = "pass" /\ ~changed
  /\ work' = {e \in Block \X Block : e[2] \in Pred(e[1]) /\ Cardinality(Pred(e[1])) > 2}
  /\ pc' = "frontier"
  /\ UNCHANGED <<succ, dfsVars, idom, changed, i, mergeVars, runner, dom_frontier, tree_succ, failed>>

\* create_dominance_frontier: every predecessor of every block that has two.
StartFrontier ==
  /\ pc = "pass" /\ ~changed
  /\ work' = {e \in Block \X Block : e[2] \in Pred(e[1]) /\ Cardinality(Pred(e[1])) >= 2}
  /\ pc' = "frontier"
  /\ UNCHANGED <<succ, dfsVars, idom, changed, i, mergeVars, runner, dom_frontier, tree_succ, failed>>

\* The next pair <<bb, p>>, in the order of the block list.
Next2 == CHOOSE e \in work : \A d \in work : e[1] < d[1] \/ (e[1] = d[1] /\ e[2] <= d[2])

StartRunner ==
  /\ pc = "frontier" /\ work # {}
  /\ runner' = Next2[2]
  /\ pc' = "run"
  /\ UNCHANGED <<succ, dfsVars, idom, changed, i, mergeVars, work, dom_frontier, tree_succ, failed>>

\* get_idom(nullptr) is the nullptr that idom_[nullptr] is created with.
IdomOf(b) == IF b = Null THEN Null ELSE idom[b]

\* while (runner != get_idom(bb)) { add bb to its frontier; runner = get_idom(runner); }
Run ==
  /\ pc = "run" /\ runner # idom[Next2[1]]
  /\ dom_frontier' = [dom_frontier EXCEPT ![runner] = @ \cup {Next2[1]}]
  /\ runner' = IdomOf(runner)
  /\ UNCHANGED <<succ, pc, dfsVars, idom, changed, i, mergeVars, work, tree_succ, failed>>

EndRunner ==
  /\ pc = "run" /\ runner = idom[Next2[1]]
  /\ work' = work \ {Next2}
  /\ pc' = "frontier"
  /\ UNCHANGED <<succ, dfsVars, idom, changed, i, mergeVars, runner, dom_frontier, tree_succ, failed>>

\* Mutant of CreateDomTreeSucc: the root is a child of itself.
CreateDomTreeSuccWithRoot ==
  /\ pc = "frontier" /\ work = {}
  /\ tree_succ' = [d \in Block \cup {Null} |-> {b \in Block : idom[b] = d}]
  /\ pc' = "done"
  /\ UNCHANGED <<succ, dfsVars, idom, changed, i, mergeVars, frontVars, failed>>

\* create_dom_tree_succ: every block but the root is a child of its dominator.
CreateDomTreeSucc ==
  /\ pc = "frontier" /\ work = {}
  /\ tree_succ' = [d \in Block \cup {Null} |-> {b \in Block : idom[b] = d /\ idom[b] # b}]
  /\ pc' = "done"
  /\ UNCHANGED <<succ, dfsVars, idom, changed, i, mergeVars, frontVars, failed>>

Next ==
  \/ Descend \/ Leave
  \/ StartIdom \/ StartPass \/ SkipRoot \/ FindPred
  \/ StartIntersect \/ Climb \/ EndIntersect \/ SetIdom \/ EndPass
  \/ StartFrontier \/ StartRunner \/ Run \/ EndRunner
  \/ CreateDomTreeSucc

\* run() is called once and nothing interrupts it.
Spec == Init /\ [][Next]_vars /\ WF_vars(Next)

-----------------------------------------------------------------------------
(* assert(pred) in create_idom and the two assert(get_idom(...)) in        *)
(* intersect hold, in whatever order the edges are listed.                 *)
AssertionsHold == ~failed

(* While the dominators are still being improved, climbing from a block    *)
(* always goes to a larger post-order number: this is why intersect ends.  *)
IdomClimbs ==
  \A b \in Block \ {Entry} : idom[b] # Null => post[b] < post[idom[b]]

(* create_idom ends with the immediate dominators of the reachable blocks  *)
(* and none for the others.                                                *)
IdomCorrect ==
  pc \in {"frontier", "run", "done"} =>
    LET doms == Doms(succ)
    IN  \A b \in Block \ {Entry} :
          IF b \in Reached(succ) THEN ImmediatelyDominates(doms, idom[b], b) ELSE idom[b] = Null

(* The dominance frontier of a reachable block is the set of blocks where  *)
(* its dominance ends: it dominates a predecessor, but not strictly the    *)
(* block.  Mem2Reg places its phis there.                                  *)
FrontierCorrect ==
  pc = "done" =>
    LET doms == Doms(succ)
    IN  \A d \in Reached(succ) : dom_frontier[d] = Frontier(succ, doms, d)

(* The dominator tree reaches each reachable block exactly once from the   *)
(* entry, so re_name visits it exactly once.                               *)
TreeCorrect ==
  pc = "done" =>
    /\ \A b \in Block : Cardinality({d \in Reached(succ) : b \in tree_succ[d]})
                          = (IF b \in Reached(succ) \ {Entry} THEN 1 ELSE 0)
    /\ ReachedAvoiding([b \in Block |-> tree_succ[b]], Null) = Reached(succ)

(* run() returns.                                                          *)
Terminates == <>(pc \in {"done", "abort"})
=============================================================================
