----------------------------- MODULE LoopSearch -----------------------------
(***************************************************************************)
(* The LoopSearch analysis (src/optimization/LoopSearch.cpp) on one        *)
(* function: Tarjan's search for the strongly connected components, one    *)
(* traverse call after the other, the base of every component, and the     *)
(* search again without the bases until no component is left.  Hash sets   *)
(* are visited in any order.  dump_graph writes files and is left out.     *)
(***************************************************************************)
EXTENDS FunctionIR, Loops

CONSTANT Programs       \* the functions considered: bbs and code

ASSUME ProgramsAssumption == \A p \in Programs : EdgesInside(Built(p.bbs, p.code))

VARIABLES prog,                 \* the function the analysis is run on
          pc,                   \* where run() is
          nodes, succs, prevs,  \* the CFGNodes that are left and their edges
          index, lowlink,       \* of each node; -1 is not visited
          stack,                \* the stack of the components
          calls,                \* the traverse calls in progress, innermost last
          sccs,                 \* the components found and not yet recorded
          reserved,             \* the bases taken out
          base2loop,            \* the loops, by base; loop2base is its inverse
          bb2base               \* the base of the innermost loop of each block

tarjan == <<index, lowlink, stack, calls>>
found  == <<base2loop, bb2base>>
searchVars == <<prog, pc, nodes, succs, prevs, tarjan, sccs, reserved, found>>

NotVisited == [n \in Block |-> -1]

\* build_cfg
SearchInit ==
  /\ \E p \in Programs : prog = Built(p.bbs, p.code)
  /\ pc = "search"
  /\ nodes = ToSet(prog.bbs)
  /\ succs = Graph(prog)
  /\ prevs = [b \in Block |-> ToSet(prog.pre[b])]
  /\ index = NotVisited /\ lowlink = NotVisited
  /\ stack = << >> /\ calls = << >>
  /\ sccs = {} /\ reserved = {}
  /\ base2loop = << >> /\ bb2base = << >>

Least(a, b) == IF a < b THEN a ELSE b

-----------------------------------------------------------------------------
(* traverse.                                                               *)

Visited == {n \in nodes : index[n] # -1}

\* The call for n begins: the next index, and n goes on the stack.
Traverse(n, callers) ==
  /\ index'   = [index EXCEPT ![n] = Cardinality(Visited)]
  /\ lowlink' = [lowlink EXCEPT ![n] = Cardinality(Visited)]
  /\ stack'   = Append(stack, n)
  /\ calls'   = Append(callers, [n |-> n, succs |-> succs[n]])

\* for (auto n : nodes) if (n->index == -1)
TraverseRoot ==
  /\ pc = "search" /\ calls = << >>
  /\ \E n \in nodes \ Visited : Traverse(n, << >>)
  /\ UNCHANGED <<prog, pc, nodes, succs, prevs, sccs, reserved, found>>

Top == Last(calls)
ToDo(rest) == [calls EXCEPT ![Len(calls)].succs = rest]

TraverseSucc ==
  /\ pc = "search" /\ calls # << >>
  /\ \E su \in Top.succs \ Visited : Traverse(su, ToDo(Top.succs \ {su}))
  /\ UNCHANGED <<prog, pc, nodes, succs, prevs, sccs, reserved, found>>

\* Mutant of SeeSucc: onStack is not asked for.
SeeSuccOffStack ==
  /\ pc = "search" /\ calls # << >>
  /\ \E su \in Top.succs \cap Visited :
       /\ lowlink' = [lowlink EXCEPT ![Top.n] = Least(index[su], @)]
       /\ calls' = ToDo(Top.succs \ {su})
  /\ UNCHANGED <<prog, pc, nodes, succs, prevs, index, stack, sccs, reserved, found>>

\* A successor seen before counts while it is on the stack.
SeeSucc ==
  /\ pc = "search" /\ calls # << >>
  /\ \E su \in Top.succs \cap Visited :
       /\ lowlink' = [lowlink EXCEPT
                        ![Top.n] = IF su \in ToSet(stack) THEN Least(index[su], @) ELSE @]
       /\ calls' = ToDo(Top.succs \ {su})
  /\ UNCHANGED <<prog, pc, nodes, succs, prevs, index, stack, sccs, reserved, found>>

\* The call ends: the root of a component takes it off the stack, one block
\* alone is dropped, and the caller learns of the lowlink.
Component(n) ==
  LET i == CHOOSE j \in DOMAIN stack : stack[j] = n
  IN  ToSet(SubSeq(stack, i, Len(stack)))

Return ==
  /\ pc = "search" /\ calls # << >> /\ Top.succs = {}
  /\ LET n == Top.n
         root == index[n] = lowlink[n]
     IN  /\ stack' = IF root THEN SubSeq(stack, 1, Len(stack) - Cardinality(Component(n))) ELSE stack
         /\ sccs' = sccs \cup {c \in {Component(n)} : root /\ Cardinality(c) # 1}
         /\ calls' = Front(calls)
         /\ lowlink' = IF Len(calls) = 1 THEN lowlink
                       ELSE [lowlink EXCEPT ![calls[Len(calls) - 1].n] = Least(lowlink[n], @)]
  /\ UNCHANGED <<prog, pc, nodes, succs, prevs, index, reserved, found>>

\* strongly_connected_components returns whether there is one.
EndSearch ==
  /\ pc = "search" /\ calls = << >> /\ Visited = nodes
  /\ pc' = IF sccs = {} THEN "found" ELSE "record"
  /\ index' = NotVisited /\ lowlink' = NotVisited
  /\ UNCHANGED <<prog, nodes, succs, prevs, stack, calls, sccs, reserved, found>>

-----------------------------------------------------------------------------
(* for (auto scc : sccs)                                                   *)

\* find_loop_base: a block with a predecessor outside; when the edges from
\* outside are gone, a block a reserved base leads to.
Bases(scc) ==
  LET entered == {n \in scc : prevs[n] \ scc # {}}
  IN  IF entered # {} THEN entered ELSE scc \cap UNION {succs[r] : r \in reserved}

\* Without a base the program dereferences nullptr.
NoBase ==
  /\ pc = "record"
  /\ \E scc \in sccs : Bases(scc) = {}
  /\ pc' = "crash"
  /\ UNCHANGED <<prog, nodes, succs, prevs, tarjan, sccs, reserved, found>>

\* The edges of base are taken from its neighbours, not from base itself.
TakeOut(base) ==
  /\ nodes' = nodes \ {base}
  /\ prevs' = [n \in Block |-> IF n \in succs[base] THEN prevs[n] \ {base} ELSE prevs[n]]
  /\ succs' = [n \in Block |-> IF n \in prevs[base] THEN succs[n] \ {base} ELSE succs[n]]

\* insert({k, v}) for each k in K: a key that is there keeps its value.
Inserted(map, K, v) == [k \in DOMAIN map \cup K |-> IF k \in DOMAIN map THEN map[k] ELSE v]

\* Mutant of Record: insert() alone, so that a block keeps its outermost base.
RecordKeepsOutermost ==
  /\ pc = "record"
  /\ \E scc \in sccs : \E base \in Bases(scc) :
       /\ base2loop' = Inserted(base2loop, {base}, scc)
       /\ bb2base' = Inserted(bb2base, scc, base)
       /\ reserved' = reserved \cup {base}
       /\ TakeOut(base)
       /\ sccs' = sccs \ {scc}
  /\ UNCHANGED <<prog, pc, tarjan>>

Record ==
  /\ pc = "record"
  /\ \E scc \in sccs : \E base \in Bases(scc) :
       /\ base2loop' = Inserted(base2loop, {base}, scc)
       /\ bb2base' = [b \in DOMAIN bb2base \cup scc |-> IF b \in scc THEN base ELSE bb2base[b]]
       /\ reserved' = reserved \cup {base}
       /\ TakeOut(base)
       /\ sccs' = sccs \ {scc}
  /\ UNCHANGED <<prog, pc, tarjan>>

SearchAgain ==
  /\ pc = "record" /\ sccs = {}
  /\ pc' = "search"
  /\ UNCHANGED <<prog, nodes, succs, prevs, tarjan, sccs, reserved, found>>

Search ==
  \/ TraverseRoot \/ TraverseSucc \/ SeeSucc \/ Return \/ EndSearch
  \/ NoBase \/ Record \/ SearchAgain

-----------------------------------------------------------------------------
(* What the passes ask for; a loop is named by its base.                   *)

\* get_inner_loop, NULL for a block in no loop
get_inner_loop(b) == IF b \in DOMAIN bb2base THEN bb2base[b] ELSE Null

\* The places of those predecessors of base that are not in its loop.
Outsiders(g, base) == {i \in DOMAIN g.pre[base] : g.pre[base][i] \notin base2loop[base]}

\* Mutant of get_parent_loop: the loop of the predecessor, whichever it is.
get_parent_loop_of_pred(base) ==
  LET outside == Outsiders(prog, base)
      loop == get_inner_loop(prog.pre[base][Max(outside)])
  IN  IF outside = {} \/ loop = base THEN Null ELSE loop

\* get_parent_loop: the innermost loop of the first predecessor outside, if
\* the base is in it.
get_parent_loop(base) ==
  LET outside == Outsiders(prog, base)
      loop == get_inner_loop(prog.pre[base][Min(outside)])
  IN  IF outside # {} /\ loop # Null /\ base \in base2loop[loop] THEN loop ELSE Null

-----------------------------------------------------------------------------
(* A block reaches all the blocks of its component and no other that       *)
(* reaches it: when a search is over the components are the strongly       *)
(* connected ones of the graph that is left, in whatever order the hash    *)
(* sets gave the blocks and the edges.                                     *)
ReachOf(n) ==
  LET reach[d \in Nat] ==
        IF d = 0 THEN succs[n]
        ELSE LET seen == reach[d - 1] IN seen \cup UNION {succs[b] : b \in seen}
  IN  reach[Cardinality(Block)]
ComponentsExact ==
  pc = "search" /\ calls = << >> /\ Visited = nodes =>
    LET reach == [n \in nodes |-> ReachOf(n)]
    IN  sccs = {c \in {{m \in reach[n] : n \in reach[m]} : n \in nodes} : Cardinality(c) > 1}

(* On a reducible graph the loops found are the natural ones, the base of  *)
(* each is its header, and each block knows the innermost loop it is in:   *)
(* what ConstPropagation and LoopInvHoist take a loop to be.               *)
LoopsAreNatural ==
  pc \notin {"search", "record"} /\ Reducible(Graph(prog)) =>
    LET loops == NaturalLoops(Graph(prog))
    IN  /\ pc # "crash"
        /\ base2loop = loops
        /\ \A b \in Block : get_inner_loop(b) = InnermostHeader(loops, b)

\* Every loop is entered from one block, which leads nowhere else.
Preheaded ==
  \A h \in DOMAIN base2loop :
    \E p \in Block \ base2loop[h] :
      ToSet(prog.pre[h]) \subseteq base2loop[h] \cup {p} /\ Graph(prog)[p] = {h}

(* On a reducible graph the parent of a loop is a loop around it; where    *)
(* every loop has a block of its own before it, as the loops of the        *)
(* builder have, it is the innermost one.                                  *)
ParentEncloses ==
  pc \notin {"search", "record", "crash"} /\ Reducible(Graph(prog)) =>
    \A h \in DOMAIN base2loop :
      LET others == [g \in DOMAIN base2loop \ {h} |-> base2loop[g]]
          parent == get_parent_loop(h)
      IN  /\ parent # Null => base2loop[h] \subseteq base2loop[parent] /\ parent # h
          /\ Preheaded => parent = InnermostHeader(others, h)
=============================================================================
