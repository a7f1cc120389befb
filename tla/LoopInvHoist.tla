---------------------------- MODULE LoopInvHoist ----------------------------
(***************************************************************************)
(* The LoopInvHoist pass (src/optimization/LoopInvHoist.cpp) on one        *)
(* function, after the LoopSearch it runs: the loops from the innermost    *)
(* out, the rounds over the blocks of a loop that collect what does not    *)
(* depend on it, and the move to the block before the loop; then one       *)
(* execution of the function as it was and as it became, block by block.   *)
(* Hash sets are visited in any order, one round like another or not.      *)
(***************************************************************************)
EXTENDS LoopSearch

CONSTANTS GlobalVar,    \* the global variables, as numbers
          Inputs        \* the numbers input() may read and a call may store

VARIABLES f,            \* the function
          loops_in_func,\* the loops not yet analysed, by base
          loop2child,   \* of a base: may its loop be taken now
          inner_loop,   \* the base of the loop at hand, Null if none
          define_set,   \* the instructions that stay in it
          wait_move,    \* those to be hoisted, in the order found
          left,         \* the blocks still to be visited in this round
          changed,
          run           \* the two executions

loopVars  == <<inner_loop, define_set, wait_move, left, changed>>
hoistVars == <<f, loops_in_func, loop2child, loopVars, run>>
vars == <<searchVars, hoistVars>>

NotRunning == [bb |-> Entry, prev |-> Null, old |-> << >>, new |-> << >>, next |-> Entry]

Init ==
  /\ SearchInit
  /\ f = prog
  /\ loops_in_func = {} /\ loop2child = << >>
  /\ inner_loop = Null /\ define_set = {} /\ wait_move = << >>
  /\ left = {} /\ changed = FALSE
  /\ run = NotRunning

SearchStep == Search /\ UNCHANGED hoistVars

UNCHANGED_search == UNCHANGED <<prog, nodes, succs, prevs, tarjan, sccs, reserved, found>>

-----------------------------------------------------------------------------
\* A loop that is the parent of another is not to be taken first.
CollectLoops ==
  /\ pc = "found"
  /\ pc' = "pick"
  /\ loops_in_func' = DOMAIN base2loop
  /\ LET parents == {get_parent_loop(h) : h \in DOMAIN base2loop}
     IN  loop2child' = [h \in DOMAIN base2loop |-> h \notin parents]
  /\ UNCHANGED <<f, loopVars, run>> /\ UNCHANGED_search

\* The instructions of the loop that begins are its definitions.
BeginLoop(base) ==
  /\ inner_loop' = base
  /\ define_set' = UNION {ToSet(f.list[b]) : b \in base2loop[base]}
  /\ wait_move' = << >>
  /\ left' = base2loop[base] /\ changed' = FALSE

PickLoop ==
  /\ pc = "pick" /\ loops_in_func # {}
  /\ \E base \in {h \in loops_in_func : loop2child[h]} : BeginLoop(base)
  /\ pc' = "collect"
  /\ UNCHANGED <<f, loops_in_func, loop2child, run>> /\ UNCHANGED_search

\* A load, a store, a branch, a phi, a call, a return is never moved; anything
\* else is when no operand is defined in the loop or is a global.
Fixed == {"load", "store", "br", "phi", "call", "input", "output", "ret"}
Invariant(id, defs) ==
  /\ f.ins[id].op \notin Fixed
  /\ \A a \in ToSet(f.ins[id].args) : a[1] # "global" /\ ~(a[1] = "op" /\ a[2] \in defs)

\* One instruction of a block: <<define_set, wait_move>> before and after it.
Take(acc, id) ==
  IF id \in acc[1] /\ Invariant(id, acc[1])
  THEN <<acc[1] \ {id}, Append(acc[2], id)>> ELSE acc

\* All the instructions of block b, in order.
Taken(b) ==
  LET after[k \in 0 .. Len(f.list[b])] ==
        IF k = 0 THEN <<define_set, wait_move>> ELSE Take(after[k - 1], f.list[b][k])
  IN  after[Len(f.list[b])]

CollectInBlock ==
  /\ pc = "collect"
  /\ \E b \in left :
       LET after == Taken(b)
       IN  /\ define_set' = after[1] /\ wait_move' = after[2]
           /\ changed' = (changed \/ after[2] # wait_move)
           /\ left' = left \ {b}
  /\ UNCHANGED <<pc, f, loops_in_func, loop2child, inner_loop, run>> /\ UNCHANGED_search

\* Mutant of CollectAgain: one round is enough.
CollectOnce ==
  /\ pc = "collect" /\ left = {} /\ changed
  /\ changed' = FALSE
  /\ UNCHANGED <<pc, left, f, loops_in_func, loop2child, inner_loop, define_set, wait_move, run>>
  /\ UNCHANGED_search

\* while (changed)
CollectAgain ==
  /\ pc = "collect" /\ left = {} /\ changed
  /\ left' = base2loop[inner_loop] /\ changed' = FALSE
  /\ UNCHANGED <<pc, f, loops_in_func, loop2child, inner_loop, define_set, wait_move, run>>
  /\ UNCHANGED_search

\* The instructions of the queue go to the end of block `prev`, before its
\* branch br; delete_instr also takes the operands' uses by what is moved.
MovedFrom(queue, prev) ==
  LET br == Last(f.list[prev])
      home(id) == CHOOSE b \in base2loop[inner_loop] : id \in ToSet(f.list[b])
      move(g, id) == DeleteInstr(AddInstruction(g, prev, id), home(id), id)
      moved[k \in 0 .. Len(queue)] ==
        IF k = 0 THEN DeleteInstr(f, prev, br) ELSE move(moved[k - 1], queue[k])
  IN  AddInstruction(moved[Len(queue)], prev, br)

\* Mutant of Moved: what was found last is moved first.
MovedLastFirst(prev) == MovedFrom(Reverse(wait_move), prev)

Moved(prev) == MovedFrom(wait_move, prev)

Outside == Outsiders(f, inner_loop)

\* The next loop is the parent of the loop done, even when it was done before.
GoTo(parent) ==
  /\ loops_in_func' = loops_in_func \ {inner_loop}
  /\ IF parent = Null
     THEN /\ pc' = "pick" /\ inner_loop' = Null /\ define_set' = {} /\ wait_move' = << >>
          /\ left' = {} /\ changed' = FALSE
          /\ UNCHANGED loop2child
     ELSE /\ pc' = "begin" /\ loop2child' = [loop2child EXCEPT ![parent] = TRUE]
          /\ inner_loop' = parent
          /\ UNCHANGED <<define_set, wait_move, left, changed>>

\* Mutant of MoveOut: the parent is neither marked nor visited next.
MoveOutThenPick ==
  /\ pc = "collect" /\ left = {} /\ ~changed
  /\ f' = IF Outside = {} THEN f ELSE Moved(f.pre[inner_loop][Min(Outside)])
  /\ GoTo(Null)
  /\ UNCHANGED run /\ UNCHANGED_search

MoveOut ==
  /\ pc = "collect" /\ left = {} /\ ~changed
  /\ f' = IF Outside = {} THEN f ELSE Moved(f.pre[inner_loop][Min(Outside)])
  /\ GoTo(get_parent_loop(inner_loop))
  /\ UNCHANGED run /\ UNCHANGED_search

\* while (inner_loop != nullptr), for the parent
BeginParent ==
  /\ pc = "begin"
  /\ BeginLoop(inner_loop)
  /\ pc' = "collect"
  /\ UNCHANGED <<f, loops_in_func, loop2child, run>> /\ UNCHANGED_search

Finish ==
  /\ pc = "pick" /\ loops_in_func = {}
  /\ pc' = "run"
  /\ run' = [NotRunning EXCEPT !.old = Machine(GlobalVar), !.new = Machine(GlobalVar)]
  /\ UNCHANGED <<f, loops_in_func, loop2child, loopVars>> /\ UNCHANGED_search

\* Both functions run the block the old one is at.
RunBlock ==
  /\ pc = "run" /\ run.bb # Null /\ run.next = run.bb
  /\ \E x \in Inputs :
       LET old == Execute(prog, run.old, run.bb, run.prev, x)
           new == Execute(f, run.new, run.bb, run.prev, x)
       IN  run' = [bb |-> NextBlock(prog, old, run.bb), prev |-> run.bb, old |-> old, new |-> new,
                   next |-> NextBlock(f, new, run.bb)]
  /\ UNCHANGED <<pc, f, loops_in_func, loop2child, loopVars>> /\ UNCHANGED_search

Pass ==
  \/ SearchStep \/ CollectLoops \/ PickLoop
  \/ CollectInBlock \/ CollectAgain \/ MoveOut \/ BeginParent \/ Finish

Next == Pass \/ RunBlock

\* The pass is one thread that runs whenever it can.
Spec == Init /\ [][Next]_vars /\ WF_vars(Pass)

-----------------------------------------------------------------------------
(* Whatever the function shows before the pass it shows after it, and both *)
(* take the same way: nothing is moved that a path of the loop decides.    *)
MeaningPreserved ==
  pc = "run" => /\ run.next = run.bb
                /\ run.prev # Null => run.old.shown = run.new.shown

(* After the pass nothing that does not depend on a loop is left in it,    *)
(* the loops around it included: what leaves an inner loop is considered   *)
(* again in every loop it comes to.                                        *)
NothingInvariantLeft ==
  pc = "run" /\ run.prev = Null /\ Preheaded =>
    \A h \in DOMAIN base2loop :
      LET defs == UNION {ToSet(f.list[b]) : b \in base2loop[h]}
      IN  \A id \in defs : ~Invariant(id, defs)

(* The search for loops and the hoisting come to an end: every loop gets   *)
(* its turn, and a round that moves something leaves less to move.         *)
Terminates == <>(pc = "run")
=============================================================================
