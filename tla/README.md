# A verification project for the Cminusf compiler

The repository is a small optimising compiler: Cminusf source is parsed, turned
into LightIR (an LLVM-like intermediate representation), optimised by a list of
passes, printed as LLVM IR and handed to clang. Everything runs in one thread, to
completion, over data structures that are linked by raw pointers and kept
consistent by hand. What is hard here is not concurrency but *order*: long
sequences of legal edits of shared structures, sets that are walked in the order of
their addresses, fixpoints that must end, and results of one pass that another
takes for granted. The specifications below are about these.

Paths in this file are relative to the repository's root (`src/src/...` is the
`src` directory of the repository, `src/include/...` its headers).

## The system

| Part | State it keeps | Operations | Hard because |
|---|---|---|---|
| Lexer, parser (`src/lexer`, `src/parser`) | position, syntax tree | one pass over the input | generated automata |
| AST (`src/common/ast.cpp`) | tree | turns the syntax tree into the one the visitors walk | left-recursive lists, optional children told apart by their number |
| `CminusfBuilder` (`src/cminusfc/cminusf_builder.cpp`) | insertion block, scope stack with its name maps, `tmp_val`, `require_lvalue`, `pre_enter_scope`, the functions | one `visit` per node kind, recursive | state is handed over between visits through globals; blocks are created before it is known whether they are needed |
| LightIR def-use (`User.cpp`, `Value.cpp`) | operand vectors, use lists | construct, `set_operand`, `add_operand`, `replace_all_use_with`, `remove_use`, `remove_operands` | the two structures repeat each other and are updated separately |
| LightIR graph (`BasicBlock`, `Function`, `BranchInst`) | blocks, instruction lists, predecessor and successor lists | create, branch, erase | lists repeat what branches say |
| `Dominators` | post-order numbers, `idom_`, frontiers, tree | `run`: depth-first search, fixpoint, frontiers, tree | termination, pointer-ordered sets, unreachable blocks |
| `Mem2Reg` | `var_val_stack` (a global), phis | `generate_phi`, `re_name`, `remove_alloca` | recursion over the dominator tree with stacks; deferred deletion |
| `ConstPropagation` | `const_val_stack`, `globalConstVar`, `deleteBlockSet` | folding to a fixpoint, folding of branches, phi repair | edits structures while walking them |
| `LoopSearch` | sets of blocks, loop bases | iterated Tarjan search | unordered sets; one entry per loop is assumed |
| `LoopInvHoist` | loops still to do, `define_set` | moves instructions to the preheader | uses `LoopSearch` and the use lists |
| `ActiveVars` | `live_in`, `live_out` | use/def sets, fixpoint | phis |
| `PassManager`, driver (`cminusfc.cpp`) | the list of passes | runs them in order | `Mem2Reg` always runs, and first |

How they interact: the parser hands its tree to `AST`, the builder visits that and
creates functions through the LightIR constructors (each records its uses and, for
branches, the edges of the graph). The driver (`src/cminusfc/cminusfc.cpp`) then runs
the passes in a fixed order: `Mem2Reg` always, and as options ask for them
`LoopSearch`, `ConstPropagation`, `ActiveVars`, `LoopInvHoist`. `Mem2Reg` calls
`Dominators` on the graph the builder left; `ConstPropagation` and `LoopInvHoist` run
a `LoopSearch` of their own. All of them take SSA form, the edge lists and the shape
of the builder's loops for granted. The specifications follow these seams: each
component's specification makes the assumptions about its input that the code
makes, and the component before it is checked to establish them.

## Modules

Each component has a module; `MC_`*module* gives it values for TLC,
*module*`_proofs` proves about it.

From source to LightIR:

* `SyntaxTree` - the trees the grammar's actions build, one operator per rule.
* `AST` - `AST::transform_node_iter`: the spine of a left-recursive list is pushed
  and popped, the other nodes are told apart by the number of their children.
* `CminusfBuilder` - the control flow of the visitor. A `visit` that calls `accept`
  is cut at that call; the C++ stack is the variable `stk`, whose frames say where to
  resume. The syntax tree is chosen while it is visited, so one behaviour is one
  program. `insert` is the insertion block, `depth` the size of the scope stack,
  `preEnter` the flag `pre_enter_scope`. Values and types are left out: an
  expression is ordinary code plus the two blocks of each array-index check.
* `LightCFG` - the operations on the graph of one function that it needs, as
  operators on a record (blocks, predecessor and successor lists, instructions).
* `CminusfValues` - the visitor again, on a given program, with everything
  `CminusfBuilder` leaves out: `tmp_val`, `require_lvalue`, the name maps of `Scope`
  (`inner`), the types, `promote` and the conversions, and the instructions.
  `stk` is the C++ stack again; `ir` is the module with its functions and the
  insertion block. A type is a sequence (a pointer, then what it points to), a
  float a whole number of halves. The same module executes the LightIR it built.
* `CminusfMeaning` - the reference for that: what a program means, read off the
  syntax tree and `Documentations/common/cminusf.md`, with no LightIR in it. It does
  not use `AST` either, so a list that `AST` turned round is seen as well.

Def-use and the graph:

* `OperandMap` - the abstract specification of the def-use bookkeeping: just the
  operands of the instructions that are in blocks; a replacement replaces a value
  everywhere, a deletion removes an instruction nothing uses.
* `UseDef` - operand vectors *and* use lists as the code keeps them.
  `operands_`, `use_list_`, `instr_list_` are the fields of those names; `made`
  and `replaced` record what the passes have done, which fixes the order in which
  the API is called (a pass replaces an instruction once and deletes it later, from
  its `wait_delete` vector). Operand numbers start at 1 instead of 0. A use list is
  a set: `replace_all_use_with` visits all records and `remove_use` removes all of
  a user's, so neither depends on order or multiplicity.
* `FunctionIR` - one whole function: blocks with their edge lists, instructions
  with operands and the block they were created in, use lists with operand numbers;
  the operations the passes call (`SetOperands`, `DeleteInstr`, `RemovePair`,
  `CreateBr`, `RemoveBlocks`, ...) as operators from function to function, and what a
  block does when it is run. Instructions that depend on the outside (`input`, a
  `call`, which may store to a global) take a number the model chooses.

Analyses and passes:

* `Dominance`, `Loops` - textbook definitions: reachability, dominance, frontiers,
  natural loops, reducibility. `Dominance_proofs` proves about the first, and about
  iterations in general.
* `Dominators` - `Dominators::run` step by step: `post_order_visit` (`Descend`,
  `Leave`), `create_idom` (`StartPass` ... `EndPass`), `intersect` (`Climb`,
  `EndIntersect`), `create_dominance_frontier` (`StartRunner`, `Run`, `EndRunner`),
  `create_dom_tree_succ`. Predecessors and successors are taken in any order.
  `create_doms` is not modelled: nothing calls it.
* `Mem2Reg` - `generate_phi` one work-list entry at a time, `re_name` one
  instruction at a time with its recursion as the variable `calls`,
  `remove_alloca`; then `RunBlock` executes the function as it was and as it became,
  block by block along the same path. `replace_all_use_with` is the replacement of
  every operand, which is what `UseDef` establishes; the dominators are those of
  `Dominance`, which is what the runs of `Dominators` establish. `std::set`s of
  pointers (children, frontiers, the work list) are taken in any order. A variable
  stands for its `AllocaInst`, and `output` for every use that is not a store.
* `ConstPropagation` - `run` on one function: what happens to a block
  (`DeleteLoop`, `DeletePredless`, `EnterBlock`), one action per kind of instruction,
  the branch at the end (`KeepBranch`, `FoldTrue`, `FoldFalse`), the next round, the
  removal of `deleteBlockSet`; then the two executions side by side. Its loops are
  those of `Loops`, which is what `LoopSearch` is proved to find. `FoldableCode` says of
  which functions the proofs about it are.
* `LoopSearch` - Tarjan's search with the recursion of `traverse` as `calls`,
  the base of a component, the search again without the bases. Hash sets are taken in
  any order. A loop is known by its base.
* `LoopInvHoist` - on top of it: which loop is next (`PickLoop`), the rounds over
  its blocks (`CollectInBlock`, `CollectAgain`), the move (`MoveOut`), the parent
  (`BeginParent`); then the two executions.
* `ActiveVars` - the use and def sets instruction by instruction, then the rounds of
  the equations.

Definitions whose comment says "Mutant of" and those that start with the name of an
action and go on (`EndReNamePopsPhis`, `SetIdomUnmerged`, ...) are faulty variants.
They are not part of any next-state relation: each is put in place of the right
one to see that a property notices.

## Runs

| Run | Shows | Bounds |
|---|---|---|
| `values_core` | the LightIR means what the source means, is well typed, `require_lvalue` reaches only its target | 454 programs of six families (operators and conversions, chains, nested assignments, shadowing, calls with arrays, statements with early returns); ints of 5 bits, two input sequences, nine pairs of arguments |
| `values_assign_order` | a disagreement | one program |
| `builder_cfg` | the emitted graph is well formed | two declarations, five statements, nine blocks per function |
| `usedef_core` | def-use consistency, no dangling operand, the assertion of `set_operand`, refinement of `OperandMap` | one phi, two other instructions, one constant, two blocks; one operand, two pairs |
| `dominators_small` | termination and correctness of the analysis | all graphs of four blocks with at most two successors each, no edge to the entry, no reachable block with an unreachable predecessor |
| `dominators_dead_join` | a disagreement | one graph of seven blocks |
| `mem2reg_ssa` | SSA form and unchanged meaning | two variables; if, if else, while, if in while; eight code fragments per block |
| `mem2reg_uninit` | a disagreement | one program |
| `constprop_core` | termination, unchanged meaning, exact graph, nothing left to fold, use lists in step | if, if else, early return, while, and their nestings, up to six blocks, seven fragments per block; ints of 3 bits, one global, inputs 0 and 1 |
| `constprop_live_block` | a disagreement | one program |
| `loop_hoist` | the natural loops and their nesting, termination, unchanged meaning, nothing invariant left | every reducible graph of five blocks with at most two successors each (up to numbering), and simple, nested, conditional and chained loops of up to seven blocks with four fragments per block |
| `active_vars` | termination, liveness | an if else (four blocks) and a loop with an if (seven blocks), six fragments per block, phis of every mix of values |

Why these bounds are enough to be interesting. *Values*: a float and an int meet in
both orders under each group of operators and in each target; three operands tell
left from right grouping; a name is shadowed and used before, in and after its
scope; arguments of four types read inputs, so their order shows. 5 bits let
the constants of the programs be told apart and still wrap. *Def-use*: with two pairs
a phi can give up its last one, keep the other and be filled again; two other
instructions are a use in one and a definition in the other. *Builder*: five
statements allow an if inside a while inside an if, a return in either branch and
code after it; with ten blocks (321 000 states) the result is the same.
*Dominators*: four blocks include nested and irreducible loops (1 -> 2, 3; 2 <-> 3),
back edges seen before their source has a dominator, and joins of joins; all graphs
are taken. *Mem2Reg*: a definition in one branch of an if inside a loop
needs a phi because of a phi, two variables that are swapped in a loop tell parallel
phis from sequential ones, a value read before the variable is overwritten tells
values from variables, and blocks 5 and 6 of the smaller graphs are unreachable.
*ConstPropagation*: nested conditions that both fold, a dead loop behind a folded
condition, phis that lose a pair and then are constants themselves, which takes
several rounds. *Loops*: five blocks hold three nested or two disjoint loops and loops
left from the middle; the chain needs two rounds to collect because its blocks are
visited in the wrong order. *ActiveVars*: a value that is only live around the back
edge, one only through a phi, one through both branches, and a constant that is cast in
one block and taken by a phi in another.

`CHECK_DEADLOCK FALSE` is in every configuration because every behaviour is a
call that returns (or an edit sequence that uses up its bound).

### What the passing runs leave out

The passes do not do the right thing on every function (see *Findings* and *Known
behaviours*), so their passing runs are on the functions on which they do:

* `Dominators`: no reachable block has an unreachable predecessor (`NoDeadPred`).
* `Mem2Reg`: `InitialisedRunsThrough`, `PhisComplete` and `InSSAForm` are about
  functions whose variables all start with a value (`Initialised`); no reachable block
  has an unreachable predecessor (`NoDeadPred`), because otherwise the dominators are
  never found.
* `ConstPropagation`: no block stores a constant to a global, calls and loads it
  again; a load that is replaced is used in its own block; no folding cuts the back
  edge of a loop that stays; no division by a constant zero; no `if (1)`
  whose join has a phi; floats compared for equality are equal or at least 1 apart;
  nothing is replaced in a phi after it lost a pair that is not its last; no phi that
  loses a pair holds the pair's value twice.
* `LoopSearch`: `LoopsAreNatural` and `ParentEncloses` are about reducible graphs,
  the second one's sharper half about loops with a block of their own before them
  (`Preheaded`), which is what the builder makes of a `while`.
* `LoopInvHoist`: no division in a loop.
* `ActiveVars`: `LivenessExact` is about functions with `PhisUnambiguous`, where a
  phi takes each value from one block; for the others `NothingTooMuch` still says that
  nothing is reported without a reason, not that nothing is missing. Both count a
  constant as read where a cast converts it, as the analysis does (see *Known
  behaviours*). All functions are `WellFormed`, see `ActiveVars_proofs`.
* `UseDef`: no value is replaced by itself, which no caller does; a phi gives up its
  last pair only, whose operands occur nowhere else in it. `ConstPropagation` has the pair of any dead block go, and `UsesInStep` of
  `constprop_core` looks at its use lists, with the exceptions named above.
* `CminusfValues`: the subscript and the right side of one assignment do not
  interfere; programs are valid (names declared once per scope, types that C would
  take). Each function is run by itself: a call of another function shows its
  arguments and gives a fixed answer, and after `neg_idx_except` the memory is not
  compared.

### Fairness

`Dominators` has `WF_vars(Next)`, `ActiveVars` too; `ConstPropagation` and
`LoopInvHoist` have `WF_vars(Pass)`, for the pass and not for the execution that
follows it (an executed loop need not end). Each pass is a sequential call that
nothing suspends, so the only way not to terminate is to go on for ever. The
liveness violation of `dominators_dead_join` is such a behaviour: `Run` is enabled
for ever and leaves the state unchanged, as the loop in the code does.

### Properties

* `CminusfBuilder`: `TerminatorIsLast` at every point of the visit,
  `EdgesMatchBranches` (lists against branches, at every point), `FunctionComplete`,
  `EntryHasNoPred` (what `Dominators` needs of the root), `ScopesBalanced`,
  `SingleEntryLoops` (what `LoopSearch` assumes).
* `CminusfValues`: `MeaningPreserved` (each function shows the same calls in the
  same order, returns the same, leaves the same in globals and arrays as
  `CminusfMeaning` says), `InstructionsTyped` (what the commented-out `assertValid`
  would check), `LvalueForTargetOnly`.
* `UseDef`: `DefUseExact` (the use list of a value that was not replaced is exactly
  the slots it occupies), `NoDanglingOperand`, `SetOperandInRange` (the assertion in
  `set_operand`), `ImplementsOperandMap`.
* `Dominators`: `AssertionsHold` (three assertions), `IdomClimbs` (why `intersect`
  ends), `IdomCorrect`, `FrontierCorrect`, `TreeCorrect` (what `re_name` recurses
  over), `Terminates`.
* `Mem2Reg`: `MeaningPreserved` (whatever the function shows, it still shows; a
  variable read before it was assigned may be anything), `InSSAForm`,
  `PhisComplete`, `StacksFollowCalls` (a call of `re_name` leaves the global stacks
  as it found them), `InitialisedRunsThrough` (no assertion and no undefined
  `back()` when every variable starts with a value).
* `ConstPropagation`: `MeaningPreserved` (also: the execution never comes to a block
  that was removed), `BlocksExact` (the blocks left are the reachable ones, the edge
  lists are those of the branches), `PhisMatchPreds`, `NothingLeftToFold`,
  `UsesInStep` (between any two steps the use list of an instruction that stays
  matches the places that hold it, and nothing that stays names what goes; of a phi
  that lost a pair the records are counted, their numbers may be off), `Terminates`.
* `LoopSearch`: `ComponentsExact` (Tarjan's search against mutual reachability, on
  every graph that is left in every round), `LoopsAreNatural`, `ParentEncloses`.
* `LoopInvHoist`: `MeaningPreserved`, `NothingInvariantLeft`, `Terminates`.
* `ActiveVars`: `NothingTooMuch`, `LivenessExact`, `Terminates`.

## Proofs

### `UseDef_proofs`

For every set of values, instructions, blocks and every bound, `Spec` implies
`[]DefUseExact`, `[]NoDanglingOperand`, `[]SetOperandInRange` and the
refinement `ImplementsOperandMap`. The assumptions are those of `UseDef`
(`ValueAssumption`, `BoundAssumption`).

The invariants are proved together, and with `TypeOK`, as `IInv`. None is inductive alone: that
`set_operand` stays in range needs `DefUseExact` (a record names an existing slot);
that `DefUseExact` survives a replacement needs that every slot of the replaced
value had a record, or the slot would still hold a value that is now marked as
replaced; and that nothing dangles after `delete_instr` needs that a replaced
instruction has no slot left. Where a replaced value's own list is concerned,
nothing is claimed: the code leaves it stale, which is why `DefUseExact` speaks of
values that were not replaced only. There is one lemma per action; `StepSimulation`
maps each step to a step of `OperandMap` or to a stutter.

The theorems are about a `Next` in which a phi gives up its last pair, and only when
the operands of that pair occur nowhere else in it. Where any pair may go, as in
`ConstPropagation`, records go wrong (see *Known behaviours*): the precondition is
exactly what the code would have to respect.

### `CminusfBuilder_proofs`

For programs of any size (`MaxBlocks`, `MaxDecls`, `MaxStmts` are constants of which
only `MaxBlocksAssumption` and `BoundAssumption` are known), `Spec` implies
`[]TypeOK`, `[]TerminatorIsLast`, `[]EntryHasNoPred`, `[]ScopesBalanced`,
`[]FunctionComplete`, `[]EdgesMatchBranches` and `[]SingleEntryLoops`: everything
`builder_cfg` checks.

The properties say nothing about the stack of open visits, and none is
inductive without it: that the last statement of a while may branch back to the
condition needs that the block is still there, that `falseBB` may be erased needs
that nothing branches to it. `IInv` adds:

* `StackOK` - which frame may be above which, that the blocks the frames owe code to
  (the branches of an if not yet visited, its join, the block after a while) are
  different from each other, and which scope each compound has;
* `GraphOK` - owed blocks are empty, a block that will be erased has no predecessor
  and no branch to it, every other block but the insertion block is terminated,
  every branch goes to a block of the function or one that is owed;
* the insertion block is not terminated whenever the top frame is about to emit
  code, and it is none of the owed blocks;
* the condition blocks of open whiles are in the function and not owed.

`FunctionComplete` is `GraphOK` with an empty stack: nothing is owed then. There is
one lemma per operation of `LightCFG` (what it does to `GraphOK`), one per way the
stack changes (push, pop, resume), and one per action. TLC agrees with `IInv` on
a smaller instance than that of `builder_cfg`.

`EdgesMatchBranches` is a theorem of its own (`ListsMatchBranches`) with `EdgesOK`:
a list of predecessors or successors has as many occurrences of a block as there
are branches that put it there. What it needs beside `IInv` is what erasing takes
away: `erase_from_parent` of `falseBB` may filter the lists of every block because
nothing branches to it and it branches nowhere (`GraphOK`).

`SingleEntryLoops` (`LoopsHaveOneEntry`) is about cycles of the finished function and
says nothing while one is being built. The visitor makes edges in a
certain order: every new edge goes to a block that leads nowhere yet, except the one
at the end of a `while`, which goes back to its condition. Hence `LoopInv`:

* `Ranked` - the blocks can be numbered so that every edge either goes up in rank or
  goes to a block through which every way from the entry to the edge's source leads
  (its source is not in `Avoiding(succ, target)`);
* `Headed` - while a `while` is being visited, every way to the insertion block, and to
  the blocks owed by the visits inside it, goes through its condition block. This is
  what the edge back needs.

A cycle cannot go up all the way round, so some edge of it goes to such a block, and
that block is the one entry (`OneEntry`). TLC agrees with `LoopInv` on a smaller
instance.

### `Dominators_proofs`

For every set of graphs over any blocks (`BlockAssumption`, `GraphsAssumption`),
irreducible ones and those with unreachable blocks or edges to the entry among
them, `Spec` implies `[]AssertionsHold` and `[]IdomClimbs`. So the hang of
`dominators_dead_join` is in `create_dominance_frontier` alone: `create_idom` copes
with such graphs.

Neither property is inductive. That `intersect` is only called on blocks that have
a dominator needs that every block processed before has one, which needs that it
had a predecessor processed still earlier; that a new dominator is above its block
needs that the merge saw the predecessor the depth-first search came from.
`IInv` says so in four parts:

* `DfsOK` - a block leaves the search before the block it was come to from, and the
  entry last;
* `IdomOK` - a block with a dominator has left the search, its dominator has one
  too, and (the entry apart) has a larger post-order number;
* `PassOK` - the blocks before the current one in reverse post-order have a
  dominator;
* `MergeOK` - what has been merged is not below any predecessor merged so far; while
  `intersect` climbs, none of them is above both fingers.

There is one lemma per action. TLC agrees with `IInv` on all graphs of three blocks.

On top of it, for the same graphs, `[]IdomCorrect` (`ImmediateDominators`): when the
fixpoint is reached, `idom_` is the immediate dominator of each block that is
reached, and nothing for the others. The invariant (`DomInv`, theorem
`DominatorInvariant`) follows the two halves of the argument for this algorithm:

* every dominator of a block is at or above the block's `idom_` at any time
  (`DominatorsAbove`), also while predecessors are merged and fingers climb
  (`MergedOK`): a finger never climbs past a common dominator;
* a pass that has changed nothing so far leaves each block it has seen below something
  that is above all its predecessors (`StableOK`), so after the last pass whatever
  is above a block dominates it.

`TreeCorrect` (`DominatorTree`) follows when the children are what `idom_` says.
`FrontierCorrect` (`DominanceFrontiers`) has a hypothesis, `CleanGraph`: no reached
block has an unreachable predecessor, no edge leads to the entry. The first is
what `dominators_dead_join` shows to be necessary; the second is the theorem
`EntryStaysFirst` about the builder. The runner of `create_dominance_frontier` stays
between the predecessor it started from and the dominator of the join, and the blocks
it has passed are the dominators of that predecessor that do not dominate the runner
(`FrontOK`).

`Dominance_proofs` has what these need to know about dominance, for any graph:
what a path that avoids a block reaches is the least set closed under edges that
avoid it (`ReachedAvoidingLeast`), dominance is a partial order whose upper sets are
chains, a block is dominated by what dominates all its predecessors, and it does not
dominate all of them.

Reachability, avoiding a block or not, is a recursive function: so many steps from the
start. `LeastFixpoint` says what such an iteration ends with: when the steps only add
members to a set that cannot have more than so many, the last one is the least set
that holds the start and is closed. The induction it needs cannot be had from the
library's induction theorems, which take an operator as a parameter; it is done here
from the well-foundedness of `<` on the natural numbers (`LeastNatural`,
`SetInduction`), with a set of numbers in the place of the property. `FoldExists` is
the same for a function that goes along a sequence. The other proof modules start from
these.

### `LoopSearch_proofs`

For every set of programs, `Spec` of `LoopInvHoist` (which runs the search of
`LoopSearch`) implies `[]ComponentsExact` (`ComponentsFound`): in every round Tarjan's
search finds the strongly connected components of what is left of the graph, in
whatever order the hash sets hand out blocks and edges. The hypothesis
(`ProgramsAssumption` of `LoopSearch`) is `EdgesInside`: branches lead to blocks of the
function and the predecessor lists know them, which is what `FunctionsAreComplete` and
`ListsMatchBranches` prove of the builder. Graphs may be irreducible.

A component is only seen when it is taken off the stack, so the invariant
(`ComponentsInv`, theorem `SearchInvariant`) is about the stack:

* `PathsOK` - a call in progress reaches every block that was put on the stack after
  its own, and every block on the stack reaches one that is being called and not above
  it. So the blocks above a root are in one component with it;
* `LowOK` - the `lowlink` of a call is the number of a block it reaches, and it is not
  above the numbers of the blocks on the stack to which its finished part has edges. So
  if it is the call's own number, no edge leads out of the blocks above it to the rest
  of the stack;
* `LeftOK` - no edge leads from a finished component to one that is not. With the two
  others: what is taken off is a whole component;
* `NumbersOK`, `StackOK`, `CallsOK` - numbers are the order of the visits, and the
  stack and the calls are in that order;
* `SccsOK` - what was recorded so far is what is finished.

Between the rounds blocks are taken from the graph; `GraphOK` says that what is left
is still closed under edges, and that nothing of one search is left for the next.

What is recorded from the components (`LoopsAreNatural`, theorem `LoopsFound`, and
`ParentEncloses`, theorem `ParentsFound`) is about functions without unreachable
blocks, with nothing leading to the entry and with predecessor lists that say what
the branches do (`AllReached`), whose graph is reducible (`Searchable`: both). These
are antecedents and not assumptions, and every function of `loop_hoist` satisfies
them. The invariant (`NaturalInv`, theorem `NaturalLoopInvariant`):

* `LeftOver` - what is left is the graph without the bases taken out, while a base
  taken out still knows its successors (`find_loop_base` needs that for a loop that
  has lost the block it was entered from);
* `OutermostFirst` - of two loops the one around is taken out first. Hence no block of
  a loop that is left is gone (`LoopIsLeft`), and a component of what is left is a
  natural loop of the whole graph (`SccIsLoop`): the block of it that no forward edge
  leads to dominates the rest, because the graph is reducible (`ReducibleSource`);
* `Recorded` - the bases taken out are headers with their loops, and a block knows the
  smallest of these that it is in: the entry that an inner loop writes comes last.

That the base is the header follows from `LoopEntered`: a natural loop is entered at
its header only, and from outside. `NaturalLoopMeaning` says that the textbook's loop
(`Loops`, steps back from the edge back) is the set of blocks that lead to the header
within what it dominates, which is what the proofs are done with.

`NothingInvariantLeft` (theorem `NothingLeft`) is about the functions that are
`Searchable` and `WellBuilt` (every instruction is in one block, a block that leads on
ends with a branch), again antecedents that every function of `loop_hoist` satisfies.
That nothing is left in the loop at hand when its rounds end is
`CollectOK`; the invariant (`HoistInv`, theorem `HoistInvariant`) is about
the loops that are done, which later moves could fill again:

* what is moved out of a loop goes to a block that is in the loops around it and in no
  other (`PreheaderFirst`), so of a loop that is done nothing changes, unless it is
  inside the one at hand (`DefsAfterMove`);
* and of those inside nothing is taken, because each instruction of a loop that is done
  depends on another one there (`Tied`), so a round never finds a first one to take
  (`Taking`);
* `get_parent_loop` gives a loop around (`ParentAround`), so what is begun next is one
  of the loops, done before or not.

`Record`, `get_parent_loop`, `Without`, `Taken` and `MovedFrom` are written with
functions and recursive functions where `@@`, `SelectSeq` and `FoldLeft` would be
shorter: the prover has no definition for these. `FoldExists` of `Dominance_proofs` says
that such a recursive function exists.

### `ActiveVars_proofs`

For every set of `WellFormed` functions, `Spec` implies `[]NothingTooMuch`
(`NothingTooMuchReported`) and `[]LivenessExact` (`LivenessIsExact`). The hypothesis
(`ProgramsAssumption`, TLC evaluates it on the functions of the run) says of a function:

* its branches lead to its blocks, and no block is in its list twice;
* a load has one operand, an address; a cast has one, which may be a constant; a
  branch has a label, or a condition and two labels; what is used has a result;
* a phi has pairs of a value and a block, which need not be a predecessor (any more);
* what a block computes itself is computed before it is used there, phis apart.

Nothing is asked of the lists of predecessors, and code straight from the builder
(`-active-vars` alone, so with the casts of constants that `ConstPropagation` would
fold) satisfies it, as `Mem2Reg` and the other passes leave it. What it rules out is code
no part of the compiler makes: a value used in its block before it is computed there, a
phi with half a pair, a branch out of the function.

The invariant (`IInv`, theorem `AnalysisInvariant`) has two halves:

* `BlockFacts` - what the use set, the def set and `big_phi` of a block mean after so
  many of its instructions: a value in the use set is read in the block and not defined
  there, or a phi takes it from the block `big_phi` names; nothing that is read is
  missing; a value the block defines is in one of the two sets. The last is needed for
  a phi that takes a value from its own block, which is in the use set and so never
  in the def set;
* `Sound` and `Settled` - nothing is in `live_in` that is not live or taken by a phi,
  and while nothing has changed in a round, the blocks it has seen satisfy their
  equations.

`Sound` gives `NothingTooMuch`. For the other direction, what is live is a least
fixpoint (`LiveMeaning`, from `LeastFixpoint`), and what satisfies the equations is above
it; where one value comes to a phi from two blocks this fails, which is why
`LivenessExact` asks for `PhisUnambiguous`.

Reading is `ReadBy`: the variables among the operands, and what a cast converts, be it a
constant. So the theorems do not say that no constant is reported: one is reported only
where a path leads to a cast of it, and, by `LivenessIsExact`, always there. A constant
that a phi takes is not reported for that, also in a function that casts it somewhere.

### `Mem2Reg_proofs`

For every set of programs, `Spec` of `Mem2Reg` implies `[]StacksFollowCalls`
(`StacksMatchCalls`), `[]InitialisedRunsThrough` (`NoStackIsEmpty`), `[]PhisComplete`
(`PhisAreComplete`) and `[]InSSAForm` (`SSAForm`). The hypotheses
(`VarAssumption`, `ProgramsAssumption`; TLC evaluates them on the programs of the runs)
say what `CminusfBuilder` makes of a function: `WellFormed`.

The first two follow from `StackInv` (theorem `StackInvariant`), which says, phase by
phase:

* `PlacingOK` - `generate_phi` only puts phis at the head of a block, each for another
  variable. So a block pushes at most one phi value for a variable, and loads and
  stores keep their places behind them;
* `CodeOK`, `CallsOK` - during `re_name` phis come first, a load is known by its id, the
  calls in progress go down the dominator tree, so no two of them are for one block, and
  all but the last are at their children;
* `StacksOK` - the stack of a variable is as deep as what the blocks of the calls in
  progress gave it (`Depth`): the last call's block up to where it is, and all of the
  others. A call that ends pops what it pushed because its stores are still in the block
  then (`wait_delete` is served after the pops) and because nothing else wrote to the
  block's list (`DepthPopped`);
* `StoredFirst` - what the entry block stores before it loads it still does so until its
  call ends, and its call is the first of all: whatever is loaded later, and whatever a
  phi is given, has a value below it.

The other two need `SSAInv` (theorem `SSAInvariant`): `StackInv`, `NamingOK` while
`re_name` runs, and `DoneOK` after it. `NamingOK` speaks of where the recursion is in the
program: an instruction is ahead (`Ahead`) when its block is below a child some call
still has to visit (`Pending`), or when the call for its block has not come to it. A
reachable block is `Served` when it has filled the phis of its successors. A step of the
last call makes exactly one instruction not ahead any more (`AheadAdvances`); a call that
starts or ends makes none (`AheadEnters`, `AheadEnds`), because every block below a block
is below exactly one of its children (`ChildExists`, `ChildUnique`). For a function whose
variables are given a value first it then says (`Named`):

* `PhisServed` - a phi has one pair for each predecessor that is served, and no other.
  At the end nothing is ahead, every reachable block is served, and by `NoDeadPred`
  these are all of the predecessors;
* `OperandsOK` - an operand is `Good` where it is, or it is a load that comes before it
  on every path and is still ahead. `Good` is a constant, or a phi of a block that
  dominates. When the load is passed, every operand that is its id becomes the top of
  the stack at once;
* `StacksGood` - what the calls up to the k-th pushed is good in the k-th block, so the
  top of a stack is good in the block at hand, and what is below it is good again for the
  next sibling when a call has popped what it pushed. That a store pushes something good
  is `OperandsOK` where the store is: no load before it is ahead (`NothingAhead`);
* `PairsGood` - the value of a phi pair is good at the end of the pair's block;
* `DeletesOK` - every load and store a call has passed is in its `wait_delete`, and
  blocks whose call is over have none left.

### `ConstPropagation_proofs`

For every set of functions and globals, any widths and inputs, `Spec` of
`ConstPropagation` implies `[]NothingLeftToFold` (`NothingConstantLeft`). The hypothesis
is that every function is `Foldable` (module `FoldableCode`):

* `HasCode` - the code of each block ends with its one branch or return, which is
  what `TerminatorIsLast` and `FunctionComplete` say of the builder;
* `WellTyped` - there is a typing of instructions and globals that the operands fit,
  which `InstructionsTyped` checks of the builder, and a phi has pairs;
* `DefinedFirst` - what a block computes itself is computed before it is used there,
  phis apart; that is part of SSA form (`InSSAForm`);
* `HasInnermost` - the loops around a block have a smallest one.

The hypothesis is an antecedent of the theorem and not an assumption of the pass.
`MC_ConstPropagation` assumes it of its own functions (`ProgramsFoldable`), so TLC finds
it true of every function of `constprop_core`.

The invariant (`IInv`, kept by each action: `PassKeeps`, `IInvInductive`) has a typed
half and a half about the rounds:

* `CodeOK` - an operand that is replaced gets one of the same type, a list of a block
  loses instructions and gains at most one branch and keeps its order, a use record
  names a place that wants a value of that type (the place may hold something else by
  now, see *Known behaviours*). That types are kept is needed for
  the rounds: if a float could get in the place of an int, folding would pass over an
  instruction whose operands are constants of the wrong type;
* `RoundOK` and `BlockOK` - while nothing has changed in a round, every kept block it
  has passed is `Folded`, and in the block at hand what it has passed is either in
  `wait_delete` or not constant. When a round ends without a change this is the
  property;
* `LoadsOK` - replacing a load writes into the block without setting `changed`, and
  could make an instruction constant that this round has passed. It does not: the uses
  of the load come behind it as long as nothing was replaced (`UsesForward`), and once
  something was, the round does not count. In later rounds a block has no load behind a
  store to its global any more (`NoKnownLoad`), because the first round took them all.

The property does not speak of which blocks are kept: the proof needs nothing of
`deleteBlockSet` but that it grows, so it also covers the functions in which the pass
deletes a block too many (`constprop_live_block`). TLC agrees with `IInv`, for
the types of `TypesOf`, on all states of `constprop_core`. `Swept`, `Pruned` and `With` are
recursive functions and functions where `FoldLeft` and `@@` would be shorter, and
`RemoveBlocks` removes all blocks of `deleteBlockSet` at once, for the reason given for
`LoopInvHoist`.

### Only model-checked

* `MeaningPreserved`, four times. It compares two executions of a whole function, or an
  execution with the meaning of a tree; the states of both would have to be related at
  every instruction of a pass, and `CminusfMeaning` is made of `RECURSIVE` operators.
* `BlocksExact` and `PhisMatchPreds` of `ConstPropagation`. They are false of functions
  that satisfy the hypotheses above: `constprop_live_block` is one for the first, and
  an `if (1)` whose join has a phi for the second (`ConstPropagation.cpp:572` in *Known
  behaviours*). The run shows them on functions that keep clear of these.
* `UsesInStep` of `ConstPropagation`: in a phi that holds a value twice and loses one of
  the pairs it is false (`User.cpp:51` in *Known behaviours*).
* `InstructionsTyped` and `LvalueForTargetOnly` of `CminusfValues`, which reaches
  `RECURSIVE` operators everywhere; no theorem can be stated where they are.
* The four `Terminates`: liveness under fairness, which the prover does not reach.

## Findings

1. **`Dominators` does not return** (`Dominators.cpp:151`, run
   `dominators_dead_join`) when a reachable block has an unreachable predecessor:
   `while (c) { if (a) return 1; else return 2; }`. `Mem2Reg` always runs, so the
   compiler hangs.
2. **Assertion in `re_name`** (`Mem2Reg.cpp:134`, run `mem2reg_uninit`):
   `int x; if (c) x = 1; else ;` aborts the compiler, depending on the order of the
   addresses of two blocks.
3. **`ConstPropagation` deletes blocks that are reached** (`ConstPropagation.cpp:577`
   and 226, run `constprop_live_block`): for `while (0) output(1);` the body is
   deleted, its edge to the condition is cut, and the condition, a loop base with one
   predecessor, is taken for a loop nothing enters, although that predecessor is the
   block before the loop.
4. **Order of an assignment** (`cminusf_builder.cpp:348`, run `values_assign_order`):
   the right side is evaluated before the subscript of the left side, the language
   definition says the opposite.

### Known behaviours

Met while modelling; the passing runs stay clear of them, each at the line that causes it.

* `Value.cpp:22`: `replace_all_use_with` leaves the records of the replaced value in
  its use list. Harmless as long as the value is deleted and not replaced again,
  which is how the passes behave.
* `User.cpp:49`: `remove_operands` does not renumber the operands behind the gap, so a
  later replacement writes to the wrong slot or trips the assertion at
  `User.cpp:24`. `ConstPropagation` does this to a phi that loses a pair that is not
  its last; an `else` with a folded `if` in it is enough.
* `User.cpp:51`: `remove_use` drops all records of a phi that had the value twice,
  and the next replacement misses the slot that is left.
* `Mem2Reg.cpp:175`: allocas are removed from all blocks, but unreachable blocks are
  not renamed: code after `if (c) return 1; else return 2;` that reads a variable is
  emitted with an operand that is not defined anywhere.
* `ConstPropagation.cpp:572`: for `if (1) x = 1; output(x);` the join stays alive
  through the other edge, its phi keeps the pair of the edge that is gone, and
  `create_br` enters the edge that stays a second time.
* `ConstPropagation.cpp:309`: `globalConstVar` is not cleared by a call that may store
  to the global. `ConstPropagation.cpp:296`: a load of a known global is replaced in
  its own block and deleted although other blocks use it.
* `ConstPropagation.cpp:28`: `x = 1 / 0` divides in the compiler.
  `ConstPropagation.cpp:137`: `abs` is the `int` overload, `0.5 == 0.2` folds to 1.
* `LoopInvHoist.cpp:124`: a division is hoisted out of a loop that may run zero times.
  `LoopInvHoist.cpp:186`: the deletion from the old block also drops the use records
  of the operands, and `parent_` still names the old block; no later pass looks.
* `ActiveVars.cpp:200`: `big_phi` keeps one predecessor per value, where
  `Documentations/lab5/README.md:100` has the operand live out of each predecessor it
  comes from; a value that is also live through the block is filtered as well.
  `ActiveVars.cpp:174`: the operand of a cast is not asked whether it is a constant, so
  the `1` of `float x; x = 1;` is reported live into the block, and into those before it,
  unless `ConstPropagation` has run and folded the cast. `ReadBy` says so.
* `Instruction.cpp:40,120,168`: the checks of operand types are commented out of the
  constructors. `InstructionsTyped` is what they would have checked.

## Not modelled

* `Function::set_instr_name` and the printing of IR, AST and live sets: output, except
  that names must be unique, for which a module would be needed that is about
  nothing else.
* The automata flex and bison generate; the types, constants and module tables
  (caches of immutable objects); the driver's options.
* `cminusf_builder1.cpp`, an older copy of the builder that is not built; the
  `bisheng` samples, for another compiler; the runtime library.
* Arrays and globals in `Mem2Reg`, which the pass leaves alone, and interprocedural
  effects: a call may store anything to a global and returns any number.
* Floats are whole numbers of halves; rounding and overflow of floats are not modelled.

## Plan

1. Composition of passes: `CminusfBuilder`'s graphs as the input of `Dominators`,
   `Mem2Reg`'s output as that of `ConstPropagation`.
2. `InstrNames` (`Function::set_instr_name`): unique names over repeated calls, with a
   proof.
3. `BlocksExact` of `ConstPropagation` under a hypothesis that leaves out the
   behaviours of *Known behaviours*. `CodeOK` of `ConstPropagation_proofs`, which says
   what each action does to the lists of a block, is where that proof could start.
