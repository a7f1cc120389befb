------------------------------ MODULE Mem2Reg ------------------------------
(***************************************************************************)
(* The Mem2Reg pass (src/optimization/Mem2Reg.cpp) on one function:        *)
(* generate_phi, re_name over the dominator tree, remove_alloca; then one  *)
(* execution of the function as it was and of the function as it became,   *)
(* side by side along the same path, to compare what they mean.            *)
(*                                                                         *)
(* The dominators are the textbook ones, which Dominators computes.  A     *)
(* variable stands for its AllocaInst; arrays and globals, which the pass  *)
(* skips, are not modelled.  replace_all_use_with is the replacement of    *)
(* every operand, which UseDef shows it to be.  Sets the code orders by    *)
(* address are taken in any order.                                         *)
(***************************************************************************)
EXTENDS Dominance, SequencesExt

CONSTANTS Var,          \* the scalar local variables, as numbers
          Programs      \* the functions considered: records of succ and code

(* A value is named by what makes it: the kind, and two numbers.           *)
Value == {"const", "load", "phi", "undef"} \X Nat \X Nat
Undef       == <<"undef", 0, 0>>
PhiName(b, v) == <<"phi", b, v>>

(* An instruction.  `arg` is the operand: of a store the value stored, of  *)
(* an output the value shown (output stands for every use that is not a    *)
(* store).  `pairs` are the phi pair operands <<value, block>>.            *)
Instr == [op : {"alloca", "load", "store", "output", "phi"}, id : Value, var : Var \cup {0},
          arg : Value, pairs : Seq(Value \X Block)]
Instruction(op, id, v, arg) == [op |-> op, id |-> id, var |-> v, arg |-> arg, pairs |-> << >>]
Alloca(v)         == Instruction("alloca", Undef, v, Undef)
Load(id, v)       == Instruction("load", id, v, Undef)
Store(v, a)       == Instruction("store", Undef, v, a)
Output(a)         == Instruction("output", Undef, 0, a)
EmptyPhi(b, v)    == Instruction("phi", PhiName(b, v), v, Undef)

VARIABLES prog,         \* the function before the pass
          dominators_,  \* what Dominators::run found for it
          code,         \* instr_list_ of every block
          pc,           \* where run() is
          todo,         \* generate_phi: global_live_var_name, not yet handled
          var,          \* generate_phi: the variable at hand, 0 if none
          work_list,    \* generate_phi: blocks whose frontier is still to be served
          var_val_stack,\* the stack of values of each variable
          known,        \* the keys of var_val_stack
          calls,        \* the re_name calls in progress, innermost last
          run           \* the two executions

vars == <<prog, dominators_, code, pc, todo, var, work_list, var_val_stack, known, calls, run>>

\* Whether block b of the code c stores to v, and whether it has a phi for v.
Stores(c, b, v) == \E i \in DOMAIN c[b] : c[b][i].op = "store" /\ c[b][i].var = v
HasPhi(c, b, v) == \E i \in DOMAIN c[b] : c[b][i].op = "phi" /\ c[b][i].var = v

\* An unreachable block's frontier: the unreachable joins it leads to.
FrontierOf(s, doms, d) ==
  IF d \in Reached(s) THEN Frontier(s, doms, d)
  ELSE {b \in s[d] \ Reached(s) : Cardinality({p \in Block : b \in s[p]}) >= 2}

\* dominance sets, dom_frontier_, dom_tree_succ_blocks_
DominatorsOf(s) ==
  LET doms == Doms(s)
  IN  [doms     |-> doms,
       frontier |-> [d \in Block |-> FrontierOf(s, doms, d)],
       children |-> [d \in Block |-> {b \in Block : ImmediatelyDominates(doms, d, b)}]]

\* What CminusfBuilder makes of a function: loads, stores and uses of constants
\* and of loaded values, each loaded before it is used; and a graph on which
\* Dominators comes to an end.
IsOperand(p, x, b, i) ==
  \/ x[1] = "const"
  \/ \E j \in 1 .. i - 1 : p.code[b][j].op = "load" /\ p.code[b][j].id = x
  \/ \E d \in Block : /\ StrictlyDominates(Doms(p.succ), d, b)
                      /\ \E j \in DOMAIN p.code[d] : p.code[d][j].op = "load" /\ p.code[d][j].id = x

WellFormed(p) ==
  /\ p.succ \in [Block -> SUBSET Block] /\ NoDeadPred(p.succ)
  /\ p.code \in [Block -> Seq(Instr)]
  /\ \A b \in Block : \A i \in DOMAIN p.code[b] :
       LET x == p.code[b][i]
       IN  /\ x.op # "phi" /\ x.pairs = << >>
           /\ x.op # "output" => x.var \in Var
           /\ x.op = "load" => x.id[1] = "load"
           /\ x.op \in {"store", "output"} /\ b \in Reached(p.succ) => IsOperand(p, x.arg, b, i)
  \* an instruction makes one value
  /\ \A b, c \in Block : \A i \in DOMAIN p.code[b], j \in DOMAIN p.code[c] :
       p.code[b][i].op = "load" /\ p.code[c][j].op = "load" /\ p.code[b][i].id = p.code[c][j].id
       => b = c /\ i = j

ASSUME VarAssumption == Var \subseteq Nat
ASSUME ProgramsAssumption == \A p \in Programs : WellFormed(p)

-----------------------------------------------------------------------------
(* Execution: what a function shows when it is run, for comparison only.   *)
(* A machine has the memory, the values of the instructions that have one, *)
(* and what the last block has shown.                                      *)
Started == [mem |-> [v \in Var |-> Undef], val |-> << >>, shown |-> << >>]

ValueIn(m, a) ==
  IF a[1] = "const" THEN a ELSE IF a \in DOMAIN m.val THEN m.val[a] ELSE Undef

ExecuteInstr(m, i) ==
  CASE i.op = "alloca" -> [m EXCEPT !.mem[i.var] = Undef]
    [] i.op = "load"   -> [m EXCEPT !.val = (i.id :> m.mem[i.var]) @@ @]
    [] i.op = "store"  -> [m EXCEPT !.mem[i.var] = ValueIn(m, i.arg)]
    [] i.op = "output" -> [m EXCEPT !.shown = Append(@, ValueIn(m, i.arg))]
    [] OTHER           -> m

\* The phis of block b of the code c, entered from prev, all at once; a phi
\* without a pair for prev is printed with undef.
PhiValues(c, m, b, prev) ==
  LET phis == {c[b][i] : i \in {j \in DOMAIN c[b] : c[b][j].op = "phi"}}
      from(phi) == {phi.pairs[k][1] : k \in {j \in DOMAIN phi.pairs : phi.pairs[j][2] = prev}}
      name == {phi.id : phi \in phis}
  IN  [n \in name |-> LET phi == CHOOSE q \in phis : q.id = n
                      IN  IF from(phi) = {} THEN Undef
                          ELSE ValueIn(m, CHOOSE x \in from(phi) : TRUE)]

Execute(c, m, b, prev) ==
  FoldLeft(ExecuteInstr,
           [m EXCEPT !.val = PhiValues(c, m, b, prev) @@ @, !.shown = << >>],
           c[b])

NotRunning == [bb |-> Entry, prev |-> 0, old |-> << >>, new |-> << >>]

Init ==
  /\ prog \in Programs
  /\ dominators_ = DominatorsOf(prog.succ)
  /\ code = prog.code
  /\ pc = "generate_phi"
  \* step 1: a variable's name is never the value a store stores, so every
  \* variable that is stored to counts as live across blocks
  /\ todo = {v \in Var : \E b \in Block : Stores(prog.code, b, v)}
  /\ var = 0 /\ work_list = {}
  /\ var_val_stack = [v \in Var |-> << >>] /\ known = {}
  /\ calls = << >>
  /\ run = NotRunning

-----------------------------------------------------------------------------
(* generate_phi, step 2.                                                   *)

\* for (auto var : global_live_var_name): start from the blocks that store to it.
NextVar ==
  /\ pc = "generate_phi" /\ work_list = {}
  /\ \E v \in todo :
        /\ var' = v
        /\ todo' = todo \ {v}
        /\ work_list' = {b \in Block : Stores(code, b, v)}
  /\ UNCHANGED <<prog, dominators_, code, pc, var_val_stack, known, calls, run>>

\* A block of the work list: its frontier gets the phis that are missing there.
PlacePhisAt(bb, wanted) ==
  /\ code' = [b \in Block |-> IF b \in wanted THEN <<EmptyPhi(b, var)>> \o code[b] ELSE code[b]]
  /\ UNCHANGED <<prog, dominators_, pc, todo, var, var_val_stack, known, calls, run>>

MissingPhis(bb) == {b \in dominators_.frontier[bb] : ~HasPhi(code, b, var)}

\* Mutant of GeneratePhi: a new phi is not itself a definition to go on from.
GeneratePhiOnce ==
  /\ pc = "generate_phi"
  /\ \E bb \in work_list :
        /\ work_list' = work_list \ {bb}
        /\ PlacePhisAt(bb, MissingPhis(bb))

GeneratePhi ==
  /\ pc = "generate_phi"
  /\ \E bb \in work_list :
        /\ work_list' = (work_list \ {bb}) \cup MissingPhis(bb)
        /\ PlacePhisAt(bb, MissingPhis(bb))

-----------------------------------------------------------------------------
(* re_name.  A call is the block, the position in its instruction list,    *)
(* the wait_delete list, and the children not visited yet.                 *)

Call(b) == [bb |-> b, at |-> 1, wait_delete |-> {}, children |-> dominators_.children[b]]
Top     == calls[Len(calls)]
Here    == code[Top.bb][Top.at]
Naming(first, last) == pc = "re_name" /\ calls # << >> /\ Top.at \in first .. last
End     == IF calls = << >> THEN 0 ELSE Len(code[Top.bb])

PhiVars(b) == {v \in Var : HasPhi(code, b, v)}

\* step 3: entering a block, each phi of it becomes its variable's value.
Enter(b, below) ==
  /\ calls' = Append(below, Call(b))
  /\ var_val_stack' = [v \in Var |-> IF v \in PhiVars(b)
                                     THEN Append(var_val_stack[v], PhiName(b, v))
                                     ELSE var_val_stack[v]]
  /\ known' = known \cup PhiVars(b)

StartReName ==
  /\ pc = "generate_phi" /\ work_list = {} /\ todo = {}
  /\ pc' = "re_name"
  /\ Enter(Entry, << >>)
  /\ UNCHANGED <<prog, dominators_, code, todo, var, work_list, run>>

Advance(deleted) ==
  calls' = [calls EXCEPT ![Len(calls)].at = @ + 1,
                         ![Len(calls)].wait_delete = @ \cup deleted]

\* replace_all_use_with: every operand that is `old` becomes `new`.
ReplaceUses(c, old, new) ==
  LET val(x) == IF x = old THEN new ELSE x
      repl(i) == [i EXCEPT !.arg = val(@),
                           !.pairs = [k \in DOMAIN @ |-> <<val(@[k][1]), @[k][2]>>]]
  IN  [b \in Block |-> [k \in DOMAIN c[b] |-> repl(c[b][k])]]

\* step 4: a load of a variable with a stack is replaced by the top of it.
ReNameLoad ==
  /\ Naming(1, End) /\ Here.op = "load"
  /\ Here.var \in known => var_val_stack[Here.var] # << >>
  /\ IF Here.var \in known
     THEN /\ code' = ReplaceUses(code, Here.id, Last(var_val_stack[Here.var]))
          /\ Advance({Top.at})
     ELSE /\ UNCHANGED code
          /\ Advance({})
  /\ UNCHANGED <<prog, dominators_, pc, todo, var, work_list, var_val_stack, known, run>>

\* back() of an empty vector is undefined: what it returns is no value, and
\* replace_all_use_with crashes on it as soon as the load has a use.
Used(id) == \E b \in Block : \E i \in DOMAIN code[b] :
              code[b][i].arg = id \/ \E k \in DOMAIN code[b][i].pairs : code[b][i].pairs[k][1] = id

ReNameLoadOfNothing ==
  /\ Naming(1, End) /\ Here.op = "load"
  /\ Here.var \in known /\ var_val_stack[Here.var] = << >>
  /\ IF Used(Here.id) THEN pc' = "undefined" /\ UNCHANGED calls
                      ELSE UNCHANGED pc /\ Advance({Top.at})
  /\ UNCHANGED <<prog, dominators_, code, todo, var, work_list, var_val_stack, known, run>>

\* step 5: a store pushes the value it stores.
ReNameStore ==
  /\ Naming(1, End) /\ Here.op = "store"
  /\ var_val_stack' = [var_val_stack EXCEPT ![Here.var] = Append(@, Here.arg)]
  /\ known' = known \cup {Here.var}
  /\ Advance({Top.at})
  /\ UNCHANGED <<prog, dominators_, code, pc, todo, var, work_list, run>>

ReNameOther ==
  /\ Naming(1, End) /\ Here.op \notin {"load", "store"}
  /\ Advance({})
  /\ UNCHANGED <<prog, dominators_, code, pc, todo, var, work_list, var_val_stack, known, run>>

\* step 6: each phi of each successor gets the value its variable has here;
\* assert(var_val_stack[l_val].size()!=0).
Fill(succs) ==
  /\ Naming(End + 1, End + 1)
  /\ LET phis == UNION {PhiVars(s) \cap known : s \in succs}
         fill(i) == IF i.op = "phi" /\ i.var \in known
                    THEN [i EXCEPT !.pairs = Append(@, <<Last(var_val_stack[i.var]), Top.bb>>)]
                    ELSE i
     IN  IF \E v \in phis : var_val_stack[v] = << >>
         THEN pc' = "assert" /\ UNCHANGED <<code, calls>>
         ELSE /\ code' = [b \in Block |-> IF b \in succs
                                          THEN [k \in DOMAIN code[b] |-> fill(code[b][k])]
                                          ELSE code[b]]
              /\ Advance({})
              /\ UNCHANGED pc
  /\ UNCHANGED <<prog, dominators_, todo, var, work_list, var_val_stack, known, run>>

\* Mutant of FillSuccessors: blocks already named are not filled again.
FillSuccessorsAhead == Fill({s \in prog.succ[Top.bb] : s > Top.bb})

FillSuccessors == Fill(prog.succ[Top.bb])

\* for (auto dom_succ_bb : get_dom_tree_succ_blocks(bb)) re_name(dom_succ_bb)
ReNameChild ==
  /\ Naming(End + 2, End + 2)
  /\ \E b \in Top.children :
        Enter(b, [calls EXCEPT ![Len(calls)].children = @ \ {b}])
  /\ UNCHANGED <<prog, dominators_, code, pc, todo, var, work_list, run>>

\* step 7: what the block pushed is popped; then wait_delete is deleted.
Pushed(b, v) == Cardinality({i \in DOMAIN code[b] : code[b][i].op \in {"store", "phi"} /\ code[b][i].var = v})
\* What is left of the sequence s at these places.
Only(s, places) ==
  LET place(n) == CHOOSE k \in places : Cardinality({j \in places : j < k}) = n - 1
  IN  [n \in 1 .. Cardinality(places) |-> s[place(n)]]
Kept(b, dead) == Only(code[b], DOMAIN code[b] \ dead)

EndReNameWith(pops, dead) ==
  /\ Naming(End + 2, End + 2) /\ Top.children = {}
  /\ var_val_stack' = [v \in Var |-> SubSeq(var_val_stack[v], 1, Len(var_val_stack[v]) - pops[v])]
  /\ code' = [code EXCEPT ![Top.bb] = Kept(Top.bb, dead)]
  /\ calls' = Front(calls)
  /\ UNCHANGED <<prog, dominators_, pc, todo, var, work_list, known, run>>

\* Mutants of EndReName: wait_delete goes first, so that only phis are popped;
\* loads pop too; loads are not deleted.
EndReNamePopsPhis ==
  EndReNameWith([v \in Var |-> IF v \in PhiVars(Top.bb) THEN 1 ELSE 0], Top.wait_delete)
EndReNamePopsLoads ==
  EndReNameWith([v \in Var |-> Cardinality({i \in DOMAIN code[Top.bb] : code[Top.bb][i].var = v})],
                Top.wait_delete)
EndReNameKeepsLoads ==
  EndReNameWith([v \in Var |-> Pushed(Top.bb, v)],
                {k \in Top.wait_delete : code[Top.bb][k].op = "store"})

EndReName ==
  EndReNameWith([v \in Var |-> Pushed(Top.bb, v)], Top.wait_delete)

\* remove_alloca, in every block whether re_name visited it or not.
RemoveAlloca ==
  /\ pc = "re_name" /\ calls = << >>
  /\ pc' = "run"
  /\ code' = [b \in Block |-> Only(code[b], {i \in DOMAIN code[b] : code[b][i].op # "alloca"})]
  /\ run' = [NotRunning EXCEPT !.old = Started, !.new = Started]
  /\ UNCHANGED <<prog, dominators_, todo, var, work_list, var_val_stack, known, calls>>

-----------------------------------------------------------------------------
\* Both functions run one block, and the same branch is taken in both.
RunBlock ==
  /\ pc = "run"
  /\ LET b == run.bb
         old == Execute(prog.code, run.old, b, run.prev)
         new == Execute(code, run.new, b, run.prev)
     IN  \/ \E next \in prog.succ[b] :
              run' = [bb |-> next, prev |-> b, old |-> old, new |-> new] /\ UNCHANGED pc
         \/ /\ prog.succ[b] = {}
            /\ run' = [bb |-> b, prev |-> b, old |-> old, new |-> new] /\ pc' = "end"
  /\ UNCHANGED <<prog, dominators_, code, todo, var, work_list, var_val_stack, known, calls>>

Next ==
  \/ NextVar \/ GeneratePhi
  \/ StartReName \/ ReNameLoad \/ ReNameLoadOfNothing \/ ReNameStore \/ ReNameOther
  \/ FillSuccessors \/ ReNameChild \/ EndReName
  \/ RemoveAlloca \/ RunBlock

Spec == Init /\ [][Next]_vars

-----------------------------------------------------------------------------
\* assert(var_val_stack[l_val].size()!=0), in re_name.
AssertionHolds == pc # "assert"

\* Every variable is stored to in the entry block before it is loaded there.
Initialised ==
  \A v \in Var : \E i \in DOMAIN prog.code[Entry] :
     /\ prog.code[Entry][i].op = "store" /\ prog.code[Entry][i].var = v
     /\ \A j \in 1 .. i : ~(prog.code[Entry][j].op = "load" /\ prog.code[Entry][j].var = v)

(* When every variable is given a value first, re_name never finds a stack *)
(* empty: neither the assertion nor back() of an empty vector.             *)
InitialisedRunsThrough == Initialised => pc \notin {"assert", "undefined"}

(* The pass keeps the meaning of the function: along every path, whatever  *)
(* the function shows before the pass it shows after it.  A value read     *)
(* from a variable that was not assigned may be anything.                  *)
MeaningPreserved ==
  pc \in {"run", "end"} =>
    LET before == run.old.shown
        after  == run.new.shown
    IN  /\ Len(before) = Len(after)
        /\ \A k \in DOMAIN before : before[k] # Undef => after[k] = before[k]

(* After the pass each phi of a reachable block has one pair for each      *)
(* predecessor, in some order.                                             *)
PhisComplete ==
  Initialised /\ pc = "run" /\ run.prev = 0 =>
    \A b \in Reached(prog.succ) : \A i \in DOMAIN code[b] :
      code[b][i].op = "phi" =>
        LET from == [k \in DOMAIN code[b][i].pairs |-> code[b][i].pairs[k][2]]
        IN  /\ IsInjective(from)
            /\ {from[k] : k \in DOMAIN from} = {p \in Block : b \in prog.succ[p]}

(* At every moment of re_name the stack of a variable holds the values the *)
(* blocks of the calls in progress gave it, so that a call leaves the      *)
(* global var_val_stack as it found it and siblings do not see each other. *)
Gave(b, at, v) == {i \in DOMAIN code[b] :
                     /\ code[b][i].var = v
                     /\ \/ code[b][i].op = "phi"
                        \/ code[b][i].op = "store" /\ i < at}
StacksFollowCalls ==
  pc = "re_name" =>
    LET held(v) == UNION {{k} \X Gave(calls[k].bb, calls[k].at, v) : k \in DOMAIN calls}
    IN  \A v \in Var : Len(var_val_stack[v]) = Cardinality(held(v))

\* Where the value x is defined in the function as it is now.
DefinedAt(x) == {d \in Block : \E i \in DOMAIN code[d] : code[d][i].id = x}
DefinedBefore(x, b, k) ==
  \/ x[1] = "const"
  \/ \E i \in 1 .. k - 1 : code[b][i].id = x
  \/ \E d \in DefinedAt(x) : StrictlyDominates(dominators_.doms, d, b)

(* The function is in SSA form when the pass is over: every operand of a   *)
(* reachable block is defined on every path to its use, that of a phi on   *)
(* every path to the end of the predecessor, and no load or store of a     *)
(* variable is left.                                                       *)
InSSAForm ==
  Initialised /\ pc = "run" /\ run.prev = 0 =>
    \A b \in Reached(prog.succ) : \A i \in DOMAIN code[b] :
      LET instr == code[b][i]
      IN  CASE instr.op = "output" -> DefinedBefore(instr.arg, b, i)
            [] instr.op = "phi" -> \A k \in DOMAIN instr.pairs :
                 LET p == instr.pairs[k] IN DefinedBefore(p[1], p[2], Len(code[p[2]]) + 1)
            [] OTHER -> FALSE

=============================================================================
