-------------------------- MODULE ConstPropagation --------------------------
(***************************************************************************)
(* The ConstPropagation pass (src/optimization/ConstPropagation.cpp) on    *)
(* one function: the rounds over the blocks until nothing changes, the     *)
(* instructions of a block one by one, the folding of its branch, and the  *)
(* removal of the blocks of deleteBlockSet; then one execution of the      *)
(* function as it was and of the function as it became, block by block, to *)
(* compare what they mean.  The loops are the natural ones, which          *)
(* LoopSearch finds.                                                       *)
(***************************************************************************)
EXTENDS FunctionIR, Loops

CONSTANTS GlobalVar,    \* the global variables, as numbers
          Inputs,       \* the numbers input() may read and a call may store
          Programs      \* the functions considered: bbs and code

VARIABLES prog,             \* the function before the pass
          f,                \* the function
          loops,            \* what loop_searcher found
          pc,               \* where run() is
          at,               \* the place of bbs in get_basic_blocks()
          ip,                \* the place of instr in bbs->get_instructions()
          wait_delete,
          globalConstVar,   \* the value last stored in this block, by global
          const_val_stack,  \* the constant of every folded instruction
          deleteBlockSet,
          changed, delete_bb,
          run               \* the two executions

vars == <<prog, f, loops, pc, at, ip, wait_delete, globalConstVar, const_val_stack,
          deleteBlockSet, changed, delete_bb, run>>

NotRunning == [bb |-> Entry, prev |-> Null, old |-> << >>, new |-> << >>, next |-> Entry]

Init ==
  /\ \E p \in Programs : prog = Built(p.bbs, p.code)
  /\ f = prog
  /\ loops = NaturalLoops(Graph(prog))
  /\ pc = "block" /\ at = 1 /\ ip = 1
  /\ wait_delete = << >> /\ globalConstVar = << >> /\ const_val_stack = << >>
  /\ deleteBlockSet = {} /\ changed = FALSE /\ delete_bb = FALSE
  /\ run = NotRunning

bbs == f.bbs[at]
Header(b) == InnermostHeader(loops, b)

-----------------------------------------------------------------------------
(* ConstFolder: the constant an op yields for constant operands.           *)

\* Division by zero and INT_MIN / -1 stop the compiler itself.
Traps(op, x, y) == op = "sdiv" /\ (y = 0 \/ (y = -1 /\ x = -(2 ^ (Width - 1))))

compute(op, x, y) ==
  ConstInt(Wrap(CASE op = "add" -> x + y [] op = "sub" -> x - y
                  [] op = "mul" -> x * y [] op = "sdiv" -> Quotient(x, y)))

computefp(op, x, y) ==
  ConstFP(CASE op = "fadd" -> x + y [] op = "fsub" -> x - y
            [] op = "fmul" -> (x * y) \div 2 [] op = "fdiv" -> (2 * x) \div y)

compute_comp(op, x, y) == ConstInt(Truth(Order(op, x, y)))

\* abs is the one of int: a difference below 1 counts as none.
compute_fcomp(op, x, y) ==
  ConstInt(Truth(CASE op = "feq" -> Quotient(x - y, 2) = 0
                   [] op = "fne" -> Quotient(x - y, 2) # 0
                   [] OTHER -> Order(op, x, y)))

\* fp2si, si2fp, zext
convert(op, x) ==
  CASE op = "fp2si" -> ConstInt(Wrap(Quotient(x, 2)))
    [] op = "si2fp" -> ConstFP(2 * x)
    [] op = "zext"  -> ConstInt(x)

\* cast_constantint, cast_constantfp
IsInt(v) == v[1] = "int"
IsFP(v)  == v[1] = "fp"

-----------------------------------------------------------------------------
(* for (auto bbs : func->get_basic_blocks())                               *)

AtBlock == pc = "block" /\ at <= Len(f.bbs)
NextBB  == at' = at + 1 /\ UNCHANGED <<pc, ip>>
OtherThanBlocks == <<prog, loops, wait_delete, globalConstVar, const_val_stack, run>>

SkipDeleted ==
  /\ AtBlock /\ bbs \in deleteBlockSet
  /\ NextBB
  /\ UNCHANGED <<f, deleteBlockSet, changed, delete_bb>> /\ UNCHANGED OtherThanBlocks

\* A loop whose base has one predecessor is taken for dead; no flag is set.
LoopIsDead == Len(f.pre[bbs]) = 1 /\ Header(bbs) = bbs
DeleteLoop ==
  /\ AtBlock /\ bbs \notin deleteBlockSet
  /\ LoopIsDead
  /\ deleteBlockSet' = deleteBlockSet \cup loops[bbs]
  /\ f' = CutSuccessorsOf(f, loops[bbs])
  /\ NextBB
  /\ UNCHANGED <<changed, delete_bb>> /\ UNCHANGED OtherThanBlocks

\* The name of the entry block is "label_entry".
HasNoPre == f.pre[bbs] = << >> /\ bbs # Entry
DeletePredless ==
  /\ AtBlock /\ bbs \notin deleteBlockSet
  /\ ~LoopIsDead /\ HasNoPre
  /\ deleteBlockSet' = deleteBlockSet \cup {bbs}
  /\ delete_bb' = TRUE /\ changed' = TRUE
  /\ f' = CutSuccessors(f, bbs)
  /\ NextBB
  /\ UNCHANGED OtherThanBlocks

EnterBlock ==
  /\ AtBlock /\ bbs \notin deleteBlockSet
  /\ ~LoopIsDead /\ ~HasNoPre
  /\ wait_delete' = << >> /\ globalConstVar' = << >>
  /\ pc' = "instr" /\ ip' = 1
  /\ UNCHANGED <<prog, f, loops, at, const_val_stack, deleteBlockSet, changed, delete_bb, run>>

-----------------------------------------------------------------------------
(* for (auto instr : bbs->get_instructions())                              *)

id == f.list[bbs][ip]
instr == f.ins[id]
Visiting(ops) == pc = "instr" /\ ip <= Len(f.list[bbs]) /\ instr.op \in ops
NextInstr == ip' = ip + 1
OtherThanInstrs == <<prog, loops, at, deleteBlockSet, delete_bb, run>>

\* The uses in S get v, and instr is to go; a use out of range is an assertion
\* that fails.
Replace(S, v) ==
  IF InRange(f, S)
  THEN /\ f' = SetOperands(f, S, v)
       /\ wait_delete' = Append(wait_delete, id)
       /\ NextInstr /\ UNCHANGED pc
  ELSE pc' = "abort" /\ UNCHANGED <<f, wait_delete, ip>>

\* The map m with v for x.
With(m, x, v) == [y \in DOMAIN m \cup {x} |-> IF y = x THEN v ELSE m[y]]

Known(g) == g \in DOMAIN globalConstVar

\* Mutant of Store: insert() alone, which does not overwrite.
StoreKeepsFirst ==
  /\ Visiting({"store"})
  /\ globalConstVar' = IF Known(instr.args[2][2]) THEN globalConstVar
                       ELSE With(globalConstVar, instr.args[2][2], instr.args[1])
  /\ NextInstr
  /\ UNCHANGED <<f, pc, wait_delete, const_val_stack, changed>> /\ UNCHANGED OtherThanInstrs

\* The last value stored to a global of the module is what is known of it.
Store ==
  /\ Visiting({"store"})
  /\ globalConstVar' = With(globalConstVar, instr.args[2][2], instr.args[1])
  /\ NextInstr
  /\ UNCHANGED <<f, pc, wait_delete, const_val_stack, changed>> /\ UNCHANGED OtherThanInstrs

\* The uses in this block get the value of the global, and the load is to go.
Load ==
  /\ Visiting({"load"}) /\ Known(instr.args[1][2])
  /\ Replace({u \in UseList(f, id) : f.ins[u[2]].parent = bbs}, globalConstVar[instr.args[1][2]])
  /\ UNCHANGED <<globalConstVar, const_val_stack, changed>> /\ UNCHANGED OtherThanInstrs

\* A phi with one pair left is its value.
PhiOfOne ==
  /\ Visiting({"phi"}) /\ Len(instr.args) = 2
  /\ Replace(UseList(f, id), instr.args[1])
  /\ changed' = TRUE
  /\ UNCHANGED <<globalConstVar, const_val_stack>> /\ UNCHANGED OtherThanInstrs

\* The pairs of deleted blocks go, among the pairs of I (counted from 0) while
\* there are so many; after a removal the pair that moves up is passed over.
Dead(args, i) == 2 * i + 2 <= Len(args) /\ args[2 * i + 2][2] \in deleteBlockSet
PrunedAt(h, i) == IF Dead(h.ins[id].args, i) THEN RemovePair(h, id, 2 * i) ELSE h
Pruned(I) ==
  LET pruned[k \in 0 .. Len(instr.args)] ==
        IF k = 0 THEN f
        ELSE IF k - 1 \in I THEN PrunedAt(pruned[k - 1], k - 1) ELSE pruned[k - 1]
  IN  pruned[Len(instr.args)]

\* Mutant of PhiOfMany: the last pair is not looked at.
PhiForgetsLast ==
  /\ Visiting({"phi"}) /\ Len(instr.args) # 2
  /\ f' = Pruned({0})
  /\ changed' = (changed \/ f' # f)
  /\ NextInstr
  /\ UNCHANGED <<pc, wait_delete, globalConstVar, const_val_stack>> /\ UNCHANGED OtherThanInstrs

\* Mutant of PhiOfMany: no flag is set.
PhiPrunedQuietly ==
  /\ Visiting({"phi"}) /\ Len(instr.args) # 2
  /\ f' = Pruned(Nat)
  /\ NextInstr
  /\ UNCHANGED <<pc, changed, wait_delete, globalConstVar, const_val_stack>> /\ UNCHANGED OtherThanInstrs

PhiOfMany ==
  /\ Visiting({"phi"}) /\ Len(instr.args) # 2
  /\ f' = Pruned(Nat)
  /\ changed' = (changed \/ f' # f)
  /\ NextInstr
  /\ UNCHANGED <<pc, wait_delete, globalConstVar, const_val_stack>> /\ UNCHANGED OtherThanInstrs

\* instr is the constant c; insert() does not overwrite.
FoldInstr(c) ==
  /\ const_val_stack' = IF id \in DOMAIN const_val_stack THEN const_val_stack
                        ELSE With(const_val_stack, id, c)
  /\ Replace(UseList(f, id), c)
  /\ changed' = TRUE
  /\ UNCHANGED globalConstVar

\* The operand a, which const_val_stack may know.
Constant(a) == IF a[1] = "op" /\ a[2] \in DOMAIN const_val_stack THEN const_val_stack[a[2]] ELSE a
A == Constant(instr.args[1])
B == Constant(instr.args[2])

FoldBinary ==
  /\ Visiting(IntOps) /\ IsInt(A) /\ IsInt(B)
  /\ IF Traps(instr.op, A[2], B[2])
     THEN pc' = "abort" /\ UNCHANGED <<f, wait_delete, ip, const_val_stack, changed, globalConstVar>>
     ELSE FoldInstr(compute(instr.op, A[2], B[2]))
  /\ UNCHANGED OtherThanInstrs

FoldFloat ==
  /\ Visiting(FloatOps) /\ IsFP(A) /\ IsFP(B)
  /\ FoldInstr(computefp(instr.op, A[2], B[2]))
  /\ UNCHANGED OtherThanInstrs

\* Casts and compares look at the operands as they are.
ConstantCast == /\ instr.op = "fp2si" => IsFP(instr.args[1])
                /\ instr.op \in {"si2fp", "zext"} => IsInt(instr.args[1])
FoldCast ==
  /\ Visiting(Casts) /\ ConstantCast
  /\ FoldInstr(convert(instr.op, instr.args[1][2]))
  /\ UNCHANGED OtherThanInstrs

FoldCmp ==
  /\ Visiting(CmpOps) /\ IsInt(instr.args[1]) /\ IsInt(instr.args[2])
  /\ FoldInstr(compute_comp(instr.op, instr.args[1][2], instr.args[2][2]))
  /\ UNCHANGED OtherThanInstrs

FoldFCmp ==
  /\ Visiting(FCmpOps) /\ IsFP(instr.args[1]) /\ IsFP(instr.args[2])
  /\ FoldInstr(compute_fcomp(instr.op, instr.args[1][2], instr.args[2][2]))
  /\ UNCHANGED OtherThanInstrs

\* Nothing is done for a call, a load of an unknown global, a branch, a return,
\* and an instruction whose operands are not constants.
PassOver ==
  /\ \/ Visiting({"call", "input", "output", "br", "ret"})
     \/ Visiting({"load"}) /\ ~Known(instr.args[1][2])
     \/ Visiting(IntOps) /\ ~(IsInt(A) /\ IsInt(B))
     \/ Visiting(FloatOps) /\ ~(IsFP(A) /\ IsFP(B))
     \/ Visiting(Casts) /\ ~ConstantCast
     \/ Visiting(CmpOps) /\ ~(IsInt(instr.args[1]) /\ IsInt(instr.args[2]))
     \/ Visiting(FCmpOps) /\ ~(IsFP(instr.args[1]) /\ IsFP(instr.args[2]))
  /\ NextInstr
  /\ UNCHANGED <<f, pc, wait_delete, globalConstVar, const_val_stack, changed>>
  /\ UNCHANGED OtherThanInstrs

-----------------------------------------------------------------------------
(* wait_delete goes, then the terminator is looked at.                     *)

Swept ==
  LET swept[k \in 0 .. Len(wait_delete)] ==
        IF k = 0 THEN f ELSE DeleteInstr(swept[k - 1], bbs, wait_delete[k])
  IN  swept[Len(wait_delete)]
AtEnd == pc = "instr" /\ ip > Len(f.list[bbs])
Branches(g) == LET t == TerminatorOf(g, bbs) IN t.op = "br" /\ Len(t.args) = 3 /\ IsInt(t.args[1])
EndBlock == pc' = "block" /\ at' = at + 1 /\ UNCHANGED <<ip, changed>>

\* Mutant of KeepBranch: wait_delete is not deleted.
KeepBranchKeepsAll ==
  /\ AtEnd /\ ~Branches(f)
  /\ f' = f
  /\ EndBlock
  /\ UNCHANGED <<deleteBlockSet, delete_bb>> /\ UNCHANGED OtherThanBlocks

KeepBranch ==
  /\ AtEnd
  /\ ~Branches(Swept) /\ f' = Swept
  /\ EndBlock
  /\ UNCHANGED <<deleteBlockSet, delete_bb>> /\ UNCHANGED OtherThanBlocks

\* bbs goes to `there` and no longer to `gone`, which is deleted when dead.
Redirect(g, there, gone, dead) ==
  LET cut  == RemovePre(RemoveSucc(g, bbs, gone), gone, bbs)
      left == IF dead THEN CutSuccessors(cut, gone) ELSE cut
  IN  DeleteInstr(CreateBr(left, there, bbs), bbs, Last(g.list[bbs]))

FoldTrueWith(always) ==
  /\ AtEnd
  /\ LET g == Swept
         t == TerminatorOf(g, bbs)
         firBrBB == t.args[2][2]
         secBrBB == t.args[3][2]
         pre_num == Len(g.pre[secBrBB])
         dead == always \/ pre_num = 1 \/ (pre_num = 2 /\ Header(secBrBB) = secBrBB)
     IN  /\ Branches(g) /\ t.args[1][2] > 0
         /\ f' = Redirect(g, firBrBB, secBrBB, dead)
         /\ deleteBlockSet' = deleteBlockSet \cup {b \in {secBrBB} : dead}
         /\ delete_bb' = (delete_bb \/ dead)
  /\ EndBlock
  /\ UNCHANGED OtherThanBlocks

\* Mutant of FoldTrue: the false block is deleted whoever else leads to it.
FoldTrueDeletesAlways == FoldTrueWith(TRUE)

\* cond > 0: secBrBB is deleted when nothing else leads to it, or when only the
\* jump back of its own loop does.
FoldTrue == FoldTrueWith(FALSE)

\* Otherwise firBrBB is deleted.
FoldFalse ==
  /\ AtEnd
  /\ LET g == Swept
         t == TerminatorOf(g, bbs)
         firBrBB == t.args[2][2]
         secBrBB == t.args[3][2]
     IN  /\ Branches(g) /\ t.args[1][2] <= 0
         /\ f' = Redirect(g, secBrBB, firBrBB, TRUE)
         /\ deleteBlockSet' = deleteBlockSet \cup {firBrBB}
         /\ delete_bb' = TRUE
  /\ EndBlock
  /\ UNCHANGED OtherThanBlocks

-----------------------------------------------------------------------------
(* while (changed || delete_bb)                                            *)
EndOfRound == pc = "block" /\ at > Len(f.bbs)

NextRound ==
  /\ EndOfRound /\ (changed \/ delete_bb)
  /\ at' = 1 /\ changed' = FALSE /\ delete_bb' = FALSE
  /\ UNCHANGED <<f, pc, ip, deleteBlockSet>> /\ UNCHANGED OtherThanBlocks

RemoveDeleted ==
  /\ EndOfRound /\ ~changed /\ ~delete_bb
  /\ f' = RemoveBlocks(f, deleteBlockSet)
  /\ pc' = "run"
  /\ run' = [NotRunning EXCEPT !.old = Machine(GlobalVar), !.new = Machine(GlobalVar)]
  /\ UNCHANGED <<prog, loops, at, ip, wait_delete, globalConstVar, const_val_stack,
                 deleteBlockSet, changed, delete_bb>>

\* Both functions run the block the old one is at.
RunBlock ==
  /\ pc = "run" /\ run.bb # Null /\ run.next = run.bb
  /\ \E x \in Inputs :
       LET old == Execute(prog, run.old, run.bb, run.prev, x)
           new == Execute(f, run.new, run.bb, run.prev, x)
       IN  run' = [bb |-> NextBlock(prog, old, run.bb), prev |-> run.bb, old |-> old, new |-> new,
                   next |-> NextBlock(f, new, run.bb)]
  /\ UNCHANGED <<prog, f, loops, pc, at, ip, wait_delete, globalConstVar, const_val_stack,
                 deleteBlockSet, changed, delete_bb>>

Pass ==
  \/ SkipDeleted \/ DeleteLoop \/ DeletePredless \/ EnterBlock
  \/ Store \/ Load \/ PhiOfOne \/ PhiOfMany
  \/ FoldBinary \/ FoldFloat \/ FoldCast \/ FoldCmp \/ FoldFCmp \/ PassOver
  \/ KeepBranch \/ FoldTrue \/ FoldFalse
  \/ NextRound \/ RemoveDeleted

Next == Pass \/ RunBlock

\* The pass is one thread that runs whenever it can.
Spec == Init /\ [][Next]_vars /\ WF_vars(Pass)

-----------------------------------------------------------------------------
(* Whatever the function shows before the pass it shows after it, and both *)
(* take the same way: every block the execution comes to is still there.   *)
MeaningPreserved ==
  pc = "run" => /\ run.next = run.bb /\ run.next \in ToSet(f.bbs) \cup {Null}
                /\ run.prev # Null => run.old.shown = run.new.shown

JustEnded == pc = "run" /\ run.prev = Null

\* The instructions in blocks, and those that do not wait to be deleted.
InBlocks == UNION {ToSet(f.list[b]) : b \in ToSet(f.bbs)}
Staying  == InBlocks \ ToSet(wait_delete)

(* While the pass replaces, deletes later, cuts blocks off and takes pairs *)
(* from phis, an instruction that stays has a use record for each operand  *)
(* place that holds it and for no other, so that replacing it misses none. *)
(* In a phi that lost a pair the numbers of records may be off             *)
(* (remove_operands, User.cpp:49), but there are as many as places.  And   *)
(* what stays in a block that stays names nothing that goes.               *)
UsesInStep ==
  pc \in {"block", "instr"} =>
    LET records == {x \in f.uses : x[1] \in Staying}
        places  == {x \in UNION {UsesOf(u, f.ins[u].args) : u \in InBlocks} : x[1] \in Staying}
        phis    == {u \in InBlocks : f.ins[u].op = "phi"}
        others(X) == {x \in X : x[2] \notin phis}
        like(x, X) == {y \in X : y[1] = x[1] /\ y[2] = x[2]}
    IN  /\ others(records) = others(places)
        /\ \A x \in records \cup places :
             x[2] \in phis => Cardinality(like(x, records)) = Cardinality(like(x, places))
        /\ \A b \in ToSet(f.bbs) \ deleteBlockSet : \A u \in ToSet(f.list[b]) \cap Staying :
             \A a \in ToSet(f.ins[u].args) : a[1] = "op" => a[2] \in Staying

(* After the pass the blocks of the function are those its branches lead   *)
(* to, and its edges are those of its branches: no reachable block was     *)
(* deleted, no unreachable one was left, no edge of a folded branch stays. *)
BlocksExact ==
  JustEnded =>
    LET live == ToSet(f.bbs)
    IN  /\ live = Reached([b \in Block |-> IF b \in live THEN CodeTargets(f, b) ELSE {}])
        /\ \A b \in live : /\ ToSet(f.succ[b]) = CodeTargets(f, b)
                           /\ ToSet(f.pre[b]) = {p \in live : b \in CodeTargets(f, p)}

(* After the pass nothing constant is left to compute: no instruction with *)
(* constant operands only, no branch on a constant, no phi with one pair.  *)
NothingLeftToFold ==
  JustEnded =>
    \A b \in ToSet(f.bbs) : \A i \in ToSet(f.list[b]) :
      LET args == f.ins[i].args
          constant == \A a \in ToSet(args) : IsInt(a) \/ IsFP(a)
      IN  CASE f.ins[i].op \in Pure -> ~constant
            [] f.ins[i].op = "br"  -> Len(args) = 3 => ~IsInt(args[1])
            [] f.ins[i].op = "phi" -> Len(args) > 2
            [] OTHER -> TRUE

(* After the pass each phi has one pair for each predecessor its block has *)
(* left, and none for a block that was cut off.                            *)
PhisMatchPreds ==
  JustEnded =>
    \A b \in ToSet(f.bbs) : \A i \in ToSet(f.list[b]) :
      f.ins[i].op = "phi" =>
        LET args == f.ins[i].args
        IN  Targets(args) = ToSet(f.pre[b]) /\ Len(args) = 2 * Cardinality(ToSet(f.pre[b]))

(* Each round folds or deletes something of which there is only so much,   *)
(* so the rounds end.                                                      *)
Terminates == <>(pc = "run")
=============================================================================
