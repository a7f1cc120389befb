----------------------------- MODULE FunctionIR -----------------------------
(***************************************************************************)
(* One LightIR Function with its instructions, operands and use lists, the *)
(* operations the optimization passes call on it, as operators from        *)
(* function to function, and what a function does when it is run.          *)
(*                                                                         *)
(* A function is a record:                                                 *)
(*   bbs   Function::basic_blocks_, in list order                          *)
(*   pre   BasicBlock::pre_bbs_,  succ  BasicBlock::succ_bbs_              *)
(*   list  BasicBlock::instr_list_, the ids of the instructions            *)
(*   ins   the instruction of each id: its op, User::operands_ (args), and *)
(*         the block it was created in (parent)                            *)
(*   uses  Value::use_list_ of every instruction: <<value, user, arg_no>>  *)
(***************************************************************************)
EXTENDS Dominance, Integers, SequencesExt

CONSTANT Width          \* the bits of an int

ASSUME WidthAssumption == Width \in Nat \ {0}

\* Values: constants, the result of an instruction, globals, blocks as labels.
\* A float is a whole number of halves.
ConstInt(k) == <<"int", k>>
ConstFP(k)  == <<"fp", k>>
Result(id)  == <<"op", id>>
Global(g)   == <<"global", g>>
Label(b)    == <<"bb", b>>
Undefined   == <<"undef", 0>>

Instr(op, args) == [op |-> op, args |-> args]
Br(t)           == Instr("br", <<Label(t)>>)
CondBr(c, t, f) == Instr("br", <<c, Label(t), Label(f)>>)
Phi(a, p, b, q) == Instr("phi", <<a, Label(p), b, Label(q)>>)

IntOps   == {"add", "sub", "mul", "sdiv"}
FloatOps == {"fadd", "fsub", "fmul", "fdiv"}
CmpOps   == {"eq", "ne", "gt", "ge", "lt", "le"}
FCmpOps  == {"feq", "fne", "fgt", "fge", "flt", "fle"}
Casts    == {"fp2si", "si2fp", "zext"}

\* The instruction at place k of block b, and the branch a pass adds to b.
IdOf(b, k)   == <<b, k>>
NewBranch(b) == IdOf(b, 0)

UsesOf(u, args) ==
  {<<args[i][2], u, i - 1>> : i \in {j \in DOMAIN args : args[j][1] = "op"}}

\* The function a list of blocks and their code make.
Targets(args) == {args[i][2] : i \in {j \in DOMAIN args : args[j][1] = "bb"}}
Built(bbs, code) ==
  LET ids    == UNION {{IdOf(b, k) : k \in DOMAIN code[b]} : b \in Block}
      ins    == [id \in ids |-> LET i == code[id[1]][id[2]]
                                IN  [op |-> i.op, args |-> i.args, parent |-> id[1]]]
      branch(b) == IF code[b] # << >> /\ Last(code[b]).op = "br" THEN Last(code[b]).args ELSE << >>
      succ(b) == LET a == branch(b)
                 IN  CASE Len(a) = 1 -> <<a[1][2]>>
                       [] Len(a) = 3 -> <<a[3][2], a[2][2]>>
                       [] OTHER -> << >>
  IN  [bbs  |-> bbs,
       succ |-> [b \in Block |-> succ(b)],
       pre  |-> [b \in Block |-> SelectSeq(bbs, LAMBDA p : b \in Targets(branch(p)))],
       list |-> [b \in Block |-> [k \in DOMAIN code[b] |-> IdOf(b, k)]],
       ins  |-> ins,
       uses |-> UNION {UsesOf(id, ins[id].args) : id \in ids}]

-----------------------------------------------------------------------------
(* User, Value and BasicBlock.                                             *)

\* assert(i < num_ops_), for each use in S.
InRange(f, S) == \A u \in S : u[3] < Len(f.ins[u[2]].args)

\* set_operand(arg_no, v) for each use in S: v learns of its user, and the
\* value that was there keeps its own Use.
SetOperands(f, S, v) ==
  LET users == {u[2] : u \in S}
      set(id) == [f.ins[id] EXCEPT
                    !.args = [k \in DOMAIN @ |-> IF \E u \in S : u[2] = id /\ u[3] = k - 1 THEN v ELSE @[k]]]
  IN  [f EXCEPT !.ins = [id \in DOMAIN @ |-> IF id \in users THEN set(id) ELSE @[id]],
                !.uses = @ \cup IF v[1] = "op" THEN {<<v[2], u[2], u[3]>> : u \in S} ELSE {}]

UseList(f, id) == {u \in f.uses : u[1] = id}

\* operands_[i]->remove_use(u) for the operands of u in the list args.
WithoutUses(f, u, args) ==
  [f EXCEPT !.uses = {x \in @ : ~(x[2] = u /\ Result(x[1]) \in ToSet(args))}]

\* Mutant of RemovePair: the operands do not forget their user.
RemovePairKeepsUses(f, u, i) ==
  LET args == f.ins[u].args
  IN  [f EXCEPT !.ins[u].args = SubSeq(args, 1, i) \o SubSeq(args, i + 3, Len(args))]

\* User::remove_operands(i, i + 1); the uses of what follows keep their arg_no.
RemovePair(f, u, i) ==
  LET args == f.ins[u].args
  IN  [WithoutUses(f, u, SubSeq(args, i + 1, i + 2)) EXCEPT
         !.ins[u].args = SubSeq(args, 1, i) \o SubSeq(args, i + 3, Len(args))]

AddInstruction(f, b, id) == [f EXCEPT !.list[b] = Append(@, id)]

\* std::list::remove: every occurrence of a member of X goes, or of x.
WithoutAll(s, X) ==
  LET kept[k \in 0 .. Len(s)] ==
        IF k = 0 THEN << >>
        ELSE IF s[k] \in X THEN kept[k - 1] ELSE Append(kept[k - 1], s[k])
  IN  kept[Len(s)]
Without(s, x) == WithoutAll(s, {x})

\* BasicBlock::delete_instr: off the list, and its operands forget it.
DeleteInstr(f, b, id) ==
  [WithoutUses(f, id, f.ins[id].args) EXCEPT !.list[b] = Without(@, id)]

RemovePre(f, b, p)  == [f EXCEPT !.pre[b] = Without(@, p)]
RemoveSucc(f, b, s) == [f EXCEPT !.succ[b] = Without(@, s)]

\* Every successor of a block of B forgets that predecessor.
CutSuccessorsOf(f, B) ==
  [f EXCEPT !.pre = [s \in Block |-> WithoutAll(@[s], {b \in B : s \in ToSet(f.succ[b])})]]
CutSuccessors(f, b) == CutSuccessorsOf(f, {b})

\* BranchInst::create_br(t, b): a new last instruction of b.
CreateBr(f, t, b) ==
  LET id  == NewBranch(b)
      new == [op |-> "br", args |-> <<Label(t)>>, parent |-> b]
  IN  AddInstruction([f EXCEPT !.pre[t] = Append(@, b), !.succ[b] = Append(@, t),
                               !.ins = [x \in DOMAIN @ \cup {id} |-> IF x = id THEN new ELSE @[x]]],
                     b, id)

\* Function::remove of the blocks of B, of which only the edges between them
\* depend on the order.
RemoveBlocks(f, B) ==
  LET cut == CutSuccessorsOf(f, B)
  IN  [cut EXCEPT
         !.bbs  = WithoutAll(@, B),
         !.succ = [p \in Block |-> WithoutAll(@[p], {b \in B : p \in ToSet(f.pre[b])})]]

-----------------------------------------------------------------------------
(* The graph and the terminator of a function.                             *)
Graph(f) == [b \in Block |-> ToSet(f.succ[b])]

\* What CminusfBuilder makes of a function: branches lead to its blocks, and
\* the lists of predecessors know them.
EdgesInside(f) ==
  /\ ToSet(f.bbs) \subseteq Block
  /\ \A b \in Block : ToSet(f.succ[b]) \subseteq ToSet(f.bbs)
  /\ \A b \in ToSet(f.bbs) : \A c \in ToSet(f.succ[b]) : b \in ToSet(f.pre[c])

TerminatorOf(f, b) == f.ins[Last(f.list[b])]
CodeTargets(f, b) == Targets(TerminatorOf(f, b).args)

-----------------------------------------------------------------------------
(* Running a function: what the instructions the compiler prints do, for   *)
(* comparison only.  A machine has the globals, the value of every         *)
(* instruction that has one, and what the last block has shown.            *)
Wrap(k) == ((k + 2 ^ (Width - 1)) % 2 ^ Width) - 2 ^ (Width - 1)
Magnitude(k) == IF k < 0 THEN -k ELSE k
Quotient(x, y) ==
  LET q == Magnitude(x) \div Magnitude(y) IN IF (x < 0) = (y < 0) THEN q ELSE -q
Truth(p) == IF p THEN 1 ELSE 0

Order(op, x, y) ==
  CASE op \in {"eq", "feq"} -> x = y   [] op \in {"ne", "fne"} -> x # y
    [] op \in {"gt", "fgt"} -> x > y   [] op \in {"ge", "fge"} -> x >= y
    [] op \in {"lt", "flt"} -> x < y   [] op \in {"le", "fle"} -> x <= y

\* What op yields for the numbers x and y (y = 0 for an op with one operand).
Outcome(op, x, y) ==
  CASE op = "add" -> ConstInt(Wrap(x + y))
    [] op = "sub" -> ConstInt(Wrap(x - y))
    [] op = "mul" -> ConstInt(Wrap(x * y))
    [] op = "sdiv" -> IF y = 0 THEN Undefined ELSE ConstInt(Wrap(Quotient(x, y)))
    [] op = "fadd" -> ConstFP(x + y)
    [] op = "fsub" -> ConstFP(x - y)
    [] op = "fmul" -> ConstFP((x * y) \div 2)
    [] op = "fdiv" -> IF y = 0 THEN Undefined ELSE ConstFP((2 * x) \div y)
    [] op \in CmpOps \cup FCmpOps -> ConstInt(Truth(Order(op, x, y)))
    [] op = "si2fp" -> ConstFP(2 * x)
    [] op = "fp2si" -> ConstInt(Wrap(Quotient(x, 2)))
    [] op = "zext" -> ConstInt(x)

Pure == IntOps \cup FloatOps \cup CmpOps \cup FCmpOps \cup Casts

Machine(globals) == [mem |-> [g \in globals |-> ConstInt(0)], val |-> << >>, shown |-> << >>]

ValueIn(m, a) ==
  CASE a[1] = "op" -> IF a[2] \in DOMAIN m.val THEN m.val[a[2]] ELSE Undefined
    [] OTHER -> a

\* The instruction id, where the outside world answers x: what input() reads
\* and what a call leaves in the globals.  A division by zero shows.
ExecuteInstr(f, m, id, x) ==
  LET i == f.ins[id]
      arg(k) == ValueIn(m, i.args[k])
      gives(v) == [m EXCEPT !.val = (id :> v) @@ @]
      numbers == [k \in DOMAIN i.args |-> arg(k)]
  IN  CASE i.op = "input"  -> gives(ConstInt(x))
        [] i.op = "call"   -> [m EXCEPT !.mem = [g \in DOMAIN @ |-> ConstInt(x)]]
        [] i.op = "load"   -> gives(m.mem[i.args[1][2]])
        [] i.op = "store"  -> [m EXCEPT !.mem[i.args[2][2]] = arg(1)]
        [] i.op \in {"output", "ret"} -> [m EXCEPT !.shown = Append(@, arg(1))]
        [] i.op = "sdiv" /\ arg(2) = ConstInt(0) -> [m EXCEPT !.shown = Append(@, Undefined)]
        [] i.op \in Pure   -> gives(IF Undefined \in ToSet(numbers) THEN Undefined
                                    ELSE Outcome(i.op, numbers[1][2],
                                                 IF Len(numbers) = 2 THEN numbers[2][2] ELSE 0))
        [] OTHER -> m

\* The phis of block b, entered from prev, all at once.
PhiValues(f, m, b, prev) ==
  LET phis == {id \in ToSet(f.list[b]) : f.ins[id].op = "phi"}
      from(id) == {k \in DOMAIN f.ins[id].args : f.ins[id].args[k] = Label(prev)}
  IN  [id \in phis |-> IF from(id) = {} THEN Undefined
                       ELSE ValueIn(m, f.ins[id].args[(CHOOSE k \in from(id) : TRUE) - 1])]

Execute(f, m, b, prev, x) ==
  FoldLeft(LAMBDA n, id : ExecuteInstr(f, n, id, x),
           [m EXCEPT !.val = PhiValues(f, m, b, prev) @@ @, !.shown = << >>],
           f.list[b])

\* The block that follows b, Null after a return.
NextBlock(f, m, b) ==
  LET t == TerminatorOf(f, b)
  IN  CASE t.op = "ret" -> Null
        [] Len(t.args) = 1 -> t.args[1][2]
        [] OTHER -> IF ValueIn(m, t.args[1]) # ConstInt(0) THEN t.args[2][2] ELSE t.args[3][2]
=============================================================================
