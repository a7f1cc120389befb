------------------------------ MODULE LightCFG ------------------------------
(***************************************************************************)
(* The control-flow graph of one LightIR Function, and the operations of   *)
(* BasicBlock, Function and BranchInst that build it, as operators from    *)
(* graph to graph.  A graph is a record:                                   *)
(*   n     the number of blocks created; a block is its creation number    *)
(*   bbs   Function::basic_blocks_ (the list is in creation order)         *)
(*   pre   BasicBlock::pre_bbs_,  succ  BasicBlock::succ_bbs_              *)
(*   code  BasicBlock::instr_list_, where a run of instructions that are   *)
(*         not terminators is one entry                                    *)
(***************************************************************************)
EXTENDS Naturals, Sequences

CONSTANT MaxBlocks      \* bound on the blocks of one function

ASSUME MaxBlocksAssumption == MaxBlocks \in Nat \ {0}

Block == 1 .. MaxBlocks
Entry == 1

\* An instruction: an ordinary one, a return, or a branch to the blocks `to`.
Plain   == [op |-> "plain", to |-> << >>]
Ret     == [op |-> "ret", to |-> << >>]
Br(t)   == [op |-> "br", to |-> <<t>>]
CondBr(t, f) == [op |-> "br", to |-> <<t, f>>]

Instr == [op : {"plain", "ret", "br"}, to : Seq(Block)]
IsTerminator(i) == i.op \in {"ret", "br"}

Graph == [n : 0 .. MaxBlocks, bbs : SUBSET Block, pre : [Block -> Seq(Block)],
          succ : [Block -> Seq(Block)], code : [Block -> Seq(Instr)]]

NoBlocks ==
  [n |-> 0, bbs |-> {}, pre |-> [b \in Block |-> << >>],
   succ |-> [b \in Block |-> << >>], code |-> [b \in Block |-> << >>]]

\* BasicBlock::get_terminator: only the last instruction is looked at.
HasTerminator(g, b) ==
  g.code[b] # << >> /\ IsTerminator(g.code[b][Len(g.code[b])])

\* k times BasicBlock::create.
CreateBlocks(g, k) ==
  [g EXCEPT !.n = @ + k, !.bbs = @ \cup (g.n + 1 .. g.n + k)]

\* BasicBlock::add_instruction; a run of ordinary instructions is one entry.
AddInstruction(g, b, i) ==
  IF i = Plain /\ g.code[b] # << >> /\ g.code[b][Len(g.code[b])] = Plain
  THEN g
  ELSE [g EXCEPT !.code[b] = Append(@, i)]

\* BranchInst::create_br, ReturnInst::create_ret and create_void_ret.
CreateBr(g, b, t) ==
  AddInstruction([g EXCEPT !.pre[t] = Append(@, b), !.succ[b] = Append(@, t)], b, Br(t))

CreateRet(g, b) == AddInstruction(g, b, Ret)

\* A faulty create_cond_br, for a mutation run: only the true block learns of b.
CreateCondBrForgetsFalse(g, b, t, f) ==
  AddInstruction([g EXCEPT !.pre[t] = Append(@, b), !.succ[b] = @ \o <<f, t>>], b, CondBr(t, f))

\* BranchInst::create_cond_br: the false successor is listed first.
CreateCondBr(g, b, t, f) ==
  LET linkT == [g EXCEPT !.pre[t] = Append(@, b)]
      linkF == [linkT EXCEPT !.pre[f] = Append(@, b)]
      out   == [linkF EXCEPT !.succ[b] = @ \o <<f, t>>]
  IN  AddInstruction(out, b, CondBr(t, f))

\* std::list::remove: every occurrence of x goes.
Without(s, x) == SelectSeq(s, LAMBDA y : y # x)
Elems(s) == {s[i] : i \in DOMAIN s}

\* BasicBlock::erase_from_parent, which is Function::remove.
Erase(g, b) ==
  [g EXCEPT !.bbs = @ \ {b},
            !.succ = [p \in Block |-> IF p \in Elems(g.pre[b]) THEN Without(@[p], b) ELSE @[p]],
            !.pre  = [s \in Block |-> IF s \in Elems(g.succ[b]) THEN Without(@[s], b) ELSE @[s]]]

-----------------------------------------------------------------------------
\* The blocks a path from b leads to, b among them.
ReachableFrom(g, b) ==
  LET step[k \in Nat] ==
        IF k = 0 THEN {b}
        ELSE LET seen == step[k - 1]
             IN  seen \cup UNION {Elems(g.succ[x]) : x \in seen}
  IN  step[MaxBlocks]
=============================================================================
