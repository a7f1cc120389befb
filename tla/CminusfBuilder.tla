--------------------------- MODULE CminusfBuilder ---------------------------
(***************************************************************************)
(* CminusfBuilder (src/cminusfc/cminusf_builder.cpp): the visitor that     *)
(* walks the syntax tree of a program and emits LightIR into the current   *)
(* insertion block.  The syntax tree is chosen as it is visited, so a      *)
(* behaviour is one program of at most MaxDecls declarations and MaxStmts  *)
(* statements per function.  The C++ call stack is the variable `stk`: a   *)
(* frame is the point at which a visit() resumes when the accept() it      *)
(* made returns.  Values and types are not modelled here: an expression    *)
(* is ordinary code, plus the two blocks of each array index check.        *)
(***************************************************************************)
EXTENDS LightCFG, FiniteSets

CONSTANTS MaxDecls,      \* bound on the declarations of the program
          MaxStmts      \* bound on the statements visited in one function

ASSUME BoundAssumption == MaxDecls \in Nat /\ MaxStmts \in Nat

VARIABLES g,            \* the graph of cur_fun
          insert,       \* IRBuilder::BB_, the insertion block
          stk,          \* the frames of the visits in progress, innermost last
          depth,        \* Scope::inner.size()
          preEnter,     \* the global flag pre_enter_scope
          decls,         \* declarations visited so far
          stmts         \* statements visited so far in this function

vars == <<g, insert, stk, depth, preEnter, decls, stmts>>

-----------------------------------------------------------------------------
(* Frames.                                                                 *)
Fun          == [at |-> "fun", blocks |-> << >>]      \* FunDeclaration: after the body
Body         == [at |-> "body", blocks |-> << >>]     \* about to visit the body
Compound(x)  == [at |-> x, blocks |-> << >>]          \* statement loop; x says who exits the scope
Shared       == "compound"                            \* need_exit_scope is false
Own          == "ownCompound"                         \* need_exit_scope is true
Stmt         == [at |-> "stmt", blocks |-> << >>]     \* about to visit a statement
Expr         == [at |-> "expr", blocks |-> << >>]     \* inside an expression
IfCond(e)    == [at |-> IF e THEN "ifElseCond" ELSE "ifCond", blocks |-> << >>]
AfterTrue(e, f, c) == [at |-> IF e THEN "ifElseTrue" ELSE "ifTrue", blocks |-> <<f, c>>]
AfterFalse(c) == [at |-> "ifFalse", blocks |-> <<c>>]
WhileCond(x) == [at |-> "whileCond", blocks |-> <<x>>]
AfterBody(x, c) == [at |-> "whileBody", blocks |-> <<x, c>>]
Return       == [at |-> "return", blocks |-> << >>]   \* the returned expression is visited

FrameAt == {"fun", "body", Shared, Own, "stmt", "expr", "ifCond", "ifElseCond", "ifTrue",
            "ifElseTrue", "ifFalse", "whileCond", "whileBody", "return"}
Frame == [at : FrameAt, blocks : Seq(Block)]

Top    == stk[Len(stk)]
Below  == SubSeq(stk, 1, Len(stk) - 1)
At(x)  == stk # << >> /\ Top.at = x
Room(k) == g.n + k <= MaxBlocks

Init ==
  /\ g = NoBlocks
  /\ insert = Entry
  /\ stk = << >>
  /\ depth = 1              \* the global scope, entered by the constructor
  /\ preEnter = FALSE
  /\ decls = 0
  /\ stmts = 0

\* A statement is picked for the frame on top, which it replaces.
Visit(frames) ==
  /\ At("stmt")
  /\ stmts < MaxStmts
  /\ stmts' = stmts + 1
  /\ stk' = Below \o frames

-----------------------------------------------------------------------------
(* visit(ASTVarDeclaration) in a scope stack of depth d, with the graph h: *)
(* a global variable if in_global(), an alloca in the insertion block if   *)
(* not.                                                                    *)
Declare(h, d) == IF d = 1 THEN h ELSE AddInstruction(h, insert, Plain)

VisitGlobalVarDeclaration ==
  /\ stk = << >>
  /\ decls < MaxDecls
  /\ g' = Declare(g, depth)
  /\ decls' = decls + 1
  /\ UNCHANGED <<insert, stk, depth, preEnter, stmts>>

(* visit(ASTFunDeclaration) up to the body: the entry block, the scope the *)
(* body will share, and the stores of the parameters (if there are any).   *)
VisitFunDeclaration(params) ==
  /\ stk = << >>
  /\ decls < MaxDecls
  /\ LET new == CreateBlocks(NoBlocks, 1)
     IN  g' = IF params THEN AddInstruction(new, Entry, Plain) ELSE new
  /\ insert' = Entry
  /\ depth' = depth + 1
  /\ preEnter' = TRUE
  /\ stk' = <<Fun, Body>>
  /\ decls' = decls + 1
  /\ stmts' = 0

\* Faulty variants, for the mutation runs: a scope that is never left, a
\* compound that always leaves one, a loop that ignores the terminator.
EndFunDeclarationKeepsScope ==
  /\ At("fun")
  /\ g' = IF HasTerminator(g, insert) THEN g ELSE CreateRet(g, insert)
  /\ stk' = Below
  /\ UNCHANGED <<insert, depth, preEnter, decls, stmts>>

EndCompoundAlwaysExits ==
  /\ At(Shared) \/ At(Own)
  /\ depth' = depth - 1
  /\ stk' = Below
  /\ UNCHANGED <<g, insert, preEnter, decls, stmts>>

NextStatementAnyway ==
  /\ At(Shared) \/ At(Own)
  /\ stmts < MaxStmts
  /\ stk' = Append(stk, Stmt)
  /\ UNCHANGED <<g, insert, depth, preEnter, decls, stmts>>

\* The end of visit(ASTFunDeclaration): a return if the last block needs one.
EndFunDeclaration ==
  /\ At("fun")
  /\ g' = IF HasTerminator(g, insert) THEN g ELSE CreateRet(g, insert)
  /\ depth' = depth - 1
  /\ stk' = Below
  /\ UNCHANGED <<insert, preEnter, decls, stmts>>

(* visit(ASTCompoundStmt) up to the statement loop.  The body of a         *)
(* function finds pre_enter_scope set and shares its parameters' scope.    *)
EnterCompound(frames) ==
  /\ LET loop == frames \o <<Compound(IF preEnter THEN Shared ELSE Own)>>
     IN  stk' \in {loop, Append(loop, Stmt)}   \* no statement, or a first one
  /\ preEnter' = FALSE
  /\ depth' = IF preEnter THEN depth ELSE depth + 1
  /\ g' \in {g, Declare(g, depth')}        \* the local declarations, if any
  /\ UNCHANGED <<insert, decls>>

VisitBody ==
  /\ At("body")
  /\ EnterCompound(Below)
  /\ UNCHANGED stmts

VisitCompoundStmt ==
  /\ At("stmt") /\ stmts < MaxStmts
  /\ stmts' = stmts + 1
  /\ EnterCompound(Below)

\* The loop over the statement list goes on only if the block is still open
\* after the statement before.
NextStatement ==
  /\ At(Shared) \/ At(Own)
  /\ ~HasTerminator(g, insert)
  /\ stmts < MaxStmts
  /\ stk' = Append(stk, Stmt)
  /\ UNCHANGED <<g, insert, depth, preEnter, decls, stmts>>

EndCompoundStmt ==
  /\ At(Shared) \/ At(Own)
  /\ depth' = IF At(Own) THEN depth - 1 ELSE depth
  /\ stk' = Below
  /\ UNCHANGED <<g, insert, preEnter, decls, stmts>>

\* visit(ASTExpressionStmt), with or without an expression.
VisitExpressionStmt ==
  /\ \/ Visit(<<Expr>>)
     \/ Visit(<< >>)
  /\ UNCHANGED <<g, insert, depth, preEnter, decls>>

-----------------------------------------------------------------------------
(* visit(ASTVar) with an index: a negative index goes to a block that      *)
(* reports it and returns, any other on to a fresh block.                  *)
VisitIndexedVar ==
  /\ At("expr")
  /\ Room(2)
  /\ LET exceptBB == g.n + 1
         contBB == g.n + 2
         checked == CreateCondBr(AddInstruction(CreateBlocks(g, 2), insert, Plain),
                                 insert, exceptBB, contBB)
         reported == CreateRet(AddInstruction(checked, exceptBB, Plain), exceptBB)
     IN  /\ g' = AddInstruction(reported, contBB, Plain)
         /\ insert' = contBB
  /\ UNCHANGED <<stk, depth, preEnter, decls, stmts>>

\* The rest of an expression: constants emit nothing, the others do.
EndExpression ==
  /\ At("expr")
  /\ g' \in {g, AddInstruction(g, insert, Plain)}
  /\ stk' = Below
  /\ UNCHANGED <<insert, depth, preEnter, decls, stmts>>

-----------------------------------------------------------------------------
(* visit(ASTSelectionStmt), cut at each accept(): the condition, the true  *)
(* branch, the false branch.  Three blocks are created even without an     *)
(* else; the unused one is erased once the true branch is done.            *)
VisitSelectionStmt(hasElse) ==
  /\ Room(3)
  /\ Visit(<<IfCond(hasElse), Expr>>)
  /\ UNCHANGED <<g, insert, depth, preEnter, decls>>

\* Faulty variant, for a mutation run: the condition branches to falseBB always.
SelectionBranchToFalse(hasElse) ==
  /\ At(IfCond(hasElse).at)
  /\ Room(3)
  /\ g' = CreateCondBr(CreateBlocks(g, 3), insert, g.n + 1, g.n + 2)
  /\ insert' = g.n + 1
  /\ stk' = Below \o <<AfterTrue(hasElse, g.n + 2, g.n + 3), Stmt>>
  /\ UNCHANGED <<depth, preEnter, decls, stmts>>

SelectionBranch(hasElse) ==
  /\ At(IfCond(hasElse).at)
  /\ Room(3)
  /\ LET trueBB == g.n + 1
         falseBB == g.n + 2
         contBB == g.n + 3
         compared == AddInstruction(CreateBlocks(g, 3), insert, Plain)
     IN  /\ g' = CreateCondBr(compared, insert, trueBB, IF hasElse THEN falseBB ELSE contBB)
         /\ insert' = trueBB
         /\ stk' = Below \o <<AfterTrue(hasElse, falseBB, contBB), Stmt>>
  /\ UNCHANGED <<depth, preEnter, decls, stmts>>

\* if (get_insert_block()->get_terminator() == nullptr) create_br(to)
BranchIfOpen(to) == IF HasTerminator(g, insert) THEN g ELSE CreateBr(g, insert, to)

EndTrueNoElse ==
  /\ At("ifTrue")
  /\ LET falseBB == Top.blocks[1]
         contBB == Top.blocks[2]
     IN  /\ g' = Erase(BranchIfOpen(contBB), falseBB)
         /\ insert' = contBB
  /\ stk' = Below
  /\ UNCHANGED <<depth, preEnter, decls, stmts>>

EndTrueWithElse ==
  /\ At("ifElseTrue")
  /\ LET falseBB == Top.blocks[1]
         contBB == Top.blocks[2]
     IN  /\ g' = BranchIfOpen(contBB)
         /\ insert' = falseBB
         /\ stk' = Below \o <<AfterFalse(contBB), Stmt>>
  /\ UNCHANGED <<depth, preEnter, decls, stmts>>

EndFalse ==
  /\ At("ifFalse")
  /\ g' = BranchIfOpen(Top.blocks[1])
  /\ insert' = Top.blocks[1]
  /\ stk' = Below
  /\ UNCHANGED <<depth, preEnter, decls, stmts>>

-----------------------------------------------------------------------------
\* Faulty variants, for the mutation runs: a loop that tests its condition in
\* the block it is in, and one whose entry may jump past the condition.
IterationInPlace ==
  /\ Visit(<<WhileCond(insert), Expr>>)
  /\ UNCHANGED <<g, insert, depth, preEnter, decls>>

IterationEntersBody ==
  /\ Room(3)
  /\ g' = CreateCondBr(CreateBlocks(g, 1), insert, g.n + 1, g.n + 2)
  /\ insert' = g.n + 1
  /\ Visit(<<WhileCond(g.n + 1), Expr>>)
  /\ UNCHANGED <<depth, preEnter, decls>>

\* visit(ASTIterationStmt), cut at its two accept() calls.
VisitIterationStmt ==
  /\ Room(3)
  /\ LET exprBB == g.n + 1
         new == CreateBlocks(g, 1)
     IN  /\ g' = IF HasTerminator(g, insert) THEN new ELSE CreateBr(new, insert, exprBB)
         /\ insert' = exprBB
         /\ Visit(<<WhileCond(exprBB), Expr>>)
  /\ UNCHANGED <<depth, preEnter, decls>>

IterationBranch ==
  /\ At("whileCond")
  /\ Room(2)
  /\ LET trueBB == g.n + 1
         contBB == g.n + 2
         compared == AddInstruction(CreateBlocks(g, 2), insert, Plain)
     IN  /\ g' = CreateCondBr(compared, insert, trueBB, contBB)
         /\ insert' = trueBB
         /\ stk' = Below \o <<AfterBody(Top.blocks[1], contBB), Stmt>>
  /\ UNCHANGED <<depth, preEnter, decls, stmts>>

EndIterationBody ==
  /\ At("whileBody")
  /\ g' = BranchIfOpen(Top.blocks[1])
  /\ insert' = Top.blocks[2]
  /\ stk' = Below
  /\ UNCHANGED <<depth, preEnter, decls, stmts>>

\* visit(ASTReturnStmt): at once, or when its expression has been visited.
VisitReturnVoid ==
  /\ Visit(<< >>)
  /\ g' = CreateRet(g, insert)
  /\ UNCHANGED <<insert, depth, preEnter, decls>>

VisitReturnValue ==
  /\ Visit(<<Return, Expr>>)
  /\ UNCHANGED <<g, insert, depth, preEnter, decls>>

EndReturn ==
  /\ At("return")
  /\ g' = CreateRet(g, insert)
  /\ stk' = Below
  /\ UNCHANGED <<insert, depth, preEnter, decls, stmts>>

Next ==
  \/ VisitGlobalVarDeclaration
  \/ \E params \in BOOLEAN : VisitFunDeclaration(params)
  \/ EndFunDeclaration
  \/ VisitBody \/ VisitCompoundStmt \/ NextStatement \/ EndCompoundStmt
  \/ VisitExpressionStmt \/ VisitIndexedVar \/ EndExpression
  \/ \E hasElse \in BOOLEAN : VisitSelectionStmt(hasElse) \/ SelectionBranch(hasElse)
  \/ EndTrueNoElse \/ EndTrueWithElse \/ EndFalse
  \/ VisitIterationStmt \/ IterationBranch \/ EndIterationBody
  \/ VisitReturnVoid \/ VisitReturnValue \/ EndReturn

Spec == Init /\ [][Next]_vars

-----------------------------------------------------------------------------
\* Each variable keeps to its type.
TypeOK ==
  /\ g \in Graph
  /\ insert \in Block
  /\ stk \in Seq(Frame)
  /\ depth \in Nat
  /\ preEnter \in BOOLEAN
  /\ decls \in 0 .. MaxDecls
  /\ stmts \in 0 .. MaxStmts

(* A block never has code after its terminator, at no point of the visit:  *)
(* the break of the statement loop, the contBB of every construct and the  *)
(* get_terminator() tests see to it together.                              *)
TerminatorIsLast ==
  \A b \in g.bbs : \A i \in 1 .. Len(g.code[b]) - 1 : ~IsTerminator(g.code[b][i])

\* The successors a terminator names, in the order succ_bbs_ lists them.
TargetsOf(b) ==
  IF ~HasTerminator(g, b) THEN << >>
  ELSE LET to == g.code[b][Len(g.code[b])].to
       IN  [i \in 1 .. Len(to) |-> to[Len(to) + 1 - i]]

(* The predecessor and successor lists say what the branches say: succ is  *)
(* the branch's targets, and pre lists each source once.                   *)
EdgesMatchBranches ==
  /\ \A b \in g.bbs : g.succ[b] = TargetsOf(b)
  /\ \A a, b \in g.bbs :
        Cardinality({i \in DOMAIN g.pre[b] : g.pre[b][i] = a})
          = (IF b \in Elems(g.succ[a]) THEN 1 ELSE 0)

\* cur_fun has been visited to its end.
Finished == stk = << >> /\ g.bbs # {}

(* When a function is done every block of it ends in a terminator, and     *)
(* every branch goes to a block that is still in the function (the erased  *)
(* falseBB is never one).                                                  *)
FunctionComplete ==
  Finished => \A b \in g.bbs : HasTerminator(g, b) /\ Elems(TargetsOf(b)) \subseteq g.bbs

(* The entry block has no predecessor, so Dominators may make it its own   *)
(* dominator and Mem2Reg never needs a phi in it.                          *)
EntryHasNoPred == g.pre[Entry] = << >>

(* The scope stack is as deep as the compounds that are open: a name never *)
(* outlives its block, and pre_enter_scope is set only while the body of   *)
(* a function is about to be entered.                                      *)
OpenScopes == {i \in DOMAIN stk : stk[i].at \in {"fun", Own}}
ScopesBalanced ==
  /\ depth = 1 + Cardinality(OpenScopes)
  /\ preEnter <=> At("body")

(* Every cycle of a finished function is entered through one block, the    *)
(* exprBB of a while: the assumption LoopSearch makes of a loop base.      *)
SingleEntryLoops ==
  Finished =>
    LET reach == [b \in g.bbs |-> ReachableFrom(g, b)]
        scc(b) == {c \in g.bbs : c \in reach[b] /\ b \in reach[c]}
    IN  \A b \in reach[Entry] :
          Cardinality({c \in scc(b) : \E p \in reach[Entry] \ scc(b) : c \in Elems(g.succ[p])})
            = (IF b = Entry THEN 0 ELSE 1)
=============================================================================
