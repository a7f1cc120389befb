---------------------------- MODULE CminusfValues ----------------------------
(***************************************************************************)
(* CminusfBuilder (src/cminusfc/cminusf_builder.cpp) once more, with what  *)
(* CminusfBuilder.tla leaves out: the names, types and values.  A whole    *)
(* program, from its syntax tree to the LightIR of each function, visited  *)
(* one accept() at a time; the values pass through the globals tmp_val and *)
(* require_lvalue.                                                         *)
(***************************************************************************)
EXTENDS CminusfMeaning, AST

CONSTANTS Programs,             \* the syntax trees considered
          InputSeqs, ArgSeqs    \* what input() reads, and the arguments, in the runs compared

VARIABLES program,              \* the syntax tree
          stk,                  \* the visits in progress, innermost last
          tmp_val, require_lvalue, pre_enter_scope,
          inner,                \* Scope::inner
          ir                    \* the module: globals, functions, cur_fun and the insertion block

vars == <<program, stk, tmp_val, require_lvalue, pre_enter_scope, inner, ir>>

\* Types, a pointer before what it points to, and values with their type.
INT1_T   == <<"i1">>
INT32_T  == <<"i32">>
FLOAT_T  == <<"float">>
VOID_T   == <<"void">>
PointerTo(t) == <<"ptr">> \o t
ArrayOf(t, n) == <<"array", n>> \o t
IsPointer(t) == t[1] = "ptr"
IsArray(t)   == t[1] = "array"
Element(t)   == IF IsArray(t) THEN Tail(Tail(t)) ELSE Tail(t)
IsInteger(t) == t \in {INT1_T, INT32_T}
Value(type, of) == [type |-> type, of |-> of]
NoValue == Value(VOID_T, <<"none">>)
CONST_INT(k) == Value(INT32_T, ConstInt(k))
CONST_FP(k)  == Value(FLOAT_T, ConstFP(k))
BlockValue(b) == Value(<<"label">>, Label(b))

\* The type a declaration names, of a variable and of a parameter.
ReturnType(t) == CASE t = "int" -> INT32_T [] t = "float" -> FLOAT_T [] OTHER -> VOID_T
VarType(n)    == IF n.value = 0 THEN ReturnType(n.type) ELSE ArrayOf(ReturnType(n.type), n.value)
ParamTypeOf(n) == IF n.value = 1 THEN PointerTo(ReturnType(n.type)) ELSE ReturnType(n.type)

-----------------------------------------------------------------------------
(* IRBuilder and the create functions of the instructions.                 *)
Fun == ir.funs[ir.cur]
FunOf(h) == h.funs[h.cur]
Emit(h, op, type, args) ==
  [h EXCEPT !.funs[h.cur].code[h.at] = Append(@, [op |-> op, type |-> type, args |-> args])]
\* The instruction emitted last.
Made(h) ==
  LET code == FunOf(h).code[h.at]
  IN  Value(Last(code).type, Result(<<h.at, Len(code)>>))

\* BasicBlock::create, k times.
CreateBlocks(h, k) ==
  [h EXCEPT !.funs[h.cur].n = @ + k,
            !.funs[h.cur].code = [b \in {FunOf(h).n + i : i \in 1 .. k} |-> << >>] @@ @]
HasTerminator(h) ==
  LET code == FunOf(h).code[h.at] IN code # << >> /\ Last(code).op \in {"br", "ret"}
SetInsertPoint(h, b) == [h EXCEPT !.at = b]
EraseBlock(h, b) ==
  [h EXCEPT !.funs[h.cur].code = [x \in DOMAIN @ \ {b} |-> @[x]]]

create_sitofp(h, v) == Emit(h, "si2fp", FLOAT_T, <<v>>)
create_fptosi(h, v) == Emit(h, "fp2si", INT32_T, <<v>>)
create_zext(h, v)   == Emit(h, "zext", INT32_T, <<v>>)
create_alloca(h, t) == Emit(h, "alloca", PointerTo(t), << >>)
create_load(h, p)   == Emit(h, "load", Element(p.type), <<p>>)
create_store(h, v, p) == Emit(h, "store", VOID_T, <<v, p>>)
create_cmp(h, op, l, r) == Emit(h, op, INT1_T, <<l, r>>)
create_call(h, f, args) == Emit(h, "call", h.funs[f.of[2]].ret, <<f>> \o args)
create_br(h, b)     == Emit(h, "br", VOID_T, <<BlockValue(b)>>)
create_cond_br(h, v, b, d) == Emit(h, "br", VOID_T, <<v, BlockValue(b), BlockValue(d)>>)
create_ret(h, v)    == Emit(h, "ret", VOID_T, <<v>>)
create_void_ret(h)  == Emit(h, "ret", VOID_T, << >>)

\* GetElementPtrInst::get_element_type for one or two indices.
get_element_type(p, idxs) ==
  LET t == Element(p.type) IN IF IsArray(t) /\ Len(idxs) > 1 THEN Element(t) ELSE t
create_gep(h, p, idxs) == Emit(h, "gep", PointerTo(get_element_type(p, idxs)), <<p>> \o idxs)

-----------------------------------------------------------------------------
(* Scope.                                                                  *)
\* An existing name keeps its value; nobody looks at what push returns.
push(s, id, v) ==
  IF id \in DOMAIN s[Len(s)] THEN s ELSE [s EXCEPT ![Len(s)] = (id :> v) @@ @]
find(id) ==
  LET d == CHOOSE i \in DOMAIN inner : /\ id \in DOMAIN inner[i]
                                       /\ \A j \in DOMAIN inner : id \in DOMAIN inner[j] => j <= i
  IN  inner[d][id]
in_global == Len(inner) = 1

-----------------------------------------------------------------------------
(* Visits: the node, how many of its children have been visited, the       *)
(* values and blocks its locals hold, and a local flag.                    *)
Frame(n) == [n |-> n, k |-> 0, vs |-> << >>, flag |-> FALSE]
Top == stk[Len(stk)]
N   == Top.n
Below == Front(stk)
Visiting(kind, k) == stk # << >> /\ N.kind = kind /\ Top.k = k
Return == stk' = Below
\* accept() of node x, and what this visit keeps meanwhile.
Accept(x, vs, flag) == stk' = Below \o <<[Top EXCEPT !.k = @ + 1, !.vs = vs, !.flag = flag], Frame(x)>>
\* The last thing a visit does is to accept x.
AcceptLast(x) == stk' = Append(Below, Frame(x))

NewFun(ret, params) == [ret |-> ret, params |-> params, n |-> 0, code |-> << >>]
FunValue(id) == Value(<<"function">>, <<"fun", id>>)
BuiltinFuns ==
  "input" :> NewFun(INT32_T, << >>) @@ "output" :> NewFun(VOID_T, <<INT32_T>>)
  @@ "outputFloat" :> NewFun(VOID_T, <<FLOAT_T>>) @@ "neg_idx_except" :> NewFun(VOID_T, << >>)

Init ==
  /\ program \in Programs
  /\ stk = <<Frame(transform_node_iter(program))>>
  /\ tmp_val = NoValue /\ require_lvalue = FALSE /\ pre_enter_scope = FALSE
  /\ inner = <<[id \in DOMAIN BuiltinFuns |-> FunValue(id)]>>
  /\ ir = [globals |-> << >>, funs |-> BuiltinFuns, cur |-> "input", at |-> 0]

VisitProgram ==
  /\ stk # << >> /\ N.kind = "Program"
  /\ IF Top.k < Len(N.of) THEN Accept(N.of[Top.k + 1], << >>, FALSE) ELSE Return
  /\ UNCHANGED <<program, tmp_val, require_lvalue, pre_enter_scope, inner, ir>>

VisitNum ==
  /\ Visiting("Num", 0)
  /\ tmp_val' = IF N.type = "int" THEN CONST_INT(N.value) ELSE CONST_FP(N.value)
  /\ Return
  /\ UNCHANGED <<program, require_lvalue, pre_enter_scope, inner, ir>>

VisitVarDeclaration ==
  /\ Visiting("VarDeclaration", 0)
  /\ LET global == Value(PointerTo(VarType(N)), <<"global", N.id>>)
     IN  IF in_global
         THEN /\ ir' = [ir EXCEPT !.globals = (N.id :> VarType(N)) @@ @]
              /\ inner' = push(inner, N.id, global)
         ELSE /\ ir' = create_alloca(ir, VarType(N))
              /\ inner' = push(inner, N.id, Made(ir'))
  /\ Return
  /\ UNCHANGED <<program, tmp_val, require_lvalue, pre_enter_scope>>

\* The parameters of a function, stored to an alloca each.
EnterFunction ==
  /\ Visiting("FunDeclaration", 0)
  /\ LET params == Front(N.of)
         types == [i \in DOMAIN params |-> ParamTypeOf(params[i])]
         new == [ir EXCEPT !.funs = (N.id :> [NewFun(ReturnType(N.type), types) EXCEPT
                                               !.n = 1, !.code = 1 :> << >>]) @@ @,
                           !.cur = N.id, !.at = 1]
         stored(acc, i) ==
           LET h == create_alloca(acc.ir, types[i])
           IN  [ir |-> create_store(h, Value(types[i], <<"arg", i>>), Made(h)),
                inner |-> push(acc.inner, params[i].id, Made(h))]
         done == FoldLeft(stored, [ir |-> new, inner |-> Append(push(inner, N.id, FunValue(N.id)), << >>)],
                          [i \in DOMAIN params |-> i])
     IN  ir' = done.ir /\ inner' = done.inner
  /\ pre_enter_scope' = TRUE
  /\ Accept(Last(N.of), << >>, FALSE)
  /\ UNCHANGED <<program, tmp_val, require_lvalue>>

\* create_ret of the 0 of cur_fun's return type.
RetZero(h) ==
  CASE FunOf(h).ret = VOID_T  -> create_void_ret(h)
    [] FunOf(h).ret = FLOAT_T -> create_ret(h, CONST_FP(0))
    [] OTHER -> create_ret(h, CONST_INT(0))

LeaveFunction ==
  /\ Visiting("FunDeclaration", 1)
  /\ ir' = IF HasTerminator(ir) THEN ir ELSE RetZero(ir)
  /\ inner' = Front(inner)
  /\ Return
  /\ UNCHANGED <<program, tmp_val, require_lvalue, pre_enter_scope>>

EnterCompound ==
  /\ stk # << >> /\ N.kind = "CompoundStmt" /\ Top.k = 0
  /\ inner' = IF pre_enter_scope THEN inner ELSE Append(inner, << >>)
  /\ pre_enter_scope' = FALSE
  /\ stk' = Append(Below, [Top EXCEPT !.k = 1, !.flag = ~pre_enter_scope])
  /\ UNCHANGED <<program, tmp_val, require_lvalue, ir>>

\* Child k - 1 was the last one visited; a statement that ends its block stops
\* the loop.
StopCompound == Top.k - 1 = Len(N.of) \/ (Top.k - 1 > N.value /\ HasTerminator(ir))
CompoundNext ==
  /\ stk # << >> /\ N.kind = "CompoundStmt" /\ Top.k > 0 /\ ~StopCompound
  /\ Accept(N.of[Top.k], << >>, Top.flag)
  /\ UNCHANGED <<program, tmp_val, require_lvalue, pre_enter_scope, inner, ir>>
LeaveCompound ==
  /\ stk # << >> /\ N.kind = "CompoundStmt" /\ Top.k > 0 /\ StopCompound
  /\ inner' = IF Top.flag THEN Front(inner) ELSE inner
  /\ Return
  /\ UNCHANGED <<program, tmp_val, require_lvalue, pre_enter_scope, ir>>

VisitExpressionStmt ==
  /\ Visiting("ExpressionStmt", 0)
  /\ IF N.of = << >> THEN Return ELSE AcceptLast(N.of[1])
  /\ UNCHANGED <<program, tmp_val, require_lvalue, pre_enter_scope, inner, ir>>

-----------------------------------------------------------------------------
(* Statements with a condition, and return.                                *)
Condition(h, v) ==
  IF IsInteger(v.type) THEN create_cmp(h, "ne", v, CONST_INT(0)) ELSE create_cmp(h, "fne", v, CONST_FP(0))
BranchIfOpen(b) == IF HasTerminator(ir) THEN ir ELSE create_br(ir, b)
Blocks(bs) == [i \in DOMAIN bs |-> BlockValue(bs[i])]
BlockAt(i) == Top.vs[i].of[2]

VisitCondition ==
  /\ Visiting("SelectionStmt", 0)
  /\ Accept(N.of[1], << >>, FALSE)
  /\ UNCHANGED <<program, tmp_val, require_lvalue, pre_enter_scope, inner, ir>>

VisitIfStatement ==
  /\ Visiting("SelectionStmt", 1)
  /\ LET n == Fun.n
         h == Condition(CreateBlocks(ir, 3), tmp_val)
     IN  /\ ir' = SetInsertPoint(create_cond_br(h, Made(h), n + 1, IF Len(N.of) = 2 THEN n + 3 ELSE n + 2), n + 1)
         /\ Accept(N.of[2], Blocks(<<n + 2, n + 3>>), FALSE)
  /\ UNCHANGED <<program, tmp_val, require_lvalue, pre_enter_scope, inner>>

EndIfStatement ==
  /\ Visiting("SelectionStmt", 2)
  /\ IF Len(N.of) = 2
     THEN ir' = SetInsertPoint(EraseBlock(BranchIfOpen(BlockAt(2)), BlockAt(1)), BlockAt(2)) /\ Return
     ELSE /\ ir' = SetInsertPoint(BranchIfOpen(BlockAt(2)), BlockAt(1))
          /\ Accept(N.of[3], Top.vs, FALSE)
  /\ UNCHANGED <<program, tmp_val, require_lvalue, pre_enter_scope, inner>>

EndElseStatement ==
  /\ Visiting("SelectionStmt", 3)
  /\ ir' = SetInsertPoint(BranchIfOpen(BlockAt(2)), BlockAt(2))
  /\ Return
  /\ UNCHANGED <<program, tmp_val, require_lvalue, pre_enter_scope, inner>>

VisitIterationStmt ==
  /\ Visiting("IterationStmt", 0)
  /\ LET h == CreateBlocks(ir, 1)
         exprBB == Fun.n + 1
     IN  ir' = SetInsertPoint(IF HasTerminator(h) THEN h ELSE create_br(h, exprBB), exprBB)
  /\ Accept(N.of[1], Blocks(<<Fun.n + 1>>), FALSE)
  /\ UNCHANGED <<program, tmp_val, require_lvalue, pre_enter_scope, inner>>

VisitLoopBody ==
  /\ Visiting("IterationStmt", 1)
  /\ LET n == Fun.n
         h == Condition(CreateBlocks(ir, 2), tmp_val)
     IN  /\ ir' = SetInsertPoint(create_cond_br(h, Made(h), n + 1, n + 2), n + 1)
         /\ Accept(N.of[2], Append(Top.vs, BlockValue(n + 2)), FALSE)
  /\ UNCHANGED <<program, tmp_val, require_lvalue, pre_enter_scope, inner>>

EndLoopBody ==
  /\ Visiting("IterationStmt", 2)
  /\ ir' = SetInsertPoint(BranchIfOpen(BlockAt(1)), BlockAt(2))
  /\ Return
  /\ UNCHANGED <<program, tmp_val, require_lvalue, pre_enter_scope, inner>>

VisitReturnStmt ==
  /\ Visiting("ReturnStmt", 0)
  /\ IF N.of = << >> THEN ir' = create_void_ret(ir) /\ Return
     ELSE Accept(N.of[1], << >>, FALSE) /\ UNCHANGED ir
  /\ UNCHANGED <<program, tmp_val, require_lvalue, pre_enter_scope, inner>>

EndReturnStmt ==
  /\ Visiting("ReturnStmt", 1)
  /\ LET h == IF IsInteger(Fun.ret) THEN create_fptosi(ir, tmp_val) ELSE create_sitofp(ir, tmp_val)
     IN  IF Fun.ret = tmp_val.type
         THEN ir' = create_ret(ir, tmp_val) /\ UNCHANGED tmp_val
         ELSE ir' = create_ret(h, Made(h)) /\ tmp_val' = Made(h)
  /\ Return
  /\ UNCHANGED <<program, require_lvalue, pre_enter_scope, inner>>

-----------------------------------------------------------------------------
(* Expressions.                                                            *)
\* Mutant of VisitVar: the subscript is visited with require_lvalue still set.
VisitVarKeepsFlag ==
  /\ Visiting("Var", 0)
  /\ LET var == find(N.id)
         h == create_load(ir, var)
     IN  IF N.of # << >> THEN Accept(N.of[1], <<var>>, require_lvalue) /\ UNCHANGED <<tmp_val, ir>>
         ELSE Return /\ IF require_lvalue \/ IsArray(Element(var.type)) THEN tmp_val' = var /\ UNCHANGED ir
                        ELSE tmp_val' = Made(h) /\ ir' = h
  /\ require_lvalue' = IF N.of = << >> THEN FALSE ELSE require_lvalue
  /\ UNCHANGED <<program, pre_enter_scope, inner>>

\* A name by itself: its address, its value, or the first element of an array.
VisitVar ==
  /\ Visiting("Var", 0)
  /\ LET var == find(N.id)
         h == IF IsArray(Element(var.type)) THEN create_gep(ir, var, <<CONST_INT(0), CONST_INT(0)>>)
              ELSE create_load(ir, var)
     IN  CASE N.of # << >> -> Accept(N.of[1], <<var>>, require_lvalue) /\ UNCHANGED <<tmp_val, ir>>
           [] N.of = << >> /\ require_lvalue -> Return /\ tmp_val' = var /\ UNCHANGED ir
           [] OTHER -> Return /\ tmp_val' = Made(h) /\ ir' = h
  /\ require_lvalue' = FALSE
  /\ UNCHANGED <<program, pre_enter_scope, inner>>

\* The subscript is in tmp_val: a negative one leaves the function, another is
\* added to the address, which is loaded from unless it was asked for.
CheckIndex(h, val, exceptBB, contBB) ==
  LET tested == create_cmp(h, "lt", val, CONST_INT(0))
      branch == SetInsertPoint(create_cond_br(tested, Made(tested), exceptBB, contBB), exceptBB)
  IN  SetInsertPoint(RetZero(create_call(branch, find("neg_idx_except"), << >>)), contBB)
ElementAddress(h, var, val) ==
  LET t == Element(var.type)
      loaded == create_load(h, var)
  IN  CASE IsPointer(t) -> create_gep(loaded, Made(loaded), <<val>>)
        [] IsArray(t)   -> create_gep(h, var, <<CONST_INT(0), val>>)
        [] OTHER        -> create_gep(h, var, <<val>>)
EndIndexedVar ==
  /\ Visiting("Var", 1)
  /\ LET n == Fun.n
         new == CreateBlocks(ir, 2)
         float == tmp_val.type = FLOAT_T
         cast == IF float THEN create_fptosi(new, tmp_val) ELSE new
         val == IF float THEN Made(cast) ELSE tmp_val
         there == ElementAddress(CheckIndex(cast, val, n + 1, n + 2), Top.vs[1], val)
         h == IF Top.flag THEN there ELSE create_load(there, Made(there))
     IN  ir' = h /\ tmp_val' = Made(h)
  /\ require_lvalue' = IF Top.flag THEN FALSE ELSE require_lvalue
  /\ Return
  /\ UNCHANGED <<program, pre_enter_scope, inner>>

\* An assignment visits its right side first.
VisitAssignExpression ==
  /\ Visiting("AssignExpression", 0)
  /\ Accept(N.of[2], << >>, FALSE)
  /\ UNCHANGED <<program, tmp_val, require_lvalue, pre_enter_scope, inner, ir>>
VisitTarget ==
  /\ Visiting("AssignExpression", 1)
  /\ require_lvalue' = TRUE
  /\ Accept(N.of[1], <<tmp_val>>, FALSE)
  /\ UNCHANGED <<program, tmp_val, pre_enter_scope, inner, ir>>

\* Mutant of Assigned: the value of the assignment is that of its right side.
AssignedUnconverted(h, v, addr) ==
  LET cast == IF v.type = INT32_T THEN create_sitofp(h, v) ELSE create_fptosi(h, v)
  IN  IF Element(addr.type) = v.type THEN [ir |-> create_store(h, v, addr), v |-> v]
      ELSE [ir |-> create_store(cast, Made(cast), addr), v |-> v]

Assigned(h, v, addr) ==
  LET cast == IF v.type = INT32_T THEN create_sitofp(h, v) ELSE create_fptosi(h, v)
  IN  IF Element(addr.type) = v.type THEN [ir |-> create_store(h, v, addr), v |-> v]
      ELSE [ir |-> create_store(cast, Made(cast), addr), v |-> Made(cast)]
EndAssignExpression ==
  /\ Visiting("AssignExpression", 2)
  /\ LET done == Assigned(ir, Top.vs[1], tmp_val)
     IN  ir' = done.ir /\ tmp_val' = done.v
  /\ Return
  /\ UNCHANGED <<program, require_lvalue, pre_enter_scope, inner>>

\* Mutant of promote: only the right operand is ever converted.
promoteRight(h, l, r) ==
  LET right == create_sitofp(h, r)
  IN  IF l.type = r.type \/ IsInteger(l.type) THEN [ir |-> h, l |-> l, r |-> r, int |-> IsInteger(l.type)]
      ELSE [ir |-> right, l |-> l, r |-> Made(right), int |-> FALSE]

promote(h, l, r) ==
  LET left == create_sitofp(h, l)
      right == create_sitofp(h, r)
  IN  CASE l.type = r.type   -> [ir |-> h, l |-> l, r |-> r, int |-> IsInteger(l.type)]
        [] l.type # r.type /\ IsInteger(l.type) -> [ir |-> left, l |-> Made(left), r |-> r, int |-> FALSE]
        [] OTHER -> [ir |-> right, l |-> l, r |-> Made(right), int |-> FALSE]

\* What is emitted for operator op; a comparison is widened to an int.
Compared(p, op) ==
  LET h == create_cmp(p.ir, IF p.int THEN IntOp(op) ELSE "f" \o IntOp(op), p.l, p.r)
  IN  create_zext(h, Made(h))
Computed(p, op) ==
  IF p.int THEN Emit(p.ir, IntOp(op), INT32_T, <<p.l, p.r>>)
  ELSE Emit(p.ir, IF op = "/" THEN "fdiv" ELSE "f" \o IntOp(op), FLOAT_T, <<p.l, p.r>>)

Arithmetics == {"AdditiveExpression", "Term"}
VisitFirstOperand(kinds) ==
  /\ stk # << >> /\ N.kind \in kinds /\ Top.k = 0
  /\ IF Len(N.of) = 1 THEN AcceptLast(N.of[1]) ELSE Accept(N.of[1], << >>, FALSE)
  /\ UNCHANGED <<program, tmp_val, require_lvalue, pre_enter_scope, inner, ir>>
VisitSecondOperand(kinds) ==
  /\ stk # << >> /\ N.kind \in kinds /\ Top.k = 1
  /\ Accept(N.of[2], <<tmp_val>>, FALSE)
  /\ UNCHANGED <<program, tmp_val, require_lvalue, pre_enter_scope, inner, ir>>
Combine(kinds, Result2(_, _)) ==
  /\ stk # << >> /\ N.kind \in kinds /\ Top.k = 2
  /\ ir' = Result2(promote(ir, Top.vs[1], tmp_val), N.id)
  /\ tmp_val' = Made(ir')
  /\ Return
  /\ UNCHANGED <<program, require_lvalue, pre_enter_scope, inner>>
VisitSimpleExpression ==
  \/ VisitFirstOperand({"SimpleExpression"}) \/ VisitSecondOperand({"SimpleExpression"})
  \/ Combine({"SimpleExpression"}, Compared)
VisitArithmetic ==
  \/ VisitFirstOperand(Arithmetics) \/ VisitSecondOperand(Arithmetics)
  \/ Combine(Arithmetics, Computed)

\* An argument, converted to the type of its parameter unless it is a pointer.
Passed(h, v, type) ==
  LET cast == IF IsInteger(v.type) THEN create_sitofp(h, v) ELSE create_fptosi(h, v)
  IN  IF IsPointer(v.type) \/ v.type = type THEN [ir |-> h, v |-> v] ELSE [ir |-> cast, v |-> Made(cast)]

Callee == ir.funs[find(N.id).of[2]]
VisitCall ==
  /\ stk # << >> /\ N.kind = "Call" /\ N.of # << >> /\ Top.k = 0
  /\ Accept(N.of[1], << >>, FALSE)
  /\ UNCHANGED <<program, tmp_val, require_lvalue, pre_enter_scope, inner, ir>>
NextArgument ==
  /\ stk # << >> /\ N.kind = "Call" /\ Top.k \in 1 .. Len(N.of) - 1
  /\ LET arg == Passed(ir, tmp_val, Callee.params[Top.k])
     IN  ir' = arg.ir /\ tmp_val' = arg.v /\ Accept(N.of[Top.k + 1], Append(Top.vs, arg.v), FALSE)
  /\ UNCHANGED <<program, require_lvalue, pre_enter_scope, inner>>
EndCall ==
  /\ stk # << >> /\ N.kind = "Call" /\ Top.k = Len(N.of)
  /\ LET arg == Passed(ir, tmp_val, Callee.params[Top.k])
         h == IF N.of = << >> THEN create_call(ir, find(N.id), << >>)
              ELSE create_call(arg.ir, find(N.id), Append(Top.vs, arg.v))
     IN  ir' = h /\ tmp_val' = Made(h)
  /\ Return
  /\ UNCHANGED <<program, require_lvalue, pre_enter_scope, inner>>

Next ==
  \/ VisitProgram \/ VisitNum \/ VisitVarDeclaration \/ EnterFunction \/ LeaveFunction
  \/ EnterCompound \/ CompoundNext \/ LeaveCompound \/ VisitExpressionStmt
  \/ VisitCondition \/ VisitIfStatement \/ EndIfStatement \/ EndElseStatement
  \/ VisitIterationStmt \/ VisitLoopBody \/ EndLoopBody \/ VisitReturnStmt \/ EndReturnStmt
  \/ VisitVar \/ EndIndexedVar \/ VisitAssignExpression \/ VisitTarget \/ EndAssignExpression
  \/ VisitSimpleExpression \/ VisitArithmetic \/ VisitCall \/ NextArgument \/ EndCall

Spec == Init /\ [][Next]_vars

-----------------------------------------------------------------------------
(* Running the LightIR of a function, as CminusfMeaning runs its source.   *)
ValueAt(m, v) ==
  CASE v.of[1] = "op"     -> IF v.of[2] \in DOMAIN m.val THEN m.val[v.of[2]] ELSE Undefined
    [] v.of[1] = "global" -> At(v.of, 0)
    [] v.of[1] = "arg"    -> m.args[v.of[2]]
    [] OTHER -> v.of

CallIn(m, id, name, vs) ==
  CASE name = "input" -> [m EXCEPT !.val = (id :> Head(m.in)) @@ @, !.in = Tail(@)]
    [] name = "neg_idx_except" -> [m EXCEPT !.trace = Append(@, <<name>>), !.over = TRUE]
    [] OTHER -> [m EXCEPT !.trace = Append(@, <<name>> \o [i \in DOMAIN vs |-> Shown(m.mem, vs[i])]),
                          !.val = (id :> Answer(m.signs[name].ret)) @@ @]

RunInstr(m, id, i) ==
  LET a == [k \in DOMAIN i.args |-> ValueAt(m, i.args[k])]
      gives(v) == [m EXCEPT !.val = (id :> v) @@ @]
      t == Element(i.type)
  IN  CASE m.over -> m
        [] i.op = "alloca" ->
             [gives(At(<<"alloca", id>>, 0)) EXCEPT
                !.mem = (<<"alloca", id>> :> Cells(IF IsArray(t) THEN t[2] ELSE 1, Undefined)) @@ @]
        [] i.op = "load"  -> gives(ReadAt(m.mem, a[1]))
        [] i.op = "store" -> [m EXCEPT !.mem = WriteAt(@, a[2], a[1])]
        [] i.op = "gep"   -> gives(At(a[1][2], a[1][3] + Last(a)[2]))
        [] i.op = "call"  -> CallIn(m, id, i.args[1].of[2], Tail(a))
        [] i.op = "ret"   -> [m EXCEPT !.over = TRUE, !.ret = IF a = << >> THEN Undefined ELSE a[1]]
        [] i.op = "br"    -> [m EXCEPT !.at = CASE Len(a) = 1 -> a[1][2]
                                            [] Len(a) = 3 /\ a[1] = ConstInt(0) -> a[3][2]
                                            [] OTHER -> a[2][2]]
        [] OTHER -> gives(IF Undefined \in ToSet(a) THEN Undefined
                          ELSE Outcome(i.op, a[1][2], IF Len(a) = 2 THEN a[2][2] ELSE 0))

RECURSIVE RunFrom(_, _)
RunFrom(m, code) ==
  LET b == m.at
      after == FoldLeft(LAMBDA x, k : RunInstr(x, <<b, k>>, code[b][k]), m, [k \in DOMAIN code[b] |-> k])
  IN  IF after.over THEN after ELSE RunFrom(after, code)

RunFunction(fun, inputs, args) ==
  LET values == [i \in DOMAIN ParamsOf(fun) |->
                   LET p == ParamsOf(fun)[i]
                   IN  IF ParamType(p) = "array" THEN At(<<"arg", i>>, 0) ELSE Converted(TypeName(p), args[i])]
      end == RunFrom([mem |-> FirstMemory(program, fun), val |-> << >>, in |-> inputs, trace |-> << >>,
                      over |-> FALSE, ret |-> Undefined, at |-> 1, args |-> values, signs |-> Signs(program)],
                     ir.funs[NameOf(fun)].code)
  IN  Seen(end.trace, end.ret, end.mem)

Done == stk = << >>
(* A program does what its source says: whatever it reads and is given,    *)
(* each function shows the same calls in the same order, returns the same  *)
(* value and leaves the same in the globals and in the arrays it is given. *)
MeaningPreserved ==
  Done => \A k \in DOMAIN FunctionsOf(program) : \A in \in InputSeqs, args \in ArgSeqs :
            LET fun == FunctionsOf(program)[k]
            IN  RunFunction(fun, in, args) = Meaning(program, fun, in, args)

-----------------------------------------------------------------------------
(* The types of the operands, as assertValid() of the instructions has     *)
(* them; the constructors do not call it.                                  *)
Types(args) == [i \in DOMAIN args |-> args[i].type]
WellTyped(f, i) ==
  LET t == Types(i.args)
  IN  CASE i.op \in IntOps \cup CmpOps -> t = <<INT32_T, INT32_T>>
        [] i.op \in FloatOps \cup FCmpOps -> t = <<FLOAT_T, FLOAT_T>>
        [] i.op = "zext"  -> t = <<INT1_T>>
        [] i.op = "si2fp" -> t = <<INT32_T>>
        [] i.op = "fp2si" -> t = <<FLOAT_T>>
        [] i.op = "load"  -> IsPointer(t[1]) /\ ~IsArray(i.type)
        [] i.op = "store" -> t[2] = PointerTo(t[1])
        [] i.op = "gep"   -> /\ IsPointer(t[1]) /\ \A k \in 2 .. Len(t) : t[k] = INT32_T
                             /\ IF IsArray(Element(t[1])) THEN Len(t) = 3 ELSE Len(t) = 2
        [] i.op = "call"  -> Tail(t) = ir.funs[i.args[1].of[2]].params
        [] i.op = "br"    -> Len(t) = 3 => t[1] = INT1_T
        [] i.op = "ret"   -> t = IF f.ret = VOID_T THEN << >> ELSE <<f.ret>>
        [] OTHER -> TRUE

(* Every instruction takes operands of the types it is for, at every point *)
(* of the visit: no conversion is missing, and none is made of an address. *)
InstructionsTyped ==
  \A name \in DOMAIN ir.funs : LET f == ir.funs[name] IN
    \A b \in DOMAIN f.code : \A k \in DOMAIN f.code[b] : WellTyped(f, f.code[b][k])

(* require_lvalue is set only from the time an assignment asks for its     *)
(* target to the visit of that target: nothing visited in between, and no  *)
(* subscript of the target, is compiled to an address instead of a value.  *)
LvalueForTargetOnly ==
  require_lvalue => /\ Visiting("Var", 0)
                    /\ Len(stk) > 1 /\ stk[Len(stk) - 1].n.kind = "AssignExpression"
                    /\ stk[Len(stk) - 1].k = 2
=============================================================================
