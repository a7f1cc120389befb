--------------------------- MODULE CminusfMeaning ---------------------------
(***************************************************************************)
(* What a cminus-f program means, read off its syntax tree: the reference  *)
(* CminusfBuilder is compared with, after Documentations/common/cminusf.md *)
(* and, where that says nothing, C.  Each function is run by itself: a     *)
(* call of another function shows its name and arguments and gives a fixed *)
(* answer.  A state s has the open scopes (name to variable), the memory   *)
(* (object to its elements), the inputs left, what was shown, and whether  *)
(* the function is over, with the value it returned.                       *)
(***************************************************************************)
EXTENDS FunctionIR, SyntaxTree

Sign(ret, params) == [ret |-> ret, params |-> params]
Builtins == "input" :> Sign("int", << >>) @@ "output" :> Sign("void", <<"int">>)
            @@ "outputFloat" :> Sign("void", <<"float">>) @@ "neg_idx_except" :> Sign("void", << >>)

c(n, i) == n.children[i]
RECURSIVE Items(_)
Items(list) ==
  CASE c(list, 1).name = list.name -> Append(Items(c(list, 1)), Last(list.children))
    [] c(list, 1).name = "epsilon" -> << >>
    [] OTHER -> <<c(list, 1)>>

NameOf(decl) == c(decl, 2).name
TypeName(decl) == c(c(decl, 1), 1).name
Declarations(program) == [i \in DOMAIN Items(c(program, 1)) |-> c(Items(c(program, 1))[i], 1)]
IsFunction(decl) == decl.name = "fun-declaration"
FunctionsOf(program) == SelectSeq(Declarations(program), IsFunction)
GlobalsOf(program) == SelectSeq(Declarations(program), LAMBDA d : ~IsFunction(d))
ParamsOf(fun) == IF c(c(fun, 4), 1).name = "param-list" THEN Items(c(c(fun, 4), 1)) ELSE << >>
ParamType(p) == IF Len(p.children) = 3 THEN "array" ELSE TypeName(p)
SignOf(fun) == Sign(TypeName(fun), [i \in DOMAIN ParamsOf(fun) |-> ParamType(ParamsOf(fun)[i])])
Signs(program) ==
  FoldLeft(LAMBDA m, d : (NameOf(d) :> SignOf(d)) @@ m, Builtins, FunctionsOf(program))

-----------------------------------------------------------------------------
(* Values and memory, which running the emitted code has too.              *)
At(obj, k) == <<"at", obj, k>>
Zero(type) == IF type = "float" THEN ConstFP(0) ELSE ConstInt(0)
Cells(n, v) == [i \in 1 .. n |-> v]
InObject(mem, a) == a[1] = "at" /\ a[3] + 1 \in DOMAIN mem[a[2]]
ReadAt(mem, a) == IF InObject(mem, a) THEN mem[a[2]][a[3] + 1] ELSE Undefined
WriteAt(mem, a, v) == IF InObject(mem, a) THEN [mem EXCEPT ![a[2]][a[3] + 1] = v] ELSE mem

\* What a callee sees of an argument: of an array, the elements.
Shown(mem, v) == IF v[1] = "at" THEN <<"array", mem[v[2]]>> ELSE v
Answer(ret) == CASE ret = "int" -> ConstInt(1) [] ret = "float" -> ConstFP(1) [] OTHER -> Undefined

\* The objects a function finds: the globals, all 0, and the arrays it is given.
GivenArray == <<ConstInt(1), ConstInt(-1)>>
GivenFloats == <<ConstFP(1), ConstFP(-3)>>
CellsOf(decl) == Cells(IF Len(decl.children) = 6 THEN c(decl, 4).value ELSE 1, Zero(TypeName(decl)))
FirstMemory(program, fun) ==
  LET globals == FoldLeft(LAMBDA m, d : (<<"global", NameOf(d)>> :> CellsOf(d)) @@ m, << >>, GlobalsOf(program))
      arrays == {i \in DOMAIN ParamsOf(fun) : ParamType(ParamsOf(fun)[i]) = "array"}
  IN  globals @@ [o \in {<<"arg", i>> : i \in arrays} |->
                    IF TypeName(ParamsOf(fun)[o[2]]) = "int" THEN GivenArray ELSE GivenFloats]

ToInt(v)   == IF v[1] = "fp" THEN Outcome("fp2si", v[2], 0) ELSE v
ToFloat(v) == IF v[1] = "int" THEN Outcome("si2fp", v[2], 0) ELSE v
Converted(type, v) == CASE type = "int" -> ToInt(v) [] type = "float" -> ToFloat(v) [] OTHER -> v

IntOp(op) ==
  CASE op = "+" -> "add" [] op = "-" -> "sub" [] op = "*" -> "mul" [] op = "/" -> "sdiv"
    [] op = "<" -> "lt" [] op = "<=" -> "le" [] op = ">" -> "gt" [] op = ">=" -> "ge"
    [] op = "==" -> "eq" [] op = "!=" -> "ne"
Arithmetic(op, x, y) ==
  CASE x = Undefined \/ y = Undefined -> Undefined
    [] x[1] = "int" /\ y[1] = "int" -> Outcome(IntOp(op), x[2], y[2])
    [] op \in {"+", "-", "*", "/"} ->
         Outcome(IF op = "/" THEN "fdiv" ELSE "f" \o IntOp(op), ToFloat(x)[2], ToFloat(y)[2])
    [] OTHER -> Outcome(IntOp(op), ToFloat(x)[2], ToFloat(y)[2])

-----------------------------------------------------------------------------
Variable(s, id) ==
  LET d == CHOOSE i \in DOMAIN s.scopes :
             id \in DOMAIN s.scopes[i] /\ \A j \in DOMAIN s.scopes : id \in DOMAIN s.scopes[j] => j <= i
  IN  s.scopes[d][id]
Bind(s, id, variable) == [s EXCEPT !.scopes[Len(s.scopes)] = (id :> variable) @@ @]
VariableOf(type, array, obj) == [type |-> type, array |-> array, obj |-> obj]

\* A local variable, of which nothing is known yet.
Declare(s, decl) ==
  LET obj == <<"local", s.fresh>>
      array == Len(decl.children) = 6
  IN  Bind([s EXCEPT !.mem = (obj :> Cells(IF array THEN c(decl, 4).value ELSE 1, Undefined)) @@ @,
                     !.fresh = @ + 1],
           NameOf(decl), VariableOf(TypeName(decl), array, obj))

Gives(s, v) == [s |-> s, v |-> v]
Over(s, v) == [s EXCEPT !.over = TRUE, !.ret = v]
Say(s, x) == [s EXCEPT !.trace = Append(@, x)]

RECURSIVE Eval(_, _), Address(_, _), Arguments(_, _, _)

\* The address of a var; a negative subscript ends the program.
Address(n, s) ==
  LET v == Variable(s, c(n, 1).name)
      e == Eval(c(n, 3), s)
      k == ToInt(e.v)[2]
  IN  CASE Len(n.children) = 1 -> Gives(s, At(v.obj, 0))
        [] e.s.over -> e
        [] k < 0    -> Gives(Over(Say(e.s, <<"neg_idx_except">>), Undefined), Undefined)
        [] OTHER    -> Gives(e.s, At(v.obj, k))

\* The arguments, from the left, each converted to the type of its parameter.
Arguments(es, types, s) ==
  IF es = << >> THEN [s |-> s, vs |-> << >>]
  ELSE LET e == Eval(Head(es), s)
           rest == Arguments(Tail(es), Tail(types), e.s)
       IN  [s |-> rest.s, vs |-> <<Converted(Head(types), e.v)>> \o rest.vs]

Called(id, s, vs) ==
  IF id = "input" THEN Gives([s EXCEPT !.in = Tail(@)], Head(s.in))
  ELSE Gives(Say(s, <<id>> \o [i \in DOMAIN vs |-> Shown(s.mem, vs[i])]), Answer(s.signs[id].ret))

Eval(n, s) ==
  IF s.over THEN Gives(s, Undefined)
  ELSE CASE n.name = "integer" -> Gives(s, ConstInt(c(n, 1).value))
         [] n.name = "float"   -> Gives(s, ConstFP(c(n, 1).value))
         [] n.name = "expression" /\ Len(n.children) = 3 ->
              LET a == Address(c(n, 1), s)
                  e == Eval(c(n, 3), a.s)
                  v == Converted(Variable(s, c(c(n, 1), 1).name).type, e.v)
              IN  IF e.s.over THEN e ELSE Gives([e.s EXCEPT !.mem = WriteAt(@, a.v, v)], v)
         [] n.name = "var" ->
              LET a == Address(n, s)
                  whole == Len(n.children) = 1 /\ Variable(s, c(n, 1).name).array
              IN  IF a.s.over \/ whole THEN a ELSE Gives(a.s, ReadAt(a.s.mem, a.v))
         [] n.name = "call" ->
              LET id == c(n, 1).name
                  es == IF c(c(n, 3), 1).name = "epsilon" THEN << >> ELSE Items(c(c(n, 3), 1))
                  args == Arguments(es, s.signs[id].params, s)
              IN  IF args.s.over THEN Gives(args.s, Undefined) ELSE Called(id, args.s, args.vs)
         [] n.name = "factor" -> Eval(c(n, IF Len(n.children) = 3 THEN 2 ELSE 1), s)
         [] Len(n.children) = 3 ->
              LET l == Eval(c(n, 1), s)
                  r == Eval(c(n, 3), l.s)
              IN  Gives(r.s, IF r.s.over THEN Undefined ELSE Arithmetic(c(c(n, 2), 1).name, l.v, r.v))
         [] OTHER -> Eval(c(n, 1), s)

IsFalse(v) == v \in {ConstInt(0), ConstFP(0)}

RECURSIVE Exec(_, _)
InScope(n, s) ==
  FoldLeft(LAMBDA t, x : Exec(c(x, 1), t), FoldLeft(Declare, s, Items(c(n, 2))), Items(c(n, 3)))

Exec(n, s) ==
  IF s.over THEN s
  ELSE CASE n.name = "compound-stmt" ->
              [InScope(n, [s EXCEPT !.scopes = Append(@, << >>)]) EXCEPT !.scopes = Front(@)]
         [] n.name = "expression-stmt" -> IF Len(n.children) = 2 THEN Eval(c(n, 1), s).s ELSE s
         [] n.name = "selection-stmt" ->
              LET e == Eval(c(n, 3), s)
              IN  CASE ~IsFalse(e.v) -> Exec(c(c(n, 5), 1), e.s)
                    [] IsFalse(e.v) /\ Len(n.children) = 7 -> Exec(c(c(n, 7), 1), e.s)
                    [] OTHER -> e.s
         [] n.name = "iteration-stmt" ->
              LET e == Eval(c(n, 3), s)
              IN  IF e.s.over \/ IsFalse(e.v) THEN e.s ELSE Exec(n, Exec(c(c(n, 5), 1), e.s))
         [] n.name = "return-stmt" ->
              LET e == Eval(c(n, 2), s)
              IN  CASE Len(n.children) = 2 -> Over(s, Undefined)
                    [] e.s.over -> e.s
                    [] OTHER -> Over(e.s, Converted(s.type, e.v))

\* The end of a function that has no return.
Fallen(type) == IF type = "void" THEN Undefined ELSE Zero(type)

\* What is seen of a run: what it showed and returned, and, unless the program
\* ended with it, the memory it leaves to the others.
Seen(trace, ret, mem) ==
  LET exited == trace # << >> /\ Last(trace) = <<"neg_idx_except">>
      left == {o \in DOMAIN mem : o[1] \in {"global", "arg"} /\ ~exited}
  IN  [trace |-> trace, ret |-> ret, mem |-> [o \in left |-> mem[o]]]

\* Running fun with numbers args (an array parameter gets its own object).
Meaning(program, fun, inputs, args) ==
  LET globals == [d \in ToSet(GlobalsOf(program)) |->
                    VariableOf(TypeName(d), Len(d.children) = 6, <<"global", NameOf(d)>>)]
      start == [scopes |-> <<FoldLeft(LAMBDA m, d : (NameOf(d) :> globals[d]) @@ m, << >>, GlobalsOf(program)), << >>>>,
                mem |-> FirstMemory(program, fun), fresh |-> 1, in |-> inputs, trace |-> << >>,
                over |-> FALSE, ret |-> Undefined, signs |-> Signs(program), type |-> TypeName(fun)]
      bound(s, i) ==
        LET p == ParamsOf(fun)[i]
            obj == <<"local", s.fresh>>
        IN  IF ParamType(p) = "array" THEN Bind(s, NameOf(p), VariableOf(TypeName(p), TRUE, <<"arg", i>>))
            ELSE Bind([s EXCEPT !.mem = (obj :> <<Converted(TypeName(p), args[i])>>) @@ @, !.fresh = @ + 1],
                      NameOf(p), VariableOf(TypeName(p), FALSE, obj))
      end == InScope(c(fun, 6), FoldLeft(bound, start, [i \in DOMAIN ParamsOf(fun) |-> i]))
  IN  Seen(end.trace, IF end.over THEN end.ret ELSE Fallen(end.type), end.mem)
=============================================================================
