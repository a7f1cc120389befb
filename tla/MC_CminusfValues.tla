-------------------------- MODULE MC_CminusfValues --------------------------
(* Bounded instances of CminusfValues: one small program for each way the  *)
(* types, names, arrays, calls and statements of cminus-f can meet.        *)
EXTENDS CminusfValues

\* A value used as a term, an additive expression, an expression.
T(x) == Term(Factor(x))
A(x) == Additive(T(x))
E(x) == Expression(Simple(A(x)))
I(k) == Integer(k)
Half(k) == Float(k)
RelOps == {"<", "<=", ">", ">=", "==", "!="}
Op(x, op, y) ==
  CASE op \in RelOps     -> Expression(Relation2(A(x), op, A(y)))
    [] op \in {"+", "-"} -> Expression(Simple(Sum2(A(x), op, T(y))))
    [] op \in {"*", "/"} -> Expression(Simple(Additive(Product2(T(x), op, Factor(y)))))
\* x op y op z, which groups from the left, and x op (y op z).
Op3(x, o, y, p, z) ==
  IF o \in {"+", "-"}
  THEN Expression(Simple(Sum2(Sum2(A(x), o, T(y)), p, T(z))))
  ELSE Expression(Simple(Additive(Product2(Product2(T(x), o, Factor(y)), p, Factor(z)))))
OpParen(x, o, y, p, z) ==
  IF o \in {"+", "-"}
  THEN Expression(Simple(Sum2(A(x), o, Term(Parenthesised(Op(y, p, z))))))
  ELSE Expression(Simple(Additive(Product2(T(x), o, Parenthesised(Op(y, p, z))))))

Set(v, e)  == ExpressionStmt(AssignExpr(v, e))
Do(id, es) == ExpressionStmt(E(Call(id, es)))
Output(e)  == Do("output", <<e>>)
X == Var("x")
Y == Var("y")
Globals == <<Declaration(VarDecl("int", "g")), Declaration(ArrayDecl("int", "a", 2)),
             Declaration(ArrayDecl("float", "h", 2))>>
XY == <<Param("int", "x"), Param("float", "y")>>
Input == Call("input", << >>)

\* A program of the globals, a function of x and y, and a void main.
With(ret, params, locals, stmts) ==
  Program(Globals \o <<Declaration(FunDecl(ret, "f", params, CompoundStmt(locals, stmts))),
                       Declaration(FunDecl("void", "main", << >>, CompoundStmt(<< >>, <<Output(E(I(1)))>>)))>>)

\* v = x op y; return v: every operator, on ints and floats, to every target.
Typing == {With(t, XY, << >>, <<Set(v, Op(p, op, q)), ReturnStmt(E(p))>>) :
             t \in {"int", "float"}, op \in {"+", "/", "<", "!="},
             v \in {X, Y, Indexed("a", E(I(1))), Indexed("h", E(X))},
             p \in {X, Y}, q \in {X, Y, I(2), Half(1)}}

\* Chains, assignments in expressions, and subscripts that are expressions.
Chains == {With("float", XY, << >>, <<ReturnStmt(e)>>) :
             e \in {Op3(p, o[1], q, o[2], I(3)) : p \in {X, Y}, q \in {X, Half(1)},
                      o \in {<<"-", "-">>, <<"-", "+">>, <<"/", "*">>, <<"/", "/">>}}
              \cup {OpParen(p, o, Y, o, X) : p \in {X, I(4)}, o \in {"-", "/"}}}
Nested == {With("int", XY, << >>,
                <<s, Output(E(X)), Do("outputFloat", <<E(Y)>>), Do("outputFloat", <<E(Indexed("h", E(I(1))))>>),
                  ReturnStmt(Op(Indexed("a", E(I(0))), "-", Indexed("a", E(I(1)))))>>) :
             s \in {ExpressionStmt(AssignExpr(v, AssignExpr(w, e))) :
                      v \in {X, Y, Indexed("a", E(X))}, w \in {Var("g"), Y, Indexed("h", E(I(1)))},
                      e \in {E(Half(3)), Op(X, "*", I(2)), E(Input)}}
              \cup {Set(Indexed("a", E(Indexed("a", e))), Op(X, "+", I(1))) :
                      e \in {E(X), E(Y), Op(X, "<", I(1))}}
              \cup {Set(Indexed("a", AssignExpr(X, e)), E(I(2))) : e \in {E(I(1)), E(Half(3))}}}

\* One name, declared in an inner scope or not, before, in and after it.
Shadow(names) ==
  {With("int", XY, <<VarDecl("int", "z")>>,
        <<Set(Var("z"), E(I(1))),
          Statement(CompoundStmt(<<VarDecl(t, n)>>, <<Set(Var(n), E(Half(3))), Set(Var(m), Op(Var(n), "+", I(1)))>>)),
          Output(E(Var(n))), ReturnStmt(E(Var(m)))>>) : t \in {"int", "float"}, n \in names, m \in names}
Scopes == Shadow({"x", "y", "z", "g"})

\* Arrays, by name and as an argument, and the conversion and order of arguments.
K == <<Param("float", "u"), Param("int", "v"), ArrayParam("int", "w"), ArrayParam("float", "r")>>
Calls == {Program(Globals \o
            <<Declaration(FunDecl("float", "k", K, CompoundStmt(<< >>,
                <<Set(Indexed("w", E(Var("v"))), Op(Var("u"), "*", Indexed("r", E(I(1))))),
                  ReturnStmt(E(Indexed("w", E(I(0)))))>>))),
              Declaration(FunDecl("int", "f", XY, CompoundStmt(<<ArrayDecl("int", "b", 2)>>,
                <<Set(Indexed("b", E(I(0))), E(X)), Set(Indexed("b", E(I(1))), E(Y)),
                  Set(X, Op(Call("k", <<p, q, E(w), E(Var("h"))>>), "+", X)), ReturnStmt(E(X))>>)))>>) :
            p \in {E(X), E(Y), E(Input)}, q \in {E(X), Op(Y, "-", I(1)), E(Input), AssignExpr(X, E(I(1)))},
            w \in {Var("a"), Var("b")}}

\* Conditions of both types, the branches left early, loops, dead code.
Step == Set(X, Op(X, "+", I(1)))
Leave(t) == IF t = "void" THEN ReturnVoid ELSE ReturnStmt(Op(X, "-", I(1)))
Loop(t, e, p) ==
  WhileStmt(Op(X, "<", I(1)),
            Statement(CompoundStmt(<<VarDecl("float", "x")>>,
                                   <<Set(X, e), IfStmt(E(X), p), Set(Var("g"), Op(Var("g"), "+", I(1))),
                                     IfStmt(E(Var("g")), Leave(t)), Output(e)>>)))
Branches(t, e, p) ==
  {IfStmt(e, p), IfElseStmt(e, p, Output(E(Y))), IfStmt(e, IfElseStmt(E(Y), p, EmptyStmt)),
   IfElseStmt(e, Statement(CompoundStmt(<< >>, <<p, Leave(t), Output(e)>>)), p), Loop(t, e, p)}
Statements == UNION {{With(t, XY, << >>, <<s, Output(E(X))>>) : s \in Branches(t, e, p)} :
                       t \in {"void", "int", "float"}, e \in {E(X), E(Y), Op(X, "<=", Y)}, p \in {Step, EmptyStmt}}

MCPrograms == Typing \cup Chains \cup Nested \cup Scopes \cup Calls \cup Statements
MCInputs == {<<0, 1, 0>>, <<1, 0, 1>>}
MCInputSeqs == {[i \in 1 .. 3 |-> ConstInt(s[i])] : s \in MCInputs}
MCArgSeqs == {<<ConstInt(x), ConstFP(y), ConstInt(0), ConstInt(0)>> : x \in {-1, 0, 1}, y \in {1, -2, 0}}

-----------------------------------------------------------------------------
\* a[input()] = input();
AssignOrder == {With("int", XY, << >>, <<Set(Indexed("a", E(Input)), E(Input)), ReturnStmt(E(X))>>)}
=============================================================================
