-------------------------------- MODULE AST ---------------------------------
(***************************************************************************)
(* AST::transform_node_iter (src/common/ast.cpp): from the syntax tree of  *)
(* the parser to the tree the visitors walk.  A node has its kind, its     *)
(* type, its id (for an expression, the operator), its value (of a number, *)
(* of an array's size, the number of local declarations of a compound) and *)
(* the nodes it holds, in the order of the members of its struct.          *)
(***************************************************************************)
EXTENDS SyntaxTree

Node(kind, type, id, value, of) ==
  [kind |-> kind, type |-> type, id |-> id, value |-> value, of |-> of]

child(n, i) == n.children[i + 1]
Shape(n) == Len(n.children)

\* std::stoi and std::stof of the text of a number.
Stoi(n) == n.value
Stof(n) == n.value

RECURSIVE transform_node_iter(_), Spine(_, _)

\* The nodes pushed on the way down a left recursive list whose longer form
\* has k children, last item first.
Spine(list, k) ==
  IF Shape(list) = k THEN <<child(list, k - 1)>> \o Spine(child(list, 0), k) ELSE << >>

RECURSIVE Bottom(_, _)
Bottom(list, k) == IF Shape(list) = k THEN Bottom(child(list, 0), k) ELSE list

Transformed(stack) == [i \in DOMAIN stack |-> transform_node_iter(stack[i])]

\* The items of a list, popped: of one with a first item, and one without.
Flatten(list, k) == Transformed(Reverse(Spine(list, k) \o <<child(Bottom(list, k), 0)>>))
FlattenFromEmpty(list) == Transformed(Reverse(Spine(list, 2)))

TypeOf(n) == CASE child(child(n, 0), 0).name = "int"   -> "int"
               [] child(child(n, 0), 0).name = "float" -> "float"
               [] OTHER -> "void"

ToProgram(n) == Node("Program", "", "", 0, Flatten(child(n, 0), 2))

\* The size of an array, 0 for a scalar.
ToVarDeclaration(n) ==
  Node("VarDeclaration", IF TypeOf(n) = "int" THEN "int" ELSE "float", child(n, 1).name,
       IF Shape(n) = 6 THEN Stoi(child(n, 3)) ELSE 0, << >>)

ToParams(list) == IF Shape(list) = 0 THEN << >> ELSE Flatten(list, 3)
ToFunDeclaration(n) ==
  Node("FunDeclaration", TypeOf(n), child(n, 1).name, 0,
       Append(ToParams(child(child(n, 3), 0)), transform_node_iter(child(n, 5))))

ToParam(n) ==
  Node("Param", IF TypeOf(n) = "int" THEN "int" ELSE "float", child(n, 1).name,
       IF Shape(n) = 3 THEN 1 ELSE 0, << >>)

ToCompoundStmt(n) ==
  LET locals == FlattenFromEmpty(child(n, 1))
  IN  Node("CompoundStmt", "", "", Len(locals), locals \o FlattenFromEmpty(child(n, 2)))

ToExpressionStmt(n) ==
  Node("ExpressionStmt", "", "", 0,
       IF Shape(n) = 2 THEN <<transform_node_iter(child(n, 0))>> ELSE << >>)

ToSelectionStmt(n) ==
  Node("SelectionStmt", "", "", 0,
       <<transform_node_iter(child(n, 2)), transform_node_iter(child(n, 4))>>
       \o IF Shape(n) = 7 THEN <<transform_node_iter(child(n, 6))>> ELSE << >>)

ToIterationStmt(n) ==
  Node("IterationStmt", "", "", 0, <<transform_node_iter(child(n, 2)), transform_node_iter(child(n, 4))>>)

ToReturnStmt(n) ==
  Node("ReturnStmt", "", "", 0,
       IF Shape(n) = 3 THEN <<transform_node_iter(child(n, 1))>> ELSE << >>)

ToExpression(n) ==
  IF Shape(n) = 1 THEN transform_node_iter(child(n, 0))
  ELSE Node("AssignExpression", "", "", 0,
            <<transform_node_iter(child(n, 0)), transform_node_iter(child(n, 2))>>)

ToVar(n) ==
  Node("Var", "", child(n, 0).name, 0,
       IF Shape(n) = 4 THEN <<transform_node_iter(child(n, 2))>> ELSE << >>)

\* simple-expression, additive-expression and term: one operand, or two and
\* the operator between them.
Operands(kind, n) ==
  IF Shape(n) = 3
  THEN Node(kind, "", child(child(n, 1), 0).name, 0,
            <<transform_node_iter(child(n, 0)), transform_node_iter(child(n, 2))>>)
  ELSE Node(kind, "", "", 0, <<transform_node_iter(child(n, 0))>>)
ToSimpleExpression(n)   == Operands("SimpleExpression", n)
ToAdditiveExpression(n) == Operands("AdditiveExpression", n)
ToTerm(n)               == Operands("Term", n)

ToFactor(n) ==
  LET x == child(n, IF Shape(n) = 3 THEN 1 ELSE 0)
  IN  CASE x.name = "integer" -> Node("Num", "int", "", Stoi(child(x, 0)), << >>)
        [] x.name = "float"   -> Node("Num", "float", "", Stof(child(x, 0)), << >>)
        [] OTHER -> transform_node_iter(x)

ToCall(n) ==
  LET args == child(child(n, 2), 0)
  IN  Node("Call", "", child(n, 0).name, 0, IF args.name = "arg-list" THEN Flatten(args, 3) ELSE << >>)

transform_node_iter(n) ==
  CASE n.name = "program" -> ToProgram(n)
    [] n.name \in {"declaration", "statement"} -> transform_node_iter(child(n, 0))
    [] n.name = "var-declaration" -> ToVarDeclaration(n)
    [] n.name = "fun-declaration" -> ToFunDeclaration(n)
    [] n.name = "param" -> ToParam(n)
    [] n.name = "compound-stmt" -> ToCompoundStmt(n)
    [] n.name = "expression-stmt" -> ToExpressionStmt(n)
    [] n.name = "selection-stmt" -> ToSelectionStmt(n)
    [] n.name = "iteration-stmt" -> ToIterationStmt(n)
    [] n.name = "return-stmt" -> ToReturnStmt(n)
    [] n.name = "expression" -> ToExpression(n)
    [] n.name = "var" -> ToVar(n)
    [] n.name = "simple-expression" -> ToSimpleExpression(n)
    [] n.name = "additive-expression" -> ToAdditiveExpression(n)
    [] n.name = "term" -> ToTerm(n)
    [] n.name = "factor" -> ToFactor(n)
    [] n.name = "call" -> ToCall(n)
=============================================================================
