----------------------------- MODULE SyntaxTree -----------------------------
(***************************************************************************)
(* The syntax tree of a program: what the actions of the grammar in        *)
(* src/parser/syntax_analyzer.y build.  A node has a name and children; a  *)
(* token is a node without children whose name is its text.  The text of a *)
(* number is kept as the number it denotes (value), a float as a whole     *)
(* number of halves.                                                       *)
(***************************************************************************)
EXTENDS Integers, SequencesExt

Token(text)   == [name |-> text, value |-> 0, children |-> << >>]
NumberText(k) == [name |-> "number", value |-> k, children |-> << >>]

\* node(name, n, ...): without children it gets one that says so.
node(name, children) ==
  [name |-> name, value |-> 0,
   children |-> IF children = << >> THEN <<Token("epsilon")>> ELSE children]

\* A left recursive list: of at least one item, and one that starts empty.
ListOf(name, separator, items) ==
  FoldLeft(LAMBDA list, x : node(name, <<list>> \o separator \o <<x>>),
           node(name, <<Head(items)>>), Tail(items))
ListFromEmpty(name, items) ==
  FoldLeft(LAMBDA list, x : node(name, <<list, x>>), node(name, << >>), items)

Program(decls) == node("program", <<ListOf("declaration-list", << >>, decls)>>)
Declaration(x) == node("declaration", <<x>>)
TypeSpecifier(t) == node("type-specifier", <<Token(t)>>)
VarDecl(t, id) == node("var-declaration", <<TypeSpecifier(t), Token(id), Token(";")>>)
ArrayDecl(t, id, n) ==
  node("var-declaration",
       <<TypeSpecifier(t), Token(id), Token("["), NumberText(n), Token("]"), Token(";")>>)
Param(t, id) == node("param", <<TypeSpecifier(t), Token(id)>>)
ArrayParam(t, id) == node("param", <<TypeSpecifier(t), Token(id), Token("[]")>>)
Params(ps) ==
  node("params", <<IF ps = << >> THEN Token("void") ELSE ListOf("param-list", <<Token(",")>>, ps)>>)
FunDecl(t, id, ps, body) ==
  node("fun-declaration", <<TypeSpecifier(t), Token(id), Token("("), Params(ps), Token(")"), body>>)

CompoundStmt(locals, stmts) ==
  node("compound-stmt", <<Token("{"), ListFromEmpty("local-declarations", locals),
                          ListFromEmpty("statement-list", stmts), Token("}")>>)
Statement(x) == node("statement", <<x>>)
ExpressionStmt(e) == Statement(node("expression-stmt", <<e, Token(";")>>))
EmptyStmt == Statement(node("expression-stmt", <<Token(";")>>))
IfStmt(e, s) == Statement(node("selection-stmt", <<Token("if"), Token("("), e, Token(")"), s>>))
IfElseStmt(e, s, t) ==
  Statement(node("selection-stmt",
                 <<Token("if"), Token("("), e, Token(")"), s, Token("else"), t>>))
WhileStmt(e, s) ==
  Statement(node("iteration-stmt", <<Token("while"), Token("("), e, Token(")"), s>>))
ReturnStmt(e) == Statement(node("return-stmt", <<Token("return"), e, Token(";")>>))
ReturnVoid == Statement(node("return-stmt", <<Token("return"), Token(";")>>))

AssignExpr(v, e) == node("expression", <<v, Token("="), e>>)
Expression(s) == node("expression", <<s>>)
Var(id) == node("var", <<Token(id)>>)
Indexed(id, e) == node("var", <<Token(id), Token("["), e, Token("]")>>)
Relation2(a, op, b) == node("simple-expression", <<a, node("relop", <<Token(op)>>), b>>)
Simple(a) == node("simple-expression", <<a>>)
Sum2(a, op, t) == node("additive-expression", <<a, node("addop", <<Token(op)>>), t>>)
Additive(t) == node("additive-expression", <<t>>)
Product2(t, op, x) == node("term", <<t, node("mulop", <<Token(op)>>), x>>)
Term(x) == node("term", <<x>>)
Parenthesised(e) == node("factor", <<Token("("), e, Token(")")>>)
Factor(x) == node("factor", <<x>>)
Integer(k) == node("integer", <<NumberText(k)>>)
Float(k) == node("float", <<NumberText(k)>>)
Call(id, es) ==
  node("call", <<Token(id), Token("("),
                 node("args", IF es = << >> THEN << >> ELSE <<ListOf("arg-list", <<Token(",")>>, es)>>),
                 Token(")")>>)
=============================================================================
