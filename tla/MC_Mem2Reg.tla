----------------------------- MODULE MC_Mem2Reg -----------------------------
(* Bounded instances of Mem2Reg: every program over two variables whose    *)
(* blocks are filled from a list of fragments, on the graphs that          *)
(* CminusfBuilder makes of an if, an if else, a while, an if in a while.   *)
EXTENDS Mem2Reg

MCBlock == 1 .. 6
MCVar == {1, 2}

\* Fragments of a block b; k makes the names of its values distinct.
Set(b, v)   == <<Store(v, <<"const", b, v>>)>>
Show(b, v)  == <<Load(<<"load", b, v>>, v), Output(<<"load", b, v>>)>>
Peek(b, v)  == <<Load(<<"load", b, v>>, v)>>
Copy(b)     == <<Load(<<"load", b, 1>>, 1), Store(2, <<"load", b, 1>>)>>
Swap(b)     == <<Load(<<"load", b, 1>>, 1), Load(<<"load", b, 2>>, 2),
                 Store(1, <<"load", b, 2>>), Store(2, <<"load", b, 1>>)>>
Bump(b)     == <<Load(<<"load", b, 1>>, 1)>> \o Set(b, 1) \o <<Output(<<"load", b, 1>>)>>
Fragments(b) == {<< >>, Set(b, 1), Set(b, 2), Show(b, 1), Peek(b, 2), Copy(b), Swap(b), Bump(b)}

Allocas == <<Alloca(1), Alloca(2)>>
BothSet == Allocas \o Set(Entry, 1) \o Set(Entry, 2)
Entries == {BothSet, Allocas \o Set(Entry, 1), Allocas}

\* The graph with these successors, 1 .. n, and the code `c` where it is given.
Graph(succ) == [b \in MCBlock |-> IF b \in DOMAIN succ THEN succ[b] ELSE {}]
Code(c) == [b \in MCBlock |-> IF b \in DOMAIN c THEN c[b] ELSE << >>]

\* The last block shows both variables.
Shows(b) == Show(b, 1) \o Show(b, 2)

If     == {[succ |-> Graph(<<{2, 3}, {3}>>), code |-> Code(<<e, x, Shows(3)>>)] :
             e \in Entries, x \in Fragments(2)}
IfElse == {[succ |-> Graph(<<{2, 3}, {4}, {4}>>), code |-> Code(<<e, x, y, Shows(4)>>)] :
             e \in Entries, x \in Fragments(2), y \in Fragments(3)}
While  == {[succ |-> Graph(<<{2}, {3, 4}, {2}>>), code |-> Code(<<e, x, y, Shows(4)>>)] :
             e \in Entries, x \in Fragments(2), y \in Fragments(3)}
\* while (..) { x if (..) y z }, where both variables have a value
WhileIf == {[succ |-> Graph(<<{2}, {3, 6}, {4, 5}, {5}, {2}>>),
             code |-> Code(<<BothSet, << >>, x, y, z, Shows(6)>>)] :
             x \in Fragments(3), y \in Fragments(4), z \in Fragments(5)}
MCPrograms == If \cup IfElse \cup While \cup WhileIf

\* int x; if (c) x = 1; else ;   with nothing said of x before
MaybeSet == {[succ |-> Graph(<<{2, 3}, {4}, {4}>>), code |-> Code(<<Allocas, Set(2, 1)>>)]}
=============================================================================
