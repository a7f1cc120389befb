-------------------------- MODULE MC_LoopInvHoist --------------------------
(* Bounded instances of LoopSearch and LoopInvHoist: every reducible graph *)
(* of a few blocks, up to the numbering, and functions in SSA form with    *)
(* nested, sequential and conditional loops filled from fragments.         *)
EXTENDS LoopInvHoist

CONSTANT Size           \* the blocks of the graphs taken all

MCBlock == 1 .. 8
MCGlobalVar == {1}
MCInputs == {0, 1}

Function(n, code) == [bbs |-> [i \in 1 .. n |-> i],
                      code |-> [b \in MCBlock |-> IF b <= n THEN code[b] ELSE << >>]]

\* A block that leads to the blocks s; two are told apart by what it reads.
N(k) == ConstInt(k)
R(b, i) == Result(IdOf(b, i))
Read == Instr("input", << >>)
Leave(b, s) ==
  CASE s = {} -> <<Instr("ret", <<N(0)>>)>>
    [] Cardinality(s) = 1 -> <<Br(CHOOSE t \in s : TRUE)>>
    [] OTHER -> LET t == CHOOSE x \in s : \A y \in s : x <= y
                IN  <<Read, CondBr(R(b, 1), t, CHOOSE y \in s : y # t)>>

\* The graphs: no edge to the entry, none from a block to itself, every block
\* reached, and blocks numbered in the order of their first predecessors.
FirstPred(s, b) == CHOOSE p \in 1 .. Size : b \in s[p] /\ \A q \in 1 .. p - 1 : b \notin s[q]
Graphs ==
  {s \in [1 .. Size -> {t \in SUBSET (2 .. Size) : Cardinality(t) <= 2}] :
     /\ \A b \in 2 .. Size : b \notin s[b] /\ \E p \in 1 .. b - 1 : b \in s[p]
     /\ \A b \in 2 .. Size - 1 : FirstPred(s, b) <= FirstPred(s, b + 1)}
Whole(s) == [b \in MCBlock |-> IF b <= Size THEN s[b] ELSE {}]
GraphPrograms ==
  {Function(Size, [b \in 1 .. Size |-> Leave(b, s[b])]) : s \in {t \in Graphs : Reducible(Whole(t))}}

-----------------------------------------------------------------------------
\* What a block b does; j is the phi of the loop around it, R(1, 1) an input.
Fragments(b, j) ==
  {<< >>,
   <<Instr("add", <<R(1, 1), N(1)>>), Instr("mul", <<R(b, 1), N(2)>>), Instr("output", <<R(b, 2)>>)>>,
   <<Instr("add", <<j, N(1)>>), Instr("mul", <<R(b, 1), N(2)>>), Instr("output", <<R(b, 2)>>)>>,
   <<Instr("store", <<R(1, 1), Global(1)>>), Instr("load", <<Global(1)>>),
     Instr("add", <<R(b, 2), N(1)>>), Instr("output", <<R(b, 3)>>)>>}

Count(h, from, i, b) == <<Phi(R(1, 1), from, i, b), Instr("gt", <<R(h, 1), N(0)>>)>>
Down(b, h) == Instr("sub", <<R(h, 1), N(1)>>)
Up(b, x) == R(b, Len(x) + 1)
Exit(b, v) == <<Instr("output", <<v>>), Instr("ret", <<v>>)>>

\* while (i) { x i = i - 1; }
While == {Function(4, <<<<Read, Br(2)>>, Count(2, 1, Up(3, x), 3) \o <<CondBr(R(2, 2), 3, 4)>>,
                        x \o <<Down(3, 2), Br(2)>>, Exit(4, R(2, 1))>>) :
            x \in Fragments(3, R(2, 1))}

\* while (i) { x while (j) { y j = j - 1; } i = i - 1; }
Nested == {Function(7, <<<<Read, Br(2)>>, Count(2, 1, R(7, 1), 7) \o <<CondBr(R(2, 2), 3, 4)>>,
                         x \o <<Br(5)>>, Exit(4, R(2, 1)),
                         Count(5, 3, Up(6, y), 6) \o <<CondBr(R(5, 2), 6, 7)>>,
                         y \o <<Down(6, 5), Br(5)>>, <<Down(7, 2), Br(2)>>>>) :
             x \in Fragments(3, R(2, 1)), y \in Fragments(6, R(2, 1)) \cup Fragments(6, R(5, 1))}

\* while (i) { if (x) y i = i - 1; }
Conditional == {Function(6, <<<<Read, Br(2)>>, Count(2, 1, R(6, 1), 6) \o <<CondBr(R(2, 2), 3, 4)>>,
                              x \o <<CondBr(R(2, 2), 5, 6)>>, Exit(4, R(2, 1)), y \o <<Br(6)>>,
                              <<Down(6, 2), Br(2)>>>>) :
                  x \in Fragments(3, R(2, 1)), y \in Fragments(5, R(2, 1))}

\* while (i) { t = input() + 1; u = t * 2; }, the blocks of the body the other way round
Chain == {Function(6, <<<<Read, Br(2)>>, Count(2, 1, R(6, 2), 6) \o <<CondBr(R(2, 2), 3, 4)>>,
                        <<Instr("add", <<R(1, 1), N(1)>>), Br(5)>>, Exit(4, R(2, 1)),
                        <<Instr("mul", <<R(3, 1), N(2)>>), Br(6)>>,
                        <<Instr("output", <<R(5, 1)>>), Down(6, 2), Br(2)>>>>)}

MCPrograms == GraphPrograms \cup While \cup Nested \cup Conditional \cup Chain
=============================================================================
