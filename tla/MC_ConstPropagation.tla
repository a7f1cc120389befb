------------------------ MODULE MC_ConstPropagation ------------------------
(* Bounded instances of ConstPropagation: functions on the graphs that     *)
(* CminusfBuilder makes of if, if else, while and their nestings, in SSA   *)
(* form, whose blocks are filled from a list of fragments.                 *)
EXTENDS ConstPropagation, FoldableCode

MCBlock == 1 .. 6
MCGlobalVar == {1}
MCInputs == {0, 1}

\* Fragments of a block b, which start at its instruction 1.
N(k) == ConstInt(k)
R(b, i) == Result(IdOf(b, i))
Empty(b)  == << >>
Adds(b)   == <<Instr("add", <<N(1), N(3)>>), Instr("sub", <<R(b, 1), N(1)>>), Instr("output", <<R(b, 2)>>)>>
Floats(b) == <<Instr("si2fp", <<N(3)>>), Instr("fdiv", <<R(b, 1), ConstFP(4)>>),
               Instr("fmul", <<R(b, 2), ConstFP(4)>>), Instr("fp2si", <<R(b, 3)>>), Instr("output", <<R(b, 4)>>)>>
Compares(b) == <<Instr("feq", <<ConstFP(3), ConstFP(3)>>), Instr("zext", <<R(b, 1)>>),
                 Instr("lt", <<R(b, 2), N(1)>>), Instr("output", <<R(b, 3)>>)>>
Globals(b) == <<Instr("store", <<N(2), Global(1)>>), Instr("store", <<N(1), Global(1)>>),
                Instr("load", <<Global(1)>>), Instr("add", <<R(b, 3), N(1)>>), Instr("output", <<R(b, 4)>>)>>
CallLoad(b) == <<Instr("call", << >>), Instr("load", <<Global(1)>>), Instr("output", <<R(b, 2)>>)>>
Divides(b)  == <<Instr("sub", <<N(0), N(3)>>), Instr("sdiv", <<R(b, 1), N(2)>>),
                 Instr("mul", <<R(b, 2), N(3)>>), Instr("output", <<R(b, 3)>>)>>
Fragments(b) == {Empty(b), Adds(b), Floats(b), Compares(b), Globals(b), CallLoad(b), Divides(b)}

\* The entry reads a number; its last instruction before the branch compares it.
Reads == <<Instr("input", << >>), Instr("gt", <<R(1, 1), N(0)>>)>>
Tests == <<Instr("input", << >>), Instr("ne", <<N(2), N(2)>>)>>
Conditions == {R(1, 2), N(0), N(1)}
Exit(b, v) == <<Instr("output", <<v>>), Instr("ret", <<v>>)>>

\* The value a block b with the code c yields for a phi of its successor.
Yields(b, c) == IF c = << >> THEN N(2) ELSE R(b, Len(c) - 1)

Function(n, code) == [bbs |-> [i \in 1 .. n |-> i],
                      code |-> [b \in MCBlock |-> IF b <= n THEN code[b] ELSE << >>]]

Straight == {Function(1, <<Reads \o x \o Exit(1, R(1, 1))>>) : x \in {Empty(1)}}

\* if (c) x; the join has no phi, or one that the entry and block 2 fill.
If == {Function(3, <<e \o <<CondBr(c, 2, 3)>>, x \o <<Br(3)>>, Exit(3, R(1, 1))>>) :
         e \in {Reads, Tests}, c \in Conditions, x \in Fragments(2)}
IfPhi == {Function(3, <<e \o <<CondBr(c, 2, 3)>>, x \o <<Br(3)>>,
                        <<Phi(R(1, 1), 1, Yields(2, x), 2)>> \o Exit(3, R(3, 1))>>) :
            e \in {Reads}, c \in {R(1, 2), N(0)}, x \in Fragments(2)}

IfElse == {Function(4, <<e \o <<CondBr(c, 2, 3)>>, x \o <<Br(4)>>, y \o <<Br(4)>>,
                         <<Phi(Yields(2, x), 2, Yields(3, y), 3)>> \o Exit(4, R(4, 1))>>) :
             e \in {Reads, Tests}, c \in Conditions, x \in Fragments(2), y \in Fragments(3)}

\* if (c) return; x
Return == {Function(3, <<e \o <<CondBr(c, 2, 3)>>, Exit(2, N(2)), x \o Exit(3, R(1, 1))>>) :
             e \in {Reads, Tests}, c \in Conditions, x \in Fragments(3)}

\* i = input(); while (i > 0) { x i = i - 1; }; or while (1)
Down(b, h) == <<Instr("sub", <<R(h, 1), N(1)>>)>>
Test(h, from, b, i) == <<Phi(R(1, 1), from, i, b), Instr("gt", <<R(h, 1), N(0)>>)>>
While == {Function(4, <<Reads \o <<Br(2)>>, Test(2, 1, 3, R(3, 1)) \o <<CondBr(c, 3, 4)>>,
                        Down(3, 2) \o x \o <<Br(2)>>, Exit(4, R(2, 1))>>) :
            c \in {R(2, 2), N(1)}, x \in {Empty(3), CallLoad(3)}}

\* while (i > 0) { if (c) x i = i - 1; }
IfInWhile == {Function(6, <<Reads \o <<Br(2)>>, Test(2, 1, 6, R(6, 2)) \o <<CondBr(R(2, 2), 3, 4)>>,
                            <<CondBr(c, 5, 6)>>, Exit(4, R(2, 1)), x \o <<Br(6)>>,
                            <<Phi(N(1), 3, Yields(5, x), 5), Instr("sub", <<R(2, 1), N(1)>>),
                              Instr("output", <<R(6, 1)>>), Br(2)>>>>) :
                c \in {R(1, 2), N(0)}, x \in Fragments(5)}

\* if (c) while (i > 0) i = i - 1;
WhileInIf == {Function(6, <<e \o <<CondBr(c, 2, 3)>>, x \o <<Br(4)>>,
                            <<Phi(N(2), 1, R(4, 1), 6)>> \o Exit(3, R(3, 1)),
                            Test(4, 2, 5, R(5, 1)) \o <<CondBr(R(4, 2), 5, 6)>>,
                            Down(5, 4) \o <<Br(4)>>, <<Br(3)>>>>) :
                e \in {Reads}, c \in {R(1, 2), N(0)}, x \in Fragments(2)}

\* if (c) { x if (d) y }
NestedIf == {Function(5, <<e \o <<CondBr(c, 2, 3)>>, x \o <<CondBr(d, 4, 5)>>,
                           <<Phi(R(1, 1), 1, R(5, 1), 5)>> \o Exit(3, R(3, 1)), y \o <<Br(5)>>,
                           <<Phi(N(1), 2, Yields(4, y), 4), Br(3)>>>>) :
               e \in {Reads}, c \in {R(1, 2), N(0)}, d \in {R(1, 2), N(0)},
               x \in Fragments(2), y \in Fragments(4)}

MCPrograms == Straight \cup If \cup IfPhi \cup IfElse \cup Return \cup While
                \cup IfInWhile \cup WhileInIf \cup NestedIf

\* The premise of ConstPropagation_proofs: of these functions, the results of
\* floating operations are floats, and all others int.
TypesOf(p) ==
  LET q == Built(p.bbs, p.code)
  IN  [u \in DOMAIN q.ins |-> IF q.ins[u].op \in GivesFP THEN "fp" ELSE "int"]
ASSUME ProgramsFoldable ==
  \A p \in MCPrograms : FoldableAs(p, TypesOf(p), [g \in MCGlobalVar |-> "int"])

-----------------------------------------------------------------------------
\* while (0) output(1); output(2);
WhileFalse == {Function(4, <<<<Br(2)>>, <<CondBr(N(0), 3, 4)>>,
                             <<Instr("output", <<N(1)>>), Br(2)>>, Exit(4, N(2))>>)}
=============================================================================
