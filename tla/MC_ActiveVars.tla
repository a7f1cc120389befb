--------------------------- MODULE MC_ActiveVars ---------------------------
(* Bounded instances of ActiveVars: functions in SSA form with branches    *)
(* and loops, whose blocks read the values that reach them in any way.     *)
EXTENDS ActiveVars

MCBlock == 1 .. 7

Function(n, code) == [bbs |-> [i \in 1 .. n |-> i],
                      code |-> [b \in MCBlock |-> IF b <= n THEN code[b] ELSE << >>]]
N(k) == ConstInt(k)
R(b, i) == Result(IdOf(b, i))
I == R(1, 1)
J == R(1, 2)
Reads == <<Instr("input", << >>), Instr("input", << >>)>>

\* What a block does with a value v.
Fragments(b, v) ==
  {<<Instr("add", <<N(1), N(2)>>)>>,
   <<Instr("add", <<v, N(1)>>), Instr("output", <<R(b, 1)>>)>>,
   <<Instr("si2fp", <<v>>), Instr("fadd", <<R(b, 1), ConstFP(1)>>), Instr("fp2si", <<R(b, 2)>>)>>,
   <<Instr("add", <<v, N(1)>>), Instr("si2fp", <<N(1)>>), Instr("fmul", <<R(b, 2), ConstFP(1)>>)>>,
   <<Instr("load", <<Global(1)>>), Instr("store", <<v, Global(1)>>), Instr("lt", <<R(b, 1), v>>)>>,
   <<Instr("alloca", << >>), Instr("gep", <<R(b, 1), v>>), Instr("call", <<v>>)>>}
Ends(b, v) == {<<Instr("ret", <<v>>)>>, <<Instr("output", <<I>>), Instr("ret", <<N(0)>>)>>}

\* if (i) x else y, with a phi of what the two made or had
IfElse == {Function(4, <<Reads \o <<CondBr(I, 2, 3)>>, x \o <<Br(4)>>, y \o <<Br(4)>>,
                         <<Phi(p, 2, q, 3)>> \o z>>) :
             x \in Fragments(2, I), y \in Fragments(3, J),
             p \in {R(2, 1), I, N(1)}, q \in {R(3, 1), J, I}, z \in Ends(4, R(4, 1))}

\* i, k = input(); while (k) { x if (i) y k = ..; }, k also changes with i or not at all
Loop == {Function(7, <<Reads \o <<Br(2)>>,
                       <<Phi(I, 1, p, 7), Phi(J, 1, q, 7), CondBr(R(2, 1), 3, 4)>>,
                       x \o <<CondBr(R(2, 2), 5, 6)>>, z, y \o <<Br(7)>>, <<Br(7)>>,
                       <<Phi(R(5, 1), 5, R(3, 1), 6), Instr("sub", <<R(7, 1), N(1)>>), Br(2)>>>>) :
           p \in {R(7, 1), R(7, 2), R(2, 2), R(2, 1)}, q \in {R(7, 2), R(2, 1), R(3, 1), N(2)},
           x \in Fragments(3, J), y \in Fragments(5, R(3, 1)), z \in Ends(4, R(2, 2))}

MCPrograms == IfElse \cup Loop
=============================================================================
