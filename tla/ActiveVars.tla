----------------------------- MODULE ActiveVars -----------------------------
(***************************************************************************)
(* The ActiveVars analysis (src/optimization/ActiveVars.cpp) on one        *)
(* function: the use and def sets of its blocks, block after block, then   *)
(* the rounds of the data-flow equations until no live_in changes.  The    *)
(* JSON text print() makes of live_in and live_out is left out.            *)
(***************************************************************************)
EXTENDS FunctionIR, FiniteSetsExt

CONSTANT Programs       \* the functions considered: bbs and code

-----------------------------------------------------------------------------
(* What the code before this pass makes of a function.                     *)

Variables(args) == {a \in ToSet(args) : a[1] \notin {"int", "fp", "bb"}}
\* An input stands for any call with a result, which may have arguments.
HasResult(i) == i.op \notin {"store", "output", "call", "br", "ret"}

\* The operands of an instruction: a load's is an address, a cast's may be a
\* constant (si2fp of the 1 in `float x; x = 1;`).
OperandsFit(i) ==
  /\ i.args \in Seq(ToSet(i.args))
  /\ i.op \in Pure \cup {"alloca", "load", "store", "gep", "call", "input", "output", "phi", "br", "ret"}
  /\ i.op = "load" => Len(i.args) = 1 /\ Variables(i.args) # {}
  /\ i.op \in Casts => Len(i.args) = 1 /\ i.args[1][1] # "bb"
  /\ i.op = "alloca" => i.args = << >>
  /\ i.op = "br" => /\ Len(i.args) \in {1, 3}
                   /\ \A k \in DOMAIN i.args : i.args[k][1] = "bb" <=> Len(i.args) = 1 \/ k > 1

\* A phi has pairs of a value and a block, which ConstPropagation may have cut
\* off from it.
PairsFit(i) ==
  \A n \in DOMAIN i.args :
    IF n % 2 = 1 THEN i.args[n][1] # "bb" /\ n < Len(i.args)
    ELSE \E p \in Block : i.args[n] = Label(p)

\* A value that is defined in the block of its user is defined before it.
DefinedBefore(g, b, k) ==
  \A m \in DOMAIN g.list[b] : Result(g.list[b][m]) \in ToSet(g.ins[g.list[b][k]].args) => m < k

\* Nothing is asked of the lists of predecessors: the analysis does not read them.
WellFormed(g) ==
  /\ g.bbs \in Seq(Block)
  /\ \A i, j \in DOMAIN g.bbs : g.bbs[i] = g.bbs[j] => i = j
  /\ \A id \in DOMAIN g.ins :
       /\ OperandsFit(g.ins[id])
       /\ \A x \in DOMAIN g.ins : Result(x) \in ToSet(g.ins[id].args) => HasResult(g.ins[x])
  /\ \A b \in ToSet(g.bbs) :
       /\ ToSet(g.succ[b]) \subseteq ToSet(g.bbs)
       /\ g.list[b] \in Seq(DOMAIN g.ins)
       /\ \A k \in DOMAIN g.list[b] :
            LET i == g.ins[g.list[b][k]]
            IN  IF i.op = "phi" THEN PairsFit(i) ELSE DefinedBefore(g, b, k)

ASSUME ProgramsAssumption == \A p \in Programs : WellFormed(Built(p.bbs, p.code))

VARIABLES f,                    \* the function, which the analysis only reads
          pc,                   \* where run() is
          at,                   \* the place of bb in get_basic_blocks()
          ip, use, def,         \* the place of instr in bb, _use and _def of bb so far
          map_use, map_def,     \* by block
          big_phi,              \* by block: of a value its phis take, the block it comes from
          live_in, live_out,    \* by block
          is_change

vars == <<f, pc, at, ip, use, def, map_use, map_def, big_phi, live_in, live_out, is_change>>

Nothing == [b \in Block |-> {}]

Init ==
  /\ \E p \in Programs : f = Built(p.bbs, p.code)
  /\ pc = "build" /\ at = 1 /\ ip = 1 /\ use = {} /\ def = {}
  /\ map_use = Nothing /\ map_def = Nothing
  /\ big_phi = [b \in Block |-> << >>]
  /\ live_in = Nothing /\ live_out = Nothing
  /\ is_change = FALSE

bb == f.bbs[at]

-----------------------------------------------------------------------------
(* for (auto instr: bb->get_instructions())                                *)

\* The operands that count as used; a cast's is not asked whether it is a
\* constant, and a branch counts its condition.
OperandUses(i)  == Variables(i.args)
LoadUses(i)     == {i.args[1]}
StoreUses(i)    == Variables(i.args)
CallUses(i)     == Variables(i.args)
CastUses(i)     == {i.args[1]}
ReturnUses(i)   == Variables(i.args)
PhiUses(i)      == Variables(i.args)
BranchUses(i)   == IF Len(i.args) = 3 THEN Variables(<<i.args[1]>>) ELSE {}
Counted(i) ==
  CASE i.op \in (Pure \ Casts) \cup {"gep"} -> OperandUses(i)
    [] i.op = "load"  -> LoadUses(i)
    [] i.op = "store" -> StoreUses(i)
    [] i.op \in {"call", "input", "output"} -> CallUses(i)
    [] i.op \in Casts -> CastUses(i)
    [] i.op = "ret"   -> ReturnUses(i)
    [] i.op = "phi"   -> PhiUses(i)
    [] i.op = "br"    -> BranchUses(i)
    [] OTHER -> {}

\* The pairs of a phi, where the first block of a value is kept.
PhiPairs(i, defs) ==
  LET places(v) == {n \in 1 .. Len(i.args) \div 2 : i.args[2 * n - 1] = v}
  IN  [v \in {w \in Variables(i.args) \ defs : places(w) # {}} |-> i.args[2 * Min(places(v))][2]]

\* std::map::insert: the pair that is there stays.
Inserted(m, n) == [v \in DOMAIN m \cup DOMAIN n |-> IF v \in DOMAIN m THEN m[v] ELSE n[v]]

instr == f.ins[f.list[bb][ip]]
AtInstr == pc = "build" /\ at <= Len(f.bbs) /\ ip <= Len(f.list[bb])

\* Mutant of Scan: what is defined before in the block counts as used too.
ScanForgetsDef ==
  /\ AtInstr
  /\ use' = use \cup Counted(instr)
  /\ def' = def \cup {v \in {Result(f.list[bb][ip])} : HasResult(instr) /\ v \notin use'}
  /\ big_phi' = IF instr.op = "phi" THEN [big_phi EXCEPT ![bb] = Inserted(@, PhiPairs(instr, def))] ELSE big_phi
  /\ ip' = ip + 1
  /\ UNCHANGED <<f, pc, at, map_use, map_def, live_in, live_out, is_change>>

\* One instruction: its operands that are not defined before are used; its
\* result is defined unless it is used before.
Scan ==
  /\ AtInstr
  /\ use' = use \cup (Counted(instr) \ def)
  /\ def' = def \cup {v \in {Result(f.list[bb][ip])} : HasResult(instr) /\ v \notin use'}
  /\ big_phi' = IF instr.op = "phi" THEN [big_phi EXCEPT ![bb] = Inserted(@, PhiPairs(instr, def))] ELSE big_phi
  /\ ip' = ip + 1
  /\ UNCHANGED <<f, pc, at, map_use, map_def, live_in, live_out, is_change>>

EndOfBlock ==
  /\ pc = "build" /\ at <= Len(f.bbs) /\ ip > Len(f.list[bb])
  /\ map_use' = [map_use EXCEPT ![bb] = use] /\ map_def' = [map_def EXCEPT ![bb] = def]
  /\ use' = {} /\ def' = {} /\ ip' = 1 /\ at' = at + 1
  /\ UNCHANGED <<f, pc, big_phi, live_in, live_out, is_change>>

EndBuild ==
  /\ pc = "build" /\ at > Len(f.bbs)
  /\ pc' = "flow" /\ at' = 1
  /\ UNCHANGED <<f, ip, use, def, map_use, map_def, big_phi, live_in, live_out, is_change>>

-----------------------------------------------------------------------------
(* while (is_change)                                                       *)

\* What bb gets from a successor: a value its phis take only when the phi
\* takes it from bb.
FromSucc(s) == {v \in live_in[s] : v \in DOMAIN big_phi[s] => big_phi[s][v] = bb}

FlowBlock ==
  /\ pc = "flow" /\ at <= Len(f.bbs)
  /\ LET out == UNION {FromSucc(s) : s \in ToSet(f.succ[bb])}
         in  == map_use[bb] \cup (out \ map_def[bb])
     IN  /\ live_out' = [live_out EXCEPT ![bb] = out]
         /\ live_in' = [live_in EXCEPT ![bb] = in]
         /\ is_change' = (is_change \/ in # live_in[bb])
  /\ at' = at + 1
  /\ UNCHANGED <<f, pc, ip, use, def, map_use, map_def, big_phi>>

\* Mutant of FlowAgain: one round is enough.
FlowOnce ==
  /\ pc = "flow" /\ at > Len(f.bbs) /\ is_change
  /\ pc' = "done" /\ at' = 1 /\ is_change' = FALSE
  /\ UNCHANGED <<f, ip, use, def, map_use, map_def, big_phi, live_in, live_out>>

\* Mutant of FlowAgain: is_change is not reset.
FlowKeepsFlag ==
  /\ pc = "flow" /\ at > Len(f.bbs) /\ is_change
  /\ at' = 1
  /\ UNCHANGED <<f, pc, ip, use, def, map_use, map_def, big_phi, live_in, live_out, is_change>>

FlowAgain ==
  /\ pc = "flow" /\ at > Len(f.bbs) /\ is_change
  /\ at' = 1 /\ is_change' = FALSE
  /\ UNCHANGED <<f, pc, ip, use, def, map_use, map_def, big_phi, live_in, live_out>>

Finish ==
  /\ pc = "flow" /\ at > Len(f.bbs) /\ ~is_change
  /\ pc' = "done"
  /\ UNCHANGED <<f, at, ip, use, def, map_use, map_def, big_phi, live_in, live_out, is_change>>

Next == Scan \/ EndOfBlock \/ EndBuild \/ FlowBlock \/ FlowAgain \/ Finish

\* The analysis is one thread that runs whenever it can.
Spec == Init /\ [][Next]_vars /\ WF_vars(Next)

-----------------------------------------------------------------------------
(* What is live, along the paths of the graph: a phi reads the operand of  *)
(* a pair at the end of the block the pair names.  A cast reads what it    *)
(* converts also when that is a constant: the analysis does not ask        *)
(* (ActiveVars.cpp:174).                                                   *)

Phis(b) == {i \in ToSet(f.list[b]) : f.ins[i].op = "phi"}
ReadBy(i) == Variables(i.args) \cup {a \in ToSet(i.args) : i.op \in Casts}
TakenFrom(s, b) ==
  UNION {{f.ins[i].args[n - 1] : n \in {m \in DOMAIN f.ins[i].args : f.ins[i].args[m] = Label(b)}}
           \cap Variables(f.ins[i].args) : i \in Phis(s)}
DefinedIn(b) == {Result(i) : i \in ToSet(f.list[b])}
ReadIn(b) == (UNION {ReadBy(f.ins[i]) : i \in ToSet(f.list[b]) \ Phis(b)}) \ DefinedIn(b)
Values == UNION {ReadBy(f.ins[i]) : i \in DOMAIN f.ins}

\* Into what blocks each value is live, after their phis.
Live ==
  LET ends == [b \in ToSet(f.bbs) |-> UNION {TakenFrom(s, b) : s \in ToSet(f.succ[b])}]
      defs == [b \in ToSet(f.bbs) |-> DefinedIn(b)]
      read == [b \in ToSet(f.bbs) |-> ReadIn(b) \cup (ends[b] \ defs[b])]
      into(v) == LET step[k \in Nat] ==
                       IF k = 0 THEN {b \in DOMAIN read : v \in read[b]}
                       ELSE LET seen == step[k - 1]
                            IN  seen \cup {b \in DOMAIN read : v \notin defs[b] /\ ToSet(f.succ[b]) \cap seen # {}}
                 IN  step[Len(f.bbs)]
  IN  [v \in Values |-> into(v)]

LiveOut(live, b) ==
  {v \in DOMAIN live : \E s \in ToSet(f.succ[b]) : v \in TakenFrom(s, b) \/ s \in live[v]}
LiveIn(live, b) ==
  {v \in DOMAIN live : b \in live[v] \/ \E p \in Block : v \in TakenFrom(b, p)}

\* No phi takes a value it gets from two blocks, or that is live into its
\* block besides, or that the block defines.
PhisUnambiguous(live) ==
  \A b \in ToSet(f.bbs) : \A v \in DOMAIN live :
    LET from == {p \in Block : v \in TakenFrom(b, p)}
    IN  from # {} => Cardinality(from) = 1 /\ b \notin live[v] /\ v \notin DefinedIn(b)

(* Nothing is reported live that no path reads: a value is live at the end *)
(* of a block only if some path from there reads it before it is defined,  *)
(* and a phi's operand only where the phi takes it from.  A constant is    *)
(* reported only where a path leads to a cast of it.                       *)
NothingTooMuch ==
  pc = "done" =>
    LET live == Live
    IN  \A b \in ToSet(f.bbs) : /\ live_out[b] \subseteq LiveOut(live, b)
                                /\ live_in[b] \subseteq LiveIn(live, b)

(* Where every phi's operand comes from one block and is not live besides, *)
(* what is reported is exactly what is live.                               *)
LivenessExact ==
  pc = "done" =>
    LET live == Live
    IN  PhisUnambiguous(live) =>
          \A b \in ToSet(f.bbs) : live_out[b] = LiveOut(live, b) /\ live_in[b] = LiveIn(live, b)

(* The sets only grow from one round to the next, and are bounded, so the  *)
(* rounds end.                                                             *)
Terminates == <>(pc = "done")
=============================================================================
