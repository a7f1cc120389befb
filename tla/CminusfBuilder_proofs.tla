------------------------ MODULE CminusfBuilder_proofs ------------------------
(***************************************************************************)
(* Proofs about CminusfBuilder, for programs of any size: the bounds are   *)
(* constants.                                                              *)
(*                                                                         *)
(* What has to be known beside the properties is where a visit will resume *)
(* (StackOK): which blocks the open visits still owe code to, that these   *)
(* are empty and different from each other (GraphOK), and when the         *)
(* insertion block is open (the last two conjuncts of IInv).  For the      *)
(* lists of predecessors and successors, EdgesOK; for the loops, LoopInv:  *)
(* the blocks can be ranked so that an edge goes up in rank unless every   *)
(* way to it goes through the block it leads to (Ranked), and while a loop *)
(* is visited every way into it goes through the block of its condition    *)
(* (Headed).                                                               *)
(***************************************************************************)
EXTENDS CminusfBuilder, FiniteSetTheorems, WellFoundedInduction, SequenceTheorems, TLAPS

\* The lemmas on iteration and least fixpoints.
D == INSTANCE Dominance_proofs WITH Null <- 0

\* The blocks a frame still has to make the insertion block or to erase; the
\* one it erases; the block of a loop's condition, which it branches back to.
Owes(x) ==
  CASE x.at \in {"ifTrue", "ifElseTrue"} -> {x.blocks[1], x.blocks[2]}
    [] x.at = "ifFalse"   -> {x.blocks[1]}
    [] x.at = "whileBody" -> {x.blocks[2]}
    [] OTHER -> {}
Erases(x) == IF x.at = "ifTrue" THEN {x.blocks[1]} ELSE {}
HeadOf(x) == IF x.at \in {"whileCond", "whileBody"} THEN {x.blocks[1]} ELSE {}

Owed(s)    == UNION {Owes(s[i]) : i \in DOMAIN s}
Falses(s)  == UNION {Erases(s[i]) : i \in DOMAIN s}
Heads(s)   == UNION {HeadOf(s[i]) : i \in DOMAIN s}
Opened(s)  == {i \in DOMAIN s : s[i].at \in {"fun", Own}}

\* Frames that may have any statement above them, and those that wait for an
\* expression.
Resumes == {"fun", Shared, Own, "ifTrue", "ifElseTrue", "ifFalse", "whileBody"}
Conds   == {"ifCond", "ifElseCond", "whileCond", "return"}
OpenAts == Conds \cup {"body", "stmt", "expr"}

FrameOK(x) ==
  /\ x \in Frame
  /\ x.at \in {"ifTrue", "ifElseTrue", "whileBody"} => Len(x.blocks) = 2
  /\ x.at \in {"ifTrue", "ifElseTrue"} => x.blocks[1] # x.blocks[2]
  /\ x.at \in {"ifFalse", "whileCond"} => Len(x.blocks) = 1

StackOK(s) ==
  /\ s \in Seq(Frame)
  /\ \A i \in 1 .. Len(s) : FrameOK(s[i]) /\ (s[i].at = "fun" <=> i = 1)
  /\ \A i \in 1 .. Len(s) - 1 :
        s[i].at \in Resumes \/ (s[i].at \in Conds /\ i + 1 = Len(s) /\ s[Len(s)].at = "expr")
  /\ \A i, j \in 1 .. Len(s) : i # j => Owes(s[i]) \cap Owes(s[j]) = {}

GraphOK(h, in, owed, falses) ==
  /\ h \in Graph /\ h.bbs \subseteq 1 .. h.n
  /\ in \in h.bbs /\ Entry \in h.bbs
  /\ owed \subseteq h.bbs \ {in, Entry} /\ falses \subseteq owed
  /\ \A b \in owed : h.code[b] = << >> /\ h.succ[b] = << >>
  /\ \A b \in Block : b > h.n => h.code[b] = << >> /\ h.succ[b] = << >> /\ h.pre[b] = << >>
  /\ \A b \in falses \cup {Entry} : h.pre[b] = << >>
  /\ \A b \in Block : \A i \in 1 .. Len(h.code[b]) - 1 : ~IsTerminator(h.code[b][i])
  /\ \A b \in h.bbs : HasTerminator(h, b) \/ b = in \/ b \in owed
  /\ \A b \in Block : \A i \in 1 .. Len(h.code[b]) :
       \A k \in 1 .. Len(h.code[b][i].to) : h.code[b][i].to[k] \in h.bbs \ falses

IInv ==
  /\ insert \in Block /\ preEnter \in BOOLEAN /\ decls \in 0 .. MaxDecls /\ stmts \in 0 .. MaxStmts
  /\ StackOK(stk)
  /\ depth = 1 + Cardinality(Opened(stk))
  /\ preEnter <=> At("body")
  /\ IF g.bbs = {} THEN stk = << >> /\ g = NoBlocks
     ELSE GraphOK(g, insert, Owed(stk), Falses(stk))
  /\ Heads(stk) \subseteq g.bbs \ (Owed(stk) \cup {Entry})
  /\ stk # << >> /\ Top.at \in OpenAts => ~HasTerminator(g, insert)
  /\ stk = << >> /\ g.bbs # {} => HasTerminator(g, insert)

-----------------------------------------------------------------------------
(* The stack: a visit returns, a frame is put on top.                      *)

\* The frames below the innermost one are those that were there.
LEMMA BelowIs ==
  ASSUME NEW s \in Seq(Frame), s # << >>
  PROVE  LET t == SubSeq(s, 1, Len(s) - 1)
         IN  t \in Seq(Frame) /\ Len(t) = Len(s) - 1 /\ \A i \in 1 .. Len(t) : t[i] = s[i]
<1>1. Len(s) \in Nat /\ Len(s) # 0
  OBVIOUS
<1>2. \A i \in 1 .. Len(s) - 1 : s[i] \in Frame
  BY <1>1
<1>3. SubSeq(s, 1, Len(s) - 1) \in Seq(Frame)
  BY <1>1, <1>2, SubSeqProperties
<1>4. Len(SubSeq(s, 1, Len(s) - 1)) = Len(s) - 1
  <2>1. Len(SubSeq(s, 1, Len(s) - 1)) = IF 1 <= Len(s) - 1 THEN (Len(s) - 1) - 1 + 1 ELSE 0
    BY <1>1, <1>2, SubSeqProperties
  <2>2. \A n \in Nat \ {0} : (IF 1 <= n - 1 THEN (n - 1) - 1 + 1 ELSE 0) = n - 1
    OBVIOUS
  <2> QED BY <1>1, <2>1, <2>2, Zenon
<1>5. \A i \in 1 .. Len(s) - 1 : SubSeq(s, 1, Len(s) - 1)[i] = s[i]
  BY <1>1, <1>2, SubSeqProperties
<1> QED BY <1>3, <1>4, <1>5

\* A frame more: the others stay where they are.
LEMMA AppendIs ==
  ASSUME NEW s \in Seq(Frame), NEW x \in Frame
  PROVE  /\ Append(s, x) \in Seq(Frame) /\ Len(Append(s, x)) = Len(s) + 1
         /\ Append(s, x)[Len(s) + 1] = x
         /\ \A i \in 1 .. Len(s) : Append(s, x)[i] = s[i]
OBVIOUS

\* A frame that returns owes nothing any more, and what the others owe is
\* as it was.
LEMMA PopStack ==
  ASSUME NEW s, StackOK(s), s # << >>
  PROVE  LET t == SubSeq(s, 1, Len(s) - 1)
             x == s[Len(s)]
         IN  /\ StackOK(t)
             /\ Owed(t) = Owed(s) \ Owes(x) /\ Owes(x) \subseteq Owed(s)
             /\ Falses(t) = Falses(s) \ Erases(x) /\ Erases(x) \subseteq Falses(s)
             /\ Heads(t) \subseteq Heads(s) /\ HeadOf(x) \subseteq Heads(s)
             /\ Falses(s) \subseteq Owed(s)
<1> DEFINE t == SubSeq(s, 1, Len(s) - 1)
           x == s[Len(s)]
<1>1. s \in Seq(Frame) /\ Len(s) \in Nat /\ Len(s) # 0
  BY DEF StackOK
<1>2. t \in Seq(Frame) /\ Len(t) = Len(s) - 1 /\ \A i \in 1 .. Len(t) : t[i] = s[i]
  BY <1>1, BelowIs
<1> HIDE DEF t
<1>3. DOMAIN s = 1 .. Len(s) /\ DOMAIN t = 1 .. Len(s) - 1
  BY <1>1, <1>2
<1>4. 1 .. Len(s) = (1 .. Len(s) - 1) \cup {Len(s)}
  BY <1>1
<1>5. StackOK(t)
  <2>1. \A i \in 1 .. Len(t) : FrameOK(t[i]) /\ (t[i].at = "fun" <=> i = 1)
    BY <1>1, <1>2 DEF StackOK
  <2>2. ASSUME NEW i \in 1 .. Len(t) - 1 PROVE t[i].at \in Resumes
    <3>1. i \in 1 .. Len(s) - 1 /\ i + 1 # Len(s) /\ t[i] = s[i]
      BY <1>1, <1>2
    <3> QED BY <3>1 DEF StackOK
  <2>3. ASSUME NEW i \in 1 .. Len(t), NEW j \in 1 .. Len(t), i # j
        PROVE  Owes(t[i]) \cap Owes(t[j]) = {}
    <3>1. i \in 1 .. Len(s) /\ j \in 1 .. Len(s) /\ t[i] = s[i] /\ t[j] = s[j]
      BY <1>1, <1>2
    <3>2. Owes(s[i]) \cap Owes(s[j]) = {}
      BY <2>3, <3>1 DEF StackOK
    <3> QED BY <3>1, <3>2
  <2> QED BY <1>2, <2>1, <2>2, <2>3 DEF StackOK
<1>6. Owed(t) = UNION {Owes(s[i]) : i \in 1 .. Len(s) - 1}
  BY <1>2, <1>3 DEF Owed
<1>7. Owed(s) = Owed(t) \cup Owes(x)
  BY <1>3, <1>4, <1>6 DEF Owed
<1>8. Owed(t) \cap Owes(x) = {}
  <2>1. ASSUME NEW i \in 1 .. Len(s) - 1 PROVE Owes(s[i]) \cap Owes(x) = {}
    <3>1. i \in 1 .. Len(s) /\ Len(s) \in 1 .. Len(s) /\ i # Len(s)
      BY <1>1
    <3> QED BY <3>1 DEF StackOK
  <2> QED BY <1>6, <2>1
<1>9. ASSUME NEW y PROVE Erases(y) \subseteq Owes(y)
  BY DEF Erases, Owes
<1>10. Falses(s) = Falses(t) \cup Erases(x) /\ Heads(t) \subseteq Heads(s)
  BY <1>2, <1>3, <1>4 DEF Falses, Heads
<1>11. Erases(x) \subseteq Falses(s) /\ HeadOf(x) \subseteq Heads(s)
  BY <1>1, <1>3 DEF Falses, Heads
<1>12. Falses(t) \subseteq Owed(t) /\ Falses(s) \subseteq Owed(s)
  BY <1>9 DEF Falses, Owed
<1>13. Falses(t) = Falses(s) \ Erases(x)
  BY <1>1, <1>8, <1>9, <1>10, <1>12
<1> QED BY <1>5, <1>7, <1>8, <1>10, <1>11, <1>12, <1>13 DEF t

\* What may be put on top of a stack.
Fits(s, x) ==
  /\ FrameOK(x) /\ Owes(x) \cap Owed(s) = {}
  /\ IF s = << >> THEN x.at = "fun"
     ELSE /\ x.at # "fun"
          /\ s[Len(s)].at \in Resumes \/ (s[Len(s)].at \in Conds /\ x.at = "expr")

\* A frame on top adds what it owes, erases and branches back to.
LEMMA PushStack ==
  ASSUME NEW s, StackOK(s), NEW x, Fits(s, x)
  PROVE  /\ StackOK(Append(s, x))
         /\ Append(s, x) # << >> /\ Append(s, x)[Len(Append(s, x))] = x
         /\ Owed(Append(s, x)) = Owed(s) \cup Owes(x)
         /\ Falses(Append(s, x)) = Falses(s) \cup Erases(x)
         /\ Heads(Append(s, x)) = Heads(s) \cup HeadOf(x)
<1> DEFINE t == Append(s, x)
<1>1. s \in Seq(Frame) /\ Len(s) \in Nat /\ x \in Frame
  BY DEF StackOK, Fits, FrameOK
<1>2. /\ t \in Seq(Frame) /\ Len(t) = Len(s) + 1 /\ t[Len(s) + 1] = x
      /\ \A i \in 1 .. Len(s) : t[i] = s[i]
  BY <1>1, AppendIs
<1> HIDE DEF t
<1>3. DOMAIN s = 1 .. Len(s) /\ DOMAIN t = 1 .. Len(s) + 1
  BY <1>1, <1>2
<1>4. 1 .. Len(s) + 1 = (1 .. Len(s)) \cup {Len(s) + 1}
  BY <1>1
<1>5. \A i \in 1 .. Len(s) : Owes(s[i]) \subseteq Owed(s)
  BY <1>3 DEF Owed
<1>6. StackOK(t)
  <2>1. \A i \in 1 .. Len(t) : FrameOK(t[i]) /\ (t[i].at = "fun" <=> i = 1)
    <3>1. CASE s = << >>
      BY <1>1, <1>2, <3>1 DEF Fits
    <3>2. CASE s # << >>
      <4>1. Len(s) # 0 /\ x.at # "fun" /\ FrameOK(x)
        BY <1>1, <3>2 DEF Fits
      <4> QED BY <1>1, <1>2, <4>1 DEF StackOK
    <3> QED BY <3>1, <3>2
  <2>2. ASSUME NEW i \in 1 .. Len(t) - 1
        PROVE  t[i].at \in Resumes \/ (t[i].at \in Conds /\ i + 1 = Len(t) /\ t[Len(t)].at = "expr")
    <3>1. CASE i = Len(s)
      BY <1>1, <1>2, <3>1 DEF Fits
    <3>2. CASE i # Len(s)
      <4>1. i \in 1 .. Len(s) - 1 /\ i \in 1 .. Len(s) /\ Len(s) \in 1 .. Len(s)
        BY <1>1, <1>2, <3>2
      <4>2. s[Len(s)].at \in Resumes \/ s[Len(s)].at \in Conds
        BY <1>1, <4>1 DEF Fits
      <4>3. s[Len(s)].at # "expr"
        BY <4>2 DEF Resumes, Conds, Shared, Own
      <4> QED BY <1>2, <4>1, <4>3 DEF StackOK
    <3> QED BY <3>1, <3>2
  <2>3. ASSUME NEW i \in 1 .. Len(t), NEW j \in 1 .. Len(t), i # j
        PROVE  Owes(t[i]) \cap Owes(t[j]) = {}
    <3>1. Owes(x) \cap Owed(s) = {}
      BY DEF Fits
    <3>2. CASE i \in 1 .. Len(s) /\ j \in 1 .. Len(s)
      <4>1. Owes(s[i]) \cap Owes(s[j]) = {}
        BY <2>3, <3>2 DEF StackOK
      <4> QED BY <1>2, <3>2, <4>1
    <3>3. CASE i = Len(s) + 1 /\ j \in 1 .. Len(s)
      <4>1. t[i] = x /\ t[j] = s[j] /\ Owes(s[j]) \subseteq Owed(s)
        BY <1>2, <1>5, <3>3
      <4> QED BY <3>1, <4>1
    <3>4. CASE i \in 1 .. Len(s) /\ j = Len(s) + 1
      <4>1. t[j] = x /\ t[i] = s[i] /\ Owes(s[i]) \subseteq Owed(s)
        BY <1>2, <1>5, <3>4
      <4> QED BY <3>1, <4>1
    <3> QED BY <1>1, <1>2, <2>3, <3>2, <3>3, <3>4
  <2> QED BY <1>2, <2>1, <2>2, <2>3 DEF StackOK
<1>7. Owed(t) = Owed(s) \cup Owes(x)
  BY <1>2, <1>3, <1>4 DEF Owed
<1>8. Falses(t) = Falses(s) \cup Erases(x) /\ Heads(t) = Heads(s) \cup HeadOf(x)
  BY <1>2, <1>3, <1>4 DEF Falses, Heads
<1>9. t # << >> /\ t[Len(t)] = x
  BY <1>1, <1>2
<1> QED BY <1>6, <1>7, <1>8, <1>9 DEF t

\* The scopes that are open, after a return and with one more frame.
LEMMA PopScopes ==
  ASSUME NEW s \in Seq(Frame), s # << >>
  PROVE  /\ IsFiniteSet(Opened(s)) /\ Cardinality(Opened(s)) \in Nat
         /\ LET t == SubSeq(s, 1, Len(s) - 1)
            IN  Cardinality(Opened(s))
                  = Cardinality(Opened(t)) + (IF s[Len(s)].at \in {"fun", Own} THEN 1 ELSE 0)
<1> DEFINE t == SubSeq(s, 1, Len(s) - 1)
<1>1. Len(s) \in Nat /\ Len(s) # 0
  OBVIOUS
<1>2. t \in Seq(Frame) /\ Len(t) = Len(s) - 1 /\ \A i \in 1 .. Len(t) : t[i] = s[i]
  BY BelowIs
<1> HIDE DEF t
<1>3. Opened(t) \subseteq 1 .. Len(s) /\ Opened(s) \subseteq 1 .. Len(s)
  BY <1>1, <1>2 DEF Opened
<1>4. IsFiniteSet(Opened(t)) /\ IsFiniteSet(Opened(s))
  <2>1. IsFiniteSet(1 .. Len(s))
    BY <1>1, FS_Interval
  <2> QED BY <1>3, <2>1, FS_Subset
<1>5. Len(s) \notin Opened(t)
  BY <1>1, <1>2 DEF Opened
<1>6. Opened(s) = IF s[Len(s)].at \in {"fun", Own} THEN Opened(t) \cup {Len(s)} ELSE Opened(t)
  BY <1>1, <1>2 DEF Opened
<1>7. Cardinality(Opened(t) \cup {Len(s)}) = Cardinality(Opened(t)) + 1
  BY <1>4, <1>5, FS_AddElement
<1>8. Cardinality(Opened(s)) \in Nat /\ Cardinality(Opened(t)) \in Nat
  BY <1>4, FS_CardinalityType
<1> QED BY <1>4, <1>6, <1>7, <1>8 DEF t

\* A frame on top opens a scope if it is a function or a compound of its own.
LEMMA PushScopes ==
  ASSUME NEW s \in Seq(Frame), NEW x \in Frame
  PROVE  Cardinality(Opened(Append(s, x)))
           = Cardinality(Opened(s)) + (IF x.at \in {"fun", Own} THEN 1 ELSE 0)
<1> DEFINE t == Append(s, x)
           b == SubSeq(t, 1, Len(t) - 1)
<1>1. /\ t \in Seq(Frame) /\ Len(t) = Len(s) + 1 /\ t # << >> /\ t[Len(t)] = x
      /\ \A i \in 1 .. Len(s) : t[i] = s[i]
  BY AppendIs
<1> HIDE DEF t
<1>2. b \in Seq(Frame) /\ Len(b) = Len(t) - 1 /\ \A i \in 1 .. Len(b) : b[i] = t[i]
  BY <1>1, BelowIs
<1>3. Opened(b) = Opened(s)
  <2> HIDE DEF b
  <2> QED BY <1>1, <1>2 DEF Opened
<1>4. Cardinality(Opened(t)) = Cardinality(Opened(b)) + (IF t[Len(t)].at \in {"fun", Own} THEN 1 ELSE 0)
  BY <1>1, PopScopes
<1> QED BY <1>1, <1>3, <1>4 DEF t

-----------------------------------------------------------------------------
(* The graph: what each operation of LightCFG keeps of GraphOK.            *)

\* Adding an instruction to an open insertion block.
LEMMA AddKeeps ==
  ASSUME NEW h, NEW in, NEW owed, NEW falses, GraphOK(h, in, owed, falses),
         ~HasTerminator(h, in), NEW i \in Instr,
         \A k \in 1 .. Len(i.to) : i.to[k] \in h.bbs \ falses
  PROVE  LET r == AddInstruction(h, in, i)
         IN  /\ GraphOK(r, in, owed, falses)
             /\ r.n = h.n /\ r.bbs = h.bbs
             /\ IsTerminator(i) => HasTerminator(r, in)
             /\ i = Plain => ~HasTerminator(r, in)
<1> DEFINE r == AddInstruction(h, in, i)
<1>1. h \in Graph /\ in \in Block /\ h.code \in [Block -> Seq(Instr)] /\ in \in h.bbs
  BY DEF GraphOK, Graph
<1>2. CASE i = Plain /\ h.code[in] # << >> /\ h.code[in][Len(h.code[in])] = Plain
  <2>1. r = h
    BY <1>2 DEF AddInstruction
  <2>2. ~IsTerminator(i)
    BY <1>2 DEF IsTerminator, Plain
  <2> QED BY <2>1, <2>2
<1>3. CASE ~(i = Plain /\ h.code[in] # << >> /\ h.code[in][Len(h.code[in])] = Plain)
  <2>1. r = [h EXCEPT !.code[in] = Append(@, i)]
    BY <1>3 DEF AddInstruction
  <2>2. /\ r.n = h.n /\ r.bbs = h.bbs /\ r.pre = h.pre /\ r.succ = h.succ
        /\ r.code = [h.code EXCEPT ![in] = Append(@, i)]
    BY <1>1, <2>1 DEF Graph
  <2>3. Append(h.code[in], i) \in Seq(Instr)
    BY <1>1
  <2>4. r.code \in [Block -> Seq(Instr)] /\ r \in Graph
    <3>1. [h.code EXCEPT ![in] = Append(@, i)] \in [Block -> Seq(Instr)]
      BY <1>1, <2>3
    <3>2. r = [h EXCEPT !.code = [h.code EXCEPT ![in] = Append(@, i)]]
      BY <1>1, <2>1 DEF Graph
    <3> HIDE DEF r
    <3> QED BY <1>1, <2>2, <3>1, <3>2 DEF Graph
  <2>5. r.code[in] = Append(h.code[in], i) /\ \A b \in Block \ {in} : r.code[b] = h.code[b]
    BY <1>1, <2>2
  <2>6. /\ Len(r.code[in]) = Len(h.code[in]) + 1 /\ Len(h.code[in]) \in Nat
        /\ r.code[in][Len(h.code[in]) + 1] = i /\ r.code[in] # << >>
        /\ \A k \in 1 .. Len(h.code[in]) : r.code[in][k] = h.code[in][k]
    BY SMTT(30), <1>1, <2>5
  <2> HIDE DEF r
  <2>7. \A b \in Block : \A k \in 1 .. Len(r.code[b]) - 1 : ~IsTerminator(r.code[b][k])
    <3>1. ASSUME NEW k \in 1 .. Len(r.code[in]) - 1 PROVE ~IsTerminator(r.code[in][k])
      <4>1. k \in 1 .. Len(h.code[in]) /\ r.code[in][k] = h.code[in][k]
        BY <2>6
      <4>2. CASE k = Len(h.code[in])
        <5>1. h.code[in] # << >>
          BY <1>1, <4>1
        <5> QED BY <4>1, <4>2, <5>1 DEF HasTerminator
      <4>3. CASE k # Len(h.code[in])
        <5>1. k \in 1 .. Len(h.code[in]) - 1
          BY <2>6, <4>1, <4>3
        <5> QED BY <1>1, <4>1, <5>1 DEF GraphOK
      <4> QED BY <4>2, <4>3
    <3> QED BY <2>5, <3>1 DEF GraphOK
  <2>8. ASSUME NEW b \in Block, NEW j \in 1 .. Len(r.code[b]), NEW k \in 1 .. Len(r.code[b][j].to)
        PROVE  r.code[b][j].to[k] \in r.bbs \ falses
    <3>1. CASE b = in /\ j = Len(h.code[in]) + 1
      BY <2>2, <2>6, <3>1
    <3>2. CASE b # in \/ j # Len(h.code[in]) + 1
      <4>1. j \in 1 .. Len(h.code[b]) /\ r.code[b][j] = h.code[b][j]
        <5>1. CASE b = in
          BY <2>6, <3>2, <5>1
        <5>2. CASE b # in
          BY <2>5, <5>2
        <5> QED BY <5>1, <5>2
      <4> QED BY <2>2, <4>1 DEF GraphOK
    <3> QED BY <3>1, <3>2
  <2>9. \A b \in r.bbs : HasTerminator(r, b) \/ b = in \/ b \in owed
    <3>1. \A b \in h.bbs : b \in Block
      BY <1>1 DEF Graph
    <3> QED BY <2>2, <2>5, <3>1 DEF GraphOK, HasTerminator
  <2>10. /\ \A b \in owed : r.code[b] = << >> /\ r.succ[b] = << >>
         /\ \A b \in Block : b > r.n => r.code[b] = << >> /\ r.succ[b] = << >> /\ r.pre[b] = << >>
    <3>1. owed \subseteq Block \ {in} /\ in \in 1 .. h.n /\ h.n \in Nat
      BY <1>1 DEF GraphOK, Graph
    <3>2. \A b \in Block : b > h.n => b # in
      BY <3>1 DEF Block
    <3> QED BY <2>2, <2>5, <3>1, <3>2 DEF GraphOK
  <2>11. GraphOK(r, in, owed, falses)
    BY <2>2, <2>4, <2>7, <2>8, <2>9, <2>10 DEF GraphOK
  <2>12. HasTerminator(r, in) <=> IsTerminator(i)
    BY <2>6 DEF HasTerminator
  <2>13. i = Plain => ~IsTerminator(i)
    BY DEF IsTerminator, Plain
  <2> QED BY <2>2, <2>11, <2>12, <2>13 DEF r
<1> QED BY <1>2, <1>3

\* Other edges, where nothing is said of the blocks that have none yet.
WithEdges(h, p, q) == [h EXCEPT !.pre = p, !.succ = q]
EdgesFit(h, owed, falses, p, q) ==
  /\ p \in [Block -> Seq(Block)] /\ q \in [Block -> Seq(Block)]
  /\ \A b \in Block : (b \in falses \cup {Entry} \/ b > h.n) => p[b] = h.pre[b]
  /\ \A b \in Block : (b \in owed \/ b > h.n) => q[b] = h.succ[b]

\* The lists of edges may change as EdgesFit says.
LEMMA EdgesKeep ==
  ASSUME NEW h, NEW in, NEW owed, NEW falses, GraphOK(h, in, owed, falses),
         NEW p, NEW q, EdgesFit(h, owed, falses, p, q)
  PROVE  LET r == WithEdges(h, p, q)
         IN  GraphOK(r, in, owed, falses) /\ r.n = h.n /\ r.bbs = h.bbs /\ r.code = h.code
<1> DEFINE r == WithEdges(h, p, q)
<1>1. h \in Graph
  BY DEF GraphOK
<1>2. /\ r \in Graph /\ r.n = h.n /\ r.bbs = h.bbs /\ r.code = h.code
      /\ r.pre = p /\ r.succ = q
  BY <1>1 DEF Graph, WithEdges, EdgesFit
<1> HIDE DEF r
<1>3. owed \subseteq Block /\ falses \subseteq Block /\ Entry \in Block
  BY <1>1 DEF GraphOK, Graph
<1>4. \A b \in Block : HasTerminator(r, b) <=> HasTerminator(h, b)
  BY <1>2 DEF HasTerminator
<1>5. /\ \A b \in owed : r.code[b] = << >> /\ r.succ[b] = << >>
      /\ \A b \in Block : b > r.n => r.code[b] = << >> /\ r.succ[b] = << >> /\ r.pre[b] = << >>
      /\ \A b \in falses \cup {Entry} : r.pre[b] = << >>
  BY <1>2, <1>3 DEF GraphOK, EdgesFit
<1>6. \A b \in h.bbs : HasTerminator(r, b) \/ b = in \/ b \in owed
  BY <1>1, <1>4 DEF GraphOK, Graph
<1>7. GraphOK(r, in, owed, falses)
  BY <1>2, <1>5, <1>6 DEF GraphOK
<1> QED BY <1>2, <1>7 DEF r

\* A return ends the insertion block.
LEMMA RetKeeps ==
  ASSUME NEW h, NEW in, NEW owed, NEW falses, GraphOK(h, in, owed, falses), ~HasTerminator(h, in)
  PROVE  LET r == CreateRet(h, in)
         IN  GraphOK(r, in, owed, falses) /\ r.n = h.n /\ r.bbs = h.bbs /\ HasTerminator(r, in)
<1>1. Ret \in Instr /\ Len(Ret.to) = 0 /\ IsTerminator(Ret)
  BY DEF Ret, Instr, IsTerminator
<1>2. \A k \in 1 .. Len(Ret.to) : Ret.to[k] \in h.bbs \ falses
  BY <1>1
<1> QED BY <1>1, <1>2, AddKeeps DEF CreateRet

\* Ordinary code leaves the insertion block open.
LEMMA PlainKeeps ==
  ASSUME NEW h, NEW in, NEW owed, NEW falses, GraphOK(h, in, owed, falses), ~HasTerminator(h, in)
  PROVE  LET r == AddInstruction(h, in, Plain)
         IN  GraphOK(r, in, owed, falses) /\ r.n = h.n /\ r.bbs = h.bbs /\ ~HasTerminator(r, in)
<1>1. Plain \in Instr /\ Len(Plain.to) = 0
  BY DEF Plain, Instr
<1>2. \A k \in 1 .. Len(Plain.to) : Plain.to[k] \in h.bbs \ falses
  BY <1>1
<1> QED BY <1>1, <1>2, AddKeeps

\* A branch from the open insertion block to a block that is not to be erased.
LEMMA BrKeeps ==
  ASSUME NEW h, NEW in, NEW owed, NEW falses, GraphOK(h, in, owed, falses),
         ~HasTerminator(h, in), NEW t \in h.bbs \ (falses \cup {Entry})
  PROVE  LET r == CreateBr(h, in, t)
         IN  GraphOK(r, in, owed, falses) /\ r.n = h.n /\ r.bbs = h.bbs /\ HasTerminator(r, in)
<1> DEFINE p == [h.pre EXCEPT ![t] = Append(@, in)]
           q == [h.succ EXCEPT ![in] = Append(@, t)]
           e == WithEdges(h, p, q)
<1>1. /\ h \in Graph /\ in \in Block /\ t \in Block /\ h.n \in Nat /\ in \notin owed
      /\ \A b \in Block : b > h.n => b # in /\ b # t
  BY SMTT(30) DEF GraphOK, Graph, Block
<1>2. h.pre \in [Block -> Seq(Block)] /\ h.succ \in [Block -> Seq(Block)]
  BY <1>1 DEF Graph
<1>3. Append(h.pre[t], in) \in Seq(Block) /\ Append(h.succ[in], t) \in Seq(Block)
  BY <1>1, <1>2
<1>4. /\ p \in [Block -> Seq(Block)] /\ \A b \in Block \ {t} : p[b] = h.pre[b]
      /\ q \in [Block -> Seq(Block)] /\ \A b \in Block \ {in} : q[b] = h.succ[b]
  BY <1>2, <1>3
<1> HIDE DEF p, q
<1>5. GraphOK(e, in, owed, falses) /\ e.n = h.n /\ e.bbs = h.bbs /\ e.code = h.code
  <2>1. \A b \in Block : (b \in falses \cup {Entry} \/ b > h.n) => p[b] = h.pre[b]
    BY <1>1, <1>4
  <2>2. \A b \in Block : (b \in owed \/ b > h.n) => q[b] = h.succ[b]
    BY <1>1, <1>4
  <2>3. EdgesFit(h, owed, falses, p, q)
    BY <1>4, <2>1, <2>2 DEF EdgesFit
  <2> QED BY <2>3, EdgesKeep
<1>6. e = [h EXCEPT !.pre[t] = Append(@, in), !.succ[in] = Append(@, t)]
  BY <1>1 DEF p, q, Graph, WithEdges
<1> HIDE DEF e
<1>7. ~HasTerminator(e, in)
  BY <1>5 DEF HasTerminator
<1>8. Br(t) \in Instr /\ Len(Br(t).to) = 1 /\ Br(t).to[1] = t /\ IsTerminator(Br(t))
  <2>1. <<t>> \in Seq(Block)
    BY <1>1
  <2> QED BY <2>1 DEF Br, Instr, IsTerminator
<1>9. \A k \in 1 .. Len(Br(t).to) : Br(t).to[k] \in e.bbs \ falses
  BY <1>5, <1>8
<1>10. CreateBr(h, in, t) = AddInstruction(e, in, Br(t))
  BY <1>6 DEF CreateBr
<1> QED BY <1>5, <1>7, <1>8, <1>9, <1>10, AddKeeps

\* A branch on a condition ends the insertion block.
LEMMA CondBrKeeps ==
  ASSUME NEW h, NEW in, NEW owed, NEW falses, GraphOK(h, in, owed, falses), ~HasTerminator(h, in),
         NEW t \in h.bbs \ (falses \cup {Entry}), NEW f \in h.bbs \ (falses \cup {Entry})
  PROVE  LET r == CreateCondBr(h, in, t, f)
         IN  GraphOK(r, in, owed, falses) /\ r.n = h.n /\ r.bbs = h.bbs /\ HasTerminator(r, in)
<1> DEFINE o == [h.pre EXCEPT ![t] = Append(@, in)]
           p == [o EXCEPT ![f] = Append(@, in)]
           q == [h.succ EXCEPT ![in] = @ \o <<f, t>>]
           e == WithEdges(h, p, q)
<1>1. /\ h \in Graph /\ in \in Block /\ t \in Block /\ f \in Block /\ h.n \in Nat /\ in \notin owed
      /\ \A b \in Block : b > h.n => b # in /\ b # t /\ b # f
  <2>1. h \in Graph /\ h.bbs \subseteq Block /\ h.bbs \subseteq 1 .. h.n /\ h.n \in Nat
    BY SMTT(30) DEF GraphOK, Graph
  <2>2. in \in h.bbs /\ in \notin owed
    BY DEF GraphOK
  <2>3. \A b \in h.bbs : ~(b > h.n)
    BY <2>1
  <2> QED BY <2>1, <2>2, <2>3
<1>2. h.pre \in [Block -> Seq(Block)] /\ h.succ \in [Block -> Seq(Block)]
  BY <1>1 DEF Graph
<1>3. o \in [Block -> Seq(Block)] /\ \A b \in Block \ {t} : o[b] = h.pre[b]
  <2>1. Append(h.pre[t], in) \in Seq(Block)
    BY <1>1, <1>2
  <2> QED BY <1>2, <2>1
<1> HIDE DEF o
<1>4. p \in [Block -> Seq(Block)] /\ \A b \in Block \ {t, f} : p[b] = h.pre[b]
  <2>1. Append(o[f], in) \in Seq(Block)
    BY <1>1, <1>3
  <2> QED BY <1>3, <2>1
<1>5. q \in [Block -> Seq(Block)] /\ \A b \in Block \ {in} : q[b] = h.succ[b]
  <2>1. <<f, t>> \in Seq(Block)
    BY <1>1
  <2>2. h.succ[in] \o <<f, t>> \in Seq(Block)
    BY <1>1, <1>2, <2>1
  <2> QED BY <1>2, <2>2
<1>6. e = [[[h EXCEPT !.pre[t] = Append(@, in)] EXCEPT !.pre[f] = Append(@, in)]
             EXCEPT !.succ[in] = @ \o <<f, t>>]
  BY <1>1 DEF o, Graph, WithEdges
<1> HIDE DEF p, q
<1>7. GraphOK(e, in, owed, falses) /\ e.n = h.n /\ e.bbs = h.bbs /\ e.code = h.code
  <2>1. \A b \in Block : (b \in falses \cup {Entry} \/ b > h.n) => p[b] = h.pre[b]
    BY <1>1, <1>4
  <2>2. \A b \in Block : (b \in owed \/ b > h.n) => q[b] = h.succ[b]
    BY <1>1, <1>5
  <2>3. EdgesFit(h, owed, falses, p, q)
    BY <1>4, <1>5, <2>1, <2>2 DEF EdgesFit
  <2> QED BY <2>3, EdgesKeep
<1> HIDE DEF e
<1>8. ~HasTerminator(e, in)
  BY <1>7 DEF HasTerminator
<1>9. /\ CondBr(t, f) \in Instr /\ Len(CondBr(t, f).to) = 2 /\ IsTerminator(CondBr(t, f))
      /\ CondBr(t, f).to[1] = t /\ CondBr(t, f).to[2] = f
  <2>1. <<t, f>> \in Seq(Block)
    BY <1>1
  <2> QED BY <2>1 DEF CondBr, Instr, IsTerminator
<1>10. \A k \in 1 .. Len(CondBr(t, f).to) : CondBr(t, f).to[k] \in e.bbs \ falses
  BY <1>7, <1>9
<1>11. CreateCondBr(h, in, t, f) = AddInstruction(e, in, CondBr(t, f))
  BY <1>6 DEF CreateCondBr
<1> QED BY <1>7, <1>8, <1>9, <1>10, <1>11, AddKeeps

\* New blocks: all are owed, and some of them may be there to be erased.
LEMMA CreateKeeps ==
  ASSUME NEW h, NEW in, NEW owed, NEW falses, GraphOK(h, in, owed, falses),
         NEW k \in Nat, h.n + k <= MaxBlocks, NEW new \in SUBSET (h.n + 1 .. h.n + k)
  PROVE  LET r == CreateBlocks(h, k)
         IN  /\ GraphOK(r, in, owed \cup (h.n + 1 .. h.n + k), falses \cup new)
             /\ r.n = h.n + k /\ r.bbs = h.bbs \cup (h.n + 1 .. h.n + k)
             /\ r.code = h.code
             /\ h.bbs \cap (h.n + 1 .. h.n + k) = {}
<1> DEFINE r == CreateBlocks(h, k)
           more == h.n + 1 .. h.n + k
<1>1. /\ h \in Graph /\ h.n \in Nat /\ h.bbs \subseteq 1 .. h.n /\ h.bbs \subseteq Block
      /\ MaxBlocks \in Nat /\ h.n <= MaxBlocks /\ in \in h.bbs /\ Entry \in h.bbs
  BY MaxBlocksAssumption DEF GraphOK, Graph
<1>2. more \subseteq Block /\ h.bbs \cap more = {} /\ \A b \in more : b > h.n
  BY <1>1 DEF Block
<1>3. /\ r \in Graph /\ r.n = h.n + k /\ r.bbs = h.bbs \cup more
      /\ r.pre = h.pre /\ r.succ = h.succ /\ r.code = h.code
  <2>1. h.n + k \in 0 .. MaxBlocks /\ h.bbs \cup more \in SUBSET Block
    BY <1>1, <1>2
  <2>2. r = [h EXCEPT !.n = h.n + k, !.bbs = h.bbs \cup more]
    BY <1>1 DEF CreateBlocks, Graph
  <2> HIDE DEF r, more
  <2> QED BY <1>1, <2>1, <2>2 DEF Graph
<1> HIDE DEF r
<1>4. r.bbs \subseteq 1 .. r.n
  BY <1>1, <1>3
<1> HIDE DEF more
<1>5. owed \cup more \subseteq r.bbs \ {in, Entry} /\ falses \cup new \subseteq owed \cup more
  BY <1>1, <1>2, <1>3 DEF GraphOK, more
<1>6. \A b \in more : h.code[b] = << >> /\ h.succ[b] = << >> /\ h.pre[b] = << >>
  BY <1>2 DEF GraphOK
<1>7. \A b \in owed \cup more : r.code[b] = << >> /\ r.succ[b] = << >>
  BY <1>3, <1>6 DEF GraphOK
<1>8. \A b \in Block : b > r.n => r.code[b] = << >> /\ r.succ[b] = << >> /\ r.pre[b] = << >>
  <2>1. \A b \in Block : b > h.n + k => b > h.n
    BY <1>1 DEF Block
  <2> QED BY <1>3, <2>1 DEF GraphOK
<1>9. \A b \in (falses \cup new) \cup {Entry} : r.pre[b] = << >>
  BY <1>3, <1>6 DEF GraphOK, more
<1>10. \A b \in Block : \A i \in 1 .. Len(r.code[b]) - 1 : ~IsTerminator(r.code[b][i])
  BY <1>3 DEF GraphOK
<1>11. \A b \in r.bbs : HasTerminator(r, b) \/ b = in \/ b \in owed \cup more
  BY <1>3 DEF GraphOK, HasTerminator
<1>12. \A b \in Block : \A i \in 1 .. Len(r.code[b]) :
         \A j \in 1 .. Len(r.code[b][i].to) : r.code[b][i].to[j] \in r.bbs \ (falses \cup new)
  <2>1. new \cap h.bbs = {}
    BY <1>2 DEF more
  <2> QED BY <1>3, <2>1 DEF GraphOK
<1>13. GraphOK(r, in, owed \cup more, falses \cup new)
  BY <1>1, <1>3, <1>4, <1>5, <1>7, <1>8, <1>9, <1>10, <1>11, <1>12 DEF GraphOK
<1> QED BY <1>2, <1>3, <1>13 DEF r, more

\* A block that was owed becomes the insertion block when the one before is
\* complete; fewer blocks are to be erased.
LEMMA MoveKeeps ==
  ASSUME NEW h, NEW in, NEW owed, NEW falses, GraphOK(h, in, owed, falses), HasTerminator(h, in),
         NEW b \in owed, NEW rest \in SUBSET falses, b \notin rest
  PROVE  GraphOK(h, b, owed \ {b}, rest) /\ ~HasTerminator(h, b)
<1>1. owed \subseteq h.bbs \ {in, Entry} /\ h.code[b] = << >>
  BY DEF GraphOK
<1>2. owed \ {b} \subseteq h.bbs \ {b, Entry} /\ rest \subseteq owed \ {b} /\ b \in h.bbs
  BY <1>1 DEF GraphOK
<1>3. \A c \in h.bbs : HasTerminator(h, c) \/ c = b \/ c \in owed \ {b}
  BY DEF GraphOK
<1>4. \A c \in Block : \A i \in 1 .. Len(h.code[c]) :
        \A j \in 1 .. Len(h.code[c][i].to) : h.code[c][i].to[j] \in h.bbs \ rest
  BY DEF GraphOK
<1> QED BY <1>1, <1>2, <1>3, <1>4 DEF GraphOK, HasTerminator

\* Fewer blocks are to be erased.
LEMMA FewerFalses ==
  ASSUME NEW h, NEW in, NEW owed, NEW falses, GraphOK(h, in, owed, falses), NEW rest \in SUBSET falses
  PROVE  GraphOK(h, in, owed, rest)
BY DEF GraphOK

\* The unused block of an if goes: nothing leads to it and it leads nowhere.
LEMMA EraseKeeps ==
  ASSUME NEW h, NEW in, NEW owed, NEW falses, GraphOK(h, in, owed, falses), NEW b \in falses
  PROVE  LET r == Erase(h, b)
         IN  /\ GraphOK(r, in, owed \ {b}, falses \ {b})
             /\ r.bbs = h.bbs \ {b} /\ r.code = h.code /\ r.n = h.n
<1> DEFINE r == Erase(h, b)
<1>1. /\ h \in Graph /\ b \in h.bbs /\ b # in /\ b # Entry /\ b \in owed
      /\ h.pre[b] = << >> /\ h.succ[b] = << >>
  BY DEF GraphOK
<1>2. Elems(h.pre[b]) = {} /\ Elems(h.succ[b]) = {}
  BY <1>1 DEF Elems
<1>3. r = [h EXCEPT !.bbs = h.bbs \ {b}, !.succ = [p \in Block |-> h.succ[p]],
                    !.pre = [s \in Block |-> h.pre[s]]]
  BY <1>1, <1>2 DEF Erase, Graph
<1>4. [p \in Block |-> h.succ[p]] = h.succ /\ [s \in Block |-> h.pre[s]] = h.pre
  BY <1>1 DEF Graph
<1>5. r = [h EXCEPT !.bbs = h.bbs \ {b}, !.succ = h.succ, !.pre = h.pre]
  BY <1>3, <1>4
<1> HIDE DEF r
<1>6. /\ r \in Graph /\ r.n = h.n /\ r.bbs = h.bbs \ {b}
      /\ r.pre = h.pre /\ r.succ = h.succ /\ r.code = h.code
  BY <1>1, <1>5 DEF Graph
<1>7. \A c \in r.bbs : HasTerminator(r, c) \/ c = in \/ c \in owed \ {b}
  BY <1>6 DEF GraphOK, HasTerminator
<1>8. \A c \in Block : \A i \in 1 .. Len(r.code[c]) :
        \A j \in 1 .. Len(r.code[c][i].to) : r.code[c][i].to[j] \in r.bbs \ (falses \ {b})
  <2>1. ASSUME NEW x \in h.bbs \ falses PROVE x \in r.bbs \ (falses \ {b})
    BY <1>6
  <2> QED BY <1>6, <2>1 DEF GraphOK
<1>9. GraphOK(r, in, owed \ {b}, falses \ {b})
  BY <1>1, <1>6, <1>7, <1>8 DEF GraphOK
<1> QED BY <1>6, <1>9 DEF r

-----------------------------------------------------------------------------
(* Visits: what is on the stack after a return, and after a return and one *)
(* or two new frames.                                                      *)

\* Only the frames of an if that is entered and of a loop owe anything.
LEMMA NothingOwed ==
  ASSUME NEW x, x.at \notin {"ifTrue", "ifElseTrue", "ifFalse", "whileBody"}
  PROVE  /\ Owes(x) = {} /\ Erases(x) = {}
         /\ x.at # "whileCond" => HeadOf(x) = {}
BY DEF Owes, Erases, HeadOf

\* Below any frame but that of the function there is one that waits for it.
LEMMA Returned ==
  ASSUME NEW s, StackOK(s), s # << >>, s[Len(s)].at # "fun"
  PROVE  LET t == SubSeq(s, 1, Len(s) - 1)
         IN  /\ t # << >>
             /\ \/ t[Len(t)].at \in Resumes
                \/ t[Len(t)].at \in Conds /\ s[Len(s)].at = "expr"
             /\ Cardinality(Opened(s))
                  = Cardinality(Opened(t)) + (IF s[Len(s)].at = Own THEN 1 ELSE 0)
             /\ Cardinality(Opened(t)) \in Nat
<1> DEFINE t == SubSeq(s, 1, Len(s) - 1)
<1>1. s \in Seq(Frame) /\ Len(s) \in Nat /\ Len(s) # 0
  BY DEF StackOK
<1>2. t \in Seq(Frame) /\ Len(t) = Len(s) - 1 /\ \A i \in 1 .. Len(t) : t[i] = s[i]
  BY <1>1, BelowIs
<1>3. Cardinality(Opened(s)) = Cardinality(Opened(t)) + (IF s[Len(s)].at \in {"fun", Own} THEN 1 ELSE 0)
  BY <1>1, PopScopes
<1> HIDE DEF t
<1>4. Len(s) # 1
  <2>1. Len(s) = 1 => s[Len(s)].at = "fun"
    BY <1>1 DEF StackOK
  <2> QED BY <2>1
<1>5. t # << >> /\ Len(t) \in 1 .. Len(s) - 1 /\ t[Len(t)] = s[Len(s) - 1] /\ Len(s) - 1 \in 1 .. Len(s) - 1
  BY <1>1, <1>2, <1>4
<1>6. t[Len(t)].at \in Resumes \/ (t[Len(t)].at \in Conds /\ s[Len(s)].at = "expr")
  BY <1>5 DEF StackOK
<1>7. Cardinality(Opened(t)) \in Nat
  BY <1>2, <1>5, PopScopes
<1> QED BY <1>3, <1>5, <1>6, <1>7 DEF t

\* A frame that is not one of an expression or a function gives way to another.
LEMMA OneFrame ==
  ASSUME NEW s, StackOK(s), s # << >>, s[Len(s)].at \notin {"fun", "expr"},
         NEW x, FrameOK(x), x.at # "fun",
         Owes(x) \cap Owed(SubSeq(s, 1, Len(s) - 1)) = {}
  PROVE  LET t == SubSeq(s, 1, Len(s) - 1)
             u == t \o <<x>>
         IN  /\ StackOK(u) /\ u # << >> /\ u[Len(u)] = x
             /\ Owed(u) = Owed(t) \cup Owes(x)
             /\ Falses(u) = Falses(t) \cup Erases(x)
             /\ Heads(u) = Heads(t) \cup HeadOf(x)
             /\ Cardinality(Opened(u)) = Cardinality(Opened(t)) + (IF x.at = Own THEN 1 ELSE 0)
<1> DEFINE t == SubSeq(s, 1, Len(s) - 1)
<1>1. StackOK(t)
  BY PopStack
<1>2. t # << >> /\ t[Len(t)].at \in Resumes
  BY Returned
<1> HIDE DEF t
<1>3. Fits(t, x)
  BY <1>2 DEF Fits, t
<1>4. t \in Seq(Frame) /\ x \in Frame
  BY <1>1 DEF StackOK, FrameOK
<1>5. t \o <<x>> = Append(t, x)
  BY <1>4
<1>6. /\ StackOK(Append(t, x)) /\ Append(t, x) # << >> /\ Append(t, x)[Len(Append(t, x))] = x
      /\ Owed(Append(t, x)) = Owed(t) \cup Owes(x)
      /\ Falses(Append(t, x)) = Falses(t) \cup Erases(x)
      /\ Heads(Append(t, x)) = Heads(t) \cup HeadOf(x)
  BY <1>1, <1>3, PushStack
<1>7. Cardinality(Opened(Append(t, x))) = Cardinality(Opened(t)) + (IF x.at = Own THEN 1 ELSE 0)
  BY <1>4, PushScopes
<1> QED BY <1>5, <1>6, <1>7 DEF t

\* The same, with a statement or an expression on top of it.
LEMMA TwoFrames ==
  ASSUME NEW s, StackOK(s), s # << >>, s[Len(s)].at \notin {"fun", "expr"},
         NEW x, FrameOK(x), x.at # "fun",
         Owes(x) \cap Owed(SubSeq(s, 1, Len(s) - 1)) = {},
         NEW y \in {Stmt, Expr}, x.at \in Resumes \/ (x.at \in Conds /\ y = Expr)
  PROVE  LET t == SubSeq(s, 1, Len(s) - 1)
             u == t \o <<x, y>>
         IN  /\ StackOK(u) /\ u # << >> /\ u[Len(u)] = y
             /\ Owed(u) = Owed(t) \cup Owes(x)
             /\ Falses(u) = Falses(t) \cup Erases(x)
             /\ Heads(u) = Heads(t) \cup HeadOf(x)
             /\ Cardinality(Opened(u)) = Cardinality(Opened(t)) + (IF x.at = Own THEN 1 ELSE 0)
<1> DEFINE t == SubSeq(s, 1, Len(s) - 1)
           v == t \o <<x>>
<1>1. StackOK(t)
  BY PopStack
<1>2. /\ StackOK(v) /\ v # << >> /\ v[Len(v)] = x
      /\ Owed(v) = Owed(t) \cup Owes(x)
      /\ Falses(v) = Falses(t) \cup Erases(x)
      /\ Heads(v) = Heads(t) \cup HeadOf(x)
      /\ Cardinality(Opened(v)) = Cardinality(Opened(t)) + (IF x.at = Own THEN 1 ELSE 0)
  BY OneFrame
<1> HIDE DEF t
<1>3. /\ y.at \in {"stmt", "expr"} /\ y.at # "fun" /\ y.at # Own /\ (y = Expr => y.at = "expr")
      /\ Owes(y) = {} /\ Erases(y) = {} /\ HeadOf(y) = {} /\ FrameOK(y)
  <2>1. << >> \in Seq(Block)
    OBVIOUS
  <2>2. y.at \in {"stmt", "expr"} /\ y.blocks = << >> /\ y \in Frame /\ (y = Expr => y.at = "expr")
    <3>1. CASE y = Stmt
      BY <2>1, <3>1 DEF Stmt, Expr, Frame, FrameAt
    <3>2. CASE y = Expr
      BY <2>1, <3>2 DEF Expr, Frame, FrameAt
    <3> QED BY <3>1, <3>2
  <2>3. FrameOK(y)
    BY <2>2 DEF FrameOK
  <2> QED BY <2>2, <2>3, NothingOwed DEF Own
<1>4. t \in Seq(Frame) /\ x \in Frame /\ y \in Frame
  BY <1>1, <1>3 DEF StackOK, FrameOK
<1>5. t \o <<x, y>> = Append(v, y)
  BY <1>4
<1> HIDE DEF v
<1>6. Fits(v, y)
  BY <1>2, <1>3 DEF Fits
<1>7. v \in Seq(Frame)
  BY <1>2 DEF StackOK
<1>8. Cardinality(Opened(Append(v, y))) = Cardinality(Opened(v)) + (IF y.at \in {"fun", Own} THEN 1 ELSE 0)
  BY <1>4, <1>7, PushScopes
<1>9. /\ StackOK(Append(v, y)) /\ Append(v, y) # << >> /\ Append(v, y)[Len(Append(v, y))] = y
      /\ Owed(Append(v, y)) = Owed(v) /\ Falses(Append(v, y)) = Falses(v)
      /\ Heads(Append(v, y)) = Heads(v)
  BY <1>2, <1>3, <1>6, PushStack
<1>10. Cardinality(Opened(v)) \in Nat
  BY <1>2, <1>7, PopScopes
<1>11. Cardinality(Opened(Append(v, y))) = Cardinality(Opened(v))
  BY <1>3, <1>8, <1>10
<1> QED BY <1>2, <1>5, <1>9, <1>11 DEF t

-----------------------------------------------------------------------------
(* The invariant, by what a step does to the stack.                        *)

\* While a visit is in progress there is a graph, and it is in order.
LEMMA InProgress ==
  ASSUME IInv, stk # << >>
  PROVE  /\ GraphOK(g, insert, Owed(stk), Falses(stk)) /\ StackOK(stk)
         /\ g \in Graph /\ g.bbs \subseteq Block /\ depth \in Nat
         /\ Heads(stk) \subseteq g.bbs \ (Owed(stk) \cup {Entry})
<1>1. GraphOK(g, insert, Owed(stk), Falses(stk)) /\ StackOK(stk)
  BY DEF IInv
<1>2. stk \in Seq(Frame) /\ depth = 1 + Cardinality(Opened(stk))
  BY DEF IInv, StackOK
<1>3. Cardinality(Opened(stk)) \in Nat
  BY <1>2, PopScopes
<1>4. depth \in Nat
  BY <1>2, <1>3
<1> QED BY <1>1, <1>4 DEF IInv, GraphOK, Graph

\* The invariant holds of the new state if its parts hold of the new stack.
LEMMA Arrive ==
  ASSUME IInv, NEW s, StackOK(s), s # << >>, stk' = s,
         GraphOK(g', insert', Owed(s), Falses(s)),
         Heads(s) \subseteq g'.bbs \ (Owed(s) \cup {Entry}),
         depth' = 1 + Cardinality(Opened(s)),
         preEnter' \in BOOLEAN, preEnter' <=> s[Len(s)].at = "body",
         s[Len(s)].at \in OpenAts => ~HasTerminator(g', insert'),
         decls' \in 0 .. MaxDecls, stmts' \in 0 .. MaxStmts
  PROVE  IInv'
<1>1. insert' \in Block /\ g'.bbs # {}
  BY DEF GraphOK, Graph
<1>2. At("body")' <=> s[Len(s)].at = "body"
  BY DEF At, Top
<1> QED BY <1>1, <1>2 DEF IInv, Top

\* A visit returns.
LEMMA ReturnKeeps ==
  ASSUME IInv, stk # << >>, Top.at \notin {"fun", "body"}, stk' = Below,
         GraphOK(g', insert', Owed(Below), Falses(Below)),
         Heads(Below) \subseteq g'.bbs \ (Owed(Below) \cup {Entry}),
         depth' = IF Top.at = Own THEN depth - 1 ELSE depth, preEnter' = preEnter,
         Top.at = "expr" => ~HasTerminator(g', insert'),
         decls' = decls, stmts' \in 0 .. MaxStmts
  PROVE  IInv'
<1>1. StackOK(stk) /\ StackOK(Below)
  BY InProgress, PopStack DEF Below
<1>2. /\ Below # << >>
      /\ Below[Len(Below)].at \in Resumes \/ (Below[Len(Below)].at \in Conds /\ Top.at = "expr")
      /\ Cardinality(Opened(stk)) = Cardinality(Opened(Below)) + (IF Top.at = Own THEN 1 ELSE 0)
      /\ Cardinality(Opened(Below)) \in Nat
  BY <1>1, Returned DEF Below, Top
<1>3. depth' = 1 + Cardinality(Opened(Below))
  BY <1>2 DEF IInv
<1>4. Below[Len(Below)].at # "body"
  BY <1>2 DEF Resumes, Conds, Shared, Own
<1>5. preEnter' \in BOOLEAN /\ ~preEnter' /\ decls' \in 0 .. MaxDecls
  BY DEF IInv, At
<1>6. Below[Len(Below)].at \in OpenAts => ~HasTerminator(g', insert')
  BY <1>2 DEF Resumes, OpenAts, Conds, Shared, Own
<1> QED BY <1>1, <1>2, <1>3, <1>4, <1>5, <1>6, Arrive

\* A frame is replaced by one that resumes later, with a visit on top of it.
LEMMA EnterKeeps ==
  ASSUME IInv, stk # << >>, Top.at \notin {"fun", "body", "expr", Own},
         NEW x, FrameOK(x), x.at \notin {"fun", Own}, Owes(x) \cap Owed(Below) = {},
         NEW y \in {Stmt, Expr}, x.at \in Resumes \/ (x.at \in Conds /\ y = Expr),
         stk' = Below \o <<x, y>>,
         GraphOK(g', insert', Owed(Below) \cup Owes(x), Falses(Below) \cup Erases(x)),
         Heads(Below) \cup HeadOf(x) \subseteq g'.bbs \ (Owed(Below) \cup Owes(x) \cup {Entry}),
         ~HasTerminator(g', insert'),
         depth' = depth, preEnter' = preEnter, decls' = decls, stmts' \in 0 .. MaxStmts
  PROVE  IInv'
<1> DEFINE u == Below \o <<x, y>>
<1>1. StackOK(stk)
  BY InProgress
<1>2. /\ StackOK(u) /\ u # << >> /\ u[Len(u)] = y
      /\ Owed(u) = Owed(Below) \cup Owes(x)
      /\ Falses(u) = Falses(Below) \cup Erases(x)
      /\ Heads(u) = Heads(Below) \cup HeadOf(x)
      /\ Cardinality(Opened(u)) = Cardinality(Opened(Below)) + (IF x.at = Own THEN 1 ELSE 0)
  BY ZenonT(30), <1>1, TwoFrames DEF Below, Top
<1>3. /\ Cardinality(Opened(stk)) = Cardinality(Opened(Below)) + (IF Top.at = Own THEN 1 ELSE 0)
      /\ Cardinality(Opened(Below)) \in Nat
  BY <1>1, Returned DEF Below, Top
<1> HIDE DEF u
<1>4. depth' = 1 + Cardinality(Opened(u))
  BY <1>2, <1>3 DEF IInv
<1>5. preEnter' \in BOOLEAN /\ ~preEnter' /\ decls' \in 0 .. MaxDecls
  BY DEF IInv, At
<1>6. u[Len(u)].at # "body"
  BY <1>2 DEF Stmt, Expr
<1> QED BY <1>2, <1>4, <1>5, <1>6, Arrive DEF u

\* What is known below the frame of a visit in progress.
LEMMA BelowOwes ==
  ASSUME IInv, stk # << >>
  PROVE  /\ Owed(Below) = Owed(stk) \ Owes(Top) /\ Owes(Top) \subseteq Owed(stk)
         /\ Falses(Below) = Falses(stk) \ Erases(Top) /\ Erases(Top) \subseteq Falses(stk)
         /\ Heads(Below) \subseteq Heads(stk) /\ HeadOf(Top) \subseteq Heads(stk)
         /\ Falses(stk) \subseteq Owed(stk) /\ FrameOK(Top) /\ StackOK(Below)
<1>1. StackOK(stk)
  BY InProgress
<1>2. Len(stk) \in 1 .. Len(stk)
  BY <1>1 DEF StackOK
<1>3. FrameOK(Top)
  BY <1>1, <1>2 DEF StackOK, Top
<1> QED BY <1>1, <1>3, PopStack DEF Below, Top

\* The constructor: a global scope, no function yet.
LEMMA InitInv == Init => IInv
<1> SUFFICES ASSUME Init PROVE IInv
  OBVIOUS
<1>1. /\ stk = << >> /\ Len(stk) = 0 /\ DOMAIN stk = {} /\ depth = 1
      /\ g = NoBlocks /\ g.bbs = {} /\ ~At("body")
  BY DEF Init, NoBlocks, At
<1>2. StackOK(stk)
  BY <1>1 DEF StackOK
<1>3. Opened(stk) = {} /\ Heads(stk) = {}
  BY <1>1 DEF Opened, Heads
<1>4. depth = 1 + Cardinality(Opened(stk))
  BY <1>1, <1>3, FS_EmptySet
<1>5. insert \in Block /\ preEnter = FALSE /\ decls \in 0 .. MaxDecls /\ stmts \in 0 .. MaxStmts
  BY MaxBlocksAssumption, BoundAssumption DEF Init, Block, Entry
<1> QED BY <1>1, <1>2, <1>3, <1>4, <1>5 DEF IInv

-----------------------------------------------------------------------------
(* The steps.                                                              *)

\* A frame that owes nothing leaves the graph in order below it.
LEMMA BelowSame ==
  ASSUME IInv, stk # << >>, Top.at \notin {"ifTrue", "ifElseTrue", "ifFalse", "whileBody"}
  PROVE  /\ GraphOK(g, insert, Owed(Below), Falses(Below))
         /\ Owed(Below) = Owed(stk) /\ Falses(Below) = Falses(stk)
         /\ Heads(Below) \subseteq g.bbs \ (Owed(Below) \cup {Entry})
<1>1. Owes(Top) = {} /\ Erases(Top) = {}
  BY NothingOwed
<1> QED BY <1>1, InProgress, BelowOwes

\* A frame without blocks, as most are.
LEMMA BareFrame ==
  ASSUME NEW a \in FrameAt \ {"ifTrue", "ifElseTrue", "ifFalse", "whileCond", "whileBody"}
  PROVE  LET x == [at |-> a, blocks |-> << >>]
         IN  FrameOK(x) /\ Owes(x) = {} /\ Erases(x) = {} /\ HeadOf(x) = {}
<1> DEFINE x == [at |-> a, blocks |-> << >>]
<1>1. << >> \in Seq(Block)
  OBVIOUS
<1>2. x \in Frame /\ x.at = a
  BY <1>1 DEF Frame
<1> HIDE DEF x
<1>3. FrameOK(x)
  BY <1>2 DEF FrameOK
<1>4. Owes(x) = {} /\ Erases(x) = {} /\ HeadOf(x) = {}
  BY <1>2, NothingOwed
<1> QED BY <1>3, <1>4 DEF x

\* No frame, nothing owed and no scope.
LEMMA NoFrames ==
  /\ StackOK(<< >>) /\ Cardinality(Opened(<< >>)) = 0
  /\ Owed(<< >>) = {} /\ Falses(<< >>) = {} /\ Heads(<< >>) = {}
<1>1. << >> \in Seq(Frame) /\ Len(<< >>) = 0 /\ DOMAIN << >> = {}
  OBVIOUS
<1>2. StackOK(<< >>)
  BY <1>1 DEF StackOK
<1>3. Opened(<< >>) = {} /\ Owed(<< >>) = {} /\ Falses(<< >>) = {} /\ Heads(<< >>) = {}
  BY <1>1 DEF Opened, Owed, Falses, Heads
<1>4. Cardinality({}) = 0
  BY FS_EmptySet
<1> QED BY <1>2, <1>3, <1>4

\* In the global scope a declaration emits no code.
LEMMA GlobalVarInv ==
  ASSUME IInv, VisitGlobalVarDeclaration
  PROVE  IInv'
<1>1. stk = << >> /\ decls' \in 0 .. MaxDecls
  BY BoundAssumption DEF VisitGlobalVarDeclaration, IInv
<1>2. depth = 1 + Cardinality(Opened(stk))
  BY DEF IInv
<1>3. depth = 1
  BY <1>1, <1>2, NoFrames
<1>4. g' = g /\ UNCHANGED <<insert, stk, depth, preEnter, stmts>>
  BY <1>3 DEF VisitGlobalVarDeclaration, Declare
<1> QED BY <1>1, <1>4 DEF IInv, At, Top

\* A function begins with its entry block and one open scope.
LEMMA FunDeclarationInv ==
  ASSUME IInv, NEW params \in BOOLEAN, VisitFunDeclaration(params)
  PROVE  IInv'
<1> DEFINE new == CreateBlocks(NoBlocks, 1)
           s == Append(<< >>, Fun)
           t == Append(s, Body)
<1>1. GraphOK(new, Entry, {}, {}) /\ ~HasTerminator(new, Entry)
  <2>1. /\ new.n = 1 /\ new.bbs = {1} /\ new.pre = [b \in Block |-> << >>]
        /\ new.succ = [b \in Block |-> << >>] /\ new.code = [b \in Block |-> << >>]
        /\ new = [n |-> 1, bbs |-> {1}, pre |-> [b \in Block |-> << >>],
                  succ |-> [b \in Block |-> << >>], code |-> [b \in Block |-> << >>]]
    <3> DEFINE none == [b \in Block |-> << >>]
    <3>1. {} \cup (0 + 1 .. 0 + 1) = {1} /\ 0 + 1 = 1
      OBVIOUS
    <3>2. new = [NoBlocks EXCEPT !.n = 0 + 1, !.bbs = {} \cup (0 + 1 .. 0 + 1)]
      BY DEF CreateBlocks, NoBlocks
    <3>3. new = [NoBlocks EXCEPT !.n = 1, !.bbs = {1}]
      BY <3>1, <3>2, Zenon
    <3>4. NoBlocks = [n |-> 0, bbs |-> {}, pre |-> none, succ |-> none, code |-> none]
      BY DEF NoBlocks
    <3> HIDE DEF none, new
    <3>5. new = [n |-> 1, bbs |-> {1}, pre |-> none, succ |-> none, code |-> none]
      BY <3>3, <3>4
    <3> QED BY <3>5 DEF none
  <2>2. 1 \in Block /\ 1 \in 0 .. MaxBlocks
    BY MaxBlocksAssumption DEF Block
  <2>3. << >> \in Seq(Block) /\ << >> \in Seq(Instr)
    OBVIOUS
  <2> HIDE DEF new
  <2>4. new \in Graph
    BY <2>1, <2>2, <2>3 DEF Graph
  <2> QED BY <2>1, <2>2, <2>4 DEF GraphOK, HasTerminator, Entry
<1>2. stk = << >>
  BY DEF VisitFunDeclaration
<1>4. /\ FrameOK(Fun) /\ Owes(Fun) = {} /\ Erases(Fun) = {} /\ HeadOf(Fun) = {} /\ Fun.at = "fun"
      /\ FrameOK(Body) /\ Owes(Body) = {} /\ Erases(Body) = {} /\ HeadOf(Body) = {} /\ Body.at = "body"
  BY BareFrame DEF Fun, Body, FrameAt
<1>5. Fits(<< >>, Fun)
  BY <1>4 DEF Fits
<1>6. /\ StackOK(s) /\ s # << >> /\ s[Len(s)] = Fun
      /\ Owed(s) = {} /\ Falses(s) = {} /\ Heads(s) = {}
  <2> DEFINE e == << >>
  <2>1. StackOK(e) /\ Fits(e, Fun) /\ Owed(e) = {} /\ Falses(e) = {} /\ Heads(e) = {}
    BY <1>5, NoFrames
  <2>2. s = Append(e, Fun)
    OBVIOUS
  <2> HIDE DEF e, s
  <2>3. /\ StackOK(Append(e, Fun)) /\ Append(e, Fun) # << >>
        /\ Append(e, Fun)[Len(Append(e, Fun))] = Fun
        /\ Owed(Append(e, Fun)) = Owed(e) \cup Owes(Fun)
        /\ Falses(Append(e, Fun)) = Falses(e) \cup Erases(Fun)
        /\ Heads(Append(e, Fun)) = Heads(e) \cup HeadOf(Fun)
    BY <2>1, PushStack
  <2>4. {} \cup {} = {}
    OBVIOUS
  <2> QED BY <1>4, <2>1, <2>2, <2>3, <2>4, Zenon
<1>7. Cardinality(Opened(s)) = 1
  <2>1. << >> \in Seq(Frame) /\ Fun \in Frame
    BY <1>4 DEF FrameOK
  <2>2. Cardinality(Opened(s)) = Cardinality(Opened(<< >>)) + 1
    BY <1>4, <2>1, PushScopes
  <2> QED BY <2>2, NoFrames
<1> HIDE DEF s
<1>8. Fits(s, Body)
  BY <1>4, <1>6 DEF Fits, Resumes
<1>9. /\ StackOK(t) /\ t # << >> /\ t[Len(t)] = Body
      /\ Owed(t) = {} /\ Falses(t) = {} /\ Heads(t) = {}
  BY <1>4, <1>6, <1>8, PushStack
<1>10. Cardinality(Opened(t)) = 1
  <2>1. s \in Seq(Frame) /\ Body \in Frame
    BY <1>4, <1>6 DEF FrameOK, StackOK
  <2> QED BY <1>4, <1>7, <2>1, PushScopes DEF Own
<1> HIDE DEF t, new
<1>11. GraphOK(g', insert', {}, {}) /\ ~HasTerminator(g', insert')
  <2>1. insert' = Entry /\ g' = IF params THEN AddInstruction(new, Entry, Plain) ELSE new
    BY DEF VisitFunDeclaration, new
  <2> QED BY <1>1, <2>1, PlainKeeps
<1>12. depth = 1
  <2>1. depth = 1 + Cardinality(Opened(stk))
    BY DEF IInv
  <2> QED BY <1>2, <2>1, NoFrames
<1>13. stk' = t
  BY DEF VisitFunDeclaration, s, t
<1>14. depth' = 1 + Cardinality(Opened(t)) /\ preEnter' = TRUE
  BY <1>10, <1>12 DEF VisitFunDeclaration
<1>15. decls' \in 0 .. MaxDecls /\ stmts' \in 0 .. MaxStmts
  BY BoundAssumption DEF VisitFunDeclaration, IInv
<1> QED BY <1>4, <1>9, <1>11, <1>13, <1>14, <1>15, Arrive

\* The last block of a function gets the return it lacks.
LEMMA EndFunInv ==
  ASSUME IInv, EndFunDeclaration
  PROVE  IInv'
<1>1. stk # << >> /\ Top.at = "fun"
  BY DEF EndFunDeclaration, At
<1>2. GraphOK(g, insert, Owed(stk), Falses(stk)) /\ StackOK(stk) /\ depth \in Nat
  BY <1>1, InProgress
<1>3. stk \in Seq(Frame) /\ Len(stk) = 1
  <2>1. stk \in Seq(Frame) /\ Len(stk) \in 1 .. Len(stk)
    BY <1>1, <1>2 DEF StackOK
  <2>2. stk[Len(stk)].at = "fun" <=> Len(stk) = 1
    BY <1>2, <2>1 DEF StackOK
  <2> QED BY <1>1, <2>1, <2>2 DEF Top
<1>4. Below = << >>
  BY <1>3, BelowIs DEF Below
<1>6. GraphOK(g, insert, {}, {})
  BY <1>1, <1>4, BelowSame, NoFrames
<1>7. GraphOK(g', insert, {}, {}) /\ HasTerminator(g', insert)
  BY <1>6, RetKeeps DEF EndFunDeclaration
<1>8. g'.bbs # {} /\ insert \in Block
  BY <1>7 DEF GraphOK, Graph
<1>9. depth' = 1 + Cardinality(Opened(stk')) /\ stk' = << >> /\ StackOK(<< >>)
  <2>1. Cardinality(Opened(stk)) = 1
    <3>1. Cardinality(Opened(stk)) = Cardinality(Opened(<< >>)) + 1
      BY <1>1, <1>3, <1>4, PopScopes DEF Below, Top
    <3> QED BY <3>1, NoFrames
  <2>2. depth = 1 + Cardinality(Opened(stk))
    BY DEF IInv
  <2>3. stk' = << >> /\ depth' = 1
    BY <1>4, <2>1, <2>2 DEF EndFunDeclaration
  <2> QED BY <2>3, NoFrames
<1>10. ~At("body")' /\ ~preEnter'
  BY <1>1, <1>9 DEF EndFunDeclaration, IInv, At
<1>11. UNCHANGED <<insert, preEnter, decls, stmts>>
  BY DEF EndFunDeclaration
<1> QED BY <1>7, <1>8, <1>9, <1>10, <1>11, NoFrames DEF IInv

\* In a visit whose insertion block is open.
LEMMA OpenVisit ==
  ASSUME IInv, stk # << >>, Top.at \in OpenAts
  PROVE  ~HasTerminator(g, insert)
BY DEF IInv

\* A block that is to be erased is one of those that are owed.
LEMMA FalsesAreOwed ==
  ASSUME NEW s
  PROVE  Falses(s) \subseteq Owed(s)
<1>1. ASSUME NEW x PROVE Erases(x) \subseteq Owes(x)
  BY DEF Erases, Owes
<1> QED BY <1>1 DEF Falses, Owed

\* The statement loop of a compound puts a statement on top.
LEMMA StatementOnTop ==
  ASSUME NEW s, StackOK(s), s # << >>, s[Len(s)].at \in {Shared, Own}
  PROVE  LET u == Append(s, Stmt)
         IN  /\ StackOK(u) /\ u # << >> /\ u[Len(u)] = Stmt
             /\ Owed(u) = Owed(s) /\ Falses(u) = Falses(s) /\ Heads(u) = Heads(s)
             /\ Cardinality(Opened(u)) = Cardinality(Opened(s))
<1>1. /\ FrameOK(Stmt) /\ Owes(Stmt) = {} /\ Erases(Stmt) = {} /\ HeadOf(Stmt) = {}
      /\ Stmt.at = "stmt"
  BY BareFrame DEF Stmt, FrameAt
<1>2. Fits(s, Stmt)
  BY <1>1 DEF Fits, Resumes
<1>3. s \in Seq(Frame) /\ Stmt \in Frame
  BY <1>1 DEF StackOK, FrameOK
<1>4. Cardinality(Opened(Append(s, Stmt))) = Cardinality(Opened(s)) + 0
  BY <1>1, <1>3, PushScopes DEF Own
<1>5. Cardinality(Opened(s)) \in Nat
  BY <1>3, PopScopes
<1>6. Cardinality(Opened(Append(s, Stmt))) = Cardinality(Opened(s))
  BY <1>4, <1>5
<1>7. /\ StackOK(Append(s, Stmt)) /\ Append(s, Stmt) # << >>
      /\ Append(s, Stmt)[Len(Append(s, Stmt))] = Stmt
      /\ Owed(Append(s, Stmt)) = Owed(s) \cup Owes(Stmt)
      /\ Falses(Append(s, Stmt)) = Falses(s) \cup Erases(Stmt)
      /\ Heads(Append(s, Stmt)) = Heads(s) \cup HeadOf(Stmt)
  BY <1>2, PushStack
<1>8. ASSUME NEW A PROVE A \cup {} = A
  OBVIOUS
<1> QED BY <1>1, <1>6, <1>7, <1>8, Zenon

\* A compound shares the scope of the parameters or opens its own.
LEMMA EnterCompoundInv ==
  ASSUME IInv, stk # << >>, Top.at \in {"body", "stmt"}, EnterCompound(Below),
         stmts' \in 0 .. MaxStmts
  PROVE  IInv'
<1> DEFINE a == IF preEnter THEN Shared ELSE Own
           x == Compound(a)
           loop == Below \o <<x>>
<1>1. StackOK(stk) /\ ~HasTerminator(g, insert)
  BY InProgress, OpenVisit DEF OpenAts
<1>2. /\ a \in {Shared, Own} /\ x.at = a
      /\ FrameOK(x) /\ Owes(x) = {} /\ Erases(x) = {} /\ HeadOf(x) = {}
  BY BareFrame DEF Compound, FrameAt, Shared, Own
<1> HIDE DEF x
<1>3. /\ StackOK(loop) /\ loop # << >> /\ loop[Len(loop)] = x
      /\ Owed(loop) = Owed(Below) /\ Falses(loop) = Falses(Below) /\ Heads(loop) = Heads(Below)
      /\ Cardinality(Opened(loop)) = Cardinality(Opened(Below)) + (IF x.at = Own THEN 1 ELSE 0)
  <2>1. x.at # "fun" /\ Top.at \notin {"fun", "expr"}
    BY <1>2 DEF Shared, Own
  <2>2. Owes(x) \cap Owed(Below) = {}
    BY <1>2
  <2>3. /\ StackOK(loop) /\ loop # << >> /\ loop[Len(loop)] = x
        /\ Owed(loop) = Owed(Below) \cup Owes(x) /\ Falses(loop) = Falses(Below) \cup Erases(x)
        /\ Heads(loop) = Heads(Below) \cup HeadOf(x)
        /\ Cardinality(Opened(loop)) = Cardinality(Opened(Below)) + (IF x.at = Own THEN 1 ELSE 0)
    BY <1>1, <1>2, <2>1, <2>2, OneFrame DEF Below, Top
  <2>4. ASSUME NEW A PROVE A \cup {} = A
    OBVIOUS
  <2> QED BY <1>2, <2>3, <2>4, Zenon
<1>4. /\ Cardinality(Opened(stk)) = Cardinality(Opened(Below)) /\ Cardinality(Opened(Below)) \in Nat
  BY <1>1, Returned DEF Below, Top, Own
<1>5. GraphOK(g', insert', Owed(Below), Falses(Below)) /\ g'.bbs = g.bbs /\ ~HasTerminator(g', insert')
  <2>1. insert' = insert /\ GraphOK(g, insert, Owed(Below), Falses(Below))
    BY BelowSame DEF EnterCompound
  <2>2. g' = g \/ g' = AddInstruction(g, insert, Plain)
    BY DEF EnterCompound, Declare
  <2> QED BY <1>1, <2>1, <2>2, PlainKeeps
<1>6. Heads(Below) \subseteq g'.bbs \ (Owed(Below) \cup {Entry})
  BY <1>5, BelowSame
<1>7. depth' = 1 + Cardinality(Opened(loop))
  <2>1. preEnter <=> x.at # Own
    BY <1>2 DEF Shared, Own
  <2>2. depth = 1 + Cardinality(Opened(stk)) /\ depth' = IF preEnter THEN depth ELSE depth + 1
    BY DEF IInv, EnterCompound
  <2> HIDE DEF loop
  <2> QED BY <1>3, <1>4, <2>1, <2>2
<1>8. preEnter' = FALSE /\ decls' \in 0 .. MaxDecls
  BY DEF EnterCompound, IInv
<1>9. stk' = loop \/ stk' = Append(loop, Stmt)
  BY DEF EnterCompound, x
<1> HIDE DEF loop
<1>10. CASE stk' = loop
  <2>1. loop[Len(loop)].at \notin OpenAts /\ loop[Len(loop)].at # "body"
    BY <1>2, <1>3 DEF OpenAts, Conds, Shared, Own
  <2> QED BY <1>3, <1>5, <1>6, <1>7, <1>8, <1>10, <2>1, Arrive
<1>11. CASE stk' = Append(loop, Stmt)
  <2> DEFINE u == Append(loop, Stmt)
  <2>1. /\ StackOK(u) /\ u # << >> /\ u[Len(u)] = Stmt
        /\ Owed(u) = Owed(loop) /\ Falses(u) = Falses(loop) /\ Heads(u) = Heads(loop)
        /\ Cardinality(Opened(u)) = Cardinality(Opened(loop))
    BY <1>2, <1>3, StatementOnTop
  <2>2. u[Len(u)].at # "body"
    BY <2>1 DEF Stmt
  <2> HIDE DEF u
  <2> QED BY <1>3, <1>5, <1>6, <1>7, <1>8, <1>11, <2>1, <2>2, Arrive DEF u
<1> QED BY <1>9, <1>10, <1>11

\* The next statement of a compound is visited in an open block.
LEMMA NextStatementInv ==
  ASSUME IInv, NextStatement
  PROVE  IInv'
<1> DEFINE u == Append(stk, Stmt)
<1>1. /\ stk # << >> /\ Top.at \in {Shared, Own} /\ ~HasTerminator(g, insert) /\ stk' = u
      /\ UNCHANGED <<g, insert, depth, preEnter, decls, stmts>>
  BY DEF NextStatement, At
<1>2. /\ GraphOK(g, insert, Owed(stk), Falses(stk)) /\ StackOK(stk)
      /\ Heads(stk) \subseteq g.bbs \ (Owed(stk) \cup {Entry})
  BY <1>1, InProgress
<1>3. /\ StackOK(u) /\ u # << >> /\ u[Len(u)] = Stmt
      /\ Owed(u) = Owed(stk) /\ Falses(u) = Falses(stk) /\ Heads(u) = Heads(stk)
      /\ Cardinality(Opened(u)) = Cardinality(Opened(stk))
  BY <1>1, <1>2, StatementOnTop DEF Top
<1>4. u[Len(u)].at # "body" /\ ~preEnter
  BY <1>1, <1>3 DEF Stmt, IInv, At, Shared, Own
<1>5. /\ depth' = 1 + Cardinality(Opened(u)) /\ preEnter' \in BOOLEAN
      /\ decls' \in 0 .. MaxDecls /\ stmts' \in 0 .. MaxStmts
  BY <1>1, <1>3 DEF IInv
<1> HIDE DEF u
<1> QED BY <1>1, <1>2, <1>3, <1>4, <1>5, Arrive

\* A compound leaves its own scope, if it has one.
LEMMA EndCompoundInv ==
  ASSUME IInv, EndCompoundStmt
  PROVE  IInv'
<1>1. /\ stk # << >> /\ Top.at \in {Shared, Own} /\ stk' = Below
      /\ depth' = IF Top.at = Own THEN depth - 1 ELSE depth
      /\ UNCHANGED <<g, insert, preEnter, decls, stmts>>
  BY DEF EndCompoundStmt, At
<1>2. /\ GraphOK(g, insert, Owed(Below), Falses(Below))
      /\ Heads(Below) \subseteq g.bbs \ (Owed(Below) \cup {Entry})
  BY <1>1, BelowSame DEF Shared, Own
<1>3. Top.at \notin {"fun", "body", "expr"}
  BY <1>1 DEF Shared, Own
<1>4. stmts' \in 0 .. MaxStmts
  BY <1>1 DEF IInv
<1> QED BY <1>1, <1>2, <1>3, <1>4, ReturnKeeps

\* The visit of a statement: what Visit says.
LEMMA Visited ==
  ASSUME IInv, NEW frames, Visit(frames)
  PROVE  /\ stk # << >> /\ Top.at = "stmt" /\ stk' = Below \o frames
         /\ stmts' \in 0 .. MaxStmts /\ ~HasTerminator(g, insert)
         /\ StackOK(stk) /\ Below \o << >> = Below
         /\ GraphOK(g, insert, Owed(Below), Falses(Below))
         /\ Heads(Below) \subseteq g.bbs \ (Owed(Below) \cup {Entry})
<1>1. stk # << >> /\ Top.at = "stmt" /\ stk' = Below \o frames
  BY DEF Visit, At
<1>2. stmts' \in 0 .. MaxStmts
  BY BoundAssumption DEF Visit, IInv
<1>3. ~HasTerminator(g, insert)
  BY <1>1, OpenVisit DEF OpenAts
<1>4. StackOK(stk)
  BY <1>1, InProgress
<1>5. Below \in Seq(Frame)
  BY <1>1, <1>4, BelowIs DEF StackOK, Below
<1>6. Below \o << >> = Below
  BY <1>5
<1>7. /\ GraphOK(g, insert, Owed(Below), Falses(Below))
      /\ Heads(Below) \subseteq g.bbs \ (Owed(Below) \cup {Entry})
  BY <1>1, BelowSame
<1> QED BY <1>1, <1>2, <1>3, <1>4, <1>6, <1>7

\* An expression statement, with and without an expression.
LEMMA ExpressionStmtInv ==
  ASSUME IInv, VisitExpressionStmt
  PROVE  IInv'
<1>1. UNCHANGED <<g, insert, depth, preEnter, decls>>
  BY DEF VisitExpressionStmt
<1>2. CASE Visit(<<Expr>>)
  <2> DEFINE u == Below \o <<Expr>>
  <2>1. /\ stk # << >> /\ Top.at = "stmt" /\ stk' = u
        /\ stmts' \in 0 .. MaxStmts /\ ~HasTerminator(g, insert) /\ StackOK(stk)
        /\ GraphOK(g, insert, Owed(Below), Falses(Below))
        /\ Heads(Below) \subseteq g.bbs \ (Owed(Below) \cup {Entry})
    BY <1>2, Visited
  <2>2. /\ FrameOK(Expr) /\ Owes(Expr) = {} /\ Erases(Expr) = {} /\ HeadOf(Expr) = {}
        /\ Expr.at = "expr"
    BY BareFrame DEF Expr, FrameAt
  <2>3. /\ StackOK(u) /\ u # << >> /\ u[Len(u)] = Expr
        /\ Owed(u) = Owed(Below) /\ Falses(u) = Falses(Below) /\ Heads(u) = Heads(Below)
        /\ Cardinality(Opened(u)) = Cardinality(Opened(Below)) + (IF Expr.at = Own THEN 1 ELSE 0)
    <3>1. Owes(Expr) \cap Owed(Below) = {} /\ Top.at \notin {"fun", "expr"} /\ Expr.at # "fun"
      BY <2>1, <2>2
    <3>2. /\ StackOK(u) /\ u # << >> /\ u[Len(u)] = Expr
          /\ Owed(u) = Owed(Below) \cup Owes(Expr) /\ Falses(u) = Falses(Below) \cup Erases(Expr)
          /\ Heads(u) = Heads(Below) \cup HeadOf(Expr)
          /\ Cardinality(Opened(u)) = Cardinality(Opened(Below)) + (IF Expr.at = Own THEN 1 ELSE 0)
      BY ZenonT(30), <2>1, <2>2, <3>1, OneFrame DEF Below, Top
    <3>3. ASSUME NEW A PROVE A \cup {} = A
      OBVIOUS
    <3> QED BY <2>2, <3>2, <3>3, Zenon
  <2>4. Cardinality(Opened(stk)) = Cardinality(Opened(Below)) /\ Cardinality(Opened(Below)) \in Nat
    BY <2>1, Returned DEF Below, Top, Own
  <2> HIDE DEF u
  <2>5. depth' = 1 + Cardinality(Opened(u))
    BY <1>1, <2>2, <2>3, <2>4 DEF IInv, Own
  <2>6. preEnter' \in BOOLEAN /\ ~preEnter' /\ decls' \in 0 .. MaxDecls
    BY <1>1, <2>1 DEF IInv, At
  <2> QED BY <1>1, <2>1, <2>2, <2>3, <2>5, <2>6, Arrive
<1>3. CASE Visit(<< >>)
  BY <1>1, <1>3, Visited, ReturnKeeps DEF Own
<1> QED BY <1>2, <1>3 DEF VisitExpressionStmt

\* An open insertion block ends in a branch on a condition to two new blocks,
\* and the first of them is the insertion block next.
Split(h, k, in, t, f) ==
  CreateCondBr(AddInstruction(CreateBlocks(h, k), in, Plain), in, t, f)

\* Of the k new blocks, those in drop are there to be erased; left are the
\* blocks owed after the branch, and all those there are.
CanSplit(h, k, t, f, owed, falses, left, drop, all) ==
  LET more == h.n + 1 .. h.n + k
  IN  /\ k \in Nat /\ h.n + k <= MaxBlocks
      /\ falses \subseteq drop /\ drop \ falses \subseteq more
      /\ t \in more \ drop /\ f \in more \ drop
      /\ left = (owed \cup more) \ {t} /\ all = h.bbs \cup more

\* The branch of a condition, and its true block next.
LEMMA SplitKeeps ==
  ASSUME NEW h, NEW in, NEW owed, NEW falses, GraphOK(h, in, owed, falses), ~HasTerminator(h, in),
         NEW k, NEW t, NEW f, NEW left, NEW drop, NEW all,
         CanSplit(h, k, t, f, owed, falses, left, drop, all)
  PROVE  LET r == Split(h, k, in, t, f)
         IN  GraphOK(r, t, left, drop) /\ ~HasTerminator(r, t) /\ r.bbs = all
<1> DEFINE more == h.n + 1 .. h.n + k
           new == drop \ falses
           c == CreateBlocks(h, k)
           p == AddInstruction(c, in, Plain)
           r == CreateCondBr(p, in, t, f)
<1>1. /\ k \in Nat /\ h.n + k <= MaxBlocks /\ new \in SUBSET more /\ falses \cup new = drop
      /\ t \in more \ drop /\ f \in more \ drop
      /\ left = (owed \cup more) \ {t} /\ all = h.bbs \cup more
  BY DEF CanSplit
<1>2. /\ GraphOK(c, in, owed \cup more, drop) /\ c.bbs = all
      /\ c.code = h.code /\ h.bbs \cap more = {}
  <2>1. /\ GraphOK(c, in, owed \cup more, falses \cup new) /\ c.bbs = h.bbs \cup more
        /\ c.code = h.code /\ h.bbs \cap more = {}
    <3> HIDE DEF new
    <3> QED BY <1>1, CreateKeeps
  <2> HIDE DEF new, c, more
  <2> QED BY <1>1, <2>1
<1>3. ~HasTerminator(c, in)
  BY <1>2 DEF HasTerminator
<1>4. owed \subseteq h.bbs /\ Entry \in h.bbs
  BY DEF GraphOK
<1> HIDE DEF c, more, new
<1>5. GraphOK(p, in, owed \cup more, drop) /\ p.bbs = c.bbs /\ ~HasTerminator(p, in)
  BY <1>2, <1>3, PlainKeeps
<1> HIDE DEF p
<1>6. t \in p.bbs \ (drop \cup {Entry}) /\ f \in p.bbs \ (drop \cup {Entry})
  BY <1>1, <1>2, <1>4, <1>5
<1>7. GraphOK(r, in, owed \cup more, drop) /\ r.bbs = p.bbs /\ HasTerminator(r, in)
  BY <1>5, <1>6, CondBrKeeps
<1> HIDE DEF r
<1>8. t \in owed \cup more /\ t \notin drop /\ drop \in SUBSET drop
  BY <1>1
<1>9. GraphOK(r, t, (owed \cup more) \ {t}, drop) /\ ~HasTerminator(r, t)
  BY <1>7, <1>8, MoveKeeps
<1> QED BY <1>1, <1>2, <1>5, <1>7, <1>9 DEF r, p, c, Split

\* New blocks are none of those there are.
LEMMA NewBlocks ==
  ASSUME NEW h, NEW in, NEW owed, NEW falses, GraphOK(h, in, owed, falses)
  PROVE  /\ h.n \in Nat /\ Entry \in h.bbs /\ owed \subseteq h.bbs /\ falses \subseteq owed
         /\ \A k \in Nat : h.n + 1 + k \notin h.bbs
         /\ \A k \in Nat : h.n + 1 + k <= MaxBlocks => h.n + 1 + k \in Block
<1>1. h.n \in Nat /\ h.bbs \subseteq 1 .. h.n
  BY DEF GraphOK, Graph
<1>2. Entry \in h.bbs /\ owed \subseteq h.bbs /\ falses \subseteq owed
  BY DEF GraphOK
<1>3. \A k \in Nat : h.n + 1 + k \notin h.bbs
  BY <1>1
<1>4. \A k \in Nat : h.n + 1 + k <= MaxBlocks => h.n + 1 + k \in Block
  BY <1>1, MaxBlocksAssumption DEF Block
<1> QED BY <1>1, <1>2, <1>3, <1>4

\* The branch at the end of a statement, if the block is still open.
LEMMA BranchIfOpenKeeps ==
  ASSUME NEW owed, NEW falses, GraphOK(g, insert, owed, falses),
         NEW t \in g.bbs \ (falses \cup {Entry})
  PROVE  LET r == BranchIfOpen(t)
         IN  GraphOK(r, insert, owed, falses) /\ r.bbs = g.bbs /\ HasTerminator(r, insert)
<1>1. CASE HasTerminator(g, insert)
  BY <1>1 DEF BranchIfOpen
<1>2. CASE ~HasTerminator(g, insert)
  BY <1>2, BrKeeps DEF BranchIfOpen
<1> QED BY <1>1, <1>2

\* What a frame that only keeps blocks has to say of them.
LEMMA FrameBlocks ==
  ASSUME IInv, stk # << >>
  PROVE  /\ Owed(stk) \subseteq g.bbs \ {insert, Entry}
         /\ Top.at \in {"ifTrue", "ifElseTrue"} =>
              /\ Owes(Top) = {Top.blocks[1], Top.blocks[2]} /\ Top.blocks[1] # Top.blocks[2]
              /\ Top.blocks[2] \notin Falses(stk) /\ HeadOf(Top) = {}
         /\ Top.at = "ifTrue" => Erases(Top) = {Top.blocks[1]} /\ Top.blocks[1] \in Falses(stk)
         /\ Top.at # "ifTrue" => Erases(Top) = {} /\ Falses(stk) \cap Owes(Top) = {}
         /\ Top.at = "ifFalse" => Owes(Top) = {Top.blocks[1]}
         /\ Top.at = "whileBody" => Owes(Top) = {Top.blocks[2]} /\ HeadOf(Top) = {Top.blocks[1]}
         /\ Top.at = "whileCond" => HeadOf(Top) = {Top.blocks[1]} /\ Top.blocks[1] \in Block
         /\ Top.at \in {"ifTrue", "ifElseTrue", "whileBody"} =>
              Top.blocks[1] \in Block /\ Top.blocks[2] \in Block
         /\ Top.at = "ifFalse" => Top.blocks[1] \in Block
<1>1. /\ Owed(stk) \subseteq g.bbs \ {insert, Entry} /\ g.bbs \subseteq Block
      /\ HeadOf(Top) \subseteq g.bbs
  BY InProgress, BelowOwes DEF GraphOK
<1>2. /\ Owed(Below) = Owed(stk) \ Owes(Top) /\ Owes(Top) \subseteq Owed(stk)
      /\ Falses(Below) = Falses(stk) \ Erases(Top) /\ Erases(Top) \subseteq Falses(stk)
      /\ FrameOK(Top) /\ Falses(Below) \subseteq Owed(Below)
  BY BelowOwes, FalsesAreOwed
<1>3. Top.at \in {"ifTrue", "ifElseTrue"} =>
        Owes(Top) = {Top.blocks[1], Top.blocks[2]} /\ Top.blocks[1] # Top.blocks[2] /\ HeadOf(Top) = {}
  BY <1>2 DEF Owes, HeadOf, FrameOK
<1>4. Top.at = "ifTrue" => Erases(Top) = {Top.blocks[1]}
  BY DEF Erases
<1>5. Top.at # "ifTrue" => Erases(Top) = {}
  BY DEF Erases
<1>6. Top.at = "ifFalse" => Owes(Top) = {Top.blocks[1]}
  BY DEF Owes
<1>7. Top.at = "whileBody" => Owes(Top) = {Top.blocks[2]} /\ HeadOf(Top) = {Top.blocks[1]}
  BY DEF Owes, HeadOf
<1>8. Top.at = "whileCond" => HeadOf(Top) = {Top.blocks[1]}
  BY DEF HeadOf
<1>9. Top.at # "ifTrue" => Falses(stk) \cap Owes(Top) = {}
  BY <1>2, <1>5
<1>10. Top.at \in {"ifTrue", "ifElseTrue"} => Top.blocks[2] \notin Falses(stk)
  BY <1>2, <1>3, <1>4, <1>9
<1> QED BY <1>1, <1>2, <1>3, <1>4, <1>5, <1>6, <1>7, <1>8, <1>9, <1>10

\* An index check: the reporting block returns, the next block is open.
LEMMA IndexedVarInv ==
  ASSUME IInv, VisitIndexedVar
  PROVE  IInv'
<1> DEFINE e == g.n + 1
           c == g.n + 2
           checked == Split(g, 2, insert, e, c)
           noted == AddInstruction(checked, e, Plain)
           reported == CreateRet(noted, e)
           done == AddInstruction(reported, c, Plain)
           O == Owed(stk)
           F == Falses(stk)
           left == O \cup {c}
           all == g.bbs \cup {e, c}
<1>1. /\ stk # << >> /\ Top.at = "expr" /\ g.n + 2 <= MaxBlocks /\ g' = done /\ insert' = c
      /\ UNCHANGED <<stk, depth, preEnter, decls, stmts>>
  BY DEF VisitIndexedVar, At, Room, Split
<1>2. /\ GraphOK(g, insert, O, F) /\ StackOK(stk) /\ g \in Graph /\ ~HasTerminator(g, insert)
      /\ Heads(stk) \subseteq g.bbs \ (O \cup {Entry})
  BY <1>1, InProgress, OpenVisit DEF OpenAts
<1>3. /\ e # c /\ g.n + 1 .. g.n + 2 = {e, c} /\ e \notin g.bbs /\ c \notin g.bbs
      /\ O \subseteq g.bbs /\ F \subseteq O
  <2>1. /\ g.n \in Nat /\ O \subseteq g.bbs /\ F \subseteq O
        /\ \A k \in Nat : g.n + 1 + k \notin g.bbs
    BY <1>2, NewBlocks
  <2> HIDE DEF O, F
  <2>2. g.n + 1 + 0 \notin g.bbs /\ g.n + 1 + 1 \notin g.bbs
    BY <2>1
  <2> QED BY <2>1, <2>2
<1>4. CanSplit(g, 2, e, c, O, F, left, F, all)
  <2> HIDE DEF e, c, O, F
  <2> QED BY <1>1, <1>3 DEF CanSplit, e, c
<1> HIDE DEF e, c, O, F, left, all
<1>5. GraphOK(checked, e, left, F) /\ ~HasTerminator(checked, e) /\ checked.bbs = all
  BY <1>2, <1>4, SplitKeeps
<1> HIDE DEF checked
<1>6. GraphOK(noted, e, left, F) /\ noted.bbs = checked.bbs /\ ~HasTerminator(noted, e)
  BY <1>5, PlainKeeps
<1> HIDE DEF noted
<1>7. GraphOK(reported, e, left, F) /\ reported.bbs = noted.bbs /\ HasTerminator(reported, e)
  BY <1>6, RetKeeps
<1> HIDE DEF reported
<1>8. left \ {c} = O /\ c \in left /\ c \notin F /\ F \in SUBSET F
  BY <1>3 DEF left
<1>9. GraphOK(reported, c, left \ {c}, F) /\ ~HasTerminator(reported, c)
  BY <1>7, <1>8, MoveKeeps
<1>10. GraphOK(done, c, O, F) /\ done.bbs = reported.bbs
  BY <1>8, <1>9, PlainKeeps
<1> HIDE DEF done
<1>11. Heads(stk) \subseteq g'.bbs \ (O \cup {Entry})
  BY <1>1, <1>2, <1>5, <1>6, <1>7, <1>10 DEF all
<1>12. /\ depth' = 1 + Cardinality(Opened(stk)) /\ preEnter' \in BOOLEAN /\ ~preEnter'
       /\ decls' \in 0 .. MaxDecls /\ stmts' \in 0 .. MaxStmts
  BY <1>1 DEF IInv, At
<1>13. stk[Len(stk)].at # "body" /\ ~HasTerminator(g', insert')
  <2>1. ~HasTerminator(done, c)
    BY <1>9, PlainKeeps DEF done
  <2> QED BY <1>1, <2>1 DEF Top
<1> QED BY <1>1, <1>2, <1>10, <1>11, <1>12, <1>13, Arrive DEF O, F

\* An expression ends in an open block.
LEMMA EndExpressionInv ==
  ASSUME IInv, EndExpression
  PROVE  IInv'
<1>1. /\ stk # << >> /\ Top.at = "expr" /\ stk' = Below
      /\ g' = g \/ g' = AddInstruction(g, insert, Plain)
      /\ UNCHANGED <<insert, depth, preEnter, decls, stmts>>
  BY DEF EndExpression, At
<1>2. /\ GraphOK(g, insert, Owed(Below), Falses(Below)) /\ ~HasTerminator(g, insert)
      /\ Heads(Below) \subseteq g.bbs \ (Owed(Below) \cup {Entry})
  BY <1>1, BelowSame, OpenVisit DEF OpenAts
<1>3. GraphOK(g', insert', Owed(Below), Falses(Below)) /\ g'.bbs = g.bbs /\ ~HasTerminator(g', insert')
  BY <1>1, <1>2, PlainKeeps
<1>4. stmts' \in 0 .. MaxStmts
  BY <1>1 DEF IInv
<1> QED BY <1>1, <1>2, <1>3, <1>4, ReturnKeeps DEF Own

\* What is left below the frame of an if or of a loop that resumes.
LEMMA HeadsBelow ==
  ASSUME IInv, stk # << >>
  PROVE  Heads(Below) \subseteq g.bbs \ (Owed(stk) \cup {Entry})
BY InProgress, BelowOwes

\* The condition of an if is visited.
LEMMA SelectionStmtInv ==
  ASSUME IInv, NEW e \in BOOLEAN, VisitSelectionStmt(e)
  PROVE  IInv'
<1> DEFINE x == IfCond(e)
<1>1. Visit(<<x, Expr>>) /\ UNCHANGED <<g, insert, depth, preEnter, decls>>
  BY DEF VisitSelectionStmt
<1>2. /\ FrameOK(x) /\ Owes(x) = {} /\ Erases(x) = {} /\ HeadOf(x) = {}
      /\ x.at \in {"ifCond", "ifElseCond"}
  BY BareFrame DEF IfCond, FrameAt
<1> HIDE DEF x
<1>3. /\ stk # << >> /\ Top.at = "stmt" /\ stk' = Below \o <<x, Expr>>
      /\ stmts' \in 0 .. MaxStmts /\ ~HasTerminator(g, insert)
      /\ GraphOK(g, insert, Owed(Below), Falses(Below))
      /\ Heads(Below) \subseteq g.bbs \ (Owed(Below) \cup {Entry})
  BY <1>1, Visited
<1>4. x.at \notin {"fun", Own} /\ x.at \in Conds /\ Top.at \notin {"fun", "body", "expr", Own}
  BY <1>2, <1>3 DEF Conds, Own
<1>5. /\ GraphOK(g', insert', Owed(Below) \cup Owes(x), Falses(Below) \cup Erases(x))
      /\ Heads(Below) \cup HeadOf(x) \subseteq g'.bbs \ (Owed(Below) \cup Owes(x) \cup {Entry})
      /\ Owes(x) \cap Owed(Below) = {} /\ ~HasTerminator(g', insert')
  BY <1>1, <1>2, <1>3
<1> QED BY <1>1, <1>2, <1>3, <1>4, <1>5, EnterKeeps

\* The expression of a return is visited.
LEMMA ReturnValueInv ==
  ASSUME IInv, VisitReturnValue
  PROVE  IInv'
<1>1. Visit(<<Return, Expr>>) /\ UNCHANGED <<g, insert, depth, preEnter, decls>>
  BY DEF VisitReturnValue
<1>2. /\ FrameOK(Return) /\ Owes(Return) = {} /\ Erases(Return) = {} /\ HeadOf(Return) = {}
      /\ Return.at = "return"
  BY BareFrame DEF Return, FrameAt
<1>3. /\ stk # << >> /\ Top.at = "stmt" /\ stk' = Below \o <<Return, Expr>>
      /\ stmts' \in 0 .. MaxStmts /\ ~HasTerminator(g, insert)
      /\ GraphOK(g, insert, Owed(Below), Falses(Below))
      /\ Heads(Below) \subseteq g.bbs \ (Owed(Below) \cup {Entry})
  BY <1>1, Visited
<1>4. /\ Return.at \notin {"fun", Own} /\ Return.at \in Conds
      /\ Top.at \notin {"fun", "body", "expr", Own}
  BY <1>2, <1>3 DEF Conds, Own
<1>5. /\ GraphOK(g', insert', Owed(Below) \cup Owes(Return), Falses(Below) \cup Erases(Return))
      /\ Heads(Below) \cup HeadOf(Return)
           \subseteq g'.bbs \ (Owed(Below) \cup Owes(Return) \cup {Entry})
      /\ Owes(Return) \cap Owed(Below) = {} /\ ~HasTerminator(g', insert')
  BY <1>1, <1>2, <1>3
<1> QED BY <1>1, <1>2, <1>3, <1>4, <1>5, EnterKeeps

\* A return without expression.
LEMMA ReturnVoidInv ==
  ASSUME IInv, VisitReturnVoid
  PROVE  IInv'
<1>1. Visit(<< >>) /\ g' = CreateRet(g, insert) /\ UNCHANGED <<insert, depth, preEnter, decls>>
  BY DEF VisitReturnVoid
<1>2. /\ stk # << >> /\ Top.at = "stmt" /\ stk' = Below
      /\ stmts' \in 0 .. MaxStmts /\ ~HasTerminator(g, insert)
      /\ GraphOK(g, insert, Owed(Below), Falses(Below))
      /\ Heads(Below) \subseteq g.bbs \ (Owed(Below) \cup {Entry})
  BY <1>1, Visited
<1>3. GraphOK(g', insert', Owed(Below), Falses(Below)) /\ g'.bbs = g.bbs
  BY <1>1, <1>2, RetKeeps
<1> QED BY <1>1, <1>2, <1>3, ReturnKeeps DEF Own

\* A return of the expression that was visited.
LEMMA EndReturnInv ==
  ASSUME IInv, EndReturn
  PROVE  IInv'
<1>1. /\ stk # << >> /\ Top.at = "return" /\ stk' = Below /\ g' = CreateRet(g, insert)
      /\ UNCHANGED <<insert, depth, preEnter, decls, stmts>>
  BY DEF EndReturn, At
<1>2. /\ GraphOK(g, insert, Owed(Below), Falses(Below)) /\ ~HasTerminator(g, insert)
      /\ Heads(Below) \subseteq g.bbs \ (Owed(Below) \cup {Entry})
  BY <1>1, BelowSame, OpenVisit DEF OpenAts, Conds
<1>3. GraphOK(g', insert', Owed(Below), Falses(Below)) /\ g'.bbs = g.bbs
  BY <1>1, <1>2, RetKeeps
<1>4. stmts' \in 0 .. MaxStmts
  BY <1>1 DEF IInv
<1> QED BY <1>1, <1>2, <1>3, <1>4, ReturnKeeps DEF Own

\* The end of an if without else: its false block is erased.
LEMMA EndTrueNoElseInv ==
  ASSUME IInv, EndTrueNoElse
  PROVE  IInv'
<1> DEFINE f == Top.blocks[1]
           c == Top.blocks[2]
           b == BranchIfOpen(c)
           r == Erase(b, f)
           O == Owed(stk)
           F == Falses(stk)
<1>1. /\ stk # << >> /\ Top.at = "ifTrue" /\ stk' = Below /\ g' = r /\ insert' = c
      /\ UNCHANGED <<depth, preEnter, decls, stmts>>
  BY DEF EndTrueNoElse, At
<1>2. /\ GraphOK(g, insert, O, F) /\ O \subseteq g.bbs \ {insert, Entry}
      /\ f # c /\ c \notin F /\ f \in F /\ f \in O /\ c \in O
      /\ Owed(Below) = (O \ {f}) \ {c} /\ Falses(Below) = F \ {f}
      /\ Heads(Below) \subseteq g.bbs \ (O \cup {Entry})
  <2>1. /\ GraphOK(g, insert, O, F) /\ O \subseteq g.bbs \ {insert, Entry}
        /\ Owes(Top) = {f, c} /\ Erases(Top) = {f} /\ f # c /\ c \notin F /\ f \in F
        /\ Heads(Below) \subseteq g.bbs \ (O \cup {Entry})
    BY <1>1, InProgress, FrameBlocks, HeadsBelow
  <2>2. Owed(Below) = O \ Owes(Top) /\ Owes(Top) \subseteq O /\ Falses(Below) = F \ Erases(Top)
    BY <1>1, BelowOwes
  <2> HIDE DEF f, c, O, F
  <2> QED BY <2>1, <2>2
<1> HIDE DEF f, c, O, F
<1>3. GraphOK(b, insert, O, F) /\ b.bbs = g.bbs /\ HasTerminator(b, insert)
  BY <1>2, BranchIfOpenKeeps
<1> HIDE DEF b
<1>4. GraphOK(r, insert, O \ {f}, F \ {f}) /\ r.bbs = b.bbs \ {f} /\ r.code = b.code
  BY <1>2, <1>3, EraseKeeps
<1> HIDE DEF r
<1>5. HasTerminator(r, insert)
  BY <1>3, <1>4 DEF HasTerminator
<1>6. c \in O \ {f} /\ c \notin F \ {f} /\ F \ {f} \in SUBSET (F \ {f})
  BY <1>2
<1>7. GraphOK(r, c, (O \ {f}) \ {c}, F \ {f})
  BY <1>4, <1>5, <1>6, MoveKeeps
<1>8. GraphOK(g', insert', Owed(Below), Falses(Below))
  BY <1>1, <1>2, <1>7
<1>9. Heads(Below) \subseteq g'.bbs \ (Owed(Below) \cup {Entry})
  BY <1>1, <1>2, <1>3, <1>4
<1>10. stmts' \in 0 .. MaxStmts
  BY <1>1 DEF IInv
<1> QED BY <1>1, <1>8, <1>9, <1>10, ReturnKeeps DEF Own

\* The end of the false branch of an if.
LEMMA EndFalseInv ==
  ASSUME IInv, EndFalse
  PROVE  IInv'
<1> DEFINE c == Top.blocks[1]
           b == BranchIfOpen(c)
           O == Owed(stk)
           F == Falses(stk)
<1>1. /\ stk # << >> /\ Top.at = "ifFalse" /\ stk' = Below /\ g' = b /\ insert' = c
      /\ UNCHANGED <<depth, preEnter, decls, stmts>>
  BY DEF EndFalse, At
<1>2. /\ GraphOK(g, insert, O, F) /\ O \subseteq g.bbs \ {insert, Entry}
      /\ c \notin F /\ c \in O
      /\ Owed(Below) = O \ {c} /\ Falses(Below) = F
      /\ Heads(Below) \subseteq g.bbs \ (O \cup {Entry})
  <2>1. /\ GraphOK(g, insert, O, F) /\ O \subseteq g.bbs \ {insert, Entry}
        /\ Owes(Top) = {c} /\ Erases(Top) = {} /\ F \cap Owes(Top) = {}
        /\ Heads(Below) \subseteq g.bbs \ (O \cup {Entry})
    BY <1>1, InProgress, FrameBlocks, HeadsBelow
  <2>2. Owed(Below) = O \ Owes(Top) /\ Owes(Top) \subseteq O /\ Falses(Below) = F \ Erases(Top)
    BY <1>1, BelowOwes
  <2> HIDE DEF c, O, F
  <2> QED BY <2>1, <2>2
<1> HIDE DEF c, O, F
<1>3. GraphOK(b, insert, O, F) /\ b.bbs = g.bbs /\ HasTerminator(b, insert)
  BY <1>2, BranchIfOpenKeeps
<1> HIDE DEF b
<1>4. F \in SUBSET F
  OBVIOUS
<1>5. GraphOK(b, c, O \ {c}, F)
  BY <1>2, <1>3, <1>4, MoveKeeps
<1>6. GraphOK(g', insert', Owed(Below), Falses(Below))
  BY <1>1, <1>2, <1>5
<1>7. Heads(Below) \subseteq g'.bbs \ (Owed(Below) \cup {Entry})
  BY <1>1, <1>2, <1>3
<1>8. stmts' \in 0 .. MaxStmts
  BY <1>1 DEF IInv
<1> QED BY <1>1, <1>6, <1>7, <1>8, ReturnKeeps DEF Own

\* The end of the body of a loop: back to the condition.
LEMMA EndIterationBodyInv ==
  ASSUME IInv, EndIterationBody
  PROVE  IInv'
<1> DEFINE head == Top.blocks[1]
           c == Top.blocks[2]
           b == BranchIfOpen(head)
           O == Owed(stk)
           F == Falses(stk)
<1>1. /\ stk # << >> /\ Top.at = "whileBody" /\ stk' = Below /\ g' = b /\ insert' = c
      /\ UNCHANGED <<depth, preEnter, decls, stmts>>
  BY DEF EndIterationBody, At
<1>2. /\ GraphOK(g, insert, O, F) /\ O \subseteq g.bbs \ {insert, Entry} /\ F \subseteq O
      /\ c \notin F /\ c \in O /\ head \in g.bbs \ (O \cup {Entry})
      /\ Owed(Below) = O \ {c} /\ Falses(Below) = F
      /\ Heads(Below) \subseteq g.bbs \ (O \cup {Entry})
  <2>1. /\ GraphOK(g, insert, O, F) /\ O \subseteq g.bbs \ {insert, Entry}
        /\ Owes(Top) = {c} /\ Erases(Top) = {} /\ F \cap Owes(Top) = {} /\ HeadOf(Top) = {head}
        /\ Heads(Below) \subseteq g.bbs \ (O \cup {Entry})
        /\ Heads(stk) \subseteq g.bbs \ (O \cup {Entry})
    BY <1>1, InProgress, FrameBlocks, HeadsBelow
  <2>2. /\ Owed(Below) = O \ Owes(Top) /\ Owes(Top) \subseteq O /\ Falses(Below) = F \ Erases(Top)
        /\ HeadOf(Top) \subseteq Heads(stk) /\ F \subseteq O
    BY <1>1, BelowOwes
  <2> HIDE DEF head, c, O, F
  <2> QED BY <2>1, <2>2
<1> HIDE DEF head, c, O, F
<1>3. GraphOK(b, insert, O, F) /\ b.bbs = g.bbs /\ HasTerminator(b, insert)
  BY <1>2, BranchIfOpenKeeps
<1> HIDE DEF b
<1>4. F \in SUBSET F
  OBVIOUS
<1>5. GraphOK(b, c, O \ {c}, F)
  BY <1>2, <1>3, <1>4, MoveKeeps
<1>6. GraphOK(g', insert', Owed(Below), Falses(Below))
  BY <1>1, <1>2, <1>5
<1>7. Heads(Below) \subseteq g'.bbs \ (Owed(Below) \cup {Entry})
  BY <1>1, <1>2, <1>3
<1>8. stmts' \in 0 .. MaxStmts
  BY <1>1 DEF IInv
<1> QED BY <1>1, <1>6, <1>7, <1>8, ReturnKeeps DEF Own

\* The end of the true branch of an if with else: on to the false block.
LEMMA EndTrueWithElseInv ==
  ASSUME IInv, EndTrueWithElse
  PROVE  IInv'
<1> DEFINE f == Top.blocks[1]
           c == Top.blocks[2]
           b == BranchIfOpen(c)
           x == AfterFalse(c)
           O == Owed(stk)
           F == Falses(stk)
<1>1. /\ stk # << >> /\ Top.at = "ifElseTrue" /\ stk' = Below \o <<x, Stmt>>
      /\ g' = b /\ insert' = f /\ UNCHANGED <<depth, preEnter, decls, stmts>>
  BY DEF EndTrueWithElse, At
<1>2. /\ GraphOK(g, insert, O, F) /\ O \subseteq g.bbs \ {insert, Entry}
      /\ f # c /\ c \notin F /\ f \notin F /\ f \in O /\ c \in O /\ c \in Block
      /\ Owed(Below) = (O \ {f}) \ {c} /\ Falses(Below) = F
      /\ Heads(Below) \subseteq g.bbs \ (O \cup {Entry})
  <2>1. /\ GraphOK(g, insert, O, F) /\ O \subseteq g.bbs \ {insert, Entry}
        /\ Owes(Top) = {f, c} /\ Erases(Top) = {} /\ f # c /\ F \cap Owes(Top) = {}
        /\ Heads(Below) \subseteq g.bbs \ (O \cup {Entry}) /\ c \in Block
    BY <1>1, InProgress, FrameBlocks, HeadsBelow
  <2>2. Owed(Below) = O \ Owes(Top) /\ Owes(Top) \subseteq O /\ Falses(Below) = F \ Erases(Top)
    BY <1>1, BelowOwes
  <2> HIDE DEF f, c, O, F
  <2> QED BY <2>1, <2>2
<1> HIDE DEF f, c, O, F
<1>3. GraphOK(b, insert, O, F) /\ b.bbs = g.bbs /\ HasTerminator(b, insert)
  BY <1>2, BranchIfOpenKeeps
<1> HIDE DEF b
<1>4. F \in SUBSET F
  OBVIOUS
<1>5. GraphOK(b, f, O \ {f}, F) /\ ~HasTerminator(b, f)
  BY <1>2, <1>3, <1>4, MoveKeeps
<1>6. /\ x.at = "ifFalse" /\ FrameOK(x)
      /\ Owes(x) = {c} /\ Erases(x) = {} /\ HeadOf(x) = {}
  <2>1. <<c>> \in Seq(Block) /\ Len(<<c>>) = 1 /\ <<c>>[1] = c
    BY <1>2
  <2>2. x.at = "ifFalse" /\ x.blocks = <<c>> /\ x \in Frame
    BY <2>1 DEF AfterFalse, Frame, FrameAt
  <2> HIDE DEF x
  <2> QED BY <2>1, <2>2 DEF FrameOK, Owes, Erases, HeadOf
<1> HIDE DEF x
<1>7. Owed(Below) \cup Owes(x) = O \ {f} /\ Falses(Below) \cup Erases(x) = F
  BY <1>2, <1>6
<1>8. GraphOK(g', insert', Owed(Below) \cup Owes(x), Falses(Below) \cup Erases(x))
  BY <1>1, <1>5, <1>7
<1>9. /\ Heads(Below) \cup HeadOf(x) \subseteq g'.bbs \ (Owed(Below) \cup Owes(x) \cup {Entry})
      /\ Owes(x) \cap Owed(Below) = {} /\ ~HasTerminator(g', insert')
  BY <1>1, <1>2, <1>3, <1>5, <1>6
<1>10. /\ x.at \notin {"fun", Own} /\ x.at \in Resumes
       /\ Top.at \notin {"fun", "body", "expr", Own} /\ stmts' \in 0 .. MaxStmts
  BY <1>1, <1>6 DEF Resumes, Own, IInv
<1> QED BY <1>1, <1>6, <1>8, <1>9, <1>10, EnterKeeps

\* The frame of an if whose true branch is entered.
LEMMA AfterTrueFrame ==
  ASSUME NEW e \in BOOLEAN, NEW f \in Block, NEW c \in Block, f # c
  PROVE  LET x == AfterTrue(e, f, c)
         IN  /\ FrameOK(x) /\ x.at \in Resumes /\ x.at \notin {"fun", Own}
             /\ Owes(x) = {f, c} /\ HeadOf(x) = {}
             /\ Erases(x) = IF e THEN {} ELSE {f}
<1> DEFINE x == AfterTrue(e, f, c)
<1>1. <<f, c>> \in Seq(Block) /\ Len(<<f, c>>) = 2 /\ <<f, c>>[1] = f /\ <<f, c>>[2] = c
  OBVIOUS
<1>2. /\ x.at = IF e THEN "ifElseTrue" ELSE "ifTrue"
      /\ x.blocks = <<f, c>> /\ x \in Frame
  BY <1>1 DEF AfterTrue, Frame, FrameAt
<1> HIDE DEF x
<1>3. FrameOK(x)
  BY <1>1, <1>2 DEF FrameOK
<1>4. Owes(x) = {f, c} /\ HeadOf(x) = {}
  BY <1>1, <1>2 DEF Owes, HeadOf
<1>5. Erases(x) = IF e THEN {} ELSE {f}
  BY <1>1, <1>2 DEF Erases
<1>6. x.at \in Resumes /\ x.at \notin {"fun", Own}
  BY <1>2 DEF Resumes, Own
<1> QED BY <1>3, <1>4, <1>5, <1>6 DEF x

\* The branch of an if, to its three new blocks.
LEMMA SelectionBranchInv ==
  ASSUME IInv, NEW e \in BOOLEAN, SelectionBranch(e)
  PROVE  IInv'
<1> DEFINE t == g.n + 1
           f == g.n + 2
           c == g.n + 3
           other == IF e THEN f ELSE c
           r == Split(g, 3, insert, t, other)
           x == AfterTrue(e, f, c)
           O == Owed(Below)
           F == Falses(Below)
           left == O \cup {f, c}
           drop == F \cup (IF e THEN {} ELSE {f})
           all == g.bbs \cup {t, f, c}
<1>1. /\ stk # << >> /\ Top.at \in {"ifCond", "ifElseCond"} /\ g.n + 3 <= MaxBlocks
      /\ g' = r /\ insert' = t /\ stk' = Below \o <<x, Stmt>>
      /\ UNCHANGED <<depth, preEnter, decls, stmts>>
  BY DEF SelectionBranch, At, Room, Split, IfCond
<1>2. /\ GraphOK(g, insert, O, F) /\ ~HasTerminator(g, insert)
      /\ Heads(Below) \subseteq g.bbs \ (O \cup {Entry})
  BY <1>1, BelowSame, OpenVisit DEF OpenAts, Conds
<1>3. /\ t # f /\ t # c /\ f # c /\ g.n + 1 .. g.n + 3 = {t, f, c} /\ f \in Block /\ c \in Block
      /\ t \notin g.bbs /\ f \notin g.bbs /\ c \notin g.bbs
      /\ O \subseteq g.bbs /\ F \subseteq O /\ Entry \in g.bbs
  <2>1. /\ g.n \in Nat /\ O \subseteq g.bbs /\ F \subseteq O /\ Entry \in g.bbs
        /\ \A k \in Nat : g.n + 1 + k \notin g.bbs
        /\ \A k \in Nat : g.n + 1 + k <= MaxBlocks => g.n + 1 + k \in Block
    BY <1>2, NewBlocks
  <2> HIDE DEF O, F
  <2>2. g.n + 1 + 0 \notin g.bbs /\ g.n + 1 + 1 \notin g.bbs /\ g.n + 1 + 2 \notin g.bbs
    BY <2>1
  <2>3. g.n + 1 + 1 \in Block /\ g.n + 1 + 2 \in Block
    <3>1. g.n + 1 + 1 <= MaxBlocks /\ g.n + 1 + 2 <= MaxBlocks
      <4>1. g.n \in Nat /\ g.n + 3 <= MaxBlocks
        BY <1>1, <2>1
      <4> QED BY <4>1, MaxBlocksAssumption
    <3> QED BY <2>1, <3>1
  <2> QED BY <2>1, <2>2, <2>3
<1> HIDE DEF O, F
<1>4. CanSplit(g, 3, t, other, O, F, left, drop, all)
  <2> HIDE DEF t, f, c
  <2> QED BY <1>1, <1>3 DEF CanSplit, t
<1>5. /\ FrameOK(x) /\ x.at \in Resumes /\ x.at \notin {"fun", Own}
      /\ Owes(x) = {f, c} /\ HeadOf(x) = {}
      /\ Erases(x) = IF e THEN {} ELSE {f}
  <2> HIDE DEF f, c
  <2> QED BY <1>3, AfterTrueFrame
<1> HIDE DEF t, f, c, other, left, drop, all, x
<1>6. GraphOK(r, t, left, drop) /\ ~HasTerminator(r, t) /\ r.bbs = all
  BY <1>2, <1>4, SplitKeeps
<1> HIDE DEF r
<1>7. O \cup Owes(x) = left /\ F \cup Erases(x) = drop
  BY <1>5 DEF left, drop
<1>8. GraphOK(g', insert', O \cup Owes(x), F \cup Erases(x))
  BY <1>1, <1>6, <1>7
<1>9. /\ Heads(Below) \cup HeadOf(x) \subseteq g'.bbs \ (O \cup Owes(x) \cup {Entry})
      /\ Owes(x) \cap O = {} /\ ~HasTerminator(g', insert')
  BY <1>1, <1>2, <1>3, <1>5, <1>6 DEF all
<1>10. Top.at \notin {"fun", "body", "expr", Own} /\ stmts' \in 0 .. MaxStmts
  BY <1>1 DEF Own, IInv
<1> QED BY <1>1, <1>5, <1>8, <1>9, <1>10, EnterKeeps DEF O, F

\* A loop is entered through the block of its condition.
LEMMA IterationStmtInv ==
  ASSUME IInv, VisitIterationStmt
  PROVE  IInv'
<1> DEFINE head == g.n + 1
           new == CreateBlocks(g, 1)
           r == CreateBr(new, insert, head)
           x == WhileCond(head)
           O == Owed(Below)
           F == Falses(Below)
           more == g.n + 1 .. g.n + 1
           none == {}
<1>1. /\ Visit(<<x, Expr>>) /\ g.n + 3 <= MaxBlocks
      /\ g' = IF HasTerminator(g, insert) THEN new ELSE r
      /\ insert' = head /\ UNCHANGED <<depth, preEnter, decls>>
  BY DEF VisitIterationStmt, Room
<1>2. /\ stk # << >> /\ Top.at = "stmt" /\ stk' = Below \o <<x, Expr>>
      /\ stmts' \in 0 .. MaxStmts /\ ~HasTerminator(g, insert)
      /\ GraphOK(g, insert, O, F) /\ Heads(Below) \subseteq g.bbs \ (O \cup {Entry})
  BY <1>1, Visited
<1>3. /\ g.n \in Nat /\ more = {head} /\ g.n + 1 <= MaxBlocks /\ head \in Block
      /\ head \notin g.bbs /\ O \subseteq g.bbs /\ F \subseteq O /\ Entry \in g.bbs
  <2>1. /\ g.n \in Nat /\ O \subseteq g.bbs /\ F \subseteq O /\ Entry \in g.bbs
        /\ \A k \in Nat : g.n + 1 + k \notin g.bbs
        /\ \A k \in Nat : g.n + 1 + k <= MaxBlocks => g.n + 1 + k \in Block
    BY <1>2, NewBlocks
  <2> HIDE DEF O, F
  <2>2. g.n + 1 <= MaxBlocks
    <3>1. g.n \in Nat /\ g.n + 3 <= MaxBlocks
      BY <1>1, <2>1
    <3> QED BY <3>1, MaxBlocksAssumption
  <2>3. g.n + 1 + 0 \notin g.bbs /\ g.n + 1 + 0 \in Block
    BY <2>1, <2>2
  <2> QED BY <2>1, <2>2, <2>3
<1>4. /\ x.at = "whileCond" /\ FrameOK(x)
      /\ Owes(x) = {} /\ Erases(x) = {} /\ HeadOf(x) = {head}
  <2> HIDE DEF head
  <2>1. <<head>> \in Seq(Block) /\ Len(<<head>>) = 1 /\ <<head>>[1] = head
    BY <1>3
  <2>2. x.at = "whileCond" /\ x.blocks = <<head>> /\ x \in Frame
    BY <2>1 DEF WhileCond, Frame, FrameAt
  <2> HIDE DEF x
  <2> QED BY <2>1, <2>2 DEF FrameOK, Owes, Erases, HeadOf
<1> HIDE DEF x, O, F
<1>5. /\ GraphOK(new, insert, O \cup {head}, F) /\ new.bbs = g.bbs \cup {head}
      /\ new.code = g.code
  <2>1. none \in SUBSET more /\ F \cup none = F
    OBVIOUS
  <2> HIDE DEF none
  <2>2. /\ GraphOK(new, insert, O \cup more, F \cup none) /\ new.bbs = g.bbs \cup more
        /\ new.code = g.code
    BY <1>2, <1>3, <2>1, CreateKeeps
  <2> HIDE DEF new, head, more
  <2> QED BY <1>3, <2>1, <2>2
<1> HIDE DEF new, head, more
<1>6. ~HasTerminator(new, insert)
  BY <1>2, <1>5 DEF HasTerminator
<1>7. head \in new.bbs \ (F \cup {Entry})
  BY <1>3, <1>5
<1>8. /\ GraphOK(r, insert, O \cup {head}, F) /\ r.bbs = new.bbs /\ HasTerminator(r, insert)
  BY <1>5, <1>6, <1>7, BrKeeps
<1> HIDE DEF r
<1>9. (O \cup {head}) \ {head} = O /\ head \in O \cup {head} /\ head \notin F /\ F \in SUBSET F
  BY <1>3
<1>10. GraphOK(r, head, (O \cup {head}) \ {head}, F) /\ ~HasTerminator(r, head)
  BY <1>8, <1>9, MoveKeeps
<1>11. g' = r /\ insert' = head
  BY <1>1, <1>2
<1>12. O \cup Owes(x) = O /\ F \cup Erases(x) = F
  BY <1>4
<1>13. GraphOK(g', insert', O \cup Owes(x), F \cup Erases(x)) /\ ~HasTerminator(g', insert')
  BY <1>9, <1>10, <1>11, <1>12
<1>14. /\ Heads(Below) \cup HeadOf(x) \subseteq g'.bbs \ (O \cup Owes(x) \cup {Entry})
       /\ Owes(x) \cap O = {}
  BY <1>2, <1>3, <1>4, <1>5, <1>8, <1>11
<1>15. /\ x.at \notin {"fun", Own} /\ x.at \in Conds /\ Top.at \notin {"fun", "body", "expr", Own}
  BY <1>2, <1>4 DEF Conds, Own
<1> QED BY <1>1, <1>2, <1>4, <1>13, <1>14, <1>15, EnterKeeps DEF O, F

\* The branch of a loop, to its body and past it.
LEMMA IterationBranchInv ==
  ASSUME IInv, IterationBranch
  PROVE  IInv'
<1> DEFINE t == g.n + 1
           c == g.n + 2
           head == Top.blocks[1]
           r == Split(g, 2, insert, t, c)
           x == AfterBody(head, c)
           O == Owed(Below)
           F == Falses(Below)
           left == O \cup {c}
           all == g.bbs \cup {t, c}
<1>1. /\ stk # << >> /\ Top.at = "whileCond" /\ g.n + 2 <= MaxBlocks
      /\ g' = r /\ insert' = t /\ stk' = Below \o <<x, Stmt>>
      /\ UNCHANGED <<depth, preEnter, decls, stmts>>
  BY DEF IterationBranch, At, Room, Split
<1>2. /\ GraphOK(g, insert, O, F) /\ ~HasTerminator(g, insert)
      /\ Heads(Below) \subseteq g.bbs \ (O \cup {Entry})
      /\ head \in g.bbs \ (O \cup {Entry}) /\ head \in Block
  <2>1. /\ GraphOK(g, insert, O, F) /\ ~HasTerminator(g, insert) /\ O = Owed(stk)
        /\ Heads(Below) \subseteq g.bbs \ (O \cup {Entry})
    BY <1>1, BelowSame, OpenVisit DEF OpenAts, Conds
  <2>2. HeadOf(Top) = {head} /\ head \in Block /\ HeadOf(Top) \subseteq Heads(stk)
    BY <1>1, FrameBlocks, BelowOwes
  <2>3. Heads(stk) \subseteq g.bbs \ (Owed(stk) \cup {Entry})
    BY <1>1, InProgress
  <2> HIDE DEF head, O, F
  <2> QED BY <2>1, <2>2, <2>3
<1> HIDE DEF head
<1>3. /\ t # c /\ g.n + 1 .. g.n + 2 = {t, c} /\ c \in Block
      /\ t \notin g.bbs /\ c \notin g.bbs /\ O \subseteq g.bbs /\ F \subseteq O /\ Entry \in g.bbs
  <2>1. /\ g.n \in Nat /\ O \subseteq g.bbs /\ F \subseteq O /\ Entry \in g.bbs
        /\ \A k \in Nat : g.n + 1 + k \notin g.bbs
        /\ \A k \in Nat : g.n + 1 + k <= MaxBlocks => g.n + 1 + k \in Block
    BY <1>2, NewBlocks
  <2> HIDE DEF O, F
  <2>2. g.n + 1 + 0 \notin g.bbs /\ g.n + 1 + 1 \notin g.bbs
    BY <2>1
  <2>3. g.n + 1 + 1 \in Block
    <3>1. g.n + 1 + 1 <= MaxBlocks
      <4>1. g.n \in Nat /\ g.n + 2 <= MaxBlocks
        BY <1>1, <2>1
      <4> QED BY <4>1, MaxBlocksAssumption
    <3> QED BY <2>1, <3>1
  <2> QED BY <2>1, <2>2, <2>3
<1> HIDE DEF O, F
<1>4. CanSplit(g, 2, t, c, O, F, left, F, all)
  <2> HIDE DEF t, c
  <2> QED BY <1>1, <1>3 DEF CanSplit, t
<1>5. /\ x.at = "whileBody" /\ FrameOK(x)
      /\ Owes(x) = {c} /\ Erases(x) = {} /\ HeadOf(x) = {head}
  <2> HIDE DEF c
  <2>1. <<head, c>> \in Seq(Block) /\ Len(<<head, c>>) = 2 /\ <<head, c>>[1] = head /\ <<head, c>>[2] = c
    BY <1>2, <1>3
  <2>2. x.at = "whileBody" /\ x.blocks = <<head, c>> /\ x \in Frame
    BY <2>1 DEF AfterBody, Frame, FrameAt
  <2> HIDE DEF x
  <2> QED BY <2>1, <2>2 DEF FrameOK, Owes, Erases, HeadOf
<1> HIDE DEF t, c, left, all, x
<1>6. GraphOK(r, t, left, F) /\ ~HasTerminator(r, t) /\ r.bbs = all
  BY <1>2, <1>4, SplitKeeps
<1> HIDE DEF r
<1>7. O \cup Owes(x) = left /\ F \cup Erases(x) = F
  BY <1>5 DEF left
<1>8. GraphOK(g', insert', O \cup Owes(x), F \cup Erases(x))
  BY <1>1, <1>6, <1>7
<1>9. /\ Heads(Below) \cup HeadOf(x) \subseteq g'.bbs \ (O \cup Owes(x) \cup {Entry})
      /\ Owes(x) \cap O = {} /\ ~HasTerminator(g', insert')
  BY <1>1, <1>2, <1>3, <1>5, <1>6 DEF all
<1>10. /\ x.at \notin {"fun", Own} /\ x.at \in Resumes
       /\ Top.at \notin {"fun", "body", "expr", Own} /\ stmts' \in 0 .. MaxStmts
  BY <1>1, <1>5 DEF Resumes, Own, IInv
<1> QED BY <1>1, <1>5, <1>8, <1>9, <1>10, EnterKeeps DEF O, F

-----------------------------------------------------------------------------
(* The theorems.                                                           *)

\* Every step keeps the invariant.
LEMMA NextInv == IInv /\ [Next]_vars => IInv'
<1> SUFFICES ASSUME IInv, [Next]_vars PROVE IInv'
  OBVIOUS
<1>1. CASE VisitGlobalVarDeclaration
  BY <1>1, GlobalVarInv
<1>2. ASSUME NEW params \in BOOLEAN, VisitFunDeclaration(params) PROVE IInv'
  BY <1>2, FunDeclarationInv
<1>3. CASE EndFunDeclaration
  BY <1>3, EndFunInv
<1>4. CASE VisitBody
  <2>1. stk # << >> /\ Top.at = "body" /\ EnterCompound(Below) /\ stmts' \in 0 .. MaxStmts
    BY <1>4 DEF VisitBody, At, IInv
  <2> QED BY <2>1, EnterCompoundInv
<1>5. CASE VisitCompoundStmt
  <2>1. stk # << >> /\ Top.at = "stmt" /\ EnterCompound(Below)
    BY <1>5 DEF VisitCompoundStmt, At
  <2>2. stmts' \in 0 .. MaxStmts
    BY <1>5, BoundAssumption DEF VisitCompoundStmt, IInv
  <2> QED BY <2>1, <2>2, EnterCompoundInv
<1>6. CASE NextStatement
  BY <1>6, NextStatementInv
<1>7. CASE EndCompoundStmt
  BY <1>7, EndCompoundInv
<1>8. CASE VisitExpressionStmt
  BY <1>8, ExpressionStmtInv
<1>9. CASE VisitIndexedVar
  BY <1>9, IndexedVarInv
<1>10. CASE EndExpression
  BY <1>10, EndExpressionInv
<1>11. ASSUME NEW e \in BOOLEAN, VisitSelectionStmt(e) PROVE IInv'
  BY <1>11, SelectionStmtInv
<1>12. ASSUME NEW e \in BOOLEAN, SelectionBranch(e) PROVE IInv'
  BY <1>12, SelectionBranchInv
<1>13. CASE EndTrueNoElse
  BY <1>13, EndTrueNoElseInv
<1>14. CASE EndTrueWithElse
  BY <1>14, EndTrueWithElseInv
<1>15. CASE EndFalse
  BY <1>15, EndFalseInv
<1>16. CASE VisitIterationStmt
  BY <1>16, IterationStmtInv
<1>17. CASE IterationBranch
  BY <1>17, IterationBranchInv
<1>18. CASE EndIterationBody
  BY <1>18, EndIterationBodyInv
<1>19. CASE VisitReturnVoid
  BY <1>19, ReturnVoidInv
<1>20. CASE VisitReturnValue
  BY <1>20, ReturnValueInv
<1>21. CASE EndReturn
  BY <1>21, EndReturnInv
<1>22. CASE UNCHANGED vars
  BY <1>22 DEF vars, IInv, At, Top
<1> QED BY <1>1, <1>2, <1>3, <1>4, <1>5, <1>6, <1>7, <1>8, <1>9, <1>10, <1>11, <1>12, <1>13,
           <1>14, <1>15, <1>16, <1>17, <1>18, <1>19, <1>20, <1>21, <1>22 DEF Next

\* The graph, the frames and the invariant are in order in every reachable
\* state, for programs, functions and nesting of any size.
THEOREM InductiveInvariant == Spec => []IInv
<1> QED BY InitInv, NextInv, PTL DEF Spec

\* What the invariant says of the graph, whether or not there is one.
LEMMA GraphInOrder ==
  ASSUME IInv
  PROVE  /\ g \in Graph
         /\ \A b \in Block : \A i \in 1 .. Len(g.code[b]) - 1 : ~IsTerminator(g.code[b][i])
         /\ g.bbs # {} => GraphOK(g, insert, Owed(stk), Falses(stk))
<1>1. CASE g.bbs = {}
  <2>1. g = NoBlocks
    BY <1>1 DEF IInv
  <2>2. NoBlocks \in Graph
    BY MaxBlocksAssumption DEF NoBlocks, Graph
  <2>3. \A b \in Block : NoBlocks.code[b] = << >>
    BY DEF NoBlocks
  <2> QED BY <1>1, <2>1, <2>2, <2>3
<1>2. CASE g.bbs # {}
  <2>1. GraphOK(g, insert, Owed(stk), Falses(stk))
    BY <1>2 DEF IInv
  <2> QED BY <2>1 DEF GraphOK
<1> QED BY <1>1, <1>2

\* Every variable of the visitor keeps to its type: the lists of the graph
\* only name blocks there are, and a frame only keeps such blocks.
THEOREM TypeCorrect == Spec => []TypeOK
<1>1. ASSUME IInv PROVE TypeOK
  <2>1. g \in Graph /\ stk \in Seq(Frame)
    BY <1>1, GraphInOrder DEF IInv, StackOK
  <2>2. depth \in Nat
    <3>1. Cardinality(Opened(stk)) \in Nat
      <4>1. CASE stk = << >>
        BY <4>1, NoFrames
      <4>2. CASE stk # << >>
        BY <2>1, <4>2, PopScopes
      <4> QED BY <4>1, <4>2
    <3>2. depth = 1 + Cardinality(Opened(stk))
      BY <1>1 DEF IInv
    <3> QED BY <3>1, <3>2
  <2> QED BY <1>1, <2>1, <2>2 DEF IInv, TypeOK
<1> QED BY <1>1, InductiveInvariant, PTL

\* The scope stack is as deep as the compounds in progress, and the flag
\* pre_enter_scope is set exactly when the body of a function is next.
THEOREM ScopesStayBalanced == Spec => []ScopesBalanced
<1>1. ASSUME IInv PROVE ScopesBalanced
  <2>1. OpenScopes = Opened(stk)
    BY DEF OpenScopes, Opened
  <2> QED BY <1>1, <2>1 DEF IInv, ScopesBalanced
<1> QED BY <1>1, InductiveInvariant, PTL

\* No block ever has code after its terminator, whatever statements follow a
\* return.
THEOREM NothingAfterTerminator == Spec => []TerminatorIsLast
<1>1. ASSUME IInv PROVE TerminatorIsLast
  <2>1. g.bbs \subseteq Block
    BY <1>1, GraphInOrder DEF Graph
  <2> QED BY <1>1, <2>1, GraphInOrder DEF TerminatorIsLast
<1> QED BY <1>1, InductiveInvariant, PTL

\* No branch ever leads back to the entry block of a function.
THEOREM EntryStaysFirst == Spec => []EntryHasNoPred
<1>1. ASSUME IInv PROVE EntryHasNoPred
  <2>1. CASE g.bbs = {}
    <3>1. g = NoBlocks /\ Entry \in Block
      BY <1>1, <2>1, MaxBlocksAssumption DEF IInv, Entry, Block
    <3>2. \A b \in Block : NoBlocks.pre[b] = << >>
      BY DEF NoBlocks
    <3> QED BY <3>1, <3>2 DEF EntryHasNoPred
  <2>2. CASE g.bbs # {}
    <3>1. GraphOK(g, insert, Owed(stk), Falses(stk))
      BY <1>1, <2>2, GraphInOrder
    <3> QED BY <3>1 DEF GraphOK, EntryHasNoPred
  <2> QED BY <2>1, <2>2
<1> QED BY <1>1, InductiveInvariant, PTL

\* When a function has been visited, every block of it ends in a return or in
\* a branch to blocks that the function still has: no block is left open and
\* no branch leads to the erased false block of an if.
THEOREM FunctionsAreComplete == Spec => []FunctionComplete
<1>1. ASSUME IInv PROVE FunctionComplete
  <2> SUFFICES ASSUME stk = << >>, g.bbs # {}, NEW b \in g.bbs
               PROVE  HasTerminator(g, b) /\ Elems(TargetsOf(b)) \subseteq g.bbs
    BY DEF FunctionComplete, Finished
  <2>1. GraphOK(g, insert, Owed(stk), Falses(stk)) /\ Owed(stk) = {} /\ HasTerminator(g, insert)
    BY <1>1, GraphInOrder, NoFrames DEF IInv
  <2>2. HasTerminator(g, b)
    BY <2>1 DEF GraphOK
  <2>3. /\ b \in Block /\ g.code[b] \in Seq(Instr) /\ g.code[b] # << >>
        /\ Len(g.code[b]) \in 1 .. Len(g.code[b])
    BY <2>1, <2>2 DEF GraphOK, Graph, HasTerminator
  <2> DEFINE to == g.code[b][Len(g.code[b])].to
  <2>4. \A k \in 1 .. Len(to) : to[k] \in g.bbs
    BY <2>1, <2>3 DEF GraphOK
  <2>5. to \in Seq(Block)
    <3>1. g.code[b][Len(g.code[b])] \in Instr
      BY <2>3
    <3> QED BY <3>1 DEF Instr
  <2>6. TargetsOf(b) = [i \in 1 .. Len(to) |-> to[Len(to) + 1 - i]]
    BY <2>2 DEF TargetsOf
  <2> HIDE DEF to
  <2>7. \A i \in 1 .. Len(to) : to[Len(to) + 1 - i] \in g.bbs
    <3>1. ASSUME NEW i \in 1 .. Len(to) PROVE Len(to) + 1 - i \in 1 .. Len(to)
      BY <2>5
    <3> QED BY <2>4, <3>1
  <2>8. Elems(TargetsOf(b)) \subseteq g.bbs
    BY <2>6, <2>7 DEF Elems
  <2> QED BY <2>2, <2>8
<1> QED BY <1>1, InductiveInvariant, PTL

-----------------------------------------------------------------------------
(* The edges.                                                              *)

\* The successors the terminator of b names in h.
Targets(h, b) ==
  IF ~HasTerminator(h, b) THEN << >>
  ELSE LET to == h.code[b][Len(h.code[b])].to
       IN  [i \in 1 .. Len(to) |-> to[Len(to) + 1 - i]]

\* a is in the list p has for c; no list of p has a block twice.
Listed(p, c, a) == \E i \in 1 .. Len(p[c]) : p[c][i] = a
Once(p) == \A c \in Block : \A i, j \in 1 .. Len(p[c]) : p[c][i] = p[c][j] => i = j

\* The lists of h agree with each other, and with the branches.
EdgesOK(h) ==
  /\ h \in Graph /\ Once(h.pre)
  /\ \A a, c \in Block : Listed(h.pre, c, a) <=> c \in Elems(h.succ[a])
  /\ \A b \in Block : h.succ[b] = Targets(h, b)

\* What an instruction more changes: the last instruction of its block.
LEMMA AddIs ==
  ASSUME NEW h \in Graph, NEW b \in Block, NEW x \in Instr
  PROVE  LET r == AddInstruction(h, b, x)
         IN  /\ r \in Graph /\ r.pre = h.pre /\ r.succ = h.succ /\ r.bbs = h.bbs /\ r.n = h.n
             /\ \A c \in Block : c # b => r.code[c] = h.code[c]
             /\ r.code[b] # << >> /\ r.code[b][Len(r.code[b])] = x
<1>1. h.code \in [Block -> Seq(Instr)]
  BY DEF Graph
<1>2. CASE x = Plain /\ h.code[b] # << >> /\ h.code[b][Len(h.code[b])] = Plain
  BY <1>2 DEF AddInstruction
<1>3. CASE ~(x = Plain /\ h.code[b] # << >> /\ h.code[b][Len(h.code[b])] = Plain)
  <2> DEFINE r == [h EXCEPT !.code[b] = Append(@, x)]
  <2>1. AddInstruction(h, b, x) = r
    BY <1>3 DEF AddInstruction
  <2>2. Append(h.code[b], x) \in Seq(Instr)
    BY <1>1
  <2>3. /\ r \in Graph /\ r.pre = h.pre /\ r.succ = h.succ /\ r.bbs = h.bbs /\ r.n = h.n
        /\ r.code[b] = Append(h.code[b], x) /\ \A c \in Block : c # b => r.code[c] = h.code[c]
    BY <1>1, <2>2 DEF Graph
  <2>4. r.code[b] # << >> /\ r.code[b][Len(r.code[b])] = x
    <3> DEFINE u == h.code[b]
    <3>1. u \in Seq(Instr) /\ r.code[b] = Append(u, x)
      BY <1>1, <2>3
    <3> HIDE DEF u, r
    <3>2. Append(u, x) # << >> /\ Append(u, x)[Len(Append(u, x))] = x
      BY <3>1
    <3> QED
      BY <3>1, <3>2
  <2> QED
    BY <2>1, <2>3, <2>4
<1> QED
  BY <1>2, <1>3

\* What a block leads to after one.
LEMMA AddTargets ==
  ASSUME NEW h \in Graph, NEW b \in Block, NEW x \in Instr
  PROVE  LET r == AddInstruction(h, b, x)
         IN  /\ \A c \in Block : c # b => Targets(r, c) = Targets(h, c)
             /\ HasTerminator(r, b) <=> IsTerminator(x)
             /\ Targets(r, b) = IF IsTerminator(x) THEN [i \in 1 .. Len(x.to) |-> x.to[Len(x.to) + 1 - i]]
                                                   ELSE << >>
<1> DEFINE r == AddInstruction(h, b, x)
<1>1. /\ \A c \in Block : c # b => r.code[c] = h.code[c]
      /\ r.code[b] # << >> /\ r.code[b][Len(r.code[b])] = x
  BY AddIs
<1> HIDE DEF r
<1>2. \A c \in Block : c # b => Targets(r, c) = Targets(h, c)
  BY <1>1 DEF Targets, HasTerminator
<1>3. HasTerminator(r, b) <=> IsTerminator(x)
  BY <1>1 DEF HasTerminator
<1>4. Targets(r, b) = IF IsTerminator(x) THEN [i \in 1 .. Len(x.to) |-> x.to[Len(x.to) + 1 - i]]
                                         ELSE << >>
  BY <1>1, <1>3 DEF Targets
<1> QED
  BY <1>2, <1>3, <1>4 DEF r

\* Ordinary code and a return lead nowhere.
LEMMA CodeEdges ==
  ASSUME NEW h, EdgesOK(h), NEW b \in Block, ~HasTerminator(h, b), NEW x \in Instr, x.to = << >>
  PROVE  LET r == AddInstruction(h, b, x)
         IN  EdgesOK(r) /\ r.succ = h.succ /\ (HasTerminator(r, b) <=> IsTerminator(x))
<1> DEFINE r == AddInstruction(h, b, x)
<1>1. h \in Graph /\ h.succ[b] = << >>
  BY DEF EdgesOK, Targets
<1>2. r \in Graph /\ r.pre = h.pre /\ r.succ = h.succ
  BY <1>1, AddIs
<1>3. /\ \A c \in Block : c # b => Targets(r, c) = Targets(h, c)
      /\ HasTerminator(r, b) <=> IsTerminator(x)
      /\ Targets(r, b) = IF IsTerminator(x) THEN [i \in 1 .. Len(x.to) |-> x.to[Len(x.to) + 1 - i]]
                                            ELSE << >>
  BY <1>1, AddTargets
<1> HIDE DEF r
<1>4. [i \in 1 .. Len(x.to) |-> x.to[Len(x.to) + 1 - i]] = << >>
  OBVIOUS
<1>5. Targets(r, b) = << >>
  BY <1>3, <1>4
<1>6. \A c \in Block : r.succ[c] = Targets(r, c)
  BY <1>1, <1>2, <1>3, <1>5 DEF EdgesOK
<1>7. EdgesOK(r)
  BY <1>2, <1>6 DEF EdgesOK
<1> QED
  BY <1>2, <1>3, <1>7 DEF r

\* The two instructions without targets.
LEMMA NoTargets ==
  /\ Plain \in Instr /\ Plain.to = << >> /\ ~IsTerminator(Plain)
  /\ Ret \in Instr /\ Ret.to = << >> /\ IsTerminator(Ret)
<1>1. << >> \in Seq(Block)
  OBVIOUS
<1> QED
  BY <1>1 DEF Plain, Ret, Instr, IsTerminator

\* p with b at the end of the list of t.
Also(p, t, b) == [p EXCEPT ![t] = Append(@, b)]

\* A block is listed once more.
LEMMA ListOnce ==
  ASSUME NEW p \in [Block -> Seq(Block)], Once(p), NEW t \in Block, NEW b \in Block, ~Listed(p, t, b)
  PROVE  LET s == Also(p, t, b)
         IN  /\ s \in [Block -> Seq(Block)] /\ Once(s)
             /\ \A a, c \in Block : Listed(s, c, a) <=> Listed(p, c, a) \/ (c = t /\ a = b)
<1> DEFINE s == Also(p, t, b)
           n == Len(p[t])
<1>1. s \in [Block -> Seq(Block)] /\ \A c \in Block : c # t => s[c] = p[c]
  <2>1. Append(p[t], b) \in Seq(Block)
    OBVIOUS
  <2> QED
    BY <2>1 DEF Also
<1>2. /\ Len(s[t]) = n + 1 /\ n \in Nat /\ s[t][n + 1] = b
      /\ \A i \in 1 .. n : s[t][i] = p[t][i]
  BY DEF Also
<1> HIDE DEF s, n
<1>3. \A i \in 1 .. n : s[t][i] # b
  BY <1>2 DEF Listed, n
<1>4. ASSUME NEW i \in 1 .. n + 1, NEW j \in 1 .. n + 1, s[t][i] = s[t][j] PROVE i = j
  <2>1. CASE i = n + 1 \/ j = n + 1
    BY <1>2, <1>3, <1>4, <2>1
  <2>2. CASE i # n + 1 /\ j # n + 1
    <3>1. i \in 1 .. n /\ j \in 1 .. n
      BY <1>2, <2>2
    <3> QED
      BY <1>2, <1>4, <3>1 DEF Once, n
  <2> QED
    BY <2>1, <2>2
<1>5. Once(s)
  <2>1. ASSUME NEW c \in Block
        PROVE  \A i, j \in 1 .. Len(s[c]) : s[c][i] = s[c][j] => i = j
    <3>1. CASE c = t
      BY <1>2, <1>4, <3>1
    <3>2. CASE c # t
      BY <1>1, <3>2 DEF Once
    <3> QED
      BY <3>1, <3>2
  <2> QED
    BY <2>1 DEF Once
<1>6. ASSUME NEW a \in Block
      PROVE  Listed(s, t, a) <=> Listed(p, t, a) \/ a = b
  <2>1. Listed(s, t, a) <=> \E i \in 1 .. n + 1 : s[t][i] = a
    BY <1>2 DEF Listed
  <2>2. (\E i \in 1 .. n + 1 : s[t][i] = a) <=> (\E i \in 1 .. n : s[t][i] = a) \/ a = b
    <3>1. n + 1 \in 1 .. n + 1 /\ \A i \in 1 .. n + 1 : i \in 1 .. n \/ i = n + 1
      BY <1>2
    <3>2. \A i \in 1 .. n : i \in 1 .. n + 1
      BY <1>2
    <3> QED
      BY <1>2, <3>1, <3>2
  <2>3. (\E i \in 1 .. n : s[t][i] = a) <=> Listed(p, t, a)
    BY <1>2 DEF Listed, n
  <2> QED
    BY <2>1, <2>2, <2>3
<1>7. \A a, c \in Block : c # t => (Listed(s, c, a) <=> Listed(p, c, a))
  BY <1>1 DEF Listed
<1> QED
  BY <1>1, <1>5, <1>6, <1>7 DEF s

\* What the new lists of a branch say.
LEMMA BranchEdges ==
  ASSUME NEW h, EdgesOK(h), NEW b \in Block, ~HasTerminator(h, b),
         NEW p \in [Block -> Seq(Block)], Once(p), NEW to \in Seq(Block), NEW x \in Instr,
         IsTerminator(x), [i \in 1 .. Len(x.to) |-> x.to[Len(x.to) + 1 - i]] = to,
         \A a, c \in Block : Listed(p, c, a) <=> Listed(h.pre, c, a) \/ (c \in Elems(to) /\ a = b)
  PROVE  LET e == WithEdges(h, p, [h.succ EXCEPT ![b] = to])
             r == AddInstruction(e, b, x)
         IN  EdgesOK(r) /\ r.succ = [h.succ EXCEPT ![b] = to] /\ HasTerminator(r, b)
<1> DEFINE q == [h.succ EXCEPT ![b] = to]
           e == WithEdges(h, p, q)
           r == AddInstruction(e, b, x)
<1>1. h \in Graph /\ h.succ[b] = << >> /\ h.succ \in [Block -> Seq(Block)]
  BY DEF EdgesOK, Targets, Graph
<1>2. q \in [Block -> Seq(Block)] /\ q[b] = to /\ \A c \in Block : c # b => q[c] = h.succ[c]
  BY <1>1
<1> HIDE DEF q
<1>3. e \in Graph /\ e.pre = p /\ e.succ = q /\ e.code = h.code
  BY <1>1, <1>2 DEF Graph, WithEdges
<1> HIDE DEF e
<1>4. r \in Graph /\ r.pre = p /\ r.succ = q
  BY <1>3, AddIs
<1>5. /\ \A c \in Block : c # b => Targets(r, c) = Targets(e, c)
      /\ HasTerminator(r, b) <=> IsTerminator(x)
      /\ Targets(r, b) = IF IsTerminator(x) THEN [i \in 1 .. Len(x.to) |-> x.to[Len(x.to) + 1 - i]]
                                            ELSE << >>
  BY <1>3, AddTargets
<1> HIDE DEF r
<1>6. \A c \in Block : Targets(e, c) = Targets(h, c)
  BY <1>3 DEF Targets, HasTerminator
<1>7. \A c \in Block : r.succ[c] = Targets(r, c)
  <2>1. \A c \in Block : h.succ[c] = Targets(h, c)
    BY DEF EdgesOK
  <2> QED
    BY <1>2, <1>4, <1>5, <1>6, <2>1
<1>8. ASSUME NEW a \in Block, NEW c \in Block
      PROVE  Listed(p, c, a) <=> c \in Elems(q[a])
  <2>1. Listed(p, c, a) <=> c \in Elems(h.succ[a]) \/ (c \in Elems(to) /\ a = b)
    BY DEF EdgesOK
  <2>2. Elems(h.succ[b]) = {}
    BY <1>1 DEF Elems
  <2> QED
    BY <1>2, <2>1, <2>2
<1>9. EdgesOK(r)
  BY <1>4, <1>7, <1>8 DEF EdgesOK
<1> QED
  BY <1>4, <1>5, <1>9 DEF r, e, q

\* A branch: t is the only successor.
LEMMA BrEdges ==
  ASSUME NEW h, EdgesOK(h), NEW b \in Block, ~HasTerminator(h, b), NEW t \in Block
  PROVE  LET r == CreateBr(h, b, t)
         IN  EdgesOK(r) /\ r.succ = [h.succ EXCEPT ![b] = <<t>>] /\ HasTerminator(r, b)
<1> DEFINE p == Also(h.pre, t, b)
           e == WithEdges(h, p, [h.succ EXCEPT ![b] = <<t>>])
<1>1. /\ h \in Graph /\ h.succ[b] = << >> /\ Once(h.pre)
      /\ h.pre \in [Block -> Seq(Block)] /\ h.succ \in [Block -> Seq(Block)]
  BY DEF EdgesOK, Targets, Graph
<1>2. ~Listed(h.pre, t, b)
  <2>1. Elems(h.succ[b]) = {}
    BY <1>1 DEF Elems
  <2> QED
    BY <2>1 DEF EdgesOK
<1>3. /\ p \in [Block -> Seq(Block)] /\ Once(p)
      /\ \A a, c \in Block : Listed(p, c, a) <=> Listed(h.pre, c, a) \/ (c = t /\ a = b)
  BY <1>1, <1>2, ListOnce
<1>4. e = [h EXCEPT !.pre[t] = Append(@, b), !.succ[b] = Append(@, t)]
  <2>1. Append(h.succ[b], t) = <<t>>
    BY <1>1
  <2>2. [h EXCEPT !.pre[t] = Append(@, b), !.succ[b] = Append(@, t)]
          = [h EXCEPT !.pre = [h.pre EXCEPT ![t] = Append(@, b)],
                      !.succ = [h.succ EXCEPT ![b] = Append(h.succ[b], t)]]
    BY <1>1 DEF Graph
  <2> QED
    BY <2>1, <2>2 DEF WithEdges, Also
<1> HIDE DEF p
<1>5. <<t>> \in Seq(Block) /\ Elems(<<t>>) = {t}
  BY DEF Elems
<1>6. /\ Br(t) \in Instr /\ IsTerminator(Br(t))
      /\ [i \in 1 .. Len(Br(t).to) |-> Br(t).to[Len(Br(t).to) + 1 - i]] = <<t>>
  BY <1>5 DEF Br, Instr, IsTerminator
<1>7. \A a, c \in Block : Listed(p, c, a) <=> Listed(h.pre, c, a) \/ (c \in Elems(<<t>>) /\ a = b)
  BY <1>3, <1>5
<1>8. LET r == AddInstruction(e, b, Br(t))
      IN  EdgesOK(r) /\ r.succ = [h.succ EXCEPT ![b] = <<t>>] /\ HasTerminator(r, b)
  BY <1>3, <1>5, <1>6, <1>7, BranchEdges
<1> QED
  BY <1>4, <1>8 DEF CreateBr

\* In two lists.
LEMMA ListTwice ==
  ASSUME NEW p \in [Block -> Seq(Block)], Once(p), NEW t \in Block, NEW f \in Block, t # f,
         NEW b \in Block, ~Listed(p, t, b), ~Listed(p, f, b)
  PROVE  LET s == Also(Also(p, t, b), f, b)
         IN  /\ s \in [Block -> Seq(Block)] /\ Once(s)
             /\ \A a, c \in Block : Listed(s, c, a) <=> Listed(p, c, a) \/ ((c = t \/ c = f) /\ a = b)
<1> DEFINE o == Also(p, t, b)
           s == Also(o, f, b)
<1>1. /\ o \in [Block -> Seq(Block)] /\ Once(o)
      /\ \A a, c \in Block : Listed(o, c, a) <=> Listed(p, c, a) \/ (c = t /\ a = b)
  BY ListOnce
<1> HIDE DEF o
<1>2. ~Listed(o, f, b)
  BY <1>1
<1>3. /\ s \in [Block -> Seq(Block)] /\ Once(s)
      /\ \A a, c \in Block : Listed(s, c, a) <=> Listed(o, c, a) \/ (c = f /\ a = b)
  BY <1>1, <1>2, ListOnce
<1> HIDE DEF s
<1>4. \A a, c \in Block : Listed(s, c, a) <=> Listed(p, c, a) \/ ((c = t \/ c = f) /\ a = b)
  BY <1>1, <1>3
<1> QED
  BY <1>3, <1>4 DEF s, o

\* A branch on a condition: the false successor comes first.
LEMMA CondBrEdges ==
  ASSUME NEW h, EdgesOK(h), NEW b \in Block, ~HasTerminator(h, b),
         NEW t \in Block, NEW f \in Block, t # f
  PROVE  LET r == CreateCondBr(h, b, t, f)
         IN  /\ EdgesOK(r) /\ r.succ = [h.succ EXCEPT ![b] = <<f, t>>] /\ HasTerminator(r, b)
             /\ \A c \in Block : c # b => r.code[c] = h.code[c]
<1> DEFINE p == Also(Also(h.pre, t, b), f, b)
           e == WithEdges(h, p, [h.succ EXCEPT ![b] = <<f, t>>])
<1>1. /\ h \in Graph /\ h.succ[b] = << >> /\ Once(h.pre)
      /\ h.pre \in [Block -> Seq(Block)] /\ h.succ \in [Block -> Seq(Block)]
  BY DEF EdgesOK, Targets, Graph
<1>2. ~Listed(h.pre, t, b) /\ ~Listed(h.pre, f, b)
  <2>1. Elems(h.succ[b]) = {}
    BY <1>1 DEF Elems
  <2> QED
    BY <2>1 DEF EdgesOK
<1>4. e = [[[h EXCEPT !.pre[t] = Append(@, b)] EXCEPT !.pre[f] = Append(@, b)]
             EXCEPT !.succ[b] = @ \o <<f, t>>]
  <2>1. h.succ[b] \o <<f, t>> = <<f, t>>
    BY <1>1
  <2>2. [[[h EXCEPT !.pre[t] = Append(@, b)] EXCEPT !.pre[f] = Append(@, b)]
             EXCEPT !.succ[b] = @ \o <<f, t>>]
          = [h EXCEPT !.pre = p, !.succ = [h.succ EXCEPT ![b] = h.succ[b] \o <<f, t>>]]
    BY <1>1 DEF Graph, Also
  <2> QED
    BY <2>1, <2>2 DEF WithEdges
<1>6. /\ p \in [Block -> Seq(Block)] /\ Once(p)
      /\ \A a, c \in Block : Listed(p, c, a) <=> Listed(h.pre, c, a) \/ ((c = t \/ c = f) /\ a = b)
  BY <1>1, <1>2, ListTwice
<1> HIDE DEF p
<1>7. <<f, t>> \in Seq(Block) /\ <<t, f>> \in Seq(Block) /\ Elems(<<f, t>>) = {f, t}
  BY DEF Elems
<1>8. /\ CondBr(t, f) \in Instr /\ IsTerminator(CondBr(t, f))
      /\ [i \in 1 .. Len(CondBr(t, f).to) |-> CondBr(t, f).to[Len(CondBr(t, f).to) + 1 - i]]
           = <<f, t>>
  <2>1. CondBr(t, f).to = <<t, f>> /\ CondBr(t, f) \in Instr /\ IsTerminator(CondBr(t, f))
    BY <1>7 DEF CondBr, Instr, IsTerminator
  <2>2. [i \in 1 .. 2 |-> <<t, f>>[3 - i]] = <<f, t>>
    OBVIOUS
  <2>3. Len(<<t, f>>) = 2 /\ 2 + 1 = 3
    OBVIOUS
  <2> QED
    BY <2>1, <2>2, <2>3
<1>9. \A a, c \in Block : Listed(p, c, a) <=> Listed(h.pre, c, a) \/ (c \in Elems(<<f, t>>) /\ a = b)
  BY <1>6, <1>7
<1>10. LET r == AddInstruction(e, b, CondBr(t, f))
       IN  EdgesOK(r) /\ r.succ = [h.succ EXCEPT ![b] = <<f, t>>] /\ HasTerminator(r, b)
  BY <1>6, <1>7, <1>8, <1>9, BranchEdges
<1>11. \A c \in Block : c # b => AddInstruction(e, b, CondBr(t, f)).code[c] = h.code[c]
  <2>1. [h.succ EXCEPT ![b] = <<f, t>>] \in [Block -> Seq(Block)]
    BY <1>1, <1>7
  <2>2. e \in Graph /\ e.code = h.code
    BY <1>1, <1>6, <2>1 DEF Graph, WithEdges
  <2> HIDE DEF e
  <2> QED
    BY <1>8, <2>2, AddIs
<1> QED
  BY <1>4, <1>10, <1>11 DEF CreateCondBr

\* New blocks have no edges.
LEMMA CreateEdges ==
  ASSUME NEW h, EdgesOK(h), NEW k \in Nat, h.n + k <= MaxBlocks
  PROVE  LET r == CreateBlocks(h, k)
         IN  EdgesOK(r) /\ r.succ = h.succ /\ r.code = h.code
<1> DEFINE r == CreateBlocks(h, k)
<1>1. h \in Graph /\ h.n \in Nat /\ h.bbs \subseteq Block
  BY DEF EdgesOK, Graph
<1>2. h.n + k \in 0 .. MaxBlocks /\ h.n + 1 .. h.n + k \subseteq Block
  BY <1>1, MaxBlocksAssumption DEF Block
<1>3. r = [h EXCEPT !.n = h.n + k, !.bbs = h.bbs \cup (h.n + 1 .. h.n + k)]
  BY <1>1 DEF CreateBlocks, Graph
<1>4. h.bbs \cup (h.n + 1 .. h.n + k) \in SUBSET Block
  BY <1>1, <1>2
<1> HIDE DEF r
<1>5. r \in Graph /\ r.pre = h.pre /\ r.succ = h.succ /\ r.code = h.code
  BY <1>1, <1>2, <1>3, <1>4 DEF Graph
<1>6. \A b \in Block : Targets(r, b) = Targets(h, b)
  BY <1>5 DEF Targets, HasTerminator
<1>7. EdgesOK(r)
  BY <1>5, <1>6 DEF EdgesOK
<1> QED
  BY <1>5, <1>7 DEF r

\* A block that nothing leads to and that leads nowhere takes no edge with it.
LEMMA EraseEdges ==
  ASSUME NEW h, EdgesOK(h), NEW b \in Block, h.pre[b] = << >>, h.succ[b] = << >>
  PROVE  LET r == Erase(h, b)
         IN  EdgesOK(r) /\ r.succ = h.succ
<1> DEFINE r == Erase(h, b)
<1>1. h \in Graph /\ h.bbs \subseteq Block
  BY DEF EdgesOK, Graph
<1>2. Elems(h.pre[b]) = {} /\ Elems(h.succ[b]) = {}
  BY DEF Elems
<1>3. r = [h EXCEPT !.bbs = h.bbs \ {b}, !.succ = [p \in Block |-> h.succ[p]],
                    !.pre = [s \in Block |-> h.pre[s]]]
  BY <1>1, <1>2 DEF Erase, Graph
<1>4. [p \in Block |-> h.succ[p]] = h.succ /\ [s \in Block |-> h.pre[s]] = h.pre
  BY <1>1 DEF Graph
<1>5. r = [h EXCEPT !.bbs = h.bbs \ {b}, !.succ = h.succ, !.pre = h.pre]
  BY <1>3, <1>4
<1> HIDE DEF r
<1>6. r \in Graph /\ r.pre = h.pre /\ r.succ = h.succ /\ r.code = h.code
  BY <1>1, <1>5 DEF Graph
<1>7. \A c \in Block : Targets(r, c) = Targets(h, c)
  BY <1>6 DEF Targets, HasTerminator
<1>8. EdgesOK(r)
  BY <1>6, <1>7 DEF EdgesOK
<1> QED
  BY <1>6, <1>8 DEF r

\* The branch of a condition to two of the new blocks.
LEMMA SplitEdges ==
  ASSUME NEW h, EdgesOK(h), NEW b \in Block, ~HasTerminator(h, b), NEW k \in Nat,
         h.n + k <= MaxBlocks, NEW t \in Block, NEW f \in Block, t # f
  PROVE  LET r == Split(h, k, b, t, f)
         IN  /\ EdgesOK(r) /\ r.succ = [h.succ EXCEPT ![b] = <<f, t>>]
             /\ \A x \in Block : x # b => r.code[x] = h.code[x]
<1> DEFINE c == CreateBlocks(h, k)
           p == AddInstruction(c, b, Plain)
           r == CreateCondBr(p, b, t, f)
<1>1. EdgesOK(c) /\ c.succ = h.succ /\ c.code = h.code
  BY CreateEdges
<1>2. ~HasTerminator(c, b) /\ c \in Graph
  BY <1>1 DEF HasTerminator, EdgesOK
<1> HIDE DEF c
<1>3. EdgesOK(p) /\ p.succ = c.succ /\ ~HasTerminator(p, b)
  BY <1>1, <1>2, NoTargets, CodeEdges
<1>4. \A x \in Block : x # b => p.code[x] = c.code[x]
  BY <1>2, NoTargets, AddIs
<1> HIDE DEF p
<1>5. /\ EdgesOK(r) /\ r.succ = [p.succ EXCEPT ![b] = <<f, t>>]
      /\ \A x \in Block : x # b => r.code[x] = p.code[x]
  BY <1>3, CondBrEdges
<1> QED
  BY <1>1, <1>3, <1>4, <1>5 DEF Split, p, c, r

\* The branch at the end of a statement.
LEMMA BranchIfOpenEdges ==
  ASSUME EdgesOK(g), insert \in Block, NEW t \in Block
  PROVE  LET r == BranchIfOpen(t)
         IN  /\ EdgesOK(r)
             /\ r.succ = IF HasTerminator(g, insert) THEN g.succ
                         ELSE [g.succ EXCEPT ![insert] = <<t>>]
<1>1. CASE HasTerminator(g, insert)
  BY <1>1 DEF BranchIfOpen
<1>2. CASE ~HasTerminator(g, insert)
  BY <1>2, BrEdges DEF BranchIfOpen
<1> QED
  BY <1>1, <1>2

-----------------------------------------------------------------------------
(* What each step does to the edges.                                       *)

\* Without blocks there is no edge.
LEMMA NoEdges == EdgesOK(NoBlocks) /\ NoBlocks.n = 0 /\ NoBlocks.succ = [b \in Block |-> << >>]
<1>1. NoBlocks \in Graph
  BY MaxBlocksAssumption DEF NoBlocks, Graph
<1>2. /\ NoBlocks.succ = [b \in Block |-> << >>] /\ NoBlocks.n = 0
      /\ \A b \in Block : NoBlocks.pre[b] = << >> /\ NoBlocks.succ[b] = << >> /\ NoBlocks.code[b] = << >>
  BY DEF NoBlocks
<1>3. Once(NoBlocks.pre)
  BY <1>2 DEF Once
<1>4. \A a, c \in Block : ~Listed(NoBlocks.pre, c, a) /\ c \notin Elems(NoBlocks.succ[a])
  BY <1>2 DEF Listed, Elems
<1>5. \A b \in Block : NoBlocks.succ[b] = Targets(NoBlocks, b)
  BY <1>2 DEF Targets, HasTerminator
<1> QED
  BY <1>1, <1>2, <1>3, <1>4, <1>5 DEF EdgesOK

\* The edges of a function begin with none.
LEMMA FunDeclarationEdges ==
  ASSUME NEW params \in BOOLEAN, VisitFunDeclaration(params)
  PROVE  EdgesOK(g') /\ g'.succ = [b \in Block |-> << >>]
<1> DEFINE new == CreateBlocks(NoBlocks, 1)
<1>1. EdgesOK(NoBlocks) /\ NoBlocks.n = 0 /\ NoBlocks.succ = [b \in Block |-> << >>]
  BY NoEdges
<1>2. EdgesOK(new) /\ new.succ = NoBlocks.succ /\ new.code = NoBlocks.code
  <2>1. NoBlocks.n + 1 <= MaxBlocks
    BY <1>1, MaxBlocksAssumption
  <2> QED
    BY <1>1, <2>1, CreateEdges
<1>3. ~HasTerminator(new, Entry) /\ Entry \in Block
  BY <1>2, MaxBlocksAssumption DEF HasTerminator, NoBlocks, Entry, Block
<1> HIDE DEF new
<1>4. LET r == AddInstruction(new, Entry, Plain) IN EdgesOK(r) /\ r.succ = new.succ
  BY <1>2, <1>3, NoTargets, CodeEdges
<1>5. g' = new \/ g' = AddInstruction(new, Entry, Plain)
  BY DEF VisitFunDeclaration, new
<1> QED
  BY <1>1, <1>2, <1>4, <1>5

\* Ordinary code and returns change no edge.
SameEdges ==
  \/ g' = g
  \/ ~HasTerminator(g, insert) /\ g' = AddInstruction(g, insert, Plain)
  \/ ~HasTerminator(g, insert) /\ g' = CreateRet(g, insert)

\* Such a step keeps the lists and the branches as they agree.
LEMMA SameKept ==
  ASSUME EdgesOK(g), insert \in Block, SameEdges
  PROVE  EdgesOK(g') /\ g'.succ = g.succ
BY NoTargets, CodeEdges DEF SameEdges, CreateRet

\* The steps that emit no more than that.
Unlinked ==
  \/ VisitGlobalVarDeclaration \/ EndFunDeclaration \/ VisitBody \/ VisitCompoundStmt
  \/ NextStatement \/ EndCompoundStmt \/ VisitExpressionStmt \/ EndExpression
  \/ VisitReturnVoid \/ VisitReturnValue \/ EndReturn
  \/ \E hasElse \in BOOLEAN : VisitSelectionStmt(hasElse)

\* They do emit no more: an insertion block they add to is open.
LEMMA UnlinkedIs ==
  ASSUME IInv, Unlinked
  PROVE  SameEdges
<1>1. CASE VisitGlobalVarDeclaration
  <2>1. stk = << >> /\ depth = 1 + Cardinality(Opened(stk))
    BY <1>1 DEF VisitGlobalVarDeclaration, IInv
  <2>2. depth = 1
    BY <2>1, NoFrames
  <2> QED
    BY <1>1, <2>2 DEF VisitGlobalVarDeclaration, Declare, SameEdges
<1>2. CASE EndFunDeclaration
  BY <1>2 DEF EndFunDeclaration, SameEdges
<1>3. CASE VisitBody \/ VisitCompoundStmt
  <2>1. stk # << >> /\ Top.at \in {"body", "stmt"} /\ EnterCompound(Below)
    BY <1>3 DEF VisitBody, VisitCompoundStmt, At
  <2>2. ~HasTerminator(g, insert)
    BY <2>1, OpenVisit DEF OpenAts
  <2> QED
    BY <2>1, <2>2 DEF EnterCompound, Declare, SameEdges
<1>4. CASE NextStatement \/ EndCompoundStmt \/ VisitExpressionStmt \/ VisitReturnValue
  BY <1>4 DEF NextStatement, EndCompoundStmt, VisitExpressionStmt, VisitReturnValue, SameEdges
<1>5. CASE EndExpression
  <2>1. ~HasTerminator(g, insert)
    BY <1>5, OpenVisit DEF EndExpression, At, OpenAts
  <2> QED
    BY <1>5, <2>1 DEF EndExpression, SameEdges
<1>6. CASE VisitReturnVoid
  BY <1>6, Visited DEF VisitReturnVoid, SameEdges
<1>7. CASE EndReturn
  <2>1. ~HasTerminator(g, insert)
    BY <1>7, OpenVisit DEF EndReturn, At, OpenAts, Conds
  <2> QED
    BY <1>7, <2>1 DEF EndReturn, SameEdges
<1>8. ASSUME NEW e \in BOOLEAN, VisitSelectionStmt(e) PROVE SameEdges
  BY <1>8 DEF VisitSelectionStmt, SameEdges
<1> QED
  BY <1>1, <1>2, <1>3, <1>4, <1>5, <1>6, <1>7, <1>8 DEF Unlinked

\* The other steps end the insertion block in a branch.
LEMMA IndexedVarEdges ==
  ASSUME IInv, EdgesOK(g), VisitIndexedVar
  PROVE  EdgesOK(g') /\ g'.succ = [g.succ EXCEPT ![insert] = <<g.n + 2, g.n + 1>>]
<1> DEFINE e == g.n + 1
           c == g.n + 2
           checked == Split(g, 2, insert, e, c)
           noted == AddInstruction(checked, e, Plain)
           reported == CreateRet(noted, e)
           done == AddInstruction(reported, c, Plain)
<1>1. stk # << >> /\ Top.at = "expr" /\ g.n + 2 <= MaxBlocks /\ g' = done
  BY DEF VisitIndexedVar, At, Room, Split
<1>2. /\ ~HasTerminator(g, insert) /\ insert \in Block /\ insert \in g.bbs
      /\ GraphOK(g, insert, Owed(stk), Falses(stk))
  BY <1>1, InProgress, OpenVisit DEF OpenAts, GraphOK, IInv
<1>3. e \in Block /\ c \in Block /\ e # c
  <2>1. g.n \in Nat
    BY DEF EdgesOK, Graph
  <2> QED
    BY <1>1, <2>1, MaxBlocksAssumption DEF Block
<1>4. e # insert /\ c # insert /\ g.code[e] = << >> /\ g.code[c] = << >>
  <2>1. g.n \in Nat /\ insert \in 1 .. g.n
    BY <1>2 DEF GraphOK, Graph
  <2>2. e > g.n /\ c > g.n
    BY <2>1
  <2> QED
    BY <1>2, <1>3, <2>1, <2>2 DEF GraphOK
<1> HIDE DEF e, c
<1>5. /\ EdgesOK(checked) /\ checked.succ = [g.succ EXCEPT ![insert] = <<c, e>>]
      /\ \A x \in Block : x # insert => checked.code[x] = g.code[x]
  <2> DEFINE k == 2
  <2>1. k \in Nat /\ g.n + k <= MaxBlocks
    BY <1>1
  <2> HIDE DEF k
  <2>2. LET r == Split(g, k, insert, e, c)
        IN  /\ EdgesOK(r) /\ r.succ = [g.succ EXCEPT ![insert] = <<c, e>>]
            /\ \A x \in Block : x # insert => r.code[x] = g.code[x]
    BY <1>2, <1>3, <2>1, SplitEdges
  <2> QED
    BY <2>2 DEF k
<1>6. ~HasTerminator(checked, e) /\ ~HasTerminator(checked, c)
  BY <1>3, <1>4, <1>5 DEF HasTerminator
<1> HIDE DEF checked
<1>7. EdgesOK(noted) /\ noted.succ = checked.succ /\ ~HasTerminator(noted, e)
  BY <1>3, <1>5, <1>6, NoTargets, CodeEdges
<1>8. ~HasTerminator(noted, c)
  <2>1. noted.code[c] = checked.code[c]
    <3>1. checked \in Graph
      BY <1>5 DEF EdgesOK
    <3> QED
      BY <1>3, <3>1, NoTargets, AddIs
  <2> QED
    BY <1>6, <2>1 DEF HasTerminator
<1> HIDE DEF noted
<1>9. EdgesOK(reported) /\ reported.succ = noted.succ
  BY <1>3, <1>7, NoTargets, CodeEdges DEF CreateRet
<1>10. ~HasTerminator(reported, c)
  <2>1. reported.code[c] = noted.code[c]
    <3>1. noted \in Graph
      BY <1>7 DEF EdgesOK
    <3> QED
      BY <1>3, <3>1, NoTargets, AddIs DEF CreateRet
  <2> QED
    BY <1>8, <2>1 DEF HasTerminator
<1> HIDE DEF reported
<1>11. EdgesOK(done) /\ done.succ = reported.succ
  BY <1>3, <1>9, <1>10, NoTargets, CodeEdges
<1> QED
  BY <1>1, <1>5, <1>7, <1>9, <1>11 DEF e, c

\* The condition of an if.
LEMMA SelectionBranchEdges ==
  ASSUME IInv, EdgesOK(g), NEW e \in BOOLEAN, SelectionBranch(e)
  PROVE  /\ EdgesOK(g')
         /\ g'.succ = [g.succ EXCEPT ![insert] = <<IF e THEN g.n + 2 ELSE g.n + 3, g.n + 1>>]
<1> DEFINE t == g.n + 1
           f == IF e THEN g.n + 2 ELSE g.n + 3
<1>1. /\ stk # << >> /\ Top.at \in {"ifCond", "ifElseCond"} /\ g.n + 3 <= MaxBlocks
      /\ g' = Split(g, 3, insert, t, f)
  BY DEF SelectionBranch, At, Room, Split, IfCond
<1>2. ~HasTerminator(g, insert) /\ insert \in Block
  BY <1>1, OpenVisit DEF OpenAts, Conds, IInv
<1>3. t \in Block /\ f \in Block /\ t # f
  <2>1. g.n \in Nat
    BY DEF EdgesOK, Graph
  <2> QED
    BY <1>1, <2>1, MaxBlocksAssumption DEF Block
<1> HIDE DEF t, f
<1>4. EdgesOK(g') /\ g'.succ = [g.succ EXCEPT ![insert] = <<f, t>>]
  <2> DEFINE k == 3
  <2>1. k \in Nat /\ g.n + k <= MaxBlocks
    BY <1>1
  <2> HIDE DEF k
  <2>2. LET r == Split(g, k, insert, t, f)
        IN  /\ EdgesOK(r) /\ r.succ = [g.succ EXCEPT ![insert] = <<f, t>>]
            /\ \A x \in Block : x # insert => r.code[x] = g.code[x]
    BY <1>2, <1>3, <2>1, SplitEdges, SMTT(30)
  <2> QED
    BY <1>1, <2>2 DEF k
<1> QED
  BY <1>4 DEF t, f

\* The condition of a while.
LEMMA IterationBranchEdges ==
  ASSUME IInv, EdgesOK(g), IterationBranch
  PROVE  EdgesOK(g') /\ g'.succ = [g.succ EXCEPT ![insert] = <<g.n + 2, g.n + 1>>]
<1> DEFINE t == g.n + 1
           c == g.n + 2
<1>1. /\ stk # << >> /\ Top.at = "whileCond" /\ g.n + 2 <= MaxBlocks
      /\ g' = Split(g, 2, insert, t, c)
  BY DEF IterationBranch, At, Room, Split
<1>2. ~HasTerminator(g, insert) /\ insert \in Block
  BY <1>1, OpenVisit DEF OpenAts, Conds, IInv
<1>3. t \in Block /\ c \in Block /\ t # c
  <2>1. g.n \in Nat
    BY DEF EdgesOK, Graph
  <2> QED
    BY <1>1, <2>1, MaxBlocksAssumption DEF Block
<1> HIDE DEF t, c
<1>4. EdgesOK(g') /\ g'.succ = [g.succ EXCEPT ![insert] = <<c, t>>]
  <2> DEFINE k == 2
  <2>1. k \in Nat /\ g.n + k <= MaxBlocks
    BY <1>1
  <2> HIDE DEF k
  <2>2. LET r == Split(g, k, insert, t, c)
        IN  /\ EdgesOK(r) /\ r.succ = [g.succ EXCEPT ![insert] = <<c, t>>]
            /\ \A x \in Block : x # insert => r.code[x] = g.code[x]
    BY <1>2, <1>3, <2>1, SplitEdges, SMTT(30)
  <2> QED
    BY <1>1, <2>2 DEF k
<1> QED
  BY <1>4 DEF t, c

\* The entry of a while.
LEMMA IterationStmtEdges ==
  ASSUME IInv, EdgesOK(g), VisitIterationStmt
  PROVE  EdgesOK(g') /\ g'.succ = [g.succ EXCEPT ![insert] = <<g.n + 1>>]
<1> DEFINE head == g.n + 1
           new == CreateBlocks(g, 1)
<1>1. Visit(<<WhileCond(head), Expr>>) /\ g.n + 3 <= MaxBlocks
  BY DEF VisitIterationStmt, Room
<1>2. ~HasTerminator(g, insert) /\ insert \in Block
  BY <1>1, Visited DEF IInv
<1>3. g' = CreateBr(new, insert, head)
  BY <1>2 DEF VisitIterationStmt
<1>4. g.n + 1 <= MaxBlocks /\ head \in Block
  <2>1. g.n \in Nat
    BY DEF EdgesOK, Graph
  <2> QED
    BY <1>1, <2>1, MaxBlocksAssumption DEF Block
<1>5. EdgesOK(new) /\ new.succ = g.succ /\ new.code = g.code
  BY <1>4, CreateEdges
<1>6. ~HasTerminator(new, insert)
  BY <1>2, <1>5 DEF HasTerminator
<1> HIDE DEF new, head
<1>7. EdgesOK(g') /\ g'.succ = [new.succ EXCEPT ![insert] = <<head>>]
  BY <1>2, <1>3, <1>4, <1>5, <1>6, BrEdges
<1> QED
  BY <1>5, <1>7 DEF head

\* The end of a branch or of a body, which goes on to b.
LinkedTo(b) ==
  g'.succ = IF HasTerminator(g, insert) THEN g.succ ELSE [g.succ EXCEPT ![insert] = <<b>>]

\* The true branch of an if without else goes on behind the if.
LEMMA EndTrueNoElseEdges ==
  ASSUME IInv, EdgesOK(g), EndTrueNoElse
  PROVE  EdgesOK(g') /\ LinkedTo(Top.blocks[2])
<1> DEFINE f == Top.blocks[1]
           c == Top.blocks[2]
           b == BranchIfOpen(c)
<1>1. stk # << >> /\ Top.at = "ifTrue" /\ g' = Erase(b, f)
  BY DEF EndTrueNoElse, At
<1>2. f \in Block /\ c \in Block /\ insert \in Block
  BY <1>1, FrameBlocks DEF IInv
<1>3. GraphOK(g, insert, Owed(stk), Falses(stk)) /\ f \in Falses(stk) /\ c \in g.bbs \ (Falses(stk) \cup {Entry})
      /\ Falses(stk) \subseteq Owed(stk)
  <2>1. /\ GraphOK(g, insert, Owed(stk), Falses(stk)) /\ f \in Falses(stk) /\ c \notin Falses(stk)
        /\ c \in Owes(Top) /\ Owed(stk) \subseteq g.bbs \ {insert, Entry}
    BY <1>1, InProgress, FrameBlocks
  <2>2. Owes(Top) \subseteq Owed(stk) /\ Falses(stk) \subseteq Owed(stk)
    BY <1>1, BelowOwes
  <2> QED
    BY <2>1, <2>2
<1> HIDE DEF f, c
<1>4. EdgesOK(b) /\ b.succ = IF HasTerminator(g, insert) THEN g.succ
                             ELSE [g.succ EXCEPT ![insert] = <<c>>]
  BY <1>2, BranchIfOpenEdges
<1>5. GraphOK(b, insert, Owed(stk), Falses(stk))
  BY <1>3, BranchIfOpenKeeps
<1> HIDE DEF b
<1>6. b.pre[f] = << >> /\ b.succ[f] = << >>
  BY <1>3, <1>5 DEF GraphOK
<1>7. EdgesOK(Erase(b, f)) /\ Erase(b, f).succ = b.succ
  BY <1>2, <1>4, <1>6, EraseEdges
<1> QED
  BY <1>1, <1>4, <1>7 DEF LinkedTo, c

\* The true branch of an if with else goes past the false branch.
LEMMA EndTrueWithElseEdges ==
  ASSUME IInv, EdgesOK(g), EndTrueWithElse
  PROVE  EdgesOK(g') /\ LinkedTo(Top.blocks[2])
<1>1. stk # << >> /\ Top.at = "ifElseTrue" /\ g' = BranchIfOpen(Top.blocks[2])
  BY DEF EndTrueWithElse, At
<1>2. Top.blocks[2] \in Block /\ insert \in Block
  BY <1>1, FrameBlocks DEF IInv
<1> QED
  BY <1>1, <1>2, BranchIfOpenEdges DEF LinkedTo

\* The false branch goes on behind the if.
LEMMA EndFalseEdges ==
  ASSUME IInv, EdgesOK(g), EndFalse
  PROVE  EdgesOK(g') /\ LinkedTo(Top.blocks[1])
<1>1. stk # << >> /\ Top.at = "ifFalse" /\ g' = BranchIfOpen(Top.blocks[1])
  BY DEF EndFalse, At
<1>2. Top.blocks[1] \in Block /\ insert \in Block
  BY <1>1, FrameBlocks DEF IInv
<1> QED
  BY <1>1, <1>2, BranchIfOpenEdges DEF LinkedTo

\* The body of a loop goes back to its condition.
LEMMA EndIterationBodyEdges ==
  ASSUME IInv, EdgesOK(g), EndIterationBody
  PROVE  EdgesOK(g') /\ LinkedTo(Top.blocks[1])
<1>1. stk # << >> /\ Top.at = "whileBody" /\ g' = BranchIfOpen(Top.blocks[1])
  BY DEF EndIterationBody, At
<1>2. Top.blocks[1] \in Block /\ insert \in Block
  BY <1>1, FrameBlocks DEF IInv
<1> QED
  BY <1>1, <1>2, BranchIfOpenEdges DEF LinkedTo

\* No step lets the lists and the branches disagree.
LEMMA NextEdges == IInv /\ EdgesOK(g) /\ [Next]_vars => EdgesOK(g')
<1> SUFFICES ASSUME IInv, EdgesOK(g), [Next]_vars PROVE EdgesOK(g')
  OBVIOUS
<1>1. CASE Unlinked
  BY <1>1, UnlinkedIs, SameKept DEF IInv
<1>2. ASSUME NEW params \in BOOLEAN, VisitFunDeclaration(params) PROVE EdgesOK(g')
  BY <1>2, FunDeclarationEdges
<1>3. CASE VisitIndexedVar
  BY <1>3, IndexedVarEdges
<1>4. ASSUME NEW e \in BOOLEAN, SelectionBranch(e) PROVE EdgesOK(g')
  BY <1>4, SelectionBranchEdges
<1>5. CASE EndTrueNoElse \/ EndTrueWithElse \/ EndFalse \/ EndIterationBody
  BY <1>5, EndTrueNoElseEdges, EndTrueWithElseEdges, EndFalseEdges, EndIterationBodyEdges
<1>6. CASE VisitIterationStmt \/ IterationBranch
  BY <1>6, IterationStmtEdges, IterationBranchEdges
<1>7. CASE UNCHANGED vars
  BY <1>7 DEF vars
<1> QED
  BY <1>1, <1>2, <1>3, <1>4, <1>5, <1>6, <1>7 DEF Next, Unlinked

\* Before the first function there is no edge.
LEMMA InitEdges == Init => EdgesOK(g)
<1> SUFFICES ASSUME Init PROVE EdgesOK(g)
  OBVIOUS
<1> QED
  BY NoEdges DEF Init

\* The predecessor and successor lists say what the branches say, at every
\* point of every visit: the successors of a block are the targets of its
\* branch, and it is listed once by each of them and by no other block.
THEOREM ListsMatchBranches == Spec => []EdgesMatchBranches
<1>1. ASSUME EdgesOK(g) PROVE EdgesMatchBranches
  <2>1. g \in Graph /\ g.bbs \subseteq Block /\ g.pre \in [Block -> Seq(Block)]
    BY <1>1 DEF EdgesOK, Graph
  <2>2. \A b \in g.bbs : g.succ[b] = TargetsOf(b)
    BY <1>1, <2>1 DEF EdgesOK, Targets, TargetsOf
  <2>3. ASSUME NEW a \in g.bbs, NEW b \in g.bbs
        PROVE  Cardinality({i \in DOMAIN g.pre[b] : g.pre[b][i] = a})
                 = (IF b \in Elems(g.succ[a]) THEN 1 ELSE 0)
    <3> DEFINE at == {i \in DOMAIN g.pre[b] : g.pre[b][i] = a}
    <3>1. DOMAIN g.pre[b] = 1 .. Len(g.pre[b])
      BY <2>1
    <3>2. Listed(g.pre, b, a) <=> b \in Elems(g.succ[a])
      BY <1>1, <2>1 DEF EdgesOK
    <3>3. CASE Listed(g.pre, b, a)
      <4>1. PICK i \in 1 .. Len(g.pre[b]) : g.pre[b][i] = a
        BY <3>3 DEF Listed
      <4>2. \A j \in 1 .. Len(g.pre[b]) : g.pre[b][j] = a => j = i
        BY <1>1, <2>1, <4>1 DEF EdgesOK, Once
      <4>3. at = {i}
        BY <3>1, <4>1, <4>2
      <4> QED
        BY <3>2, <3>3, <4>3, FS_Singleton
    <3>4. CASE ~Listed(g.pre, b, a)
      <4>1. at = {}
        BY <3>1, <3>4 DEF Listed
      <4> QED
        BY <3>2, <3>4, <4>1, FS_EmptySet
    <3> QED
      BY <3>3, <3>4
  <2> QED
    BY <2>2, <2>3 DEF EdgesMatchBranches
<1>2. IInv /\ EdgesOK(g) /\ [Next]_vars => (IInv /\ EdgesOK(g))'
  BY NextInv, NextEdges
<1>3. Init => IInv /\ EdgesOK(g)
  BY InitInv, InitEdges
<1> QED
  BY <1>1, <1>2, <1>3, PTL DEF Spec

-----------------------------------------------------------------------------
(* The loops.  q is BasicBlock::succ_bbs_, for every block.                *)

\* S holds the entry and with a block its successors, d left out; the least
\* such set is what the entry reaches without going through d.
AvoidClosed(q, d, S) ==
  /\ Entry # d => Entry \in S
  /\ \A a \in S : \A c \in Elems(q[a]) : c # d => c \in S
Avoiding(q, d) == {b \in Block : \A S \in SUBSET Block : AvoidClosed(q, d, S) => b \in S}

\* It is such a set, and the least.
LEMMA AvoidingClosed ==
  ASSUME NEW q \in [Block -> Seq(Block)], NEW d \in Block
  PROVE  AvoidClosed(q, d, Avoiding(q, d)) /\ Avoiding(q, d) \subseteq Block /\ d \notin Avoiding(q, d)
<1>1. Entry \in Block /\ \A a \in Block : Elems(q[a]) \subseteq Block
  BY MaxBlocksAssumption DEF Entry, Block, Elems
<1>2. AvoidClosed(q, d, Block \ {d})
  BY <1>1 DEF AvoidClosed
<1>3. d \notin Avoiding(q, d)
  BY <1>2 DEF Avoiding
<1>4. Entry # d => Entry \in Avoiding(q, d)
  BY <1>1 DEF Avoiding, AvoidClosed
<1>5. ASSUME NEW a \in Avoiding(q, d), NEW c \in Elems(q[a]), c # d PROVE c \in Avoiding(q, d)
  <2>1. c \in Block
    BY <1>1 DEF Avoiding
  <2>2. ASSUME NEW S \in SUBSET Block, AvoidClosed(q, d, S) PROVE c \in S
    <3>1. a \in S
      BY <2>2 DEF Avoiding
    <3> QED
      BY <1>5, <2>2, <3>1 DEF AvoidClosed
  <2> QED
    BY <2>1, <2>2 DEF Avoiding
<1> QED
  BY <1>3, <1>4, <1>5 DEF AvoidClosed, Avoiding

\* The least.
LEMMA AvoidingLeast ==
  ASSUME NEW q, NEW d, NEW S \in SUBSET Block, AvoidClosed(q, d, S)
  PROVE  Avoiding(q, d) \subseteq S
BY DEF Avoiding

\* A block that nothing leads to is not reached.
LEMMA NothingLeadsTo ==
  ASSUME NEW q \in [Block -> Seq(Block)], NEW b \in Block, b # Entry,
         \A a \in Block : b \notin Elems(q[a]), NEW d \in Block
  PROVE  b \notin Avoiding(q, d)
<1> DEFINE S == Avoiding(q, d) \ {b}
<1>1. AvoidClosed(q, d, Avoiding(q, d)) /\ Avoiding(q, d) \subseteq Block
  BY AvoidingClosed
<1>2. AvoidClosed(q, d, S)
  BY <1>1 DEF AvoidClosed
<1>3. Avoiding(q, d) \subseteq S
  BY <1>1, <1>2, AvoidingLeast
<1> QED
  BY <1>3

\* What is reached without c and not through d is reached without d.
LEMMA NotThrough ==
  ASSUME NEW q \in [Block -> Seq(Block)], NEW c \in Block, NEW d \in Block, d \notin Avoiding(q, c)
  PROVE  Avoiding(q, c) \subseteq Avoiding(q, d)
<1> DEFINE S == Avoiding(q, c) \cap Avoiding(q, d)
<1>1. /\ AvoidClosed(q, c, Avoiding(q, c)) /\ Avoiding(q, c) \subseteq Block
      /\ AvoidClosed(q, d, Avoiding(q, d))
  BY AvoidingClosed
<1>2. AvoidClosed(q, c, S)
  BY <1>1 DEF AvoidClosed
<1>3. Avoiding(q, c) \subseteq S
  BY <1>1, <1>2, AvoidingLeast
<1> QED
  BY <1>3

\* At most, the block b without successors gets those in `to`: blocks that
\* lead nowhere, or that all ways to b go through.
Linking(q, q2, b, to) ==
  /\ q2 = q \/ (q[b] = << >> /\ q2 = [q EXCEPT ![b] = to])
  /\ \A t \in Elems(to) : q[t] = << >> \/ b \notin Avoiding(q, t)

\* With such a branch no more is reached, but for the blocks it goes to that
\* lead nowhere.
LEMMA LinkReaches ==
  ASSUME NEW q \in [Block -> Seq(Block)], NEW b \in Block, NEW to \in Seq(Block),
         NEW q2, Linking(q, q2, b, to), NEW c \in Block
  PROVE  /\ b \notin Avoiding(q, c) => Avoiding(q2, c) \subseteq Avoiding(q, c)
         /\ \A p \in Block : p \in Avoiding(q2, c) /\ q[p] # << >> => p \in Avoiding(q, c)
<1>1. CASE q2 = q
  BY <1>1
<1>2. CASE q[b] = << >> /\ q2 = [q EXCEPT ![b] = to]
  <2> DEFINE A == Avoiding(q, c)
             S == A \cup (IF b \in A THEN {t \in Elems(to) : q[t] = << >>} ELSE {})
  <2>1. AvoidClosed(q, c, A) /\ A \subseteq Block
    BY AvoidingClosed
  <2>2. Elems(to) \subseteq Block /\ Elems(<< >>) = {}
    BY DEF Elems
  <2>3. q2[b] = to /\ \A a \in Block : a # b => q2[a] = q[a]
    BY <1>2
  <2>4. ASSUME NEW a \in S, NEW x \in Elems(q2[a]), x # c PROVE x \in S
    <3>1. CASE a = b
      <4>1. b \in A /\ x \in Elems(to)
        BY <2>3, <3>1
      <4>2. q[x] = << >> \/ b \notin Avoiding(q, x)
        BY <4>1 DEF Linking
      <4>3. CASE b \notin Avoiding(q, x)
        <5>1. x \in Block
          BY <2>2, <4>1
        <5>2. x \in Avoiding(q, c)
          BY <4>1, <4>3, <5>1, NotThrough
        <5> QED
          BY <5>2
      <4> QED
        BY <4>1, <4>2, <4>3
    <3>2. CASE a # b
      <4>1. a \in Block /\ x \in Elems(q[a])
        BY <2>1, <2>2, <2>3, <3>2
      <4>2. a \in A
        BY <2>2, <4>1
      <4> QED
        BY <2>1, <2>4, <4>1, <4>2 DEF AvoidClosed
    <3> QED
      BY <3>1, <3>2
  <2>5. AvoidClosed(q2, c, S) /\ S \in SUBSET Block
    BY <2>1, <2>2, <2>4 DEF AvoidClosed
  <2>6. Avoiding(q2, c) \subseteq S
    BY <2>5, AvoidingLeast
  <2> QED
    BY <2>6
<1> QED
  BY <1>1, <1>2 DEF Linking

\* A rank of the blocks: an edge goes up, or back to a block that every way to
\* it goes through, or to a block whose rank is still open because it is owed;
\* and no block with successors is above the insertion block.
Ranked(q, in, owed, r) ==
  /\ r \in [Block -> Nat]
  /\ \A p, c \in Block :
       c \in Elems(q[p]) => p \notin Avoiding(q, c) \/ r[p] < r[c] \/ c \in owed
  /\ \A p \in Block : q[p] # << >> => r[p] <= r[in]

\* The insertion block moves to one of the blocks `up`, which lead nowhere.
Rising(q, in, owed, to, up, in2, owed2) ==
  /\ up \in SUBSET Block /\ in \notin up /\ in2 \in up /\ \A b \in up : q[b] = << >>
  /\ owed \subseteq owed2 \cup up
  /\ \A t \in Elems(to) : t \in owed2 \/ t \in up \/ in \notin Avoiding(q, t)

\* It and the others in `up` can be ranked above all the rest.
LEMMA RankedStep ==
  ASSUME NEW q \in [Block -> Seq(Block)], NEW in \in Block, NEW owed, NEW r, Ranked(q, in, owed, r),
         NEW to \in Seq(Block), NEW q2, Linking(q, q2, in, to),
         NEW up, NEW in2, NEW owed2, Rising(q, in, owed, to, up, in2, owed2)
  PROVE  \E r2 : Ranked(q2, in2, owed2, r2)
<1>0. /\ up \in SUBSET Block /\ in \notin up /\ in2 \in up /\ \A b \in up : q[b] = << >>
      /\ owed \subseteq owed2 \cup up
      /\ \A t \in Elems(to) : t \in owed2 \/ t \in up \/ in \notin Avoiding(q, t)
  BY DEF Rising
<1> DEFINE r2 == [b \in Block |-> IF b \in up THEN r[in] + 1 ELSE r[b]]
<1>1. /\ r \in [Block -> Nat]
      /\ \A p, c \in Block :
           c \in Elems(q[p]) => p \notin Avoiding(q, c) \/ r[p] < r[c] \/ c \in owed
      /\ \A p \in Block : q[p] # << >> => r[p] <= r[in]
  BY DEF Ranked
<1>2. /\ r2 \in [Block -> Nat] /\ r2[in] = r[in] /\ r[in] \in Nat
      /\ \A b \in up : r2[b] = r[in] + 1
      /\ \A b \in Block \ up : r2[b] = r[b]
  BY <1>0, <1>1
<1> HIDE DEF r2
<1>3. ASSUME NEW c \in Block
      PROVE  /\ in \notin Avoiding(q, c) => Avoiding(q2, c) \subseteq Avoiding(q, c)
             /\ \A p \in Block : p \in Avoiding(q2, c) /\ q[p] # << >> => p \in Avoiding(q, c)
  BY LinkReaches
<1>4. \A p \in Block : p # in => q2[p] = q[p]
  BY DEF Linking
<1>5. q2[in] = q[in] \/ (q[in] = << >> /\ q2[in] = to)
  BY DEF Linking
<1>6. Elems(<< >>) = {}
  BY DEF Elems
<1>7. ASSUME NEW p \in Block, NEW c \in Block, c \in Elems(q[p])
      PROVE  p \notin Avoiding(q2, c) \/ r2[p] < r2[c] \/ c \in owed2
  <2>1. q[p] # << >> /\ r[p] <= r[in] /\ p \notin up /\ r[p] \in Nat /\ r[c] \in Nat
    BY <1>0, <1>1, <1>6, <1>7
  <2>2. p \notin Avoiding(q, c) => p \notin Avoiding(q2, c)
    BY <1>0, <1>3, <2>1
  <2>3. r2[p] = r[p] /\ (c \notin up => r2[c] = r[c])
    BY <1>0, <1>2, <2>1
  <2>4. CASE c \in up
    <3>1. r2[c] = r[in] + 1 /\ r[in] \in Nat
      BY <1>2, <2>4
    <3> QED
      BY <2>1, <2>3, <3>1
  <2>5. CASE c \notin up
    BY <1>0, <1>1, <1>7, <2>2, <2>3, <2>5
  <2> QED
    BY <2>4, <2>5
<1>8. ASSUME NEW c \in Block, c \in Elems(to)
      PROVE  in \notin Avoiding(q2, c) \/ r2[in] < r2[c] \/ c \in owed2
  <2>1. CASE c \in up
    BY <1>0, <1>2, <2>1
  <2>2. CASE in \notin Avoiding(q, c)
    BY <1>0, <1>3, <2>2
  <2> QED
    BY <1>0, <1>8, <2>1, <2>2
<1>9. ASSUME NEW p \in Block, NEW c \in Block, c \in Elems(q2[p])
      PROVE  p \notin Avoiding(q2, c) \/ r2[p] < r2[c] \/ c \in owed2
  <2>1. CASE c \in Elems(q[p])
    BY <1>0, <1>7, <2>1
  <2>2. CASE p = in /\ c \in Elems(to)
    BY <1>0, <1>8, <2>2
  <2> QED
    BY <1>0, <1>4, <1>5, <1>9, <2>1, <2>2
<1>10. ASSUME NEW p \in Block, q2[p] # << >> PROVE r2[p] <= r2[in2]
  <2>1. CASE p = in
    BY <1>0, <1>2, <2>1
  <2>2. CASE p # in
    <3>1. q[p] # << >> /\ p \notin up /\ r[p] <= r[in] /\ r[p] \in Nat
      BY <1>0, <1>1, <1>4, <1>10, <2>2
    <3>2. r2[p] = r[p] /\ r2[in2] = r[in] + 1 /\ r[in] \in Nat
      BY <1>0, <1>2, <3>1
    <3> QED
      BY <3>1, <3>2
  <2> QED
    BY <2>1, <2>2
<1> QED
  BY <1>2, <1>9, <1>10 DEF Ranked

\* While a loop is visited, all ways to the insertion block and to the blocks
\* the visits inside still owe code to go through the block of its condition.
Headed(q, in, s) ==
  \A i \in 1 .. Len(s) : \A d \in HeadOf(s[i]) :
    /\ in \notin Avoiding(q, d)
    /\ \A j \in i + 1 .. Len(s) : Owes(s[j]) \cap Avoiding(q, d) = {}

\* The insertion block moves.
LEMMA MoveHeaded ==
  ASSUME NEW s \in Seq(Frame), NEW q, NEW in, Headed(q, in, s), NEW q2, NEW in2,
         \A d \in Heads(s) : Avoiding(q2, d) \subseteq Avoiding(q, d) /\ in2 \notin Avoiding(q2, d)
  PROVE  Headed(q2, in2, s)
<1>1. \A i \in 1 .. Len(s) : HeadOf(s[i]) \subseteq Heads(s)
  BY DEF Heads
<1> QED
  BY <1>1 DEF Headed

\* A frame is taken from the top.
LEMMA PopHeaded ==
  ASSUME NEW s \in Seq(Frame), s # << >>, NEW q, NEW in, Headed(q, in, s)
  PROVE  LET t == SubSeq(s, 1, Len(s) - 1)
         IN  /\ Headed(q, in, t)
             /\ \A d \in Heads(t) : in \notin Avoiding(q, d) /\ Owes(s[Len(s)]) \cap Avoiding(q, d) = {}
             /\ \A d \in HeadOf(s[Len(s)]) : in \notin Avoiding(q, d)
<1> DEFINE t == SubSeq(s, 1, Len(s) - 1)
<1>1. t \in Seq(Frame) /\ Len(t) = Len(s) - 1 /\ \A i \in 1 .. Len(t) : t[i] = s[i]
  BY BelowIs
<1>2. Len(s) \in Nat /\ Len(s) \in 1 .. Len(s)
  OBVIOUS
<1> HIDE DEF t
<1>3. Headed(q, in, t)
  <2>1. ASSUME NEW i \in 1 .. Len(t), NEW d \in HeadOf(t[i])
        PROVE  /\ in \notin Avoiding(q, d)
               /\ \A j \in i + 1 .. Len(t) : Owes(t[j]) \cap Avoiding(q, d) = {}
    <3>1. i \in 1 .. Len(s) /\ d \in HeadOf(s[i])
      BY <1>1, <1>2, <2>1
    <3>2. \A j \in i + 1 .. Len(t) : j \in i + 1 .. Len(s) /\ t[j] = s[j]
      BY <1>1, <1>2
    <3> QED
      BY <3>1, <3>2 DEF Headed
  <2> QED
    BY <2>1 DEF Headed
<1>4. ASSUME NEW d \in Heads(t)
      PROVE  in \notin Avoiding(q, d) /\ Owes(s[Len(s)]) \cap Avoiding(q, d) = {}
  <2>1. PICK i \in 1 .. Len(t) : d \in HeadOf(t[i])
    BY <1>1 DEF Heads
  <2>2. i \in 1 .. Len(s) /\ d \in HeadOf(s[i]) /\ Len(s) \in i + 1 .. Len(s)
    BY <1>1, <1>2, <2>1
  <2> QED
    BY <2>2 DEF Headed
<1>5. \A d \in HeadOf(s[Len(s)]) : in \notin Avoiding(q, d)
  BY <1>2 DEF Headed
<1> QED
  BY <1>3, <1>4, <1>5 DEF t

\* A frame is put on top.
LEMMA PushHeaded ==
  ASSUME NEW s \in Seq(Frame), NEW x \in Frame, NEW q, NEW in, Headed(q, in, s),
         \A d \in Heads(s) : Owes(x) \cap Avoiding(q, d) = {},
         \A d \in HeadOf(x) : in \notin Avoiding(q, d)
  PROVE  Headed(q, in, Append(s, x))
<1> DEFINE u == Append(s, x)
<1>1. Len(u) = Len(s) + 1 /\ Len(s) \in Nat /\ u[Len(s) + 1] = x /\ \A i \in 1 .. Len(s) : u[i] = s[i]
  OBVIOUS
<1> HIDE DEF u
<1>2. ASSUME NEW i \in 1 .. Len(u), NEW d \in HeadOf(u[i])
      PROVE  /\ in \notin Avoiding(q, d)
             /\ \A j \in i + 1 .. Len(u) : Owes(u[j]) \cap Avoiding(q, d) = {}
  <2>1. CASE i = Len(s) + 1
    BY <1>1, <1>2, <2>1
  <2>2. CASE i # Len(s) + 1
    <3>1. i \in 1 .. Len(s) /\ d \in HeadOf(s[i])
      BY <1>1, <1>2, <2>2
    <3>2. d \in Heads(s)
      BY <3>1 DEF Heads
    <3>3. ASSUME NEW j \in i + 1 .. Len(u) PROVE Owes(u[j]) \cap Avoiding(q, d) = {}
      <4>1. CASE j = Len(s) + 1
        BY <1>1, <3>2, <4>1
      <4>2. CASE j # Len(s) + 1
        <5>1. j \in i + 1 .. Len(s) /\ u[j] = s[j]
          BY <1>1, <3>1, <4>2
        <5> QED
          BY <3>1, <5>1 DEF Headed
      <4> QED
        BY <4>1, <4>2
    <3> QED
      BY <3>1, <3>3 DEF Headed
  <2> QED
    BY <2>1, <2>2
<1> QED
  BY <1>2 DEF Headed, u

\* What is owed and headed with one frame more.
LEMMA AppendOwes ==
  ASSUME NEW s \in Seq(Frame), NEW x \in Frame
  PROVE  /\ Append(s, x) \in Seq(Frame)
         /\ Owed(Append(s, x)) = Owed(s) \cup Owes(x) /\ Heads(Append(s, x)) = Heads(s) \cup HeadOf(x)
<1> DEFINE u == Append(s, x)
<1>1. u \in Seq(Frame) /\ DOMAIN u = 1 .. Len(s) + 1 /\ DOMAIN s = 1 .. Len(s) /\ Len(s) \in Nat
  OBVIOUS
<1>2. u[Len(s) + 1] = x /\ \A i \in 1 .. Len(s) : u[i] = s[i]
  OBVIOUS
<1>3. DOMAIN u = DOMAIN s \cup {Len(s) + 1}
  BY <1>1
<1> HIDE DEF u
<1>4. Owed(u) = Owed(s) \cup Owes(x)
  BY <1>1, <1>2, <1>3 DEF Owed
<1>5. Heads(u) = Heads(s) \cup HeadOf(x)
  BY <1>1, <1>2, <1>3 DEF Heads
<1> QED
  BY <1>1, <1>4, <1>5 DEF u

\* A frame that keeps no block.
Bare(x) == x \in Frame /\ Owes(x) = {} /\ HeadOf(x) = {}

\* With such a frame more nothing changes for the blocks that are kept.
LEMMA PushBare ==
  ASSUME NEW s \in Seq(Frame), NEW x, Bare(x), NEW q, NEW in, Headed(q, in, s)
  PROVE  LET u == Append(s, x)
         IN  u \in Seq(Frame) /\ Headed(q, in, u) /\ Owed(u) = Owed(s)
BY AppendOwes, PushHeaded DEF Bare

\* The blocks can be ranked, and the loops that are visited keep their entry.
LoopInv == (\E r : Ranked(g.succ, insert, Owed(stk), r)) /\ Headed(g.succ, insert, stk)

\* What the parts of the invariant say of the edges while a visit is in
\* progress: owed blocks and new ones lead nowhere yet.
LEMMA EdgesNow ==
  ASSUME IInv, EdgesOK(g), stk # << >>
  PROVE  /\ g.succ \in [Block -> Seq(Block)] /\ insert \in Block
         /\ stk \in Seq(Frame) /\ Below \in Seq(Frame)
         /\ Heads(stk) \subseteq Block /\ Heads(Below) \subseteq Heads(stk)
         /\ ~HasTerminator(g, insert) => g.succ[insert] = << >>
         /\ \A b \in Owed(stk) : b \in Block /\ b # insert /\ g.succ[b] = << >>
         /\ \A b \in Block : b > g.n =>
              /\ b # insert /\ b \notin Owed(stk) /\ g.succ[b] = << >>
              /\ \A d \in Block : b \notin Avoiding(g.succ, d)
<1>1. /\ GraphOK(g, insert, Owed(stk), Falses(stk)) /\ StackOK(stk) /\ g.bbs \subseteq Block
      /\ Heads(stk) \subseteq g.bbs
  BY InProgress
<1>2. /\ g.succ \in [Block -> Seq(Block)] /\ g.n \in Nat /\ insert \in Block
      /\ ~HasTerminator(g, insert) => g.succ[insert] = << >>
  <2>1. insert \in Block
    BY DEF IInv
  <2>2. g.succ \in [Block -> Seq(Block)] /\ g.n \in Nat
    BY DEF EdgesOK, Graph
  <2>3. g.succ[insert] = Targets(g, insert)
    BY <2>1 DEF EdgesOK
  <2> QED
    BY <2>1, <2>2, <2>3 DEF Targets
<1>3. stk \in Seq(Frame) /\ Below \in Seq(Frame)
  BY <1>1, BelowIs DEF StackOK, Below
<1>4. Heads(stk) \subseteq Block /\ Heads(Below) \subseteq Heads(stk)
  BY <1>1, BelowOwes
<1>5. \A b \in Owed(stk) : b \in Block /\ b # insert /\ g.succ[b] = << >>
  BY <1>1 DEF GraphOK
<1>6. ASSUME NEW b \in Block, b > g.n
      PROVE  /\ b # insert /\ b \notin Owed(stk) /\ g.succ[b] = << >>
             /\ \A d \in Block : b \notin Avoiding(g.succ, d)
  <2>1. b \notin g.bbs /\ Entry \in g.bbs /\ insert \in g.bbs /\ Owed(stk) \subseteq g.bbs
    BY <1>1, <1>2, <1>6 DEF GraphOK
  <2>2. g.succ[b] = << >> /\ g.pre[b] = << >>
    BY <1>1, <1>6 DEF GraphOK
  <2>3. \A a \in Block : b \notin Elems(g.succ[a])
    BY <2>2 DEF EdgesOK, Listed
  <2>4. \A d \in Block : b \notin Avoiding(g.succ, d)
    BY <1>2, <2>1, <2>3, NothingLeadsTo
  <2> QED
    BY <2>1, <2>2, <2>4
<1> QED
  BY <1>2, <1>3, <1>4, <1>5, <1>6

\* A branch and the blocks it makes the next ones, below which the stack s
\* stays as it is.
Going(s, to, up, owed2) ==
  /\ s = stk \/ s = Below
  /\ to \in Seq(Block) /\ Linking(g.succ, g'.succ, insert, to)
  /\ up \in SUBSET Block /\ insert' \in up
  /\ \A b \in up : b # insert /\ g.succ[b] = << >> /\ \A d \in Heads(s) : b \notin Avoiding(g.succ, d)
  /\ Owed(stk) \subseteq owed2 \cup up
  /\ \A t \in Elems(to) : t \in owed2 \/ t \in up \/ insert \notin Avoiding(g.succ, t)

\* The blocks stay ranked, and the loops below keep their entry.
LEMMA Goes ==
  ASSUME IInv, EdgesOK(g), LoopInv, stk # << >>, NEW s, NEW to, NEW up, NEW owed2,
         Going(s, to, up, owed2)
  PROVE  /\ \E r : Ranked(g'.succ, insert', owed2, r)
         /\ Headed(g'.succ, insert', s) /\ s \in Seq(Frame)
         /\ \A d \in Heads(s) : Avoiding(g'.succ, d) \subseteq Avoiding(g.succ, d)
<1>1. /\ g.succ \in [Block -> Seq(Block)] /\ insert \in Block /\ s \in Seq(Frame) /\ stk \in Seq(Frame)
      /\ Heads(s) \subseteq Block
  BY EdgesNow DEF Going
<1>2. PICK r : Ranked(g.succ, insert, Owed(stk), r)
  BY DEF LoopInv
<1> DEFINE q == g.succ
           q2 == g'.succ
           in2 == insert'
           owed == Owed(stk)
<1>3. /\ q \in [Block -> Seq(Block)] /\ Ranked(q, insert, owed, r)
      /\ to \in Seq(Block) /\ Linking(q, q2, insert, to)
      /\ in2 \in up /\ \A b \in up : \A d \in Heads(s) : b \notin Avoiding(q, d)
      /\ Rising(q, insert, owed, to, up, in2, owed2)
  BY <1>1, <1>2 DEF Going, Rising
<1>4. Headed(q, insert, s)
  <2>1. Headed(q, insert, stk)
    BY DEF LoopInv
  <2>2. Headed(q, insert, Below)
    BY <1>1, <2>1, PopHeaded DEF Below
  <2> QED
    BY <2>1, <2>2 DEF Going
<1> HIDE DEF q, q2, in2, owed
<1>5. \E r2 : Ranked(q2, in2, owed2, r2)
  BY <1>1, <1>3, RankedStep
<1>6. ASSUME NEW d \in Heads(s)
      PROVE  Avoiding(q2, d) \subseteq Avoiding(q, d) /\ in2 \notin Avoiding(q2, d)
  <2>1. d \in Block /\ insert \notin Avoiding(q, d)
    <3>1. PICK i \in 1 .. Len(s) : d \in HeadOf(s[i])
      BY <1>1 DEF Heads
    <3> QED
      BY <1>1, <1>4, <3>1 DEF Headed
  <2>2. Avoiding(q2, d) \subseteq Avoiding(q, d)
    BY <1>1, <1>3, <2>1, LinkReaches
  <2> QED
    BY <1>3, <2>2
<1>7. Headed(q2, in2, s)
  BY <1>1, <1>4, <1>6, MoveHeaded
<1> QED
  BY <1>1, <1>5, <1>6, <1>7 DEF q, q2, in2

\* Two frames more, one of them bare.
LEMMA TwoMore ==
  ASSUME NEW s \in Seq(Frame), NEW x \in Frame, NEW y, Bare(y), NEW q, NEW in, Headed(q, in, s),
         \A d \in Heads(s) : Owes(x) \cap Avoiding(q, d) = {},
         \A d \in HeadOf(x) : in \notin Avoiding(q, d)
  PROVE  Headed(q, in, s \o <<x, y>>) /\ Owed(s \o <<x, y>>) = Owed(s) \cup Owes(x)
<1>1. y \in Frame
  BY DEF Bare
<1>2. s \o <<x, y>> = Append(Append(s, x), y)
  BY <1>1
<1> DEFINE u == Append(s, x)
<1>3. u \in Seq(Frame) /\ Headed(q, in, u) /\ Owed(u) = Owed(s) \cup Owes(x)
  BY AppendOwes, PushHeaded
<1> HIDE DEF u
<1>4. Headed(q, in, Append(u, y)) /\ Owed(Append(u, y)) = Owed(u)
  BY <1>3, PushBare
<1> QED
  BY <1>2, <1>3, <1>4 DEF u

\* Bare frames more.
LEMMA BareMore ==
  ASSUME NEW s \in Seq(Frame), NEW x, Bare(x), NEW y, Bare(y), NEW q, NEW in, Headed(q, in, s)
  PROVE  /\ Headed(q, in, s \o << >>) /\ Owed(s \o << >>) = Owed(s)
         /\ Headed(q, in, s \o <<x>>) /\ Owed(s \o <<x>>) = Owed(s)
         /\ Headed(q, in, s \o <<x, y>>) /\ Owed(s \o <<x, y>>) = Owed(s)
         /\ Append(s \o <<x>>, y) = s \o <<x, y>>
<1>1. x \in Frame /\ y \in Frame /\ Owes(x) = {} /\ HeadOf(x) = {}
  BY DEF Bare
<1>2. s \o << >> = s /\ s \o <<x>> = Append(s, x) /\ Append(s \o <<x>>, y) = s \o <<x, y>>
  BY <1>1
<1>3. Headed(q, in, Append(s, x)) /\ Owed(Append(s, x)) = Owed(s)
  BY PushBare
<1>4. Headed(q, in, s \o <<x, y>>) /\ Owed(s \o <<x, y>>) = Owed(s)
  BY <1>1, TwoMore
<1> QED
  BY <1>2, <1>3, <1>4

\* The frames that keep no block.
LEMMA BareFrames ==
  /\ Bare(Body) /\ Bare(Fun) /\ Bare(Stmt) /\ Bare(Expr) /\ Bare(Return)
  /\ Bare(Compound(Shared)) /\ Bare(Compound(Own)) /\ \A e \in BOOLEAN : Bare(IfCond(e))
<1>1. ASSUME NEW a \in FrameAt \ {"ifTrue", "ifElseTrue", "ifFalse", "whileCond", "whileBody"}
      PROVE  Bare([at |-> a, blocks |-> << >>])
  BY BareFrame DEF Bare, FrameOK
<1> QED
  BY <1>1 DEF Body, Fun, Stmt, Expr, Return, Compound, Shared, Own, IfCond, FrameAt

\* The targets of a branch on a condition, and of a jump.
LEMMA TwoTargets ==
  ASSUME NEW a \in Block, NEW b \in Block
  PROVE  <<a, b>> \in Seq(Block) /\ Elems(<<a, b>>) = {a, b} /\ <<a>> \in Seq(Block) /\ Elems(<<a>>) = {a}
BY DEF Elems

\* At most two frames are put on the stack s, and they keep no block.
BareOn(s) ==
  \/ stk' = s \/ stk' = s \o << >>
  \/ \E x : Bare(x) /\ (stk' = s \o <<x>> \/ stk' = Append(s, x))
  \/ \E x, y : Bare(x) /\ Bare(y) /\ (stk' = s \o <<x, y>> \/ stk' = Append(s \o <<x>>, y))

\* Nothing changes for the blocks that are kept.
LEMMA BareOnKeeps ==
  ASSUME NEW s \in Seq(Frame), BareOn(s), NEW q, NEW in, Headed(q, in, s)
  PROVE  Headed(q, in, stk') /\ Owed(stk') = Owed(s)
<1>1. CASE stk' = s
  BY <1>1
<1>2. CASE stk' = s \o << >>
  <2>1. s \o << >> = s
    OBVIOUS
  <2> QED
    BY <1>2, <2>1
<1>3. ASSUME NEW x, Bare(x), stk' = s \o <<x>> \/ stk' = Append(s, x)
      PROVE  Headed(q, in, stk') /\ Owed(stk') = Owed(s)
  <2>1. s \o <<x>> = Append(s, x)
    BY <1>3 DEF Bare
  <2> QED
    BY <1>3, <2>1, PushBare
<1>4. ASSUME NEW x, NEW y, Bare(x), Bare(y), stk' = s \o <<x, y>> \/ stk' = Append(s \o <<x>>, y)
      PROVE  Headed(q, in, stk') /\ Owed(stk') = Owed(s)
  <2>1. /\ Headed(q, in, s \o <<x, y>>) /\ Owed(s \o <<x, y>>) = Owed(s)
        /\ Append(s \o <<x>>, y) = s \o <<x, y>>
    BY <1>4, BareMore
  <2> QED
    BY <1>4, <2>1
<1> QED
  BY <1>1, <1>2, <1>3, <1>4 DEF BareOn

\* Steps that change no edge only put bare frames on the stack, or take them.
LEMMA UnlinkedLoops ==
  ASSUME IInv, EdgesOK(g), LoopInv, Unlinked
  PROVE  LoopInv'
<1> DEFINE kept == insert' = insert /\ (BareOn(stk) \/ (stk # << >> /\ Bare(Top) /\ BareOn(Below)))
<1>0. stk \in Seq(Frame) /\ (stk # << >> => FrameOK(Top))
  BY BelowOwes DEF IInv, StackOK
<1>1. ASSUME stk # << >>, Top.at \notin {"ifTrue", "ifElseTrue", "ifFalse", "whileCond", "whileBody"}
      PROVE  Bare(Top)
  BY <1>0, <1>1, NothingOwed DEF Bare, FrameOK
<1>2. kept
  <2>1. CASE VisitGlobalVarDeclaration
    BY <2>1 DEF VisitGlobalVarDeclaration, BareOn
  <2>2. CASE EndFunDeclaration \/ EndCompoundStmt \/ EndExpression \/ EndReturn
    <3>1. stk # << >> /\ Top.at \in {"fun", Shared, Own, "expr", "return"} /\ stk' = Below /\ insert' = insert
      BY <2>2 DEF EndFunDeclaration, EndCompoundStmt, EndExpression, EndReturn, At
    <3> QED
      BY <1>1, <3>1 DEF Shared, Own, BareOn
  <2>3. CASE VisitBody \/ VisitCompoundStmt
    <3>1. stk # << >> /\ Top.at \in {"body", "stmt"} /\ EnterCompound(Below) /\ insert' = insert
      BY <2>3 DEF VisitBody, VisitCompoundStmt, At, EnterCompound
    <3> DEFINE x == Compound(IF preEnter THEN Shared ELSE Own)
    <3>2. Bare(x) /\ Bare(Stmt)
      BY BareFrames
    <3> HIDE DEF x
    <3>3. stk' = Below \o <<x>> \/ stk' = Append(Below \o <<x>>, Stmt)
      BY <3>1 DEF EnterCompound, x
    <3> QED
      BY <1>1, <3>1, <3>2, <3>3 DEF BareOn
  <2>4. CASE NextStatement
    BY <2>4, BareFrames DEF NextStatement, BareOn
  <2>5. ASSUME NEW frames, Visit(frames), insert' = insert,
               \/ frames = << >>
               \/ \E x : Bare(x) /\ frames = <<x>>
               \/ \E x, y : Bare(x) /\ Bare(y) /\ frames = <<x, y>>
        PROVE  kept
    <3>1. stk # << >> /\ Top.at = "stmt" /\ stk' = Below \o frames
      BY <2>5 DEF Visit, At
    <3>2. Bare(Top)
      BY <1>1, <3>1
    <3> QED
      BY <2>5, <3>1, <3>2 DEF BareOn
  <2>6. CASE VisitExpressionStmt \/ VisitReturnVoid \/ VisitReturnValue
    <3>1. /\ insert' = insert
          /\ Visit(<< >>) \/ Visit(<<Expr>>) \/ Visit(<<Return, Expr>>)
      BY <2>6 DEF VisitExpressionStmt, VisitReturnVoid, VisitReturnValue
    <3> HIDE DEF kept
    <3> QED
      BY <2>5, <3>1, BareFrames
  <2>7. ASSUME NEW e \in BOOLEAN, VisitSelectionStmt(e) PROVE kept
    <3>1. insert' = insert /\ Visit(<<IfCond(e), Expr>>) /\ Bare(IfCond(e)) /\ Bare(Expr)
      BY <2>7, BareFrames DEF VisitSelectionStmt
    <3> HIDE DEF kept
    <3> QED
      BY <2>5, <3>1
  <2> HIDE DEF kept
  <2> QED
    BY <2>1, <2>2, <2>3, <2>4, <2>6, <2>7 DEF Unlinked
<1>3. g'.succ = g.succ
  BY UnlinkedIs, SameKept DEF IInv
<1>5. Headed(g.succ, insert, stk) /\ (stk # << >> /\ Bare(Top) =>
        Below \in Seq(Frame) /\ Headed(g.succ, insert, Below) /\ Owed(Below) = Owed(stk))
  <2>1. Headed(g.succ, insert, stk)
    BY DEF LoopInv
  <2>2. ASSUME stk # << >>, Bare(Top)
        PROVE  Below \in Seq(Frame) /\ Headed(g.succ, insert, Below) /\ Owed(Below) = Owed(stk)
    <3>1. Below \in Seq(Frame) /\ Headed(g.succ, insert, Below)
      BY <1>0, <2>1, <2>2, BelowIs, PopHeaded DEF Below
    <3>2. Owed(Below) = Owed(stk)
      BY <2>2, BelowOwes DEF Bare
    <3> QED
      BY <3>1, <3>2
  <2> QED
    BY <2>1, <2>2
<1>6. Headed(g.succ, insert, stk') /\ Owed(stk') = Owed(stk)
  <2>1. CASE BareOn(stk)
    BY <1>0, <1>5, <2>1, BareOnKeeps
  <2>2. CASE stk # << >> /\ Bare(Top) /\ BareOn(Below)
    <3>1. Headed(g.succ, insert, stk') /\ Owed(stk') = Owed(Below)
      BY <1>5, <2>2, BareOnKeeps
    <3> QED
      BY <1>5, <2>2, <3>1
  <2> QED
    BY <1>2, <2>1, <2>2
<1>7. insert' = insert
  BY <1>2
<1>8. PICK r : Ranked(g.succ, insert, Owed(stk), r)
  BY DEF LoopInv
<1>9. Ranked(g.succ', insert', Owed(stk'), r) /\ Headed(g.succ', insert', stk')
  BY <1>3, <1>5, <1>6, <1>7, <1>8
<1>10. Owed(stk)' = Owed(stk') /\ Headed(g.succ, insert, stk)' = Headed(g.succ', insert', stk')
  BY DEF Owed, Headed
<1> QED
  BY <1>9, <1>10 DEF LoopInv

\* With no edges there is no loop.
LEMMA FunDeclarationLoops ==
  ASSUME NEW params \in BOOLEAN, VisitFunDeclaration(params)
  PROVE  LoopInv'
<1>1. g'.succ = [b \in Block |-> << >>] /\ stk' = <<Fun, Body>>
  BY FunDeclarationEdges DEF VisitFunDeclaration
<1>2. \A b \in Block : Elems(g'.succ[b]) = {} /\ g'.succ[b] = << >>
  BY <1>1 DEF Elems
<1>3. Ranked(g'.succ, insert', Owed(stk'), [b \in Block |-> 0])
  BY <1>2 DEF Ranked
<1>4. HeadOf(Fun) = {} /\ HeadOf(Body) = {}
  BY DEF HeadOf, Fun, Body
<1>5. \A i \in 1 .. Len(stk') : HeadOf(stk'[i]) = {}
  BY <1>1, <1>4
<1>6. Headed(g'.succ, insert', stk')
  BY <1>5 DEF Headed
<1> QED
  BY <1>3, <1>6 DEF LoopInv

\* A step that goes on with what is below, and one with two frames more.
LEMMA GoesBack ==
  ASSUME IInv, EdgesOK(g), LoopInv, stk # << >>, NEW s, NEW to, NEW up,
         Going(s, to, up, Owed(s)), stk' = s
  PROVE  LoopInv'
<1>1. (\E r : Ranked(g'.succ, insert', Owed(s), r)) /\ Headed(g'.succ, insert', s)
  <2> DEFINE o == Owed(s)
  <2>1. Going(s, to, up, o)
    OBVIOUS
  <2> HIDE DEF o
  <2>2. (\E r : Ranked(g'.succ, insert', o, r)) /\ Headed(g'.succ, insert', s)
    BY <2>1, Goes
  <2> QED
    BY <2>2 DEF o
<1>2. Owed(stk)' = Owed(s) /\ Headed(g.succ, insert, stk)' = Headed(g'.succ, insert', s)
  BY DEF Owed, Headed
<1>3. PICK r : Ranked(g'.succ, insert', Owed(s), r)
  BY <1>1
<1>4. Ranked(g.succ, insert, Owed(stk), r)' = Ranked(g'.succ, insert', Owed(s), r)
  BY <1>2 DEF Ranked
<1> QED
  BY <1>1, <1>2, <1>3, <1>4 DEF LoopInv

\* With two frames more.
LEMMA GoesOn ==
  ASSUME IInv, EdgesOK(g), LoopInv, stk # << >>, NEW to, NEW up, NEW x \in Frame,
         Going(Below, to, up, Owed(Below) \cup Owes(x)),
         \A d \in Heads(Below) : Owes(x) \cap Avoiding(g.succ, d) = {},
         \A d \in HeadOf(x) : insert' \notin Avoiding(g'.succ, d),
         NEW y, Bare(y), stk' = Below \o <<x, y>>
  PROVE  LoopInv'
<1> DEFINE o == Owed(Below) \cup Owes(x)
           u == Below \o <<x, y>>
<1>1. Going(Below, to, up, o)
  OBVIOUS
<1> HIDE DEF o
<1>2. /\ \E r : Ranked(g'.succ, insert', o, r)
      /\ Headed(g'.succ, insert', Below) /\ Below \in Seq(Frame)
      /\ \A d \in Heads(Below) : Avoiding(g'.succ, d) \subseteq Avoiding(g.succ, d)
  BY <1>1, Goes
<1>3. \A d \in Heads(Below) : Owes(x) \cap Avoiding(g'.succ, d) = {}
  BY <1>2
<1>4. Headed(g'.succ, insert', u) /\ Owed(u) = Owed(Below) \cup Owes(x)
  BY <1>2, <1>3, TwoMore
<1>5. PICK r : Ranked(g'.succ, insert', o, r)
  BY <1>2
<1>6. stk' = u
  OBVIOUS
<1> HIDE DEF u
<1>7. Ranked(g'.succ, insert', Owed(stk'), r) /\ Headed(g'.succ, insert', stk')
  BY <1>4, <1>5, <1>6 DEF o
<1>8. Owed(stk)' = Owed(stk') /\ Headed(g.succ, insert, stk)' = Headed(g'.succ, insert', stk')
  BY DEF Owed, Headed
<1>9. Ranked(g.succ, insert, Owed(stk), r)' = Ranked(g'.succ, insert', Owed(stk'), r)
  BY <1>8 DEF Ranked
<1> QED
  BY <1>7, <1>8, <1>9 DEF LoopInv

\* The blocks of an index check.
LEMMA IndexedVarLoops ==
  ASSUME IInv, EdgesOK(g), LoopInv, VisitIndexedVar
  PROVE  LoopInv'
<1> DEFINE e == g.n + 1
           c == g.n + 2
           to == <<c, e>>
<1>1. stk # << >> /\ Top.at = "expr" /\ g.n + 2 <= MaxBlocks /\ insert' = c /\ stk' = stk
  BY DEF VisitIndexedVar, At, Room
<1>2. g'.succ = [g.succ EXCEPT ![insert] = to]
  BY IndexedVarEdges
<1>3. e \in Block /\ c \in Block /\ e > g.n /\ c > g.n
  <2>1. g.n \in Nat
    BY DEF EdgesOK, Graph
  <2> QED
    BY <1>1, <2>1, MaxBlocksAssumption DEF Block
<1> HIDE DEF e, c
<1>4. /\ g.succ \in [Block -> Seq(Block)] /\ insert \in Block /\ g.succ[insert] = << >>
      /\ \A b \in {c, e} : b # insert /\ g.succ[b] = << >> /\ \A d \in Heads(stk) : b \notin Avoiding(g.succ, d)
  <2>1. ~HasTerminator(g, insert)
    BY <1>1, OpenVisit DEF OpenAts
  <2> QED
    BY <1>1, <1>3, <2>1, EdgesNow
<1>5. to \in Seq(Block) /\ Elems(to) = {c, e}
  BY <1>3, TwoTargets
<1> HIDE DEF to
<1>6. Linking(g.succ, g'.succ, insert, to)
  BY <1>2, <1>4, <1>5 DEF Linking
<1>7. Going(stk, to, {c, e}, Owed(stk))
  BY <1>1, <1>3, <1>4, <1>5, <1>6 DEF Going
<1> QED
  BY <1>1, <1>7, GoesBack

\* The blocks of an if.
LEMMA SelectionBranchLoops ==
  ASSUME IInv, EdgesOK(g), LoopInv, NEW e \in BOOLEAN, SelectionBranch(e)
  PROVE  LoopInv'
<1> DEFINE t == g.n + 1
           f == g.n + 2
           c == g.n + 3
           o == IF e THEN f ELSE c
           to == <<o, t>>
           x == AfterTrue(e, f, c)
<1>1. /\ stk # << >> /\ Top.at \in {"ifCond", "ifElseCond"} /\ g.n + 3 <= MaxBlocks
      /\ insert' = t /\ stk' = Below \o <<x, Stmt>>
  BY DEF SelectionBranch, At, Room, IfCond
<1>2. g'.succ = [g.succ EXCEPT ![insert] = to]
  BY SelectionBranchEdges
<1>3. /\ t \in Block /\ f \in Block /\ c \in Block /\ t > g.n /\ f > g.n /\ c > g.n
      /\ f # c
  <2>1. g.n \in Nat
    BY DEF EdgesOK, Graph
  <2> QED
    BY <1>1, <2>1, MaxBlocksAssumption DEF Block
<1>4. x \in Frame /\ Owes(x) = {f, c} /\ HeadOf(x) = {}
  <2> HIDE DEF f, c
  <2> QED
    BY <1>3, AfterTrueFrame DEF FrameOK
<1> HIDE DEF t, f, c, x
<1>5. /\ g.succ \in [Block -> Seq(Block)] /\ insert \in Block /\ g.succ[insert] = << >>
      /\ \A b \in {t, f, c} : b # insert /\ g.succ[b] = << >> /\ \A d \in Heads(Below) : b \notin Avoiding(g.succ, d)
  <2>1. ~HasTerminator(g, insert)
    BY <1>1, OpenVisit DEF OpenAts, Conds
  <2> QED
    BY <1>1, <1>3, <2>1, EdgesNow
<1>6. to \in Seq(Block) /\ Elems(to) = {o, t} /\ o \in {f, c}
  BY <1>3, TwoTargets
<1> HIDE DEF to
<1>7. Linking(g.succ, g'.succ, insert, to)
  BY <1>2, <1>5, <1>6 DEF Linking
<1>8. Owed(stk) \subseteq Owed(Below) \cup Owes(Top) /\ Owes(Top) = {}
  BY <1>1, BelowOwes, NothingOwed
<1>9. Going(Below, to, {t}, Owed(Below) \cup Owes(x))
  BY <1>1, <1>3, <1>4, <1>5, <1>6, <1>7, <1>8 DEF Going
<1>10. /\ \A d \in Heads(Below) : Owes(x) \cap Avoiding(g.succ, d) = {}
       /\ \A d \in HeadOf(x) : insert' \notin Avoiding(g'.succ, d)
  BY <1>4, <1>5
<1> QED
  BY <1>1, <1>4, <1>9, <1>10, BareFrames, GoesOn

\* The block of a loop's condition: all ways to it go through it.
LEMMA IterationStmtLoops ==
  ASSUME IInv, EdgesOK(g), LoopInv, VisitIterationStmt
  PROVE  LoopInv'
<1> DEFINE head == g.n + 1
           to == <<head>>
           x == WhileCond(head)
<1>1. Visit(<<x, Expr>>) /\ g.n + 3 <= MaxBlocks /\ insert' = head
  BY DEF VisitIterationStmt, Room
<1>2. /\ stk # << >> /\ Top.at = "stmt" /\ stk' = Below \o <<x, Expr>> /\ ~HasTerminator(g, insert)
  BY <1>1, Visited
<1>3. g'.succ = [g.succ EXCEPT ![insert] = to]
  BY IterationStmtEdges
<1>4. head \in Block /\ head > g.n
  <2>1. g.n \in Nat
    BY DEF EdgesOK, Graph
  <2> QED
    BY <1>1, <2>1, MaxBlocksAssumption DEF Block
<1> HIDE DEF head
<1>5. x \in Frame /\ Owes(x) = {} /\ HeadOf(x) = {head}
  <2>1. <<head>> \in Seq(Block) /\ <<head>>[1] = head
    BY <1>4
  <2>2. x \in Frame /\ x.at = "whileCond" /\ x.blocks = <<head>>
    BY <2>1 DEF WhileCond, Frame, FrameAt
  <2> HIDE DEF x
  <2> QED
    BY <2>1, <2>2 DEF Owes, HeadOf
<1> HIDE DEF x
<1>6. /\ g.succ \in [Block -> Seq(Block)] /\ insert \in Block /\ g.succ[insert] = << >>
      /\ head # insert /\ g.succ[head] = << >> /\ \A d \in Heads(Below) : head \notin Avoiding(g.succ, d)
  BY <1>2, <1>4, EdgesNow
<1>7. to \in Seq(Block) /\ Elems(to) = {head}
  BY <1>4, TwoTargets
<1> HIDE DEF to
<1>8. Linking(g.succ, g'.succ, insert, to)
  BY <1>3, <1>6, <1>7 DEF Linking
<1>9. Owed(stk) \subseteq Owed(Below) \cup Owes(Top) /\ Owes(Top) = {}
  BY <1>2, BelowOwes, NothingOwed
<1>10. Going(Below, to, {head}, Owed(Below) \cup Owes(x))
  BY <1>1, <1>4, <1>5, <1>6, <1>7, <1>8, <1>9 DEF Going
<1>11. head \notin Avoiding(g'.succ, head)
  <2>1. g'.succ \in [Block -> Seq(Block)]
    BY <1>3, <1>6, <1>7
  <2> QED
    BY <1>4, <2>1, AvoidingClosed
<1> QED
  BY <1>1, <1>2, <1>5, <1>10, <1>11, BareFrames, GoesOn

\* All ways to the insertion block, and to what the innermost visit owes, go
\* through the conditions of the loops around.
LEMMA TopHeaded ==
  ASSUME IInv, EdgesOK(g), LoopInv, stk # << >>
  PROVE  /\ \A d \in Heads(Below) : insert \notin Avoiding(g.succ, d) /\ Owes(Top) \cap Avoiding(g.succ, d) = {}
         /\ \A d \in HeadOf(Top) : insert \notin Avoiding(g.succ, d)
<1>1. stk \in Seq(Frame) /\ Headed(g.succ, insert, stk)
  BY EdgesNow DEF LoopInv
<1> QED
  BY <1>1, PopHeaded DEF Below, Top

\* A loop's condition, its body next.
LEMMA IterationBranchLoops ==
  ASSUME IInv, EdgesOK(g), LoopInv, IterationBranch
  PROVE  LoopInv'
<1> DEFINE t == g.n + 1
           c == g.n + 2
           to == <<c, t>>
           head == Top.blocks[1]
           x == AfterBody(head, c)
<1>1. /\ stk # << >> /\ Top.at = "whileCond" /\ g.n + 2 <= MaxBlocks
      /\ insert' = t /\ stk' = Below \o <<x, Stmt>>
  BY DEF IterationBranch, At, Room
<1>2. g'.succ = [g.succ EXCEPT ![insert] = to]
  BY IterationBranchEdges
<1>3. t \in Block /\ c \in Block /\ t > g.n /\ c > g.n
  <2>1. g.n \in Nat
    BY DEF EdgesOK, Graph
  <2> QED
    BY <1>1, <2>1, MaxBlocksAssumption DEF Block
<1>4. head \in Block /\ HeadOf(Top) = {head}
  BY <1>1, FrameBlocks
<1> HIDE DEF t, c, head
<1>5. x \in Frame /\ Owes(x) = {c} /\ HeadOf(x) = {head}
  <2>1. <<head, c>> \in Seq(Block) /\ <<head, c>>[1] = head /\ <<head, c>>[2] = c
    BY <1>3, <1>4
  <2>2. x \in Frame /\ x.at = "whileBody" /\ x.blocks = <<head, c>>
    BY <2>1 DEF AfterBody, Frame, FrameAt
  <2> HIDE DEF x
  <2> QED
    BY <2>1, <2>2 DEF Owes, HeadOf
<1> HIDE DEF x
<1>6. /\ g.succ \in [Block -> Seq(Block)] /\ insert \in Block /\ g.succ[insert] = << >>
      /\ \A b \in {t, c} : b # insert /\ g.succ[b] = << >> /\ \A d \in Block : b \notin Avoiding(g.succ, d)
      /\ Heads(Below) \subseteq Block
  <2>1. ~HasTerminator(g, insert)
    BY <1>1, OpenVisit DEF OpenAts, Conds
  <2> QED
    BY <1>1, <1>3, <2>1, EdgesNow
<1>7. to \in Seq(Block) /\ Elems(to) = {c, t}
  BY <1>3, TwoTargets
<1> HIDE DEF to
<1>8. Linking(g.succ, g'.succ, insert, to)
  BY <1>2, <1>6, <1>7 DEF Linking
<1>9. Owed(stk) \subseteq Owed(Below) \cup Owes(Top) /\ Owes(Top) = {}
  BY <1>1, BelowOwes, NothingOwed
<1>10. Going(Below, to, {t}, Owed(Below) \cup Owes(x))
  BY <1>1, <1>3, <1>5, <1>6, <1>7, <1>8, <1>9 DEF Going
<1>11. t \notin Avoiding(g'.succ, head)
  <2>1. insert \notin Avoiding(g.succ, head)
    BY <1>1, <1>4, TopHeaded
  <2> DEFINE q == g.succ
             q2 == g'.succ
  <2>2. q \in [Block -> Seq(Block)] /\ Linking(q, q2, insert, to) /\ insert \notin Avoiding(q, head)
    BY <1>6, <1>8, <2>1
  <2> HIDE DEF q, q2
  <2>3. Avoiding(q2, head) \subseteq Avoiding(q, head)
    BY <1>4, <1>6, <1>7, <2>2, LinkReaches
  <2> QED
    BY <1>4, <1>6, <2>3 DEF q, q2
<1>12. \A d \in Heads(Below) : Owes(x) \cap Avoiding(g.succ, d) = {}
  BY <1>5, <1>6
<1> QED
  BY <1>1, <1>5, <1>10, <1>11, <1>12, BareFrames, GoesOn

\* The end of a branch or a body: the insertion block is linked to b, and the
\* next one is one of those the innermost visit owes.
LEMMA EndGoes ==
  ASSUME IInv, EdgesOK(g), LoopInv, stk # << >>, NEW b \in Block, LinkedTo(b),
         NEW up \in SUBSET Owes(Top), insert' \in up, NEW owed2, Owed(stk) \subseteq owed2 \cup up,
         (b \in Owes(Top) /\ b \in owed2 \cup up) \/ insert \notin Avoiding(g.succ, b)
  PROVE  Going(Below, <<b>>, up, owed2)
<1>1. /\ g.succ \in [Block -> Seq(Block)] /\ insert \in Block
      /\ ~HasTerminator(g, insert) => g.succ[insert] = << >>
      /\ \A c \in Owed(stk) : c \in Block /\ c # insert /\ g.succ[c] = << >>
  BY EdgesNow
<1>2. Owes(Top) \subseteq Owed(stk)
  BY BelowOwes
<1>3. <<b>> \in Seq(Block) /\ Elems(<<b>>) = {b}
  BY TwoTargets
<1>4. Linking(g.succ, g'.succ, insert, <<b>>)
  <2>1. \A c \in Elems(<<b>>) : g.succ[c] = << >> \/ insert \notin Avoiding(g.succ, c)
    BY <1>1, <1>2, <1>3
  <2>2. g'.succ = g.succ \/ (g.succ[insert] = << >> /\ g'.succ = [g.succ EXCEPT ![insert] = <<b>>])
    BY <1>1 DEF LinkedTo
  <2> QED
    BY <2>1, <2>2 DEF Linking
<1>5. \A c \in up : c \in Block /\ c # insert /\ g.succ[c] = << >>
                    /\ \A d \in Heads(Below) : c \notin Avoiding(g.succ, d)
  <2>1. \A d \in Heads(Below) : Owes(Top) \cap Avoiding(g.succ, d) = {}
    BY TopHeaded
  <2> QED
    BY <1>1, <1>2, <2>1
<1> QED
  BY <1>3, <1>4, <1>5 DEF Going

\* The end of an if without else: its false block was never one.
LEMMA EndTrueNoElseLoops ==
  ASSUME IInv, EdgesOK(g), LoopInv, EndTrueNoElse
  PROVE  LoopInv'
<1> DEFINE f == Top.blocks[1]
           c == Top.blocks[2]
<1>1. stk # << >> /\ Top.at = "ifTrue" /\ insert' = c /\ stk' = Below
  BY DEF EndTrueNoElse, At
<1>2. f \in Block /\ c \in Block /\ Owes(Top) = {f, c} /\ LinkedTo(c)
  BY <1>1, FrameBlocks, EndTrueNoElseEdges
<1> HIDE DEF f, c
<1>3. Owed(stk) \subseteq Owed(Below) \cup {f, c}
  BY <1>1, <1>2, BelowOwes
<1>4. Going(Below, <<c>>, {f, c}, Owed(Below))
  BY <1>1, <1>2, <1>3, EndGoes
<1> QED
  BY <1>1, <1>4, GoesBack

\* The end of a false branch, or of the only one.
LEMMA EndFalseLoops ==
  ASSUME IInv, EdgesOK(g), LoopInv, EndFalse
  PROVE  LoopInv'
<1> DEFINE c == Top.blocks[1]
<1>1. stk # << >> /\ Top.at = "ifFalse" /\ insert' = c /\ stk' = Below
  BY DEF EndFalse, At
<1>2. c \in Block /\ Owes(Top) = {c} /\ LinkedTo(c)
  BY <1>1, FrameBlocks, EndFalseEdges
<1> HIDE DEF c
<1>3. Owed(stk) \subseteq Owed(Below) \cup {c}
  BY <1>1, <1>2, BelowOwes
<1>4. Going(Below, <<c>>, {c}, Owed(Below))
  BY <1>1, <1>2, <1>3, EndGoes
<1> QED
  BY <1>1, <1>4, GoesBack

\* The end of a body: back to the condition.
LEMMA EndIterationBodyLoops ==
  ASSUME IInv, EdgesOK(g), LoopInv, EndIterationBody
  PROVE  LoopInv'
<1> DEFINE head == Top.blocks[1]
           c == Top.blocks[2]
<1>1. stk # << >> /\ Top.at = "whileBody" /\ insert' = c /\ stk' = Below
  BY DEF EndIterationBody, At
<1>2. head \in Block /\ c \in Block /\ Owes(Top) = {c} /\ HeadOf(Top) = {head} /\ LinkedTo(head)
  BY <1>1, FrameBlocks, EndIterationBodyEdges
<1> HIDE DEF head, c
<1>3. Owed(stk) \subseteq Owed(Below) \cup {c}
  BY <1>1, <1>2, BelowOwes
<1>4. insert \notin Avoiding(g.succ, head)
  BY <1>1, <1>2, TopHeaded
<1>5. Going(Below, <<head>>, {c}, Owed(Below))
  BY <1>1, <1>2, <1>3, <1>4, EndGoes
<1> QED
  BY <1>1, <1>5, GoesBack

\* The end of a true branch: past the false one, which is visited next.
LEMMA EndTrueWithElseLoops ==
  ASSUME IInv, EdgesOK(g), LoopInv, EndTrueWithElse
  PROVE  LoopInv'
<1> DEFINE f == Top.blocks[1]
           c == Top.blocks[2]
           x == AfterFalse(c)
<1>1. stk # << >> /\ Top.at = "ifElseTrue" /\ insert' = f /\ stk' = Below \o <<x, Stmt>>
  BY DEF EndTrueWithElse, At
<1>2. f \in Block /\ c \in Block /\ Owes(Top) = {f, c} /\ LinkedTo(c)
  BY <1>1, FrameBlocks, EndTrueWithElseEdges
<1> HIDE DEF f, c
<1>3. x \in Frame /\ Owes(x) = {c} /\ HeadOf(x) = {}
  <2>1. <<c>> \in Seq(Block) /\ <<c>>[1] = c
    BY <1>2
  <2>2. x \in Frame /\ x.at = "ifFalse" /\ x.blocks = <<c>>
    BY <2>1 DEF AfterFalse, Frame, FrameAt
  <2> HIDE DEF x
  <2> QED
    BY <2>1, <2>2 DEF Owes, HeadOf
<1> HIDE DEF x
<1>4. Owed(stk) \subseteq Owed(Below) \cup Owes(x) \cup {f}
  BY <1>1, <1>2, <1>3, BelowOwes
<1>5. Going(Below, <<c>>, {f}, Owed(Below) \cup Owes(x))
  BY <1>1, <1>2, <1>3, <1>4, EndGoes
<1>6. /\ \A d \in Heads(Below) : Owes(x) \cap Avoiding(g.succ, d) = {}
      /\ \A d \in HeadOf(x) : insert' \notin Avoiding(g'.succ, d)
  BY <1>1, <1>2, <1>3, TopHeaded
<1> QED
  BY <1>1, <1>3, <1>5, <1>6, BareFrames, GoesOn

\* No step spoils the ranks, and none goes round a loop's condition.
LEMMA NextLoops == IInv /\ EdgesOK(g) /\ LoopInv /\ [Next]_vars => LoopInv'
<1> SUFFICES ASSUME IInv, EdgesOK(g), LoopInv, [Next]_vars PROVE LoopInv'
  OBVIOUS
<1>1. CASE Unlinked
  BY <1>1, UnlinkedLoops
<1>2. ASSUME NEW params \in BOOLEAN, VisitFunDeclaration(params) PROVE LoopInv'
  BY <1>2, FunDeclarationLoops
<1>3. CASE VisitIndexedVar
  BY <1>3, IndexedVarLoops
<1>4. ASSUME NEW e \in BOOLEAN, SelectionBranch(e) PROVE LoopInv'
  BY <1>4, SelectionBranchLoops
<1>5. CASE EndTrueNoElse \/ EndTrueWithElse \/ EndFalse \/ EndIterationBody
  BY <1>5, EndTrueNoElseLoops, EndTrueWithElseLoops, EndFalseLoops, EndIterationBodyLoops
<1>6. CASE VisitIterationStmt \/ IterationBranch
  BY <1>6, IterationStmtLoops, IterationBranchLoops
<1>7. CASE UNCHANGED vars
  BY <1>7 DEF vars, LoopInv, Owed, Headed
<1> QED
  BY <1>1, <1>2, <1>3, <1>4, <1>5, <1>6, <1>7 DEF Next, Unlinked

\* No edge, no rank.
LEMMA InitLoops == Init => LoopInv
<1> SUFFICES ASSUME Init PROVE LoopInv
  OBVIOUS
<1>1. g.succ = [b \in Block |-> << >>] /\ stk = << >>
  BY NoEdges DEF Init
<1>2. \A b \in Block : Elems(g.succ[b]) = {} /\ g.succ[b] = << >>
  BY <1>1 DEF Elems
<1>3. Ranked(g.succ, insert, Owed(stk), [b \in Block |-> 0])
  BY <1>2 DEF Ranked
<1>4. Headed(g.succ, insert, stk)
  BY <1>1 DEF Headed
<1> QED
  BY <1>3, <1>4 DEF LoopInv

\* The blocks are what the lemmas of D assume of the blocks of a graph.
LEMMA BlocksOK == Block \subseteq Nat /\ D!IsFiniteSet(Block) /\ Entry \in Block /\ 0 \notin Block
<1>1. IsFiniteSet(Block)
  BY MaxBlocksAssumption, FS_Interval DEF Block
<1>2. D!IsFiniteSet(Block)
  BY <1>1, Zenon DEF D!IsFiniteSet, IsFiniteSet
<1>3. Block \subseteq Nat /\ Entry \in Block /\ 0 \notin Block
  BY MaxBlocksAssumption DEF Block, Entry
<1> QED
  BY <1>2, <1>3

\* S holds b and with a block its successors.
ReachClosed(q, b, S) == b \in S /\ \A a \in S : Elems(q[a]) \subseteq S

\* What paths lead to is the least such set.
LEMMA ReachableIs ==
  ASSUME NEW h \in Graph, NEW b \in Block
  PROVE  /\ ReachableFrom(h, b) \in SUBSET Block /\ ReachClosed(h.succ, b, ReachableFrom(h, b))
         /\ \A X \in SUBSET Block : ReachClosed(h.succ, b, X) => ReachableFrom(h, b) \subseteq X
<1> DEFINE F == [X \in SUBSET Block |-> X \cup UNION {Elems(h.succ[a]) : a \in X}]
           x == {b}
           Eq(f) == f = [k \in Nat |-> IF k = 0 THEN {b}
                                       ELSE LET seen == f[k - 1]
                                            IN  seen \cup UNION {Elems(h.succ[a]) : a \in seen}]
           s == CHOOSE f : Eq(f)
<1>1. \A a \in Block : Elems(h.succ[a]) \subseteq Block
  BY DEF Graph, Elems
<1>2. D!GrowsFrom(F, Block, x)
  <2>1. F \in [SUBSET Block -> SUBSET Block]
    BY <1>1
  <2>2. x \in SUBSET Block /\ x \subseteq F[x]
    OBVIOUS
  <2>3. \A X, Y \in SUBSET Block : X \subseteq Y => F[X] \subseteq F[Y]
    OBVIOUS
  <2> QED
    BY <2>1, <2>2, <2>3 DEF D!GrowsFrom
<1>3. \E f : Eq(f)
  <2>1. F \in [SUBSET Block -> SUBSET Block] /\ x \in SUBSET Block
    BY <1>2 DEF D!GrowsFrom
  <2>2. PICK f \in [Nat -> SUBSET Block] : D!IsIteration(f, F, x)
    <3> HIDE DEF F, x, Eq
    <3> QED
      BY <2>1, BlocksOK, D!IterationExists
  <2>3. ASSUME NEW k \in Nat, k # 0
        PROVE  f[k] = f[k - 1] \cup UNION {Elems(h.succ[a]) : a \in f[k - 1]}
    <3>1. k - 1 \in Nat /\ (k - 1) + 1 = k
      BY <2>3
    <3>2. f[(k - 1) + 1] = F[f[k - 1]]
      BY <2>2, <3>1 DEF D!IsIteration
    <3> QED
      BY <3>1, <3>2
  <2>4. Eq(f)
    BY <2>2, <2>3 DEF D!IsIteration
  <2> QED
    BY <2>4
<1>4. Eq(s)
  <2> HIDE DEF Eq
  <2> QED
    BY <1>3
<1>5. ReachableFrom(h, b) = s[MaxBlocks]
  BY DEF ReachableFrom
<1> HIDE DEF s
<1>6. s[0] = x
  BY <1>4
<1>7. ASSUME NEW k \in Nat PROVE s[k + 1] = s[k] \cup UNION {Elems(h.succ[a]) : a \in s[k]}
  <2>1. k + 1 \in Nat /\ k + 1 # 0 /\ (k + 1) - 1 = k
    OBVIOUS
  <2>2. s[k + 1] = s[(k + 1) - 1] \cup UNION {Elems(h.succ[a]) : a \in s[(k + 1) - 1]}
    BY <1>4, <2>1
  <2> QED
    BY <2>1, <2>2
<1> HIDE DEF Eq
<1>8. D!IsIteration(s, F, x)
  <2>1. ASSUME NEW k \in Nat, s[k] \in SUBSET Block PROVE s[k + 1] = F[s[k]]
    BY <1>7, <2>1
  <2> HIDE DEF F, x
  <2> QED
    BY <1>2, <1>6, <2>1, BlocksOK, D!IterationOfSets
<1> DEFINE R == ReachableFrom(h, b)
<1>9. /\ R \in SUBSET Block /\ x \subseteq R /\ F[R] = R
      /\ \A X \in SUBSET Block : x \subseteq X /\ F[X] \subseteq X => R \subseteq X
  <2>1. IsFiniteSet(Block) /\ Cardinality(Block) <= MaxBlocks /\ MaxBlocks \in Nat
    BY MaxBlocksAssumption, FS_Interval DEF Block
  <2>2. D!Cardinality(Block) = Cardinality(Block)
    BY Zenon DEF D!Cardinality, Cardinality
  <2>3. D!Cardinality(Block) <= MaxBlocks
    BY <2>1, <2>2
  <2> HIDE DEF F, x
  <2>4. D!IsFiniteSet(Block)
    BY BlocksOK
  <2>5. D!IsLeastFixpoint(Block, F, x, s[MaxBlocks])
    BY <1>2, <1>8, <2>1, <2>3, <2>4, BlocksOK, D!LeastFixpointIs
  <2> QED
    BY <1>5, <2>5 DEF D!IsLeastFixpoint
<1>10. ReachClosed(h.succ, b, R)
  BY <1>9 DEF ReachClosed
<1>11. ASSUME NEW X \in SUBSET Block, ReachClosed(h.succ, b, X) PROVE R \subseteq X
  <2>1. x \subseteq X /\ F[X] \subseteq X
    BY <1>11 DEF ReachClosed
  <2> QED
    BY <1>9, <2>1
<1> QED
  BY <1>9, <1>10, <1>11

\* What a reached block leads to is reached.
LEMMA ReachableThrough ==
  ASSUME NEW h \in Graph, NEW b \in Block, NEW a \in ReachableFrom(h, b)
  PROVE  a \in Block /\ ReachableFrom(h, a) \subseteq ReachableFrom(h, b)
<1> DEFINE R == ReachableFrom(h, b)
<1>1. R \in SUBSET Block /\ ReachClosed(h.succ, b, R)
  BY ReachableIs
<1>2. a \in Block /\ ReachClosed(h.succ, a, R)
  BY <1>1 DEF ReachClosed
<1> HIDE DEF R
<1>3. ReachableFrom(h, a) \subseteq R
  BY <1>1, <1>2, ReachableIs
<1> QED
  BY <1>2, <1>3 DEF R

\* The blocks on a cycle with b, or b alone.
Cycle(h, b) == {c \in Block : c \in ReachableFrom(h, b) /\ b \in ReachableFrom(h, c)}

\* Every one of them leads to every other.
LEMMA CycleReaches ==
  ASSUME NEW h \in Graph, NEW b \in Block
  PROVE  /\ b \in Cycle(h, b)
         /\ \A x, y \in Cycle(h, b) : y \in ReachableFrom(h, x)
         /\ \A x \in Cycle(h, b) : \A y \in ReachableFrom(h, x) :
              b \in ReachableFrom(h, y) => y \in Cycle(h, b)
<1>1. b \in ReachableFrom(h, b)
  BY ReachableIs DEF ReachClosed
<1>2. ASSUME NEW x \in Cycle(h, b), NEW y \in Cycle(h, b) PROVE y \in ReachableFrom(h, x)
  <2>1. x \in Block /\ b \in ReachableFrom(h, x) /\ y \in ReachableFrom(h, b)
    BY DEF Cycle
  <2> QED
    BY <2>1, ReachableThrough
<1>3. ASSUME NEW x \in Cycle(h, b), NEW y \in ReachableFrom(h, x), b \in ReachableFrom(h, y)
      PROVE  y \in Cycle(h, b)
  <2>1. x \in Block /\ x \in ReachableFrom(h, b)
    BY DEF Cycle
  <2>2. y \in Block /\ y \in ReachableFrom(h, b)
    BY <2>1, ReachableThrough
  <2> QED
    BY <1>3, <2>2 DEF Cycle
<1> QED
  BY <1>1, <1>2, <1>3 DEF Cycle

\* Where the blocks are ranked, the lowest of a cycle is on every way to it.
LEMMA LowestFirst ==
  ASSUME NEW h \in Graph, NEW b \in Block, NEW in, NEW r, Ranked(h.succ, in, {}, r),
         NEW c \in Cycle(h, b), \A x \in Cycle(h, b) : r[c] <= r[x],
         NEW x \in Cycle(h, b)
  PROVE  x \notin Avoiding(h.succ, c)
<1> DEFINE q == h.succ
           A == Avoiding(q, c)
           R(y) == ReachableFrom(h, y)
           S == {y \in A : y \in R(x) /\ c \in R(y)} \cup {y \in Block : c \notin R(y)}
<1>1. q \in [Block -> Seq(Block)] /\ c \in Block /\ x \in Block /\ r \in [Block -> Nat]
  BY DEF Graph, Cycle, Ranked
<1>2. AvoidClosed(q, c, A) /\ A \subseteq Block /\ c \notin A
  BY <1>1, AvoidingClosed
<1>3. \A y \in Block : \A z \in Elems(q[y]) : z \in Block /\ z \in R(y)
  <2>1. \A y \in Block : R(y) \in SUBSET Block /\ ReachClosed(q, y, R(y))
    BY ReachableIs
  <2> QED
    BY <2>1 DEF ReachClosed
<1>4. \A y \in Block : \A z \in R(y) : R(z) \subseteq R(y)
  BY ReachableThrough
<1>5. ASSUME NEW y \in Cycle(h, b), c \in Elems(q[y]) PROVE y \notin A
  <2>1. y \in Block /\ r[y] \in Nat /\ r[c] \in Nat /\ r[c] <= r[y]
    BY <1>1 DEF Cycle
  <2>2. ~(r[y] < r[c])
    BY <2>1
  <2> QED
    BY <1>1, <1>5, <2>1, <2>2 DEF Ranked
<1>6. ASSUME x \in A PROVE FALSE
  <2>1. x \in R(x) /\ c \in R(x)
    BY <1>1, ReachableIs, CycleReaches DEF ReachClosed
  <2>2. ASSUME NEW y \in S, NEW z \in Elems(q[y]) PROVE z \in S
    <3>1. y \in Block /\ z \in Block /\ z \in R(y)
      BY <1>2, <1>3
    <3>2. CASE c \notin R(y)
      BY <1>4, <3>1, <3>2
    <3>3. CASE c \in R(y)
      <4>1. y \in A /\ y \in R(x) /\ z \in R(x)
        BY <1>1, <1>4, <3>1, <3>3
      <4>2. b \in R(y)
        <5>1. b \in R(c)
          BY DEF Cycle
        <5> QED
          BY <1>4, <3>1, <3>3, <5>1
      <4>3. y \in Cycle(h, b)
        BY <4>1, <4>2, CycleReaches
      <4>4. z # c
        BY <1>5, <4>1, <4>3
      <4>5. z \in A
        BY <1>2, <4>1, <4>4 DEF AvoidClosed
      <4> QED
        BY <3>1, <4>1, <4>5
    <3> QED
      BY <3>2, <3>3
  <2>3. S \in SUBSET Block /\ x \in S
    BY <1>2, <1>6, <2>1
  <2>4. ReachClosed(q, x, S)
    BY <2>2, <2>3 DEF ReachClosed
  <2> HIDE DEF S
  <2>5. R(x) \subseteq S
    BY <1>1, <2>3, <2>4, ReachableIs
  <2>6. c \in S
    BY <2>1, <2>5
  <2>7. c \in R(c)
    BY <1>1, ReachableIs DEF ReachClosed
  <2> QED
    BY <1>2, <2>6, <2>7 DEF S
<1> QED
  BY <1>6

\* The blocks of the cycle of b that are entered from outside.
Entries(h, b) ==
  {c \in Cycle(h, b) : \E p \in ReachableFrom(h, Entry) \ Cycle(h, b) : c \in Elems(h.succ[p])}

\* The lowest block of a cycle is the only one entered from outside.
LEMMA OneEntry ==
  ASSUME NEW h \in Graph, NEW in, NEW r, Ranked(h.succ, in, {}, r),
         \A a \in Block : Entry \notin Elems(h.succ[a]),
         NEW b \in ReachableFrom(h, Entry), b # Entry
  PROVE  \E c : Entries(h, b) = {c}
<1> DEFINE q == h.succ
           C == Cycle(h, b)
           R(y) == ReachableFrom(h, y)
<1>1. Entry \in Block /\ q \in [Block -> Seq(Block)] /\ r \in [Block -> Nat]
  BY MaxBlocksAssumption DEF Entry, Block, Graph, Ranked
<1>2. b \in Block /\ C \subseteq Block /\ b \in C
  <2>1. b \in Block
    BY <1>1, ReachableThrough
  <2> QED
    BY <2>1, CycleReaches DEF Cycle
<1>3. \A y \in Block : R(y) \in SUBSET Block /\ ReachClosed(q, y, R(y))
  BY ReachableIs
<1>4. PICK c \in C : \A x \in C : r[c] <= r[x]
  <2> DEFINE N == {r[x] : x \in C}
  <2>1. N \in SUBSET Nat /\ N # {}
    BY <1>1, <1>2
  <2>2. PICK n \in N : \A m \in N : n <= m
    <3> HIDE DEF N
    <3> QED
      BY <2>1, BlocksOK, D!LeastNatural
  <2> QED
    BY <2>2
<1> DEFINE A == Avoiding(q, c)
<1>5. AvoidClosed(q, c, A) /\ A \subseteq Block
  BY <1>1, <1>2, AvoidingClosed
<1>6. \A x \in C : x \notin A
  BY <1>2, <1>4, LowestFirst
<1>7. R(Entry) \subseteq A \cup R(c)
  <2> DEFINE S == A \cup R(c)
  <2>1. R(c) \subseteq Block /\ c \in R(c) /\ \A a \in R(c) : Elems(q[a]) \subseteq R(c)
    BY <1>2, <1>3 DEF ReachClosed
  <2>2. ASSUME NEW a \in S, NEW z \in Elems(q[a]) PROVE z \in S
    BY <1>5, <2>1, <2>2 DEF AvoidClosed
  <2>3. Entry \in S /\ S \in SUBSET Block
    BY <1>5, <2>1 DEF AvoidClosed
  <2>4. ReachClosed(q, Entry, S)
    BY <2>2, <2>3 DEF ReachClosed
  <2> HIDE DEF S
  <2>5. R(Entry) \subseteq S
    BY <1>1, <2>3, <2>4, ReachableIs
  <2> QED
    BY <2>5 DEF S
<1>8. ASSUME NEW x \in C, NEW p \in R(Entry) \ C, x \in Elems(q[p])
      PROVE  x = c
  <2>1. CASE p \in A
    BY <1>5, <1>6, <1>8, <2>1 DEF AvoidClosed
  <2>2. CASE p \in R(c)
    <3>1. p \in Block
      BY <1>2, <1>3, <2>2
    <3>2. x \in R(p)
      BY <1>3, <1>8, <3>1 DEF ReachClosed
    <3>3. b \in R(x)
      BY DEF Cycle
    <3>4. b \in R(p)
      BY <3>1, <3>2, <3>3, ReachableThrough
    <3>5. p \in C
      BY <1>2, <2>2, <3>4, CycleReaches
    <3> QED
      BY <3>5
  <2> QED
    BY <1>7, <2>1, <2>2
<1>9. Entry \notin C
  <2> DEFINE S == Block \ {Entry}
  <2>1. \A a \in Block : Elems(q[a]) \subseteq Block
    BY <1>1 DEF Elems
  <2>2. S \in SUBSET Block /\ ReachClosed(q, b, S)
    BY <1>2, <2>1 DEF ReachClosed
  <2> HIDE DEF S
  <2>3. R(b) \subseteq S
    BY <1>2, <2>2, ReachableIs
  <2> QED
    BY <2>3 DEF S, Cycle
<1>10. \E x \in C : \E p \in R(Entry) \ C : x \in Elems(q[p])
  <2> SUFFICES ASSUME \A x \in C : \A p \in R(Entry) \ C : x \notin Elems(q[p]) PROVE FALSE
    OBVIOUS
  <2> DEFINE S == R(Entry) \ C
  <2>1. R(Entry) \subseteq Block /\ Entry \in R(Entry) /\ \A a \in R(Entry) : Elems(q[a]) \subseteq R(Entry)
    BY <1>1, <1>3 DEF ReachClosed
  <2>2. S \in SUBSET Block /\ ReachClosed(q, Entry, S)
    BY <1>9, <2>1 DEF ReachClosed
  <2> HIDE DEF S
  <2>3. R(Entry) \subseteq S
    BY <1>1, <2>2, ReachableIs
  <2> QED
    BY <1>2, <2>3 DEF S
<1>11. Entries(h, b) = {c}
  BY <1>8, <1>10 DEF Entries
<1> QED
  BY <1>11

\* Nothing enters the entry.
LEMMA NoEntry ==
  ASSUME NEW h \in Graph, \A a \in Block : Entry \notin Elems(h.succ[a])
  PROVE  Entries(h, Entry) = {}
<1>1. Entry \in Block
  BY MaxBlocksAssumption DEF Entry, Block
<1>2. ASSUME NEW c \in Cycle(h, Entry) PROVE c = Entry
  <2> DEFINE S == Block \ {Entry}
  <2>1. c \in Block /\ Entry \in ReachableFrom(h, c)
    BY DEF Cycle
  <2>2. \A a \in Block : Elems(h.succ[a]) \subseteq Block
    BY DEF Elems, Graph
  <2>3. ASSUME c # Entry PROVE FALSE
    <3>1. S \in SUBSET Block /\ ReachClosed(h.succ, c, S)
      BY <2>1, <2>2, <2>3 DEF ReachClosed
    <3> HIDE DEF S
    <3>2. ReachableFrom(h, c) \subseteq S
      BY <2>1, <3>1, ReachableIs
    <3> QED
      BY <2>1, <3>2 DEF S
  <2> QED
    BY <2>3
<1>3. ReachableFrom(h, Entry) \subseteq Block
  BY <1>1, ReachableIs
<1> QED
  BY <1>2, <1>3 DEF Entries

\* In a function that is done, branches stay in the function.
LEMMA DoneStays ==
  ASSUME IInv, EdgesOK(g), Finished
  PROVE  /\ g \in Graph /\ g.bbs \subseteq Block /\ Entry \in g.bbs /\ Owed(stk) = {}
         /\ \A a \in Block : Elems(g.succ[a]) \subseteq g.bbs
         /\ \A a \in Block : Entry \notin Elems(g.succ[a])
<1>1. Owed(stk) = {} /\ Falses(stk) = {}
  BY NoFrames DEF Finished
<1>2. GraphOK(g, insert, {}, {}) /\ g \in Graph
  BY <1>1 DEF Finished, IInv, GraphOK
<1>3. /\ Entry \in g.bbs /\ g.bbs \subseteq Block /\ g.pre[Entry] = << >>
      /\ g.code \in [Block -> Seq(Instr)]
      /\ \A b \in Block : \A i \in 1 .. Len(g.code[b]) :
           \A k \in 1 .. Len(g.code[b][i].to) : g.code[b][i].to[k] \in g.bbs
  BY <1>2 DEF GraphOK, Graph
<1>4. ASSUME NEW a \in Block, NEW c \in Elems(g.succ[a]) PROVE c \in g.bbs
  <2>1. c \in Elems(Targets(g, a))
    BY <1>4 DEF EdgesOK
  <2>2. CASE ~HasTerminator(g, a)
    BY <2>1, <2>2 DEF Targets, Elems
  <2>3. CASE HasTerminator(g, a)
    <3> DEFINE n == Len(g.code[a])
               to == g.code[a][n].to
    <3>1. n \in 1 .. Len(g.code[a])
      BY <1>3, <2>3 DEF HasTerminator
    <3>2. to \in Seq(Block)
      <4>1. g.code[a] \in Seq(Instr)
        BY <1>3
      <4>2. g.code[a][n] \in Instr
        BY <3>1, <4>1
      <4> QED
        BY <4>2 DEF Instr
    <3>3. Targets(g, a) = [i \in 1 .. Len(to) |-> to[Len(to) + 1 - i]]
      BY <2>3 DEF Targets
    <3>4. \A k \in 1 .. Len(to) : to[k] \in g.bbs
      BY <1>3, <3>1
    <3> HIDE DEF to
    <3>5. PICK i \in 1 .. Len(to) : c = to[Len(to) + 1 - i]
      BY <2>1, <3>3 DEF Elems
    <3>6. Len(to) + 1 - i \in 1 .. Len(to)
      BY <3>2, <3>5
    <3> QED
      BY <3>4, <3>5, <3>6
  <2> QED
    BY <2>2, <2>3
<1>5. ASSUME NEW a \in Block PROVE Entry \notin Elems(g.succ[a])
  <2>1. Entry \in Block
    BY <1>3
  <2>2. ~Listed(g.pre, Entry, a)
    BY <1>3 DEF Listed
  <2> QED
    BY <2>1, <2>2 DEF EdgesOK
<1> QED
  BY <1>1, <1>2, <1>3, <1>4, <1>5

\* Every cycle of a finished function is entered through one block only, the
\* entry of the function's own is entered through none: what LoopSearch takes
\* for granted of the graphs the builder hands to it, whatever the program.
THEOREM LoopsHaveOneEntry == Spec => []SingleEntryLoops
<1>1. ASSUME IInv, EdgesOK(g), LoopInv PROVE SingleEntryLoops
  <2> SUFFICES ASSUME Finished PROVE SingleEntryLoops
    BY DEF SingleEntryLoops
  <2> DEFINE reach == [b \in g.bbs |-> ReachableFrom(g, b)]
             scc(b) == {c \in g.bbs : c \in reach[b] /\ b \in reach[c]}
             in(b) == {c \in scc(b) : \E p \in reach[Entry] \ scc(b) : c \in Elems(g.succ[p])}
  <2>1. /\ g \in Graph /\ g.bbs \subseteq Block /\ Entry \in g.bbs /\ Owed(stk) = {}
        /\ \A a \in Block : Elems(g.succ[a]) \subseteq g.bbs
        /\ \A a \in Block : Entry \notin Elems(g.succ[a])
    BY <1>1, DoneStays
  <2>2. PICK r : Ranked(g.succ, insert, {}, r)
    BY <1>1, <2>1 DEF LoopInv
  <2>3. \A b \in g.bbs : ReachableFrom(g, b) \subseteq g.bbs
    <3>1. ASSUME NEW b \in g.bbs PROVE ReachableFrom(g, b) \subseteq g.bbs
      <4> DEFINE S == g.bbs
      <4>1. b \in Block /\ S \in SUBSET Block /\ ReachClosed(g.succ, b, S)
        BY <2>1 DEF ReachClosed
      <4> HIDE DEF S
      <4>2. ReachableFrom(g, b) \subseteq S
        BY <2>1, <4>1, ReachableIs
      <4> QED
        BY <4>2 DEF S
    <3> QED
      BY <3>1
  <2>4. ASSUME NEW b \in g.bbs PROVE scc(b) = Cycle(g, b)
    BY <2>1, <2>3 DEF Cycle
  <2>5. ASSUME NEW b \in reach[Entry]
        PROVE  Cardinality(in(b)) = (IF b = Entry THEN 0 ELSE 1)
    <3>1. b \in ReachableFrom(g, Entry) /\ b \in g.bbs
      BY <2>1, <2>3
    <3>2. in(b) = Entries(g, b)
      <4>1. scc(b) = Cycle(g, b) /\ reach[Entry] = ReachableFrom(g, Entry)
        BY <2>1, <2>4, <3>1
      <4> HIDE DEF scc, reach
      <4> QED
        BY <4>1 DEF Entries
    <3> HIDE DEF in, scc, reach
    <3>3. CASE b = Entry
      BY <2>1, <3>2, <3>3, NoEntry, FS_EmptySet
    <3>4. CASE b # Entry
      <4>1. PICK c : Entries(g, b) = {c}
        BY <2>1, <2>2, <3>1, <3>4, OneEntry
      <4> QED
        BY <3>2, <3>4, <4>1, FS_Singleton
    <3> QED
      BY <3>3, <3>4
  <2> QED
    BY <2>5 DEF SingleEntryLoops
<1>2. IInv /\ EdgesOK(g) /\ LoopInv /\ [Next]_vars => (IInv /\ EdgesOK(g) /\ LoopInv)'
  BY NextInv, NextEdges, NextLoops
<1>3. Init => IInv /\ EdgesOK(g) /\ LoopInv
  BY InitInv, InitEdges, InitLoops
<1> QED
  BY <1>1, <1>2, <1>3, PTL DEF Spec
=============================================================================
