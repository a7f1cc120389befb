------------------------- MODULE LoopSearch_proofs -------------------------
(***************************************************************************)
(* Proofs about LoopSearch: on every graph, in whatever order the hash     *)
(* sets give the blocks and the edges, Tarjan's search finds the strongly  *)
(* connected components of what is left of the graph, in every round.      *)
(*                                                                         *)
(* The invariant is about the blocks on the stack: a call in progress      *)
(* reaches what was put there after it, everything there reaches a call in *)
(* progress that is not above it (PathsOK), and the lowlink of a call is   *)
(* the number of a block it reaches and not above those its finished part  *)
(* has edges to (LowOK).                                                   *)
(*                                                                         *)
(* Then what is recorded: on a reducible graph the loops are taken out     *)
(* from the outermost in, so a component of what is left is a natural loop *)
(* of the whole graph, and its base is the header (NaturalInv).            *)
(*                                                                         *)
(* Last the pass: what is hoisted out of a loop goes to a block that is in *)
(* the loops around it and in no other, so the loops that are done stay    *)
(* done (HoistedInv).                                                      *)
(***************************************************************************)
EXTENDS LoopInvHoist, Dominance_proofs, SequenceTheorems

\* Along edges of the graph s, from a to b.
Reaches(s, a, b) ==
  \A X \in SUBSET Block : a \in X /\ (\A x \in X : s[x] \subseteq X) => b \in X

\* The strongly connected component of n.
Scc(s, n) == {m \in Block : Reaches(s, n, m) /\ Reaches(s, m, n)}

\* The blocks on the stack, those of the calls in progress, and those that
\* are done with.
Stacked  == ToSet(stack)
Calling  == {calls[k].n : k \in 1 .. Len(calls)}
Finished == Visited \ Stacked

\* What is left of the graph is closed under edges, and prevs knows them.
GraphOK ==
  /\ nodes \subseteq Block /\ succs \in [Block -> SUBSET Block]
  /\ \A n \in nodes : succs[n] \subseteq nodes
  /\ \A n, m \in nodes : m \in succs[n] => n \in prevs[m]

NumbersOK ==
  /\ index \in [Block -> Int]
  /\ \A n \in Visited : 0 <= index[n] /\ index[n] < Cardinality(Visited)

\* The stack is in the order of the numbers, and so are the calls.
StackOK ==
  /\ stack \in Seq(Block) /\ Stacked \subseteq Visited
  /\ \A i, j \in 1 .. Len(stack) : i < j => index[stack[i]] < index[stack[j]]

CallsOK ==
  /\ calls \in Seq([n : Block, succs : SUBSET Block])
  /\ \A k \in 1 .. Len(calls) :
       /\ calls[k].n \in Stacked
       /\ calls[k].succs \subseteq succs[calls[k].n]
       /\ succs[calls[k].n] \ calls[k].succs \subseteq Visited
  /\ \A j, k \in 1 .. Len(calls) : j < k => index[calls[j].n] < index[calls[k].n]

\* No edge leads from a block that was left to one not visited, or from a
\* finished component to one that is not.
LeftOK ==
  /\ \A n \in Visited \ Calling : succs[n] \subseteq Visited
  /\ \A n \in Finished : succs[n] \subseteq Finished

PathsOK ==
  /\ \A x \in Calling, y \in Stacked : index[x] <= index[y] => Reaches(succs, x, y)
  /\ \A y \in Stacked : \E x \in Calling : index[x] <= index[y] /\ Reaches(succs, y, x)

\* The blocks that call k has left: they were numbered after its own block
\* and before that of the next call.
LeftBy(k) ==
  {x \in Stacked : /\ index[calls[k].n] < index[x]
                   /\ k < Len(calls) => index[x] < index[calls[k + 1].n]}

LowOK ==
  /\ lowlink \in [Block -> Int]
  /\ \A k \in 1 .. Len(calls) :
       /\ lowlink[calls[k].n] <= index[calls[k].n]
       /\ \E m \in Stacked : lowlink[calls[k].n] = index[m] /\ Reaches(succs, calls[k].n, m)
       /\ \A x \in LeftBy(k) : \A y \in succs[x] \cap Stacked : lowlink[calls[k].n] <= index[y]
       /\ \A y \in (succs[calls[k].n] \ calls[k].succs) \cap Stacked :
            lowlink[calls[k].n] <= index[y] \/ (k < Len(calls) /\ y = calls[k + 1].n)

SccsOK == sccs = {c \in {Scc(succs, n) : n \in Finished} : Cardinality(c) # 1}

SearchInv == NumbersOK /\ StackOK /\ CallsOK /\ LeftOK /\ PathsOK /\ LowOK /\ SccsOK

NothingSearched == stack = << >> /\ calls = << >> /\ index = NotVisited /\ lowlink = NotVisited

ComponentsInv ==
  /\ pc \in {"search", "record"} => GraphOK
  /\ pc = "search" => SearchInv
  /\ pc = "record" => NothingSearched

-----------------------------------------------------------------------------
(* Reachability.                                                           *)

\* A block reaches itself and what its successors are.
LEMMA ReachesEdge ==
  ASSUME NEW s, NEW a, NEW b
  PROVE  Reaches(s, a, a) /\ (b \in s[a] => Reaches(s, a, b))
BY DEF Reaches

\* Paths can be joined.
LEMMA ReachesOn ==
  ASSUME NEW s, NEW a, NEW b, NEW c, Reaches(s, a, b), Reaches(s, b, c)
  PROVE  Reaches(s, a, c)
BY DEF Reaches

\* A path does not leave a set that is closed under edges.
LEMMA ReachesWithin ==
  ASSUME NEW s, NEW X \in SUBSET Block, NEW a \in X, NEW b, Reaches(s, a, b),
         \A x \in X : s[x] \subseteq X
  PROVE  b \in X
BY DEF Reaches

\* Two blocks that reach each other are in the same component.
LEMMA SameScc ==
  ASSUME NEW s, NEW a \in Block, NEW b \in Scc(s, a)
  PROVE  Scc(s, b) = Scc(s, a)
<1>1. Reaches(s, a, b) /\ Reaches(s, b, a)
  BY DEF Scc
<1>2. ASSUME NEW m \in Block PROVE Reaches(s, a, m) <=> Reaches(s, b, m)
  BY <1>1, ReachesOn
<1>3. ASSUME NEW m \in Block PROVE Reaches(s, m, a) <=> Reaches(s, m, b)
  BY <1>1, ReachesOn
<1> QED
  BY <1>2, <1>3 DEF Scc

-----------------------------------------------------------------------------
(* A call begins.                                                          *)

\* The block visited gets a number above all others.
LEMMA NewNumber ==
  ASSUME GraphOK, NumbersOK, NEW n \in nodes \ Visited, nodes' = nodes,
         index' = [index EXCEPT ![n] = Cardinality(Visited)]
  PROVE  /\ n \in Block /\ Visited \subseteq Block /\ Cardinality(Visited) \in Nat
         /\ Visited' = Visited \cup {n} /\ Cardinality(Visited') = Cardinality(Visited) + 1
         /\ index' \in [Block -> Int] /\ index'[n] = Cardinality(Visited)
         /\ \A m \in Visited : index'[m] = index[m] /\ index[m] \in Int /\ m # n
                               /\ index[m] < Cardinality(Visited)
<1>1. n \in Block /\ Visited \subseteq Block /\ index \in [Block -> Int]
  BY DEF GraphOK, Visited, NumbersOK
<1>2. IsFiniteSet(Visited) /\ Cardinality(Visited) \in Nat
  BY <1>1, BlockAssumption, FS_Subset, FS_CardinalityType
<1>3. index'[n] = Cardinality(Visited) /\ \A m \in Block : m # n => index'[m] = index[m]
  BY <1>1
<1>4. Visited' = Visited \cup {n}
  BY <1>1, <1>2, <1>3 DEF Visited, GraphOK
<1>5. Cardinality(Visited') = Cardinality(Visited) + 1
  BY <1>2, <1>4, FS_AddElement
<1> QED
  BY <1>1, <1>2, <1>3, <1>4, <1>5 DEF NumbersOK

\* The calls before this one are as they were, but that the last of them has
\* one successor less to do.
Calls(callers, n) ==
  /\ callers \in Seq([n : Block, succs : SUBSET Block])
  /\ Len(callers) = Len(calls)
  /\ \A k \in 1 .. Len(calls) :
       /\ callers[k].n = calls[k].n
       /\ callers[k].succs = IF k = Len(calls) THEN calls[k].succs \ {n} ELSE calls[k].succs
  /\ calls # << >> => n \in calls[Len(calls)].succs

\* What the new stack and the new calls are.
LEMMA TraverseStack ==
  ASSUME GraphOK, SearchInv, NEW n \in nodes \ Visited, NEW callers, Calls(callers, n),
         Traverse(n, callers)
  PROVE  /\ stack' \in Seq(Block) /\ Len(stack) \in Nat /\ Len(stack') = Len(stack) + 1
         /\ \A i \in 1 .. Len(stack) : stack'[i] = stack[i] /\ stack[i] \in Stacked
         /\ stack'[Len(stack) + 1] = n /\ Stacked' = Stacked \cup {n}
         /\ calls' \in Seq([n : Block, succs : SUBSET Block])
         /\ Len(calls) \in Nat /\ Len(calls') = Len(calls) + 1
         /\ \A k \in 1 .. Len(calls) :
              /\ calls'[k].n = calls[k].n /\ calls[k].n \in Calling
              /\ calls'[k].succs = IF k = Len(calls) THEN calls[k].succs \ {n} ELSE calls[k].succs
         /\ calls'[Len(calls) + 1].n = n /\ calls'[Len(calls) + 1].succs = succs[n]
         /\ Calling' = Calling \cup {n}
<1> DEFINE C == [n : Block, succs : SUBSET Block]
           d == [n |-> n, succs |-> succs[n]]
<1>1. stack \in Seq(Block) /\ calls \in Seq(C) /\ callers \in Seq(C) /\ n \in Block
  BY DEF SearchInv, StackOK, CallsOK, Calls, GraphOK
<1>2. succs[n] \in SUBSET Block
  BY <1>1 DEF GraphOK
<1>3. d \in C /\ d.n = n /\ d.succs = succs[n]
  BY <1>1, <1>2
<1>4. stack' = Append(stack, n) /\ calls' = Append(callers, d)
  BY DEF Traverse
<1>5. /\ stack' \in Seq(Block) /\ Len(stack') = Len(stack) + 1 /\ Len(stack) \in Nat
      /\ \A i \in 1 .. Len(stack) : stack'[i] = stack[i]
      /\ stack'[Len(stack) + 1] = n
  BY <1>1, <1>4, AppendProperties, LenProperties
<1>6. /\ calls' \in Seq(C) /\ Len(calls') = Len(callers) + 1 /\ Len(calls) \in Nat
      /\ \A i \in 1 .. Len(callers) : calls'[i] = callers[i]
      /\ calls'[Len(callers) + 1] = d
  <2> HIDE DEF C, d
  <2> QED BY <1>1, <1>3, <1>4, AppendProperties, LenProperties
<1>7. Stacked' = Stacked \cup {n}
  <2>1. DOMAIN stack = 1 .. Len(stack) /\ DOMAIN stack' = 1 .. Len(stack) + 1
    BY <1>1, <1>5, LenProperties
  <2>2. 1 .. Len(stack) + 1 = (1 .. Len(stack)) \cup {Len(stack) + 1}
    BY <1>5
  <2> QED BY <1>5, <2>1, <2>2 DEF Stacked, ToSet
<1>8. \A i \in 1 .. Len(stack) : stack[i] \in Stacked
  BY <1>1, LenProperties DEF Stacked, ToSet
<1>9. /\ \A k \in 1 .. Len(calls) :
           /\ calls'[k].n = calls[k].n /\ calls[k].n \in Calling
           /\ calls'[k].succs = IF k = Len(calls) THEN calls[k].succs \ {n} ELSE calls[k].succs
      /\ calls'[Len(calls) + 1].n = n /\ calls'[Len(calls) + 1].succs = succs[n]
      /\ Len(calls') = Len(calls) + 1
  BY <1>3, <1>6 DEF Calls, Calling
<1>10. Calling' = Calling \cup {n}
  <2>0. Len(calls') = Len(calls) + 1 /\ Len(calls) \in Nat
    BY <1>6, <1>9
  <2>1. /\ 1 .. Len(calls') = (1 .. Len(calls)) \cup {Len(calls) + 1}
        /\ \A k \in 1 .. Len(calls) : calls'[k].n = calls[k].n
        /\ calls'[Len(calls) + 1].n = n
    <3>1. 1 .. Len(calls') = (1 .. Len(calls)) \cup {Len(calls) + 1}
      BY <2>0
    <3> QED BY <1>9, <3>1
  <2>2. Calling' = {calls'[k].n : k \in 1 .. Len(calls')}
    BY DEF Calling
  <2> QED BY <2>1, <2>2 DEF Calling
<1> QED
  BY <1>5, <1>6, <1>7, <1>8, <1>9, <1>10

\* The invariant is kept when a call begins: a block that was not visited is
\* put on top, above everything.
LEMMA TraverseInv ==
  ASSUME GraphOK, SearchInv, NEW n \in nodes \ Visited, NEW callers, Calls(callers, n),
         Traverse(n, callers), UNCHANGED <<nodes, succs, sccs>>
  PROVE  SearchInv'
<1> DEFINE L == Len(calls)
           Old(m) == index'[m] = index[m] /\ index[m] \in Int /\ m # n /\ index[m] < Cardinality(Visited)
<1>1. /\ n \in Block /\ Visited \subseteq Block /\ Cardinality(Visited) \in Nat
      /\ Visited' = Visited \cup {n} /\ Cardinality(Visited') = Cardinality(Visited) + 1
      /\ index' \in [Block -> Int] /\ index'[n] = Cardinality(Visited)
      /\ \A m \in Visited : Old(m)
  BY NewNumber DEF SearchInv, Traverse
<1>2. /\ stack' \in Seq(Block) /\ Len(stack) \in Nat /\ Len(stack') = Len(stack) + 1
      /\ \A i \in 1 .. Len(stack) : stack'[i] = stack[i] /\ stack[i] \in Stacked
      /\ stack'[Len(stack) + 1] = n /\ Stacked' = Stacked \cup {n}
  BY TraverseStack
<1>3. /\ calls' \in Seq([n : Block, succs : SUBSET Block]) /\ L \in Nat /\ Len(calls') = L + 1
      /\ \A k \in 1 .. L :
           /\ calls'[k].n = calls[k].n /\ calls[k].n \in Calling
           /\ calls'[k].succs = IF k = L THEN calls[k].succs \ {n} ELSE calls[k].succs
      /\ calls'[L + 1].n = n /\ calls'[L + 1].succs = succs[n]
      /\ Calling' = Calling \cup {n}
  BY TraverseStack
<1>4. Stacked \subseteq Visited /\ Calling \subseteq Stacked /\ n \notin Visited
  BY DEF SearchInv, StackOK, CallsOK, Calling
<1>5. /\ \A m \in Stacked : Old(m)
      /\ \A m \in Calling : Old(m)
      /\ \A k \in 1 .. L : Old(calls[k].n)
  BY <1>1, <1>3, <1>4
<1> HIDE DEF L
<1>13. \A k \in 1 .. L : calls'[k].n = calls[k].n
  BY <1>3
<1>14. L \in Nat /\ Len(calls') = L + 1
  BY <1>3
<1>15. \A k \in 1 .. Len(calls') : (k \in 1 .. L /\ k # L + 1) \/ k = L + 1
  BY <1>14
<1>6. NumbersOK'
  <2>1. \A m \in Visited : 0 <= index[m]
    BY DEF SearchInv, NumbersOK
  <2> QED BY <1>1, <2>1 DEF NumbersOK
<1>7. StackOK'
  <2>1. \A i, j \in 1 .. Len(stack) : i < j => index[stack[i]] < index[stack[j]]
    BY DEF SearchInv, StackOK
  <2>2. ASSUME NEW i \in 1 .. Len(stack'), NEW j \in 1 .. Len(stack'), i < j
        PROVE  index'[stack'[i]] < index'[stack'[j]]
    <3>1. i \in 1 .. Len(stack) /\ Old(stack[i]) /\ stack'[i] = stack[i]
      BY <1>2, <1>5, <2>2
    <3>2. CASE j = Len(stack) + 1
      BY <1>1, <1>2, <3>1, <3>2
    <3>3. CASE j # Len(stack) + 1
      <4>1. j \in 1 .. Len(stack) /\ Old(stack[j]) /\ stack'[j] = stack[j]
        BY <1>2, <1>5, <3>3
      <4> QED BY <2>1, <2>2, <3>1, <4>1
    <3> QED BY <3>2, <3>3
  <2> QED BY <1>1, <1>2, <1>4, <2>2 DEF StackOK
<1>8. CallsOK'
  <2>1. \A k \in 1 .. L :
          /\ calls[k].n \in Stacked
          /\ calls[k].succs \subseteq succs[calls[k].n]
          /\ succs[calls[k].n] \ calls[k].succs \subseteq Visited
    BY DEF SearchInv, CallsOK, L
  <2>2. \A j, k \in 1 .. L : j < k => index[calls[j].n] < index[calls[k].n]
    BY DEF SearchInv, CallsOK, L
  <2>3. ASSUME NEW k \in 1 .. Len(calls')
        PROVE  /\ calls'[k].n \in Stacked'
               /\ calls'[k].succs \subseteq succs'[calls'[k].n]
               /\ succs'[calls'[k].n] \ calls'[k].succs \subseteq Visited'
    <3>1. CASE k = L + 1
      BY <1>2, <1>3, <3>1
    <3>2. CASE k \in 1 .. L
      <4>1. calls'[k].n = calls[k].n /\ calls[k].succs \ {n} \subseteq calls'[k].succs
        BY <1>3, <3>2
      <4>2. calls'[k].succs \subseteq calls[k].succs
        BY <1>3, <3>2
      <4>3. calls'[k].n \in Stacked'
        BY <1>2, <2>1, <3>2, <4>1
      <4>4. calls'[k].succs \subseteq succs'[calls'[k].n]
        BY <2>1, <3>2, <4>1, <4>2
      <4>5. succs'[calls'[k].n] \ calls'[k].succs \subseteq Visited'
        BY <1>1, <2>1, <3>2, <4>1
      <4> QED BY <4>3, <4>4, <4>5
    <3> QED BY <1>3, <3>1, <3>2
  <2>4. ASSUME NEW j \in 1 .. Len(calls'), NEW k \in 1 .. Len(calls'), j < k
        PROVE  index'[calls'[j].n] < index'[calls'[k].n]
    <3>0. j \in 1 .. L
      BY <1>14, <2>4
    <3>1. j \in 1 .. L /\ Old(calls[j].n) /\ calls'[j].n = calls[j].n
      BY <1>5, <1>13, <3>0
    <3>2. CASE k = L + 1
      BY <1>1, <1>3, <3>1, <3>2
    <3>3. CASE k # L + 1
      <4>1. k \in 1 .. L /\ Old(calls[k].n) /\ calls'[k].n = calls[k].n
        BY <1>5, <1>13, <1>15, <3>3
      <4> QED BY <2>2, <2>4, <3>1, <4>1
    <3> QED BY <3>2, <3>3
  <2> QED BY <1>3, <2>3, <2>4 DEF CallsOK
<1>9. LeftOK' /\ Finished' = Finished
  <2>1. Finished' = Finished /\ Visited' \ Calling' = Visited \ Calling
    BY <1>1, <1>2, <1>3, <1>4 DEF Finished
  <2> QED BY <1>1, <2>1 DEF SearchInv, LeftOK
<1>10. PathsOK'
  <2>1. ASSUME NEW x \in Calling', NEW y \in Stacked', index'[x] <= index'[y]
        PROVE  Reaches(succs, x, y)
    <3>1. CASE x \in Calling /\ y \in Stacked
      BY <1>5, <2>1, <3>1 DEF SearchInv, PathsOK
    <3>2. CASE x = n
      <4>1. y = n
        BY <1>1, <1>2, <1>5, <2>1, <3>2
      <4> QED BY <3>2, <4>1, ReachesEdge
    <3>3. CASE x \in Calling /\ y = n
      <4>1. PICK k \in 1 .. L : x = calls[k].n
        BY <3>3 DEF Calling, L
      <4>2. L \in 1 .. L /\ n \in calls[L].succs
        BY <1>3, <4>1 DEF Calls, L
      <4>3. calls[L].n \in Calling /\ calls[L].n \in Stacked /\ n \in succs[calls[L].n]
        BY <1>3, <4>2 DEF SearchInv, CallsOK, L
      <4>4. index[x] <= index[calls[L].n]
        <5>1. k = L \/ k < L
          BY <1>3
        <5>2. k < L => index[calls[k].n] < index[calls[L].n]
          BY <4>2 DEF SearchInv, CallsOK, L
        <5>3. index[calls[k].n] \in Int /\ index[calls[L].n] \in Int
          BY <1>5, <4>2
        <5> QED BY <4>1, <5>1, <5>2, <5>3
      <4>5. Reaches(succs, x, calls[L].n)
        BY <3>3, <4>3, <4>4 DEF SearchInv, PathsOK
      <4> QED BY <3>3, <4>3, <4>5, ReachesEdge, ReachesOn
    <3> QED BY <1>2, <1>3, <3>1, <3>2, <3>3
  <2>2. ASSUME NEW y \in Stacked'
        PROVE  \E x \in Calling' : index'[x] <= index'[y] /\ Reaches(succs, y, x)
    <3>1. CASE y \in Stacked
      <4>1. PICK x \in Calling : index[x] <= index[y] /\ Reaches(succs, y, x)
        BY <3>1 DEF SearchInv, PathsOK
      <4> QED BY <1>3, <1>5, <3>1, <4>1
    <3>2. CASE y = n
      BY <1>1, <1>3, <3>2, ReachesEdge
    <3> QED BY <1>2, <3>1, <3>2
  <2> QED BY <2>1, <2>2 DEF PathsOK
<1>11. LowOK'
  <2>1. lowlink' = [lowlink EXCEPT ![n] = Cardinality(Visited)] /\ lowlink \in [Block -> Int]
    BY DEF Traverse, SearchInv, LowOK
  <2>2. /\ lowlink' \in [Block -> Int] /\ lowlink'[n] = Cardinality(Visited)
        /\ \A m \in Stacked : lowlink'[m] = lowlink[m] /\ lowlink[m] \in Int
    BY <1>1, <1>4, <2>1
  <2>3. ASSUME NEW k \in 1 .. L
        PROVE  /\ lowlink'[calls[k].n] = lowlink[calls[k].n] /\ lowlink[calls[k].n] \in Int
               /\ lowlink[calls[k].n] <= index[calls[k].n]
               /\ index[calls[k].n] < Cardinality(Visited) /\ index[calls[k].n] \in Int
               /\ index'[calls[k].n] = index[calls[k].n]
               /\ lowlink[calls[k].n] <= index'[n]
    <3>1. calls[k].n \in Stacked
      BY <1>3, <1>4
    <3>2. lowlink[calls[k].n] <= index[calls[k].n]
      BY DEF SearchInv, LowOK, L
    <3> QED BY <1>1, <1>5, <2>2, <3>1, <3>2
  <2>4. ASSUME NEW k \in 1 .. Len(calls')
        PROVE  /\ lowlink'[calls'[k].n] <= index'[calls'[k].n]
               /\ \E m \in Stacked' : lowlink'[calls'[k].n] = index'[m]
                                      /\ Reaches(succs, calls'[k].n, m)
    <3>1. CASE k = L + 1
      <4>1. calls'[k].n = n
        BY <1>3, <3>1
      <4> QED BY <1>1, <1>2, <2>2, <4>1, ReachesEdge
    <3>2. CASE k \in 1 .. L
      <4>1. PICK m \in Stacked : lowlink[calls[k].n] = index[m] /\ Reaches(succs, calls[k].n, m)
        BY <3>2 DEF SearchInv, LowOK, L
      <4>2. calls'[k].n = calls[k].n /\ index'[m] = index[m] /\ m \in Stacked'
        BY <1>2, <1>3, <1>5, <3>2
      <4> QED BY <2>3, <3>2, <4>1, <4>2
    <3> QED BY <1>3, <3>1, <3>2
  <2>5. ASSUME NEW k \in 1 .. Len(calls'), NEW x \in LeftBy(k)', NEW y \in succs[x] \cap Stacked'
        PROVE  lowlink'[calls'[k].n] <= index'[y]
    <3>1. x \in Stacked' /\ index'[calls'[k].n] < index'[x]
          /\ (k < Len(calls') => index'[x] < index'[calls'[k + 1].n])
      BY <2>5 DEF LeftBy
    <3>2. k # L + 1
      <4>0. index'[n] \in Int
        BY <1>1
      <4>1. CASE x = n
        <5>1. index'[x] <= index'[n] /\ index'[x] \in Int
          BY <4>0, <4>1
        <5> QED BY <1>3, <3>1, <4>0, <5>1
      <4>2. CASE x \in Stacked
        <5>1. Old(x)
          BY <1>5, <4>2
        <5>2. index'[x] <= index'[n] /\ index'[x] \in Int
          BY <1>1, <5>1
        <5> QED BY <1>3, <3>1, <4>0, <5>2
      <4> QED BY <1>2, <3>1, <4>1, <4>2
    <3>3. k \in 1 .. L /\ calls'[k].n = calls[k].n
      BY <1>13, <1>15, <3>2
    <3>4. k < L => k + 1 \in 1 .. L /\ calls'[k + 1].n = calls[k + 1].n
      <4>1. k < L => k + 1 \in 1 .. L
        BY <1>14, <3>3
      <4> QED BY <1>13, <4>1
    <3>5. x # n
      <4>1. CASE k = L
        BY <1>1, <1>3, <3>1, <4>1
      <4>2. CASE k < L
        <5>1. k + 1 \in 1 .. L /\ calls'[k + 1].n = calls[k + 1].n /\ k < Len(calls')
          BY <1>14, <3>4, <4>2
        <5>2. Old(calls[k + 1].n)
          BY <1>5, <5>1
        <5>3. index'[x] < index'[calls[k + 1].n]
          BY <3>1, <5>1
        <5> QED BY <1>1, <5>2, <5>3
      <4> QED BY <1>3, <3>3, <4>1, <4>2
    <3>6. x \in Stacked /\ Old(x)
      BY <1>2, <1>5, <3>1, <3>5
    <3>7. x \in LeftBy(k)
      <4>1. index[calls[k].n] < index[x]
        BY <1>5, <3>1, <3>3, <3>6
      <4>2. k < L => index[x] < index[calls[k + 1].n]
        BY <1>3, <1>5, <3>1, <3>4, <3>6
      <4> QED BY <3>6, <4>1, <4>2 DEF LeftBy, L
    <3>8. CASE y = n
      BY <2>3, <3>3, <3>8
    <3>9. CASE y \in Stacked
      <4>1. lowlink[calls[k].n] <= index[y]
        BY <2>5, <3>3, <3>7, <3>9 DEF SearchInv, LowOK, L
      <4> QED BY <1>5, <2>3, <3>3, <3>9, <4>1
    <3> QED BY <1>2, <3>8, <3>9
  <2>6. ASSUME NEW k \in 1 .. Len(calls'), NEW y \in (succs[calls'[k].n] \ calls'[k].succs) \cap Stacked'
        PROVE  lowlink'[calls'[k].n] <= index'[y] \/ (k < Len(calls') /\ y = calls'[k + 1].n)
    <3>1. k # L + 1
      BY <1>3, <2>6
    <3>2. k \in 1 .. L /\ calls'[k].n = calls[k].n
      BY <1>13, <1>15, <3>1
    <3>3. CASE y = n
      BY <2>3, <3>2, <3>3
    <3>4. CASE y \in Stacked
      <4>1. y # n /\ y \in succs[calls[k].n] \ calls[k].succs
        BY <1>3, <1>4, <2>6, <3>2, <3>4
      <4>2. lowlink[calls[k].n] <= index[y] \/ (k < L /\ y = calls[k + 1].n)
        BY <3>2, <3>4, <4>1 DEF SearchInv, LowOK, L
      <4>3. k < L => k + 1 \in 1 .. L
        BY <1>14, <3>2
      <4>4. k < L => calls'[k + 1].n = calls[k + 1].n /\ k < Len(calls')
        BY <1>13, <1>14, <4>3
      <4>5. index'[y] = index[y]
        BY <1>5, <3>4
      <4> QED BY <2>3, <3>2, <4>2, <4>4, <4>5
    <3> QED BY <1>2, <3>3, <3>4
  <2> QED BY <2>2, <2>4, <2>5, <2>6 DEF LowOK
<1>12. SccsOK'
  BY <1>9 DEF SearchInv, SccsOK
<1> QED
  BY <1>6, <1>7, <1>8, <1>9, <1>10, <1>11, <1>12 DEF SearchInv

-----------------------------------------------------------------------------
(* A successor seen before.                                                *)

\* A successor is done with.
LEMMA ToDoCalls ==
  ASSUME GraphOK, SearchInv, calls # << >>, NEW su \in Top.succs
  PROVE  Calls(ToDo(Top.succs \ {su}), su)
<1> DEFINE C == [n : Block, succs : SUBSET Block]
           L == Len(calls)
           c == [calls[L] EXCEPT !.succs = calls[L].succs \ {su}]
<1>1. calls \in Seq(C) /\ L \in 1 .. Len(calls) /\ Top = calls[L]
  BY EmptySeq, LenProperties DEF SearchInv, CallsOK, Top, Last
<1>2. c \in C /\ c.n = calls[L].n /\ c.succs = calls[L].succs \ {su}
  <2> DEFINE r == calls[L]
  <2>1. r \in C
    <3> HIDE DEF C
    <3> QED BY <1>1, ElementOfSeq
  <2>2. r.n \in Block /\ r.succs \ {su} \in SUBSET Block
    BY <2>1
  <2> HIDE DEF r
  <2>3. [r EXCEPT !.succs = r.succs \ {su}] \in C
    BY <2>1, <2>2
  <2>4. [r EXCEPT !.succs = r.succs \ {su}].n = r.n /\ [r EXCEPT !.succs = r.succs \ {su}].succs = r.succs \ {su}
    BY <2>1
  <2> QED BY <2>3, <2>4 DEF r
<1>3. ToDo(Top.succs \ {su}) = [calls EXCEPT ![L] = c]
  BY <1>1 DEF ToDo
<1>4. su \in calls[L].succs
  BY <1>1
<1> HIDE DEF C, c
<1>5. /\ [calls EXCEPT ![L] = c] \in Seq(C) /\ Len([calls EXCEPT ![L] = c]) = Len(calls)
      /\ \A j \in 1 .. Len(calls) : [calls EXCEPT ![L] = c][j] = IF j = L THEN c ELSE calls[j]
  BY <1>1, <1>2, ExceptSeq
<1> DEFINE d == ToDo(Top.succs \ {su})
<1>6. /\ d \in Seq(C) /\ Len(d) = Len(calls)
      /\ \A j \in 1 .. Len(calls) : d[j] = IF j = L THEN c ELSE calls[j]
  BY <1>3, <1>5
<1> HIDE DEF d
<1>7. Calls(d, su)
  BY <1>2, <1>4, <1>6 DEF Calls, C
<1> QED BY <1>7 DEF d

\* The invariant is kept when a successor was visited before: on the stack it
\* is one the block reaches, off the stack it belongs to another component.
LEMMA SeeSuccInv ==
  ASSUME GraphOK, SearchInv, SeeSucc
  PROVE  SearchInv'
<1> DEFINE L == Len(calls)
           n == calls[L].n
<1>1. PICK su \in Top.succs \cap Visited :
        /\ lowlink' = [lowlink EXCEPT
                         ![Top.n] = IF su \in ToSet(stack) THEN Least(index[su], @) ELSE @]
        /\ calls' = ToDo(Top.succs \ {su})
  BY DEF SeeSucc
<1>2. /\ calls # << >> /\ nodes' = nodes /\ succs' = succs /\ index' = index /\ stack' = stack
      /\ sccs' = sccs
  BY DEF SeeSucc
<1>3. Calls(calls', su)
  BY <1>1, <1>2, ToDoCalls
<1>4. /\ calls' \in Seq([n : Block, succs : SUBSET Block]) /\ Len(calls') = L
      /\ \A k \in 1 .. L :
           /\ calls'[k].n = calls[k].n
           /\ calls'[k].succs = IF k = L THEN calls[k].succs \ {su} ELSE calls[k].succs
      /\ su \in calls[L].succs
  BY <1>2, <1>3 DEF Calls
<1>5. L \in Nat /\ L \in 1 .. L /\ Top = calls[L]
  BY <1>2, EmptySeq, LenProperties DEF SearchInv, CallsOK, Top, Last
<1>6. \A k \in 1 .. L : /\ calls[k].n \in Stacked
                        /\ calls[k].succs \subseteq succs[calls[k].n]
                        /\ succs[calls[k].n] \ calls[k].succs \subseteq Visited
  BY DEF SearchInv, CallsOK
<1>7. \A j, k \in 1 .. L : j < k => index[calls[j].n] < index[calls[k].n]
  BY DEF SearchInv, CallsOK
<1>8. n \in Block /\ su \in succs[n] /\ Stacked \subseteq Visited /\ Visited \subseteq Block
  BY <1>4, <1>5, <1>6 DEF SearchInv, StackOK, GraphOK, Visited
<1>9. \A x \in Visited : index[x] \in Int
  BY <1>8 DEF SearchInv, NumbersOK
<1>10. \A k \in 1 .. L : calls'[k].n = calls[k].n
  BY <1>4
<1> HIDE DEF L
<1>11. Visited' = Visited /\ Stacked' = Stacked /\ Finished' = Finished /\ Calling' = Calling
  <2>1. Visited' = Visited /\ Stacked' = Stacked
    BY <1>2 DEF Visited, Stacked
  <2>2. Calling' = Calling
    BY <1>4, <1>10 DEF Calling, L
  <2> QED BY <2>1, <2>2 DEF Finished
<1>12. NumbersOK' /\ StackOK' /\ LeftOK' /\ PathsOK' /\ SccsOK'
  BY <1>2, <1>11 DEF SearchInv, NumbersOK, StackOK, LeftOK, PathsOK, SccsOK
<1>13. CallsOK'
  <2>1. ASSUME NEW k \in 1 .. L
        PROVE  /\ calls'[k].n \in Stacked
               /\ calls'[k].succs \subseteq succs[calls'[k].n]
               /\ succs[calls'[k].n] \ calls'[k].succs \subseteq Visited
    BY <1>1, <1>4, <1>6, <1>10
  <2>2. \A j, k \in 1 .. L : j < k => index[calls'[j].n] < index[calls'[k].n]
    BY <1>7, <1>10
  <2> QED BY <1>2, <1>4, <1>11, <2>1, <2>2 DEF CallsOK
<1>14. LowOK'
  <2> DEFINE low == lowlink'[n]
  <2>1. /\ lowlink \in [Block -> Int] /\ lowlink' \in [Block -> Int]
        /\ \A m \in Block : m # n => lowlink'[m] = lowlink[m]
        /\ low = IF su \in Stacked THEN Least(index[su], lowlink[n]) ELSE lowlink[n]
    <3>1. lowlink \in [Block -> Int]
      BY DEF SearchInv, LowOK
    <3>2. index[su] \in Int /\ Top.n = n
      BY <1>1, <1>5, <1>9
    <3> QED BY <1>1, <1>8, <3>1, <3>2 DEF Least, Stacked
  <2>2. /\ low \in Int /\ lowlink[n] \in Int /\ low <= lowlink[n]
        /\ low = lowlink[n] \/ (su \in Stacked /\ low = index[su])
        /\ su \in Stacked => low <= index[su]
    BY <1>1, <1>8, <1>9, <2>1 DEF Least
  <2>3. ASSUME NEW k \in 1 .. L
        PROVE  /\ lowlink'[calls[k].n] \in Int /\ lowlink'[calls[k].n] <= lowlink[calls[k].n]
               /\ lowlink[calls[k].n] \in Int /\ calls[k].n \in Block
               /\ index[calls[k].n] \in Int
               /\ k # L => lowlink'[calls[k].n] = lowlink[calls[k].n]
    <3>1. calls[k].n \in Block /\ index[calls[k].n] \in Int
      BY <1>6, <1>8, <1>9
    <3>2. k # L => calls[k].n # n
      BY <1>5, <1>7, <3>1
    <3> QED BY <2>1, <2>2, <3>1, <3>2
  <2>4. ASSUME NEW k \in 1 .. L
        PROVE  /\ lowlink'[calls[k].n] <= index[calls[k].n]
               /\ \E m \in Stacked : lowlink'[calls[k].n] = index[m] /\ Reaches(succs, calls[k].n, m)
    <3>1. /\ lowlink[calls[k].n] <= index[calls[k].n]
          /\ \E m \in Stacked : lowlink[calls[k].n] = index[m] /\ Reaches(succs, calls[k].n, m)
      BY DEF SearchInv, LowOK, L
    <3>2. CASE lowlink'[calls[k].n] = lowlink[calls[k].n]
      BY <3>1, <3>2
    <3>3. CASE lowlink'[calls[k].n] # lowlink[calls[k].n]
      <4>1. calls[k].n = n /\ su \in Stacked /\ low = index[su]
        BY <2>2, <2>3, <3>3
      <4> QED BY <1>8, <2>3, <3>1, <4>1, ReachesEdge
    <3> QED BY <3>2, <3>3
  <2>5. ASSUME NEW k \in 1 .. L, NEW x \in LeftBy(k)', NEW y \in succs[x] \cap Stacked
        PROVE  lowlink'[calls[k].n] <= index[y]
    <3>1. x \in LeftBy(k)
      <4>1. k < L => k + 1 \in 1 .. L
        BY <1>5
      <4>2. k < L => calls'[k + 1].n = calls[k + 1].n
        BY <1>10, <4>1
      <4> QED BY <1>2, <1>4, <1>10, <1>11, <2>5, <4>2 DEF LeftBy, L
    <3>2. lowlink[calls[k].n] <= index[y]
      BY <2>5, <3>1 DEF SearchInv, LowOK, L
    <3>3. index[y] \in Int
      BY <1>8, <1>9, <2>5
    <3> QED BY <2>3, <3>2, <3>3
  <2>6. ASSUME NEW k \in 1 .. L, NEW y \in (succs[calls[k].n] \ calls'[k].succs) \cap Stacked
        PROVE  lowlink'[calls[k].n] <= index[y] \/ (k < L /\ y = calls'[k + 1].n)
    <3>1. index[y] \in Int
      BY <1>8, <1>9, <2>6
    <3>2. CASE y \in succs[calls[k].n] \ calls[k].succs
      <4>1. lowlink[calls[k].n] <= index[y] \/ (k < L /\ y = calls[k + 1].n)
        BY <2>6, <3>2 DEF SearchInv, LowOK, L
      <4>2. k < L => k + 1 \in 1 .. L
        BY <1>5
      <4>3. k < L => calls'[k + 1].n = calls[k + 1].n
        BY <1>10, <4>2
      <4> QED BY <2>3, <3>1, <4>1, <4>3
    <3>3. CASE y \notin succs[calls[k].n] \ calls[k].succs
      <4>1. k = L /\ y = su
        BY <1>4, <2>6, <3>3
      <4> QED BY <2>2, <2>6, <4>1
    <3> QED BY <3>2, <3>3
  <2>7. ASSUME NEW k \in 1 .. Len(calls')
        PROVE  k \in 1 .. L /\ calls'[k].n = calls[k].n
    BY <1>4, <1>10
  <2>8. ASSUME NEW k \in 1 .. Len(calls')
        PROVE  /\ lowlink'[calls'[k].n] <= index'[calls'[k].n]
               /\ \E m \in Stacked' : lowlink'[calls'[k].n] = index'[m] /\ Reaches(succs', calls'[k].n, m)
               /\ \A x \in LeftBy(k)' : \A y \in succs'[x] \cap Stacked' : lowlink'[calls'[k].n] <= index'[y]
               /\ \A y \in (succs'[calls'[k].n] \ calls'[k].succs) \cap Stacked' :
                    lowlink'[calls'[k].n] <= index'[y] \/ (k < Len(calls') /\ y = calls'[k + 1].n)
    <3>1. k \in 1 .. L /\ calls'[k].n = calls[k].n /\ Len(calls') = L
      BY <1>4, <2>7
    <3> QED BY <1>2, <1>11, <2>4, <2>5, <2>6, <3>1
  <2> QED BY <2>1, <2>8 DEF LowOK
<1> QED
  BY <1>12, <1>13, <1>14 DEF SearchInv

-----------------------------------------------------------------------------
(* A call ends.                                                            *)

\* Two blocks on the stack have different numbers.
LEMMA NumbersDiffer ==
  ASSUME GraphOK, NumbersOK, StackOK, NEW x \in Stacked, NEW y \in Stacked, index[x] = index[y]
  PROVE  x = y
<1>1. DOMAIN stack = 1 .. Len(stack) /\ Len(stack) \in Nat
  BY LenProperties DEF StackOK
<1>2. PICK i \in 1 .. Len(stack) : stack[i] = x
  BY <1>1 DEF Stacked, ToSet
<1>3. PICK j \in 1 .. Len(stack) : stack[j] = y
  BY <1>1 DEF Stacked, ToSet
<1>4. index[stack[i]] = index[stack[j]] /\ index[x] \in Int
  BY <1>2, <1>3 DEF GraphOK, NumbersOK, StackOK, Visited
<1>5. ~(i < j) /\ ~(j < i)
  BY <1>2, <1>3, <1>4 DEF StackOK
<1>6. i = j
  BY <1>1, <1>5
<1> QED
  BY <1>2, <1>3, <1>6

\* What Return takes off the stack are the blocks from n on.
LEMMA ComponentOnTop ==
  ASSUME GraphOK, NumbersOK, StackOK, NEW n \in Stacked
  PROVE  LET s2 == SubSeq(stack, 1, Len(stack) - Cardinality(Component(n)))
         IN  /\ Component(n) = {x \in Stacked : index[n] <= index[x]}
             /\ s2 \in Seq(Block) /\ Len(s2) \in Nat /\ Len(s2) <= Len(stack)
             /\ \A i \in 1 .. Len(s2) : s2[i] = stack[i]
             /\ ToSet(s2) = {x \in Stacked : index[x] < index[n]}
<1> DEFINE N == Len(stack)
<1>1. stack \in Seq(Block) /\ DOMAIN stack = 1 .. N /\ N \in Nat
  BY LenProperties DEF StackOK
<1>2. PICK i \in 1 .. N : stack[i] = n
  BY <1>1 DEF Stacked, ToSet
<1>3. \A j \in 1 .. N : stack[j] \in Stacked /\ index[stack[j]] \in Int
  BY <1>1 DEF Stacked, ToSet, GraphOK, NumbersOK, StackOK, Visited
<1>4. \A j, k \in 1 .. N : j < k => index[stack[j]] < index[stack[k]]
  BY DEF StackOK
<1>5. \A j, k \in 1 .. N : stack[j] = stack[k] => j = k
  <2> SUFFICES ASSUME NEW j \in 1 .. N, NEW k \in 1 .. N, stack[j] = stack[k]
               PROVE  j = k
    OBVIOUS
  <2>1. ~(j < k) /\ ~(k < j)
    BY <1>3, <1>4
  <2> QED BY <1>1, <2>1
<1>6. (CHOOSE j \in DOMAIN stack : stack[j] = n) = i
  BY <1>1, <1>2, <1>5
<1> DEFINE t == SubSeq(stack, i, N)
           C == Component(n)
<1>7. C = ToSet(t)
  BY <1>6 DEF Component
<1> HIDE DEF N
<1>8. /\ t \in Seq(Block) /\ Len(t) = N - i + 1
      /\ \A k \in 1 .. N - i + 1 : t[k] = stack[i + k - 1]
  <2>1. \A k \in i .. N : stack[k] \in Block
    BY <1>1
  <2>2. i \in Int /\ N \in Int /\ i <= N
    BY <1>1, <1>2
  <2> QED BY <2>1, <2>2, SubSeqProperties
<1>9. DOMAIN t = 1 .. N - i + 1
  BY <1>8, LenProperties
<1> HIDE DEF t
<1>10. C = {stack[k] : k \in i .. N}
  <2>1. \A k \in 1 .. N - i + 1 : i + k - 1 \in i .. N
    BY <1>1, <1>2
  <2>2. ASSUME NEW k \in i .. N
        PROVE  k - i + 1 \in 1 .. N - i + 1 /\ t[k - i + 1] = stack[k]
    <3>1. k - i + 1 \in 1 .. N - i + 1 /\ i + (k - i + 1) - 1 = k
      BY <1>1, <1>2
    <3> QED BY <1>8, <3>1
  <2>3. C = {t[k] : k \in 1 .. N - i + 1}
    BY <1>7, <1>9 DEF ToSet
  <2>4. C \subseteq {stack[k] : k \in i .. N}
    BY <1>8, <2>1, <2>3
  <2>5. {stack[k] : k \in i .. N} \subseteq C
    BY <2>2, <2>3
  <2> QED BY <2>4, <2>5
<1>11. Cardinality(C) = N - i + 1
  <2>1. t \in [1 .. N - i + 1 -> C]
    <3>1. \A k \in 1 .. N - i + 1 : t[k] \in C
      BY <1>7, <1>9 DEF ToSet
    <3> QED BY <1>8, <1>9, <3>1, LenProperties
  <2>2. \A c \in C : \E k \in 1 .. N - i + 1 : t[k] = c
    BY <1>7, <1>9 DEF ToSet
  <2>3. ASSUME NEW a \in 1 .. N - i + 1, NEW b \in 1 .. N - i + 1, t[a] = t[b]
        PROVE  a = b
    <3>1. i + a - 1 \in 1 .. N /\ i + b - 1 \in 1 .. N
      BY <1>1, <1>2
    <3>2. stack[i + a - 1] = stack[i + b - 1]
      BY <1>8, <2>3
    <3>3. i + a - 1 = i + b - 1
      BY <1>5, <3>1, <3>2
    <3> QED BY <1>2, <3>3
  <2>4. t \in Bijection(1 .. N - i + 1, C)
    BY <2>1, <2>2, <2>3 DEF Bijection, Injection, Surjection, IsInjective
  <2>5. N - i + 1 \in Nat
    BY <1>1, <1>2
  <2> HIDE DEF C
  <2> QED BY <2>4, <2>5, FS_CountingElements DEF ExistsBijection
<1>12. C = {x \in Stacked : index[n] <= index[x]}
  <2>1. ASSUME NEW k \in 1 .. N
        PROVE  k \in i .. N <=> index[n] <= index[stack[k]]
    <3>1. index[stack[k]] \in Int /\ index[n] \in Int
      BY <1>2, <1>3
    <3>2. k < i => index[stack[k]] < index[n]
      BY <1>2, <1>4
    <3>3. i < k => index[n] < index[stack[k]]
      BY <1>2, <1>4
    <3>4. k < i \/ k = i \/ i < k
      BY <1>1
    <3> QED BY <1>1, <1>2, <3>1, <3>2, <3>3, <3>4
  <2>2. Stacked = {stack[k] : k \in 1 .. N}
    BY <1>1 DEF Stacked, ToSet
  <2>3. i .. N \subseteq 1 .. N
    BY <1>1, <1>2
  <2> HIDE DEF C
  <2> QED BY <1>10, <2>1, <2>2, <2>3
<1> DEFINE s2 == SubSeq(stack, 1, N - Cardinality(C))
<1>13. N - Cardinality(C) = i - 1 /\ i - 1 \in Nat
  BY <1>1, <1>2, <1>11
<1>14. /\ s2 \in Seq(Block) /\ Len(s2) = i - 1
       /\ \A k \in 1 .. i - 1 : s2[k] = stack[k]
  <2>1. s2 = SubSeq(stack, 1, i - 1)
    BY <1>13
  <2>2. \A k \in 1 .. i - 1 : stack[k] \in Block
    BY <1>1, <1>2
  <2>3. /\ SubSeq(stack, 1, i - 1) \in Seq(Block)
        /\ Len(SubSeq(stack, 1, i - 1)) = IF 1 <= i - 1 THEN i - 1 - 1 + 1 ELSE 0
        /\ \A k \in 1 .. i - 1 - 1 + 1 : SubSeq(stack, 1, i - 1)[k] = stack[1 + k - 1]
    BY <1>13, <2>2, SubSeqProperties
  <2>4. (IF 1 <= i - 1 THEN i - 1 - 1 + 1 ELSE 0) = i - 1 /\ i - 1 - 1 + 1 = i - 1
    BY <1>13
  <2>5. \A k \in 1 .. i - 1 : 1 + k - 1 = k
    BY <1>13
  <2> QED BY <2>1, <2>3, <2>4, <2>5
<1>15. DOMAIN s2 = 1 .. i - 1
  BY <1>14, LenProperties
<1> HIDE DEF s2
<1>16. ToSet(s2) = {x \in Stacked : index[x] < index[n]}
  <2>1. ASSUME NEW k \in 1 .. N
        PROVE  k \in 1 .. i - 1 <=> index[stack[k]] < index[n]
    <3>1. index[stack[k]] \in Int /\ index[n] \in Int
      BY <1>2, <1>3
    <3>2. k < i => index[stack[k]] < index[n]
      BY <1>2, <1>4
    <3>3. i < k => index[n] < index[stack[k]]
      BY <1>2, <1>4
    <3>4. k < i \/ k = i \/ i < k
      BY <1>1
    <3> QED BY <1>1, <1>2, <3>1, <3>2, <3>3, <3>4
  <2>2. Stacked = {stack[k] : k \in 1 .. N}
    BY <1>1 DEF Stacked, ToSet
  <2>3. 1 .. i - 1 \subseteq 1 .. N
    BY <1>1, <1>2
  <2>4. ToSet(s2) = {stack[k] : k \in 1 .. i - 1}
    BY <1>14, <1>15 DEF ToSet
  <2> QED BY <2>1, <2>2, <2>3, <2>4
<1>17. Len(s2) \in Nat /\ Len(s2) <= N /\ \A k \in 1 .. Len(s2) : s2[k] = stack[k]
  BY <1>1, <1>2, <1>13, <1>14
<1> QED
  BY <1>12, <1>14, <1>16, <1>17 DEF s2, N

\* Is the block of the innermost call the first of its component?
Root == index[Top.n] = lowlink[Top.n]

\* What Return leaves of the stack and the calls.
LEMMA ReturnStack ==
  ASSUME GraphOK, SearchInv, Return
  PROVE  /\ Len(calls) \in Nat /\ Len(calls) # 0 /\ Top = calls[Len(calls)]
         /\ Top.n \in Stacked /\ Top.n \in Calling /\ Top.succs = {}
         /\ calls' \in Seq([n : Block, succs : SUBSET Block]) /\ Len(calls') = Len(calls) - 1
         /\ \A k \in 1 .. Len(calls) - 1 :
              /\ calls'[k] = calls[k] /\ calls[k].n \in Stacked /\ calls[k].n \in Calling
              /\ calls[k].n # Top.n /\ index[calls[k].n] < index[Top.n]
         /\ Calling' = Calling \ {Top.n}
         /\ \A x \in Calling : index[x] <= index[Top.n]
<1> DEFINE L == Len(calls)
           C == [n : Block, succs : SUBSET Block]
<1>1. calls # << >> /\ Top.succs = {} /\ calls' = Front(calls)
  BY DEF Return
<1>2. calls \in Seq(C) /\ L \in Nat /\ L # 0 /\ L \in 1 .. L /\ Top = calls[L]
  BY <1>1, EmptySeq, LenProperties DEF SearchInv, CallsOK, Top, Last
<1>3. \A k \in 1 .. L : calls[k].n \in Stacked /\ calls[k].n \in Calling /\ index[calls[k].n] \in Int
  BY DEF SearchInv, CallsOK, Calling, StackOK, NumbersOK, GraphOK, Visited
<1>4. /\ calls' \in Seq(C) /\ Len(calls') = L - 1
      /\ \A k \in 1 .. L - 1 : calls'[k] = calls[k]
  <2>1. calls' = SubSeq(calls, 1, L - 1)
    BY <1>1 DEF Front
  <2> HIDE DEF C
  <2>2. \A k \in 1 .. L - 1 : calls[k] \in C
    BY <1>2, ElementOfSeq
  <2> HIDE DEF L
  <2>3. /\ SubSeq(calls, 1, L - 1) \in Seq(C)
        /\ Len(SubSeq(calls, 1, L - 1)) = IF 1 <= L - 1 THEN L - 1 - 1 + 1 ELSE 0
        /\ \A k \in 1 .. L - 1 - 1 + 1 : SubSeq(calls, 1, L - 1)[k] = calls[1 + k - 1]
    BY <1>2, <2>2, SubSeqProperties
  <2>4. (IF 1 <= L - 1 THEN L - 1 - 1 + 1 ELSE 0) = L - 1 /\ L - 1 - 1 + 1 = L - 1
    BY <1>2
  <2>5. \A k \in 1 .. L - 1 : 1 + k - 1 = k
    BY <1>2
  <2> QED BY <2>1, <2>3, <2>4, <2>5
<1>5. \A k \in 1 .. L - 1 : index[calls[k].n] < index[Top.n]
  BY <1>2 DEF SearchInv, CallsOK
<1>6. \A k \in 1 .. L - 1 : k \in 1 .. L /\ calls[k].n # Top.n
  <2>1. \A k \in 1 .. L - 1 : k \in 1 .. L
    BY <1>2
  <2> QED BY <1>3, <1>5, <2>1
<1>7. Calling = {calls[k].n : k \in 1 .. L - 1} \cup {Top.n}
  <2>1. 1 .. L = (1 .. L - 1) \cup {L}
    BY <1>2
  <2> QED BY <1>2, <2>1 DEF Calling
<1>8. Calling' = {calls[k].n : k \in 1 .. L - 1}
  BY <1>4 DEF Calling
<1>9. Calling' = Calling \ {Top.n}
  BY <1>6, <1>7, <1>8
<1>10. \A x \in Calling : index[x] <= index[Top.n]
  <2>1. index[Top.n] \in Int /\ \A k \in 1 .. L - 1 : index[calls[k].n] \in Int
    BY <1>2, <1>3, <1>6
  <2>2. \A k \in 1 .. L - 1 : index[calls[k].n] <= index[Top.n]
    BY <1>5, <2>1
  <2> QED BY <1>7, <2>1, <2>2
<1> HIDE DEF C
<1> QED
  BY <1>1, <1>2, <1>3, <1>4, <1>5, <1>6, <1>9, <1>10 DEF C

\* The stack after Return; nothing else that is not above has changed.
LEMMA ReturnPops ==
  ASSUME GraphOK, SearchInv, Return
  PROVE  /\ nodes' = nodes /\ succs' = succs /\ index' = index /\ Visited' = Visited
         /\ stack' \in Seq(Block) /\ Len(stack) \in Nat /\ Len(stack') \in Nat /\ Len(stack') <= Len(stack)
         /\ \A i \in 1 .. Len(stack') : stack'[i] = stack[i]
         /\ Stacked' = {x \in Stacked : Root => index[x] < index[Top.n]}
         /\ sccs' = sccs \cup {c \in {{x \in Stacked : index[Top.n] <= index[x]}} :
                                  Root /\ Cardinality(c) # 1}
         /\ \A x \in Stacked : index[x] \in Int /\ x \in Block
<1> DEFINE n == Top.n
           s2 == SubSeq(stack, 1, Len(stack) - Cardinality(Component(n)))
<1>1. n \in Stacked
  BY ReturnStack
<1>2. /\ Component(n) = {x \in Stacked : index[n] <= index[x]}
      /\ s2 \in Seq(Block) /\ Len(s2) \in Nat /\ Len(s2) <= Len(stack)
      /\ \A i \in 1 .. Len(s2) : s2[i] = stack[i]
      /\ ToSet(s2) = {x \in Stacked : index[x] < index[n]}
  <2> HIDE DEF n
  <2> QED BY <1>1, ComponentOnTop DEF SearchInv
<1>3. /\ stack' = IF Root THEN s2 ELSE stack
      /\ sccs' = sccs \cup {c \in {Component(n)} : Root /\ Cardinality(c) # 1}
      /\ nodes' = nodes /\ succs' = succs /\ index' = index
  BY DEF Return, Root
<1>4. stack \in Seq(Block) /\ Len(stack) \in Nat
  BY LenProperties DEF SearchInv, StackOK
<1>5. Visited' = Visited
  BY <1>3 DEF Visited
<1>6. Stacked' = {x \in Stacked : Root => index[x] < index[n]}
  BY <1>2, <1>3 DEF Stacked
<1>7. \A x \in Stacked : index[x] \in Int /\ x \in Block
  BY DEF SearchInv, StackOK, NumbersOK, GraphOK, Visited
<1> HIDE DEF s2
<1> QED
  BY <1>2, <1>3, <1>4, <1>5, <1>6, <1>7

\* The innermost call has no edges left to do: its lowlink is not above any
\* block on the stack that what was numbered since it began has an edge to.
LEMMA LowestOnTop ==
  ASSUME GraphOK, SearchInv, Return, NEW x \in Stacked, index[Top.n] <= index[x],
         NEW y \in succs[x] \cap Stacked
  PROVE  lowlink[Top.n] <= index[y]
<1> DEFINE L == Len(calls)
<1>1. L \in 1 .. L /\ ~(L < L) /\ Top = calls[L] /\ Top.n \in Stacked /\ Top.succs = {}
  BY ReturnStack
<1>2. index[x] \in Int /\ index[Top.n] \in Int
  BY <1>1, ReturnPops
<1>3. CASE x = Top.n
  BY <1>1, <1>3 DEF SearchInv, LowOK
<1>4. CASE x # Top.n
  <2>1. index[Top.n] # index[x]
    BY <1>1, <1>4, NumbersDiffer DEF SearchInv
  <2>2. x \in LeftBy(L)
    BY <1>1, <1>2, <2>1 DEF LeftBy
  <2> QED BY <1>1, <2>2 DEF SearchInv, LowOK
<1> QED
  BY <1>3, <1>4

\* When the block is the first of its component, what is taken off the stack is
\* the component, and together with what was finished it is closed under edges.
LEMMA ReturnComponent ==
  ASSUME GraphOK, SearchInv, Return, Root
  PROVE  /\ Scc(succs, Top.n) = {x \in Stacked : index[Top.n] <= index[x]}
         /\ \A x \in Finished \cup Scc(succs, Top.n) : succs[x] \subseteq Finished \cup Scc(succs, Top.n)
<1> DEFINE n == Top.n
           K == {x \in Stacked : index[n] <= index[x]}
           S == Scc(succs, n)
<1>1. /\ n \in Stacked /\ n \in Calling /\ Top.succs = {}
      /\ \A x \in Calling : index[x] <= index[n]
  BY ReturnStack
<1>2. \A x \in Stacked : index[x] \in Int /\ x \in Block
  BY ReturnPops
<1>3. n \in K /\ K \subseteq Stacked /\ Stacked \subseteq Visited
  BY <1>1, <1>2 DEF SearchInv, StackOK
<1>4. ASSUME NEW x \in K PROVE succs[x] \subseteq Finished \cup K
  <2>1. succs[x] \subseteq Visited
    <3>1. CASE x = n
      <4>1. Len(calls) \in 1 .. Len(calls) /\ Top = calls[Len(calls)]
        BY ReturnStack
      <4> QED BY <1>1, <3>1, <4>1 DEF SearchInv, CallsOK
    <3>2. CASE x # n
      <4>1. index[x] # index[n]
        BY <1>1, <3>2, NumbersDiffer DEF SearchInv
      <4>2. x \notin Calling
        BY <1>1, <1>2, <4>1
      <4> QED BY <1>3, <4>2 DEF SearchInv, LeftOK
    <3> QED BY <3>1, <3>2
  <2>2. ASSUME NEW y \in succs[x], y \in Stacked PROVE y \in K
    <3>1. lowlink[n] <= index[y]
      BY <2>2, LowestOnTop
    <3>2. index[n] = lowlink[n]
      BY DEF Root
    <3> QED BY <2>2, <3>1, <3>2
  <2> QED BY <2>1, <2>2 DEF Finished
<1>5. \A x \in Finished : succs[x] \subseteq Finished
  BY DEF SearchInv, LeftOK
<1>6. Finished \subseteq Block /\ K \subseteq Block /\ n \notin Finished
  BY <1>1, <1>2 DEF Finished, Visited, GraphOK
<1>7. ASSUME NEW x \in K PROVE x \in S
  <2>1. Reaches(succs, n, x)
    BY <1>1 DEF SearchInv, PathsOK
  <2>2. PICK g \in Calling : index[g] <= index[x] /\ Reaches(succs, x, g)
    BY DEF SearchInv, PathsOK
  <2>3. Reaches(succs, g, n)
    BY <1>1 DEF SearchInv, PathsOK
  <2>4. Reaches(succs, x, n)
    BY <2>2, <2>3, ReachesOn
  <2> QED BY <1>2, <2>1, <2>4 DEF Scc
<1>8. ASSUME NEW x \in S PROVE x \in K
  <2>1. Reaches(succs, n, x) /\ Reaches(succs, x, n) /\ x \in Block
    BY DEF Scc
  <2>2. x \in Finished \cup K
    <3>1. Finished \cup K \in SUBSET Block /\ n \in Finished \cup K
      BY <1>3, <1>6
    <3>2. \A y \in Finished \cup K : succs[y] \subseteq Finished \cup K
      BY <1>4, <1>5
    <3> HIDE DEF K, n
    <3> QED BY <2>1, <3>1, <3>2, ReachesWithin
  <2>3. x \notin Finished
    <3>1. SUFFICES ASSUME x \in Finished PROVE n \in Finished
      BY <1>6
    <3>2. Finished \in SUBSET Block
      BY <1>6
    <3> HIDE DEF n
    <3> QED BY <1>5, <2>1, <3>1, <3>2, ReachesWithin
  <2> QED BY <2>2, <2>3
<1>9. S = K
  BY <1>7, <1>8
<1> QED
  BY <1>4, <1>5, <1>9

\* The component of a block that is finished is recorded, and no other.
LEMMA ReturnSccs ==
  ASSUME GraphOK, SearchInv, Return
  PROVE  SccsOK' /\ LeftOK'
<1> DEFINE n == Top.n
           S == Scc(succs, n)
           Sccs(F) == {c \in {Scc(succs, x) : x \in F} : Cardinality(c) # 1}
<1>1. /\ succs' = succs /\ Visited' = Visited
      /\ Stacked' = {x \in Stacked : Root => index[x] < index[n]}
      /\ sccs' = sccs \cup {c \in {{x \in Stacked : index[n] <= index[x]}} : Root /\ Cardinality(c) # 1}
      /\ \A x \in Stacked : index[x] \in Int /\ x \in Block
  BY ReturnPops
<1>2. n \in Stacked /\ Calling' = Calling \ {n} /\ Top.succs = {} /\ n \in Calling
  BY ReturnStack
<1>3. \A x \in Visited \ Calling' : succs[x] \subseteq Visited
  <2>1. Len(calls) \in 1 .. Len(calls) /\ Top = calls[Len(calls)]
    BY ReturnStack
  <2>2. succs[n] \subseteq Visited
    BY <1>2, <2>1 DEF SearchInv, CallsOK
  <2> QED BY <1>2, <2>2 DEF SearchInv, LeftOK
<1>4. sccs = Sccs(Finished) /\ \A x \in Finished : succs[x] \subseteq Finished
  BY DEF SearchInv, SccsOK, LeftOK
<1>5. CASE ~Root
  <2>1. Finished' = Finished /\ sccs' = sccs
    BY <1>1, <1>5 DEF Finished
  <2> QED BY <1>1, <1>3, <1>4, <2>1 DEF SccsOK, LeftOK
<1>6. CASE Root
  <2>1. /\ S = {x \in Stacked : index[n] <= index[x]}
        /\ \A x \in Finished \cup S : succs[x] \subseteq Finished \cup S
    BY <1>6, ReturnComponent
  <2>2. Stacked \subseteq Visited
    BY DEF SearchInv, StackOK
  <2>3. index[n] \in Int /\ Stacked' = {x \in Stacked : index[x] < index[n]}
    BY <1>1, <1>2, <1>6
  <2>4. Finished' = Finished \cup S
    BY <1>1, <2>1, <2>2, <2>3 DEF Finished
  <2>5. sccs' = sccs \cup {c \in {S} : Cardinality(c) # 1}
    BY <1>1, <1>6, <2>1
  <2>6. n \in S /\ \A x \in S : Scc(succs, x) = S
    <3>1. n \in S /\ n \in Block
      BY <1>1, <1>2, <2>1
    <3>2. ASSUME NEW x \in S PROVE Scc(succs, x) = S
      <4> HIDE DEF n
      <4> QED BY <3>1, SameScc
    <3> QED BY <3>1, <3>2
  <2> HIDE DEF S
  <2>7. {Scc(succs, x) : x \in Finished \cup S} = {Scc(succs, x) : x \in Finished} \cup {S}
    BY <2>6
  <2>8. sccs' = Sccs(Finished \cup S)
    BY <1>4, <2>5, <2>7
  <2> QED BY <1>1, <1>3, <2>1, <2>4, <2>8 DEF SccsOK, LeftOK
<1> QED
  BY <1>5, <1>6

\* What is left on the stack still reaches a call in progress.
LEMMA ReturnPaths ==
  ASSUME GraphOK, SearchInv, Return
  PROVE  PathsOK'
<1> DEFINE n == Top.n
           L == Len(calls)
<1>1. /\ succs' = succs /\ index' = index
      /\ Stacked' = {x \in Stacked : Root => index[x] < index[n]}
      /\ \A x \in Stacked : index[x] \in Int /\ x \in Block
  BY ReturnPops
<1>2. n \in Stacked /\ Calling' = Calling \ {n} /\ L \in 1 .. L /\ Top = calls[L]
  BY ReturnStack
<1>3. \A x \in Calling, y \in Stacked : index[x] <= index[y] => Reaches(succs, x, y)
  BY DEF SearchInv, PathsOK
<1>4. \A y \in Stacked : \E x \in Calling : index[x] <= index[y] /\ Reaches(succs, y, x)
  BY DEF SearchInv, PathsOK
<1>5. Calling \subseteq Stacked
  BY DEF SearchInv, CallsOK, Calling
<1>6. ASSUME NEW y \in Stacked'
      PROVE  \E x \in Calling' : index[x] <= index[y] /\ Reaches(succs, y, x)
  <2>1. PICK x \in Calling : index[x] <= index[y] /\ Reaches(succs, y, x)
    BY <1>1, <1>4
  <2>2. CASE x # n
    BY <1>2, <2>1, <2>2
  <2>3. CASE x = n
    <3>1. ~Root
      BY <1>1, <1>2, <2>1, <2>3
    <3>2. lowlink[n] <= index[n] /\ \E m \in Stacked : lowlink[n] = index[m] /\ Reaches(succs, n, m)
      BY <1>2 DEF SearchInv, LowOK
    <3>3. PICK m \in Stacked : index[m] < index[n] /\ Reaches(succs, n, m)
      BY <1>1, <1>2, <3>1, <3>2 DEF Root
    <3>4. PICK g \in Calling : index[g] <= index[m] /\ Reaches(succs, m, g)
      BY <1>4
    <3>5. index[g] \in Int /\ index[m] \in Int /\ index[n] \in Int /\ index[y] \in Int
      BY <1>1, <1>2, <1>5
    <3>6. g \in Calling' /\ index[g] <= index[y]
      BY <1>2, <2>1, <2>3, <3>3, <3>4, <3>5
    <3>7. Reaches(succs, y, g)
      BY <2>1, <2>3, <3>3, <3>4, ReachesOn
    <3> QED BY <3>6, <3>7
  <2> QED BY <2>2, <2>3
<1>7. \A x \in Calling', y \in Stacked' : index[x] <= index[y] => Reaches(succs, x, y)
  BY <1>1, <1>2, <1>3
<1> QED
  BY <1>1, <1>6, <1>7 DEF PathsOK

\* The lowlinks after Return: that of the caller may have become lower.
LEMMA ReturnLowlinks ==
  ASSUME GraphOK, SearchInv, Return
  PROVE  /\ lowlink' \in [Block -> Int] /\ lowlink[Top.n] \in Int
         /\ \A k \in 1 .. Len(calls) - 1 :
              /\ lowlink[calls[k].n] \in Int /\ lowlink'[calls[k].n] \in Int
              /\ lowlink'[calls[k].n] <= lowlink[calls[k].n]
              /\ lowlink'[calls[k].n] = lowlink[calls[k].n] \/ (k = Len(calls) - 1 /\ lowlink'[calls[k].n] = lowlink[Top.n])
              /\ k = Len(calls) - 1 => lowlink'[calls[k].n] <= lowlink[Top.n]
<1> DEFINE n == Top.n
           L == Len(calls)
           p == calls[L - 1].n
<1>1. lowlink \in [Block -> Int]
  BY DEF SearchInv, LowOK
<1>2. \A x \in Stacked : x \in Block
  BY ReturnPops
<1>3. /\ L \in Nat /\ L # 0 /\ n \in Stacked
      /\ \A k \in 1 .. L - 1 : calls[k].n \in Stacked
  BY ReturnStack
<1>4. lowlink' = IF L = 1 THEN lowlink ELSE [lowlink EXCEPT ![p] = Least(lowlink[n], @)]
  BY DEF Return
<1>5. lowlink[n] \in Int /\ \A k \in 1 .. L - 1 : calls[k].n \in Block /\ lowlink[calls[k].n] \in Int
  BY <1>1, <1>2, <1>3
<1>6. CASE L = 1
  <2>1. 1 .. L - 1 = {}
    BY <1>6
  <2> QED BY <1>1, <1>4, <1>5, <1>6, <2>1
<1>7. CASE L # 1
  <2>1. L - 1 \in 1 .. L - 1
    <3>1. L \in Nat /\ L # 0 /\ L # 1
      BY <1>3, <1>7
    <3> HIDE DEF L
    <3> QED BY <3>1
  <2>2. p \in Block /\ lowlink[p] \in Int
    BY <1>5, <2>1
  <2>3. /\ Least(lowlink[n], lowlink[p]) \in Int /\ Least(lowlink[n], lowlink[p]) <= lowlink[p]
        /\ Least(lowlink[n], lowlink[p]) <= lowlink[n]
        /\ Least(lowlink[n], lowlink[p]) \in {lowlink[n], lowlink[p]}
    BY <1>5, <2>2 DEF Least
  <2> DEFINE low == Least(lowlink[n], lowlink[p])
  <2>4. lowlink' = [lowlink EXCEPT ![p] = low]
    BY <1>4, <1>7
  <2>5. /\ low \in Int /\ low <= lowlink[p] /\ low <= lowlink[n] /\ (low = lowlink[n] \/ low = lowlink[p])
    BY <2>3
  <2> HIDE DEF low
  <2>6. lowlink' \in [Block -> Int] /\ lowlink'[p] = low /\ \A x \in Block : x # p => lowlink'[x] = lowlink[x]
    BY <1>1, <2>2, <2>4, <2>5
  <2>7. ASSUME NEW k \in 1 .. L - 1, calls[k].n = p
        PROVE  k = L - 1
    <3>1. k \in 1 .. L /\ L - 1 \in 1 .. L
      BY <2>1, <1>3
    <3>2. ~(k < L - 1)
      <4>1. index[p] \in Int
        BY <1>3, <2>1, ReturnPops
      <4> QED BY <2>7, <3>1, <4>1 DEF SearchInv, CallsOK
    <3> QED BY <1>3, <3>2
  <2>8. ASSUME NEW k \in 1 .. L - 1
        PROVE  /\ lowlink'[calls[k].n] \in Int
               /\ lowlink'[calls[k].n] <= lowlink[calls[k].n]
               /\ lowlink'[calls[k].n] = lowlink[calls[k].n] \/ (k = L - 1 /\ lowlink'[calls[k].n] = lowlink[n])
               /\ k = L - 1 => lowlink'[calls[k].n] <= lowlink[n]
    <3>1. CASE calls[k].n = p
      BY <2>2, <2>5, <2>6, <2>7, <3>1
    <3>2. CASE calls[k].n # p
      <4>1. lowlink'[calls[k].n] = lowlink[calls[k].n] /\ k # L - 1
        BY <1>5, <2>6, <3>2
      <4> QED BY <1>5, <4>1
    <3> QED BY <3>1, <3>2
  <2> QED BY <1>5, <2>6, <2>8
<1> QED
  BY <1>6, <1>7

\* The lowlinks stay below what the calls have edges to.
LEMMA ReturnLow ==
  ASSUME GraphOK, SearchInv, Return
  PROVE  LowOK'
<1> DEFINE n == Top.n
           L == Len(calls)
           v(k) == calls[k].n
           low(k) == lowlink'[calls[k].n]
<1>1. /\ L \in Nat /\ L # 0 /\ Top = calls[L] /\ n \in Stacked /\ Top.succs = {}
      /\ Len(calls') = L - 1
      /\ \A k \in 1 .. L - 1 :
           /\ calls'[k] = calls[k] /\ v(k) \in Stacked /\ v(k) \in Calling
           /\ v(k) # n /\ index[v(k)] < index[n]
  BY ReturnStack
<1>2. /\ succs' = succs /\ index' = index
      /\ Stacked' = {x \in Stacked : Root => index[x] < index[n]}
      /\ \A x \in Stacked : index[x] \in Int
  BY ReturnPops
<1>3. /\ lowlink' \in [Block -> Int] /\ lowlink[n] \in Int
      /\ \A k \in 1 .. L - 1 :
           /\ lowlink[v(k)] \in Int /\ low(k) \in Int /\ low(k) <= lowlink[v(k)]
           /\ low(k) = lowlink[v(k)] \/ (k = L - 1 /\ low(k) = lowlink[n])
           /\ k = L - 1 => low(k) <= lowlink[n]
  BY ReturnLowlinks
<1>4. \A k \in 1 .. L - 1 : k \in 1 .. L /\ k < L
  BY <1>1
<1>5. L \in 1 .. L /\ ~(L < L)
  BY <1>1
<1>6. ASSUME NEW k \in 1 .. L
      PROVE  /\ lowlink[v(k)] <= index[v(k)]
             /\ \E m \in Stacked : lowlink[v(k)] = index[m] /\ Reaches(succs, v(k), m)
             /\ \A x \in LeftBy(k) : \A y \in succs[x] \cap Stacked : lowlink[v(k)] <= index[y]
             /\ \A y \in (succs[v(k)] \ calls[k].succs) \cap Stacked :
                  lowlink[v(k)] <= index[y] \/ (k < L /\ y = calls[k + 1].n)
  BY DEF SearchInv, LowOK
<1>7. ASSUME NEW k \in 1 .. L - 1
      PROVE  /\ low(k) <= index[v(k)]
             /\ \E m \in Stacked' : low(k) = index[m] /\ Reaches(succs, v(k), m)
  <2>1. lowlink[v(k)] <= index[v(k)] /\ \E m \in Stacked : lowlink[v(k)] = index[m] /\ Reaches(succs, v(k), m)
    BY <1>4, <1>6
  <2>2. index[v(k)] \in Int /\ index[n] \in Int /\ index[v(k)] < index[n]
    BY <1>1, <1>2
  <2>3. low(k) <= index[v(k)]
    BY <1>3, <2>1, <2>2
  <2>4. PICK m \in Stacked : low(k) = index[m] /\ Reaches(succs, v(k), m)
    <3>1. CASE low(k) = lowlink[v(k)]
      BY <2>1, <3>1
    <3>2. CASE low(k) # lowlink[v(k)]
      <4>1. low(k) = lowlink[n]
        BY <1>3, <3>2
      <4>2. \E m \in Stacked : lowlink[n] = index[m] /\ Reaches(succs, n, m)
        BY <1>1, <1>5, <1>6
      <4>3. Reaches(succs, v(k), n)
        BY <1>1, <2>2 DEF SearchInv, PathsOK
      <4> QED BY <4>1, <4>2, <4>3, ReachesOn
    <3> QED BY <3>1, <3>2
  <2>5. m \in Stacked'
    <3>1. index[m] < index[n]
      BY <1>2, <2>2, <2>3, <2>4
    <3> QED BY <1>2, <2>4, <3>1
  <2> QED BY <2>3, <2>4, <2>5
<1>8. ASSUME NEW k \in 1 .. L - 1, NEW x \in LeftBy(k)', NEW y \in succs[x] \cap Stacked'
      PROVE  low(k) <= index[y]
  <2>1. /\ x \in Stacked' /\ index[v(k)] < index[x]
        /\ k < L - 1 => index[x] < index[calls'[k + 1].n]
    BY <1>1, <1>2, <1>8 DEF LeftBy
  <2>2. x \in Stacked /\ y \in Stacked /\ index[x] \in Int /\ index[y] \in Int /\ index[n] \in Int
    BY <1>1, <1>2, <1>8, <2>1
  <2>3. CASE x \in LeftBy(k)
    <3>1. lowlink[v(k)] <= index[y]
      BY <1>4, <1>6, <1>8, <2>2, <2>3
    <3> QED BY <1>3, <2>2, <3>1
  <2>4. CASE x \notin LeftBy(k)
    <3>1. ~(index[x] < index[calls[k + 1].n])
      BY <2>1, <2>2, <2>4, <1>1 DEF LeftBy
    <3>2. k = L - 1
      <4>1. k < L - 1 => k + 1 \in 1 .. L - 1
        BY <1>1
      <4>2. k < L - 1 => calls'[k + 1] = calls[k + 1]
        BY <1>1, <4>1
      <4> QED BY <1>1, <2>1, <3>1, <4>2
    <3>3. k + 1 = L
      BY <1>1, <3>2
    <3>4. index[n] <= index[x]
      BY <1>1, <2>2, <3>1, <3>3
    <3>5. lowlink[n] <= index[y]
      <4>1. y \in succs[x] \cap Stacked
        BY <1>8, <2>2
      <4> HIDE DEF n
      <4> QED BY <2>2, <3>4, <4>1, LowestOnTop DEF n
    <3> QED BY <1>3, <2>2, <3>2, <3>5
  <2> QED BY <2>3, <2>4
<1>9. ASSUME NEW k \in 1 .. L - 1, NEW y \in (succs[v(k)] \ calls[k].succs) \cap Stacked'
      PROVE  low(k) <= index[y] \/ (k < L - 1 /\ y = calls'[k + 1].n)
  <2>1. y \in Stacked /\ index[y] \in Int
    BY <1>2, <1>9
  <2>2. CASE lowlink[v(k)] <= index[y]
    BY <1>3, <2>1, <2>2
  <2>3. CASE y = calls[k + 1].n
    <3>1. CASE k = L - 1
      <4>1. k + 1 = L
        BY <1>1, <3>1
      <4>2. y = n
        BY <1>1, <2>3, <4>1
      <4>3. lowlink[n] <= index[n]
        BY <1>1, <1>5, <1>6
      <4> QED BY <1>3, <2>1, <3>1, <4>2, <4>3
    <3>2. CASE k # L - 1
      <4>1. k < L - 1 /\ k + 1 \in 1 .. L - 1
        BY <1>1, <3>2
      <4> QED BY <1>1, <2>3, <4>1
    <3> QED BY <3>1, <3>2
  <2> QED BY <1>4, <1>6, <1>9, <2>1, <2>2, <2>3
<1>10. ASSUME NEW k \in 1 .. Len(calls')
       PROVE  /\ k \in 1 .. L - 1 /\ calls'[k].n = v(k) /\ calls'[k].succs = calls[k].succs
              /\ lowlink'[calls'[k].n] = low(k)
  BY <1>1
<1> HIDE DEF n, L, v, low
<1>11. Len(calls') = L - 1
  BY <1>1
<1>12. ASSUME NEW k \in 1 .. Len(calls')
       PROVE  /\ lowlink'[calls'[k].n] <= index'[calls'[k].n]
              /\ \E m \in Stacked' : lowlink'[calls'[k].n] = index'[m] /\ Reaches(succs', calls'[k].n, m)
              /\ \A x \in LeftBy(k)' : \A y \in succs'[x] \cap Stacked' : lowlink'[calls'[k].n] <= index'[y]
              /\ \A y \in (succs'[calls'[k].n] \ calls'[k].succs) \cap Stacked' :
                   lowlink'[calls'[k].n] <= index'[y] \/ (k < Len(calls') /\ y = calls'[k + 1].n)
  BY <1>2, <1>7, <1>8, <1>9, <1>10, <1>11
<1> QED
  BY <1>3, <1>12 DEF LowOK

\* The invariant is kept when a call ends.
LEMMA ReturnInv ==
  ASSUME GraphOK, SearchInv, Return
  PROVE  SearchInv'
<1> DEFINE n == Top.n
           L == Len(calls)
<1>1. /\ nodes' = nodes /\ succs' = succs /\ index' = index /\ Visited' = Visited
      /\ stack' \in Seq(Block) /\ Len(stack) \in Nat /\ Len(stack') \in Nat /\ Len(stack') <= Len(stack)
      /\ \A i \in 1 .. Len(stack') : stack'[i] = stack[i]
      /\ Stacked' = {x \in Stacked : Root => index[x] < index[n]}
  BY ReturnPops
<1>2. /\ L \in Nat
      /\ calls' \in Seq([n : Block, succs : SUBSET Block]) /\ Len(calls') = L - 1
      /\ \A k \in 1 .. L - 1 :
           calls'[k] = calls[k] /\ calls[k].n \in Stacked /\ index[calls[k].n] < index[n]
  BY ReturnStack
<1>3. NumbersOK'
  BY <1>1 DEF SearchInv, NumbersOK
<1>4. StackOK'
  <2>1. \A i \in 1 .. Len(stack') : i \in 1 .. Len(stack)
    BY <1>1
  <2>2. \A i, j \in 1 .. Len(stack) : i < j => index[stack[i]] < index[stack[j]]
    BY DEF SearchInv, StackOK
  <2>3. Stacked' \subseteq Visited
    BY <1>1 DEF SearchInv, StackOK
  <2> QED BY <1>1, <2>1, <2>2, <2>3 DEF StackOK
<1>5. CallsOK'
  <2>1. \A k \in 1 .. L - 1 : k \in 1 .. L
    BY <1>2
  <2>2. \A k \in 1 .. L : /\ calls[k].succs \subseteq succs[calls[k].n]
                          /\ succs[calls[k].n] \ calls[k].succs \subseteq Visited
    BY DEF SearchInv, CallsOK
  <2>3. \A j, k \in 1 .. L : j < k => index[calls[j].n] < index[calls[k].n]
    BY DEF SearchInv, CallsOK
  <2>4. ASSUME NEW k \in 1 .. Len(calls')
        PROVE  /\ calls'[k].n \in Stacked'
               /\ calls'[k].succs \subseteq succs'[calls'[k].n]
               /\ succs'[calls'[k].n] \ calls'[k].succs \subseteq Visited'
    BY <1>1, <1>2, <2>1, <2>2
  <2>5. \A j, k \in 1 .. Len(calls') : j < k => index'[calls'[j].n] < index'[calls'[k].n]
    BY <1>1, <1>2, <2>1, <2>3
  <2> QED BY <1>2, <2>4, <2>5 DEF CallsOK
<1> QED
  BY <1>3, <1>4, <1>5, ReturnSccs, ReturnPaths, ReturnLow DEF SearchInv

-----------------------------------------------------------------------------
(* The rounds of the search.                                               *)

\* A search begins with nothing visited.
LEMMA FreshSearch ==
  ASSUME GraphOK, NothingSearched, sccs = {}
  PROVE  SearchInv
<1>1. Visited = {}
  BY DEF Visited, NothingSearched, NotVisited, GraphOK
<1>2. Stacked = {} /\ Len(stack) = 0 /\ stack \in Seq(Block)
  BY DEF NothingSearched, Stacked, ToSet
<1>3. Len(calls) = 0 /\ calls \in Seq([n : Block, succs : SUBSET Block]) /\ Calling = {}
  BY DEF NothingSearched, Calling
<1>4. 1 .. 0 = {}
  OBVIOUS
<1>5. NumbersOK /\ StackOK /\ CallsOK /\ LeftOK /\ PathsOK /\ SccsOK
  BY <1>1, <1>2, <1>3, <1>4
     DEF NumbersOK, StackOK, CallsOK, LeftOK, PathsOK, SccsOK, NothingSearched, NotVisited, Finished
<1>6. LowOK
  BY <1>3, <1>4 DEF LowOK, NothingSearched, NotVisited
<1> QED
  BY <1>5, <1>6 DEF SearchInv

\* When no call is in progress nothing is on the stack.
LEMMA StackEmptied ==
  ASSUME SearchInv, calls = << >>
  PROVE  stack = << >> /\ Finished = Visited
<1>1. Calling = {}
  BY DEF Calling
<1>2. Stacked = {}
  BY <1>1 DEF SearchInv, PathsOK
<1>3. stack \in Seq(Block)
  BY DEF SearchInv, StackOK
<1>4. stack = << >>
  <2> SUFFICES ASSUME stack # << >> PROVE FALSE
    OBVIOUS
  <2>1. 1 \in DOMAIN stack
    BY <1>3, EmptySeq, LenProperties
  <2> QED BY <1>2, <2>1 DEF Stacked, ToSet
<1> QED
  BY <1>2, <1>4 DEF Finished

\* Taking out a base takes it from the successors of every block that is left.
LEMMA RecordGraph ==
  ASSUME GraphOK, Record
  PROVE  GraphOK'
<1>1. PICK base : TakeOut(base)
  BY DEF Record
<1>2. /\ nodes' = nodes \ {base}
      /\ prevs' = [n \in Block |-> IF n \in succs[base] THEN prevs[n] \ {base} ELSE prevs[n]]
      /\ succs' = [n \in Block |-> IF n \in prevs[base] THEN succs[n] \ {base} ELSE succs[n]]
  BY <1>1 DEF TakeOut
<1>3. /\ nodes \subseteq Block /\ succs \in [Block -> SUBSET Block]
      /\ \A n \in nodes : succs[n] \subseteq nodes
      /\ \A n, m \in nodes : m \in succs[n] => n \in prevs[m]
  BY DEF GraphOK
<1>4. nodes' \subseteq Block /\ succs' \in [Block -> SUBSET Block]
  BY <1>2, <1>3
<1>5. ASSUME NEW n \in nodes' PROVE succs'[n] \subseteq nodes'
  <2>1. n \in Block /\ n \in nodes /\ succs[n] \subseteq nodes
    BY <1>2, <1>3
  <2>2. base \in succs[n] => n \in prevs[base]
    BY <1>3, <2>1
  <2>3. succs'[n] = IF n \in prevs[base] THEN succs[n] \ {base} ELSE succs[n]
    BY <1>2, <2>1
  <2> QED BY <1>2, <2>1, <2>2, <2>3
<1>6. ASSUME NEW n \in nodes', NEW m \in nodes', m \in succs'[n] PROVE n \in prevs'[m]
  <2>1. n \in nodes /\ m \in nodes /\ n # base /\ n \in Block /\ m \in Block
    BY <1>2, <1>3
  <2>2. m \in succs[n]
    BY <1>2, <1>6, <2>1
  <2>3. n \in prevs[m]
    BY <1>3, <2>1, <2>2
  <2> QED BY <1>2, <2>1, <2>3
<1> QED
  BY <1>4, <1>5, <1>6 DEF GraphOK

\* Initially nothing is searched, on the graph the function has.
LEMMA InitComponents == Init => ComponentsInv
<1> SUFFICES ASSUME Init PROVE ComponentsInv
  OBVIOUS
<1>1. PICK p \in Programs : prog = Built(p.bbs, p.code)
  BY DEF Init, SearchInit
<1>2. EdgesInside(prog)
  BY <1>1, ProgramsAssumption
<1>3. /\ nodes = ToSet(prog.bbs) /\ prevs = [b \in Block |-> ToSet(prog.pre[b])]
      /\ succs = [b \in Block |-> ToSet(prog.succ[b])]
      /\ NothingSearched /\ sccs = {} /\ pc = "search"
  BY DEF Init, SearchInit, Graph, NothingSearched
<1>4. GraphOK
  BY <1>2, <1>3 DEF GraphOK, EdgesInside
<1> QED
  BY <1>3, <1>4, FreshSearch DEF ComponentsInv

\* The invariant is about the variables of the search.
LEMMA SearchUnchanged ==
  ASSUME UNCHANGED <<nodes, succs, prevs, index, lowlink, stack, calls, sccs>>
  PROVE  (GraphOK' <=> GraphOK) /\ (SearchInv' <=> SearchInv) /\ (NothingSearched' <=> NothingSearched)
BY DEF GraphOK, SearchInv, NumbersOK, StackOK, CallsOK, LeftOK, PathsOK, LowOK, SccsOK,
   Visited, Stacked, Calling, Finished, LeftBy, NothingSearched, NotVisited

\* Each step of the search keeps the invariant.
LEMMA SearchComponents ==
  ASSUME ComponentsInv, Search
  PROVE  ComponentsInv'
<1>1. CASE TraverseRoot
  <2>1. GraphOK /\ SearchInv /\ calls = << >>
    BY <1>1 DEF TraverseRoot, ComponentsInv
  <2>2. PICK n \in nodes \ Visited : Traverse(n, << >>)
    BY <1>1 DEF TraverseRoot
  <2>3. Calls(<< >>, n)
    BY <2>1 DEF Calls
  <2>4. UNCHANGED <<pc, nodes, succs, prevs, sccs>>
    BY <1>1 DEF TraverseRoot
  <2>5. SearchInv' /\ GraphOK'
    BY <2>1, <2>2, <2>3, <2>4, TraverseInv DEF GraphOK
  <2> QED BY <1>1, <2>4, <2>5 DEF ComponentsInv, TraverseRoot
<1>2. CASE TraverseSucc
  <2>1. GraphOK /\ SearchInv /\ calls # << >>
    BY <1>2 DEF TraverseSucc, ComponentsInv
  <2>2. PICK su \in Top.succs \ Visited : Traverse(su, ToDo(Top.succs \ {su}))
    BY <1>2 DEF TraverseSucc
  <2>3. Calls(ToDo(Top.succs \ {su}), su)
    BY <2>1, <2>2, ToDoCalls
  <2>4. UNCHANGED <<pc, nodes, succs, prevs, sccs>>
    BY <1>2 DEF TraverseSucc
  <2>5. su \in nodes \ Visited
    <3>1. Len(calls) \in 1 .. Len(calls) /\ Top = calls[Len(calls)]
      BY <2>1, EmptySeq, LenProperties DEF SearchInv, CallsOK, Top, Last
    <3>2. Top.n \in nodes /\ Top.succs \subseteq succs[Top.n]
      BY <2>1, <3>1 DEF SearchInv, CallsOK, StackOK, Visited
    <3> QED BY <2>1, <2>2, <3>2 DEF GraphOK
  <2>6. SearchInv' /\ GraphOK'
    BY <2>1, <2>2, <2>3, <2>4, <2>5, TraverseInv DEF GraphOK
  <2> QED BY <1>2, <2>4, <2>6 DEF ComponentsInv, TraverseSucc
<1>3. CASE SeeSucc
  <2>1. GraphOK /\ SearchInv
    BY <1>3 DEF SeeSucc, ComponentsInv
  <2>2. SearchInv' /\ UNCHANGED <<pc, nodes, succs, prevs>> /\ pc = "search"
    BY <1>3, <2>1, SeeSuccInv DEF SeeSucc
  <2> QED BY <2>1, <2>2 DEF ComponentsInv, GraphOK
<1>4. CASE Return
  <2>1. GraphOK /\ SearchInv
    BY <1>4 DEF Return, ComponentsInv
  <2>2. SearchInv' /\ UNCHANGED <<pc, nodes, succs, prevs>> /\ pc = "search"
    BY <1>4, <2>1, ReturnInv DEF Return
  <2> QED BY <2>1, <2>2 DEF ComponentsInv, GraphOK
<1>5. CASE EndSearch
  <2>1. GraphOK /\ SearchInv /\ calls = << >> /\ UNCHANGED <<nodes, succs, prevs, stack, calls>>
    BY <1>5 DEF EndSearch, ComponentsInv
  <2>2. pc' \in {"found", "record"} /\ index' = NotVisited /\ lowlink' = NotVisited
    BY <1>5 DEF EndSearch
  <2>3. stack = << >>
    BY <2>1, StackEmptied
  <2>4. NothingSearched' /\ GraphOK'
    BY <2>1, <2>2, <2>3 DEF NothingSearched, GraphOK, NotVisited
  <2> QED BY <2>2, <2>4 DEF ComponentsInv
<1>6. CASE NoBase
  BY <1>6 DEF NoBase, ComponentsInv
<1>7. CASE Record
  <2>1. GraphOK /\ NothingSearched /\ pc = "record" /\ UNCHANGED <<pc, tarjan>>
    BY <1>7 DEF Record, ComponentsInv
  <2>2. GraphOK'
    BY <1>7, <2>1, RecordGraph
  <2>3. NothingSearched'
    BY <2>1 DEF NothingSearched, NotVisited, tarjan
  <2> QED BY <2>1, <2>2, <2>3 DEF ComponentsInv
<1>8. CASE SearchAgain
  <2>1. GraphOK /\ NothingSearched /\ sccs = {} /\ pc' = "search"
    BY <1>8 DEF SearchAgain, ComponentsInv
  <2>2. SearchInv
    BY <2>1, FreshSearch
  <2>3. UNCHANGED <<nodes, succs, prevs, index, lowlink, stack, calls, sccs>>
    BY <1>8 DEF SearchAgain, tarjan
  <2>4. GraphOK' /\ SearchInv'
    BY <2>1, <2>2, <2>3, SearchUnchanged
  <2> QED BY <2>1, <2>4 DEF ComponentsInv
<1> QED
  BY <1>1, <1>2, <1>3, <1>4, <1>5, <1>6, <1>7, <1>8 DEF Search

\* The pass that uses the loops does not touch the search.
LEMMA NextComponents == ComponentsInv /\ [Next]_vars => ComponentsInv'
<1> SUFFICES ASSUME ComponentsInv, [Next]_vars PROVE ComponentsInv'
  OBVIOUS
<1>1. CASE SearchStep
  BY <1>1, SearchComponents DEF SearchStep
<1>2. CASE UNCHANGED vars
  <2>1. UNCHANGED <<pc, nodes, succs, prevs, index, lowlink, stack, calls, sccs>>
    BY <1>2 DEF vars, searchVars, tarjan
  <2>2. (GraphOK' <=> GraphOK) /\ (SearchInv' <=> SearchInv) /\ (NothingSearched' <=> NothingSearched)
    BY <2>1, SearchUnchanged
  <2> QED BY <2>1, <2>2 DEF ComponentsInv
<1>3. CASE CollectLoops \/ PickLoop \/ CollectInBlock \/ CollectAgain \/ MoveOut \/ BeginParent \/ Finish \/ RunBlock
  <2>1. pc' \notin {"search", "record"}
    BY <1>3 DEF CollectLoops, PickLoop, CollectInBlock, CollectAgain, MoveOut, GoTo, BeginParent, Finish, RunBlock
  <2> QED BY <2>1 DEF ComponentsInv
<1> QED
  BY <1>1, <1>2, <1>3 DEF Next, Pass

\* In every round, the stack and the lowlinks are what Tarjan's argument
\* needs, and what was found are strongly connected components.
THEOREM SearchInvariant == Spec => []ComponentsInv
<1> QED
  BY InitComponents, NextComponents, PTL DEF Spec

-----------------------------------------------------------------------------
(* What ReachOf computes.                                                  *)

\* One step of ReachOf, as a function.
StepOn(s) == [X \in SUBSET Block |-> X \cup UNION {s[b] : b \in X}]

\* A path that is not empty has a first edge.
LEMMA ReachesFirst ==
  ASSUME NEW s \in [Block -> SUBSET Block], NEW a \in Block, NEW b, Reaches(s, a, b), a # b
  PROVE  \E c \in s[a] : Reaches(s, c, b)
<1> DEFINE X == {a} \cup {m \in Block : \E c \in s[a] : Reaches(s, c, m)}
<1>1. ASSUME NEW x \in X, NEW y \in s[x] PROVE y \in X
  <2>1. x \in Block /\ y \in Block
    BY <1>1
  <2>2. CASE x = a
    BY <1>1, <2>1, <2>2, ReachesEdge
  <2>3. CASE x # a
    <3>1. PICK c \in s[a] : Reaches(s, c, x)
      BY <1>1, <2>3
    <3>2. Reaches(s, c, y)
      BY <1>1, <3>1, ReachesEdge, ReachesOn
    <3> QED BY <2>1, <3>2
  <2> QED BY <2>2, <2>3
<1>2. b \in X
  <2>1. X \in SUBSET Block /\ a \in X /\ \A x \in X : s[x] \subseteq X
    BY <1>1
  <2> HIDE DEF X
  <2> QED BY <2>1, ReachesWithin
<1> QED
  BY <1>2

\* What a block reaches by one edge or more.
LEMMA ReachOfMeaning ==
  ASSUME succs \in [Block -> SUBSET Block], NEW n \in Block
  PROVE  ReachOf(n) = {m \in Block : \E c \in succs[n] : Reaches(succs, c, m)}
<1> DEFINE F == StepOn(succs)
           x == succs[n]
           Eq(g) == g = [d \in Nat |-> IF d = 0 THEN x
                                       ELSE g[d - 1] \cup UNION {succs[b] : b \in g[d - 1]}]
           h == CHOOSE g : Eq(g)
           R == ReachOf(n)
           Z == {m \in Block : \E c \in succs[n] : Reaches(succs, c, m)}
<1>1. GrowsFrom(F, Block, x)
  <2>1. F \in [SUBSET Block -> SUBSET Block] /\ x \in SUBSET Block /\ x \subseteq F[x]
    BY DEF StepOn
  <2>2. ASSUME NEW X \in SUBSET Block, NEW Y \in SUBSET Block, X \subseteq Y PROVE F[X] \subseteq F[Y]
    BY <2>2 DEF StepOn
  <2> QED BY <2>1, <2>2 DEF GrowsFrom
<1>2. \E g : Eq(g)
  <2>1. F \in [SUBSET Block -> SUBSET Block] /\ x \in SUBSET Block
    BY <1>1 DEF GrowsFrom
  <2>2. PICK g \in [Nat -> SUBSET Block] : IsIteration(g, F, x)
    <3> HIDE DEF F, x, Eq
    <3> QED BY <2>1, IterationExists
  <2>3. ASSUME NEW k \in Nat, k # 0
        PROVE  g[k] = g[k - 1] \cup UNION {succs[b] : b \in g[k - 1]}
    <3>1. k - 1 \in Nat /\ (k - 1) + 1 = k
      BY <2>3
    <3>2. g[(k - 1) + 1] = F[g[k - 1]]
      BY <2>2, <3>1 DEF IsIteration
    <3> QED BY <3>1, <3>2 DEF StepOn
  <2>4. Eq(g)
    BY <2>2, <2>3 DEF IsIteration
  <2> QED BY <2>4
<1>3. Eq(h)
  <2> HIDE DEF Eq
  <2> QED BY <1>2
<1>4. R = h[Cardinality(Block)]
  BY DEF ReachOf
<1> HIDE DEF h
<1>5. h[0] = x
  BY <1>3
<1>6. ASSUME NEW k \in Nat PROVE h[k + 1] = h[k] \cup UNION {succs[b] : b \in h[k]}
  <2>1. k + 1 \in Nat /\ k + 1 # 0 /\ (k + 1) - 1 = k
    OBVIOUS
  <2>2. h[k + 1] = h[(k + 1) - 1] \cup UNION {succs[b] : b \in h[(k + 1) - 1]}
    BY <1>3, <2>1
  <2> QED BY <2>1, <2>2
<1> HIDE DEF Eq
<1>7. IsIteration(h, F, x)
  <2>1. ASSUME NEW k \in Nat, h[k] \in SUBSET Block PROVE h[k + 1] = F[h[k]]
    BY <1>6, <2>1 DEF StepOn
  <2> HIDE DEF F, x
  <2> QED BY <1>1, <1>5, <2>1, IterationOfSets
<1>8. /\ R \in SUBSET Block /\ x \subseteq R /\ F[R] = R
      /\ \A X \in SUBSET Block : x \subseteq X /\ F[X] \subseteq X => R \subseteq X
  <2>1. IsFiniteSet(Block)
    BY BlockAssumption
  <2>2. Cardinality(Block) \in Nat /\ Cardinality(Block) <= Cardinality(Block)
    BY <2>1, FS_CardinalityType
  <2> HIDE DEF F, x, R
  <2> QED BY <1>1, <1>4, <1>7, <2>1, <2>2, LeastFixpoint
<1> HIDE DEF R
<1>9. R \subseteq Z
  <2>1. x \subseteq Z
    BY ReachesEdge
  <2>2. ASSUME NEW y \in Z, NEW z \in succs[y] PROVE z \in Z
    <3>1. PICK c \in succs[n] : Reaches(succs, c, y)
      BY <2>2
    <3>2. Reaches(succs, c, z)
      BY <2>2, <3>1, ReachesEdge, ReachesOn
    <3> QED BY <2>2, <3>2
  <2>3. Z \in SUBSET Block
    OBVIOUS
  <2>4. F[Z] \subseteq Z
    <3> HIDE DEF Z
    <3> QED BY <2>2, <2>3 DEF StepOn
  <2> HIDE DEF Z, F
  <2> QED BY <1>8, <2>1, <2>3, <2>4
<1>10. ASSUME NEW m \in Z PROVE m \in R
  <2>1. PICK c \in succs[n] : Reaches(succs, c, m)
    BY <1>10
  <2>2. R \in SUBSET Block /\ c \in R
    BY <1>8, <2>1
  <2>3. \A y \in R : succs[y] \subseteq R
    BY <1>8 DEF StepOn
  <2> QED BY <2>1, <2>2, <2>3, ReachesWithin
<1> QED
  BY <1>9, <1>10 DEF R

\* The blocks that reach a block and that it reaches, by one edge or more, are
\* its component, if they are more than one.
LEMMA ComponentsMeaning ==
  ASSUME GraphOK, NEW n \in nodes
  PROVE  LET c == {m \in ReachOf(n) : n \in ReachOf(m)}
         IN  /\ Cardinality(c) > 1 => c = Scc(succs, n)
             /\ Cardinality(Scc(succs, n)) # 1 => c = Scc(succs, n) /\ Cardinality(c) > 1
<1> DEFINE c == {m \in ReachOf(n) : n \in ReachOf(m)}
           S == Scc(succs, n)
<1>1. n \in Block /\ succs \in [Block -> SUBSET Block]
  BY DEF GraphOK
<1>2. \A a \in Block : ReachOf(a) = {m \in Block : \E b \in succs[a] : Reaches(succs, b, m)}
  BY <1>1, ReachOfMeaning
<1>3. c \subseteq S
  <2>1. ASSUME NEW m \in c PROVE m \in S
    <3>1. m \in Block /\ (\E b \in succs[n] : Reaches(succs, b, m)) /\ \E b \in succs[m] : Reaches(succs, b, n)
      BY <1>1, <1>2
    <3> QED BY <1>1, <3>1, ReachesEdge, ReachesOn DEF Scc
  <2> QED BY <2>1
<1>4. ASSUME n \in ReachOf(n) PROVE S \subseteq c
  <2>1. ASSUME NEW m \in S PROVE m \in c
    <3>1. m \in Block /\ Reaches(succs, n, m) /\ Reaches(succs, m, n)
      BY DEF Scc
    <3>2. CASE m = n
      BY <1>4, <3>2
    <3>3. CASE m # n
      <4>1. (\E b \in succs[n] : Reaches(succs, b, m)) /\ \E b \in succs[m] : Reaches(succs, b, n)
        BY <1>1, <3>1, <3>3, ReachesFirst
      <4> QED BY <1>1, <1>2, <3>1, <4>1
    <3> QED BY <3>2, <3>3
  <2> QED BY <2>1
<1>5. ASSUME NEW m \in S, m # n \/ m \in c PROVE n \in ReachOf(n)
  <2>1. m \in Block /\ Reaches(succs, n, m) /\ Reaches(succs, m, n)
    BY DEF Scc
  <2>2. \E b \in succs[n] : Reaches(succs, b, m)
    <3>1. CASE m # n
      BY <1>1, <2>1, <3>1, ReachesFirst
    <3>2. CASE m \in c
      BY <1>1, <1>2, <3>2
    <3> QED BY <1>5, <3>1, <3>2
  <2>3. \E b \in succs[n] : Reaches(succs, b, n)
    BY <2>1, <2>2, ReachesOn
  <2> QED BY <1>1, <1>2, <2>3
<1>6. n \in S /\ S \subseteq Block /\ IsFiniteSet(S) /\ IsFiniteSet(c)
  <2>1. n \in S /\ S \subseteq Block
    BY <1>1, ReachesEdge DEF Scc
  <2> HIDE DEF S, c
  <2>2. IsFiniteSet(S)
    BY <2>1, BlockAssumption, FS_Subset
  <2> QED BY <1>3, <2>1, <2>2, FS_Subset
<1> HIDE DEF c, S
<1>7. Cardinality(c) > 1 => c # {}
  BY FS_EmptySet
<1>8. Cardinality(S) # 1 => Cardinality(S) > 1 /\ \E m \in S : m # n
  <2>1. Cardinality(S) \in Nat /\ Cardinality(S) # 0
    BY <1>6, FS_CardinalityType, FS_EmptySet
  <2>2. (\A m \in S : m = n) => S = {n}
    BY <1>6
  <2>3. Cardinality({n}) = 1
    BY FS_Singleton
  <2> QED BY <2>1, <2>2, <2>3
<1>9. Cardinality(c) > 1 => c = S
  BY <1>3, <1>4, <1>5, <1>7
<1>10. Cardinality(S) # 1 => c = S /\ Cardinality(c) > 1
  BY <1>3, <1>4, <1>5, <1>8
<1> QED
  BY <1>9, <1>10 DEF c, S

\* In every round, and in whatever order the hash sets give the blocks and the
\* edges, the search finds the strongly connected components of what is left.
THEOREM ComponentsFound == Spec => []ComponentsExact
<1>1. ComponentsInv => ComponentsExact
  <2> SUFFICES ASSUME GraphOK, SearchInv, calls = << >>, Visited = nodes
               PROVE  LET reach == [n \in nodes |-> ReachOf(n)]
                      IN  sccs = {c \in {{m \in reach[n] : n \in reach[m]} : n \in nodes} : Cardinality(c) > 1}
    BY DEF ComponentsInv, ComponentsExact
  <2> DEFINE reach == [n \in nodes |-> ReachOf(n)]
             C(n) == {m \in ReachOf(n) : n \in ReachOf(m)}
  <2>1. sccs = {c \in {Scc(succs, n) : n \in nodes} : Cardinality(c) # 1}
    BY StackEmptied DEF SearchInv, SccsOK
  <2>2. ASSUME NEW n \in nodes PROVE {m \in reach[n] : n \in reach[m]} = C(n)
    <3>1. ReachOf(n) \subseteq nodes
      <4>1. n \in Block /\ succs \in [Block -> SUBSET Block] /\ nodes \in SUBSET Block
            /\ \A x \in nodes : succs[x] \subseteq nodes
        BY DEF GraphOK
      <4>2. ReachOf(n) = {m \in Block : \E c \in succs[n] : Reaches(succs, c, m)}
        BY <4>1, ReachOfMeaning
      <4> QED BY <4>1, <4>2, ReachesWithin
    <3> QED BY <3>1
  <2>3. ASSUME NEW n \in nodes
        PROVE  /\ Cardinality(C(n)) > 1 => C(n) = Scc(succs, n)
               /\ Cardinality(Scc(succs, n)) # 1 => C(n) = Scc(succs, n) /\ Cardinality(C(n)) > 1
    BY ComponentsMeaning
  <2> HIDE DEF reach, C
  <2>4. {{m \in reach[n] : n \in reach[m]} : n \in nodes} = {C(n) : n \in nodes}
    BY <2>2
  <2>5. ASSUME NEW n \in nodes, Cardinality(C(n)) > 1 PROVE C(n) \in sccs
    <3>1. C(n) = Scc(succs, n) /\ Cardinality(C(n)) # 1
      BY <2>3, <2>5
    <3> QED BY <2>1, <3>1
  <2>6. ASSUME NEW n \in nodes, Cardinality(Scc(succs, n)) # 1
        PROVE  Scc(succs, n) = C(n) /\ Cardinality(C(n)) > 1
    BY <2>3, <2>6
  <2>7. sccs = {c \in {C(n) : n \in nodes} : Cardinality(c) > 1}
    BY <2>1, <2>5, <2>6
  <2> QED BY <2>4, <2>7 DEF reach
<1> QED
  BY SearchInvariant, <1>1, PTL

-----------------------------------------------------------------------------
(* The loops of a graph, and the parts of a graph.                         *)

\* The part of the graph s that is within X.
Within(s, X) == [b \in Block |-> IF b \in X THEN s[b] \cap X ELSE {}]

\* What h dominates, and the loop of h: what of it leads back to h within it.
Below(s, h) == {b \in Block : Dominates(s, h, b)}
LoopOf(s, h) == {b \in Below(s, h) : Reaches(Within(s, Below(s, h)), b, h)}

\* Another block that h dominates jumps back to it.
IsHeader(s, h) == \E t \in Block : t # h /\ h \in s[t] /\ Dominates(s, h, t)

\* An edge of the part.
LEMMA WithinEdge ==
  ASSUME NEW s \in [Block -> SUBSET Block], NEW X, NEW a \in Block, NEW b
  PROVE  b \in Within(s, X)[a] <=> a \in X /\ b \in X /\ b \in s[a]
BY DEF Within

\* A path of one part of the graph is one of another part that has every block
\* which a reaches and which reaches b.
LEMMA PathWithin ==
  ASSUME NEW s \in [Block -> SUBSET Block], NEW D, NEW L, NEW a \in Block, NEW b, NEW x \in Block,
         \A z \in Block : Reaches(Within(s, D), a, z) /\ Reaches(Within(s, D), z, b) => z \in L,
         Reaches(Within(s, D), a, x), Reaches(Within(s, D), x, b)
  PROVE  Reaches(Within(s, L), a, x)
<1> DEFINE W == Within(s, D)
           V == Within(s, L)
           Z == {z \in Block : Reaches(W, a, z) /\ (Reaches(W, z, b) => Reaches(V, a, z))}
<1>1. a \in Z
  BY ReachesEdge
<1>2. ASSUME NEW z \in Z, NEW c \in W[z] PROVE c \in Z
  <2>1. z \in Block /\ c \in Block /\ c \in s[z]
    BY <1>2, WithinEdge
  <2>2. Reaches(W, a, c) /\ (Reaches(W, c, b) => Reaches(W, z, b))
    BY <1>2, ReachesEdge, ReachesOn
  <2>3. ASSUME Reaches(W, c, b) PROVE Reaches(V, a, c)
    <3>1. z \in L /\ c \in L /\ Reaches(V, a, z)
      BY <1>2, <2>1, <2>2, <2>3
    <3>2. c \in V[z]
      BY <2>1, <3>1, WithinEdge
    <3> QED BY <3>1, <3>2, ReachesEdge, ReachesOn
  <2> QED BY <2>1, <2>2, <2>3
<1>3. x \in Z
  <2>1. Z \in SUBSET Block /\ \A z \in Z : W[z] \subseteq Z
    BY <1>2
  <2> HIDE DEF Z, W
  <2> QED BY <1>1, <2>1, ReachesWithin DEF W
<1> QED
  BY <1>3

\* Where two graphs agree on a set that is closed under edges, the same is
\* reached from it.
LEMMA ReachesSame ==
  ASSUME NEW s, NEW t, NEW X \in SUBSET Block, NEW a \in X, NEW b,
         \A x \in X : s[x] \subseteq X /\ t[x] = s[x], Reaches(s, a, b)
  PROVE  b \in X /\ Reaches(t, a, b)
<1>1. b \in X
  BY ReachesWithin
<1>2. ASSUME NEW Y \in SUBSET Block, a \in Y, \A y \in Y : t[y] \subseteq Y PROVE b \in Y
  <2>1. \A y \in X \cap Y : s[y] \subseteq X \cap Y
    BY <1>2
  <2> QED BY <1>2, <2>1, ReachesWithin
<1> QED
  BY <1>1, <1>2 DEF Reaches

-----------------------------------------------------------------------------
(* Loops of a graph.                                                       *)

\* A block leads to what it dominates by blocks it dominates.
LEMMA DominatorReaches ==
  ASSUME NEW s \in [Block -> SUBSET Block], NEW h \in Block, NEW b \in Below(s, h)
  PROVE  h \in Below(s, h) /\ Reaches(Within(s, Below(s, h)), h, b)
<1> DEFINE D == Below(s, h)
           W == Within(s, D)
           X == {x \in Reached(s) : x \in D => Reaches(W, h, x)}
<1>1. h \in Reached(s) /\ h \in D
  BY DominatorReached, DominatesItself DEF Below
<1>2. Entry \in X
  <2>1. Entry \in D => Entry = h
    BY DominatesEntry DEF Below
  <2> QED BY <2>1, ReachedClosed, ReachesEdge
<1>3. ASSUME NEW x \in X, NEW c \in s[x] PROVE c \in X
  <2>1. x \in Block /\ x \in Reached(s) /\ c \in Reached(s) /\ c \in Block
    BY <1>3, ReachedClosed
  <2>2. ASSUME c \in D PROVE Reaches(W, h, c)
    <3>1. CASE c = h
      BY <3>1, ReachesEdge
    <3>2. CASE c # h
      <4>1. x \in D
        BY <1>3, <2>1, <2>2, <3>2, DominatesPred DEF Below
      <4>2. Reaches(W, h, x) /\ c \in W[x]
        BY <1>3, <2>1, <2>2, <4>1, WithinEdge
      <4> QED BY <4>2, ReachesEdge, ReachesOn
    <3> QED BY <3>1, <3>2
  <2> QED BY <2>1, <2>2
<1>4. Reached(s) \subseteq X
  <2>1. X \in SUBSET Block /\ \A x \in X : s[x] \subseteq X
    BY <1>3, ReachedClosed
  <2> HIDE DEF X
  <2> QED BY <1>2, <2>1, ReachedClosed
<1>5. b \in X
  BY <1>4 DEF Below, Dominates
<1> QED
  BY <1>1, <1>5

\* A loop is connected.
LEMMA LoopConnected ==
  ASSUME NEW s \in [Block -> SUBSET Block], NEW h \in Block, NEW b \in LoopOf(s, h)
  PROVE  /\ b \in Block /\ h \in LoopOf(s, h) /\ LoopOf(s, h) \subseteq Reached(s)
         /\ Reaches(Within(s, LoopOf(s, h)), h, b) /\ Reaches(Within(s, LoopOf(s, h)), b, h)
<1> DEFINE D == Below(s, h)
           W == Within(s, D)
           L == LoopOf(s, h)
<1>1. b \in Block /\ b \in D /\ Reaches(W, b, h)
  BY DEF LoopOf, Below
<1>2. h \in D /\ Reaches(W, h, b) /\ Reaches(W, h, h)
  BY <1>1, DominatorReaches, ReachesEdge
<1>3. h \in L /\ L \subseteq Reached(s)
  BY <1>2 DEF LoopOf, Below, Dominates
<1>4. ASSUME NEW a \in D, NEW z \in Block, Reaches(W, a, z), Reaches(W, z, h) PROVE z \in L
  <2>1. D \in SUBSET Block /\ \A x \in D : W[x] \subseteq D
    BY WithinEdge DEF Below
  <2>2. z \in D
    <3> HIDE DEF D, W
    <3> QED BY <1>4, <2>1, ReachesWithin
  <2> QED BY <1>4, <2>2 DEF LoopOf
<1>5. Reaches(Within(s, L), h, b)
  <2>1. \A z \in Block : Reaches(W, h, z) /\ Reaches(W, z, h) => z \in L
    BY <1>2, <1>4
  <2> HIDE DEF L, D
  <2> QED BY <1>1, <1>2, <2>1, PathWithin
<1>6. Reaches(Within(s, L), b, h)
  <2>1. \A z \in Block : Reaches(W, b, z) /\ Reaches(W, z, h) => z \in L
    BY <1>1, <1>4
  <2> HIDE DEF L, D
  <2> QED BY <1>1, <1>2, <2>1, PathWithin
<1> QED
  BY <1>1, <1>3, <1>5, <1>6

\* What leads to a block of a loop other than its header is in the loop.
LEMMA LoopPred ==
  ASSUME NEW s \in [Block -> SUBSET Block], NEW h \in Block, NEW c \in LoopOf(s, h),
         NEW p \in Reached(s), c \in s[p], c # h \/ Dominates(s, h, p)
  PROVE  p \in LoopOf(s, h)
<1>1. c \in Below(s, h) /\ Reaches(Within(s, Below(s, h)), c, h) /\ p \in Block
  BY ReachedClosed DEF LoopOf
<1>2. p \in Below(s, h)
  BY <1>1, DominatesPred DEF Below
<1>3. c \in Within(s, Below(s, h))[p]
  BY <1>1, <1>2, WithinEdge
<1> QED
  BY <1>1, <1>2, <1>3, ReachesEdge, ReachesOn DEF LoopOf

\* A loop is within another one that has a block of it and whose header
\* dominates its own.
LEMMA LoopNested ==
  ASSUME NEW s \in [Block -> SUBSET Block], NEW h \in Block, NEW g \in Block,
         NEW b \in LoopOf(s, h) \cap LoopOf(s, g), Dominates(s, h, g)
  PROVE  g \in LoopOf(s, h) /\ LoopOf(s, g) \subseteq LoopOf(s, h)
<1> DEFINE D == Below(s, h)
           E == Below(s, g)
<1>1. E \subseteq D
  BY DominatesTransitive DEF Below
<1>2. ASSUME NEW x \in Block, NEW y \in Block, Reaches(Within(s, E), x, y)
      PROVE  Reaches(Within(s, D), x, y)
  <2>1. ASSUME NEW X \in SUBSET Block, x \in X, \A z \in X : Within(s, D)[z] \subseteq X
        PROVE  y \in X
    <3>1. \A z \in X : Within(s, E)[z] \subseteq X
      BY <1>1, <2>1, WithinEdge
    <3> QED BY <1>2, <2>1, <3>1, ReachesWithin
  <2> QED BY <2>1 DEF Reaches
<1>3. b \in Block /\ b \in E /\ Reaches(Within(s, D), b, h) /\ Reaches(Within(s, E), b, g)
  BY DEF LoopOf, Below
<1>4. Reaches(Within(s, E), g, b) /\ g \in E
  BY <1>3, DominatorReaches
<1>5. Reaches(Within(s, D), g, h)
  <2> HIDE DEF D, E
  <2> QED BY <1>2, <1>3, <1>4, ReachesOn
<1>6. ASSUME NEW x \in LoopOf(s, g) PROVE x \in LoopOf(s, h)
  <2>1. x \in Block /\ x \in E /\ Reaches(Within(s, E), x, g)
    BY DEF LoopOf, Below
  <2>2. Reaches(Within(s, D), x, h)
    <3> HIDE DEF D, E
    <3> QED BY <1>2, <1>5, <2>1, ReachesOn
  <2> QED BY <1>1, <2>1, <2>2 DEF LoopOf
<1> QED
  BY <1>4, <1>1, <1>5, <1>6 DEF LoopOf

\* Two loops that share a block are one within the other.
LEMMA LoopsNested ==
  ASSUME NEW s \in [Block -> SUBSET Block], NEW h \in Block, NEW g \in Block,
         NEW b \in LoopOf(s, h) \cap LoopOf(s, g)
  PROVE  \/ g \in LoopOf(s, h) /\ LoopOf(s, g) \subseteq LoopOf(s, h)
         \/ h \in LoopOf(s, g) /\ LoopOf(s, h) \subseteq LoopOf(s, g)
<1>1. Dominates(s, h, b) /\ Dominates(s, g, b)
  BY DEF LoopOf, Below
<1>2. Dominates(s, h, g) \/ Dominates(s, g, h)
  BY <1>1, DominatorReached, DominatorsChain
<1> QED
  BY <1>2, LoopNested

\* Loops with different headers are different.
LEMMA LoopHeader ==
  ASSUME NEW s \in [Block -> SUBSET Block], NEW h \in Block, NEW g \in Block,
         h \in LoopOf(s, g), g \in LoopOf(s, h)
  PROVE  g = h
<1>1. Dominates(s, g, h) /\ Dominates(s, h, g)
  BY DEF LoopOf, Below
<1> QED
  BY <1>1, DominatesAntisymmetric

-----------------------------------------------------------------------------
(* The textbook definitions, said with paths.                              *)

\* One step back into the loop of h.
StepBack(s, h) ==
  [X \in SUBSET Block |-> X \cup {b \in Reached(s) \ {h} : s[b] \cap (X \ {h}) # {}}]

\* The textbook definition of a natural loop, by the blocks that lead back.
LEMMA NaturalLoopMeaning ==
  ASSUME NEW s \in [Block -> SUBSET Block], NEW h \in Reached(s)
  PROVE  NaturalLoop(s, Doms(s), h) = LoopOf(s, h)
<1> DEFINE F == StepBack(s, h)
           x == BackTo(s, Doms(s), h)
           Eq(g) == g = [k \in Nat |->
                           IF k = 0 THEN x
                           ELSE g[k - 1] \cup {b \in Reached(s) \ {h} : s[b] \cap (g[k - 1] \ {h}) # {}}]
           into == CHOOSE g : Eq(g)
           R == into[Cardinality(Block)]
           D == Below(s, h)
           W == Within(s, D)
           L == LoopOf(s, h)
<1>0. h \in Block /\ Reached(s) \in SUBSET Block
  BY ReachedClosed
<1>1. x = {t \in Reached(s) : h \in s[t] /\ Dominates(s, h, t)}
  BY <1>0, DomsMeaning DEF BackTo
<1>2. GrowsFrom(F, Block, x)
  <2>1. F \in [SUBSET Block -> SUBSET Block] /\ x \in SUBSET Block /\ x \subseteq F[x]
    BY <1>0, <1>1 DEF StepBack
  <2>2. ASSUME NEW X \in SUBSET Block, NEW Y \in SUBSET Block, X \subseteq Y PROVE F[X] \subseteq F[Y]
    BY <2>2 DEF StepBack
  <2> HIDE DEF x, F
  <2> QED BY <2>1, <2>2 DEF GrowsFrom
<1>3. \E g : Eq(g)
  <2>1. F \in [SUBSET Block -> SUBSET Block] /\ x \in SUBSET Block
    BY <1>2 DEF GrowsFrom
  <2>2. PICK g \in [Nat -> SUBSET Block] : IsIteration(g, F, x)
    <3> HIDE DEF F, x, Eq
    <3> QED BY <2>1, IterationExists
  <2>3. ASSUME NEW k \in Nat, k # 0
        PROVE  g[k] = g[k - 1] \cup {b \in Reached(s) \ {h} : s[b] \cap (g[k - 1] \ {h}) # {}}
    <3>1. k - 1 \in Nat /\ (k - 1) + 1 = k
      BY <2>3
    <3>2. g[(k - 1) + 1] = F[g[k - 1]]
      BY <2>2, <3>1 DEF IsIteration
    <3> QED BY <3>1, <3>2 DEF StepBack
  <2>4. g[0] = x /\ g = [k \in Nat |-> g[k]]
    BY <2>2 DEF IsIteration
  <2> HIDE DEF x
  <2>5. Eq(g)
    BY <2>3, <2>4
  <2> QED BY <2>5
<1>4. Eq(into)
  <2> HIDE DEF Eq
  <2> QED BY <1>3
<1>5. NaturalLoop(s, Doms(s), h) = {h} \cup R
  BY DEF NaturalLoop
<1> HIDE DEF into
<1>6. into[0] = x
  <2> HIDE DEF x
  <2> QED BY <1>4
<1>7. ASSUME NEW k \in Nat
      PROVE  into[k + 1] = into[k] \cup {b \in Reached(s) \ {h} : s[b] \cap (into[k] \ {h}) # {}}
  <2>1. k + 1 \in Nat /\ k + 1 # 0 /\ (k + 1) - 1 = k
    OBVIOUS
  <2> HIDE DEF x
  <2>2. into[k + 1] = into[(k + 1) - 1] \cup {b \in Reached(s) \ {h} : s[b] \cap (into[(k + 1) - 1] \ {h}) # {}}
    BY <1>4, <2>1
  <2> QED BY <2>1, <2>2
<1> HIDE DEF Eq
<1>8. IsIteration(into, F, x)
  <2>1. ASSUME NEW k \in Nat, into[k] \in SUBSET Block PROVE into[k + 1] = F[into[k]]
    BY <1>7, <2>1 DEF StepBack
  <2> HIDE DEF F, x
  <2> QED BY <1>2, <1>6, <2>1, IterationOfSets
<1>9. /\ R \in SUBSET Block /\ x \subseteq R /\ F[R] = R
      /\ \A X \in SUBSET Block : x \subseteq X /\ F[X] \subseteq X => R \subseteq X
  <2>1. IsFiniteSet(Block)
    BY BlockAssumption
  <2>2. Cardinality(Block) \in Nat /\ Cardinality(Block) <= Cardinality(Block)
    BY <2>1, FS_CardinalityType
  <2> HIDE DEF F, x
  <2> QED BY <1>2, <1>8, <2>1, <2>2, LeastFixpoint
<1> HIDE DEF R
<1>10. h \in L
  <2>1. h \in D
    BY <1>0, DominatesItself DEF Below
  <2> QED BY <2>1, ReachesEdge DEF LoopOf
<1>11. R \subseteq L
  <2>1. L \in SUBSET Block
    BY DEF LoopOf, Below
  <2>2. x \subseteq L
    <3> HIDE DEF x
    <3> QED BY <1>0, <1>1, <1>10, LoopPred
  <2>3. F[L] \subseteq L
    <3>1. ASSUME NEW b \in Reached(s) \ {h}, NEW c \in L \ {h}, c \in s[b] PROVE b \in L
      <4> HIDE DEF L
      <4> QED BY <1>0, <3>1, LoopPred DEF L
    <3>2. F[L] = L \cup {b \in Reached(s) \ {h} : s[b] \cap (L \ {h}) # {}}
      BY <2>1 DEF StepBack
    <3> HIDE DEF F, L
    <3> QED BY <3>1, <3>2
  <2> HIDE DEF L, F, x
  <2> QED BY <1>9, <2>1, <2>2, <2>3
<1>12. ASSUME NEW a \in L PROVE a \in {h} \cup R
  <2> DEFINE Z == {z \in Block : z \in D /\ z \in {h} \cup R => FALSE}
  <2>1. a \in Block /\ a \in D /\ Reaches(W, a, h)
    BY DEF LoopOf, Below
  <2>2. SUFFICES ASSUME a \notin {h} \cup R PROVE FALSE
    OBVIOUS
  <2>3. ASSUME NEW z \in Z, NEW c \in W[z] PROVE c \in Z
    <3>1. z \in Block /\ c \in Block /\ z \in D /\ c \in D /\ c \in s[z] /\ z \notin {h} \cup R
      BY <2>3, WithinEdge
    <3>2. z \in Reached(s) /\ Dominates(s, h, z)
      BY <3>1 DEF Below, Dominates
    <3>3. c # h
      <4>1. z \notin x
        BY <1>9, <3>1
      <4> HIDE DEF x
      <4> QED BY <1>1, <3>1, <3>2, <4>1
    <3>4. c \notin R
      <4>1. F[R] = R \cup {b \in Reached(s) \ {h} : s[b] \cap (R \ {h}) # {}}
        BY <1>9 DEF StepBack
      <4> HIDE DEF F, W, Z
      <4> QED BY <1>9, <3>1, <3>2, <3>3, <4>1
    <3> QED BY <3>1, <3>3, <3>4
  <2>4. a \in Z
    BY <2>1, <2>2
  <2>5. h \in Z
    <3>1. Z \in SUBSET Block /\ \A z \in Z : W[z] \subseteq Z
      BY <2>3
    <3> HIDE DEF Z, W
    <3> QED BY <2>1, <2>4, <3>1, ReachesWithin
  <2>6. h \in D
    BY <1>0, DominatesItself DEF Below
  <2> QED BY <2>5, <2>6
<1> QED
  BY <1>5, <1>10, <1>11, <1>12

\* The loops of a graph, by their headers.
LEMMA NaturalLoopsMeaning ==
  ASSUME NEW s \in [Block -> SUBSET Block]
  PROVE  NaturalLoops(s) = [h \in {b \in Block : IsHeader(s, b)} |-> LoopOf(s, h)]
<1>1. ASSUME NEW h \in Block
      PROVE  BackTo(s, Doms(s), h) \ {h} # {} <=> IsHeader(s, h)
  <2>1. BackTo(s, Doms(s), h) = {t \in Reached(s) : h \in s[t] /\ Dominates(s, h, t)}
    BY DomsMeaning DEF BackTo
  <2>2. \A t : Dominates(s, h, t) => t \in Reached(s) /\ t \in Block
    BY ReachedClosed DEF Dominates
  <2> QED BY <2>1, <2>2 DEF IsHeader
<1>2. ASSUME NEW h \in Block, IsHeader(s, h) PROVE NaturalLoop(s, Doms(s), h) = LoopOf(s, h)
  <2>1. h \in Reached(s)
    BY <1>2, DominatorReached DEF IsHeader
  <2> QED BY <2>1, NaturalLoopMeaning
<1>3. {b \in Block : BackTo(s, Doms(s), b) \ {b} # {}} = {b \in Block : IsHeader(s, b)}
  BY <1>1
<1> QED
  BY <1>2, <1>3 DEF NaturalLoops

\* One round of taking away what no forward edge leaves.
PeelStep(s) == [X \in SUBSET Block |-> {b \in X : \E c \in s[b] \cap X : ~Dominates(s, c, b)}]

\* In a reducible graph every set of blocks has one to which edges from the set
\* are edges back only.
LEMMA ReducibleSource ==
  ASSUME NEW s \in [Block -> SUBSET Block], Reducible(s), NEW X \in SUBSET Reached(s), X # {}
  PROVE  \E h \in X : \A p \in X : h \in s[p] => Dominates(s, h, p)
<1> DEFINE F == PeelStep(s)
           forward == [b \in Block |-> {c \in s[b] : b \notin Doms(s)[c]}]
           Eq(g) == g = [k \in Nat |-> IF k = 0 THEN Reached(s)
                                       ELSE {b \in g[k - 1] : forward[b] \cap g[k - 1] # {}}]
           peel == CHOOSE g : Eq(g)
<1>0. Reached(s) \in SUBSET Block
  BY ReachedClosed
<1>1. ASSUME NEW Y \in SUBSET Block PROVE F[Y] = {b \in Y : forward[b] \cap Y # {}}
  <2>1. ASSUME NEW b \in Y PROVE forward[b] \cap Y = {c \in s[b] \cap Y : ~Dominates(s, c, b)}
    BY DomsMeaning
  <2>2. F[Y] = {b \in Y : \E c \in s[b] \cap Y : ~Dominates(s, c, b)}
    BY DEF PeelStep
  <2> HIDE DEF F, forward
  <2> QED BY <2>1, <2>2
<1> HIDE DEF forward
<1>2. \E g : Eq(g)
  <2>1. F \in [SUBSET Block -> SUBSET Block]
    BY DEF PeelStep
  <2>2. PICK g \in [Nat -> SUBSET Block] : IsIteration(g, F, Reached(s))
    <3> HIDE DEF F, Eq
    <3> QED BY <1>0, <2>1, IterationExists
  <2>3. ASSUME NEW k \in Nat, k # 0
        PROVE  g[k] = {b \in g[k - 1] : forward[b] \cap g[k - 1] # {}}
    <3>1. k - 1 \in Nat /\ (k - 1) + 1 = k
      BY <2>3
    <3>2. g[(k - 1) + 1] = F[g[k - 1]]
      BY <2>2, <3>1 DEF IsIteration
    <3> HIDE DEF F
    <3> QED BY <1>1, <3>1, <3>2
  <2>4. g[0] = Reached(s) /\ g = [k \in Nat |-> g[k]]
    BY <2>2 DEF IsIteration
  <2>5. Eq(g)
    BY <2>3, <2>4
  <2> QED BY <2>5
<1>3. Eq(peel)
  <2> HIDE DEF Eq
  <2> QED BY <1>2
<1>4. peel[Cardinality(Block)] = {}
  BY DEF Reducible, forward
<1> HIDE DEF peel
<1>5. peel[0] = Reached(s)
  BY <1>3
<1>6. ASSUME NEW k \in Nat
      PROVE  peel[k + 1] = {b \in peel[k] : forward[b] \cap peel[k] # {}}
  <2>1. k + 1 \in Nat /\ k + 1 # 0 /\ (k + 1) - 1 = k
    OBVIOUS
  <2>2. peel[k + 1] = {b \in peel[(k + 1) - 1] : forward[b] \cap peel[(k + 1) - 1] # {}}
    BY <1>3, <2>1
  <2> QED BY <2>1, <2>2
<1> HIDE DEF Eq
<1> DEFINE G(h, p) == p \in Reached(s) /\ h \in s[p] /\ ~Dominates(s, h, p)
           A == {k \in Nat : \A h \in peel[k] : \A p \in Block : G(h, p) => p \in peel[k + 1]}
           B == {k \in Nat : peel[k] \cap X # {}}
<1>7. ASSUME NEW h, NEW p \in Block, G(h, p) PROVE h \in forward[p]
  <2>1. h \in Block
    BY <1>7
  <2> QED BY <1>7, <2>1, DomsMeaning DEF forward
<1>8. Nat \subseteq A
  <2>1. 0 \in A
    <3>1. peel[0 + 1] = {b \in peel[0] : forward[b] \cap peel[0] # {}}
      BY <1>6
    <3> HIDE DEF G
    <3>2. ASSUME NEW h \in peel[0], NEW p \in Block, G(h, p) PROVE p \in peel[0 + 1]
      <4>1. h \in forward[p] /\ p \in peel[0]
        BY <1>5, <1>7, <3>2 DEF G
      <4> QED BY <3>1, <4>1
    <3> QED BY <3>2
  <2>2. ASSUME NEW k \in Nat, k \in A PROVE k + 1 \in A
    <3>1. /\ peel[k + 1] = {b \in peel[k] : forward[b] \cap peel[k] # {}}
          /\ peel[(k + 1) + 1] = {b \in peel[k + 1] : forward[b] \cap peel[k + 1] # {}}
      <4>1. k + 1 \in Nat
        OBVIOUS
      <4> HIDE DEF A
      <4> QED BY <1>6, <4>1
    <3> HIDE DEF G
    <3>2. ASSUME NEW h \in peel[k + 1], NEW p \in Block, G(h, p) PROVE p \in peel[(k + 1) + 1]
      <4>1. h \in peel[k]
        BY <3>1
      <4>2. p \in peel[k + 1]
        BY <2>2, <3>2, <4>1
      <4>3. h \in forward[p]
        BY <1>7, <3>2
      <4> QED BY <3>1, <4>2, <4>3
    <3> QED BY <3>2
  <2> HIDE DEF A
  <2> QED BY <2>1, <2>2, SetInduction
<1>9. SUFFICES ASSUME \A h \in X : \E p \in X : h \in s[p] /\ ~Dominates(s, h, p) PROVE FALSE
  OBVIOUS
<1>10. Nat \subseteq B
  <2>1. 0 \in B
    BY <1>5
  <2>2. ASSUME NEW k \in Nat, k \in B PROVE k + 1 \in B
    <3>1. PICK h \in peel[k] : h \in X
      BY <2>2
    <3>2. PICK p \in X : G(h, p)
      BY <1>9, <3>1
    <3>3. k \in A /\ p \in Block
      BY <1>0, <1>8
    <3>4. p \in peel[k + 1]
      <4> HIDE DEF G
      <4> QED BY <3>1, <3>2, <3>3
    <3> QED BY <3>4
  <2> HIDE DEF B
  <2> QED BY <2>1, <2>2, SetInduction
<1>11. Cardinality(Block) \in Nat
  BY BlockAssumption, FS_CardinalityType
<1> QED
  BY <1>4, <1>10, <1>11

\* In a reducible graph one block of a connected part dominates the others.
LEMMA ConnectedHasHeader ==
  ASSUME NEW s \in [Block -> SUBSET Block], Reducible(s), NEW X \in SUBSET Reached(s), X # {},
         \A x, y \in X : Reaches(Within(s, X), x, y)
  PROVE  \E h \in X : \A x \in X : Dominates(s, h, x)
<1>1. PICK h \in X : \A p \in X : h \in s[p] => Dominates(s, h, p)
  BY ReducibleSource
<1>2. ASSUME NEW x \in X, ~Dominates(s, h, x) PROVE FALSE
  <2> DEFINE Z == {z \in X : ~Dominates(s, h, z)}
  <2>1. Reached(s) \in SUBSET Block
    BY ReachedClosed
  <2>2. ASSUME NEW z \in Z, NEW c \in Within(s, X)[z] PROVE c \in Z
    <3>1. z \in X /\ c \in X /\ c \in s[z] /\ z \in Reached(s)
      BY <2>1, <2>2, WithinEdge
    <3>2. c # h
      BY <1>1, <2>2, <3>1
    <3>3. ~Dominates(s, h, c)
      BY <2>2, <3>1, <3>2, DominatesPred
    <3> QED BY <3>1, <3>3
  <2>3. h \in Z
    <3>1. Z \in SUBSET Block /\ x \in Z /\ Reaches(Within(s, X), x, h)
      BY <1>2, <2>1
    <3>2. \A z \in Z : Within(s, X)[z] \subseteq Z
      BY <2>2
    <3> HIDE DEF Z
    <3> QED BY <3>1, <3>2, ReachesWithin
  <2> QED BY <2>1, <2>3, DominatesItself
<1> QED
  BY <1>2

-----------------------------------------------------------------------------
(* Taking loops out from the outermost in.                                 *)

\* The loops around one that is left are all taken out before it.
Outermost(s, R, h) ==
  \A g \in Block : IsHeader(s, g) /\ h \in LoopOf(s, g) => g = h \/ g \in R
OutermostFirst(s, R) ==
  \A r \in R, g \in Block : IsHeader(s, g) /\ r \in LoopOf(s, g) => g \in R

\* When loops were taken out from the outermost in, no block of a loop that is
\* left is gone.
LEMMA LoopIsLeft ==
  ASSUME NEW s \in [Block -> SUBSET Block], NEW R, OutermostFirst(s, R),
         NEW h \in Block, IsHeader(s, h), h \notin R
  PROVE  LoopOf(s, h) \subseteq Reached(s) \ R
<1>1. ASSUME NEW b \in LoopOf(s, h) PROVE b \in Reached(s) \ R
  BY LoopConnected DEF OutermostFirst
<1> QED
  BY <1>1

\* A path within a part of the graph is a path within a larger part.
LEMMA WithinLarger ==
  ASSUME NEW s \in [Block -> SUBSET Block], NEW X, NEW Y, X \subseteq Y,
         NEW a \in Block, NEW b \in Block, Reaches(Within(s, X), a, b)
  PROVE  Reaches(Within(s, Y), a, b)
<1>1. ASSUME NEW Z \in SUBSET Block, a \in Z, \A z \in Z : Within(s, Y)[z] \subseteq Z
      PROVE  b \in Z
  <2>1. \A z \in Z : Within(s, X)[z] \subseteq Z
    BY <1>1, WithinEdge
  <2> QED BY <1>1, <2>1, ReachesWithin
<1> QED
  BY <1>1 DEF Reaches

\* A loop that is left is within one component.
LEMMA LoopInScc ==
  ASSUME NEW s \in [Block -> SUBSET Block], NEW R, OutermostFirst(s, R),
         NEW h \in Block, IsHeader(s, h), h \notin R, NEW n \in LoopOf(s, h)
  PROVE  LoopOf(s, h) \subseteq Scc(Within(s, Reached(s) \ R), n)
<1> DEFINE V == Within(s, LoopOf(s, h))
           W == Within(s, Reached(s) \ R)
<1>1. LoopOf(s, h) \subseteq Reached(s) \ R
  BY LoopIsLeft
<1>2. ASSUME NEW b \in LoopOf(s, h)
      PROVE  b \in Block /\ Reaches(W, h, b) /\ Reaches(W, b, h)
  <2>1. b \in Block /\ Reaches(V, h, b) /\ Reaches(V, b, h)
    BY LoopConnected
  <2> QED BY <1>1, <2>1, WithinLarger
<1> HIDE DEF W
<1>3. ASSUME NEW b \in LoopOf(s, h) PROVE b \in Block /\ Reaches(W, n, b) /\ Reaches(W, b, n)
  BY <1>2, ReachesOn
<1> QED
  BY <1>3 DEF Scc, W

\* A component of what is left of a reducible graph is a loop that was not
\* taken out, and the next one to be.
LEMMA SccIsLoop ==
  ASSUME NEW s \in [Block -> SUBSET Block], Reducible(s), NEW R, OutermostFirst(s, R),
         NEW n \in Reached(s) \ R, NEW m \in Scc(Within(s, Reached(s) \ R), n), m # n
  PROVE  \E h \in Block \ R : /\ IsHeader(s, h) /\ Outermost(s, R, h)
                              /\ Scc(Within(s, Reached(s) \ R), n) = LoopOf(s, h)
<1> DEFINE N == Reached(s) \ R
           W == Within(s, N)
           S == Scc(W, n)
<1>1. N \in SUBSET Block /\ \A x \in N : W[x] \subseteq N
  BY ReachedClosed, WithinEdge
<1>2. S \subseteq N /\ n \in S /\ m \in S
  <2>1. ASSUME NEW x \in S PROVE x \in N
    <3>1. n \in N /\ Reaches(W, n, x)
      BY DEF Scc
    <3> HIDE DEF W, N
    <3> QED BY <1>1, <3>1, ReachesWithin
  <2>2. n \in S
    <3> HIDE DEF W
    <3> QED BY <1>1, ReachesEdge DEF Scc
  <2> QED BY <2>1, <2>2
<1>3. ASSUME NEW x \in S, NEW y \in S PROVE Reaches(Within(s, S), x, y)
  <2>1. Reaches(W, x, y) /\ x \in Block /\ y \in Block
    BY ReachesOn DEF Scc
  <2>2. ASSUME NEW z \in Block, Reaches(W, x, z), Reaches(W, z, y) PROVE z \in S
    <3>1. Reaches(W, n, x) /\ Reaches(W, y, n)
      BY DEF Scc
    <3> HIDE DEF W
    <3> QED BY <2>2, <3>1, ReachesOn DEF Scc
  <2>3. Reaches(W, y, y)
    BY ReachesEdge
  <2> HIDE DEF S, N
  <2> QED BY <2>1, <2>2, <2>3, PathWithin
<1>4. PICK h \in S : \A x \in S : Dominates(s, h, x)
  <2>1. S \in SUBSET Reached(s) /\ S # {}
    BY <1>2
  <2> HIDE DEF S
  <2> QED BY <1>3, <2>1, ConnectedHasHeader
<1>5. h \in Block /\ h \notin R /\ S \subseteq Below(s, h)
  BY <1>1, <1>2, <1>4 DEF Below
<1> HIDE DEF S
<1>6. S \subseteq LoopOf(s, h)
  <2>1. ASSUME NEW x \in S PROVE x \in LoopOf(s, h)
    <3>1. x \in Block /\ Reaches(Within(s, S), x, h)
      BY <1>1, <1>2, <1>3
    <3>2. Reaches(Within(s, Below(s, h)), x, h)
      BY <1>5, <3>1, WithinLarger
    <3> QED BY <1>5, <3>2 DEF LoopOf
  <2> QED BY <2>1
<1>7. IsHeader(s, h)
  <2> SUFFICES ASSUME \A t \in S : t # h => h \notin s[t] PROVE FALSE
    BY <1>4, <1>5 DEF IsHeader, Below
  <2>1. PICK x \in S : x # h
    BY <1>2
  <2> DEFINE Z == S \ {h}
  <2>2. Z \in SUBSET Block /\ x \in Z /\ Reaches(Within(s, S), x, h)
    BY <1>1, <1>2, <1>3, <2>1
  <2>3. \A z \in Z : Within(s, S)[z] \subseteq Z
    <3>1. ASSUME NEW z \in Z, NEW c \in Within(s, S)[z] PROVE c \in Z
      BY <2>2, <3>1, WithinEdge
    <3> QED BY <3>1
  <2>4. h \in Z
    <3> HIDE DEF Z
    <3> QED BY <2>2, <2>3, ReachesWithin
  <2> QED BY <2>4
<1>8. LoopOf(s, h) \subseteq S
  BY <1>2, <1>5, <1>6, <1>7, LoopInScc DEF S
<1>9. Outermost(s, R, h)
  <2>1. ASSUME NEW g \in Block, IsHeader(s, g), h \in LoopOf(s, g), g \notin R PROVE g = h
    <3>1. LoopOf(s, g) \subseteq Scc(W, h)
      BY <2>1, LoopInScc
    <3>2. Scc(W, h) = S
      BY <1>1, <1>2, SameScc DEF S
    <3>3. g \in LoopOf(s, g)
      BY <2>1, LoopConnected
    <3>4. g \in LoopOf(s, h)
      BY <1>6, <1>8, <3>1, <3>2, <3>3
    <3> QED BY <1>5, <2>1, <3>4, LoopHeader
  <2> QED BY <2>1 DEF Outermost
<1>10. S = LoopOf(s, h)
  BY <1>6, <1>8
<1> QED
  BY <1>5, <1>7, <1>9, <1>10 DEF S

\* Such a loop is entered at its header only, from a block outside.
LEMMA LoopEntered ==
  ASSUME NEW s \in [Block -> SUBSET Block], NEW h \in Block, h # Entry, h \in LoopOf(s, h)
  PROVE  /\ \A p \in Reached(s) \ LoopOf(s, h) : s[p] \cap LoopOf(s, h) \subseteq {h}
         /\ \E p \in Reached(s) \ LoopOf(s, h) : h \in s[p]
<1>1. ASSUME NEW p \in Reached(s) \ LoopOf(s, h), NEW c \in s[p] \cap LoopOf(s, h) PROVE c = h
  BY LoopPred
<1>2. h \in Reached(s)
  BY LoopConnected
<1>3. PICK p \in Reached(s) : h \in s[p] /\ ~Dominates(s, h, p)
  BY <1>2, SomePredEscapes
<1>4. p \notin LoopOf(s, h)
  BY <1>3 DEF LoopOf, Below
<1> QED
  BY <1>1, <1>3, <1>4

-----------------------------------------------------------------------------
(* The graph that is left and the loops that are recorded.                 *)

\* What LoopSearch takes for granted: every block is reached, nothing leads to
\* the entry, the lists of predecessors say what the branches do.
AllReached ==
  /\ ToSet(prog.bbs) = Reached(Graph(prog))
  /\ prog.pre \in [Block -> Seq(Block)]
  /\ \A b \in Block : Entry \notin Graph(prog)[b]
  /\ \A b \in ToSet(prog.bbs) : ToSet(prog.pre[b]) = {p \in ToSet(prog.bbs) : b \in Graph(prog)[p]}

Searchable == AllReached /\ Reducible(Graph(prog))

GraphTyped == Graph(prog) \in [Block -> SUBSET Block]

Headers == {h \in Block : IsHeader(Graph(prog), h)}
Loop(h) == LoopOf(Graph(prog), h)

\* What is left is the graph without the bases that were taken out; these still
\* know what of it they lead to.
LeftOver ==
  /\ nodes = Reached(Graph(prog)) \ reserved
  /\ \A n \in nodes : /\ succs[n] = Graph(prog)[n] \cap nodes
                      /\ prevs[n] = {m \in nodes : n \in Graph(prog)[m]}
  /\ \A r \in reserved : Graph(prog)[r] \cap nodes \subseteq succs[r] /\ succs[r] \subseteq Graph(prog)[r]

\* The bases taken out are headers, and their loops are recorded; a block knows
\* the smallest of them that it is in.
Recorded ==
  /\ reserved \subseteq Headers
  /\ base2loop = [h \in reserved |-> Loop(h)]
  /\ DOMAIN bb2base = UNION {Loop(h) : h \in reserved}
  /\ \A b \in DOMAIN bb2base :
       /\ bb2base[b] \in reserved /\ b \in Loop(bb2base[b])
       /\ \A g \in reserved : b \in Loop(g) => Loop(bb2base[b]) \subseteq Loop(g)

\* A loop that is next to be recorded.
NextLoop(c) ==
  \E h \in Headers \ reserved : c = Loop(h) /\ Outermost(Graph(prog), reserved, h)

LoopInv ==
  /\ LeftOver /\ Recorded /\ OutermostFirst(Graph(prog), reserved)
  /\ pc = "record" => \A c \in sccs : NextLoop(c)
  /\ pc # "crash"
  /\ pc \notin {"search", "record"} => reserved = Headers

NaturalInv == GraphTyped /\ (Searchable => LoopInv)

\* A header is reached, and it is in its own loop.
LEMMA HeaderFacts ==
  ASSUME GraphTyped, NEW h \in Headers
  PROVE  h \in Block /\ IsHeader(Graph(prog), h) /\ h \in Loop(h) /\ h \in Reached(Graph(prog))
<1>1. h \in Block /\ IsHeader(Graph(prog), h)
  BY DEF Headers
<1>2. PICK t \in Block : t # h /\ h \in Graph(prog)[t] /\ Dominates(Graph(prog), h, t)
  BY <1>1 DEF IsHeader
<1>3. t \in Below(Graph(prog), h)
  BY <1>2 DEF Below
<1>4. h \in Below(Graph(prog), h)
  BY <1>1, <1>3, DominatorReaches DEF GraphTyped
<1> QED
  BY <1>1, <1>4, ReachesEdge DEF Loop, LoopOf, Below, Dominates

\* Initially nothing is taken out.
LEMMA InitNatural ==
  ASSUME Init
  PROVE  NaturalInv
<1>1. PICK q \in Programs : prog = Built(q.bbs, q.code)
  BY DEF Init, SearchInit
<1>2. EdgesInside(prog)
  BY <1>1, ProgramsAssumption
<1>3. /\ nodes = ToSet(prog.bbs) /\ prevs = [b \in Block |-> ToSet(prog.pre[b])]
      /\ succs = Graph(prog) /\ sccs = {} /\ pc = "search" /\ reserved = {}
      /\ base2loop = << >> /\ bb2base = << >>
  BY DEF Init, SearchInit
<1>4. GraphTyped /\ \A b \in Block : Graph(prog)[b] \subseteq ToSet(prog.bbs)
  BY <1>2 DEF EdgesInside, Graph, GraphTyped
<1>5. ASSUME Searchable PROVE LoopInv
  <2>1. nodes = Reached(Graph(prog)) /\ nodes \subseteq Block
    BY <1>3, <1>4, <1>5, ReachedClosed DEF Searchable, AllReached, GraphTyped
  <2>2. \A n \in nodes : /\ succs[n] = Graph(prog)[n] \cap nodes
                         /\ prevs[n] = {m \in nodes : n \in Graph(prog)[m]}
    BY <1>3, <1>4, <1>5, <2>1 DEF Searchable, AllReached
  <2>3. LeftOver
    BY <1>3, <2>1, <2>2 DEF LeftOver
  <2>4. Recorded
    <3>1. DOMAIN base2loop = {} /\ DOMAIN bb2base = {}
      BY <1>3
    <3> QED BY <1>3, <3>1 DEF Recorded
  <2> QED BY <1>3, <2>3, <2>4 DEF LoopInv, OutermostFirst
<1> QED
  BY <1>4, <1>5 DEF NaturalInv

-----------------------------------------------------------------------------
\* Of the graph that is left the components are those of the graph within it.
LEMMA SccOfLeft ==
  ASSUME GraphTyped, GraphOK, LeftOver, NEW n \in nodes
  PROVE  Scc(succs, n) = Scc(Within(Graph(prog), nodes), n)
<1> DEFINE W == Within(Graph(prog), nodes)
<1>1. nodes \subseteq Block /\ \A x \in nodes : succs[x] \subseteq nodes /\ W[x] \subseteq nodes /\ W[x] = succs[x]
  BY DEF GraphOK, LeftOver, Within
<1> HIDE DEF W
<1>2. ASSUME NEW m, Reaches(succs, n, m), Reaches(succs, m, n)
      PROVE  Reaches(W, n, m) /\ Reaches(W, m, n)
  <2>1. m \in nodes /\ Reaches(W, n, m)
    BY <1>1, <1>2, ReachesSame
  <2> QED BY <1>1, <1>2, <2>1, ReachesSame
<1>3. ASSUME NEW m, Reaches(W, n, m), Reaches(W, m, n)
      PROVE  Reaches(succs, n, m) /\ Reaches(succs, m, n)
  <2>1. m \in nodes /\ Reaches(succs, n, m)
    BY <1>1, <1>3, ReachesSame
  <2> QED BY <1>1, <1>3, <2>1, ReachesSame
<1> QED
  BY <1>2, <1>3 DEF Scc, W

\* When a search is over, what it found are the loops to be recorded next, and
\* when it found nothing there is no loop left.
LEMMA SearchOver ==
  ASSUME GraphTyped, Searchable, GraphOK, SearchInv, LoopInv, calls = << >>, Visited = nodes
  PROVE  /\ \A c \in sccs : NextLoop(c)
         /\ sccs = {} => reserved = Headers
<1> DEFINE s == Graph(prog)
<1>1. sccs = {c \in {Scc(succs, n) : n \in nodes} : Cardinality(c) # 1}
  BY StackEmptied DEF SearchInv, SccsOK
<1>2. nodes = Reached(s) \ reserved /\ nodes \subseteq Block /\ s \in [Block -> SUBSET Block]
  BY DEF LoopInv, LeftOver, GraphOK, GraphTyped
<1>3. OutermostFirst(s, reserved) /\ Reducible(s) /\ reserved \subseteq Headers
  BY DEF LoopInv, Recorded, Searchable
<1>4. ASSUME NEW n \in nodes PROVE Scc(succs, n) = Scc(Within(s, nodes), n) /\ n \in Scc(succs, n)
  <2>1. n \in Block
    BY <1>2
  <2> QED BY <2>1, SccOfLeft, ReachesEdge DEF LoopInv, Scc
<1>5. ASSUME NEW c \in sccs PROVE NextLoop(c)
  <2>1. PICK n \in nodes : c = Scc(succs, n) /\ Cardinality(c) # 1
    BY <1>1
  <2>2. PICK m \in c : m # n
    <3>1. (\A m \in c : m = n) => c = {n}
      BY <1>4, <2>1
    <3> QED BY <2>1, <3>1, FS_Singleton
  <2>3. c = Scc(Within(s, Reached(s) \ reserved), n)
    BY <1>2, <1>4, <2>1
  <2>4. \E h \in Block \ reserved : /\ IsHeader(s, h) /\ Outermost(s, reserved, h)
                                    /\ Scc(Within(s, Reached(s) \ reserved), n) = LoopOf(s, h)
    <3>1. n \in Reached(s) \ reserved /\ m \in Scc(Within(s, Reached(s) \ reserved), n)
      BY <1>2, <2>2, <2>3
    <3> HIDE DEF s
    <3> QED BY <1>2, <1>3, <2>2, <3>1, SccIsLoop
  <2> QED BY <2>3, <2>4 DEF NextLoop, Headers, Loop
<1>6. ASSUME sccs = {}, NEW h \in Headers, h \notin reserved PROVE FALSE
  <2>1. h \in Block /\ IsHeader(s, h) /\ h \in LoopOf(s, h) /\ h \in nodes
    BY <1>2, <1>6, HeaderFacts DEF Loop
  <2>2. PICK t \in Block : t # h /\ h \in s[t] /\ Dominates(s, h, t)
    BY <2>1 DEF IsHeader
  <2>3. t \in LoopOf(s, h)
    <3>1. t \in Reached(s)
      BY <2>2 DEF Dominates
    <3> HIDE DEF s
    <3> QED BY <1>2, <2>1, <2>2, <3>1, LoopPred
  <2>4. LoopOf(s, h) \subseteq Scc(succs, h)
    <3>1. LoopOf(s, h) \subseteq Scc(Within(s, Reached(s) \ reserved), h)
      <4> HIDE DEF s
      <4> QED BY <1>2, <1>3, <1>6, <2>1, LoopInScc
    <3> QED BY <1>2, <1>4, <2>1, <3>1
  <2>5. Cardinality(Scc(succs, h)) # 1
    <3>1. h \in Scc(succs, h) /\ t \in Scc(succs, h)
      BY <2>1, <2>3, <2>4
    <3>2. Scc(succs, h) \in SUBSET Block
      BY DEF Scc
    <3>3. IsFiniteSet(Scc(succs, h))
      BY <3>2, BlockAssumption, FS_Subset
    <3>4. ASSUME Cardinality(Scc(succs, h)) = 1 PROVE FALSE
      <4>1. \E x : Scc(succs, h) = {x}
        BY <3>3, <3>4, FS_Singleton
      <4> QED BY <2>2, <3>1, <4>1
    <3> QED BY <3>4
  <2> QED BY <1>1, <1>6, <2>1, <2>5
<1> QED
  BY <1>3, <1>5, <1>6

\* The base that is found is the header.
LEMMA BasesOfLoop ==
  ASSUME GraphTyped, Searchable, LoopInv, NEW h \in Headers \ reserved
  PROVE  Bases(Loop(h)) = {h} /\ Loop(h) \subseteq nodes
<1> DEFINE s == Graph(prog)
           c == Loop(h)
<1>1. h \in Block /\ IsHeader(s, h) /\ h \in c /\ s \in [Block -> SUBSET Block]
  BY HeaderFacts DEF GraphTyped
<1>2. h # Entry
  BY <1>1 DEF IsHeader, Searchable, AllReached
<1>3. c \subseteq nodes /\ nodes = Reached(s) \ reserved
  <2>1. LoopOf(s, h) \subseteq Reached(s) \ reserved
    <3>1. OutermostFirst(s, reserved) /\ h \notin reserved
      BY DEF LoopInv
    <3> HIDE DEF s
    <3> QED BY <1>1, <3>1, LoopIsLeft
  <2> QED BY <2>1 DEF LoopInv, LeftOver, Loop
<1>4. /\ \A p \in Reached(s) \ c : s[p] \cap c \subseteq {h}
      /\ \E p \in Reached(s) \ c : h \in s[p]
  <2>1. c = LoopOf(s, h)
    BY DEF Loop
  <2> HIDE DEF s, c
  <2> QED BY <1>1, <1>2, <2>1, LoopEntered
<1>5. reserved \subseteq Reached(s)
  BY HeaderFacts DEF LoopInv, Recorded
<1>6. LeftOver
  BY DEF LoopInv
<1> DEFINE entered == {n \in c : prevs[n] \ c # {}}
           led == c \cap UNION {succs[r] : r \in reserved}
<1>7. entered \subseteq {h}
  <2>1. ASSUME NEW n \in c, NEW p \in prevs[n] \ c PROVE n = h
    <3>1. p \in Reached(s) \ c /\ n \in s[p]
      BY <1>3, <1>6, <2>1 DEF LeftOver
    <3> QED BY <1>4, <3>1
  <2> QED BY <2>1
<1>8. led \subseteq {h}
  <2>1. ASSUME NEW n \in c, NEW r \in reserved, n \in succs[r] PROVE n = h
    <3>1. r \in Reached(s) \ c /\ n \in s[r]
      BY <1>3, <1>5, <1>6, <2>1 DEF LeftOver
    <3> QED BY <1>4, <3>1
  <2> QED BY <2>1
<1>9. entered = {} => h \in led
  <2>1. PICK p \in Reached(s) \ c : h \in s[p]
    BY <1>4
  <2>2. p \in nodes => h \in entered
    <3>1. p \in nodes => p \in prevs[h]
      BY <1>1, <1>3, <1>6, <2>1 DEF LeftOver
    <3> QED BY <1>1, <2>1, <3>1
  <2>3. p \in reserved => h \in led
    <3>1. p \in reserved => h \in succs[p]
      BY <1>1, <1>3, <1>6, <2>1 DEF LeftOver
    <3> QED BY <1>1, <3>1
  <2> QED BY <1>3, <2>1, <2>2, <2>3
<1>10. Bases(c) = IF entered # {} THEN entered ELSE led
  BY DEF Bases
<1> HIDE DEF entered, led, c
<1>11. Bases(c) = {h}
  BY <1>7, <1>8, <1>9, <1>10
<1> QED
  BY <1>3, <1>11 DEF c

-----------------------------------------------------------------------------
(* A loop is recorded.                                                     *)

\* The graph of the function stays, and so do its loops.
LEMMA SameLoops ==
  ASSUME prog' = prog
  PROVE  /\ Graph(prog)' = Graph(prog) /\ Headers' = Headers /\ \A h : Loop(h)' = Loop(h)
         /\ (GraphTyped' <=> GraphTyped) /\ (Searchable' <=> Searchable)
BY DEF Headers, Loop, GraphTyped, Searchable, AllReached

\* With its header a loop is taken out, the graph that is left stays exact.
LEMMA TakeOutLeft ==
  ASSUME GraphTyped, GraphOK, LeftOver, NEW h \in nodes, reserved \subseteq Block,
         prog' = prog, TakeOut(h), reserved' = reserved \cup {h}
  PROVE  LeftOver'
<1> DEFINE s == Graph(prog)
<1>1. /\ nodes' = nodes \ {h}
      /\ prevs' = [n \in Block |-> IF n \in succs[h] THEN prevs[n] \ {h} ELSE prevs[n]]
      /\ succs' = [n \in Block |-> IF n \in prevs[h] THEN succs[n] \ {h} ELSE succs[n]]
  BY DEF TakeOut
<1>2. /\ nodes = Reached(s) \ reserved /\ nodes \subseteq Block
      /\ \A n \in nodes : succs[n] = s[n] \cap nodes /\ prevs[n] = {p \in nodes : n \in s[p]}
      /\ \A r \in reserved : s[r] \cap nodes \subseteq succs[r] /\ succs[r] \subseteq s[r]
  BY DEF LeftOver, GraphOK
<1>3. Graph(prog)' = s
  BY SameLoops
<1> HIDE DEF s
<1>4. nodes' = Reached(s) \ reserved'
  BY <1>1, <1>2
<1>5. ASSUME NEW n \in nodes'
      PROVE  succs'[n] = s[n] \cap nodes' /\ prevs'[n] = {p \in nodes' : n \in s[p]}
  <2>1. n \in nodes /\ n \in Block /\ n # h
    BY <1>1, <1>2
  <2>2. succs'[n] = IF n \in prevs[h] THEN succs[n] \ {h} ELSE succs[n]
    BY <1>1, <2>1
  <2>3. prevs'[n] = IF n \in succs[h] THEN prevs[n] \ {h} ELSE prevs[n]
    BY <1>1, <2>1
  <2>4. n \in prevs[h] <=> h \in s[n]
    BY <1>2, <2>1
  <2>5. n \in succs[h] <=> n \in s[h]
    BY <1>2, <2>1
  <2>6. succs[n] = s[n] \cap nodes /\ prevs[n] = {p \in nodes : n \in s[p]}
    BY <1>2, <2>1
  <2>7. succs'[n] = s[n] \cap nodes'
    BY <1>1, <2>2, <2>4, <2>6
  <2>8. prevs'[n] = {p \in nodes' : n \in s[p]}
    BY <1>1, <2>3, <2>5, <2>6
  <2> QED BY <2>7, <2>8
<1>6. ASSUME NEW r \in reserved'
      PROVE  s[r] \cap nodes' \subseteq succs'[r] /\ succs'[r] \subseteq s[r]
  <2>1. r \in Block
    BY <1>2
  <2>2. succs'[r] = IF r \in prevs[h] THEN succs[r] \ {h} ELSE succs[r]
    BY <1>1, <2>1
  <2>3. s[r] \cap nodes \subseteq succs[r] /\ succs[r] \subseteq s[r]
    BY <1>2
  <2>4. succs[r] \ {h} \subseteq succs'[r] /\ succs'[r] \subseteq succs[r]
    BY <2>2
  <2>5. s[r] \cap nodes' \subseteq succs[r] \ {h}
    BY <1>1, <2>3
  <2> QED BY <2>3, <2>4, <2>5
<1> QED
  BY <1>3, <1>4, <1>5, <1>6 DEF LeftOver

\* The loops around one are recorded before it, so the loop recorded last is
\* the smallest of those recorded for each of its blocks.
LEMMA RecordedNext ==
  ASSUME GraphTyped, Recorded, NEW h \in Headers \ reserved, OutermostFirst(Graph(prog), reserved),
         prog' = prog, reserved' = reserved \cup {h},
         base2loop' = Inserted(base2loop, {h}, Loop(h)),
         bb2base' = [b \in DOMAIN bb2base \cup Loop(h) |-> IF b \in Loop(h) THEN h ELSE bb2base[b]]
  PROVE  Recorded'
<1>1. /\ reserved \subseteq Headers /\ base2loop = [g \in reserved |-> Loop(g)]
      /\ DOMAIN bb2base = UNION {Loop(g) : g \in reserved}
      /\ \A b \in DOMAIN bb2base :
           /\ bb2base[b] \in reserved /\ b \in Loop(bb2base[b])
           /\ \A g \in reserved : b \in Loop(g) => Loop(bb2base[b]) \subseteq Loop(g)
  BY DEF Recorded
<1>2. Headers' = Headers /\ \A g : Loop(g)' = Loop(g)
  BY SameLoops
<1>3. base2loop' = [g \in reserved' |-> Loop(g)]
  <2>1. DOMAIN base2loop = reserved
    BY <1>1
  <2>2. base2loop' = [g \in reserved \cup {h} |-> IF g \in reserved THEN base2loop[g] ELSE Loop(h)]
    BY <2>1 DEF Inserted
  <2>3. \A g \in reserved \cup {h} : (IF g \in reserved THEN base2loop[g] ELSE Loop(h)) = Loop(g)
    BY <1>1
  <2> QED BY <2>2, <2>3
<1>4. /\ DOMAIN bb2base' = Loop(h) \cup DOMAIN bb2base
      /\ \A b \in Loop(h) : bb2base'[b] = h
      /\ \A b \in DOMAIN bb2base \ Loop(h) : bb2base'[b] = bb2base[b]
  OBVIOUS
<1>5. DOMAIN bb2base' = UNION {Loop(g) : g \in reserved'}
  BY <1>1, <1>4
<1>6. ASSUME NEW b \in Loop(h), NEW g \in reserved, b \in Loop(g) PROVE Loop(h) \subseteq Loop(g)
  <2> DEFINE s == Graph(prog)
  <2>1. h \in Block /\ IsHeader(s, h) /\ g \in Block /\ IsHeader(s, g) /\ s \in [Block -> SUBSET Block]
    BY <1>1, HeaderFacts DEF GraphTyped
  <2>2. b \in LoopOf(s, h) \cap LoopOf(s, g)
    BY <1>6 DEF Loop
  <2>3. \/ g \in LoopOf(s, h) /\ LoopOf(s, g) \subseteq LoopOf(s, h)
        \/ h \in LoopOf(s, g) /\ LoopOf(s, h) \subseteq LoopOf(s, g)
    <3> HIDE DEF s
    <3> QED BY <2>1, <2>2, LoopsNested
  <2>4. g \notin LoopOf(s, h)
    BY <2>1 DEF OutermostFirst
  <2> QED BY <2>3, <2>4 DEF Loop
<1>7. ASSUME NEW b \in DOMAIN bb2base'
      PROVE  /\ bb2base'[b] \in reserved' /\ b \in Loop(bb2base'[b])
             /\ \A g \in reserved' : b \in Loop(g) => Loop(bb2base'[b]) \subseteq Loop(g)
  <2>1. CASE b \in Loop(h)
    <3>1. bb2base'[b] = h
      BY <1>4, <2>1
    <3> QED BY <1>6, <2>1, <3>1
  <2>2. CASE b \notin Loop(h)
    <3>1. bb2base'[b] = bb2base[b] /\ b \in DOMAIN bb2base
      BY <1>4, <2>2
    <3> QED BY <1>1, <2>2, <3>1
  <2> QED BY <2>1, <2>2
<1>8. (base2loop = [g \in reserved |-> Loop(g)])'
  BY <1>2, <1>3
<1>9. (DOMAIN bb2base = UNION {Loop(g) : g \in reserved})'
  BY <1>2, <1>5
<1>10. reserved' \subseteq Headers'
  BY <1>1, <1>2
<1>11. (\A b \in DOMAIN bb2base :
          /\ bb2base[b] \in reserved /\ b \in Loop(bb2base[b])
          /\ \A g \in reserved : b \in Loop(g) => Loop(bb2base[b]) \subseteq Loop(g))'
  BY <1>2, <1>7
<1> QED
  BY <1>8, <1>9, <1>10, <1>11 DEF Recorded

\* A loop taken out after those around it leaves the rest in that order.
LEMMA OutermostNext ==
  ASSUME NEW s, NEW R, NEW h, OutermostFirst(s, R), Outermost(s, R, h)
  PROVE  /\ OutermostFirst(s, R \cup {h})
         /\ \A g : Outermost(s, R, g) => Outermost(s, R \cup {h}, g)
BY DEF Outermost, OutermostFirst

\* Recording a component keeps all of it.
LEMMA RecordNatural ==
  ASSUME GraphTyped, Searchable, GraphOK, LoopInv, Record
  PROVE  LoopInv'
<1>1. pc = "record" /\ UNCHANGED <<prog, pc, tarjan>>
  BY DEF Record
<1>2. PICK scc \in sccs : \E base \in Bases(scc) :
             /\ base2loop' = Inserted(base2loop, {base}, scc)
             /\ bb2base' = [b \in DOMAIN bb2base \cup scc |-> IF b \in scc THEN base ELSE bb2base[b]]
             /\ reserved' = reserved \cup {base}
             /\ TakeOut(base)
             /\ sccs' = sccs \ {scc}
  BY DEF Record
<1>3. /\ LeftOver /\ Recorded /\ OutermostFirst(Graph(prog), reserved)
      /\ \A c \in sccs : NextLoop(c)
  BY <1>1 DEF LoopInv
<1>4. PICK h \in Headers \ reserved : scc = Loop(h) /\ Outermost(Graph(prog), reserved, h)
  BY <1>3 DEF NextLoop
<1>5. Bases(Loop(h)) = {h} /\ Loop(h) \subseteq nodes
  BY <1>4, BasesOfLoop
<1>6. /\ base2loop' = Inserted(base2loop, {h}, Loop(h))
      /\ bb2base' = [b \in DOMAIN bb2base \cup Loop(h) |-> IF b \in Loop(h) THEN h ELSE bb2base[b]]
      /\ reserved' = reserved \cup {h}
      /\ TakeOut(h)
      /\ sccs' = sccs \ {Loop(h)}
  BY <1>2, <1>4, <1>5
<1>7. h \in Block /\ h \in nodes
  BY <1>4, <1>5, HeaderFacts
<1>8. Graph(prog)' = Graph(prog) /\ Headers' = Headers /\ \A g : Loop(g)' = Loop(g)
  BY <1>1, SameLoops
<1>9. LeftOver'
  <2>1. reserved \subseteq Block
    BY <1>3 DEF Recorded, Headers
  <2> QED BY <1>1, <1>3, <1>6, <1>7, <2>1, TakeOutLeft
<1>10. Recorded'
  BY <1>1, <1>3, <1>4, <1>6, RecordedNext
<1>11. /\ OutermostFirst(Graph(prog), reserved')
       /\ \A g : Outermost(Graph(prog), reserved, g) => Outermost(Graph(prog), reserved', g)
  BY <1>3, <1>4, <1>6, OutermostNext
<1>12. ASSUME NEW c \in sccs' PROVE NextLoop(c)'
  <2>1. c \in sccs /\ c # Loop(h)
    BY <1>6
  <2>2. PICK g \in Headers \ reserved : c = Loop(g) /\ Outermost(Graph(prog), reserved, g)
    BY <1>3, <2>1 DEF NextLoop
  <2>3. g \in Headers \ reserved'
    BY <1>6, <2>1, <2>2
  <2> QED BY <1>8, <1>11, <2>2, <2>3 DEF NextLoop
<1>13. OutermostFirst(Graph(prog), reserved)'
  BY <1>8, <1>11
<1>14. pc' = "record"
  BY <1>1
<1> QED
  BY <1>9, <1>10, <1>12, <1>13, <1>14 DEF LoopInv

-----------------------------------------------------------------------------
(* The loops that are found.                                               *)

\* What is left and what is recorded are about these variables.
LEMMA NaturalUnchanged ==
  ASSUME UNCHANGED <<prog, nodes, succs, prevs, reserved, found>>
  PROVE  /\ (LeftOver' <=> LeftOver) /\ (Recorded' <=> Recorded)
         /\ OutermostFirst(Graph(prog), reserved)' <=> OutermostFirst(Graph(prog), reserved)
         /\ \A c : NextLoop(c)' <=> NextLoop(c)
         /\ (reserved = Headers)' <=> reserved = Headers
BY DEF LeftOver, Recorded, NextLoop, Headers, Loop, found

\* Each step of the search takes the loops from the outermost in.
LEMMA SearchNatural ==
  ASSUME ComponentsInv, NaturalInv, Search
  PROVE  NaturalInv'
<1>1. prog' = prog
  BY DEF Search, TraverseRoot, TraverseSucc, SeeSucc, Return, EndSearch, NoBase, Record, SearchAgain
<1>2. GraphTyped /\ GraphTyped' /\ (Searchable' <=> Searchable)
  BY <1>1, SameLoops DEF NaturalInv
<1> SUFFICES ASSUME Searchable PROVE LoopInv'
  BY <1>2 DEF NaturalInv
<1>3. LoopInv
  BY DEF NaturalInv
<1>4. CASE TraverseRoot \/ TraverseSucc \/ SeeSucc \/ Return
  <2>1. UNCHANGED <<prog, nodes, succs, prevs, reserved, found>> /\ pc = "search" /\ pc' = "search"
    BY <1>4 DEF TraverseRoot, TraverseSucc, SeeSucc, Return
  <2> QED BY <1>3, <2>1, NaturalUnchanged DEF LoopInv
<1>5. CASE EndSearch
  <2>1. /\ UNCHANGED <<prog, nodes, succs, prevs, reserved, found, sccs>> /\ pc = "search"
        /\ calls = << >> /\ Visited = nodes /\ pc' = IF sccs = {} THEN "found" ELSE "record"
    BY <1>5 DEF EndSearch
  <2>2. GraphOK /\ SearchInv
    BY <2>1 DEF ComponentsInv
  <2>3. (\A c \in sccs : NextLoop(c)) /\ (sccs = {} => reserved = Headers)
    BY <1>2, <1>3, <2>1, <2>2, SearchOver
  <2>4. /\ (LeftOver' <=> LeftOver) /\ (Recorded' <=> Recorded)
        /\ OutermostFirst(Graph(prog), reserved)' <=> OutermostFirst(Graph(prog), reserved)
        /\ \A c : NextLoop(c)' <=> NextLoop(c)
        /\ (reserved = Headers)' <=> reserved = Headers
    BY <2>1, NaturalUnchanged
  <2>5. \A c \in sccs' : NextLoop(c)'
    BY <2>1, <2>3, <2>4
  <2>6. pc' \notin {"search", "record"} => (reserved = Headers)'
    BY <2>1, <2>3, <2>4
  <2>7. pc' # "crash"
    BY <2>1
  <2> QED BY <1>3, <2>4, <2>5, <2>6, <2>7 DEF LoopInv
<1>6. CASE NoBase
  <2>1. PICK c \in sccs : Bases(c) = {} /\ pc = "record"
    BY <1>6 DEF NoBase
  <2>2. PICK h \in Headers \ reserved : c = Loop(h)
    BY <1>3, <2>1 DEF LoopInv, NextLoop
  <2>3. Bases(c) = {h}
    BY <1>2, <1>3, <2>2, BasesOfLoop
  <2> QED BY <2>1, <2>3
<1>7. CASE Record
  <2>1. GraphOK
    BY <1>7 DEF ComponentsInv, Record
  <2> QED BY <1>2, <1>3, <1>7, <2>1, RecordNatural
<1>8. CASE SearchAgain
  <2>1. UNCHANGED <<prog, nodes, succs, prevs, reserved, found>> /\ pc' = "search"
    BY <1>8 DEF SearchAgain
  <2> QED BY <1>3, <2>1, NaturalUnchanged DEF LoopInv
<1> QED
  BY <1>4, <1>5, <1>6, <1>7, <1>8 DEF Search

\* The pass that uses the loops leaves them as they were found.
LEMMA NextNatural == ComponentsInv /\ NaturalInv /\ [Next]_vars => NaturalInv'
<1> SUFFICES ASSUME ComponentsInv, NaturalInv, [Next]_vars PROVE NaturalInv'
  OBVIOUS
<1>1. CASE SearchStep
  BY <1>1, SearchNatural DEF SearchStep
<1>2. CASE UNCHANGED vars
  <2>1. UNCHANGED <<prog, pc, sccs>> /\ UNCHANGED <<prog, nodes, succs, prevs, reserved, found>>
    BY <1>2 DEF vars, searchVars
  <2>2. (LoopInv' <=> LoopInv)
    BY <2>1, NaturalUnchanged DEF LoopInv
  <2> QED BY <2>1, <2>2, SameLoops DEF NaturalInv
<1>3. CASE CollectLoops \/ PickLoop \/ CollectInBlock \/ CollectAgain \/ MoveOut \/ BeginParent \/ Finish \/ RunBlock
  <2>1. UNCHANGED <<prog, nodes, succs, prevs, reserved, found>>
    BY <1>3 DEF CollectLoops, PickLoop, CollectInBlock, CollectAgain, MoveOut, BeginParent, Finish, RunBlock,
                UNCHANGED_search
  <2>2. pc \notin {"search", "record"}
    BY <1>3 DEF CollectLoops, PickLoop, CollectInBlock, CollectAgain, MoveOut, BeginParent, Finish, RunBlock
  <2>3. pc' \notin {"search", "record", "crash"}
    BY <1>3 DEF CollectLoops, PickLoop, CollectInBlock, CollectAgain, MoveOut, GoTo, BeginParent, Finish, RunBlock
  <2>4. LoopInv => LoopInv'
    BY <2>1, <2>2, <2>3, NaturalUnchanged DEF LoopInv
  <2> QED BY <2>1, <2>4, SameLoops DEF NaturalInv
<1> QED
  BY <1>1, <1>2, <1>3 DEF Next, Pass

\* On a reducible graph the loops are taken out from the outermost in, each at
\* its header and with all its blocks, and what is left is the graph without
\* the headers taken out.
THEOREM NaturalLoopInvariant == Spec => [](ComponentsInv /\ NaturalInv)
<1>1. Init => ComponentsInv /\ NaturalInv
  BY InitComponents, InitNatural
<1>2. ComponentsInv /\ NaturalInv /\ [Next]_vars => (ComponentsInv /\ NaturalInv)'
  BY NextComponents, NextNatural
<1> QED
  BY <1>1, <1>2, PTL DEF Spec

\* The header of the smallest loop of those with headers A.
Smallest(A) == IF A = {} THEN Null ELSE CHOOSE h \in A : \A g \in A : Loop(h) \subseteq Loop(g)

\* It is the innermost one when A are the headers of the loops b is in.
LEMMA InnermostOf ==
  ASSUME NEW loops, NEW b, NEW A, A = {h \in DOMAIN loops : b \in loops[h]},
         \A h \in A : loops[h] = Loop(h)
  PROVE  InnermostHeader(loops, b) = Smallest(A)
<1> DEFINE B == {h \in DOMAIN loops : b \in loops[h]}
           Inner(S) == IF S = {} THEN Null ELSE CHOOSE h \in S : \A g \in S : loops[h] \subseteq loops[g]
<1>1. InnermostHeader(loops, b) = Inner(B)
  BY DEF InnermostHeader
<1>2. Inner(B) = Inner(A)
  <2>1. A = B
    OBVIOUS
  <2> HIDE DEF B, Inner
  <2> QED BY <2>1
<1>3. (CHOOSE h \in A : \A g \in A : loops[h] \subseteq loops[g])
      = CHOOSE h \in A : \A g \in A : Loop(h) \subseteq Loop(g)
  OBVIOUS
<1> HIDE DEF B
<1> QED
  BY <1>1, <1>2, <1>3 DEF Smallest

\* The innermost loop around a block is the one recorded last for it.
LEMMA InnermostRecorded ==
  ASSUME GraphTyped, Recorded, NEW b
  PROVE  get_inner_loop(b) = InnermostHeader(base2loop, b)
<1> DEFINE around == {h \in reserved : b \in Loop(h)}
           least == CHOOSE h \in around : \A g \in around : Loop(h) \subseteq Loop(g)
<1>1. /\ reserved \subseteq Headers /\ base2loop = [h \in reserved |-> Loop(h)]
      /\ b \in DOMAIN bb2base <=> around # {}
  BY DEF Recorded
<1>2. InnermostHeader(base2loop, b) = IF around = {} THEN Null ELSE least
  <2>1. around = {h \in DOMAIN base2loop : b \in base2loop[h]} /\ \A h \in around : base2loop[h] = Loop(h)
    BY <1>1
  <2>2. InnermostHeader(base2loop, b) = Smallest(around)
    <3> HIDE DEF around
    <3> QED BY <2>1, InnermostOf
  <2> QED BY <2>2 DEF Smallest
<1>3. CASE around = {}
  BY <1>1, <1>2, <1>3 DEF get_inner_loop
<1>4. CASE around # {}
  <2>1. /\ get_inner_loop(b) = bb2base[b] /\ bb2base[b] \in around
        /\ \A g \in around : Loop(bb2base[b]) \subseteq Loop(g)
    BY <1>1, <1>4 DEF get_inner_loop, Recorded
  <2>2. least \in around /\ \A g \in around : Loop(least) \subseteq Loop(g)
    BY <2>1
  <2>3. ASSUME NEW h \in around, NEW g \in around, Loop(h) \subseteq Loop(g), Loop(g) \subseteq Loop(h)
        PROVE  g = h
    <3> DEFINE s == Graph(prog)
    <3>1. h \in Block /\ g \in Block /\ h \in Loop(h) /\ g \in Loop(g) /\ s \in [Block -> SUBSET Block]
      BY <1>1, HeaderFacts DEF GraphTyped
    <3>2. h \in LoopOf(s, g) /\ g \in LoopOf(s, h)
      BY <2>3, <3>1 DEF Loop
    <3> HIDE DEF s
    <3> QED BY <3>1, <3>2, LoopHeader
  <2> HIDE DEF around, least
  <2>4. bb2base[b] = least
    BY <2>1, <2>2, <2>3
  <2> QED BY <1>2, <1>4, <2>1, <2>4
<1> QED
  BY <1>3, <1>4

\* On every function without unreachable blocks whose graph is reducible, the
\* search does not fail to find a base, finds the natural loops and no other
\* set of blocks, names each by its header, and tells every block the
\* innermost loop it is in, in whatever order the hash sets are visited.
THEOREM LoopsFound == Spec => [](AllReached => LoopsAreNatural)
<1>1. NaturalInv => (AllReached => LoopsAreNatural)
  <2> SUFFICES ASSUME NaturalInv, AllReached, pc \notin {"search", "record"}, Reducible(Graph(prog))
               PROVE  LET loops == NaturalLoops(Graph(prog))
                      IN  /\ pc # "crash"
                          /\ base2loop = loops
                          /\ \A b \in Block : get_inner_loop(b) = InnermostHeader(loops, b)
    BY DEF LoopsAreNatural
  <2>1. GraphTyped /\ LoopInv
    BY DEF NaturalInv, Searchable
  <2>2. pc # "crash" /\ reserved = Headers /\ Recorded
    BY <2>1 DEF LoopInv
  <2>3. NaturalLoops(Graph(prog)) = [h \in Headers |-> Loop(h)]
    BY <2>1, NaturalLoopsMeaning DEF GraphTyped, Headers, Loop
  <2>4. base2loop = NaturalLoops(Graph(prog))
    BY <2>2, <2>3 DEF Recorded
  <2>5. \A b \in Block : get_inner_loop(b) = InnermostHeader(base2loop, b)
    BY <2>1, <2>2, InnermostRecorded
  <2> QED BY <2>2, <2>4, <2>5
<1> QED
  BY NaturalLoopInvariant, <1>1, PTL

-----------------------------------------------------------------------------
(* The parent of a loop.                                                   *)

\* The first predecessor outside of a loop is one.
LEMMA FirstOutsider ==
  ASSUME prog.pre \in [Block -> Seq(Block)], NEW h \in Block, Outsiders(prog, h) # {}
  PROVE  LET p == prog.pre[h][Min(Outsiders(prog, h))] IN p \in ToSet(prog.pre[h]) \ base2loop[h]
<1> DEFINE S == Outsiders(prog, h)
<1>1. S \subseteq DOMAIN prog.pre[h] /\ DOMAIN prog.pre[h] \subseteq Nat
  BY DEF Outsiders
<1>2. \E i \in S : \A j \in S : i <= j
  BY <1>1, LeastNatural
<1>3. Min(S) \in S
  <2> HIDE DEF S
  <2> QED BY <1>2 DEF Min
<1> QED
  BY <1>3 DEF Outsiders, ToSet

\* A block that leads to h only is in the loops that h is in.
LEMMA OnlyWayOut ==
  ASSUME NEW s \in [Block -> SUBSET Block], NEW p \in Block, NEW h, s[p] = {h},
         NEW g \in Block, IsHeader(s, g), p \in LoopOf(s, g)
  PROVE  h \in LoopOf(s, g)
<1> DEFINE L == LoopOf(s, g)
<1>1. PICK t \in Block : t # g /\ g \in s[t] /\ Dominates(s, g, t)
  BY DEF IsHeader
<1>2. t \in L
  <2>1. t \in Reached(s) /\ g \in LoopOf(s, g)
    BY <1>1, LoopConnected DEF Dominates
  <2> QED BY <1>1, <2>1, LoopPred
<1>3. PICK x \in Block : x # p /\ Reaches(Within(s, L), p, x)
  <2>1. CASE p = g
    <3>1. Reaches(Within(s, L), g, t)
      BY <1>2, LoopConnected
    <3> QED BY <1>1, <2>1, <3>1
  <2>2. CASE p # g
    <3>1. Reaches(Within(s, L), p, g)
      BY LoopConnected
    <3> QED BY <2>2, <3>1
  <2> QED BY <2>1, <2>2
<1> SUFFICES ASSUME h \notin L PROVE FALSE
  OBVIOUS
<1>4. Within(s, L)[p] = {}
  BY DEF Within
<1> HIDE DEF L
<1>5. x \in {p}
  <2> DEFINE V == Within(s, L)
             X == {p}
  <2>1. X \in SUBSET Block /\ p \in X /\ Reaches(V, p, x) /\ \A y \in X : V[y] \subseteq X
    BY <1>3, <1>4
  <2> HIDE DEF V, X
  <2>2. x \in X
    BY <2>1, ReachesWithin
  <2> QED BY <2>2 DEF X
<1> QED
  BY <1>3, <1>5

\* The loop that get_parent_loop gives is around.
LEMMA ParentAround ==
  ASSUME AllReached, GraphTyped, Recorded, NEW h \in reserved, get_parent_loop(h) # Null
  PROVE  /\ get_parent_loop(h) \in reserved /\ get_parent_loop(h) # h
         /\ h \in Loop(get_parent_loop(h)) /\ Loop(h) \subseteq Loop(get_parent_loop(h))
<1> DEFINE s == Graph(prog)
           p == prog.pre[h][Min(Outsiders(prog, h))]
           g == get_inner_loop(p)
<1>1. /\ reserved \subseteq Headers /\ base2loop = [x \in reserved |-> Loop(x)]
      /\ \A b \in DOMAIN bb2base : bb2base[b] \in reserved /\ b \in Loop(bb2base[b])
  BY DEF Recorded
<1>2. h \in Block /\ h \in Loop(h) /\ prog.pre \in [Block -> Seq(Block)] /\ s \in [Block -> SUBSET Block]
  BY <1>1, HeaderFacts DEF AllReached, GraphTyped
<1>3. get_parent_loop(h) = g /\ Outsiders(prog, h) # {} /\ g # Null /\ h \in base2loop[g]
  BY DEF get_parent_loop
<1>4. p \notin Loop(h)
  BY <1>1, <1>2, <1>3, FirstOutsider
<1>5. g \in reserved /\ p \in Loop(g)
  BY <1>1, <1>3 DEF get_inner_loop
<1>6. g # h /\ h \in Loop(g)
  BY <1>1, <1>3, <1>4, <1>5
<1>7. g \in Block
  BY <1>1, <1>5 DEF Headers
<1>8. LoopOf(s, h) \subseteq LoopOf(s, g)
  <2>1. h \in LoopOf(s, g) \cap LoopOf(s, h)
    BY <1>2, <1>6 DEF Loop
  <2>2. Dominates(s, g, h)
    BY <2>1 DEF LoopOf, Below
  <2> HIDE DEF s, g
  <2> QED BY <1>2, <1>7, <2>1, <2>2, LoopNested
<1> QED
  BY <1>3, <1>5, <1>6, <1>8 DEF Loop

\* The block before a loop is in the loops around it, and in no other.
LEMMA PreheaderLoops ==
  ASSUME AllReached, GraphTyped, NEW h \in Headers, h # Entry, NEW p \in Block \ Loop(h),
         ToSet(prog.pre[h]) \subseteq Loop(h) \cup {p}, Graph(prog)[p] = {h}
  PROVE  /\ p \in ToSet(prog.pre[h])
         /\ \A g \in Headers : p \in Loop(g) <=> h \in Loop(g) /\ g # h
<1> DEFINE s == Graph(prog)
<1>1. h \in Block /\ h \in LoopOf(s, h) /\ h \in Reached(s) /\ s \in [Block -> SUBSET Block]
  BY HeaderFacts DEF Loop, GraphTyped
<1>2. p \in Reached(s) /\ p \in ToSet(prog.pre[h])
  <2>1. PICK q \in Reached(s) \ LoopOf(s, h) : h \in s[q]
    <3> HIDE DEF s
    <3> QED BY <1>1, LoopEntered
  <2>2. q \in ToSet(prog.pre[h])
    BY <1>1, <2>1 DEF AllReached
  <2>3. q = p
    BY <2>1, <2>2 DEF Loop
  <2> QED BY <2>1, <2>2, <2>3
<1>3. ASSUME NEW g \in Headers, p \in Loop(g) PROVE h \in Loop(g) /\ g # h
  <2>1. g \in Block /\ IsHeader(s, g) /\ p \in LoopOf(s, g)
    BY <1>3 DEF Headers, Loop
  <2>2. h \in LoopOf(s, g)
    <3>1. s[p] = {h}
      OBVIOUS
    <3> HIDE DEF s
    <3> QED BY <1>1, <2>1, <3>1, OnlyWayOut
  <2> QED BY <1>3, <2>2 DEF Loop
<1>4. ASSUME NEW g \in Headers, h \in Loop(g), g # h PROVE p \in Loop(g)
  <2>1. g \in Block /\ h \in LoopOf(s, g) /\ h \in s[p]
    BY <1>4 DEF Headers, Loop
  <2>2. p \in LoopOf(s, g)
    <3> HIDE DEF s
    <3> QED BY <1>1, <1>2, <1>4, <2>1, LoopPred
  <2> QED BY <2>2 DEF Loop
<1> QED
  BY <1>2, <1>3, <1>4

\* It is the first predecessor outside.
LEMMA PreheaderFirst ==
  ASSUME AllReached, GraphTyped, base2loop = [x \in Headers |-> Loop(x)], NEW h \in Headers,
         NEW p \in Block \ Loop(h), ToSet(prog.pre[h]) \subseteq Loop(h) \cup {p}, Graph(prog)[p] = {h}
  PROVE  /\ Outsiders(prog, h) # {} /\ prog.pre[h][Min(Outsiders(prog, h))] = p
         /\ \A g \in Headers : p \in Loop(g) <=> h \in Loop(g) /\ g # h
<1>1. h \in Block /\ h # Entry
  BY DEF Headers, IsHeader, AllReached
<1>2. p \in ToSet(prog.pre[h]) /\ \A g \in Headers : p \in Loop(g) <=> h \in Loop(g) /\ g # h
  BY <1>1, PreheaderLoops
<1>3. Outsiders(prog, h) # {}
  <2>1. PICK i \in DOMAIN prog.pre[h] : prog.pre[h][i] = p
    BY <1>2 DEF ToSet
  <2> QED BY <2>1 DEF Outsiders
<1>4. prog.pre[h][Min(Outsiders(prog, h))] = p
  <2>1. prog.pre[h][Min(Outsiders(prog, h))] \in ToSet(prog.pre[h]) \ base2loop[h]
    BY <1>1, <1>3, FirstOutsider DEF AllReached
  <2> QED BY <2>1
<1> QED
  BY <1>2, <1>3, <1>4

\* The parent of a loop with a block of its own before it is the smallest loop
\* around it.
LEMMA ParentInnermost ==
  ASSUME AllReached, GraphTyped, Recorded, reserved = Headers, NEW h \in Headers,
         NEW p \in Block \ Loop(h), ToSet(prog.pre[h]) \subseteq Loop(h) \cup {p}, Graph(prog)[p] = {h}
  PROVE  get_parent_loop(h) = Smallest({g \in Headers : h \in Loop(g) /\ g # h})
<1> DEFINE around == {g \in Headers : h \in Loop(g) /\ g # h}
           g0 == get_inner_loop(p)
<1>1. /\ base2loop = [x \in Headers |-> Loop(x)]
      /\ \A b \in DOMAIN bb2base : bb2base[b] \in Headers /\ b \in Loop(bb2base[b])
  BY DEF Recorded
<1>2. /\ Outsiders(prog, h) # {} /\ prog.pre[h][Min(Outsiders(prog, h))] = p
      /\ \A g \in Headers : p \in Loop(g) <=> h \in Loop(g) /\ g # h
  BY <1>1, PreheaderFirst
<1>3. get_parent_loop(h) = IF g0 # Null /\ h \in base2loop[g0] THEN g0 ELSE Null
  BY <1>2 DEF get_parent_loop
<1>4. g0 = Smallest(around)
  <2>1. around = {g \in DOMAIN base2loop : p \in base2loop[g]} /\ \A g \in around : base2loop[g] = Loop(g)
    BY <1>1, <1>2
  <2>2. InnermostHeader(base2loop, p) = Smallest(around)
    <3> HIDE DEF around
    <3> QED BY <2>1, InnermostOf
  <2> QED BY <2>2, InnermostRecorded
<1>5. g0 # Null => h \in base2loop[g0]
  BY <1>1, <1>2 DEF get_inner_loop
<1> HIDE DEF g0
<1> QED
  BY <1>3, <1>4, <1>5

\* On every function without unreachable blocks whose graph is reducible, what
\* get_parent_loop gives is a loop around the one asked for; where every loop
\* is entered from a block that leads nowhere else, as those of the builder
\* are, it is the innermost one, and there is one if any loop is around.
THEOREM ParentsFound == Spec => [](AllReached => ParentEncloses)
<1>1. NaturalInv => (AllReached => ParentEncloses)
  <2> SUFFICES ASSUME NaturalInv, AllReached, pc \notin {"search", "record", "crash"}, Reducible(Graph(prog)),
                      NEW h \in DOMAIN base2loop
               PROVE  LET others == [g \in DOMAIN base2loop \ {h} |-> base2loop[g]]
                          parent == get_parent_loop(h)
                      IN  /\ parent # Null => base2loop[h] \subseteq base2loop[parent] /\ parent # h
                          /\ Preheaded => parent = InnermostHeader(others, h)
    BY DEF ParentEncloses
  <2> DEFINE others == [g \in DOMAIN base2loop \ {h} |-> base2loop[g]]
             parent == get_parent_loop(h)
             around == {g \in Headers : h \in Loop(g) /\ g # h}
  <2>1. GraphTyped /\ Recorded /\ reserved = Headers
    BY DEF NaturalInv, Searchable, LoopInv
  <2>2. base2loop = [g \in Headers |-> Loop(g)] /\ h \in Headers /\ h \in Block
    BY <2>1 DEF Recorded, Headers
  <2>3. parent # Null => base2loop[h] \subseteq base2loop[parent] /\ parent # h
    <3> SUFFICES ASSUME parent # Null PROVE base2loop[h] \subseteq base2loop[parent] /\ parent # h
      OBVIOUS
    <3>1. parent \in reserved /\ parent # h /\ Loop(h) \subseteq Loop(parent)
      BY <2>1, <2>2, ParentAround
    <3> HIDE DEF parent
    <3> QED BY <2>1, <2>2, <3>1
  <2>4. ASSUME Preheaded PROVE parent = InnermostHeader(others, h)
    <3>1. PICK p \in Block \ base2loop[h] :
               ToSet(prog.pre[h]) \subseteq base2loop[h] \cup {p} /\ Graph(prog)[p] = {h}
      BY <2>4 DEF Preheaded
    <3>2. p \in Block \ Loop(h) /\ ToSet(prog.pre[h]) \subseteq Loop(h) \cup {p} /\ Graph(prog)[p] = {h}
      BY <2>2, <3>1
    <3>3. parent = Smallest(around)
      BY <2>1, <2>2, <3>2, ParentInnermost
    <3>4. around = {g \in DOMAIN others : h \in others[g]} /\ \A g \in around : others[g] = Loop(g)
      BY <2>2
    <3>5. InnermostHeader(others, h) = Smallest(around)
      <4> HIDE DEF around, others
      <4> QED BY <3>4, InnermostOf
    <3> HIDE DEF around, others, parent
    <3> QED BY <3>3, <3>5
  <2> QED BY <2>3, <2>4
<1> QED
  BY NaturalLoopInvariant, <1>1, PTL

-----------------------------------------------------------------------------
(* Lists of instructions.                                                  *)

\* One more element.
LEMMA AppendSet ==
  ASSUME NEW S, NEW s \in Seq(S), NEW x \in S
  PROVE  Append(s, x) \in Seq(S) /\ ToSet(Append(s, x)) = ToSet(s) \cup {x}
<1>1. /\ Append(s, x) \in Seq(S) /\ Len(Append(s, x)) = Len(s) + 1 /\ Len(s) \in Nat
      /\ \A i \in 1 .. Len(s) : Append(s, x)[i] = s[i]
      /\ Append(s, x)[Len(s) + 1] = x
  OBVIOUS
<1>2. DOMAIN s = 1 .. Len(s) /\ DOMAIN Append(s, x) = 1 .. Len(s) + 1
  BY <1>1
<1>3. 1 .. Len(s) + 1 = (1 .. Len(s)) \cup {Len(s) + 1}
  BY <1>1
<1> QED
  BY <1>1, <1>2, <1>3 DEF ToSet

\* Without takes every occurrence of x off a list, and nothing else.
LEMMA WithoutMeaning ==
  ASSUME NEW S, NEW s \in Seq(S), NEW x
  PROVE  Without(s, x) \in Seq(S) /\ ToSet(Without(s, x)) = ToSet(s) \ {x}
<1>1. Without(s, x) = Filtered(s, {x})
  BY DEF Without, WithoutAll, Filtered, IsFilter
<1>2. FilterOf(S, s, {x}, Len(s), Filtered(s, {x}))
  BY FilterMeaning
<1>3. ToSet(s) = {s[i] : i \in 1 .. Len(s)}
  BY DEF ToSet
<1> PICK r : r = Without(s, x)
  OBVIOUS
<1>4. FilterOf(S, s, {x}, Len(s), r)
  BY <1>1, <1>2
<1>5. r \in Seq(S) /\ {r[i] : i \in 1 .. Len(r)} = {s[i] : i \in 1 .. Len(s)} \ {x}
  BY <1>4 DEF FilterOf
<1>6. ToSet(r) = {r[i] : i \in 1 .. Len(r)}
  BY <1>5 DEF ToSet
<1> QED
  BY <1>3, <1>5, <1>6

-----------------------------------------------------------------------------
(* The round over the instructions of a block.                             *)

\* What does not depend on some definitions does not depend on fewer of them.
LEMMA InvariantOfFewer ==
  ASSUME NEW id, NEW C, NEW D, C \subseteq D, Invariant(id, D)
  PROVE  Invariant(id, C)
BY DEF Invariant

\* A set of instructions each of which depends on it.
Tied(C) == \A id \in C : ~Invariant(id, C)

\* What has been taken from define_set and put in wait_move, when the
\* instructions `seen` have been looked at: nothing of a set that is tied, and if
\* nothing at all then none of them could be.
Taking(acc, seen) ==
  /\ ToSet(wait_move) \subseteq ToSet(acc[2]) /\ ToSet(acc[2]) \subseteq ToSet(wait_move) \cup define_set
  /\ acc[1] = define_set \ ToSet(acc[2])
  /\ \A id \in ToSet(acc[2]) \ ToSet(wait_move) : f.ins[id].op \notin Fixed
  /\ \A C \in SUBSET define_set : Tied(C) => C \subseteq acc[1]
  /\ Len(acc[2]) >= Len(wait_move)
  /\ Len(acc[2]) = Len(wait_move) =>
       acc = <<define_set, wait_move>> /\ \A id \in seen \cap define_set : ~Invariant(id, define_set)

\* One instruction.
LEMMA TakeStep ==
  ASSUME NEW S, NEW acc \in (SUBSET S) \X Seq(S), NEW id \in S, NEW seen, Taking(acc, seen),
         wait_move \in Seq(S)
  PROVE  Take(acc, id) \in (SUBSET S) \X Seq(S) /\ Taking(Take(acc, id), seen \cup {id})
<1>1. acc[1] \in SUBSET S /\ acc[2] \in Seq(S) /\ Len(acc[2]) \in Nat /\ Len(wait_move) \in Nat
  OBVIOUS
<1>2. CASE id \in acc[1] /\ Invariant(id, acc[1])
  <2> DEFINE new == <<acc[1] \ {id}, Append(acc[2], id)>>
  <2>1. Take(acc, id) = new
    BY <1>2 DEF Take
  <2>2. Append(acc[2], id) \in Seq(S) /\ ToSet(Append(acc[2], id)) = ToSet(acc[2]) \cup {id}
    BY <1>1, AppendSet
  <2>3. Len(Append(acc[2], id)) = Len(acc[2]) + 1
    BY <1>1
  <2>4. new \in (SUBSET S) \X Seq(S) /\ new[1] = acc[1] \ {id} /\ new[2] = Append(acc[2], id)
    BY <1>1, <2>2
  <2> HIDE DEF new
  <2>5. id \in define_set
    BY <1>2 DEF Taking
  <2>6. f.ins[id].op \notin Fixed
    BY <1>2 DEF Invariant
  <2>7. \A C \in SUBSET define_set : Tied(C) => C \subseteq new[1]
    <3> SUFFICES ASSUME NEW C \in SUBSET define_set, Tied(C) PROVE C \subseteq new[1]
      OBVIOUS
    <3>1. C \subseteq acc[1]
      BY DEF Taking
    <3>2. id \notin C
      BY <1>2, <3>1, InvariantOfFewer DEF Tied
    <3> QED BY <2>4, <3>1, <3>2
  <2>8. /\ ToSet(wait_move) \subseteq ToSet(new[2]) /\ ToSet(new[2]) \subseteq ToSet(wait_move) \cup define_set
        /\ new[1] = define_set \ ToSet(new[2])
        /\ \A i \in ToSet(new[2]) \ ToSet(wait_move) : f.ins[i].op \notin Fixed
    BY <2>2, <2>4, <2>5, <2>6 DEF Taking
  <2>9. Len(new[2]) > Len(wait_move) /\ Len(new[2]) \in Nat
    BY <1>1, <2>3, <2>4 DEF Taking
  <2>10. Taking(new, seen \cup {id})
    BY <1>1, <2>7, <2>8, <2>9 DEF Taking
  <2> QED BY <2>1, <2>4, <2>10
<1>3. CASE ~(id \in acc[1] /\ Invariant(id, acc[1]))
  <2>1. Take(acc, id) = acc
    BY <1>3 DEF Take
  <2>2. acc = <<define_set, wait_move>> => ~(id \in define_set /\ Invariant(id, define_set))
    BY <1>3
  <2>3. Taking(acc, seen \cup {id})
    BY <2>2 DEF Taking
  <2> QED BY <2>1, <2>3
<1> QED
  BY <1>2, <1>3

\* What the loop over the instructions of a block does.
LEMMA TakenMeaning ==
  ASSUME NEW S, NEW b, f.list[b] \in Seq(S), define_set \subseteq S, wait_move \in Seq(S),
         define_set \cap ToSet(wait_move) = {}
  PROVE  Taken(b) \in (SUBSET S) \X Seq(S) /\ Taking(Taken(b), ToSet(f.list[b]))
<1> DEFINE s == f.list[b]
           n == Len(s)
           T == (SUBSET S) \X Seq(S)
           start == <<define_set, wait_move>>
           Eq(g) == g = [k \in 0 .. Len(f.list[b]) |->
                           IF k = 0 THEN <<define_set, wait_move>> ELSE Take(g[k - 1], f.list[b][k])]
           after == CHOOSE g : Eq(g)
           G == [q \in (1 .. n) \X T |-> Take(q[2], s[q[1]])]
<1>1. n \in Nat /\ start \in T /\ \A k \in 1 .. n : s[k] \in S
  OBVIOUS
<1>2. G \in [(1 .. n) \X T -> T]
  <2>1. ASSUME NEW q \in (1 .. n) \X T PROVE Take(q[2], s[q[1]]) \in T
    <3> DEFINE a == q[2]
               id == s[q[1]]
    <3>1. a \in T /\ id \in S /\ a[1] \in SUBSET S /\ a[2] \in Seq(S)
      BY <1>1
    <3> HIDE DEF a, id
    <3>2. Append(a[2], id) \in Seq(S)
      BY <3>1
    <3>3. Take(a, id) \in T
      BY <3>1, <3>2 DEF Take
    <3> QED BY <3>3 DEF a, id
  <2> HIDE DEF T
  <2> QED BY <2>1
<1>3. \E g \in [0 .. n -> T] : Eq(g)
  <2>1. PICK g \in [0 .. n -> T] : IsFold(g, n, G, start)
    <3> HIDE DEF T, G, n, start
    <3> QED BY <1>1, <1>2, FoldExists
  <2>2. ASSUME NEW k \in 0 .. n, k # 0 PROVE G[<<k, g[k - 1]>>] = Take(g[k - 1], s[k])
    <3>1. <<k, g[k - 1]>> \in (1 .. n) \X T
      <4>1. k \in 1 .. n /\ k - 1 \in 0 .. n
        BY <1>1, <2>2
      <4>2. g[k - 1] \in T
        <5> HIDE DEF T, n
        <5> QED BY <4>1
      <4> HIDE DEF T
      <4> QED BY <4>1, <4>2
    <3> HIDE DEF T
    <3> QED BY <3>1
  <2>3. Eq(g)
    <3> HIDE DEF G, T
    <3> QED BY <2>1, <2>2 DEF IsFold
  <2> HIDE DEF Eq, T
  <2> QED BY <2>3
<1>4. Eq(after)
  <2> HIDE DEF Eq
  <2> QED BY <1>3
<1>5. Taken(b) = after[n]
  BY DEF Taken
<1> HIDE DEF after, G
<1>6. after[0] = start /\ \A k \in 1 .. n : after[k] = Take(after[k - 1], s[k])
  <2>1. after[0] = start
    BY <1>1, <1>4
  <2>2. ASSUME NEW k \in 1 .. n PROVE after[k] = Take(after[k - 1], s[k])
    <3>1. k \in 0 .. Len(f.list[b]) /\ k # 0
      OBVIOUS
    <3> QED BY <1>4, <3>1
  <2> QED BY <2>1, <2>2
<1> DEFINE Seen(k) == {s[i] : i \in 1 .. k}
           P(k) == after[k] \in T /\ Taking(after[k], Seen(k))
           K == {k \in Nat : k <= n => P(k)}
<1> HIDE DEF Eq
<1>7. 0 \in K
  <2>1. start[1] = define_set /\ start[2] = wait_move /\ Seen(0) = {}
    OBVIOUS
  <2>2. \A C \in SUBSET define_set : Tied(C) => C \subseteq define_set
    OBVIOUS
  <2>3. Len(wait_move) \in Nat
    OBVIOUS
  <2>4. Taking(start, {})
    <3> HIDE DEF Seen, P, K, T
    <3> QED BY <2>1, <2>2, <2>3 DEF Taking
  <2>5. P(0)
    <3> HIDE DEF start, Seen, T
    <3> QED BY <1>1, <1>6, <2>1, <2>4
  <2> QED BY <2>5
<1> HIDE DEF n, start
<1>8. ASSUME NEW k \in Nat, k \in K PROVE k + 1 \in K
  <2> SUFFICES ASSUME k + 1 <= n PROVE P(k + 1)
    OBVIOUS
  <2>1. P(k) /\ k + 1 \in 1 .. n /\ (k + 1) - 1 = k
    BY <1>1, <1>8
  <2>2. after[k + 1] = Take(after[k], s[k + 1]) /\ s[k + 1] \in S
    BY <1>1, <1>6, <2>1
  <2>3. Seen(k + 1) = Seen(k) \cup {s[k + 1]}
    OBVIOUS
  <2>4. after[k] \in (SUBSET S) \X Seq(S) /\ Taking(after[k], Seen(k))
    BY <2>1
  <2> HIDE DEF Seen
  <2>5. Take(after[k], s[k + 1]) \in (SUBSET S) \X Seq(S)
        /\ Taking(Take(after[k], s[k + 1]), Seen(k) \cup {s[k + 1]})
    <3> HIDE DEF s
    <3> QED BY <2>2, <2>4, TakeStep
  <2> QED BY <2>2, <2>3, <2>5
<1>9. P(n)
  <2>1. Nat \subseteq K
    <3> HIDE DEF K
    <3> QED BY <1>7, <1>8, SetInduction
  <2>2. n \in K
    BY <1>1, <2>1
  <2> HIDE DEF P
  <2> QED BY <1>1, <2>2
<1>10. ToSet(f.list[b]) = Seen(n)
  BY DEF ToSet, n
<1> QED
  BY <1>5, <1>9, <1>10

-----------------------------------------------------------------------------
(* The move to the block before the loop.                                  *)

\* The function with other lists of instructions and other uses.
WithCode(l, u) == [bbs |-> prog.bbs, pre |-> prog.pre, succ |-> prog.succ, list |-> l, ins |-> prog.ins, uses |-> u]
InstrId == DOMAIN prog.ins
Lists == [Block -> Seq(InstrId)]
Codes == {WithCode(l, u) : l \in Lists, u \in SUBSET prog.uses}

\* The instructions that are in a block.
Ids(b) == ToSet(f.list[b])

\* An instruction is added to a list.
LEMMA AddMeaning ==
  ASSUME NEW g \in Codes, NEW b \in Block, NEW id \in InstrId
  PROVE  /\ AddInstruction(g, b, id) \in Codes
         /\ ToSet(AddInstruction(g, b, id).list[b]) = ToSet(g.list[b]) \cup {id}
         /\ \A c \in Block \ {b} : AddInstruction(g, b, id).list[c] = g.list[c]
<1>1. PICK l \in Lists, u \in SUBSET prog.uses : g = WithCode(l, u)
  BY DEF Codes
<1> DEFINE k == [l EXCEPT ![b] = Append(@, id)]
<1>2. g.list = l
  BY <1>1 DEF WithCode
<1>3. AddInstruction(g, b, id) = WithCode(k, u)
  BY <1>1 DEF AddInstruction, WithCode
<1>4. l[b] \in Seq(InstrId)
  BY DEF Lists
<1>5. Append(l[b], id) \in Seq(InstrId) /\ ToSet(Append(l[b], id)) = ToSet(l[b]) \cup {id}
  BY <1>4, AppendSet
<1>6. k \in Lists
  BY <1>5 DEF Lists
<1>7. k[b] = Append(l[b], id) /\ \A c \in Block \ {b} : k[c] = l[c]
  BY DEF Lists
<1>8. WithCode(k, u).list = k
  BY DEF WithCode
<1> HIDE DEF k
<1>9. WithCode(k, u) \in Codes
  BY <1>6 DEF Codes
<1> QED
  BY <1>2, <1>3, <1>5, <1>7, <1>8, <1>9

\* An instruction is taken off a list.
LEMMA DeleteMeaning ==
  ASSUME NEW g \in Codes, NEW b \in Block, NEW id
  PROVE  /\ DeleteInstr(g, b, id) \in Codes
         /\ ToSet(DeleteInstr(g, b, id).list[b]) = ToSet(g.list[b]) \ {id}
         /\ \A c \in Block \ {b} : DeleteInstr(g, b, id).list[c] = g.list[c]
<1>1. PICK l \in Lists, u \in SUBSET prog.uses : g = WithCode(l, u)
  BY DEF Codes
<1> DEFINE k == [l EXCEPT ![b] = Without(@, id)]
           args == g.ins[id].args
           v == {x \in u : ~(x[2] = id /\ Result(x[1]) \in ToSet(args))}
<1>2. g.list = l
  BY <1>1 DEF WithCode
<1>3. WithoutUses(g, id, args) = WithCode(l, v)
  BY <1>1 DEF WithoutUses, WithCode
<1>4. DeleteInstr(g, b, id) = WithCode(k, v)
  <2> HIDE DEF v
  <2> QED BY <1>3 DEF DeleteInstr, WithCode
<1>5. l[b] \in Seq(InstrId)
  BY DEF Lists
<1>6. Without(l[b], id) \in Seq(InstrId) /\ ToSet(Without(l[b], id)) = ToSet(l[b]) \ {id}
  BY <1>5, WithoutMeaning
<1>7. k \in Lists /\ v \in SUBSET prog.uses
  BY <1>6 DEF Lists
<1>8. k[b] = Without(l[b], id) /\ \A c \in Block \ {b} : k[c] = l[c]
  BY DEF Lists
<1>9. WithCode(k, v).list = k
  BY DEF WithCode
<1> HIDE DEF k, v
<1> QED
  BY <1>2, <1>4, <1>6, <1>7, <1>8, <1>9 DEF Codes

\* When the instructions W have moved to block prev, which has lost its branch br.
MovedTo(g, prev, br, W) ==
  /\ g \in Codes
  /\ ToSet(g.list[prev]) = (Ids(prev) \ {br}) \cup W
  /\ \A b \in Block \ {prev} : ToSet(g.list[b]) = Ids(b) \ W

\* One more instruction moves.
LEMMA MoveStep ==
  ASSUME NEW g, NEW prev \in Block, NEW br, NEW W, MovedTo(g, prev, br, W),
         NEW id \in InstrId, NEW home \in Block \ {prev}, id \in Ids(home),
         \A b, c \in Block : b # c => Ids(b) \cap Ids(c) = {}
  PROVE  MovedTo(DeleteInstr(AddInstruction(g, prev, id), home, id), prev, br, W \cup {id})
<1> DEFINE a == AddInstruction(g, prev, id)
           d == DeleteInstr(a, home, id)
<1>1. g \in Codes
  BY DEF MovedTo
<1>2. /\ a \in Codes
      /\ ToSet(a.list[prev]) = ToSet(g.list[prev]) \cup {id}
      /\ \A c \in Block \ {prev} : a.list[c] = g.list[c]
  BY <1>1, AddMeaning
<1> HIDE DEF a
<1>3. /\ d \in Codes
      /\ ToSet(d.list[home]) = ToSet(a.list[home]) \ {id}
      /\ \A c \in Block \ {home} : d.list[c] = a.list[c]
  BY <1>2, DeleteMeaning
<1> HIDE DEF d
<1>4. ToSet(d.list[prev]) = (Ids(prev) \ {br}) \cup (W \cup {id})
  BY <1>2, <1>3 DEF MovedTo
<1>5. ASSUME NEW b \in Block \ {prev} PROVE ToSet(d.list[b]) = Ids(b) \ (W \cup {id})
  <2>1. CASE b = home
    BY <1>2, <1>3, <2>1 DEF MovedTo
  <2>2. CASE b # home
    <3>1. id \notin Ids(b)
      BY <2>2
    <3> QED BY <1>2, <1>3, <2>2, <3>1 DEF MovedTo
  <2> QED BY <2>1, <2>2
<1> QED
  BY <1>3, <1>4, <1>5 DEF MovedTo, d, a

\* All that was found moves to the end of block prev, and nothing else changes
\* blocks.
LEMMA MovedMeaning ==
  ASSUME f \in Codes, NEW prev \in Block \ base2loop[inner_loop], base2loop[inner_loop] \subseteq Block,
         wait_move \in Seq(InstrId),
         \A id \in ToSet(wait_move) : \E b \in base2loop[inner_loop] : id \in Ids(b),
         \A b, c \in Block : b # c => Ids(b) \cap Ids(c) = {},
         f.list[prev] # << >>
  PROVE  /\ Moved(prev) \in Codes
         /\ ToSet(Moved(prev).list[prev]) = Ids(prev) \cup ToSet(wait_move)
         /\ \A b \in Block \ {prev} : ToSet(Moved(prev).list[b]) = Ids(b) \ ToSet(wait_move)
<1> DEFINE n == Len(wait_move)
           br == Last(f.list[prev])
           home(id) == CHOOSE b \in base2loop[inner_loop] : id \in ToSet(f.list[b])
           move(g, id) == DeleteInstr(AddInstruction(g, prev, id), home(id), id)
           start == DeleteInstr(f, prev, br)
           Eq(g) == g = [k \in 0 .. Len(wait_move) |-> IF k = 0 THEN start ELSE move(g[k - 1], wait_move[k])]
           moved == CHOOSE g : Eq(g)
           G == [q \in (1 .. n) \X Codes |-> move(q[2], wait_move[q[1]])]
<1>1. n \in Nat /\ \A k \in 1 .. n : wait_move[k] \in InstrId /\ wait_move[k] \in ToSet(wait_move)
  BY DEF ToSet
<1>2. \A k \in 1 .. n : home(wait_move[k]) \in Block \ {prev} /\ wait_move[k] \in Ids(home(wait_move[k]))
  <2> SUFFICES ASSUME NEW k \in 1 .. n
               PROVE  home(wait_move[k]) \in Block \ {prev} /\ wait_move[k] \in Ids(home(wait_move[k]))
    OBVIOUS
  <2>1. \E b \in base2loop[inner_loop] : wait_move[k] \in ToSet(f.list[b])
    BY <1>1 DEF Ids
  <2>2. home(wait_move[k]) \in base2loop[inner_loop] /\ wait_move[k] \in ToSet(f.list[home(wait_move[k])])
    BY <2>1
  <2> HIDE DEF home
  <2> QED BY <2>2 DEF Ids
<1>3. f.list \in Lists
  BY DEF Codes, WithCode
<1>4. br \in Ids(prev) /\ br \in InstrId
  <2>1. f.list[prev] \in Seq(InstrId)
    BY <1>3 DEF Lists
  <2>2. Len(f.list[prev]) \in 1 .. Len(f.list[prev])
    BY <2>1
  <2> QED BY <2>1, <2>2 DEF Last, Ids, ToSet
<1>5. start \in Codes /\ MovedTo(start, prev, br, {})
  <2> HIDE DEF br
  <2> QED BY <1>4, DeleteMeaning DEF MovedTo, Ids
<1> HIDE DEF home, br, start
<1>6. ASSUME NEW g \in Codes, NEW k \in 1 .. n PROVE move(g, wait_move[k]) \in Codes
  <2>1. AddInstruction(g, prev, wait_move[k]) \in Codes
    BY <1>1, AddMeaning
  <2> QED BY <1>2, <2>1, DeleteMeaning
<1>7. G \in [(1 .. n) \X Codes -> Codes]
  <2>1. ASSUME NEW q \in (1 .. n) \X Codes PROVE move(q[2], wait_move[q[1]]) \in Codes
    <3>1. q[1] \in 1 .. n /\ q[2] \in Codes
      OBVIOUS
    <3> HIDE DEF move, n
    <3> QED BY <1>6, <3>1
  <2> HIDE DEF move
  <2> QED BY <2>1
<1>8. \E g \in [0 .. n -> Codes] : Eq(g)
  <2>1. PICK g \in [0 .. n -> Codes] : IsFold(g, n, G, start)
    <3> HIDE DEF G, n
    <3> QED BY <1>1, <1>5, <1>7, FoldExists
  <2>2. ASSUME NEW k \in 0 .. n, k # 0 PROVE G[<<k, g[k - 1]>>] = move(g[k - 1], wait_move[k])
    <3>1. k \in 1 .. n /\ k - 1 \in 0 .. n
      BY <1>1, <2>2
    <3>2. g[k - 1] \in Codes
      <4> HIDE DEF n
      <4> QED BY <3>1
    <3>3. <<k, g[k - 1]>> \in (1 .. n) \X Codes
      BY <3>1, <3>2
    <3> HIDE DEF move
    <3> QED BY <3>3
  <2>3. Eq(g)
    <3> HIDE DEF G, move
    <3> QED BY <2>1, <2>2 DEF IsFold
  <2> HIDE DEF Eq
  <2> QED BY <2>3
<1>9. Eq(moved)
  <2> HIDE DEF Eq
  <2> QED BY <1>8
<1>10. Moved(prev) = AddInstruction(moved[n], prev, br)
  BY DEF Moved, MovedFrom, br, home, start
<1> HIDE DEF moved, G
<1>11. moved[0] = start /\ \A k \in 1 .. n : moved[k] = move(moved[k - 1], wait_move[k])
  <2> HIDE DEF move
  <2>1. moved[0] = start
    BY <1>1, <1>9
  <2>2. ASSUME NEW k \in 1 .. n PROVE moved[k] = move(moved[k - 1], wait_move[k])
    <3>1. k \in 0 .. Len(wait_move) /\ k # 0
      OBVIOUS
    <3> QED BY <1>9, <3>1
  <2> QED BY <2>1, <2>2
<1> HIDE DEF Eq
<1> DEFINE Q(k) == {wait_move[i] : i \in 1 .. k}
           P(k) == MovedTo(moved[k], prev, br, Q(k))
           K == {k \in Nat : k <= n => P(k)}
<1>12. 0 \in K
  <2>1. Q(0) = {}
    OBVIOUS
  <2> HIDE DEF Q
  <2>2. P(0)
    BY <1>5, <1>11, <2>1
  <2> QED BY <2>2
<1> HIDE DEF n
<1>13. ASSUME NEW k \in Nat, k \in K PROVE k + 1 \in K
  <2> SUFFICES ASSUME k + 1 <= n PROVE P(k + 1)
    OBVIOUS
  <2>1. P(k) /\ k + 1 \in 1 .. n /\ (k + 1) - 1 = k
    BY <1>1, <1>13
  <2>2. moved[k + 1] = move(moved[k], wait_move[k + 1])
    <3> HIDE DEF move
    <3> QED BY <1>11, <2>1
  <2>3. Q(k + 1) = Q(k) \cup {wait_move[k + 1]}
    OBVIOUS
  <2> HIDE DEF Q
  <2>4. /\ wait_move[k + 1] \in InstrId
        /\ home(wait_move[k + 1]) \in Block \ {prev} /\ wait_move[k + 1] \in Ids(home(wait_move[k + 1]))
    BY <1>1, <1>2, <2>1
  <2>5. MovedTo(moved[k + 1], prev, br, Q(k) \cup {wait_move[k + 1]})
    BY <2>1, <2>2, <2>4, MoveStep
  <2> QED BY <2>3, <2>5
<1>14. MovedTo(moved[n], prev, br, ToSet(wait_move))
  <2>1. Nat \subseteq K
    <3> HIDE DEF K
    <3> QED BY <1>12, <1>13, SetInduction
  <2>2. n \in K
    BY <1>1, <2>1
  <2>3. ToSet(wait_move) = Q(n)
    BY DEF ToSet, n
  <2> HIDE DEF Q
  <2> QED BY <1>1, <2>2, <2>3
<1>15. /\ AddInstruction(moved[n], prev, br) \in Codes
       /\ ToSet(AddInstruction(moved[n], prev, br).list[prev]) = ToSet(moved[n].list[prev]) \cup {br}
       /\ \A c \in Block \ {prev} : AddInstruction(moved[n], prev, br).list[c] = moved[n].list[c]
  <2> DEFINE m == moved[n]
  <2>1. m \in Codes /\ prev \in Block
    BY <1>14 DEF MovedTo
  <2> HIDE DEF m
  <2>2. /\ AddInstruction(m, prev, br) \in Codes
        /\ ToSet(AddInstruction(m, prev, br).list[prev]) = ToSet(m.list[prev]) \cup {br}
        /\ \A c \in Block \ {prev} : AddInstruction(m, prev, br).list[c] = m.list[c]
    BY <1>4, <2>1, AddMeaning
  <2> QED BY <2>2 DEF m
<1> QED
  BY <1>4, <1>10, <1>14, <1>15 DEF MovedTo

-----------------------------------------------------------------------------
(* The loops that are done.                                                *)

\* What the hoisting takes for granted: every instruction is in one block, and a
\* block that leads somewhere ends with a branch.
WellBuilt ==
  /\ prog.list \in Lists
  /\ \A b, c \in Block : b # c => ToSet(prog.list[b]) \cap ToSet(prog.list[c]) = {}
  /\ \A b \in Block : Graph(prog)[b] # {} => prog.list[b] # << >> /\ prog.ins[Last(prog.list[b])].op \in Fixed

Hoistable == Searchable /\ WellBuilt /\ Preheaded

\* The definitions in the loop of h.
Defs(h) == UNION {Ids(b) : b \in Loop(h)}

\* Every instruction is in one block, and those that are never moved where they
\* were.
CodeOK ==
  /\ f \in Codes
  /\ \A b, c \in Block : b # c => Ids(b) \cap Ids(c) = {}
  /\ \A b \in Block : \A id \in ToSet(prog.list[b]) : prog.ins[id].op \in Fixed => id \in Ids(b)

\* The loops still to be done, the one at hand among them, and the others.
Pending == loops_in_func \cup IF pc \in {"collect", "begin"} THEN {inner_loop} ELSE {}
Done == Headers \ Pending

\* Of the loop at hand: what is found is defined in it and in no loop inside it
\* that is done, and the blocks seen in a round that found nothing have nothing
\* to be found.
CollectOK ==
  /\ left \subseteq Loop(inner_loop)
  /\ wait_move \in Seq(InstrId) /\ ToSet(wait_move) \subseteq Defs(inner_loop)
  /\ define_set = Defs(inner_loop) \ ToSet(wait_move)
  /\ \A id \in ToSet(wait_move) : prog.ins[id].op \notin Fixed
  /\ \A g \in Done : Loop(g) \subseteq Loop(inner_loop) => Defs(g) \subseteq define_set
  /\ ~changed => \A b \in Loop(inner_loop) \ left : \A id \in Ids(b) \cap define_set : ~Invariant(id, define_set)

\* In a loop that is done everything depends on it.
HoistInv ==
  /\ CodeOK /\ loops_in_func \subseteq Headers
  /\ \A h \in Done : Tied(Defs(h))
  /\ pc \in {"collect", "begin"} => inner_loop \in Headers
  /\ pc = "collect" => CollectOK
  /\ pc = "run" => loops_in_func = {}

Hoisting == {"pick", "collect", "begin", "run"}

HoistedInv ==
  /\ prog = WithCode(prog.list, prog.uses)
  /\ pc \notin Hoisting => f = prog
  /\ pc \in Hoisting /\ Hoistable => HoistInv

\* After the search the loops are those of the graph.
LoopsKnown == reserved = Headers /\ base2loop = [h \in Headers |-> Loop(h)]

\* The hoisting leaves the function's blocks and its loops alone.
LEMMA HoistKeeps ==
  ASSUME UNCHANGED_search
  PROVE  /\ prog' = prog /\ base2loop' = base2loop
         /\ Headers' = Headers /\ \A h : Loop(h)' = Loop(h)
         /\ (Hoistable' <=> Hoistable) /\ Lists' = Lists /\ Codes' = Codes /\ InstrId' = InstrId
<1>1. prog' = prog /\ base2loop' = base2loop
  BY DEF UNCHANGED_search, found
<1>2. (WellBuilt' <=> WellBuilt) /\ Lists' = Lists /\ Codes' = Codes /\ InstrId' = InstrId
  BY <1>1 DEF WellBuilt, Lists, InstrId, Codes, WithCode
<1>3. Preheaded' <=> Preheaded
  BY <1>1 DEF Preheaded
<1> QED
  BY <1>1, <1>2, <1>3, SameLoops DEF Hoistable

\* A loop that is inside another has no definition that the other has not.
LEMMA DefsInside ==
  ASSUME NEW g, NEW h, Loop(g) \subseteq Loop(h)
  PROVE  Defs(g) \subseteq Defs(h)
BY DEF Defs

\* While the function is as it was, so are the definitions of the loops.
LEMMA SameDefs ==
  ASSUME f' = f, prog' = prog
  PROVE  /\ \A h : Defs(h)' = Defs(h) /\ (Tied(Defs(h))' <=> Tied(Defs(h)))
         /\ \A b : Ids(b)' = Ids(b)
         /\ CodeOK' <=> CodeOK
<1>1. \A b : Ids(b)' = Ids(b)
  BY DEF Ids
<1>2. \A h : Defs(h)' = Defs(h)
  BY <1>1, SameLoops DEF Defs
<1>3. \A h : Tied(Defs(h))' <=> Tied(Defs(h))
  BY <1>2 DEF Tied, Invariant
<1>4. CodeOK' <=> CodeOK
  BY <1>1 DEF CodeOK, Codes, Lists, InstrId, WithCode
<1> QED
  BY <1>1, <1>2, <1>3, <1>4

\* The hoisting begins with the function as it was, and no loop done.
LEMMA HoistBegins ==
  ASSUME LoopsKnown, HoistedInv, Hoistable, CollectLoops
  PROVE  HoistInv'
<1>1. /\ pc = "found" /\ pc' = "pick" /\ f' = f /\ loops_in_func' = DOMAIN base2loop /\ UNCHANGED_search
  BY DEF CollectLoops
<1>2. f = prog /\ prog = WithCode(prog.list, prog.uses)
  BY <1>1 DEF HoistedInv, Hoisting
<1>3. CodeOK
  <2>1. prog.list \in Lists /\ prog.uses \in SUBSET prog.uses
    BY DEF Hoistable, WellBuilt
  <2>2. f \in Codes
    BY <1>2, <2>1 DEF Codes
  <2> QED BY <1>2, <2>2 DEF CodeOK, Ids, Hoistable, WellBuilt
<1>4. CodeOK'
  BY <1>1, <1>3, HoistKeeps, SameDefs
<1>5. loops_in_func' = Headers'
  BY <1>1, HoistKeeps DEF LoopsKnown
<1>6. Done' = {}
  BY <1>5 DEF Done, Pending
<1> QED
  BY <1>1, <1>4, <1>5, <1>6 DEF HoistInv

\* A loop begins.
LEMMA LoopBegins ==
  ASSUME LoopsKnown, HoistInv, NEW base \in Headers, BeginLoop(base), pc' = "collect",
         f' = f, UNCHANGED_search, loops_in_func' = loops_in_func, Pending' = Pending
  PROVE  HoistInv'
<1>1. /\ inner_loop' = base /\ define_set' = UNION {ToSet(f.list[b]) : b \in base2loop[base]}
      /\ wait_move' = << >> /\ left' = base2loop[base] /\ changed' = FALSE
  BY DEF BeginLoop
<1>2. /\ Headers' = Headers /\ \A h : Loop(h)' = Loop(h) /\ Defs(h)' = Defs(h) /\ (Tied(Defs(h))' <=> Tied(Defs(h)))
  BY HoistKeeps, SameDefs
<1>3. CodeOK'
  BY HoistKeeps, SameDefs DEF HoistInv
<1>4. Done' = Done
  BY <1>2 DEF Done
<1>5. base2loop[base] = Loop(base)
  BY DEF LoopsKnown
<1>6. define_set' = Defs(base)
  BY <1>1, <1>5 DEF Defs, Ids
<1>7. ToSet(wait_move') = {} /\ wait_move' \in Seq(InstrId')
  BY <1>1 DEF ToSet
<1>8. ASSUME NEW g \in Done', Loop(g)' \subseteq Loop(inner_loop)' PROVE Defs(g)' \subseteq define_set'
  BY <1>1, <1>2, <1>6, <1>8, DefsInside
<1>9. Loop(inner_loop)' = Loop(base) /\ Defs(inner_loop)' = Defs(base)
  BY <1>1, <1>2 DEF Loop, Defs, Ids
<1>10. CollectOK'
  BY <1>1, <1>5, <1>6, <1>7, <1>8, <1>9 DEF CollectOK
<1> QED
  BY <1>1, <1>2, <1>3, <1>4, <1>10 DEF HoistInv

-----------------------------------------------------------------------------
(* The rounds.                                                             *)

\* The loops are blocks of the function, and what is in the blocks instructions.
LEMMA CodeFacts ==
  ASSUME CodeOK
  PROVE  /\ f \in Codes /\ f.ins = prog.ins /\ f.pre = prog.pre /\ f.list \in Lists
         /\ \A h : Loop(h) \subseteq Block /\ Defs(h) \subseteq InstrId
         /\ \A b \in Block : f.list[b] \in Seq(InstrId) /\ Ids(b) \subseteq InstrId
<1>1. PICK l \in Lists, u \in SUBSET prog.uses : f = WithCode(l, u)
  BY DEF CodeOK, Codes
<1>2. f.ins = prog.ins /\ f.pre = prog.pre /\ f.list = l
  BY <1>1 DEF WithCode
<1>3. \A b \in Block : f.list[b] \in Seq(InstrId)
  BY <1>2 DEF Lists
<1>4. \A b \in Block : Ids(b) \subseteq InstrId
  BY <1>3 DEF Ids, ToSet
<1>5. \A h : Loop(h) \subseteq Block
  BY DEF Loop, LoopOf, Below
<1>6. \A h : Defs(h) \subseteq InstrId
  BY <1>4, <1>5 DEF Defs
<1> QED
  BY <1>2, <1>3, <1>4, <1>5, <1>6 DEF CodeOK

\* A block is visited in a round.
LEMMA BlockCollected ==
  ASSUME HoistInv, CollectInBlock
  PROVE  HoistInv'
<1> DEFINE h == inner_loop
<1>1. PICK b \in left : /\ define_set' = Taken(b)[1] /\ wait_move' = Taken(b)[2]
                        /\ changed' = (changed \/ Taken(b)[2] # wait_move) /\ left' = left \ {b}
  BY DEF CollectInBlock
<1>2. /\ pc = "collect" /\ pc' = "collect" /\ f' = f /\ loops_in_func' = loops_in_func
      /\ inner_loop' = inner_loop /\ UNCHANGED_search
  BY DEF CollectInBlock
<1>3. /\ CodeOK /\ CollectOK /\ h \in Headers /\ loops_in_func \subseteq Headers
      /\ \A g \in Done : Tied(Defs(g))
  BY <1>2 DEF HoistInv
<1>4. /\ f.ins = prog.ins /\ Loop(h) \subseteq Block /\ Defs(h) \subseteq InstrId
      /\ \A c \in Block : f.list[c] \in Seq(InstrId)
  BY <1>3, CodeFacts
<1>5. /\ b \in Loop(h) /\ wait_move \in Seq(InstrId) /\ ToSet(wait_move) \subseteq Defs(h)
      /\ define_set = Defs(h) \ ToSet(wait_move)
  BY <1>3 DEF CollectOK
<1> DEFINE D == Taken(b)[1]
           W == Taken(b)[2]
<1>6. Taken(b) \in (SUBSET InstrId) \X Seq(InstrId) /\ Taking(Taken(b), ToSet(f.list[b]))
  <2>1. f.list[b] \in Seq(InstrId) /\ define_set \subseteq InstrId /\ define_set \cap ToSet(wait_move) = {}
    BY <1>4, <1>5
  <2> QED BY <1>5, <2>1, TakenMeaning
<1>7. /\ D \in SUBSET InstrId /\ W \in Seq(InstrId)
      /\ ToSet(wait_move) \subseteq ToSet(W) /\ ToSet(W) \subseteq ToSet(wait_move) \cup define_set
      /\ D = define_set \ ToSet(W)
      /\ \A id \in ToSet(W) \ ToSet(wait_move) : f.ins[id].op \notin Fixed
      /\ \A C \in SUBSET define_set : Tied(C) => C \subseteq D
  BY <1>6 DEF Taking
<1>8. W = wait_move => D = define_set /\ \A id \in Ids(b) \cap define_set : ~Invariant(id, define_set)
  BY <1>6 DEF Taking, Ids
<1> HIDE DEF D, W
<1>9. ToSet(W) \subseteq Defs(h) /\ D = Defs(h) \ ToSet(W)
  BY <1>5, <1>7
<1>10. \A id \in ToSet(W) : prog.ins[id].op \notin Fixed
  BY <1>3, <1>4, <1>7 DEF CollectOK
<1>11. \A g \in Done : Loop(g) \subseteq Loop(h) => Defs(g) \subseteq D
  BY <1>3, <1>7 DEF CollectOK
<1>12. ASSUME ~changed', NEW c \in Loop(h) \ left', NEW id \in Ids(c) \cap D PROVE ~Invariant(id, D)
  <2>1. ~changed /\ W = wait_move /\ D = define_set
    BY <1>1, <1>8, <1>12 DEF W
  <2>2. CASE c = b
    BY <1>8, <1>12, <2>1, <2>2
  <2>3. CASE c # b
    <3>1. c \in Loop(h) \ left
      BY <1>1, <1>12, <2>3
    <3> QED BY <1>3, <1>12, <2>1, <3>1 DEF CollectOK
  <2> QED BY <2>2, <2>3
<1>13. /\ Headers' = Headers /\ \A g : Loop(g)' = Loop(g) /\ Defs(g)' = Defs(g) /\ (Tied(Defs(g))' <=> Tied(Defs(g)))
       /\ InstrId' = InstrId /\ prog' = prog /\ \A c : Ids(c)' = Ids(c)
  BY <1>2, HoistKeeps, SameDefs
<1>14. Done' = Done
  BY <1>2, <1>13 DEF Done, Pending
<1>15. CodeOK'
  BY <1>2, <1>3, <1>13, SameDefs
<1>16. Loop(inner_loop)' = Loop(h) /\ Defs(inner_loop)' = Defs(h)
  BY <1>2, <1>13 DEF Loop, Defs, Ids
<1>17. define_set' = D /\ wait_move' = W /\ left' \subseteq Loop(h)
  BY <1>1, <1>3 DEF D, W, CollectOK
<1>18. ASSUME NEW g \in Done', Loop(g)' \subseteq Loop(inner_loop)' PROVE Defs(g)' \subseteq define_set'
  BY <1>11, <1>13, <1>14, <1>16, <1>17, <1>18
<1>19. ASSUME ~changed', NEW c \in Loop(inner_loop)' \ left', NEW id \in Ids(c)' \cap define_set'
       PROVE  ~Invariant(id, define_set)'
  <2>1. ~Invariant(id, D)
    BY <1>12, <1>13, <1>16, <1>17, <1>19
  <2> QED BY <1>2, <1>17, <2>1 DEF Invariant
<1>20. CollectOK'
  BY <1>7, <1>9, <1>10, <1>13, <1>16, <1>17, <1>18, <1>19 DEF CollectOK
<1> QED
  BY <1>2, <1>3, <1>13, <1>14, <1>15, <1>20 DEF HoistInv

\* Another round.
LEMMA RoundAgain ==
  ASSUME LoopsKnown, HoistInv, CollectAgain
  PROVE  HoistInv'
<1>1. /\ pc = "collect" /\ pc' = "collect" /\ f' = f /\ loops_in_func' = loops_in_func
      /\ inner_loop' = inner_loop /\ left' = base2loop[inner_loop] /\ changed' = FALSE
      /\ define_set' = define_set /\ wait_move' = wait_move /\ UNCHANGED_search
  BY DEF CollectAgain
<1>2. /\ CodeOK /\ CollectOK /\ inner_loop \in Headers /\ loops_in_func \subseteq Headers
      /\ \A g \in Done : Tied(Defs(g))
  BY <1>1 DEF HoistInv
<1>3. /\ Headers' = Headers /\ \A g : Loop(g)' = Loop(g) /\ Defs(g)' = Defs(g) /\ (Tied(Defs(g))' <=> Tied(Defs(g)))
      /\ InstrId' = InstrId /\ prog' = prog
  BY <1>1, HoistKeeps, SameDefs
<1>4. Done' = Done
  BY <1>1, <1>3 DEF Done, Pending
<1>5. CodeOK'
  BY <1>1, <1>2, SameDefs, HoistKeeps
<1>6. Loop(inner_loop)' = Loop(inner_loop) /\ Defs(inner_loop)' = Defs(inner_loop)
  BY <1>1, <1>3 DEF Loop, Defs, Ids
<1>7. left' = Loop(inner_loop)
  BY <1>1, <1>2 DEF LoopsKnown
<1>8. ASSUME NEW g \in Done', Loop(g)' \subseteq Loop(inner_loop)' PROVE Defs(g)' \subseteq define_set'
  BY <1>1, <1>2, <1>3, <1>4, <1>6, <1>8 DEF CollectOK
<1>9. CollectOK'
  BY <1>1, <1>2, <1>3, <1>6, <1>7, <1>8 DEF CollectOK
<1> QED
  BY <1>1, <1>2, <1>3, <1>4, <1>5, <1>9 DEF HoistInv

-----------------------------------------------------------------------------
(* A loop is left.                                                         *)

\* The block before the loop is where the instructions go; it is in the loops
\* around and in no other.
LEMMA MovedBefore ==
  ASSUME GraphTyped, Hoistable, LoopsKnown, HoistInv, pc = "collect"
  PROVE  \E p \in Block \ Loop(inner_loop) :
           /\ Outside # {} /\ f.pre[inner_loop][Min(Outside)] = p
           /\ \A g \in Headers : p \in Loop(g) <=> inner_loop \in Loop(g) /\ g # inner_loop
           /\ Moved(p) \in Codes
           /\ ToSet(Moved(p).list[p]) = Ids(p) \cup ToSet(wait_move)
           /\ \A b \in Block \ {p} : ToSet(Moved(p).list[b]) = Ids(b) \ ToSet(wait_move)
<1> DEFINE h == inner_loop
<1>1. /\ CodeOK /\ h \in Headers /\ wait_move \in Seq(InstrId) /\ ToSet(wait_move) \subseteq Defs(h)
  BY DEF HoistInv, CollectOK
<1>2. /\ f \in Codes /\ f.pre = prog.pre /\ Loop(h) \subseteq Block
      /\ \A b \in Block : f.list[b] \in Seq(InstrId)
  BY <1>1, CodeFacts
<1>3. AllReached /\ WellBuilt /\ Preheaded /\ base2loop = [x \in Headers |-> Loop(x)]
  BY DEF Hoistable, Searchable, LoopsKnown
<1>4. PICK p \in Block \ Loop(h) : ToSet(prog.pre[h]) \subseteq Loop(h) \cup {p} /\ Graph(prog)[p] = {h}
  BY <1>1, <1>3 DEF Preheaded
<1>5. /\ Outsiders(prog, h) # {} /\ prog.pre[h][Min(Outsiders(prog, h))] = p
      /\ \A g \in Headers : p \in Loop(g) <=> h \in Loop(g) /\ g # h
  BY <1>1, <1>3, <1>4, PreheaderFirst
<1>6. Outside = Outsiders(prog, h)
  BY <1>2 DEF Outside, Outsiders
<1>7. f.list[p] # << >>
  <2>1. prog.list[p] # << >> /\ prog.ins[Last(prog.list[p])].op \in Fixed /\ prog.list[p] \in Seq(InstrId)
    BY <1>3, <1>4 DEF WellBuilt, Lists
  <2>2. Last(prog.list[p]) \in ToSet(prog.list[p])
    BY <2>1 DEF Last, ToSet
  <2>3. Last(prog.list[p]) \in Ids(p)
    BY <1>1, <2>1, <2>2 DEF CodeOK
  <2> QED BY <2>3 DEF Ids, ToSet
<1>8. base2loop[h] = Loop(h)
  BY <1>1, <1>3
<1>9. \A id \in ToSet(wait_move) : \E b \in base2loop[h] : id \in Ids(b)
  BY <1>1, <1>8 DEF Defs
<1>10. \A b, c \in Block : b # c => Ids(b) \cap Ids(c) = {}
  BY <1>1 DEF CodeOK
<1>11. /\ Moved(p) \in Codes
       /\ ToSet(Moved(p).list[p]) = Ids(p) \cup ToSet(wait_move)
       /\ \A b \in Block \ {p} : ToSet(Moved(p).list[b]) = Ids(b) \ ToSet(wait_move)
  <2>1. p \in Block \ base2loop[h] /\ base2loop[h] \subseteq Block
    BY <1>2, <1>8
  <2> QED BY <1>1, <1>2, <1>7, <1>9, <1>10, <2>1, MovedMeaning
<1> QED
  BY <1>2, <1>5, <1>6, <1>11

\* In the loops that were done the definitions stay as they were.
LEMMA DefsAfterMove ==
  ASSUME GraphTyped, CodeOK, CollectOK, inner_loop \in Headers, inner_loop \in Pending,
         NEW p \in Block \ Loop(inner_loop),
         \A g \in Headers : p \in Loop(g) <=> inner_loop \in Loop(g) /\ g # inner_loop,
         NEW ids, ids[p] = Ids(p) \cup ToSet(wait_move),
         \A b \in Block \ {p} : ids[b] = Ids(b) \ ToSet(wait_move)
  PROVE  /\ UNION {ids[b] : b \in Loop(inner_loop)} = define_set
         /\ \A g \in Done : UNION {ids[b] : b \in Loop(g)} = Defs(g)
<1> DEFINE h == inner_loop
           W == ToSet(wait_move)
<1>1. /\ W \subseteq Defs(h) /\ define_set = Defs(h) \ W
      /\ \A g \in Done : Loop(g) \subseteq Loop(h) => Defs(g) \subseteq define_set
  BY DEF CollectOK
<1>2. \A g : Loop(g) \subseteq Block
  BY CodeFacts
<1> HIDE DEF W
<1>3. \A b \in Loop(h) : ids[b] = Ids(b) \ W
  BY <1>2 DEF W
<1>4. UNION {ids[b] : b \in Loop(h)} = define_set
  <2>1. UNION {ids[b] : b \in Loop(h)} = Defs(h) \ W
    BY <1>3 DEF Defs
  <2> QED BY <1>1, <2>1
<1>5. ASSUME NEW g \in Done PROVE UNION {ids[b] : b \in Loop(g)} = Defs(g)
  <2>1. g \in Headers /\ g # h /\ g \in Block /\ h \in Block
    BY <1>5 DEF Done, Headers
  <2>2. CASE p \in Loop(g)
    <3>1. h \in Loop(g) /\ h \in Loop(h)
      BY <2>1, <2>2, HeaderFacts
    <3>2. \/ g \in Loop(h) /\ Loop(g) \subseteq Loop(h)
          \/ h \in Loop(g) /\ Loop(h) \subseteq Loop(g)
      BY <2>1, <3>1, LoopsNested DEF Loop, GraphTyped
    <3>3. Loop(h) \subseteq Loop(g)
      BY <2>2, <3>2
    <3>4. W \subseteq Defs(g)
      BY <1>1, <3>3, DefsInside
    <3>5. ids[p] = Ids(p) \cup W /\ \A b \in Loop(g) \ {p} : ids[b] = Ids(b) \ W
      BY <1>2 DEF W
    <3>6. \A id \in Defs(g) : \E b \in Loop(g) : id \in ids[b]
      BY <2>2, <3>5 DEF Defs
    <3>7. \A b \in Loop(g) : ids[b] \subseteq Defs(g)
      BY <2>2, <3>4, <3>5 DEF Defs
    <3> QED BY <3>6, <3>7
  <2>3. CASE p \notin Loop(g)
    <3>1. \A b \in Loop(g) : ids[b] = Ids(b) \ W
      BY <1>2, <2>3 DEF W
    <3>2. UNION {ids[b] : b \in Loop(g)} = Defs(g) \ W
      BY <3>1 DEF Defs
    <3>3. W \cap Defs(g) = {}
      <4>1. CASE Loop(g) \subseteq Loop(h)
        BY <1>1, <1>5, <4>1
      <4>2. CASE ~(Loop(g) \subseteq Loop(h))
        <5>1. ASSUME NEW b \in Loop(h) \cap Loop(g) PROVE FALSE
          <6>1. \/ g \in Loop(h) /\ Loop(g) \subseteq Loop(h)
                \/ h \in Loop(g) /\ Loop(h) \subseteq Loop(g)
            BY <2>1, <5>1, LoopsNested DEF Loop, GraphTyped
          <6> QED BY <2>1, <2>3, <4>2, <6>1
        <5>2. \A b \in Loop(h), c \in Loop(g) : Ids(b) \cap Ids(c) = {}
          BY <1>2, <5>1 DEF CodeOK
        <5>3. Defs(h) \cap Defs(g) = {}
          BY <5>2 DEF Defs
        <5> QED BY <1>1, <5>3
      <4> QED BY <4>1, <4>2
    <3> QED BY <3>2, <3>3
  <2> QED BY <2>2, <2>3
<1> QED
  BY <1>4, <1>5

\* The loop is left: it is done, and those done before stay so.
LEMMA LoopLeft ==
  ASSUME GraphTyped, Hoistable, LoopsKnown, Recorded, HoistInv, MoveOut
  PROVE  HoistInv'
<1> PICK h \in {inner_loop} : TRUE
  OBVIOUS
<1> DEFINE parent == get_parent_loop(h)
<1>1. /\ pc = "collect" /\ left = {} /\ ~changed /\ UNCHANGED_search /\ GoTo(parent)
      /\ f' = IF Outside = {} THEN f ELSE Moved(f.pre[h][Min(Outside)])
  BY DEF MoveOut
<1>2. /\ CodeOK /\ CollectOK /\ h \in Headers /\ loops_in_func \subseteq Headers
      /\ \A g \in Done : Tied(Defs(g))
  BY <1>1 DEF HoistInv
<1>3. PICK p \in Block \ Loop(h) :
           /\ Outside # {} /\ f.pre[h][Min(Outside)] = p
           /\ \A g \in Headers : p \in Loop(g) <=> h \in Loop(g) /\ g # h
           /\ Moved(p) \in Codes
           /\ ToSet(Moved(p).list[p]) = Ids(p) \cup ToSet(wait_move)
           /\ \A b \in Block \ {p} : ToSet(Moved(p).list[b]) = Ids(b) \ ToSet(wait_move)
  BY <1>1, MovedBefore
<1>4. f' = Moved(p)
  BY <1>1, <1>3
<1>5. /\ Headers' = Headers /\ Codes' = Codes /\ prog' = prog /\ base2loop' = base2loop
      /\ \A g : Loop(g)' = Loop(g)
  BY <1>1, HoistKeeps
<1> DEFINE ids == [b \in Block |-> ToSet(Moved(p).list[b])]
<1>6. \A b \in Block : Ids(b)' = ids[b]
  BY <1>4 DEF Ids
<1>7. /\ ids[p] = Ids(p) \cup ToSet(wait_move)
      /\ \A b \in Block \ {p} : ids[b] = Ids(b) \ ToSet(wait_move)
  BY <1>3
<1>8. \A g : Defs(g)' = UNION {ids[b] : b \in Loop(g)}
  <2>1. \A g : Loop(g) \subseteq Block
    BY <1>2, CodeFacts
  <2> HIDE DEF ids
  <2> QED BY <1>5, <1>6, <2>1 DEF Defs
<1> HIDE DEF ids
<1>9. h \in Pending
  BY <1>1 DEF Pending
<1>10. Defs(h)' = define_set /\ \A g \in Done : Defs(g)' = Defs(g)
  <2>1. /\ UNION {ids[b] : b \in Loop(h)} = define_set
        /\ \A g \in Done : UNION {ids[b] : b \in Loop(g)} = Defs(g)
    BY <1>2, <1>3, <1>7, <1>9, DefsAfterMove
  <2> QED BY <1>8, <2>1
<1>11. f'.ins = f.ins
  <2>1. f.ins = prog.ins
    BY <1>2, CodeFacts
  <2>2. f'.ins = prog.ins
    BY <1>3, <1>4 DEF Codes, WithCode
  <2> QED BY <2>1, <2>2
<1>12. Tied(define_set)
  <2>1. ASSUME NEW id \in define_set PROVE ~Invariant(id, define_set)
    <3>1. id \in Defs(h)
      BY <1>2, <2>1 DEF CollectOK
    <3>2. PICK b \in Loop(h) : id \in Ids(b)
      BY <3>1 DEF Defs
    <3> QED BY <1>1, <1>2, <2>1, <3>2 DEF CollectOK
  <2> QED BY <2>1 DEF Tied
<1>13. Tied(Defs(h))'
  BY <1>10, <1>11, <1>12 DEF Tied, Invariant
<1>14. ASSUME NEW g \in Done PROVE Tied(Defs(g))'
  <2>1. Tied(Defs(g)) /\ Defs(g)' = Defs(g)
    BY <1>2, <1>10
  <2> QED BY <1>11, <2>1 DEF Tied, Invariant
<1>15. Done' \subseteq Done \cup {h}
  <2>1. loops_in_func' = loops_in_func \ {h}
    BY <1>1 DEF GoTo
  <2>2. Pending = loops_in_func \cup {h}
    BY <1>1 DEF Pending
  <2>3. loops_in_func \ {h} \subseteq Pending'
    BY <2>1 DEF Pending
  <2>4. Done' = Headers \ Pending' /\ Done = Headers \ Pending
    BY <1>5 DEF Done
  <2> QED BY <2>2, <2>3, <2>4
<1>16. \A g \in Done' : Tied(Defs(g))'
  BY <1>13, <1>14, <1>15
<1>17. CodeOK'
  <2>1. f' \in Codes'
    BY <1>3, <1>4, <1>5
  <2> DEFINE W == ToSet(wait_move)
  <2>2. W \subseteq Defs(h) /\ \A id \in W : prog.ins[id].op \notin Fixed
    BY <1>2 DEF CollectOK
  <2> HIDE DEF W
  <2>3. ids[p] = Ids(p) \cup W /\ \A b \in Block \ {p} : ids[b] = Ids(b) \ W
    BY <1>7 DEF W
  <2>4. \A b, c \in Block : b # c => ids[b] \cap ids[c] = {}
    <3>1. \A b, c \in Block : b # c => Ids(b) \cap Ids(c) = {}
      BY <1>2 DEF CodeOK
    <3> QED BY <2>3, <3>1
  <2>5. \A b \in Block : \A id \in ToSet(prog.list[b]) : prog.ins[id].op \in Fixed => id \in ids[b]
    BY <1>2, <2>2, <2>3 DEF CodeOK
  <2> QED BY <1>5, <1>6, <2>1, <2>4, <2>5 DEF CodeOK
<1>18. /\ loops_in_func' \subseteq Headers /\ pc' \in {"pick", "begin"}
       /\ pc' = "begin" => inner_loop' = parent /\ parent # Null
  <2> HIDE DEF parent
  <2> QED BY <1>1, <1>2 DEF GoTo
<1>19. pc' = "begin" => inner_loop' \in Headers
  <2>1. reserved = Headers /\ AllReached
    BY DEF LoopsKnown, Hoistable, Searchable
  <2>2. parent # Null => parent \in Headers
    BY <1>2, <2>1, ParentAround
  <2> HIDE DEF parent
  <2> QED BY <1>18, <2>2
<1> QED
  BY <1>5, <1>16, <1>17, <1>18, <1>19 DEF HoistInv

-----------------------------------------------------------------------------
(* The pass.                                                               *)

\* Initially the function is as it was.
LEMMA InitHoisted ==
  ASSUME Init
  PROVE  HoistedInv
<1>1. f = prog /\ pc = "search"
  BY DEF Init, SearchInit
<1>2. prog = WithCode(prog.list, prog.uses)
  <2>1. PICK p \in Programs : prog = Built(p.bbs, p.code)
    BY DEF Init, SearchInit
  <2> QED BY <2>1 DEF Built, WithCode
<1> QED
  BY <1>1, <1>2 DEF HoistedInv, Hoisting

\* Where the hoisting is in no loop and takes none, nothing changes.
LEMMA HoistSame ==
  ASSUME HoistInv, UNCHANGED_search, f' = f, pc \notin {"collect", "begin"}, pc' = "run",
         loops_in_func = {}, loops_in_func' = {}
  PROVE  HoistInv'
<1>1. Headers' = Headers /\ Done = Headers /\ Done' = Headers'
  BY HoistKeeps DEF Done, Pending
<1>2. CodeOK' /\ \A h : Tied(Defs(h))' <=> Tied(Defs(h))
  BY HoistKeeps, SameDefs DEF HoistInv
<1> QED
  BY <1>1, <1>2 DEF HoistInv

\* Each step of the pass.
LEMMA NextHoisted == NaturalInv /\ HoistedInv /\ [Next]_vars => HoistedInv'
<1> SUFFICES ASSUME NaturalInv, HoistedInv, [Next]_vars PROVE HoistedInv'
  OBVIOUS
<1>1. ASSUME Hoistable, pc \notin {"search", "record"} PROVE GraphTyped /\ Recorded /\ LoopsKnown
  BY <1>1 DEF NaturalInv, Hoistable, LoopInv, Recorded, LoopsKnown
<1>2. ASSUME Hoistable, pc \in Hoisting PROVE HoistInv /\ pc \notin {"search", "record"}
  BY <1>2 DEF HoistedInv, Hoisting
<1>3. CASE SearchStep
  <2>1. prog' = prog
    BY <1>3 DEF SearchStep, Search, TraverseRoot, TraverseSucc, SeeSucc, Return, EndSearch, NoBase, Record, SearchAgain
  <2>2. pc \in {"search", "record"} /\ pc' \in {"search", "record", "found", "crash"}
    BY <1>3 DEF SearchStep, Search, TraverseRoot, TraverseSucc, SeeSucc, Return, EndSearch, NoBase, Record, SearchAgain
  <2>3. f' = f
    BY <1>3 DEF SearchStep, hoistVars
  <2> QED BY <2>1, <2>2, <2>3 DEF HoistedInv, Hoisting, WithCode
<1>4. CASE UNCHANGED vars
  <2>1. UNCHANGED <<prog, pc, base2loop, f, loops_in_func, inner_loop, define_set, wait_move, left, changed>>
    BY <1>4 DEF vars, searchVars, hoistVars, found, loopVars
  <2>2. Headers' = Headers /\ (Searchable' <=> Searchable) /\ \A h : Loop(h)' = Loop(h)
    BY <2>1, SameLoops
  <2>3. (Hoistable' <=> Hoistable) /\ InstrId' = InstrId
    BY <2>1, <2>2 DEF Hoistable, WellBuilt, Preheaded, Lists, InstrId
  <2>4. /\ (CodeOK' <=> CodeOK)
        /\ \A h : Defs(h)' = Defs(h) /\ (Tied(Defs(h))' <=> Tied(Defs(h)))
        /\ \A b : Ids(b)' = Ids(b)
    BY <2>1, SameDefs
  <2>5. Done' = Done
    BY <2>1, <2>2 DEF Done, Pending
  <2>6. Loop(inner_loop)' = Loop(inner_loop) /\ Defs(inner_loop)' = Defs(inner_loop)
    BY <2>1, <2>2 DEF Loop, Defs, Ids
  <2>7. \A id : Invariant(id, define_set)' <=> Invariant(id, define_set)
    BY <2>1 DEF Invariant
  <2>8. CollectOK => CollectOK'
    <3> SUFFICES ASSUME CollectOK PROVE CollectOK'
      OBVIOUS
    <3>1. \A g \in Done' : Loop(g)' \subseteq Loop(inner_loop)' => Defs(g)' \subseteq define_set'
      BY <2>1, <2>2, <2>4, <2>5, <2>6 DEF CollectOK
    <3>2. ~changed' => \A b \in Loop(inner_loop)' \ left' : \A id \in Ids(b)' \cap define_set' :
                           ~Invariant(id, define_set)'
      BY <2>1, <2>4, <2>6, <2>7 DEF CollectOK
    <3> QED BY <2>1, <2>3, <2>6, <3>1, <3>2 DEF CollectOK
  <2>9. HoistInv => HoistInv'
    BY <2>1, <2>2, <2>4, <2>5, <2>8 DEF HoistInv
  <2> QED BY <2>1, <2>3, <2>9 DEF HoistedInv, Hoisting, WithCode
<1>5. CASE CollectLoops \/ PickLoop \/ CollectInBlock \/ CollectAgain \/ MoveOut \/ BeginParent \/ Finish \/ RunBlock
  <2>1. UNCHANGED_search /\ pc \in Hoisting \cup {"found"} /\ pc' \in Hoisting
    BY <1>5 DEF CollectLoops, PickLoop, CollectInBlock, CollectAgain, MoveOut, GoTo, BeginParent, Finish, RunBlock, Hoisting
  <2>2. prog' = prog /\ (Hoistable' <=> Hoistable)
    BY <2>1, HoistKeeps
  <2> SUFFICES ASSUME Hoistable PROVE HoistInv'
    BY <2>1, <2>2 DEF HoistedInv, Hoisting, WithCode
  <2>3. GraphTyped /\ Recorded /\ LoopsKnown
    BY <1>1, <2>1 DEF Hoisting
  <2>4. pc # "found" => HoistInv
    BY <1>2, <2>1
  <2>5. CASE CollectLoops
    BY <2>3, <2>5, HoistBegins
  <2>6. CASE PickLoop
    <3>1. PICK base \in loops_in_func : BeginLoop(base)
      BY <2>6 DEF PickLoop
    <3>2. pc = "pick" /\ pc' = "collect" /\ f' = f /\ loops_in_func' = loops_in_func
      BY <2>6 DEF PickLoop
    <3>3. Pending' = Pending
      BY <3>1, <3>2 DEF Pending, BeginLoop
    <3>4. HoistInv /\ base \in Headers
      BY <2>4, <3>1, <3>2 DEF HoistInv
    <3> QED BY <2>1, <2>3, <3>1, <3>2, <3>3, <3>4, LoopBegins
  <2>7. CASE CollectInBlock
    BY <2>4, <2>7, BlockCollected DEF CollectInBlock
  <2>8. CASE CollectAgain
    BY <2>3, <2>4, <2>8, RoundAgain DEF CollectAgain
  <2>9. CASE MoveOut
    BY <2>3, <2>4, <2>9, LoopLeft DEF MoveOut
  <2>10. CASE BeginParent
    <3>1. pc = "begin" /\ pc' = "collect" /\ f' = f /\ loops_in_func' = loops_in_func /\ BeginLoop(inner_loop)
      BY <2>10 DEF BeginParent
    <3>2. Pending' = Pending
      BY <3>1 DEF Pending, BeginLoop
    <3>3. HoistInv /\ inner_loop \in Headers
      BY <2>4, <3>1 DEF HoistInv
    <3> QED BY <2>1, <2>3, <3>1, <3>2, <3>3, LoopBegins
  <2>11. CASE Finish
    BY <2>1, <2>4, <2>11, HoistSame DEF Finish
  <2>12. CASE RunBlock
    <3>1. pc = "run" /\ pc' = "run" /\ f' = f /\ loops_in_func' = loops_in_func
      BY <2>12 DEF RunBlock
    <3> QED BY <2>1, <2>4, <3>1, HoistSame DEF HoistInv
  <2> QED BY <1>5, <2>5, <2>6, <2>7, <2>8, <2>9, <2>10, <2>11, <2>12
<1> QED
  BY <1>3, <1>4, <1>5 DEF Next, Pass

\* While the pass is hoisting, every instruction is in exactly one block and
\* those that may never be moved are where they were; of the loops that are done
\* each instruction depends on the loop it is in, and what is moved out of a loop
\* around or inside one of them leaves that so.
THEOREM HoistInvariant == Spec => [](ComponentsInv /\ NaturalInv /\ HoistedInv)
<1>1. Init => HoistedInv
  BY InitHoisted
<1>2. ComponentsInv /\ NaturalInv /\ HoistedInv /\ [Next]_vars => (ComponentsInv /\ NaturalInv /\ HoistedInv)'
  BY NextComponents, NextNatural, NextHoisted
<1>3. Init => ComponentsInv /\ NaturalInv
  BY InitComponents, InitNatural
<1> QED
  BY <1>1, <1>2, <1>3, PTL DEF Spec

\* On every function without unreachable blocks whose graph is reducible and in
\* which a block that leads on ends with its branch: where every loop has a block
\* of its own before it, nothing that does not depend on a loop is left in it at
\* the end of the pass, whatever the order of the loops, blocks and rounds.
THEOREM NothingLeft == Spec => [](Searchable /\ WellBuilt => NothingInvariantLeft)
<1>1. NaturalInv /\ HoistedInv => (Searchable /\ WellBuilt => NothingInvariantLeft)
  <2> SUFFICES ASSUME NaturalInv, HoistedInv, Searchable, WellBuilt, pc = "run", Preheaded,
                      NEW h \in DOMAIN base2loop
               PROVE  LET defs == UNION {ToSet(f.list[b]) : b \in base2loop[h]}
                      IN  \A id \in defs : ~Invariant(id, defs)
    BY DEF NothingInvariantLeft
  <2>1. base2loop = [g \in Headers |-> Loop(g)]
    BY DEF NaturalInv, LoopInv, Recorded
  <2>2. HoistInv
    BY DEF HoistedInv, Hoisting, Hoistable
  <2>3. Done = Headers
    BY <2>2 DEF HoistInv, Done, Pending
  <2>4. Tied(Defs(h)) /\ Defs(h) = UNION {ToSet(f.list[b]) : b \in base2loop[h]}
    BY <2>1, <2>2, <2>3 DEF HoistInv, Defs, Ids
  <2> QED BY <2>4 DEF Tied
<1> QED
  BY HoistInvariant, <1>1, PTL
=============================================================================
