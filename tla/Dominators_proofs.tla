-------------------------- MODULE Dominators_proofs --------------------------
(***************************************************************************)
(* Proofs about Dominators, for every set of graphs.                       *)
(*                                                                         *)
(* No assertion fails and climbing by idom_ goes up in post-order (IInv):  *)
(* the depth-first search leaves a block before the block it was come to   *)
(* from (DfsOK), so in reverse post-order that one is earlier and has a    *)
(* dominator by the time it is needed (PassOK).  What is merged for a      *)
(* block is never below any of the predecessors merged so far, the one it  *)
(* was come to from among them, and therefore above the block (MergeOK,    *)
(* IdomOK).                                                                *)
(*                                                                         *)
(* What create_idom ends with is right (DomInv): what strictly dominates a *)
(* block always dominates the dominator the block has so far               *)
(* (DominatorsAbove), and a pass that changes nothing has found that one   *)
(* above every predecessor (StableOK), so that no path avoids it.          *)
(*                                                                         *)
(* The frontiers are right on the graphs CminusfBuilder makes (FrontOK):   *)
(* the runner passes the blocks that dominate a predecessor and not        *)
(* strictly the block.                                                     *)
(***************************************************************************)
EXTENDS Dominators, Dominance_proofs, SequenceTheorems, TLAPS

\* The blocks that post_order_visit has left.
Placed == {order[k] : k \in 1 .. Len(order)}

\* The block the search came to b from: it is left after b, or not yet.
LeftAfter(k) ==
  \/ order[k] = Entry
  \/ \E j \in k + 1 .. Len(order) : order[k] \in succ[order[j]]
  \/ \E j \in 1 .. Len(path) : order[k] \in succ[path[j]]

DfsOK ==
  /\ succ \in [Block -> SUBSET Block]
  /\ path \in Seq(Block) /\ order \in Seq(Block) /\ post \in [Block -> Nat]
  /\ \A k \in 1 .. Len(order) : order[k] \in visited /\ post[order[k]] = k - 1
  /\ \A k \in 1 .. Len(path) : path[k] \in visited /\ path[k] \notin Placed
  /\ \A j, k \in 1 .. Len(path) : path[j] = path[k] => j = k
  /\ \A k \in 2 .. Len(path) : path[k] \in succ[path[k - 1]]
  /\ path # << >> => path[1] = Entry
  /\ \A k \in 1 .. Len(order) : LeftAfter(k)
  /\ path = << >> => order # << >> /\ order[Len(order)] = Entry
  /\ pc # "dfs" => path = << >>

\* A block with a dominator was left by the search, its dominator has one
\* too, and is above it.
IdomOK ==
  /\ idom \in [Block -> Block \cup {Null}]
  /\ pc = "dfs" => \A b \in Block : idom[b] = Null
  /\ pc # "dfs" => idom[Entry] = Entry
  /\ \A b \in Block : idom[b] # Null =>
       /\ b \in Placed
       /\ idom[idom[b]] # Null
       /\ b # Entry => post[b] < post[idom[b]]

\* The blocks before i in reverse post-order have a dominator.
PassOK ==
  pc \in {"block", "merge", "intersect"} =>
    /\ i \in Nat \ {0}
    /\ \A k \in 1 .. Len(order) : k < i => idom[RPO(k)] # Null

\* What is merged is not below any predecessor that was merged.
MergeOK ==
  /\ pc \in {"merge", "intersect"} => i <= Len(order) /\ RPO(i) # Entry /\ todo \subseteq Block
  /\ pc = "merge" =>
       /\ new_idom \in Block /\ idom[new_idom] # Null
       /\ \A p \in Pred(RPO(i)) \ todo : post[p] <= post[new_idom]
  /\ pc = "intersect" =>
       /\ b1 \in Block /\ b2 \in Block /\ idom[b1] # Null /\ idom[b2] # Null
       /\ \A p \in Pred(RPO(i)) \ todo : post[p] <= post[b1] \/ post[p] <= post[b2]

IInv == DfsOK /\ IdomOK /\ PassOK /\ MergeOK /\ ~failed

-----------------------------------------------------------------------------
\* Initially no block is numbered and none has a dominator.
LEMMA InitInv == Init => IInv
<1> SUFFICES ASSUME Init PROVE IInv
  OBVIOUS
<1>1. Entry \in Block /\ Null \notin Block
  BY BlockAssumption
<1>2. DfsOK
  BY <1>1, GraphsAssumption DEF Init, DfsOK, Placed, LeftAfter
<1>3. IdomOK
  BY <1>1 DEF Init, IdomOK
<1> QED
  BY <1>2, <1>3 DEF Init, PassOK, MergeOK, IInv

\* What the search has left when it is over: every block but the entry was
\* left before a block that leads to it, and the entry was left last.
LEMMA SearchDone ==
  ASSUME DfsOK, path = << >>
  PROVE  /\ Len(order) \in Nat \ {0} /\ order[Len(order)] = Entry
         /\ \A k \in 1 .. Len(order) : order[k] \in Block /\ post[order[k]] = k - 1
         /\ \A k \in 1 .. Len(order) : order[k] # Entry =>
              \E j \in k + 1 .. Len(order) : order[k] \in succ[order[j]]
         /\ \A b \in Placed : post[b] \in Nat /\ post[b] <= post[Entry]
         /\ \A b, c \in Placed : post[b] = post[c] => b = c
<1>1. order \in Seq(Block) /\ order # << >> /\ order[Len(order)] = Entry
  BY DEF DfsOK
<1>2. Len(order) \in Nat \ {0}
  BY <1>1
<1>3. \A k \in 1 .. Len(order) : order[k] \in Block /\ post[order[k]] = k - 1
  BY <1>1 DEF DfsOK
<1>4. \A k \in 1 .. Len(order) : order[k] # Entry =>
        \E j \in k + 1 .. Len(order) : order[k] \in succ[order[j]]
  BY DEF DfsOK, LeftAfter
<1>5. post[Entry] = Len(order) - 1
  BY <1>1, <1>2, <1>3
<1>6. \A b \in Placed : post[b] \in Nat /\ post[b] <= post[Entry]
  BY <1>2, <1>3, <1>5 DEF Placed
<1>7. \A b, c \in Placed : post[b] = post[c] => b = c
  BY <1>2, <1>3 DEF Placed
<1> QED
  BY <1>1, <1>2, <1>3, <1>4, <1>6, <1>7

\* Where i is a place in reverse post-order, RPO(i) is the block left there.
LEMMA PlaceOfRPO ==
  ASSUME order \in Seq(Block), NEW j \in Nat \ {0}, j <= Len(order)
  PROVE  /\ Len(order) + 1 - j \in 1 .. Len(order)
         /\ RPO(j) = order[Len(order) + 1 - j] /\ RPO(j) \in Block /\ RPO(j) \in Placed
<1>1. Len(order) \in Nat
  OBVIOUS
<1>2. Len(order) + 1 - j \in 1 .. Len(order)
  BY <1>1
<1> QED
  BY <1>2 DEF RPO, Placed

\* The block RPO(i) was come to from one that has a dominator and is above it.
LEMMA ComeFrom ==
  ASSUME DfsOK, path = << >>, PassOK, pc \in {"block", "merge", "intersect"},
         i <= Len(order), RPO(i) # Entry
  PROVE  \E q \in Pred(RPO(i)) : idom[q] # Null /\ post[RPO(i)] < post[q]
<1>1. order \in Seq(Block) /\ i \in Nat \ {0}
  BY DEF DfsOK, PassOK
<1> DEFINE n == Len(order)
           k == n + 1 - i
<1>2. n \in Nat /\ k \in 1 .. n /\ RPO(i) = order[k]
  BY <1>1, PlaceOfRPO
<1>3. PICK j \in k + 1 .. n : order[k] \in succ[order[j]]
  BY <1>2, SearchDone
<1>4. j \in 1 .. n /\ j \in Nat /\ k < j
  BY <1>2, <1>3
<1>5. order[j] \in Block /\ order[j] \in Pred(RPO(i))
  BY <1>2, <1>3, <1>4, SearchDone DEF Pred
<1>6. post[order[k]] = k - 1 /\ post[order[j]] = j - 1
  BY <1>2, <1>4, SearchDone
<1>7. post[RPO(i)] < post[order[j]]
  BY <1>2, <1>4, <1>6
<1>8. n + 1 - j \in 1 .. n /\ n + 1 - j < i /\ RPO(n + 1 - j) = order[j]
  BY <1>1, <1>2, <1>4 DEF RPO
<1>9. idom[order[j]] # Null
  BY <1>8 DEF PassOK
<1> QED
  BY <1>5, <1>7, <1>9

-----------------------------------------------------------------------------
\* The search goes on with a block that was not visited.
LEMMA DescendInv == ASSUME IInv, Descend PROVE IInv'
<1> USE DEF IInv
<1>1. PICK b \in succ[path[Len(path)]] \ visited :
        path' = Append(path, b) /\ visited' = visited \cup {b}
  BY DEF Descend
<1>2. /\ pc = "dfs" /\ pc' = "dfs" /\ path # << >> /\ succ' = succ /\ post' = post /\ order' = order
      /\ idom' = idom /\ failed' = failed
  BY DEF Descend
<1>3. path \in Seq(Block) /\ Len(path) \in 1 .. Len(path) /\ Len(path) \in Nat
  BY <1>2 DEF DfsOK
<1>4. b \in Block
  BY <1>3 DEF DfsOK
<1> DEFINE n == Len(path)
<1>5. /\ path' \in Seq(Block) /\ Len(path') = n + 1
      /\ \A k \in 1 .. n : path'[k] = path[k]
      /\ path'[n + 1] = b
  BY <1>1, <1>3, <1>4
<1>6. Placed' = Placed
  BY <1>2 DEF Placed
<1>7. b \notin Placed /\ \A k \in 1 .. n : path[k] # b
  BY DEF DfsOK, Placed
<1>8. DfsOK'
  <2>1. \A k \in 1 .. Len(path') : path'[k] \in visited' /\ path'[k] \notin Placed'
    BY <1>1, <1>3, <1>5, <1>6, <1>7 DEF DfsOK
  <2>2. \A j, k \in 1 .. Len(path') : path'[j] = path'[k] => j = k
    <3>1. \A j, k \in 1 .. n : path[j] = path[k] => j = k
      BY DEF DfsOK
    <3>2. \A k \in 1 .. Len(path') : k \in 1 .. n \/ k = n + 1
      BY <1>3, <1>5
    <3> QED
      BY <1>5, <1>7, <3>1, <3>2
  <2>3. \A k \in 2 .. Len(path') : path'[k] \in succ'[path'[k - 1]]
    BY <1>1, <1>2, <1>3, <1>5 DEF DfsOK
  <2>4. \A k \in 1 .. Len(order') : LeftAfter(k)'
    <3> SUFFICES ASSUME NEW k \in 1 .. Len(order') PROVE LeftAfter(k)'
      OBVIOUS
    <3>1. LeftAfter(k)
      BY <1>2 DEF DfsOK
    <3> QED
      BY <1>2, <1>3, <1>5, <3>1 DEF LeftAfter
  <2>5. path' # << >> /\ path'[1] = Entry
    BY <1>2, <1>3, <1>5 DEF DfsOK
  <2>6. \A k \in 1 .. Len(order') : order'[k] \in visited' /\ post'[order'[k]] = k - 1
    BY <1>1, <1>2 DEF DfsOK
  <2> QED
    BY <1>2, <1>5, <2>1, <2>2, <2>3, <2>4, <2>5, <2>6 DEF DfsOK
<1>9. IdomOK'
  BY <1>2, <1>6 DEF IdomOK
<1> QED
  BY <1>2, <1>8, <1>9 DEF PassOK, MergeOK

\* A block is numbered after everything it leads to was visited; the block it
\* was come to from is still being visited.
LEMMA LeaveInv == ASSUME IInv, Leave PROVE IInv'
<1> USE DEF IInv
<1> DEFINE n == Len(path)
           m == Len(order)
           bb == path[n]
<1>1. /\ pc = "dfs" /\ pc' = "dfs" /\ path # << >> /\ succ' = succ /\ visited' = visited
      /\ post' = [post EXCEPT ![bb] = m] /\ order' = Append(order, bb)
      /\ path' = SubSeq(path, 1, n - 1) /\ idom' = idom /\ failed' = failed
  BY DEF Leave
<1>2. /\ path \in Seq(Block) /\ order \in Seq(Block) /\ n \in Nat /\ m \in Nat /\ n \in 1 .. n
      /\ bb \in Block /\ bb \notin Placed /\ bb \in visited
  BY <1>1 DEF DfsOK
<1>3. /\ order' \in Seq(Block) /\ Len(order') = m + 1 /\ order'[m + 1] = bb
      /\ \A k \in 1 .. m : order'[k] = order[k]
  BY <1>1, <1>2
<1>4. /\ path' \in Seq(Block) /\ Len(path') = n - 1
      /\ \A k \in 1 .. n - 1 : path'[k] = path[k] /\ k \in 1 .. n
  <2>1. \A k \in 1 .. n - 1 : path[k] \in Block /\ k \in 1 .. n
    BY <1>2
  <2>2. 1 \in Int /\ n - 1 \in Int
    BY <1>2
  <2>3. /\ path' \in Seq(Block)
        /\ Len(path') = IF 1 <= n - 1 THEN (n - 1) - 1 + 1 ELSE 0
        /\ \A k \in 1 .. (n - 1) - 1 + 1 : path'[k] = path[1 + k - 1]
    BY <1>1, <2>1, <2>2, SubSeqProperties
  <2>4. Len(path') = n - 1
    <3> HIDE DEF n
    <3> QED
      BY <1>2, <2>3
  <2>5. ASSUME NEW k \in 1 .. n - 1 PROVE path'[k] = path[k]
    <3> HIDE DEF n
    <3>1. 1 + k - 1 = k /\ k \in 1 .. (n - 1) - 1 + 1
      BY <1>2
    <3> QED
      BY <2>3, <3>1
  <2> QED
    BY <2>1, <2>3, <2>4, <2>5
<1>5. Placed' = Placed \cup {bb}
  BY <1>2, <1>3 DEF Placed
<1>6. \A k \in 1 .. m : order[k] # bb
  BY <1>2 DEF Placed
<1>7. \A k \in 1 .. n - 1 : path[k] # bb
  <2>1. \A j, k \in 1 .. n : path[j] = path[k] => j = k
    BY DEF DfsOK
  <2> QED
    BY <1>2, <1>4, <2>1
<1>8. DfsOK'
  <2>1. post' \in [Block -> Nat]
    BY <1>1, <1>2 DEF DfsOK
  <2>2. \A k \in 1 .. Len(order') : order'[k] \in visited' /\ post'[order'[k]] = k - 1
    <3>1. \A k \in 1 .. m : order[k] \in Block /\ order[k] \in visited /\ post[order[k]] = k - 1
      BY <1>2 DEF DfsOK
    <3>2. \A k \in 1 .. m : post'[order[k]] = post[order[k]]
      BY <1>1, <1>6, <3>1 DEF DfsOK
    <3>3. post'[bb] = m
      BY <1>1, <1>2 DEF DfsOK
    <3>4. ASSUME NEW k \in 1 .. m PROVE order'[k] \in visited' /\ post'[order'[k]] = k - 1
      BY <1>1, <1>3, <3>1, <3>2
    <3>5. order'[m + 1] \in visited' /\ post'[order'[m + 1]] = (m + 1) - 1
      <4> HIDE DEF bb, m
      <4> QED
        BY <1>1, <1>2, <1>3, <3>3
    <3>6. \A k \in 1 .. Len(order') : k \in 1 .. m \/ k = m + 1
      <4> HIDE DEF m
      <4> QED
        BY <1>2, <1>3
    <3> HIDE DEF m
    <3> QED
      BY <3>4, <3>5, <3>6
  <2>3. \A k \in 1 .. Len(path') : path'[k] \in visited' /\ path'[k] \notin Placed'
    BY <1>1, <1>2, <1>4, <1>5, <1>7 DEF DfsOK
  <2>4. \A j, k \in 1 .. Len(path') : path'[j] = path'[k] => j = k
    <3>1. \A j, k \in 1 .. n : path[j] = path[k] => j = k
      BY DEF DfsOK
    <3> QED
      BY <1>4, <3>1
  <2>5. \A k \in 2 .. Len(path') : path'[k] \in succ'[path'[k - 1]]
    <3> SUFFICES ASSUME NEW k \in 2 .. Len(path') PROVE path'[k] \in succ'[path'[k - 1]]
      OBVIOUS
    <3>1. k \in 1 .. n - 1 /\ k - 1 \in 1 .. n - 1 /\ k \in 2 .. n
      BY <1>2, <1>4
    <3>2. path[k] \in succ[path[k - 1]]
      BY <3>1 DEF DfsOK
    <3> QED
      BY <1>1, <1>4, <3>1, <3>2
  <2>6. path' # << >> => path'[1] = Entry
    BY <1>1, <1>2, <1>4 DEF DfsOK
  <2>7. \A k \in 1 .. Len(order') : LeftAfter(k)'
    <3> SUFFICES ASSUME NEW k \in 1 .. Len(order') PROVE LeftAfter(k)'
      OBVIOUS
    <3>1. CASE k = m + 1
      <4>1. CASE n = 1
        BY <1>1, <1>2, <1>3, <3>1, <4>1 DEF DfsOK, LeftAfter
      <4>2. CASE n # 1
        <5>1. n - 1 \in 1 .. Len(path') /\ n \in 2 .. n
          BY <1>2, <1>4, <4>2
        <5>2. bb \in succ[path[n - 1]]
          BY <5>1 DEF DfsOK
        <5>3. order'[k] \in succ'[path'[n - 1]]
          BY <1>1, <1>3, <1>4, <3>1, <5>1, <5>2
        <5> QED
          BY <5>1, <5>3 DEF LeftAfter
      <4> QED
        BY <4>1, <4>2
    <3>2. CASE k # m + 1
      <4>1. k \in 1 .. m /\ order'[k] = order[k] /\ LeftAfter(k)
        BY SMTT(30), <1>2, <1>3, <3>2 DEF DfsOK
      <4>2. CASE order[k] = Entry
        BY <4>1, <4>2 DEF LeftAfter
      <4>3. ASSUME NEW j \in k + 1 .. m, order[k] \in succ[order[j]]
            PROVE  LeftAfter(k)'
        <5>1. j \in k + 1 .. Len(order') /\ order'[j] = order[j]
          BY <1>2, <1>3, <4>1
        <5> QED
          BY <1>1, <4>1, <4>3, <5>1 DEF LeftAfter
      <4>4. ASSUME NEW j \in 1 .. n, order[k] \in succ[path[j]]
            PROVE  LeftAfter(k)'
        <5>1. CASE j = n
          <6>1. m + 1 \in k + 1 .. Len(order') /\ order'[k] \in succ'[order'[m + 1]]
            BY <1>1, <1>2, <1>3, <4>1, <4>4, <5>1
          <6> QED
            BY <6>1 DEF LeftAfter
        <5>2. CASE j # n
          <6>1. j \in 1 .. Len(path') /\ order'[k] \in succ'[path'[j]]
            BY <1>1, <1>2, <1>4, <4>1, <4>4, <5>2
          <6> QED
            BY <6>1 DEF LeftAfter
        <5> QED
          BY <5>1, <5>2
      <4> QED
        BY <4>1, <4>2, <4>3, <4>4 DEF LeftAfter
    <3> QED
      BY <3>1, <3>2
  <2>8. path' = << >> => order' # << >> /\ order'[Len(order')] = Entry
    <3> SUFFICES ASSUME path' = << >> PROVE order' # << >> /\ order'[Len(order')] = Entry
      OBVIOUS
    <3>1. n = 1
      BY <1>2, <1>4
    <3>2. bb = Entry
      BY <1>1, <3>1 DEF DfsOK
    <3> QED
      BY <1>2, <1>3, <3>2
  <2> QED
    BY <1>1, <1>3, <1>4, <2>1, <2>2, <2>3, <2>4, <2>5, <2>6, <2>7, <2>8 DEF DfsOK
<1>9. IdomOK'
  BY <1>1 DEF IdomOK
<1> QED
  BY <1>1, <1>8, <1>9 DEF PassOK, MergeOK

-----------------------------------------------------------------------------
\* The search is over when nothing of it changes any more.
LEMMA SearchStays ==
  ASSUME DfsOK, UNCHANGED <<succ, dfsVars>>, path = << >>
  PROVE  DfsOK' /\ Placed' = Placed
BY DEF DfsOK, LeftAfter, Placed, dfsVars

\* The root becomes its own dominator; it is the last block that was left.
LEMMA StartIdomInv == ASSUME IInv, StartIdom PROVE IInv'
<1> USE DEF IInv
<1>1. /\ path = << >> /\ UNCHANGED <<succ, dfsVars>> /\ pc' = "pass" /\ failed' = failed
      /\ idom' = [b \in Block |-> IF b = Entry THEN Entry ELSE Null]
  BY DEF StartIdom
<1>2. DfsOK' /\ Placed' = Placed
  BY <1>1, SearchStays
<1>3. Entry \in Block /\ Null \notin Block
  BY BlockAssumption
<1>4. Entry \in Placed
  BY <1>1, SearchDone DEF Placed
<1>5. IdomOK'
  BY <1>1, <1>2, <1>3, <1>4 DEF IdomOK
<1> QED
  BY <1>1, <1>2, <1>5 DEF PassOK, MergeOK

\* Steps that leave idom_ and the search alone keep what is said of them.
LEMMA AnalysisStays ==
  ASSUME IInv, pc # "dfs", pc' # "dfs", UNCHANGED <<succ, dfsVars, idom>>
  PROVE  DfsOK' /\ IdomOK' /\ path = << >> /\ order' = order
<1>1. path = << >>
  BY DEF IInv, DfsOK
<1>2. DfsOK' /\ Placed' = Placed
  BY <1>1, SearchStays DEF IInv
<1> QED
  BY <1>1, <1>2 DEF IInv, IdomOK, dfsVars

\* A pass starts before the first block.
LEMMA StartPassInv == ASSUME IInv, StartPass PROVE IInv'
<1>1. DfsOK' /\ IdomOK'
  BY AnalysisStays DEF StartPass
<1>2. PassOK'
  BY DEF StartPass, PassOK, IInv
<1> QED
  BY <1>1, <1>2 DEF StartPass, MergeOK, IInv

\* The root has a dominator.
LEMMA SkipRootInv == ASSUME IInv, SkipRoot PROVE IInv'
<1>1. DfsOK' /\ IdomOK' /\ order' = order
  BY AnalysisStays DEF SkipRoot
<1>2. /\ pc = "block" /\ pc' = "block" /\ i' = i + 1 /\ RPO(i) = Entry /\ idom' = idom
      /\ i \in Nat \ {0} /\ \A k \in 1 .. Len(order) : k < i => idom[RPO(k)] # Null
  BY DEF SkipRoot, IInv, PassOK
<1>3. idom[Entry] # Null
  BY <1>2, BlockAssumption DEF IInv, IdomOK
<1>4. order \in Seq(Block) /\ Len(order) \in Nat
  BY DEF IInv, DfsOK
<1>5. \A k \in 1 .. Len(order) : RPO(k)' = RPO(k)
  BY <1>1 DEF RPO
<1>6. PassOK'
  <2>1. ASSUME NEW k \in 1 .. Len(order), k < i + 1 PROVE idom[RPO(k)] # Null
    <3>1. k < i \/ k = i
      BY <1>2, <2>1
    <3> QED
      BY <1>2, <1>3, <3>1
  <2> QED
    BY <1>1, <1>2, <1>5, <2>1 DEF PassOK
<1> QED
  BY <1>1, <1>2, <1>6 DEF SkipRoot, MergeOK, IInv

\* Some predecessor has a dominator, so assert(pred) holds.
LEMMA FindPredInv == ASSUME IInv, FindPred PROVE IInv'
<1>1. pc = "block" /\ i <= Len(order) /\ RPO(i) # Entry /\ path = << >>
  BY DEF FindPred, IInv, DfsOK
<1>2. PICK q \in Pred(RPO(i)) : idom[q] # Null
  BY <1>1, ComeFrom DEF IInv
<1>3. PICK p \in Pred(RPO(i)) :
        /\ idom[p] # Null /\ new_idom' = p /\ todo' = Pred(RPO(i)) \ {p}
        /\ pc' = "merge" /\ failed' = failed
  BY <1>2 DEF FindPred
<1>4. UNCHANGED <<succ, dfsVars, idom>> /\ i' = i
  BY DEF FindPred
<1>5. DfsOK' /\ IdomOK' /\ order' = order
  BY <1>1, <1>3, <1>4, AnalysisStays
<1>6. PassOK'
  BY <1>1, <1>4, <1>5 DEF IInv, PassOK, RPO
<1>7. RPO(i)' = RPO(i) /\ Pred(RPO(i))' = Pred(RPO(i)) /\ p \in Block /\ post' = post
  BY <1>4, <1>5 DEF RPO, Pred, dfsVars
<1>8. post[p] \in Nat
  BY <1>7 DEF IInv, DfsOK
<1>9. todo' \subseteq Block
  BY <1>3 DEF Pred
<1>10. MergeOK'
  BY <1>1, <1>3, <1>4, <1>5, <1>7, <1>8, <1>9 DEF MergeOK
<1> QED
  BY <1>3, <1>5, <1>6, <1>10 DEF IInv

\* A further predecessor comes in, to be merged with what there is.
LEMMA StartIntersectInv == ASSUME IInv, StartIntersect PROVE IInv'
<1>1. PICK p \in todo :
        idom[p] # Null /\ todo' = todo \ {p} /\ b1' = p /\ b2' = new_idom
  BY DEF StartIntersect
<1>2. /\ pc = "merge" /\ pc' = "intersect" /\ i' = i /\ failed' = failed
      /\ UNCHANGED <<succ, dfsVars, idom>>
  BY DEF StartIntersect
<1>3. DfsOK' /\ IdomOK' /\ order' = order
  BY <1>2, AnalysisStays
<1>4. PassOK'
  BY <1>2, <1>3 DEF IInv, PassOK, RPO
<1>5. RPO(i)' = RPO(i) /\ Pred(RPO(i))' = Pred(RPO(i)) /\ post' = post
  BY <1>2, <1>3 DEF RPO, Pred, dfsVars
<1>6. /\ i <= Len(order) /\ RPO(i) # Entry /\ new_idom \in Block /\ idom[new_idom] # Null
      /\ todo \subseteq Block
      /\ \A x \in Pred(RPO(i)) \ todo : post[x] <= post[new_idom]
  BY <1>2 DEF IInv, MergeOK
<1>7. p \in Block /\ post[p] \in Nat
  BY <1>6 DEF IInv, DfsOK
<1>8. \A x \in Pred(RPO(i)) \ todo' : post[x] <= post[p] \/ post[x] <= post[new_idom]
  BY <1>1, <1>6, <1>7
<1>9. MergeOK'
  BY <1>1, <1>2, <1>3, <1>5, <1>6, <1>7, <1>8 DEF MergeOK
<1> QED
  BY <1>2, <1>3, <1>4, <1>9 DEF IInv

\* The lower finger is not the root, which is above all, so it has a dominator
\* and goes up.
LEMMA ClimbInv == ASSUME IInv, Climb PROVE IInv'
<1> DEFINE low == IF post[b1] < post[b2] THEN b1 ELSE b2
<1>1. /\ pc = "intersect" /\ b1 # b2 /\ i' = i /\ todo' = todo /\ new_idom' = new_idom
      /\ UNCHANGED <<succ, dfsVars, idom>> /\ path = << >>
  BY DEF Climb, IInv, DfsOK
<1>2. /\ i <= Len(order) /\ RPO(i) # Entry /\ todo \subseteq Block
      /\ b1 \in Block /\ b2 \in Block /\ idom[b1] # Null /\ idom[b2] # Null
      /\ \A x \in Pred(RPO(i)) \ todo : post[x] <= post[b1] \/ post[x] <= post[b2]
  BY <1>1 DEF IInv, MergeOK
<1>3. /\ idom[b1] \in Block /\ idom[b2] \in Block
      /\ idom[idom[b1]] # Null /\ idom[idom[b2]] # Null
      /\ b1 \in Placed /\ b2 \in Placed
      /\ post[b1] \in Nat /\ post[b2] \in Nat /\ post[idom[b1]] \in Nat /\ post[idom[b2]] \in Nat
      /\ b1 # Entry => post[b1] < post[idom[b1]]
      /\ b2 # Entry => post[b2] < post[idom[b2]]
  BY <1>2 DEF IInv, IdomOK, DfsOK
<1>4. post[b1] # post[b2] /\ post[b1] <= post[Entry] /\ post[b2] <= post[Entry]
  BY <1>1, <1>3, SearchDone DEF IInv
<1>5. idom[low] # Null
  BY <1>2
<1>6. /\ b1' = IF low = b1 THEN idom[b1] ELSE b1
      /\ b2' = IF low = b2 THEN idom[b2] ELSE b2
      /\ failed' = failed /\ pc' = "intersect"
  BY <1>1, <1>5 DEF Climb
<1>7. DfsOK' /\ IdomOK' /\ order' = order
  BY <1>1, <1>6, AnalysisStays
<1>8. PassOK'
  BY <1>1, <1>6, <1>7 DEF IInv, PassOK, RPO
<1>9. RPO(i)' = RPO(i) /\ Pred(RPO(i))' = Pred(RPO(i)) /\ post' = post
  BY <1>1, <1>7 DEF RPO, Pred, dfsVars
<1>10. /\ b1' \in Block /\ b2' \in Block /\ idom[b1'] # Null /\ idom[b2'] # Null
  BY <1>2, <1>3, <1>6
<1>11. post[b1] <= post[b1'] /\ post[b2] <= post[b2'] /\ post[b1'] \in Nat /\ post[b2'] \in Nat
  <2>1. CASE post[b1] < post[b2]
    <3>1. low = b1 /\ b1' = idom[b1] /\ b2' = b2 /\ b1 # Entry
      BY <1>1, <1>3, <1>4, <1>6, <2>1
    <3> QED
      BY <1>3, <3>1
  <2>2. CASE ~(post[b1] < post[b2])
    <3>1. low = b2 /\ b2' = idom[b2] /\ b1' = b1 /\ post[b2] < post[b1]
      BY <1>1, <1>3, <1>4, <1>6, <2>2
    <3>2. b2 # Entry
      BY <1>3, <1>4, <3>1
    <3> QED
      BY <1>3, <3>1, <3>2
  <2> QED
    BY <2>1, <2>2
<1>12. \A x \in Pred(RPO(i)) \ todo : post[x] <= post[b1'] \/ post[x] <= post[b2']
  <2> SUFFICES ASSUME NEW x \in Pred(RPO(i)) \ todo
               PROVE  post[x] <= post[b1'] \/ post[x] <= post[b2']
    OBVIOUS
  <2>1. post[x] \in Nat
    BY DEF Pred, IInv, DfsOK
  <2>2. post[x] <= post[b1] \/ post[x] <= post[b2]
    BY <1>2
  <2> QED
    BY <1>3, <1>11, <2>1, <2>2
<1>13. MergeOK'
  BY <1>1, <1>2, <1>6, <1>7, <1>9, <1>10, <1>12 DEF MergeOK
<1> QED
  BY <1>6, <1>7, <1>8, <1>13 DEF IInv

\* Where the fingers meet is above both.
LEMMA EndIntersectInv == ASSUME IInv, EndIntersect PROVE IInv'
<1>1. /\ pc = "intersect" /\ pc' = "merge" /\ b1 = b2 /\ new_idom' = b1
      /\ UNCHANGED <<succ, dfsVars, idom, i, todo, failed>>
  BY DEF EndIntersect
<1>2. DfsOK' /\ IdomOK' /\ order' = order
  BY <1>1, AnalysisStays
<1>3. PassOK'
  BY <1>1, <1>2 DEF IInv, PassOK, RPO
<1>4. RPO(i)' = RPO(i) /\ Pred(RPO(i))' = Pred(RPO(i)) /\ post' = post
  BY <1>1, <1>2 DEF RPO, Pred, dfsVars
<1>5. MergeOK'
  BY <1>1, <1>2, <1>4 DEF IInv, MergeOK
<1> QED
  BY <1>1, <1>2, <1>3, <1>5 DEF IInv

\* The block RPO(i) was come to from is merged, so what is set is above it.
LEMMA SetIdomInv == ASSUME IInv, SetIdom PROVE IInv'
<1> DEFINE bb == RPO(i)
<1>1. /\ pc = "merge" /\ pc' = "block" /\ i' = i + 1 /\ idom' = [idom EXCEPT ![bb] = new_idom]
      /\ UNCHANGED <<succ, dfsVars, failed>> /\ AllMerged /\ path = << >>
  BY DEF SetIdom, SetIdomOf, IInv, DfsOK
<1>2. /\ i <= Len(order) /\ bb # Entry /\ new_idom \in Block /\ idom[new_idom] # Null
      /\ \A x \in Pred(bb) \ todo : post[x] <= post[new_idom]
  BY <1>1 DEF IInv, MergeOK
<1>3. i \in Nat \ {0} /\ \A k \in 1 .. Len(order) : k < i => idom[RPO(k)] # Null
  BY <1>1 DEF IInv, PassOK
<1>4. order \in Seq(Block) /\ Len(order) \in Nat /\ bb \in Block /\ bb \in Placed
  BY <1>2, <1>3, PlaceOfRPO DEF IInv, DfsOK
<1>5. post[bb] < post[new_idom]
  <2>1. PICK q \in Pred(bb) : idom[q] # Null /\ post[bb] < post[q]
    BY <1>1, <1>2, ComeFrom DEF IInv
  <2>2. post[q] <= post[new_idom]
    BY <1>1, <1>2, <2>1 DEF AllMerged
  <2>3. post[q] \in Nat /\ post[bb] \in Nat /\ post[new_idom] \in Nat
    BY <1>2, <1>4 DEF Pred, IInv, DfsOK
  <2> QED
    BY <2>1, <2>2, <2>3
<1>6. DfsOK' /\ Placed' = Placed /\ order' = order /\ post' = post
  BY <1>1, SearchStays DEF IInv, dfsVars
<1>7. new_idom # Null /\ Entry \in Block /\ Null \notin Block
  BY <1>2, BlockAssumption
<1>8. idom \in [Block -> Block \cup {Null}] /\ idom[Entry] = Entry
  BY <1>1 DEF IInv, IdomOK
<1>9. /\ idom' \in [Block -> Block \cup {Null}]
      /\ idom'[bb] = new_idom /\ \A b \in Block : b # bb => idom'[b] = idom[b]
      /\ \A b \in Block : idom[b] # Null => idom'[b] # Null
  BY <1>1, <1>2, <1>4, <1>7, <1>8
<1>10. IdomOK'
  <2>1. idom'[Entry] = Entry
    BY <1>2, <1>7, <1>8, <1>9
  <2>2. ASSUME NEW b \in Block, idom'[b] # Null
        PROVE  /\ b \in Placed /\ idom'[idom'[b]] # Null
               /\ b # Entry => post[b] < post[idom'[b]]
    <3>1. CASE b = bb
      BY <1>2, <1>4, <1>5, <1>9, <3>1
    <3>2. CASE b # bb
      <4>1. idom'[b] = idom[b] /\ idom[b] # Null
        BY <1>9, <2>2, <3>2
      <4>2. /\ b \in Placed /\ idom[idom[b]] # Null /\ idom[b] \in Block
            /\ b # Entry => post[b] < post[idom[b]]
        BY <1>8, <4>1 DEF IInv, IdomOK
      <4> QED
        BY <1>9, <4>1, <4>2
    <3> QED
      BY <3>1, <3>2
  <2> QED
    BY <1>1, <1>6, <1>9, <2>1, <2>2 DEF IdomOK
<1>11. PassOK'
  <2>1. \A k \in 1 .. Len(order) : RPO(k)' = RPO(k) /\ RPO(k) \in Block
    BY <1>4, <1>6, PlaceOfRPO DEF RPO
  <2>2. ASSUME NEW k \in 1 .. Len(order), k < i + 1 PROVE idom'[RPO(k)] # Null
    <3>1. k < i \/ k = i
      BY <1>3, <2>2
    <3> QED
      BY <1>3, <1>7, <1>9, <2>1, <3>1
  <2> QED
    BY <1>1, <1>3, <1>6, <2>1, <2>2 DEF PassOK
<1> QED
  BY <1>1, <1>6, <1>10, <1>11 DEF MergeOK, IInv

\* The steps before and after that change neither the search nor idom_.
LEMMA OtherInv ==
  ASSUME IInv, EndPass \/ StartFrontier \/ StartRunner \/ Run \/ EndRunner \/ CreateDomTreeSucc
  PROVE  IInv'
<1>1. /\ pc # "dfs" /\ pc' \in {"pass", "frontier", "run", "done"} /\ failed' = failed
      /\ UNCHANGED <<succ, dfsVars, idom>>
  BY DEF EndPass, StartFrontier, StartRunner, Run, EndRunner, CreateDomTreeSucc
<1>2. DfsOK' /\ IdomOK'
  BY <1>1, AnalysisStays
<1> QED
  BY <1>1, <1>2 DEF PassOK, MergeOK, IInv

-----------------------------------------------------------------------------
\* Every step of run() keeps these invariants.
LEMMA NextInv == ASSUME IInv, [Next]_vars PROVE IInv'
<1>1. CASE UNCHANGED vars
  <2>1. UNCHANGED <<succ, pc, path, visited, post, order, idom, i, todo, new_idom, b1, b2, failed>>
    BY <1>1 DEF vars
  <2> QED
    BY <2>1 DEF IInv, DfsOK, LeftAfter, Placed, IdomOK, PassOK, MergeOK, RPO, Pred
<1>2. CASE Next
  BY <1>2, DescendInv, LeaveInv, StartIdomInv, StartPassInv, SkipRootInv, FindPredInv,
     StartIntersectInv, ClimbInv, EndIntersectInv, SetIdomInv, OtherInv DEF Next
<1> QED
  BY <1>1, <1>2

\* What create_idom relies on holds at every step of run(), on any graph: the
\* reducible ones, those with unreachable blocks, and the others.
THEOREM InductiveInvariant == Spec => []IInv
<1>1. IInv /\ [Next]_vars => IInv'
  BY NextInv
<1> QED
  BY InitInv, <1>1, PTL DEF Spec

\* assert(pred) in create_idom and the assertions in intersect never fail,
\* whatever the graph and in whatever order its edges are listed.
THEOREM AssertionsNeverFail == Spec => []AssertionsHold
<1>1. IInv => AssertionsHold
  BY DEF IInv, AssertionsHold
<1> QED
  BY InductiveInvariant, <1>1, PTL

\* Climbing from a block to the dominator it has so far goes up in post-order,
\* so each loop of intersect ends.
THEOREM ClimbingGoesUp == Spec => []IdomClimbs
<1>1. IInv => IdomClimbs
  BY DEF IInv, IdomOK, IdomClimbs
<1> QED
  BY InductiveInvariant, <1>1, PTL

-----------------------------------------------------------------------------
\* The blocks that climbing by idom_ from b comes to, b among them.
UpFrom(b) ==
  {a \in Block : \A X \in SUBSET Block :
     b \in X /\ (\A x \in X : idom[x] # Null => idom[x] \in X) => a \in X}

\* What the search has visited is reached, and what it has left leads on.
SearchOK ==
  /\ Entry \in visited /\ visited \subseteq Reached(succ)
  /\ visited = Placed \cup {path[k] : k \in 1 .. Len(path)}
  /\ \A b \in Placed : succ[b] \subseteq visited

\* A dominator of b is b or dominates the dominator b has so far.
DominatorsAbove ==
  \A b \in Block \ {Entry} : idom[b] # Null =>
    \A d \in Block \ {b} : Dominates(succ, d, b) => Dominates(succ, d, idom[b])

\* The predecessors that new_idom, or the two fingers, stand for: what
\* dominates all of them dominates these, and these are above each of them.
Merged == Pred(RPO(i)) \ todo
MergedOK ==
  /\ pc \in {"merge", "intersect"} =>
       todo \subseteq Pred(RPO(i)) /\ \A p \in Merged : idom[p] # Null
  /\ pc = "merge" =>
       /\ \A d \in Block : (\A p \in Merged : Dominates(succ, d, p)) => Dominates(succ, d, new_idom)
       /\ \A p \in Merged : new_idom \in UpFrom(p)
  /\ pc = "intersect" =>
       /\ \A d \in Block : (\A p \in Merged : Dominates(succ, d, p))
                             => Dominates(succ, d, b1) /\ Dominates(succ, d, b2)
       /\ \A p \in Merged : b1 \in UpFrom(p) \/ b2 \in UpFrom(p)

\* A pass that has changed nothing has found each dominator above all the
\* predecessors of its block.
AbovePreds(b) == \A p \in Pred(b) : idom[p] # Null => idom[b] \in UpFrom(p)
StableOK ==
  /\ pc = "dfs" => changed
  /\ pc \in {"block", "merge", "intersect"} /\ ~changed =>
       \A k \in 1 .. Len(order) : k < i /\ RPO(k) # Entry => AbovePreds(RPO(k))
  /\ pc \in {"pass", "frontier", "run", "done"} /\ ~changed =>
       \A b \in Placed : idom[b] # Null /\ (b # Entry => AbovePreds(b))
  /\ pc \in {"frontier", "run", "done"} => ~changed

DomInv == SearchOK /\ DominatorsAbove /\ MergedOK /\ StableOK

-----------------------------------------------------------------------------
\* Climbing from a block starts at the block and goes on by idom_; what can be
\* climbed to from there can be climbed to from the block.
LEMMA UpFromClosed ==
  ASSUME idom \in [Block -> Block \cup {Null}], NEW b \in Block
  PROVE  /\ b \in UpFrom(b)
         /\ \A a \in UpFrom(b) : a \in Block /\ (idom[a] # Null => idom[a] \in UpFrom(b))
BY DEF UpFrom

\* It is the least such set.
LEMMA UpFromLeast ==
  ASSUME NEW b, NEW X \in SUBSET Block, b \in X,
         \A x \in X : idom[x] # Null => idom[x] \in X
  PROVE  UpFrom(b) \subseteq X
BY DEF UpFrom

\* What is above a block that is above b is above b.
LEMMA UpFromTransitive ==
  ASSUME idom \in [Block -> Block \cup {Null}], NEW b \in Block, NEW a \in UpFrom(b)
  PROVE  UpFrom(a) \subseteq UpFrom(b)
<1> DEFINE X == UpFrom(b)
<1>1. X \in SUBSET Block /\ a \in X /\ \A x \in X : idom[x] # Null => idom[x] \in X
  BY UpFromClosed
<1> HIDE DEF X
<1>2. UpFrom(a) \subseteq X
  BY <1>1, UpFromLeast
<1> QED
  BY <1>2 DEF X

\* Above a block are the block and what is above the dominator it has.
LEMMA UpFromStep ==
  ASSUME idom \in [Block -> Block \cup {Null}], NEW b \in Block, NEW a \in UpFrom(b), a # b,
         Null \notin Block
  PROVE  idom[b] # Null /\ a \in UpFrom(idom[b])
<1>1. idom[b] # Null
  <2> DEFINE X == {b}
  <2> SUFFICES ASSUME idom[b] = Null PROVE UpFrom(b) \subseteq X
    OBVIOUS
  <2>1. X \in SUBSET Block /\ b \in X /\ \A x \in X : idom[x] # Null => idom[x] \in X
    OBVIOUS
  <2> HIDE DEF X
  <2> QED
    BY <2>1, UpFromLeast
<1>2. idom[b] \in Block
  BY <1>1
<1> DEFINE X == {b} \cup UpFrom(idom[b])
<1>3. X \in SUBSET Block /\ b \in X /\ \A x \in X : idom[x] # Null => idom[x] \in X
  BY <1>2, UpFromClosed
<1>4. UpFrom(b) \subseteq X
  <2> HIDE DEF X
  <2> QED
    BY <1>3, UpFromLeast
<1> QED
  BY <1>1, <1>4

\* Induction over what the search has left, from the last block to the first.
LEMMA LastToFirst ==
  ASSUME DfsOK, path = << >>, NEW X,
         ASSUME NEW k \in 1 .. Len(order), \A j \in k + 1 .. Len(order) : order[j] \in X
         PROVE  order[k] \in X
  PROVE  Placed \subseteq X
<1> DEFINE n == Len(order)
           S == {h \in Nat : h < n /\ order[n - h] \notin X}
<1>1. n \in Nat \ {0}
  BY SearchDone
<1>2. S = {}
  <2> SUFFICES ASSUME S # {} PROVE FALSE
    OBVIOUS
  <2>1. PICK h \in S : \A g \in S : h <= g
    <3>1. S \in SUBSET Nat
      OBVIOUS
    <3> HIDE DEF S
    <3> QED
      BY <3>1, LeastNatural
  <2>2. PICK k \in 1 .. n : k = n - h /\ order[k] \notin X
    BY <1>1, <2>1
  <2>3. ASSUME NEW j \in k + 1 .. n PROVE order[j] \in X
    <3>1. n - j \in Nat /\ n - j < h /\ n - j < n /\ n - (n - j) = j
      BY <1>1, <2>1, <2>2
    <3>2. n - j \notin S
      BY <2>1, <3>1
    <3> QED
      BY <3>1, <3>2
  <2> HIDE DEF S
  <2> QED
    BY <2>2, <2>3
<1>3. ASSUME NEW k \in 1 .. n PROVE order[k] \in X
  <2>1. n - k \in Nat /\ n - k < n /\ n - (n - k) = k
    BY <1>1
  <2>2. n - k \notin S
    BY <1>2
  <2> QED
    BY <2>1, <2>2
<1> QED
  BY <1>3 DEF Placed

\* A block that dominates another one was left after it.
LEMMA DominatorLeftLater ==
  ASSUME DfsOK, path = << >>, NEW b \in Placed, NEW d \in Placed, d # b, Dominates(succ, d, b)
  PROVE  post[b] < post[d]
<1> DEFINE R == ReachedAvoiding(succ, d)
           X == {v \in Placed : post[d] < post[v] => v \in R}
<1>1. succ \in [Block -> SUBSET Block]
  BY DEF DfsOK
<1>2. ASSUME NEW k \in 1 .. Len(order), \A j \in k + 1 .. Len(order) : order[j] \in X
      PROVE  order[k] \in X
  <2>1. /\ Len(order) \in Nat /\ order[k] \in Placed /\ post[order[k]] = k - 1
        /\ post[d] \in Nat
    BY SearchDone DEF Placed
  <2> SUFFICES ASSUME post[d] < post[order[k]] PROVE order[k] \in R
    BY <2>1
  <2>2. order[k] # d
    BY <2>1
  <2>3. CASE order[k] = Entry
    BY <1>1, <2>2, <2>3, ReachedAvoidingClosed
  <2>4. CASE order[k] # Entry
    <3>1. PICK j \in k + 1 .. Len(order) : order[k] \in succ[order[j]]
      BY <2>4, SearchDone
    <3>2. j \in 1 .. Len(order)
      BY <2>1
    <3>3. post[order[j]] = j - 1
      BY <3>2, SearchDone
    <3>4. order[j] \in R
      BY <1>2, <2>1, <3>3
    <3> QED
      BY <1>1, <2>2, <3>1, <3>4, ReachedAvoidingClosed
  <2> QED
    BY <2>3, <2>4
<1>3. Placed \subseteq X
  <2> HIDE DEF X
  <2> QED
    BY <1>2, LastToFirst
<1>4. b \notin R
  BY DEF Dominates
<1> QED
  BY <1>3, <1>4, SearchDone

-----------------------------------------------------------------------------
\* Nothing is visited but the entry, and no block has a dominator.
LEMMA InitDomInv == Init => DomInv
<1> SUFFICES ASSUME Init PROVE DomInv
  OBVIOUS
<1>1. succ \in [Block -> SUBSET Block] /\ Entry \in Reached(succ)
  BY GraphsAssumption, ReachedClosed DEF Init
<1>2. SearchOK
  BY <1>1 DEF Init, SearchOK, Placed
<1>3. DominatorsAbove
  BY DEF Init, DominatorsAbove
<1> QED
  BY <1>2, <1>3 DEF Init, MergedOK, StableOK, DomInv

\* Steps of the search leave everything else as it is.
LEMMA SearchOnly ==
  ASSUME DomInv, pc = "dfs", pc' = "dfs", UNCHANGED <<succ, idom, changed>>, SearchOK'
  PROVE  DomInv'
<1>1. DominatorsAbove'
  BY DEF DomInv, DominatorsAbove
<1> QED
  BY <1>1 DEF DomInv, MergedOK, StableOK

\* What the search goes on to is reached, by way of the block it comes from.
LEMMA DescendDomInv == ASSUME IInv, DomInv, Descend PROVE DomInv'
<1>1. PICK b \in succ[path[Len(path)]] \ visited :
        path' = Append(path, b) /\ visited' = visited \cup {b}
  BY DEF Descend
<1>2. /\ pc = "dfs" /\ pc' = "dfs" /\ path # << >> /\ UNCHANGED <<succ, idom, changed, order>>
  BY DEF Descend
<1>3. path \in Seq(Block) /\ Len(path) \in 1 .. Len(path) /\ Len(path) \in Nat
  BY <1>2 DEF IInv, DfsOK
<1>4. succ \in [Block -> SUBSET Block] /\ b \in Block
  BY <1>3 DEF IInv, DfsOK
<1>5. path[Len(path)] \in Reached(succ) /\ b \in Reached(succ)
  <2>1. path[Len(path)] \in visited
    BY <1>3 DEF IInv, DfsOK
  <2>2. path[Len(path)] \in Reached(succ)
    BY <2>1 DEF DomInv, SearchOK
  <2> QED
    BY <1>1, <1>4, <2>2, ReachedClosed
<1>6. {path'[k] : k \in 1 .. Len(path')} = {path[k] : k \in 1 .. Len(path)} \cup {b}
  BY <1>1, <1>3, <1>4
<1>7. Placed' = Placed
  BY <1>2 DEF Placed
<1>8. SearchOK'
  BY <1>1, <1>2, <1>5, <1>6, <1>7 DEF DomInv, SearchOK
<1> QED
  BY <1>2, <1>8, SearchOnly

\* What is left stays visited, and all it leads to was visited.
LEMMA LeaveDomInv == ASSUME IInv, DomInv, Leave PROVE DomInv'
<1> DEFINE n == Len(path)
           bb == path[n]
<1>1. /\ pc = "dfs" /\ pc' = "dfs" /\ path # << >> /\ succ[bb] \subseteq visited
      /\ UNCHANGED <<succ, idom, changed, visited>>
      /\ order' = Append(order, bb) /\ path' = SubSeq(path, 1, n - 1)
  BY DEF Leave
<1>2. path \in Seq(Block) /\ order \in Seq(Block) /\ n \in 1 .. n /\ n \in Nat /\ bb \in Block
  BY <1>1 DEF IInv, DfsOK
<1>3. Placed' = Placed \cup {bb}
  BY <1>1, <1>2 DEF Placed
<1>4. Len(path') = n - 1 /\ \A k \in 1 .. n - 1 : path'[k] = path[k]
  <2>1. \A k \in 1 .. n - 1 : path[k] \in Block
    BY <1>2
  <2>2. 1 \in Int /\ n - 1 \in Int
    BY <1>2
  <2>3. /\ Len(path') = IF 1 <= n - 1 THEN (n - 1) - 1 + 1 ELSE 0
        /\ \A k \in 1 .. (n - 1) - 1 + 1 : path'[k] = path[1 + k - 1]
    BY <1>1, <2>1, <2>2, SubSeqProperties
  <2> HIDE DEF n
  <2>4. Len(path') = n - 1
    BY <1>2, <2>3
  <2>5. ASSUME NEW k \in 1 .. n - 1 PROVE path'[k] = path[k]
    <3>1. 1 + k - 1 = k /\ k \in 1 .. (n - 1) - 1 + 1
      BY <1>2
    <3> QED
      BY <2>3, <3>1
  <2> QED
    BY <2>4, <2>5
<1>5. {path[k] : k \in 1 .. n} = {path'[k] : k \in 1 .. Len(path')} \cup {bb}
  <2>1. \A k \in 1 .. n : k = n \/ k \in 1 .. n - 1
    BY <1>2
  <2> HIDE DEF n
  <2> QED
    BY <1>2, <1>4, <2>1 DEF n
<1>6. SearchOK'
  BY <1>1, <1>3, <1>5 DEF DomInv, SearchOK
<1> QED
  BY <1>1, <1>6, SearchOnly

\* Only the root has a dominator, and no pass has been made.
LEMMA StartIdomDomInv == ASSUME IInv, DomInv, StartIdom PROVE DomInv'
<1>1. /\ UNCHANGED <<succ, dfsVars>> /\ pc' = "pass" /\ changed'
      /\ idom' = [b \in Block |-> IF b = Entry THEN Entry ELSE Null]
  BY DEF StartIdom
<1>2. SearchOK'
  BY <1>1 DEF DomInv, SearchOK, Placed, dfsVars
<1>3. DominatorsAbove'
  BY <1>1 DEF DominatorsAbove
<1> QED
  BY <1>1, <1>2, <1>3 DEF DomInv, MergedOK, StableOK

\* Steps that leave the search and idom_ as they are.
LEMMA MergeStays ==
  ASSUME DomInv, UNCHANGED <<succ, dfsVars, idom>>
  PROVE  /\ SearchOK' /\ DominatorsAbove' /\ order' = order /\ Placed' = Placed
         /\ \A b : UpFrom(b)' = UpFrom(b) /\ Pred(b)' = Pred(b) /\ AbovePreds(b)' = AbovePreds(b)
<1>1. /\ succ' = succ /\ path' = path /\ visited' = visited /\ order' = order /\ idom' = idom
  BY DEF dfsVars
<1>2. SearchOK' /\ DominatorsAbove' /\ Placed' = Placed
  BY <1>1 DEF DomInv, SearchOK, Placed, DominatorsAbove
<1>3. \A b : UpFrom(b)' = UpFrom(b) /\ Pred(b)' = Pred(b)
  BY <1>1 DEF UpFrom, Pred
<1>4. \A b : AbovePreds(b)' = AbovePreds(b)
  BY <1>1, <1>3 DEF AbovePreds
<1> QED
  BY <1>1, <1>2, <1>3, <1>4

\* A pass has nothing behind it yet.
LEMMA StartPassDomInv == ASSUME IInv, DomInv, StartPass PROVE DomInv'
<1>1. /\ UNCHANGED <<succ, dfsVars, idom>> /\ pc' = "block" /\ i' = 1
  BY DEF StartPass
<1>2. SearchOK' /\ DominatorsAbove' /\ order' = order
  BY <1>1, MergeStays
<1>3. \A k \in 1 .. Len(order') : ~(k < i')
  BY <1>1
<1> QED
  BY <1>1, <1>2, <1>3 DEF DomInv, MergedOK, StableOK

\* Of the root nothing is claimed.
LEMMA SkipRootDomInv == ASSUME IInv, DomInv, SkipRoot PROVE DomInv'
<1>1. /\ UNCHANGED <<succ, dfsVars, idom, changed>> /\ pc = "block" /\ pc' = "block"
      /\ i' = i + 1 /\ RPO(i) = Entry
  BY DEF SkipRoot
<1>2. /\ SearchOK' /\ DominatorsAbove' /\ order' = order
      /\ \A b : AbovePreds(b)' = AbovePreds(b)
  BY <1>1, MergeStays
<1>3. i \in Nat
  BY <1>1 DEF IInv, PassOK
<1>4. ~changed => \A k \in 1 .. Len(order) : k < i + 1 /\ RPO(k) # Entry => AbovePreds(RPO(k))
  <2> SUFFICES ASSUME ~changed, NEW k \in 1 .. Len(order), k < i + 1, RPO(k) # Entry
               PROVE  AbovePreds(RPO(k))
    OBVIOUS
  <2>1. k < i
    BY <1>1, <1>3
  <2> QED
    BY <1>1, <2>1 DEF DomInv, StableOK
<1>5. \A k \in 1 .. Len(order) : RPO(k)' = RPO(k)
  BY <1>2 DEF RPO
<1>6. StableOK'
  BY <1>1, <1>2, <1>4, <1>5 DEF StableOK
<1> QED
  BY <1>1, <1>2, <1>6 DEF DomInv, MergedOK

\* Merging for a block leaves what is known of the pass as it is.
LEMMA PassStays ==
  ASSUME DomInv, UNCHANGED <<succ, dfsVars, idom, changed, i>>,
         pc \in {"block", "merge", "intersect"}, pc' \in {"block", "merge", "intersect"}
  PROVE  /\ SearchOK' /\ DominatorsAbove' /\ StableOK'
         /\ RPO(i)' = RPO(i) /\ Pred(RPO(i))' = Pred(RPO(i))
         /\ \A b : UpFrom(b)' = UpFrom(b)
<1>1. /\ SearchOK' /\ DominatorsAbove' /\ order' = order
      /\ \A b : UpFrom(b)' = UpFrom(b) /\ Pred(b)' = Pred(b) /\ AbovePreds(b)' = AbovePreds(b)
  BY MergeStays
<1>2. RPO(i)' = RPO(i) /\ \A k : RPO(k)' = RPO(k)
  BY <1>1 DEF RPO
<1>3. StableOK'
  BY <1>1, <1>2 DEF DomInv, StableOK
<1>4. Pred(RPO(i))' = Pred(RPO(i))
  BY <1>2 DEF Pred
<1> QED
  BY <1>1, <1>2, <1>3, <1>4

\* The first predecessor stands for itself.
LEMMA FindPredDomInv == ASSUME IInv, DomInv, FindPred PROVE DomInv'
<1>1. pc = "block" /\ i <= Len(order) /\ RPO(i) # Entry /\ path = << >>
  BY DEF FindPred, IInv, DfsOK
<1>2. PICK q \in Pred(RPO(i)) : idom[q] # Null
  BY <1>1, ComeFrom DEF IInv
<1>3. PICK p \in Pred(RPO(i)) :
        idom[p] # Null /\ new_idom' = p /\ todo' = Pred(RPO(i)) \ {p} /\ pc' = "merge"
  BY <1>2 DEF FindPred
<1>4. UNCHANGED <<succ, dfsVars, idom, changed, i>>
  BY DEF FindPred
<1>5. /\ SearchOK' /\ DominatorsAbove' /\ StableOK' /\ RPO(i)' = RPO(i)
      /\ Pred(RPO(i))' = Pred(RPO(i)) /\ \A b : UpFrom(b)' = UpFrom(b)
  BY <1>1, <1>3, <1>4, PassStays
<1>6. Merged' = {p}
  BY <1>3, <1>5 DEF Merged
<1>7. p \in UpFrom(p)
  BY UpFromClosed DEF IInv, IdomOK, Pred
<1>8. MergedOK'
  BY <1>3, <1>4, <1>5, <1>6, <1>7 DEF MergedOK
<1> QED
  BY <1>5, <1>8 DEF DomInv

\* A finger is put on the next predecessor, the other one is what there was.
LEMMA StartIntersectDomInv == ASSUME IInv, DomInv, StartIntersect PROVE DomInv'
<1>1. PICK p \in todo :
        idom[p] # Null /\ todo' = todo \ {p} /\ b1' = p /\ b2' = new_idom
  BY DEF StartIntersect
<1>2. pc = "merge" /\ pc' = "intersect" /\ UNCHANGED <<succ, dfsVars, idom, changed, i>>
  BY DEF StartIntersect
<1>3. /\ SearchOK' /\ DominatorsAbove' /\ StableOK' /\ RPO(i)' = RPO(i)
      /\ Pred(RPO(i))' = Pred(RPO(i)) /\ \A b : UpFrom(b)' = UpFrom(b)
  BY <1>2, PassStays
<1>4. /\ todo \subseteq Pred(RPO(i)) /\ \A q \in Merged : idom[q] # Null
      /\ \A d \in Block : (\A q \in Merged : Dominates(succ, d, q)) => Dominates(succ, d, new_idom)
      /\ \A q \in Merged : new_idom \in UpFrom(q)
  BY <1>2 DEF DomInv, MergedOK
<1>5. Merged' = Merged \cup {p}
  BY <1>1, <1>3, <1>4 DEF Merged
<1>6. p \in UpFrom(p)
  BY <1>4, UpFromClosed DEF IInv, IdomOK, Pred
<1>7. MergedOK'
  BY <1>1, <1>2, <1>3, <1>4, <1>5, <1>6 DEF MergedOK
<1> QED
  BY <1>3, <1>7 DEF DomInv

\* A block that dominates all the predecessors merged so far dominates both
\* fingers, and being above the lower one it is another block.
LEMMA ClimbDomInv == ASSUME IInv, DomInv, Climb PROVE DomInv'
<1> DEFINE low == IF post[b1] < post[b2] THEN b1 ELSE b2
           high == IF post[b1] < post[b2] THEN b2 ELSE b1
<1>1. /\ pc = "intersect" /\ b1 # b2 /\ UNCHANGED <<succ, dfsVars, idom, changed, i, todo>>
      /\ path = << >>
  BY DEF Climb, IInv, DfsOK
<1>2. b1 \in Block /\ b2 \in Block /\ idom[b1] # Null /\ idom[b2] # Null
  BY <1>1 DEF IInv, MergeOK
<1>3. /\ pc' = "intersect"
      /\ b1' = IF low = b1 THEN idom[b1] ELSE b1
      /\ b2' = IF low = b2 THEN idom[b2] ELSE b2
  BY <1>1, <1>2 DEF Climb
<1>4. b1 \in Placed /\ b2 \in Placed /\ idom \in [Block -> Block \cup {Null}]
  BY <1>2 DEF IInv, IdomOK
<1>5. /\ post[b1] \in Nat /\ post[b2] \in Nat /\ post[b1] # post[b2]
      /\ post[b1] <= post[Entry] /\ post[b2] <= post[Entry]
  BY <1>1, <1>4, SearchDone DEF IInv
<1>6. /\ {low, high} = {b1, b2} /\ low # high /\ post[low] < post[high] /\ low # Entry
      /\ low \in Block /\ low \in Placed /\ high \in Placed /\ idom[low] # Null
  BY <1>1, <1>2, <1>4, <1>5
<1>7. {b1', b2'} = {idom[low], high}
  BY <1>3, <1>1
<1>8. /\ SearchOK' /\ DominatorsAbove' /\ StableOK' /\ RPO(i)' = RPO(i)
      /\ Pred(RPO(i))' = Pred(RPO(i)) /\ \A b : UpFrom(b)' = UpFrom(b)
  BY <1>1, <1>3, PassStays
<1>9. /\ todo \subseteq Pred(RPO(i)) /\ \A q \in Merged : idom[q] # Null
      /\ \A d \in Block : (\A q \in Merged : Dominates(succ, d, q))
                            => Dominates(succ, d, b1) /\ Dominates(succ, d, b2)
      /\ \A q \in Merged : b1 \in UpFrom(q) \/ b2 \in UpFrom(q)
  BY <1>1 DEF DomInv, MergedOK
<1>10. Merged' = Merged
  BY <1>1, <1>8 DEF Merged
<1> HIDE DEF low, high
<1>11. ASSUME NEW d \in Block, \A q \in Merged : Dominates(succ, d, q)
       PROVE  Dominates(succ, d, b1') /\ Dominates(succ, d, b2')
  <2>1. Dominates(succ, d, low) /\ Dominates(succ, d, high)
    BY <1>6, <1>9, <1>11
  <2>2. d # low
    <3> SUFFICES ASSUME d = low PROVE FALSE
      OBVIOUS
    <3>1. post[high] < post[d]
      BY <1>1, <1>6, <2>1, DominatorLeftLater DEF IInv
    <3> QED
      BY <1>5, <1>6, <3>1
  <2>3. Dominates(succ, d, idom[low])
    BY <1>6, <2>1, <2>2 DEF DomInv, DominatorsAbove
  <2> QED
    BY <1>7, <2>1, <2>3
<1>12. ASSUME NEW q \in Merged PROVE b1' \in UpFrom(q) \/ b2' \in UpFrom(q)
  <2>1. q \in Block
    BY DEF Merged, Pred
  <2>2. low \in UpFrom(q) \/ high \in UpFrom(q)
    BY <1>6, <1>9
  <2>3. low \in UpFrom(q) => idom[low] \in UpFrom(q)
    BY <1>4, <1>6, <2>1, UpFromClosed
  <2> QED
    BY <1>7, <2>2, <2>3
<1>13. MergedOK'
  BY <1>1, <1>3, <1>8, <1>9, <1>10, <1>11, <1>12 DEF MergedOK
<1> QED
  BY <1>8, <1>13 DEF DomInv

\* Where the fingers meet is what both stood for.
LEMMA EndIntersectDomInv == ASSUME IInv, DomInv, EndIntersect PROVE DomInv'
<1>1. /\ pc = "intersect" /\ pc' = "merge" /\ b1 = b2 /\ new_idom' = b1
      /\ UNCHANGED <<succ, dfsVars, idom, changed, i, todo>>
  BY DEF EndIntersect
<1>2. /\ SearchOK' /\ DominatorsAbove' /\ StableOK' /\ RPO(i)' = RPO(i)
      /\ Pred(RPO(i))' = Pred(RPO(i)) /\ \A b : UpFrom(b)' = UpFrom(b)
  BY <1>1, PassStays
<1>3. Merged' = Merged
  BY <1>1, <1>2 DEF Merged
<1>4. MergedOK'
  BY <1>1, <1>2, <1>3 DEF DomInv, MergedOK
<1> QED
  BY <1>2, <1>4 DEF DomInv

\* What strictly dominates the block dominates all its predecessors that are
\* reached, so it dominates what was merged.  A pass that changes nothing here
\* has found the dominator above every predecessor.
LEMMA SetIdomDomInv == ASSUME IInv, DomInv, SetIdom PROVE DomInv'
<1> DEFINE bb == RPO(i)
<1>1. /\ pc = "merge" /\ pc' = "block" /\ i' = i + 1 /\ idom' = [idom EXCEPT ![bb] = new_idom]
      /\ changed' = (changed \/ idom[bb] # new_idom)
      /\ UNCHANGED <<succ, dfsVars>> /\ AllMerged /\ path = << >>
  BY DEF SetIdom, SetIdomOf, IInv, DfsOK
<1>2. /\ i <= Len(order) /\ bb # Entry /\ new_idom \in Block /\ i \in Nat \ {0}
      /\ order \in Seq(Block) /\ idom \in [Block -> Block \cup {Null}]
      /\ succ \in [Block -> SUBSET Block]
  BY <1>1 DEF IInv, MergeOK, PassOK, DfsOK, IdomOK
<1>3. bb \in Block /\ bb \in Placed
  BY <1>2, PlaceOfRPO
<1>4. /\ \A q \in Merged : idom[q] # Null
      /\ \A d \in Block : (\A q \in Merged : Dominates(succ, d, q)) => Dominates(succ, d, new_idom)
      /\ \A q \in Merged : new_idom \in UpFrom(q)
  BY <1>1 DEF DomInv, MergedOK
<1>5. SearchOK'
  BY <1>1 DEF DomInv, SearchOK, Placed, dfsVars
<1>6. DominatorsAbove'
  <2>1. ASSUME NEW d \in Block \ {bb}, Dominates(succ, d, bb) PROVE Dominates(succ, d, new_idom)
    <3> SUFFICES ASSUME NEW q \in Merged PROVE Dominates(succ, d, q)
      BY <1>4
    <3>1. q \in Block /\ bb \in succ[q] /\ q \in Placed
      BY <1>4 DEF Merged, Pred, IInv, IdomOK
    <3>2. q \in Reached(succ)
      BY <3>1 DEF DomInv, SearchOK
    <3> QED
      BY <1>2, <2>1, <3>1, <3>2, DominatesPred
  <2>2. ASSUME NEW b \in Block \ {Entry}, idom'[b] # Null, NEW d \in Block \ {b}, Dominates(succ, d, b)
        PROVE  Dominates(succ, d, idom'[b])
    <3>1. CASE b = bb
      BY <1>1, <1>2, <2>1, <2>2, <3>1
    <3>2. CASE b # bb
      BY <1>1, <1>2, <2>2, <3>2 DEF DomInv, DominatorsAbove
    <3> QED
      BY <3>1, <3>2
  <2> QED
    BY <1>1, <2>2 DEF DominatorsAbove
<1>7. StableOK'
  <2>1. CASE changed'
    BY <1>1, <2>1 DEF StableOK
  <2>2. CASE ~changed'
    <3>1. ~changed /\ idom[bb] = new_idom /\ idom' = idom
      BY <1>1, <1>2, <1>3, <2>2
    <3>2. /\ order' = order /\ \A b : AbovePreds(b)' = AbovePreds(b)
      BY <1>1, <3>1, MergeStays
    <3>3. AbovePreds(bb)
      BY <1>1, <1>4, <3>1 DEF AbovePreds, AllMerged, Merged
    <3>4. ASSUME NEW k \in 1 .. Len(order), k < i + 1, RPO(k) # Entry PROVE AbovePreds(RPO(k))
      <4>1. k < i \/ k = i
        BY <1>2, <3>4
      <4>2. CASE k < i
        BY <1>1, <3>1, <3>4, <4>2 DEF DomInv, StableOK
      <4> QED
        BY <3>3, <4>1, <4>2
    <3>5. \A k : RPO(k)' = RPO(k)
      BY <3>2 DEF RPO
    <3> QED
      BY <1>1, <3>2, <3>4, <3>5 DEF StableOK
  <2> QED
    BY <2>1, <2>2
<1> QED
  BY <1>1, <1>5, <1>6, <1>7 DEF DomInv, MergedOK

\* At the end of a pass every block has been considered.
LEMMA EndPassDomInv == ASSUME IInv, DomInv, EndPass PROVE DomInv'
<1>1. /\ pc = "block" /\ pc' = "pass" /\ i > Len(order)
      /\ UNCHANGED <<succ, dfsVars, idom, changed>>
  BY DEF EndPass
<1>2. /\ SearchOK' /\ DominatorsAbove' /\ order' = order /\ Placed' = Placed
      /\ \A b : AbovePreds(b)' = AbovePreds(b)
  BY <1>1, MergeStays
<1>3. /\ i \in Nat /\ order \in Seq(Block) /\ Len(order) \in Nat
      /\ \A k \in 1 .. Len(order) : k < i => idom[RPO(k)] # Null
  BY <1>1 DEF IInv, PassOK, DfsOK
<1>4. ASSUME ~changed, NEW b \in Placed
      PROVE  idom[b] # Null /\ (b # Entry => AbovePreds(b))
  <2>1. PICK h \in 1 .. Len(order) : b = order[h]
    BY DEF Placed
  <2>2. PICK k \in 1 .. Len(order) : k = Len(order) + 1 - h
    BY <1>3
  <2>3. b = RPO(k) /\ k < i
    BY <1>1, <1>3, <2>1, <2>2 DEF RPO
  <2> QED
    BY <1>1, <1>3, <1>4, <2>3 DEF DomInv, StableOK
<1>5. StableOK'
  BY <1>1, <1>2, <1>4 DEF StableOK
<1> QED
  BY <1>1, <1>2, <1>5 DEF DomInv, MergedOK

\* After the last pass idom_ is not changed any more.
LEMMA AfterPassDomInv ==
  ASSUME IInv, DomInv, StartFrontier \/ StartRunner \/ Run \/ EndRunner \/ CreateDomTreeSucc
  PROVE  DomInv'
<1>1. /\ pc \in {"pass", "frontier", "run"} /\ ~changed /\ pc' \in {"frontier", "run", "done"}
      /\ UNCHANGED <<succ, dfsVars, idom, changed>>
  BY DEF StartFrontier, StartRunner, Run, EndRunner, CreateDomTreeSucc, DomInv, StableOK
<1>2. /\ SearchOK' /\ DominatorsAbove' /\ Placed' = Placed
      /\ \A b : AbovePreds(b)' = AbovePreds(b)
  BY <1>1, MergeStays
<1>3. StableOK'
  BY <1>1, <1>2 DEF DomInv, StableOK
<1> QED
  BY <1>1, <1>2, <1>3 DEF DomInv, MergedOK

\* Every step of run() keeps these invariants.
LEMMA NextDomInv == ASSUME IInv, DomInv, [Next]_vars PROVE DomInv'
<1>1. CASE UNCHANGED vars
  <2>1. UNCHANGED <<succ, dfsVars, idom, changed, pc, i, todo, new_idom, b1, b2>>
    BY <1>1 DEF vars, dfsVars
  <2>2. /\ SearchOK' /\ DominatorsAbove' /\ Placed' = Placed /\ order' = order
        /\ \A b : UpFrom(b)' = UpFrom(b) /\ Pred(b)' = Pred(b) /\ AbovePreds(b)' = AbovePreds(b)
    BY <2>1, MergeStays
  <2>3. \A k : RPO(k)' = RPO(k)
    BY <2>2 DEF RPO
  <2>4. RPO(i)' = RPO(i) /\ Merged' = Merged /\ Pred(RPO(i))' = Pred(RPO(i))
    BY <2>1, <2>3 DEF Merged, RPO, Pred, dfsVars
  <2>5. MergedOK'
    BY <2>1, <2>2, <2>4 DEF DomInv, MergedOK
  <2>6. StableOK'
    BY <2>1, <2>2, <2>3 DEF DomInv, StableOK
  <2> QED
    BY <2>2, <2>5, <2>6 DEF DomInv
<1>2. CASE Next
  BY <1>2, DescendDomInv, LeaveDomInv, StartIdomDomInv, StartPassDomInv, SkipRootDomInv,
     FindPredDomInv, StartIntersectDomInv, ClimbDomInv, EndIntersectDomInv, SetIdomDomInv,
     EndPassDomInv, AfterPassDomInv DEF Next
<1> QED
  BY <1>1, <1>2

\* create_idom keeps every dominator of a block above the block, and a pass that
\* changes nothing has shown that what it has are dominators.
THEOREM DominatorInvariant == Spec => []DomInv
<1>1. IInv /\ DomInv /\ [Next]_vars => DomInv'
  BY NextDomInv
<1> QED
  BY InductiveInvariant, InitDomInv, <1>1, PTL DEF Spec

-----------------------------------------------------------------------------
Settled == pc \in {"frontier", "run", "done"}

\* Once a pass has changed nothing: the blocks with a dominator are the reached
\* ones, and what can be climbed to from a block dominates it.
LEMMA SettledIdom ==
  ASSUME IInv, DomInv, Settled
  PROVE  /\ path = << >> /\ Placed = Reached(succ)
         /\ \A b \in Block : idom[b] # Null <=> b \in Reached(succ)
         /\ \A b \in Reached(succ) : idom[b] \in Reached(succ) /\ Dominates(succ, idom[b], b)
         /\ \A b \in Reached(succ) \ {Entry} : idom[b] # b
<1>1. /\ path = << >> /\ ~changed /\ succ \in [Block -> SUBSET Block] /\ idom \in [Block -> Block \cup {Null}]
      /\ idom[Entry] = Entry /\ Entry \in Block /\ Null \notin Block
  BY BlockAssumption DEF Settled, IInv, DfsOK, IdomOK, DomInv, StableOK
<1>2. Placed = Reached(succ)
  <2>1. visited = Placed
    BY <1>1 DEF DomInv, SearchOK
  <2>2. Reached(succ) \subseteq visited
    <3>1. visited \in SUBSET Block /\ Entry \in visited /\ \A b \in visited : succ[b] \subseteq visited
      BY <1>1, <2>1, ReachedClosed DEF DomInv, SearchOK
    <3> QED
      BY <1>1, <3>1, ReachedClosed
  <2> QED
    BY <2>1, <2>2 DEF DomInv, SearchOK
<1>3. \A b \in Placed : b \in Block /\ idom[b] # Null /\ (b # Entry => AbovePreds(b))
  BY <1>1, <1>2, ReachedClosed DEF DomInv, StableOK, Settled
<1>4. \A b \in Block : idom[b] # Null <=> b \in Reached(succ)
  BY <1>2, <1>3 DEF IInv, IdomOK
<1>5. \A b \in Reached(succ) : idom[b] \in Reached(succ)
  <2>1. \A b \in Placed : idom[b] \in Block /\ idom[idom[b]] # Null
    BY <1>1, <1>3 DEF IInv, IdomOK
  <2> QED
    BY <1>2, <1>4, <2>1
<1>6. \A b \in Reached(succ) \ {Entry} : idom[b] # b
  <2> SUFFICES ASSUME NEW b \in Reached(succ) \ {Entry} PROVE idom[b] # b
    OBVIOUS
  <2>1. b \in Block /\ post[b] \in Nat /\ post[b] < post[idom[b]]
    BY <1>2, <1>3 DEF IInv, IdomOK, DfsOK
  <2> QED
    BY <2>1
<1>7. ASSUME NEW b \in Reached(succ) PROVE Dominates(succ, idom[b], b)
  <2> DEFINE a == idom[b]
             X == {v \in Reached(succ) : a \notin UpFrom(v)}
  <2>1. b \in Block /\ a \in Block /\ a \in UpFrom(b)
    BY <1>1, <1>2, <1>3, UpFromClosed
  <2>2. Entry # a => Entry \in X
    <3> DEFINE E == {Entry}
    <3>1. E \in SUBSET Block /\ Entry \in E /\ \A x \in E : idom[x] # Null => idom[x] \in E
      BY <1>1
    <3>2. UpFrom(Entry) \subseteq E
      <4> HIDE DEF E
      <4> QED
        BY <3>1, UpFromLeast
    <3> QED
      BY <1>1, <3>2, ReachedClosed
  <2>3. ASSUME NEW v \in X, NEW c \in succ[v], c # a PROVE c \in X
    <3>1. c \in Reached(succ) /\ c \in Block /\ v \in Block /\ v \in Pred(c) /\ idom[v] # Null
      BY <1>1, <1>2, <1>3, ReachedClosed DEF Pred
    <3> SUFFICES ASSUME a \in UpFrom(c) PROVE FALSE
      BY <3>1
    <3>2. a \in UpFrom(idom[c]) /\ idom[c] # Null /\ idom[c] \in Block
      BY <1>1, <2>3, <3>1, UpFromStep
    <3>3. c # Entry
      BY <2>2, <2>3
    <3>4. idom[c] \in UpFrom(v)
      BY <1>2, <1>3, <3>1, <3>3 DEF AbovePreds
    <3>5. a \in UpFrom(v)
      BY <1>1, <3>1, <3>2, <3>4, UpFromTransitive
    <3> QED
      BY <3>5
  <2>4. X \in SUBSET Block /\ \A v \in X : \A c \in succ[v] : c # a => c \in X
    BY <1>1, <2>3, ReachedClosed
  <2>5. ReachedAvoiding(succ, a) \subseteq X
    <3> HIDE DEF X, a
    <3> QED
      BY <1>1, <2>2, <2>4, ReachedAvoidingLeast
  <2> QED
    BY <2>1, <2>5 DEF Dominates
<1> QED
  BY <1>1, <1>2, <1>4, <1>5, <1>6, <1>7

\* So each is the immediate dominator.
LEMMA SettledIdomCorrect == ASSUME IInv, DomInv PROVE IdomCorrect
<1> SUFFICES ASSUME Settled, NEW b \in Block \ {Entry}
             PROVE  IF b \in Reached(succ) THEN ImmediatelyDominates(Doms(succ), idom[b], b)
                                           ELSE idom[b] = Null
  BY DEF IdomCorrect, Settled
<1>1. CASE b \notin Reached(succ)
  BY <1>1, SettledIdom
<1>2. CASE b \in Reached(succ)
  <2>1. /\ idom[b] \in Reached(succ) /\ Dominates(succ, idom[b], b) /\ idom[b] # b /\ idom[b] # Null
    BY <1>2, SettledIdom
  <2>2. idom[b] \in Block
    BY <2>1, ReachedClosed DEF IInv, DfsOK
  <2>3. \A e \in Block : e # b /\ Dominates(succ, e, b) => Dominates(succ, e, idom[b])
    BY <2>1 DEF DomInv, DominatorsAbove
  <2>4. ImmediatelyDominates(Doms(succ), idom[b], b)
    BY <2>1, <2>2, <2>3, DomsMeaning DEF ImmediatelyDominates, StrictlyDominates
  <2> QED
    BY <1>2, <2>4
<1> QED
  BY <1>1, <1>2

\* create_idom computes the immediate dominators of every graph, in whatever
\* order the edges of its blocks are listed; blocks nothing reaches get none.
THEOREM ImmediateDominators == Spec => []IdomCorrect
<1>1. IInv /\ DomInv => IdomCorrect
  BY SettledIdomCorrect
<1> QED
  BY InductiveInvariant, DominatorInvariant, <1>1, PTL

-----------------------------------------------------------------------------
\* At the end the children of a block are the blocks it is the dominator of.
TreeOK ==
  pc = "done" =>
    tree_succ = [d \in Block \cup {Null} |-> {b \in Block : idom[b] = d /\ idom[b] # b}]

\* create_dom_tree_succ is the last step.
LEMMA NextTree == ASSUME TreeOK, [Next]_vars PROVE TreeOK'
<1>1. CASE UNCHANGED vars
  BY <1>1 DEF vars, TreeOK
<1>2. CASE CreateDomTreeSucc
  BY <1>2 DEF CreateDomTreeSucc, TreeOK
<1>3. CASE Next /\ ~CreateDomTreeSucc
  <2>1. pc' # "done"
    BY <1>3 DEF Next, Descend, Leave, StartIdom, StartPass, SkipRoot, FindPred, StartIntersect,
       Climb, EndIntersect, SetIdom, SetIdomOf, EndPass, StartFrontier, StartRunner, Run, EndRunner
  <2> QED
    BY <2>1 DEF TreeOK
<1> QED
  BY <1>1, <1>2, <1>3

\* Each block is a child of its dominator, which was left later: from the last
\* block to the first, the entry comes to all of them.
LEMMA DoneTree == ASSUME IInv, DomInv, TreeOK PROVE TreeCorrect
<1> DEFINE t == [b \in Block |-> tree_succ[b]]
<1> SUFFICES ASSUME pc = "done"
             PROVE  /\ \A b \in Block : Cardinality({d \in Reached(succ) : b \in tree_succ[d]})
                                          = (IF b \in Reached(succ) \ {Entry} THEN 1 ELSE 0)
                    /\ Reached(t) = Reached(succ)
  BY DEF TreeCorrect, Reached
<1>1. /\ path = << >> /\ Placed = Reached(succ)
      /\ \A b \in Block : idom[b] # Null <=> b \in Reached(succ)
      /\ \A b \in Reached(succ) : idom[b] \in Reached(succ)
      /\ \A b \in Reached(succ) \ {Entry} : idom[b] # b
  BY SettledIdom DEF Settled
<1>2. /\ idom[Entry] = Entry /\ Entry \in Block /\ Null \notin Block
      /\ Entry \in Reached(succ) /\ Reached(succ) \in SUBSET Block
  BY BlockAssumption, ReachedClosed DEF IInv, IdomOK, DfsOK
<1>3. \A d \in Reached(succ) : tree_succ[d] = {b \in Block : idom[b] = d /\ idom[b] # b}
  BY <1>2 DEF TreeOK
<1>4. ASSUME NEW b \in Block
      PROVE  Cardinality({d \in Reached(succ) : b \in tree_succ[d]})
               = (IF b \in Reached(succ) \ {Entry} THEN 1 ELSE 0)
  <2>1. CASE b \in Reached(succ) \ {Entry}
    <3>1. {d \in Reached(succ) : b \in tree_succ[d]} = {idom[b]}
      BY <1>1, <1>3, <2>1
    <3> QED
      BY <2>1, <3>1, FS_Singleton
  <2>2. CASE b \notin Reached(succ) \ {Entry}
    <3>1. {d \in Reached(succ) : b \in tree_succ[d]} = {}
      BY <1>1, <1>2, <1>3, <2>2
    <3> QED
      BY <2>2, <3>1, FS_EmptySet
  <2> QED
    BY <2>1, <2>2
<1>5. t \in [Block -> SUBSET Block] /\ \A d \in Block : t[d] = {b \in Block : idom[b] = d /\ idom[b] # b}
  BY DEF TreeOK
<1> HIDE DEF t
<1>6. Reached(t) \subseteq Reached(succ)
  <2>1. \A b \in Reached(succ) : t[b] \subseteq Reached(succ)
    BY <1>1, <1>2, <1>5
  <2> QED
    BY <1>2, <1>5, <2>1, ReachedClosed
<1>7. Placed \subseteq Reached(t)
  <2>1. ASSUME NEW k \in 1 .. Len(order), \A j \in k + 1 .. Len(order) : order[j] \in Reached(t)
        PROVE  order[k] \in Reached(t)
    <3> DEFINE b == order[k]
    <3>1. b \in Reached(succ) /\ b \in Placed /\ b \in Block /\ post[b] = k - 1 /\ Len(order) \in Nat
      BY <1>1, <1>2, SearchDone DEF Placed, IInv
    <3>2. CASE b = Entry
      BY <1>5, <3>2, ReachedClosed
    <3>3. CASE b # Entry
      <4>1. idom[b] \in Placed /\ idom[b] # b /\ idom[b] \in Block /\ post[b] < post[idom[b]]
        BY <1>1, <1>2, <3>1, <3>3 DEF IInv, IdomOK
      <4>2. PICK j \in 1 .. Len(order) : idom[b] = order[j]
        BY <4>1 DEF Placed
      <4>3. post[idom[b]] = j - 1
        BY <1>1, <4>2, SearchDone DEF IInv
      <4>4. j \in k + 1 .. Len(order)
        BY <3>1, <4>1, <4>3
      <4>5. idom[b] \in Reached(t) /\ b \in t[idom[b]]
        BY <1>5, <2>1, <3>1, <4>1, <4>2, <4>4
      <4> QED
        BY <1>5, <4>5, ReachedClosed
    <3> QED
      BY <3>2, <3>3
  <2> QED
    BY <1>1, <2>1, LastToFirst DEF IInv
<1> QED
  BY <1>1, <1>4, <1>6, <1>7

\* The dominator tree holds every reachable block once, and no other one.
THEOREM DominatorTree == Spec => []TreeCorrect
<1>1. Init => TreeOK
  BY DEF Init, TreeOK
<1>2. TreeOK /\ [Next]_vars => TreeOK'
  BY NextTree
<1>3. IInv /\ DomInv /\ TreeOK => TreeCorrect
  BY DoneTree
<1> QED
  BY InductiveInvariant, DominatorInvariant, <1>1, <1>2, <1>3, PTL DEF Spec

-----------------------------------------------------------------------------
\* What CminusfBuilder makes: no edge leads to the entry, and a block that is
\* reached has no predecessor that is not.
CleanGraph(s) == NoDeadPred(s) /\ \A b \in Block : Entry \notin s[b]

\* The pairs create_dominance_frontier looks at, and what those in `pairs` that
\* are done have added to the frontier of d.
Joins == {e \in Block \X Block : e[2] \in Pred(e[1]) /\ Cardinality(Pred(e[1])) >= 2}
Added(d, pairs) ==
  {b \in Block : \E p \in Block : /\ <<b, p>> \in pairs /\ Dominates(succ, d, p)
                                  /\ ~(d # b /\ Dominates(succ, d, b))}

\* What the runner has passed in the pair at hand.
Passed(d) ==
  {b \in {Next2[1]} : Dominates(succ, d, Next2[2]) /\ ~Dominates(succ, d, runner)}

FrontOK ==
  /\ CleanGraph(succ)
  /\ dom_frontier \in [Block \cup {Null} -> SUBSET Block]
  /\ ~Settled => \A d \in Block : dom_frontier[d] = {}
  /\ Settled => work \subseteq Joins
  /\ pc \in {"frontier", "done"} =>
       \A d \in Reached(succ) : dom_frontier[d] = Added(d, Joins \ work)
  /\ pc = "run" =>
       /\ work # {} /\ runner \in Block \cup {Null}
       /\ \A d \in Reached(succ) : dom_frontier[d] = Added(d, Joins \ work) \cup Passed(d)
       /\ IF Next2[1] \in Reached(succ)
          THEN Dominates(succ, runner, Next2[2]) /\ Dominates(succ, idom[Next2[1]], runner)
          ELSE runner \notin Reached(succ)
  /\ pc = "done" => work = {}

\* The next pair is one of those that are left.
LEMMA Next2InWork ==
  ASSUME NEW W, W = work, W \subseteq Block \X Block, W # {}
  PROVE  Next2 \in W
<1>1. Block \subseteq Nat
  BY BlockAssumption
<1> DEFINE A == {e[1] : e \in W}
<1>2. PICK a \in A : \A x \in A : a <= x
  <2>1. A \in SUBSET Nat /\ A # {}
    BY <1>1
  <2> HIDE DEF A
  <2> QED
    BY <2>1, LeastNatural
<1> DEFINE B == {e[2] : e \in {x \in W : x[1] = a}}
<1>3. PICK b \in B : \A x \in B : b <= x
  <2>1. PICK e \in W : e[1] = a
    OBVIOUS
  <2>2. e[2] \in B
    BY <2>1
  <2>3. \A x \in W : x[2] \in Nat
    BY <1>1
  <2>4. B \in SUBSET Nat /\ B # {}
    BY <2>2, <2>3
  <2> HIDE DEF B
  <2> QED
    BY <2>4, LeastNatural
<1>4. PICK e \in W : e[1] = a /\ e[2] = b
  BY <1>3
<1>5. ASSUME NEW d \in W PROVE e[1] < d[1] \/ (e[1] = d[1] /\ e[2] <= d[2])
  <2>1. d[1] \in A /\ d[1] \in Nat /\ e[1] \in Nat /\ a <= d[1]
    BY <1>1, <1>2
  <2>2. d[1] = a => d[2] \in B
    OBVIOUS
  <2> HIDE DEF A, B
  <2> QED
    BY <1>3, <1>4, <2>1, <2>2
<1> QED
  BY <1>4, <1>5 DEF Next2

\* What dominates a block is the block or dominates its immediate dominator.
LEMMA ThroughIdom ==
  ASSUME IInv, DomInv, Settled, NEW b \in Reached(succ), b # Entry
  PROVE  /\ idom[b] \in Reached(succ) /\ ~Dominates(succ, b, idom[b])
         /\ \A d \in Block : Dominates(succ, d, b) <=> d = b \/ Dominates(succ, d, idom[b])
<1>1. /\ idom[b] \in Reached(succ) /\ Dominates(succ, idom[b], b) /\ idom[b] # b
      /\ idom[b] # Null /\ b \in Block
  BY SettledIdom, ReachedClosed DEF IInv, DfsOK
<1>2. succ \in [Block -> SUBSET Block]
  BY DEF IInv, DfsOK
<1>3. ~Dominates(succ, b, idom[b])
  BY <1>1, <1>2, DominatesAntisymmetric
<1>4. Dominates(succ, b, b)
  BY <1>2, DominatesItself
<1>5. \A d \in Block : Dominates(succ, d, idom[b]) => Dominates(succ, d, b)
  BY <1>1, <1>2, DominatesTransitive
<1>6. \A d \in Block : d # b /\ Dominates(succ, d, b) => Dominates(succ, d, idom[b])
  BY <1>1 DEF DomInv, DominatorsAbove
<1> QED
  BY <1>1, <1>3, <1>4, <1>5, <1>6

\* The pair at hand.
LEMMA PairAtHand ==
  ASSUME IInv, FrontOK, Settled, work # {}
  PROVE  /\ Next2 \in work /\ Next2 \in Joins
         /\ Next2[1] \in Block /\ Next2[2] \in Block /\ Next2 = <<Next2[1], Next2[2]>>
         /\ Next2[1] \in succ[Next2[2]] /\ Next2[1] # Entry
         /\ Next2[1] \in Reached(succ) <=> Next2[2] \in Reached(succ)
<1>1. work \subseteq Joins /\ CleanGraph(succ) /\ succ \in [Block -> SUBSET Block]
  BY DEF FrontOK, IInv, DfsOK
<1>2. Next2 \in work
  <2>1. work \subseteq Block \X Block
    BY <1>1 DEF Joins
  <2> QED
    BY <2>1, Next2InWork
<1>3. /\ Next2 \in Joins /\ Next2[1] \in Block /\ Next2[2] \in Block
      /\ Next2 = <<Next2[1], Next2[2]>> /\ Next2[1] \in succ[Next2[2]]
  BY <1>1, <1>2 DEF Joins, Pred
<1>4. Next2[1] # Entry
  BY <1>1, <1>3 DEF CleanGraph
<1>5. Next2[1] \in Reached(succ) <=> Next2[2] \in Reached(succ)
  BY <1>1, <1>3, ReachedClosed DEF CleanGraph, NoDeadPred
<1> QED
  BY <1>2, <1>3, <1>4, <1>5

\* At the start no pair is done and all frontiers are empty.
LEMMA StartFrontierFront == ASSUME IInv, FrontOK, StartFrontier PROVE FrontOK'
<1>1. /\ pc = "pass" /\ pc' = "frontier" /\ work' = Joins /\ succ' = succ
      /\ dom_frontier' = dom_frontier
  BY DEF StartFrontier, Joins
<1>2. Joins' = Joins
  BY <1>1 DEF Joins, Pred
<1>3. \A d \in Block : dom_frontier[d] = {}
  BY <1>1 DEF FrontOK, Settled
<1>4. \A d \in Block : Added(d, Joins \ work)' = {}
  BY <1>1, <1>2 DEF Added
<1>5. Reached(succ) \subseteq Block
  BY ReachedClosed DEF IInv, DfsOK
<1> QED
  BY <1>1, <1>2, <1>3, <1>4, <1>5 DEF FrontOK, Settled

\* The runner starts at the predecessor, which dominates itself.
LEMMA StartRunnerFront == ASSUME IInv, DomInv, FrontOK, StartRunner PROVE FrontOK'
<1>1. /\ pc = "frontier" /\ pc' = "run" /\ work # {} /\ runner' = Next2[2]
      /\ UNCHANGED <<succ, work, idom, dom_frontier>>
  BY DEF StartRunner
<1>2. Joins' = Joins /\ Next2' = Next2 /\ \A d : Added(d, Joins \ work)' = Added(d, Joins \ work)
  BY <1>1 DEF Joins, Pred, Next2, Added
<1>3. Settled
  BY <1>1 DEF Settled
<1>4. /\ Next2[1] \in Block /\ Next2[2] \in Block /\ Next2[1] \in succ[Next2[2]] /\ Next2[1] # Entry
      /\ Next2[1] \in Reached(succ) <=> Next2[2] \in Reached(succ)
  BY <1>1, <1>3, PairAtHand
<1>5. succ \in [Block -> SUBSET Block]
  BY DEF IInv, DfsOK
<1>6. \A d : Passed(d)' = {}
  BY <1>1, <1>2 DEF Passed
<1>7. ASSUME Next2[1] \in Reached(succ)
      PROVE  Dominates(succ, Next2[2], Next2[2]) /\ Dominates(succ, idom[Next2[1]], Next2[2])
  <2>1. Dominates(succ, Next2[2], Next2[2])
    BY <1>4, <1>5, <1>7, DominatesItself
  <2>2. Dominates(succ, idom[Next2[1]], Next2[1]) /\ idom[Next2[1]] # Next2[1]
    BY <1>3, <1>4, <1>7, SettledIdom
  <2>3. Dominates(succ, idom[Next2[1]], Next2[2])
    BY <1>4, <1>5, <1>7, <2>2, DominatesPred
  <2> QED
    BY <2>1, <2>3
<1>8. Settled'
  BY <1>1 DEF Settled
<1>9. \A d \in Reached(succ) : dom_frontier[d] = Added(d, Joins \ work)
  BY <1>1 DEF FrontOK
<1>10. /\ CleanGraph(succ) /\ dom_frontier \in [Block \cup {Null} -> SUBSET Block] /\ work \subseteq Joins
  BY <1>3 DEF FrontOK
<1>11. IF Next2'[1] \in Reached(succ')
       THEN Dominates(succ', runner', Next2'[2]) /\ Dominates(succ', idom'[Next2'[1]], runner')
       ELSE runner' \notin Reached(succ')
  BY <1>1, <1>2, <1>4, <1>7
<1>12. \A d \in Reached(succ') : dom_frontier'[d] = Added(d, Joins \ work)' \cup Passed(d)'
  BY <1>1, <1>2, <1>6, <1>9
<1>13. work' # {} /\ runner' \in Block \cup {Null}
  BY <1>1, <1>4
<1> QED
  BY <1>1, <1>2, <1>8, <1>10, <1>11, <1>12, <1>13 DEF FrontOK

\* The runner adds the block to its own frontier and goes on to its dominator:
\* it is the only block that dominates itself and not that dominator.
LEMMA RunFront == ASSUME IInv, DomInv, FrontOK, Run PROVE FrontOK'
<1> DEFINE bb == Next2[1]
           p == Next2[2]
<1>1. /\ pc = "run" /\ pc' = "run" /\ runner # idom[bb] /\ runner' = IdomOf(runner)
      /\ dom_frontier' = [dom_frontier EXCEPT ![runner] = @ \cup {bb}]
      /\ UNCHANGED <<succ, work, idom>>
  BY DEF Run
<1>2. Joins' = Joins /\ Next2' = Next2 /\ \A d : Added(d, Joins \ work)' = Added(d, Joins \ work)
  BY <1>1 DEF Joins, Pred, Next2, Added
<1>3. Settled /\ Settled'
  BY <1>1 DEF Settled
<1>4. /\ work # {} /\ runner \in Block \cup {Null} /\ work \subseteq Joins /\ CleanGraph(succ)
      /\ dom_frontier \in [Block \cup {Null} -> SUBSET Block]
      /\ \A d \in Reached(succ) : dom_frontier[d] = Added(d, Joins \ work) \cup Passed(d)
      /\ IF bb \in Reached(succ)
         THEN Dominates(succ, runner, p) /\ Dominates(succ, idom[bb], runner)
         ELSE runner \notin Reached(succ)
  BY <1>1, <1>3 DEF FrontOK
<1>5. bb \in Block /\ p \in Block /\ bb # Entry /\ (bb \in Reached(succ) <=> p \in Reached(succ))
  BY <1>3, <1>4, PairAtHand
<1>6. /\ succ \in [Block -> SUBSET Block] /\ idom \in [Block -> Block \cup {Null}]
      /\ Reached(succ) \in SUBSET Block /\ Null \notin Block
  BY ReachedClosed, BlockAssumption DEF IInv, DfsOK, IdomOK
<1>7. dom_frontier' \in [Block \cup {Null} -> SUBSET Block]
  BY <1>1, <1>4, <1>5
<1>8. runner' \in Block \cup {Null}
  BY <1>1, <1>4, <1>6 DEF IdomOf
<1>9. CASE bb \in Reached(succ)
  <2>1. runner \in Reached(succ) /\ runner \in Block
    <3>1. Dominates(succ, idom[bb], runner)
      BY <1>4, <1>9
    <3> QED
      BY <1>6, <3>1 DEF Dominates
  <2>2. runner # Entry
    BY <1>1, <1>4, <1>6, <1>9, DominatesEntry
  <2>3. runner' = idom[runner]
    BY <1>1, <1>6, <2>1 DEF IdomOf
  <2>4. /\ idom[runner] \in Reached(succ) /\ ~Dominates(succ, runner, idom[runner])
        /\ \A d \in Block : Dominates(succ, d, runner) <=> d = runner \/ Dominates(succ, d, idom[runner])
    BY <1>3, <2>1, <2>2, ThroughIdom
  <2>5. idom[bb] \in Block
    BY <1>3, <1>6, <1>9, SettledIdom
  <2>6. Dominates(succ, idom[bb], runner')
    BY <1>1, <1>4, <1>9, <2>3, <2>4, <2>5
  <2>7. Dominates(succ, runner', p)
    <3>1. Dominates(succ, idom[runner], runner)
      BY <1>3, <2>1, SettledIdom
    <3> QED
      BY <1>4, <1>6, <1>9, <2>3, <3>1, DominatesTransitive
  <2>8. ASSUME NEW d \in Reached(succ)
        PROVE  dom_frontier'[d] = Added(d, Joins \ work) \cup Passed(d)'
    <3>1. Passed(d) = {b \in {bb} : Dominates(succ, d, p) /\ ~Dominates(succ, d, runner)}
      BY DEF Passed
    <3>2. Passed(d)' = {b \in {bb} : Dominates(succ, d, p) /\ ~Dominates(succ, d, idom[runner])}
      BY <1>1, <1>2, <2>3 DEF Passed
    <3>3. Passed(d)' = Passed(d) \cup (IF d = runner THEN {bb} ELSE {})
      BY <1>4, <1>6, <1>9, <2>4, <3>1, <3>2
    <3> QED
      BY <1>1, <1>4, <1>6, <3>3
  <2> QED
    BY <1>1, <1>2, <1>3, <1>4, <1>7, <1>8, <1>9, <2>6, <2>7, <2>8 DEF FrontOK
<1>10. CASE bb \notin Reached(succ)
  <2>1. runner \notin Reached(succ)
    BY <1>4, <1>10
  <2>2. runner' \notin Reached(succ)
    <3>1. runner' = Null
      BY <1>1, <1>3, <1>4, <2>1, SettledIdom DEF IdomOf
    <3> QED
      BY <1>6, <3>1
  <2>3. \A d : Passed(d) = {} /\ Passed(d)' = {}
    BY <1>1, <1>2, <1>5, <1>10 DEF Passed, Dominates
  <2>4. \A d \in Reached(succ) : dom_frontier'[d] = dom_frontier[d]
    BY <1>1, <1>4, <1>6, <2>1
  <2> QED
    BY <1>1, <1>2, <1>3, <1>4, <1>7, <1>8, <1>10, <2>2, <2>3, <2>4 DEF FrontOK
<1> QED
  BY <1>9, <1>10

\* The runner has come to the dominator of the block: what it has passed are
\* the blocks that dominate the predecessor, but not strictly the block.
LEMMA EndRunnerFront == ASSUME IInv, DomInv, FrontOK, EndRunner PROVE FrontOK'
<1> DEFINE bb == Next2[1]
           p == Next2[2]
<1>1. /\ pc = "run" /\ pc' = "frontier" /\ runner = idom[bb] /\ work' = work \ {Next2}
      /\ UNCHANGED <<succ, idom, dom_frontier>>
  BY DEF EndRunner
<1>2. Settled /\ Settled'
  BY <1>1 DEF Settled
<1>3. /\ work # {} /\ work \subseteq Joins /\ CleanGraph(succ)
      /\ dom_frontier \in [Block \cup {Null} -> SUBSET Block]
      /\ \A d \in Reached(succ) : dom_frontier[d] = Added(d, Joins \ work) \cup Passed(d)
  BY <1>1, <1>2 DEF FrontOK
<1>4. /\ Next2 \in work /\ Next2 \in Joins /\ bb \in Block /\ p \in Block /\ bb # Entry
      /\ Next2 = <<bb, p>> /\ (bb \in Reached(succ) <=> p \in Reached(succ))
  BY <1>2, <1>3, PairAtHand
<1>5. Joins' = Joins /\ Joins' \ work' = (Joins \ work) \cup {<<bb, p>>}
  BY <1>1, <1>4 DEF Joins, Pred
<1>6. ASSUME NEW d \in Reached(succ) PROVE dom_frontier[d] = Added(d, Joins \ work)'
  <2>0. d \in Block
    BY ReachedClosed DEF IInv, DfsOK
  <2>1. Dominates(succ, d, p) /\ ~(d # bb /\ Dominates(succ, d, bb))
          <=> Dominates(succ, d, p) /\ ~Dominates(succ, d, runner)
    <3>1. CASE bb \in Reached(succ)
      <4>1. /\ ~Dominates(succ, bb, idom[bb])
            /\ Dominates(succ, d, bb) <=> d = bb \/ Dominates(succ, d, idom[bb])
        BY <1>2, <1>4, <2>0, <3>1, ThroughIdom
      <4> QED
        BY <1>1, <4>1
    <3>2. CASE bb \notin Reached(succ)
      BY <1>4, <3>2 DEF Dominates
    <3> QED
      BY <3>1, <3>2
  <2>2. Passed(d) = {b \in {bb} : Dominates(succ, d, p) /\ ~(d # b /\ Dominates(succ, d, b))}
    BY <2>1 DEF Passed
  <2>3. Added(d, Joins \ work)' = Added(d, (Joins \ work) \cup {<<bb, p>>})
    BY <1>1, <1>5 DEF Added
  <2>4. Added(d, (Joins \ work) \cup {<<bb, p>>}) = Added(d, Joins \ work) \cup Passed(d)
    BY <1>4, <2>2 DEF Added
  <2> QED
    BY <1>3, <2>3, <2>4
<1> QED
  BY <1>1, <1>2, <1>3, <1>5, <1>6 DEF FrontOK

\* Every step of run() keeps what is known of the frontiers.
LEMMA NextFront == ASSUME IInv, DomInv, FrontOK, [Next]_vars PROVE FrontOK'
<1>1. ASSUME UNCHANGED <<succ, work, dom_frontier>>, ~Settled, ~Settled' PROVE FrontOK'
  BY <1>1 DEF FrontOK, Settled
<1>2. CASE UNCHANGED vars
  <2>1. UNCHANGED <<succ, pc, work, dom_frontier, idom, runner>>
    BY <1>2 DEF vars
  <2>2. /\ Joins' = Joins /\ Next2' = Next2 /\ (Settled' <=> Settled)
        /\ \A d : Added(d, Joins \ work)' = Added(d, Joins \ work) /\ Passed(d)' = Passed(d)
    BY <2>1 DEF Joins, Pred, Next2, Added, Passed, Settled
  <2> QED
    BY <2>1, <2>2 DEF FrontOK
<1>3. CASE CreateDomTreeSucc
  <2>1. pc = "frontier" /\ pc' = "done" /\ work = {} /\ UNCHANGED <<succ, work, dom_frontier>>
    BY <1>3 DEF CreateDomTreeSucc, frontVars
  <2>2. Joins' = Joins /\ \A d : Added(d, Joins \ work)' = Added(d, Joins \ work)
    BY <2>1 DEF Joins, Pred, Added
  <2> QED
    BY <2>1, <2>2 DEF FrontOK, Settled
<1>4. CASE Descend \/ Leave \/ StartIdom \/ StartPass \/ SkipRoot \/ FindPred \/ StartIntersect
           \/ Climb \/ EndIntersect \/ SetIdom \/ EndPass
  <2>1. UNCHANGED <<succ, work, dom_frontier>> /\ ~Settled /\ ~Settled'
    BY <1>4 DEF Descend, Leave, StartIdom, StartPass, SkipRoot, FindPred, StartIntersect,
       Climb, EndIntersect, SetIdom, SetIdomOf, EndPass, frontVars, Settled
  <2> QED
    BY <1>1, <2>1
<1> QED
  BY <1>2, <1>3, <1>4, StartFrontierFront, StartRunnerFront, RunFront, EndRunnerFront DEF Next

\* A block with a single predecessor is in no frontier: what dominates the
\* predecessor strictly dominates the block.
LEMMA DoneFront == ASSUME IInv, FrontOK PROVE FrontierCorrect
<1> SUFFICES ASSUME pc = "done", NEW d \in Reached(succ)
             PROVE  dom_frontier[d] = Frontier(succ, Doms(succ), d)
  BY DEF FrontierCorrect
<1>1. dom_frontier[d] = Added(d, Joins) /\ CleanGraph(succ)
  <2>1. Joins \ work = Joins
    BY DEF FrontOK
  <2> QED
    BY <2>1 DEF FrontOK
<1>2. succ \in [Block -> SUBSET Block] /\ d \in Block
  BY ReachedClosed DEF IInv, DfsOK
<1>3. \A p : p \in Doms(succ)[d] <=> Dominates(succ, d, p)
  BY <1>2, DomsMeaning
<1>4. \A p : Dominates(succ, d, p) => p \in Reached(succ) /\ p \in Block
  BY <1>2, ReachedClosed DEF Dominates
<1>5. ASSUME NEW b \in Reached(succ), NEW p \in Block, b \in succ[p], Dominates(succ, d, p),
             ~(d # b /\ Dominates(succ, d, b))
      PROVE  Cardinality(Pred(b)) >= 2
  <2>1. p \in Pred(b) /\ Pred(b) \subseteq Block /\ IsFiniteSet(Block) /\ b # Entry
    BY <1>1, <1>5, BlockAssumption DEF Pred, CleanGraph
  <2>2. Pred(b) # {p}
    <3> SUFFICES ASSUME Pred(b) = {p} PROVE FALSE
      OBVIOUS
    <3>1. \A q \in Reached(succ) : b \in succ[q] => q = p
      BY <1>2, ReachedClosed DEF Pred
    <3>2. Dominates(succ, d, b)
      BY <1>2, <1>5, <2>1, <3>1, DominatedByPreds
    <3>3. d = b
      BY <1>5, <3>2
    <3> QED
      BY <1>2, <1>5, <2>1, <3>1, <3>3, SomePredEscapes
  <2>3. IsFiniteSet(Pred(b)) /\ Cardinality(Pred(b)) \in Nat
    BY <2>1, FS_Subset, FS_CardinalityType
  <2>4. {p} \subseteq Pred(b) /\ Cardinality({p}) = 1
    BY <2>1, FS_Singleton
  <2>5. Cardinality({p}) <= Cardinality(Pred(b)) /\ Cardinality({p}) # Cardinality(Pred(b))
    BY <2>2, <2>3, <2>4, FS_Subset
  <2> QED
    BY <2>3, <2>4, <2>5
<1>6. \A b \in Block : \A p \in Block : <<b, p>> \in Joins <=> b \in succ[p] /\ Cardinality(Pred(b)) >= 2
  BY DEF Joins, Pred
<1>7. \A p \in Reached(succ) : \A b \in succ[p] : b \in Reached(succ) /\ b \in Block
  BY <1>2, ReachedClosed
<1>8. ASSUME NEW b
      PROVE  b \in Added(d, Joins) <=> b \in Frontier(succ, Doms(succ), d)
  <2>1. b \in Added(d, Joins) <=>
          b \in Block /\ \E p \in Block : /\ b \in succ[p] /\ Cardinality(Pred(b)) >= 2
                                          /\ Dominates(succ, d, p) /\ ~(d # b /\ Dominates(succ, d, b))
    BY <1>6 DEF Added
  <2>2. b \in Frontier(succ, Doms(succ), d) <=>
          /\ b \in Reached(succ) /\ ~(d # b /\ Dominates(succ, d, b))
          /\ \E p : Dominates(succ, d, p) /\ b \in succ[p]
    BY <1>3 DEF Frontier, StrictlyDominates
  <2>3. b \in Reached(succ) => b \in Block
    BY <1>2, ReachedClosed
  <2> QED
    BY <1>4, <1>5, <1>7, <2>1, <2>2, <2>3
<1> QED
  BY <1>1, <1>8

\* On every graph of the kind CminusfBuilder makes, create_dominance_frontier
\* computes the dominance frontiers of the reachable blocks.
THEOREM DominanceFrontiers ==
  ASSUME \A s \in Graphs : CleanGraph(s)
  PROVE  Spec => []FrontierCorrect
<1>1. Init => FrontOK
  BY DEF Init, FrontOK, Settled
<1>2. IInv /\ DomInv /\ FrontOK /\ [Next]_vars => FrontOK'
  BY NextFront
<1>3. IInv /\ FrontOK => FrontierCorrect
  BY DoneFront
<1> QED
  BY InductiveInvariant, DominatorInvariant, <1>1, <1>2, <1>3, PTL DEF Spec
=============================================================================
