--------------------------- MODULE CircuitProofs ---------------------------
(***************************************************************************)
(* Proofs about Circuit, for a tree of any depth, any number of leaves and  *)
(* pages, and any path a prover may put together.  What the code computes    *)
(* level by level is defined by recursion, and the facts about it are       *)
(* proved by induction: a set of levels with a counterexample would have a  *)
(* least member (Least).                                                    *)
(***************************************************************************)
EXTENDS Circuit, WellFoundedInduction, TLAPS

Below == {ss \in Nat \X Nat : ss[1] < ss[2]}

LEMMA BelowIsWellFounded == IsWellFoundedOn(Below, Nat)
  BY NatLessThanWellFounded DEF OpToRel, Below

(* The least-number principle.                                              *)
LEMMA Least ==
  ASSUME NEW S \in SUBSET Nat, S # {}
  PROVE  \E n \in S : \A m \in S : n <= m
<1>1. PICK n \in S : \A m \in S : ~ (<<m, n>> \in Below)
  BY BelowIsWellFounded, WFMin
<1>2. \A m \in S : ~ (m < n)
  BY <1>1 DEF Below
<1> QED
  BY <1>2

(* Induction, in the form used here: a set of numbers that has 0 and with    *)
(* n - 1 also n has all of them, up to d.                                   *)
LEMMA Induction ==
  ASSUME NEW d \in Nat, NEW T, 0 \in T, \A n \in 1 .. d : n - 1 \in T => n \in T
  PROVE  0 .. d \subseteq T
<1> SUFFICES ASSUME (0 .. d) \ T # {} PROVE FALSE
  OBVIOUS
<1>1. PICK n \in (0 .. d) \ T : \A m \in (0 .. d) \ T : n <= m
  <2> DEFINE S == (0 .. d) \ T
  <2>1. S \in SUBSET Nat /\ S # {}
    OBVIOUS
  <2> HIDE DEF S
  <2>2. \E n \in S : \A m \in S : n <= m
    BY <2>1, Least
  <2> QED
    BY <2>2 DEF S
<1>2. n \in 1 .. d /\ n - 1 \in 0 .. d
  BY <1>1
<1>3. n - 1 \in T
  BY <1>1, <1>2
<1> QED
  BY <1>1, <1>2, <1>3
-----------------------------------------------------------------------------
(* What the recursions define.                                              *)
LEMMA CapacityDef ==
         /\ Capacity[0] = 1
         /\ \A n \in 1 .. Depth : Capacity[n] = 2 * Capacity[n - 1]
<1> DEFINE Is(f, n) == f = [k \in 0 .. n |-> IF k = 0 THEN 1 ELSE 2 * f[k - 1]]
           T == {n \in 0 .. Depth : \E f : Is(f, n)}
<1>1. 0 \in T
  <2>1. Is([k \in 0 .. 0 |-> 1], 0)
    OBVIOUS
  <2> HIDE DEF Is
  <2> QED
    BY <2>1, CircuitAssumption
<1>2. ASSUME NEW n \in 1 .. Depth, n - 1 \in T PROVE n \in T
  <2>1. PICK f : Is(f, n - 1)
    BY <1>2
  <2> DEFINE g == [k \in 0 .. n |-> IF k = n THEN 2 * f[n - 1] ELSE f[k]]
  <2>2. \A k \in 0 .. n - 1 : g[k] = f[k]
    BY CircuitAssumption
  <2>3. Is(g, n)
    BY <2>1, <2>2, CircuitAssumption
  <2> HIDE DEF Is, g
  <2> QED
    BY <2>3, CircuitAssumption
<1>3. Depth \in T
  <2> HIDE DEF T
  <2> QED
    BY <1>1, <1>2, Induction, CircuitAssumption
<1>4. Capacity = [k \in 0 .. Depth |-> IF k = 0 THEN 1 ELSE 2 * Capacity[k - 1]]
  BY <1>3 DEF Capacity
<1>5. \A k \in 0 .. Depth : Capacity[k] = IF k = 0 THEN 1 ELSE 2 * Capacity[k - 1]
  BY <1>4
<1> QED
  BY <1>5, CircuitAssumption

LEMMA ZeroNodeDef ==
         /\ ZeroNode[0] = ZeroField
         /\ \A n \in 1 .. Depth : ZeroNode[n] = HashTwo(ZeroNode[n - 1], ZeroNode[n - 1])
<1> DEFINE Is(f, n) == f = [k \in 0 .. n |-> IF k = 0 THEN ZeroField ELSE HashTwo(f[k - 1], f[k - 1])]
           T == {n \in 0 .. Depth : \E f : Is(f, n)}
<1>1. 0 \in T
  <2>1. Is([k \in 0 .. 0 |-> ZeroField], 0)
    OBVIOUS
  <2> HIDE DEF Is
  <2> QED
    BY <2>1, CircuitAssumption
<1>2. ASSUME NEW n \in 1 .. Depth, n - 1 \in T PROVE n \in T
  <2>1. PICK f : Is(f, n - 1)
    BY <1>2
  <2> DEFINE g == [k \in 0 .. n |-> IF k = n THEN HashTwo(f[n - 1], f[n - 1]) ELSE f[k]]
  <2>2. \A k \in 0 .. n - 1 : g[k] = f[k]
    BY CircuitAssumption
  <2>3. Is(g, n)
    BY <2>1, <2>2, CircuitAssumption
  <2> HIDE DEF Is, g
  <2> QED
    BY <2>3, CircuitAssumption
<1>3. Depth \in T
  <2> HIDE DEF T
  <2> QED
    BY <1>1, <1>2, Induction, CircuitAssumption
<1>4. ZeroNode = [k \in 0 .. Depth |-> IF k = 0 THEN ZeroField ELSE HashTwo(ZeroNode[k - 1], ZeroNode[k - 1])]
  BY <1>3 DEF ZeroNode
<1>5. \A k \in 0 .. Depth : ZeroNode[k] = IF k = 0 THEN ZeroField ELSE HashTwo(ZeroNode[k - 1], ZeroNode[k - 1])
  BY <1>4
<1> QED
  BY <1>5, CircuitAssumption

LEMMA PositionsDef ==
  ASSUME NEW i
  PROVE  /\ Positions(i)[0] = i
         /\ \A n \in 1 .. Depth : Positions(i)[n] = Positions(i)[n - 1] \div 2
<1> DEFINE Is(f, n) == f = [k \in 0 .. n |-> IF k = 0 THEN i ELSE f[k - 1] \div 2]
           T == {n \in 0 .. Depth : \E f : Is(f, n)}
<1>1. 0 \in T
  <2>1. Is([k \in 0 .. 0 |-> i], 0)
    OBVIOUS
  <2> HIDE DEF Is
  <2> QED
    BY <2>1, CircuitAssumption
<1>2. ASSUME NEW n \in 1 .. Depth, n - 1 \in T PROVE n \in T
  <2>1. PICK f : Is(f, n - 1)
    BY <1>2
  <2> DEFINE g == [k \in 0 .. n |-> IF k = n THEN f[n - 1] \div 2 ELSE f[k]]
  <2>2. \A k \in 0 .. n - 1 : g[k] = f[k]
    BY CircuitAssumption
  <2>3. \A k \in 1 .. n : g[k - 1] = f[k - 1]
    BY <2>2, CircuitAssumption
  <2>4. \A k \in 0 .. n - 1 : f[k] = IF k = 0 THEN i ELSE f[k - 1] \div 2
    BY <2>1
  <2>5. \A k \in 0 .. n : g[k] = IF k = 0 THEN i ELSE g[k - 1] \div 2
    <3> TAKE k \in 0 .. n
    <3>1. CASE k = n
      BY <2>3, <3>1, CircuitAssumption
    <3>2. CASE k \in 0 .. n - 1
      BY <2>2, <2>3, <2>4, <3>2, CircuitAssumption
    <3> QED
      BY <3>1, <3>2, CircuitAssumption
  <2>6. Is(g, n)
    BY <2>5
  <2> HIDE DEF Is, g
  <2> QED
    BY <2>6, CircuitAssumption
<1>3. Depth \in T
  <2> HIDE DEF T
  <2> QED
    BY <1>1, <1>2, Induction, CircuitAssumption
<1>4. Positions(i) = [k \in 0 .. Depth |-> IF k = 0 THEN i ELSE Positions(i)[k - 1] \div 2]
  BY <1>3 DEF Positions
<1>5. \A k \in 0 .. Depth : Positions(i)[k] = IF k = 0 THEN i ELSE Positions(i)[k - 1] \div 2
  BY <1>4
<1> QED
  BY <1>5, CircuitAssumption

LEMMA NodesDef ==
  ASSUME NEW t
  PROVE  /\ Nodes(t)[0] = [i \in 0 .. Len(t) - 1 |-> t[i + 1]]
         /\ \A n \in 1 .. Depth : Nodes(t)[n] = Above(Nodes(t)[n - 1], n - 1)
<1> DEFINE Is(f, n) == f = [k \in 0 .. n |-> IF k = 0 THEN [i \in 0 .. Len(t) - 1 |-> t[i + 1]] ELSE Above(f[k - 1], k - 1)]
           T == {n \in 0 .. Depth : \E f : Is(f, n)}
<1>1. 0 \in T
  <2>1. Is([k \in 0 .. 0 |-> [i \in 0 .. Len(t) - 1 |-> t[i + 1]]], 0)
    OBVIOUS
  <2> HIDE DEF Is
  <2> QED
    BY <2>1, CircuitAssumption
<1>2. ASSUME NEW n \in 1 .. Depth, n - 1 \in T PROVE n \in T
  <2>1. PICK f : Is(f, n - 1)
    BY <1>2
  <2> DEFINE g == [k \in 0 .. n |-> IF k = n THEN Above(f[n - 1], n - 1) ELSE f[k]]
  <2>2. \A k \in 0 .. n - 1 : g[k] = f[k]
    BY CircuitAssumption
  <2>3. \A k \in 1 .. n : g[k - 1] = f[k - 1]
    BY <2>2, CircuitAssumption
  <2>4. \A k \in 0 .. n - 1 : f[k] = IF k = 0 THEN [i \in 0 .. Len(t) - 1 |-> t[i + 1]] ELSE Above(f[k - 1], k - 1)
    BY <2>1
  <2>5. \A k \in 0 .. n : g[k] = IF k = 0 THEN [i \in 0 .. Len(t) - 1 |-> t[i + 1]] ELSE Above(g[k - 1], k - 1)
    <3> TAKE k \in 0 .. n
    <3>1. CASE k = n
      BY <2>3, <3>1, CircuitAssumption
    <3>2. CASE k \in 0 .. n - 1
      BY <2>2, <2>3, <2>4, <3>2, CircuitAssumption
    <3> QED
      BY <3>1, <3>2, CircuitAssumption
  <2>6. Is(g, n)
    BY <2>5
  <2> HIDE DEF Is, g
  <2> QED
    BY <2>6, CircuitAssumption
<1>3. Depth \in T
  <2> HIDE DEF T
  <2> QED
    BY <1>1, <1>2, Induction, CircuitAssumption
<1>4. Nodes(t) = [k \in 0 .. Depth |-> IF k = 0 THEN [i \in 0 .. Len(t) - 1 |-> t[i + 1]] ELSE Above(Nodes(t)[k - 1], k - 1)]
  BY <1>3 DEF Nodes
<1>5. \A k \in 0 .. Depth : Nodes(t)[k] = IF k = 0 THEN [i \in 0 .. Len(t) - 1 |-> t[i + 1]] ELSE Above(Nodes(t)[k - 1], k - 1)
  BY <1>4
<1> QED
  BY <1>5, CircuitAssumption

LEMMA WayUpDef ==
  ASSUME NEW leaf, NEW siblings, NEW isRight
  PROVE  /\ WayUp(leaf, siblings, isRight)[0] = leaf
         /\ \A n \in 1 .. Depth : WayUp(leaf, siblings, isRight)[n] = IF isRight[n] THEN HashTwo(siblings[n], WayUp(leaf, siblings, isRight)[n - 1]) ELSE HashTwo(WayUp(leaf, siblings, isRight)[n - 1], siblings[n])
<1> DEFINE Is(f, n) == f = [k \in 0 .. n |-> IF k = 0 THEN leaf ELSE IF isRight[k] THEN HashTwo(siblings[k], f[k - 1]) ELSE HashTwo(f[k - 1], siblings[k])]
           T == {n \in 0 .. Depth : \E f : Is(f, n)}
<1>1. 0 \in T
  <2>1. Is([k \in 0 .. 0 |-> leaf], 0)
    OBVIOUS
  <2> HIDE DEF Is
  <2> QED
    BY <2>1, CircuitAssumption
<1>2. ASSUME NEW n \in 1 .. Depth, n - 1 \in T PROVE n \in T
  <2>1. PICK f : Is(f, n - 1)
    BY <1>2
  <2> DEFINE g == [k \in 0 .. n |-> IF k = n THEN IF isRight[n] THEN HashTwo(siblings[n], f[n - 1]) ELSE HashTwo(f[n - 1], siblings[n]) ELSE f[k]]
  <2>2. \A k \in 0 .. n - 1 : g[k] = f[k]
    BY CircuitAssumption
  <2>3. Is(g, n)
    BY <2>1, <2>2, CircuitAssumption
  <2> HIDE DEF Is, g
  <2> QED
    BY <2>3, CircuitAssumption
<1>3. Depth \in T
  <2> HIDE DEF T
  <2> QED
    BY <1>1, <1>2, Induction, CircuitAssumption
<1>4. WayUp(leaf, siblings, isRight) = [k \in 0 .. Depth |-> IF k = 0 THEN leaf ELSE IF isRight[k] THEN HashTwo(siblings[k], WayUp(leaf, siblings, isRight)[k - 1]) ELSE HashTwo(WayUp(leaf, siblings, isRight)[k - 1], siblings[k])]
  BY <1>3 DEF WayUp
<1>5. \A k \in 0 .. Depth : WayUp(leaf, siblings, isRight)[k] = IF k = 0 THEN leaf ELSE IF isRight[k] THEN HashTwo(siblings[k], WayUp(leaf, siblings, isRight)[k - 1]) ELSE HashTwo(WayUp(leaf, siblings, isRight)[k - 1], siblings[k])
  BY <1>4
<1> QED
  BY <1>5, CircuitAssumption
-----------------------------------------------------------------------------
(* Poseidon is collision free.                                              *)
LEMMA HashTwoIsInjective ==
  ASSUME NEW x, NEW y, NEW u, NEW v, HashTwo(x, y) = HashTwo(u, v)
  PROVE  x = u /\ y = v
  BY DEF HashTwo, Poseidon

LEMMA LeafIsInjective ==
  ASSUME NEW s, NEW c, NEW a \in Attribute, NEW b \in Attribute,
         BuildLeaf(c, b) = BuildLeaf(Commit(s), a)
  PROVE  c = Commit(s) /\ b = a
<1>1. c = Commit(s) /\ HashAttributes(b) = HashAttributes(a)
  BY HashTwoIsInjective DEF BuildLeaf
<1>2. b.track = a.track /\ b.rest = a.rest
  BY <1>1 DEF HashAttributes, Poseidon
<1>3. a = [track |-> a.track, rest |-> a.rest] /\ b = [track |-> b.track, rest |-> b.rest]
  BY CircuitAssumption
<1> QED
  BY <1>1, <1>2, <1>3

LEMMA LeafIsNotZero == ASSUME NEW c, NEW a PROVE BuildLeaf(c, a) # ZeroField
  BY DEF BuildLeaf, HashTwo, Poseidon, ZeroField
-----------------------------------------------------------------------------
(* The served path leads to the root: level by level it meets the node over *)
(* the leaf, which at the top is the root.                                  *)
LEMMA CapacityType == \A n \in 0 .. Depth : Capacity[n] \in Nat
<1> DEFINE T == {n \in 0 .. Depth : Capacity[n] \in Nat}
<1>1. 0 \in T
  BY CapacityDef, CircuitAssumption
<1>2. \A n \in 1 .. Depth : n - 1 \in T => n \in T
  BY CapacityDef, CircuitAssumption
<1> HIDE DEF T
<1>3. 0 .. Depth \subseteq T
  BY <1>1, <1>2, Induction, CircuitAssumption
<1> QED
  BY <1>3 DEF T

LEMMA Halves == \A p \in Nat : /\ p \div 2 \in Nat /\ p % 2 \in {0, 1}
                               /\ p % 2 = 0 => p = 2 * (p \div 2)
                               /\ p % 2 = 1 => p = 2 * (p \div 2) + 1
  OBVIOUS

LEMMA PositionsMeetNodes ==
  ASSUME NEW S, NEW t \in Seq(S), Len(t) <= MaxLeaf, NEW i \in 0 .. Len(t) - 1
  PROVE  \A l \in 0 .. Depth : /\ Positions(i)[l] \in Nat
                               /\ Positions(i)[l] < Capacity[Depth - l]
                               /\ Positions(i)[l] \in DOMAIN Nodes(t)[l]
<1> DEFINE T == {l \in 0 .. Depth : /\ Positions(i)[l] \in Nat
                                     /\ Positions(i)[l] < Capacity[Depth - l]
                                     /\ Positions(i)[l] \in DOMAIN Nodes(t)[l]}
<1>1. 0 \in T
  <2>1. Positions(i)[0] = i /\ Nodes(t)[0] = [j \in 0 .. Len(t) - 1 |-> t[j + 1]]
    BY PositionsDef, NodesDef, CircuitAssumption
  <2>2. i < Capacity[Depth] /\ i \in Nat
    BY CapacityType, CircuitAssumption
  <2> QED
    BY <2>1, <2>2, CircuitAssumption
<1>2. ASSUME NEW l \in 1 .. Depth, l - 1 \in T PROVE l \in T
  <2> DEFINE p == Positions(i)[l - 1]
  <2>1. p \in Nat /\ p < Capacity[Depth - (l - 1)] /\ p \in DOMAIN Nodes(t)[l - 1]
    BY <1>2
  <2>2. Positions(i)[l] = p \div 2
    BY PositionsDef, CircuitAssumption
  <2>3. p \div 2 \in DOMAIN Nodes(t)[l]
    <3>1. Nodes(t)[l] = Above(Nodes(t)[l - 1], l - 1)
      BY NodesDef, CircuitAssumption
    <3> QED
      BY <2>1, <3>1 DEF Above
  <2>4. Capacity[Depth - (l - 1)] = 2 * Capacity[Depth - l] /\ Capacity[Depth - l] \in Nat
    <3> HIDE DEF T, p
    <3>1. Depth - (l - 1) \in 1 .. Depth /\ Depth - (l - 1) - 1 = Depth - l
          /\ Depth - l \in 0 .. Depth
      BY CircuitAssumption
    <3> QED
      BY <3>1, CapacityDef, CapacityType
  <2> HIDE DEF p
  <2>5. p \div 2 \in Nat /\ p \div 2 < Capacity[Depth - l]
    <3>1. 2 * (p \div 2) <= p /\ p \div 2 \in Nat
      BY <2>1, Halves
    <3> QED
      BY <2>1, <2>4, <3>1
  <2> QED
    BY <2>2, <2>3, <2>5
<1> HIDE DEF T
<1>3. 0 .. Depth \subseteq T
  BY <1>1, <1>2, Induction, CircuitAssumption
<1> QED
  BY <1>3 DEF T

RightSides(path) == [l \in 1 .. Depth |-> path.pathIndices[l] = 1]

LEMMA ServedPathLeadsToRoot ==
  ASSUME NEW S, NEW t \in Seq(S), Len(t) <= MaxLeaf, NEW i \in 0 .. Len(t) - 1
  PROVE  LET path == MerkleProof(t, i)
         IN Walk(t[i + 1], path.siblings, RightSides(path)) = path.root
<1> DEFINE path == MerkleProof(t, i)
           way  == WayUp(t[i + 1], path.siblings, RightSides(path))
           T    == {l \in 0 .. Depth : way[l] = Nodes(t)[l][Positions(i)[l]]}
<1>1. 0 \in T
  <2>1. way[0] = t[i + 1]
    BY WayUpDef, CircuitAssumption
  <2>2. Positions(i)[0] = i /\ Nodes(t)[0] = [j \in 0 .. Len(t) - 1 |-> t[j + 1]]
    BY PositionsDef, NodesDef, CircuitAssumption
  <2> QED
    BY <2>1, <2>2, CircuitAssumption
<1>2. ASSUME NEW l \in 1 .. Depth, l - 1 \in T PROVE l \in T
  <2> DEFINE p   == Positions(i)[l - 1]
             low == Nodes(t)[l - 1]
  <2>1. p \in Nat /\ p \in DOMAIN low /\ l - 1 \in 0 .. Depth
    BY PositionsMeetNodes, CircuitAssumption
  <2>2. way[l - 1] = low[p] /\ low[p] = NodeAt(low, l - 1, p)
    BY <1>2, <2>1 DEF NodeAt
  <2>3. /\ path.siblings[l] = Sibling(low, l - 1, p)
        /\ p % 2 = 1 => RightSides(path)[l]
        /\ p % 2 = 0 => ~RightSides(path)[l]
    <3>1. path.siblings[l] = Sibling(low, l - 1, p) /\ path.pathIndices[l] = p % 2
      BY DEF MerkleProof
    <3> HIDE DEF path, p, low
    <3>2. RightSides(path)[l] <=> path.pathIndices[l] = 1
      BY DEF RightSides
    <3>3. RightSides(path)[l] <=> p % 2 = 1
      BY <3>1, <3>2, Zenon
    <3>4. p % 2 = 0 => p % 2 # 1
      OBVIOUS
    <3> QED
      BY <3>1, <3>3, <3>4, Zenon
  <2>4. way[l] = IF RightSides(path)[l] THEN HashTwo(path.siblings[l], way[l - 1])
                                        ELSE HashTwo(way[l - 1], path.siblings[l])
    BY WayUpDef, CircuitAssumption
  <2>5. Nodes(t)[l] = Above(low, l - 1) /\ Positions(i)[l] = p \div 2
    BY NodesDef, PositionsDef, CircuitAssumption
  <2> HIDE DEF way, path, p, low
  <2>6. Nodes(t)[l][p \div 2] = HashTwo(NodeAt(low, l - 1, 2 * (p \div 2)),
                                        NodeAt(low, l - 1, 2 * (p \div 2) + 1))
    BY <2>1, <2>5 DEF Above
  <2>7. CASE p % 2 = 0
    <3>1. p = 2 * (p \div 2) /\ Sibling(low, l - 1, p) = NodeAt(low, l - 1, p + 1)
      BY <2>1, <2>7, Halves DEF Sibling
    <3>2. way[l] = HashTwo(NodeAt(low, l - 1, p), NodeAt(low, l - 1, p + 1))
      BY <2>2, <2>3, <2>4, <2>7, <3>1
    <3> QED
      BY <2>5, <2>6, <3>1, <3>2, CircuitAssumption
  <2>8. CASE p % 2 = 1
    <3>1. p = 2 * (p \div 2) + 1 /\ Sibling(low, l - 1, p) = NodeAt(low, l - 1, p - 1)
          /\ p - 1 = 2 * (p \div 2)
      BY <2>1, <2>8, Halves DEF Sibling
    <3>2. way[l] = HashTwo(NodeAt(low, l - 1, p - 1), NodeAt(low, l - 1, p))
      BY <2>2, <2>3, <2>4, <2>8, <3>1
    <3> QED
      BY <2>5, <2>6, <3>1, <3>2, CircuitAssumption
  <2> QED
    BY <2>1, <2>7, <2>8, Halves
<1>3. 0 .. Depth \subseteq T
  <2> HIDE DEF T
  <2> QED
    BY <1>1, <1>2, Induction, CircuitAssumption
<1>4. Positions(i)[Depth] = 0 /\ 0 \in DOMAIN Nodes(t)[Depth]
  <2>1. /\ Positions(i)[Depth] \in Nat /\ Positions(i)[Depth] < Capacity[0]
        /\ Positions(i)[Depth] \in DOMAIN Nodes(t)[Depth]
    BY PositionsMeetNodes, CircuitAssumption
  <2>2. Capacity[0] = 1
    BY CapacityDef, CircuitAssumption
  <2> QED
    BY <2>1, <2>2
<1>5. way[Depth] = Nodes(t)[Depth][0]
  BY <1>3, <1>4, CircuitAssumption
<1>6. path.root = Nodes(t)[Depth][0]
  BY <1>4 DEF MerkleProof, TreeRoot, NodeAt
<1> QED
  BY <1>5, <1>6 DEF Walk
-----------------------------------------------------------------------------
(* And nothing else does.  On the way down from the root every node is one   *)
(* the tree has on that level, since Poseidon is collision free: so is the    *)
(* leaf.                                                                     *)
Values(t, l) == {Nodes(t)[l][i] : i \in DOMAIN Nodes(t)[l]} \cup {ZeroNode[l]}

LEMMA NodeIsAValue ==
  ASSUME NEW t, NEW l, NEW i
  PROVE  NodeAt(Nodes(t)[l], l, i) \in Values(t, l)
  BY DEF NodeAt, Values

LEMMA ChildrenAreValues ==
  ASSUME NEW t, NEW l \in 1 .. Depth, NEW x, NEW y, HashTwo(x, y) \in Values(t, l)
  PROVE  x \in Values(t, l - 1) /\ y \in Values(t, l - 1)
<1> DEFINE low == Nodes(t)[l - 1]
<1>1. CASE HashTwo(x, y) = ZeroNode[l]
  <2>1. HashTwo(x, y) = HashTwo(ZeroNode[l - 1], ZeroNode[l - 1])
    BY <1>1, ZeroNodeDef
  <2>2. x = ZeroNode[l - 1] /\ y = ZeroNode[l - 1]
    BY <2>1, HashTwoIsInjective
  <2> QED
    BY <2>2 DEF Values
<1>2. CASE \E i \in DOMAIN Nodes(t)[l] : HashTwo(x, y) = Nodes(t)[l][i]
  <2>1. PICK i \in DOMAIN Nodes(t)[l] : HashTwo(x, y) = Nodes(t)[l][i]
    BY <1>2
  <2>2. Nodes(t)[l] = Above(low, l - 1)
    BY NodesDef
  <2>3. Above(low, l - 1)[i] = HashTwo(NodeAt(low, l - 1, 2 * i), NodeAt(low, l - 1, 2 * i + 1))
    BY <2>1, <2>2 DEF Above
  <2>4. HashTwo(x, y) = HashTwo(NodeAt(low, l - 1, 2 * i), NodeAt(low, l - 1, 2 * i + 1))
    BY <2>1, <2>2, <2>3
  <2>5. x = NodeAt(low, l - 1, 2 * i) /\ y = NodeAt(low, l - 1, 2 * i + 1)
    BY <2>4, HashTwoIsInjective
  <2> QED
    BY <2>5, NodeIsAValue
<1> QED
  BY <1>1, <1>2 DEF Values

LEMMA WayToRootStartsAtALeaf ==
  ASSUME NEW t, NEW leaf, NEW siblings, NEW isRight,
         Walk(leaf, siblings, isRight) = TreeRoot(t)
  PROVE  leaf \in {t[i + 1] : i \in 0 .. Len(t) - 1} \cup {ZeroField}
<1> DEFINE way == WayUp(leaf, siblings, isRight)
           T   == {k \in 0 .. Depth : way[Depth - k] \in Values(t, Depth - k)}
<1>1. 0 \in T
  <2>1. way[Depth] = TreeRoot(t)
    BY DEF Walk
  <2>2. way[Depth] \in Values(t, Depth)
    BY <2>1, NodeIsAValue DEF TreeRoot
  <2>3. Depth - 0 = Depth /\ 0 \in 0 .. Depth
    BY CircuitAssumption
  <2> HIDE DEF way
  <2> QED
    BY <2>2, <2>3
<1>2. ASSUME NEW k \in 1 .. Depth, k - 1 \in T PROVE k \in T
  <2> DEFINE l == Depth - (k - 1)
  <2>1. way[l] \in Values(t, l)
    BY <1>2
  <2>2. l \in 1 .. Depth /\ l - 1 = Depth - k
    BY CircuitAssumption
  <2>3. way[l] = IF isRight[l] THEN HashTwo(siblings[l], way[l - 1])
                               ELSE HashTwo(way[l - 1], siblings[l])
    BY <2>2, WayUpDef
  <2> HIDE DEF way, l
  <2>4. way[l - 1] \in Values(t, l - 1)
    BY <2>1, <2>2, <2>3, ChildrenAreValues
  <2> QED
    BY <2>2, <2>4, CircuitAssumption
<1>3. 0 .. Depth \subseteq T
  <2> HIDE DEF T
  <2> QED
    BY <1>1, <1>2, Induction, CircuitAssumption
<1>4. way[0] \in Values(t, 0)
  <2>1. Depth \in T /\ Depth - Depth = 0
    BY <1>3, CircuitAssumption
  <2> HIDE DEF way
  <2> QED
    BY <2>1
<1>5. way[0] = leaf
  BY WayUpDef
<1>6. Nodes(t)[0] = [i \in 0 .. Len(t) - 1 |-> t[i + 1]] /\ ZeroNode[0] = ZeroField
  BY NodesDef, ZeroNodeDef
<1>7. {Nodes(t)[0][i] : i \in DOMAIN Nodes(t)[0]} = {t[i + 1] : i \in 0 .. Len(t) - 1}
  BY <1>6
<1> QED
  BY <1>4, <1>5, <1>6, <1>7 DEF Values
-----------------------------------------------------------------------------
(* The tree and its pages.  A leaf is that of its credential, or zero; a     *)
(* path served while the credential was ACTIVE leads from the credential's    *)
(* leaf to the root it came with, and what a page shows is what proving with   *)
(* that path gives.                                                          *)
LeafOf(m) == BuildLeaf(m.commitment, m.attributes)

TreeInv == \A i \in DOMAIN minted : tree[i] = IF minted[i].active THEN LeafOf(minted[i]) ELSE ZeroField

Outcome(s, a, path, address) ==
  IF ~Preflight(s, a, path) THEN "LEAF_MISMATCH"
  ELSE IF ~Execute(s, a, path, address) THEN "EXECUTE"
  ELSE "proof"

ServedInv ==
  \A p \in ProvePage : page[p].at \in {"served", "done"} /\ page[p].live =>
    Walk(LeafOf(minted[page[p].credential]), page[p].path.siblings, RightSides(page[p].path))
      = page[p].path.root

OutcomeInv ==
  \A p \in ProvePage :
    page[p].outcome = IF page[p].at = "done"
                      THEN Outcome(page[p].secret, minted[page[p].credential].attributes,
                                   page[p].path, page[p].address)
                      ELSE "none"

CInv == CTypeOK /\ TreeInv /\ ServedInv /\ OutcomeInv

(* Minting adds rows and revoking clears a flag: whose a row is, and its      *)
(* attributes, never change.                                                 *)
RowsKept ==
  /\ DOMAIN minted \subseteq DOMAIN minted'
  /\ \A i \in DOMAIN minted : /\ minted'[i].commitment = minted[i].commitment
                              /\ minted'[i].attributes = minted[i].attributes

LEMMA RowType ==
  ASSUME CTypeOK, NEW i \in DOMAIN minted
  PROVE  /\ minted[i] = [commitment |-> minted[i].commitment,
                         attributes |-> minted[i].attributes, active |-> minted[i].active]
         /\ minted[i].commitment \in Commitments /\ minted[i].attributes \in Attribute
         /\ minted[i].active \in BOOLEAN
<1> DEFINE Row == [commitment : Commitments, attributes : Attribute, active : BOOLEAN]
<1>1. minted \in Seq(Row)
  BY DEF CTypeOK
<1> HIDE DEF Row
<1>2. minted[i] \in Row
  BY <1>1
<1> QED
  BY <1>2 DEF Row

LEMMA RowsAreKept == ASSUME CTypeOK, [CNext]_cvars PROVE RowsKept
<1>1. CASE MintCredential
  <2>1. PICK m : minted' = Append(minted, m)
    BY <1>1 DEF MintCredential
  <2> QED
    BY <2>1 DEF RowsKept, CTypeOK
<1>2. CASE RevokeCredential
  <2>1. PICK j \in DOMAIN minted : minted' = [minted EXCEPT ![j].active = FALSE]
    BY <1>2 DEF RevokeCredential
  <2>2. \A i \in DOMAIN minted : i # j => minted'[i] = minted[i]
    BY <2>1
  <2>3. /\ minted'[j].commitment = minted[j].commitment
        /\ minted'[j].attributes = minted[j].attributes
    BY <2>1, RowType
  <2>4. DOMAIN minted' = DOMAIN minted
    BY <2>1
  <2> QED
    BY <2>2, <2>3, <2>4 DEF RowsKept
<1>3. CASE \E p \in ProvePage : OpenPage(p) \/ ServePath(p) \/ Prove(p)
  <2>1. PICK p \in ProvePage : OpenPage(p) \/ ServePath(p) \/ Prove(p)
    BY <1>3
  <2>2. minted' = minted
    <3>1. OpenPage(p) => minted' = minted
      BY DEF OpenPage
    <3>2. ServePath(p) => minted' = minted
      BY DEF ServePath
    <3>3. Prove(p) => minted' = minted
      BY DEF Prove
    <3> QED
      BY <2>1, <3>1, <3>2, <3>3
  <2> QED
    BY <2>2 DEF RowsKept
<1>4. CASE UNCHANGED cvars
  BY <1>4 DEF RowsKept, cvars
<1> QED
  BY <1>1, <1>2, <1>3, <1>4 DEF CNext

LEMMA Initially == CInit => CInv
<1> SUFFICES ASSUME CInit PROVE CInv
  OBVIOUS
<1>1. Len(tree) = 0 /\ Len(minted) = 0 /\ DOMAIN minted = {} /\ 0 <= MaxLeaf
  BY CapacityType, CircuitAssumption DEF CInit
<1>2. CTypeOK
  <2>1. \A R : <<>> \in Seq(R)
    OBVIOUS
  <2>2. /\ minted \in Seq([commitment : Commitments, attributes : Attribute, active : BOOLEAN])
        /\ tree \in Seq({ZeroField} \cup {BuildLeaf(c, a) : c \in Commitments, a \in Attribute})
    <3> DEFINE Row == [commitment : Commitments, attributes : Attribute, active : BOOLEAN]
               Leaf == {ZeroField} \cup {BuildLeaf(c, a) : c \in Commitments, a \in Attribute}
    <3> HIDE DEF Row, Leaf
    <3>1. minted \in Seq(Row) /\ tree \in Seq(Leaf)
      BY <2>1 DEF CInit
    <3> QED
      BY <3>1 DEF Row, Leaf
  <2>3. DOMAIN page = ProvePage /\ \A p \in ProvePage : page[p] = NoPage
    BY DEF CInit
  <2>4. ASSUME NEW p \in ProvePage
        PROVE  LET k == page[p]
               IN /\ k = [at |-> k.at, credential |-> k.credential, live |-> k.live, path |-> k.path,
                          secret |-> k.secret, address |-> k.address, outcome |-> k.outcome]
                  /\ k.at \in {"closed", "row", "served", "done"} /\ k.live \in BOOLEAN
                  /\ k.at # "closed" => k.credential \in DOMAIN minted
                  /\ k.outcome \in {"none", "proof", "LEAF_MISMATCH", "EXECUTE"}
    <3>1. page[p] = NoPage
      BY <2>3
    <3> QED
      BY <3>1 DEF NoPage
  <2>5. Len(tree) = Len(minted) /\ Len(tree) <= MaxLeaf
    BY <1>1
  <2> QED
    BY <2>2, <2>3, <2>4, <2>5 DEF CTypeOK
<1>3. TreeInv /\ ServedInv /\ OutcomeInv
  BY <1>1 DEF CInit, TreeInv, ServedInv, OutcomeInv, NoPage
<1> QED
  BY <1>2, <1>3 DEF CInv

LEMMA MintKeeps == ASSUME CInv, MintCredential PROVE CInv'
<1>1. PICK s \in Secret, a \in Attribute :
        /\ tree' = Append(tree, BuildLeaf(Commit(s), a))
        /\ minted' = Append(minted, [commitment |-> Commit(s), attributes |-> a, active |-> TRUE])
  BY DEF MintCredential
<1> DEFINE m  == [commitment |-> Commit(s), attributes |-> a, active |-> TRUE]
           Row == [commitment : Commitments, attributes : Attribute, active : BOOLEAN]
           Leaf == {ZeroField} \cup {BuildLeaf(c, b) : c \in Commitments, b \in Attribute}
<1>2. m \in Row /\ BuildLeaf(Commit(s), a) \in Leaf
  BY DEF Commitments
<1>3. /\ minted \in Seq(Row) /\ tree \in Seq(Leaf) /\ Len(tree) = Len(minted)
      /\ Len(tree) < MaxLeaf /\ page' = page
  BY DEF CInv, CTypeOK, MintCredential
<1>4. MaxLeaf \in Nat
  BY CapacityType, CircuitAssumption
<1>5. m.active = TRUE /\ LeafOf(m) = BuildLeaf(Commit(s), a)
  BY DEF LeafOf
<1> HIDE DEF m, Row, Leaf
<1>6. /\ minted' \in Seq(Row) /\ tree' \in Seq(Leaf)
      /\ Len(tree') = Len(tree) + 1 /\ Len(minted') = Len(minted) + 1
      /\ DOMAIN minted' = DOMAIN minted \cup {Len(minted) + 1}
      /\ \A i \in DOMAIN minted : minted'[i] = minted[i] /\ tree'[i] = tree[i]
      /\ minted'[Len(minted) + 1] = m /\ tree'[Len(minted) + 1] = BuildLeaf(Commit(s), a)
  BY <1>1, <1>2, <1>3 DEF m
<1>7. CTypeOK'
  <2>1. Len(tree') = Len(minted') /\ Len(tree') <= MaxLeaf
    BY <1>3, <1>4, <1>6
  <2>2. \A p \in ProvePage : page[p].at # "closed" => page[p].credential \in DOMAIN minted'
    BY <1>6 DEF CInv, CTypeOK
  <2> QED
    BY <1>3, <1>6, <2>1, <2>2 DEF CInv, CTypeOK, Row, Leaf
<1>8. TreeInv'
  <2> SUFFICES ASSUME NEW i \in DOMAIN minted'
               PROVE  tree'[i] = IF minted'[i].active THEN LeafOf(minted'[i]) ELSE ZeroField
    BY DEF TreeInv, LeafOf
  <2>1. CASE i \in DOMAIN minted
    BY <1>6, <2>1 DEF CInv, TreeInv
  <2>2. CASE i = Len(minted) + 1
    BY <1>5, <1>6, <2>2
  <2> QED
    BY <1>6, <2>1, <2>2
<1>9. ServedInv'
  BY <1>3, <1>6 DEF CInv, CTypeOK, ServedInv, LeafOf
<1>10. OutcomeInv'
  BY <1>3, <1>6 DEF CInv, CTypeOK, OutcomeInv, Outcome, Preflight, Execute
<1> QED
  BY <1>7, <1>8, <1>9, <1>10 DEF CInv

LEMMA RevokeKeeps == ASSUME CInv, RevokeCredential PROVE CInv'
<1>1. PICK j \in DOMAIN minted : /\ minted' = [minted EXCEPT ![j].active = FALSE]
                                 /\ tree' = [tree EXCEPT ![j] = ZeroField]
  BY DEF RevokeCredential
<1> DEFINE Row == [commitment : Commitments, attributes : Attribute, active : BOOLEAN]
           Leaf == {ZeroField} \cup {BuildLeaf(c, b) : c \in Commitments, b \in Attribute}
<1>2. /\ minted \in Seq(Row) /\ tree \in Seq(Leaf) /\ Len(tree) = Len(minted)
      /\ DOMAIN tree = DOMAIN minted /\ page' = page
  BY DEF CInv, CTypeOK, RevokeCredential
<1>3. /\ minted'[j] = [commitment |-> minted[j].commitment,
                      attributes |-> minted[j].attributes, active |-> FALSE]
      /\ minted'[j] \in Row
  <2>1. minted'[j] = [minted[j] EXCEPT !.active = FALSE]
    BY <1>1
  <2>2. /\ minted[j] = [commitment |-> minted[j].commitment,
                        attributes |-> minted[j].attributes, active |-> minted[j].active]
        /\ minted[j].commitment \in Commitments /\ minted[j].attributes \in Attribute
    BY RowType DEF CInv
  <2>3. minted'[j] = [commitment |-> minted[j].commitment,
                      attributes |-> minted[j].attributes, active |-> FALSE]
    BY <2>1, <2>2
  <2> QED
    BY <2>2, <2>3
<1>4. ZeroField \in Leaf
  OBVIOUS
<1> HIDE DEF Row, Leaf
<1>5. /\ DOMAIN minted' = DOMAIN minted /\ DOMAIN tree' = DOMAIN tree
      /\ \A i \in DOMAIN minted : i # j => minted'[i] = minted[i] /\ tree'[i] = tree[i]
      /\ tree'[j] = ZeroField /\ minted'[j].active = FALSE
  BY <1>1, <1>2, <1>3
<1>6. /\ minted' \in Seq(Row) /\ tree' \in Seq(Leaf)
      /\ Len(tree') = Len(tree) /\ Len(minted') = Len(minted)
  <2>1. minted' = [minted EXCEPT ![j] = minted'[j]]
    BY <1>1, <1>2
  <2> QED
    BY <1>1, <1>2, <1>3, <1>4, <2>1
<1>7. CTypeOK'
  BY <1>2, <1>5, <1>6 DEF CInv, CTypeOK, Row, Leaf
<1>8. TreeInv'
  <2> SUFFICES ASSUME NEW i \in DOMAIN minted'
               PROVE  tree'[i] = IF minted'[i].active THEN LeafOf(minted'[i]) ELSE ZeroField
    BY DEF TreeInv, LeafOf
  <2>1. CASE i = j
    BY <1>5, <2>1
  <2>2. CASE i # j
    BY <1>5, <2>2 DEF CInv, TreeInv
  <2> QED
    BY <2>1, <2>2
<1>9. RowsKept
  BY RowsAreKept DEF CInv, CNext
<1>10. ServedInv'
  BY <1>2, <1>9 DEF CInv, CTypeOK, ServedInv, LeafOf, RowsKept
<1>11. OutcomeInv'
  <2> SUFFICES ASSUME NEW p \in ProvePage
               PROVE  page[p].outcome
                        = IF page[p].at = "done"
                          THEN Outcome(page[p].secret, minted'[page[p].credential].attributes,
                                       page[p].path, page[p].address)
                          ELSE "none"
    BY <1>2 DEF OutcomeInv, Outcome, Preflight, Execute
  <2>1. page[p].at = "done" =>
          minted'[page[p].credential].attributes = minted[page[p].credential].attributes
    BY <1>9 DEF CInv, CTypeOK, RowsKept
  <2> QED
    BY <2>1 DEF CInv, OutcomeInv
<1> QED
  BY <1>7, <1>8, <1>10, <1>11 DEF CInv

(* What a page's step does to it, and that it leaves the other pages alone.  *)
LEMMA PageType ==
  ASSUME CTypeOK, NEW p \in ProvePage
  PROVE  page[p] = [at |-> page[p].at, credential |-> page[p].credential, live |-> page[p].live,
                    path |-> page[p].path, secret |-> page[p].secret,
                    address |-> page[p].address, outcome |-> page[p].outcome]
  BY DEF CTypeOK

LEMMA OpenKeeps == ASSUME CInv, NEW p \in ProvePage, OpenPage(p) PROVE CInv'
<1>1. PICK i \in DOMAIN minted : page' = [page EXCEPT ![p].at = "row", ![p].credential = i]
  BY DEF OpenPage
<1>2. tree' = tree /\ minted' = minted /\ page[p].at = "closed"
  BY DEF OpenPage
<1>3. /\ DOMAIN page' = ProvePage
      /\ page'[p] = [at |-> "row", credential |-> i, live |-> page[p].live,
                     path |-> page[p].path, secret |-> page[p].secret,
                     address |-> page[p].address, outcome |-> page[p].outcome]
      /\ \A q \in ProvePage : q # p => page'[q] = page[q]
  <2>1. DOMAIN page = ProvePage
    BY DEF CInv, CTypeOK
  <2>2. page'[p] = [page[p] EXCEPT !.at = "row", !.credential = i]
    BY <1>1, <2>1
  <2> QED
    BY <1>1, <2>1, <2>2, PageType DEF CInv
<1>4. CTypeOK'
  BY <1>1, <1>2, <1>3 DEF CInv, CTypeOK
<1>5. TreeInv'
  BY <1>2 DEF CInv, TreeInv, LeafOf
<1>6. ServedInv'
  BY <1>2, <1>3 DEF CInv, ServedInv, LeafOf
<1>7. OutcomeInv'
  <2>1. page[p].outcome = "none"
    BY <1>2 DEF CInv, OutcomeInv
  <2> QED
    BY <1>2, <1>3, <2>1 DEF CInv, OutcomeInv, Outcome, Preflight, Execute
<1> QED
  BY <1>4, <1>5, <1>6, <1>7 DEF CInv

LEMMA ServeKeeps == ASSUME CInv, NEW p \in ProvePage, ServePath(p) PROVE CInv'
<1> DEFINE c    == page[p].credential
           path == MerkleProof(tree, c - 1)
<1>1. /\ tree' = tree /\ minted' = minted /\ page[p].at = "row"
      /\ page' = [page EXCEPT ![p].at = "served", ![p].live = minted[c].active, ![p].path = path]
  BY DEF ServePath
<1>2. c \in DOMAIN minted
  BY <1>1 DEF CInv, CTypeOK
<1>3. Walk(tree[c], path.siblings, RightSides(path)) = path.root
  <2> DEFINE Leaf == {ZeroField} \cup {BuildLeaf(d, b) : d \in Commitments, b \in Attribute}
  <2>1. /\ tree \in Seq(Leaf) /\ Len(tree) = Len(minted) /\ Len(tree) <= MaxLeaf
        /\ DOMAIN minted = 1 .. Len(minted) /\ Len(minted) \in Nat
    BY DEF CInv, CTypeOK
  <2> HIDE DEF Leaf, path, c
  <2>2. c - 1 \in 0 .. Len(tree) - 1 /\ (c - 1) + 1 = c
    BY <1>2, <2>1
  <2> QED
    BY <2>1, <2>2, ServedPathLeadsToRoot DEF path
<1>4. minted[c].active => tree[c] = LeafOf(minted[c])
  BY <1>2 DEF CInv, TreeInv
<1>5. minted[c].active \in BOOLEAN
  BY <1>2, RowType DEF CInv
<1> HIDE DEF path
<1>6. /\ DOMAIN page' = ProvePage
      /\ page'[p] = [at |-> "served", credential |-> c, live |-> minted[c].active,
                     path |-> path, secret |-> page[p].secret,
                     address |-> page[p].address, outcome |-> page[p].outcome]
      /\ \A q \in ProvePage : q # p => page'[q] = page[q]
  <2>1. DOMAIN page = ProvePage
    BY DEF CInv, CTypeOK
  <2>2. page'[p] = [page[p] EXCEPT !.at = "served", !.live = minted[c].active, !.path = path]
    BY <1>1, <2>1
  <2> QED
    BY <1>1, <2>1, <2>2, PageType DEF CInv
<1>7. CTypeOK'
  BY <1>1, <1>2, <1>5, <1>6 DEF CInv, CTypeOK
<1>8. TreeInv'
  BY <1>1 DEF CInv, TreeInv, LeafOf
<1>9. ServedInv'
  <2> SUFFICES ASSUME NEW q \in ProvePage, page'[q].at \in {"served", "done"}, page'[q].live
               PROVE  Walk(LeafOf(minted[page'[q].credential]), page'[q].path.siblings,
                           RightSides(page'[q].path)) = page'[q].path.root
    BY <1>1, Zenon DEF ServedInv, LeafOf, RightSides
  <2>1. CASE q = p
    BY <1>3, <1>4, <1>6, <2>1
  <2>2. CASE q # p
    BY <1>6, <2>2 DEF CInv, ServedInv
  <2> QED
    BY <2>1, <2>2
<1>10. OutcomeInv'
  <2>1. page[p].outcome = "none"
    BY <1>1 DEF CInv, OutcomeInv
  <2> SUFFICES ASSUME NEW q \in ProvePage
               PROVE  page'[q].outcome
                        = IF page'[q].at = "done"
                          THEN Outcome(page'[q].secret, minted[page'[q].credential].attributes,
                                       page'[q].path, page'[q].address)
                          ELSE "none"
    BY <1>1, Zenon DEF OutcomeInv, Outcome, Preflight, Execute
  <2>2. CASE q = p
    BY <1>6, <2>1, <2>2
  <2>3. CASE q # p
    BY <1>6, <2>3 DEF CInv, OutcomeInv
  <2> QED
    BY <2>2, <2>3
<1> QED
  BY <1>7, <1>8, <1>9, <1>10 DEF CInv

LEMMA ProveKeeps == ASSUME CInv, NEW p \in ProvePage, Prove(p) PROVE CInv'
<1> DEFINE a    == minted[page[p].credential].attributes
           path == page[p].path
<1>1. PICK s \in Secret, address \in Address :
        page' = [page EXCEPT ![p].at = "done", ![p].outcome = Outcome(s, a, path, address),
                             ![p].secret = s, ![p].address = address]
  BY Zenon DEF Prove, Outcome
<1>2. tree' = tree /\ minted' = minted /\ page[p].at \in {"served", "done"}
  BY DEF Prove
<1>3. /\ DOMAIN page' = ProvePage
      /\ page'[p] = [at |-> "done", credential |-> page[p].credential, live |-> page[p].live,
                     path |-> path, secret |-> s, address |-> address,
                     outcome |-> Outcome(s, a, path, address)]
      /\ \A q \in ProvePage : q # p => page'[q] = page[q]
  <2>1. DOMAIN page = ProvePage
    BY DEF CInv, CTypeOK
  <2> DEFINE o == Outcome(s, a, path, address)
  <2>2. page'[p] = [page[p] EXCEPT !.at = "done", !.outcome = o, !.secret = s, !.address = address]
    BY <1>1, <2>1
  <2> HIDE DEF o
  <2>3. page'[p] = [at |-> "done", credential |-> page[p].credential, live |-> page[p].live,
                    path |-> page[p].path, secret |-> s, address |-> address, outcome |-> o]
    BY <2>2, PageType DEF CInv
  <2>4. DOMAIN page' = ProvePage /\ \A q \in ProvePage : q # p => page'[q] = page[q]
    BY <1>1, <2>1
  <2> QED
    BY <2>3, <2>4 DEF o
<1>4. Outcome(s, a, path, address) \in {"proof", "LEAF_MISMATCH", "EXECUTE"}
  BY DEF Outcome
<1>5. CTypeOK'
  BY <1>2, <1>3, <1>4 DEF CInv, CTypeOK
<1>6. TreeInv'
  BY <1>2 DEF CInv, TreeInv, LeafOf
<1>7. ServedInv'
  BY <1>2, <1>3 DEF CInv, ServedInv, LeafOf
<1>8. OutcomeInv'
  <2> SUFFICES ASSUME NEW q \in ProvePage
               PROVE  page'[q].outcome
                        = IF page'[q].at = "done"
                          THEN Outcome(page'[q].secret, minted[page'[q].credential].attributes,
                                       page'[q].path, page'[q].address)
                          ELSE "none"
    BY <1>2 DEF OutcomeInv, Outcome, Preflight, Execute
  <2>1. CASE q = p
    BY <1>3, <2>1
  <2>2. CASE q # p
    BY <1>3, <2>2 DEF CInv, OutcomeInv
  <2> QED
    BY <2>1, <2>2
<1> QED
  BY <1>5, <1>6, <1>7, <1>8 DEF CInv

THEOREM CircuitInvariance == CSpec => []CInv
<1>1. CInit => CInv
  BY Initially
<1>2. CInv /\ [CNext]_cvars => CInv'
  <2> SUFFICES ASSUME CInv, [CNext]_cvars PROVE CInv'
    OBVIOUS
  <2>1. CASE UNCHANGED cvars
    BY <2>1 DEF cvars, CInv, CTypeOK, TreeInv, ServedInv, OutcomeInv
  <2>2. CASE CNext
    BY <2>2, MintKeeps, RevokeKeeps, OpenKeeps, ServeKeeps, ProveKeeps DEF CNext
  <2> QED
    BY <2>1, <2>2
<1> QED
  BY <1>1, <1>2, PTL DEF CSpec

(* The tree holds the leaves of the credentials minted, one each, and every  *)
(* page is on one of its steps (schema.prisma, ProvePanel.tsx).               *)
THEOREM CircuitTypeCorrect == CSpec => []CTypeOK
<1>1. CInv => CTypeOK
  BY DEF CInv
<1> QED
  BY <1>1, CircuitInvariance, PTL
-----------------------------------------------------------------------------
(* A witness the circuit accepts under the tree's root, whatever its         *)
(* siblings, its sides and its other public inputs, is the secret and the     *)
(* attributes of an ACTIVE credential.                                       *)
EveryWitnessIsIssued ==
  \A s, siblings, isRight, pub : \A a \in Attribute :
    pub.root = TreeRoot(tree) /\ Main(s, a, siblings, isRight, pub) => Issued(s, a)

LEMMA WitnessIsIssued == CInv => EveryWitnessIsIssued
<1> SUFFICES ASSUME CInv, NEW s, NEW siblings, NEW isRight, NEW pub, NEW a \in Attribute,
                    pub.root = TreeRoot(tree), Main(s, a, siblings, isRight, pub)
             PROVE  Issued(s, a)
  BY DEF EveryWitnessIsIssued
<1> DEFINE leaf == BuildLeaf(Commit(s), a)
<1>1. Walk(leaf, siblings, isRight) = TreeRoot(tree)
  BY DEF Main
<1>2. leaf # ZeroField
  BY LeafIsNotZero
<1> HIDE DEF leaf
<1>3. PICK i \in 0 .. Len(tree) - 1 : leaf = tree[i + 1]
  BY <1>1, <1>2, WayToRootStartsAtALeaf
<1>4. i + 1 \in DOMAIN minted
  BY <1>3 DEF CInv, CTypeOK
<1>5. minted[i + 1].active /\ leaf = LeafOf(minted[i + 1])
  BY <1>2, <1>3, <1>4 DEF CInv, TreeInv
<1>6. minted[i + 1].attributes \in Attribute
  BY <1>4, RowType DEF CInv
<1>7. minted[i + 1].commitment = Commit(s) /\ minted[i + 1].attributes = a
  BY <1>5, <1>6, LeafIsInjective DEF leaf, LeafOf
<1> QED
  BY <1>4, <1>5, <1>7 DEF Issued

(* Nobody proves a credential that is not there: for trees of any depth, and *)
(* witnesses of any values, not only those the run tries (main.nr:31-52).     *)
THEOREM NoWitnessIsForged == CSpec => []EveryWitnessIsIssued
  BY WitnessIsIssued, CircuitInvariance, PTL

(* The same, over the values the run tries.                                  *)
THEOREM OnlyIssuedProve == CSpec => []OnlyIssuedCredentialsProve
<1>1. CInv => OnlyIssuedCredentialsProve
  <2> SUFFICES ASSUME CInv, NEW s \in Secret, NEW a \in Attribute, NEW address \in Address,
                      NEW siblings \in [1 .. Depth -> Known], NEW isRight \in [1 .. Depth -> BOOLEAN],
                      Main(s, a, siblings, isRight, PublicInputs(s, a, TreeRoot(tree), address))
               PROVE  Issued(s, a)
    BY Zenon DEF OnlyIssuedCredentialsProve
  <2> DEFINE pub == PublicInputs(s, a, TreeRoot(tree), address)
  <2>1. pub.root = TreeRoot(tree)
    BY DEF PublicInputs
  <2> HIDE DEF pub
  <2>2. EveryWitnessIsIssued
    BY WitnessIsIssued
  <2> QED
    BY <2>1, <2>2, Zenon DEF EveryWitnessIsIssued, pub
<1> QED
  BY <1>1, CircuitInvariance, PTL
-----------------------------------------------------------------------------
(* With the holder's secret, the preflight passes on a path served while the *)
(* credential was ACTIVE; past the preflight only the address can fail.       *)
LEMMA LiveServedPathPasses ==
  ASSUME CInv, NEW p \in ProvePage, page[p].at = "done", page[p].live,
         minted[page[p].credential].commitment = Commit(page[p].secret)
  PROVE  Preflight(page[p].secret, minted[page[p].credential].attributes, page[p].path)
<1> DEFINE m    == minted[page[p].credential]
           path == page[p].path
<1>1. Walk(LeafOf(m), path.siblings, RightSides(path)) = path.root
  BY DEF CInv, ServedInv
<1>2. LeafOf(m) = BuildLeaf(Commit(page[p].secret), m.attributes)
  BY DEF LeafOf
<1> QED
  BY <1>1, <1>2, Zenon DEF Preflight, RightSides

LEMMA OnlyAddressFails ==
  ASSUME NEW s, NEW a, NEW path, NEW address, Preflight(s, a, path), address # ZeroField
  PROVE  Execute(s, a, path, address)
<1> DEFINE pub == PublicInputs(s, a, path.root, address)
<1>1. /\ pub.root = path.root /\ pub.boundAddress = address
      /\ pub.nullifier = ComputeNullifier(s, pub.scope) /\ pub.disclosed = HashOne(a.track)
  BY DEF PublicInputs
<1> HIDE DEF pub
<1>2. Walk(BuildLeaf(Commit(s), a), path.siblings, [l \in 1 .. Depth |-> path.pathIndices[l] = 1])
        = pub.root
  BY <1>1 DEF Preflight
<1>3. Main(s, a, path.siblings, [l \in 1 .. Depth |-> path.pathIndices[l] = 1], pub)
  BY <1>1, <1>2, Zenon DEF Main
<1> QED
  BY <1>3 DEF Execute, pub

(* A served path proves, however many leaves were added or zeroed since      *)
(* (merkle.service.ts:48-61, prover.client.ts:136-153).                     *)
THEOREM ServedPathsProve == CSpec => []ServedPathProves
<1>1. CInv => ServedPathProves
  <2> SUFFICES ASSUME CInv, NEW p \in ProvePage, page[p].at = "done", page[p].live,
                      page[p].address # ZeroField,
                      minted[page[p].credential].commitment = Commit(page[p].secret)
               PROVE  page[p].outcome = "proof"
    BY DEF ServedPathProves
  <2> DEFINE a    == minted[page[p].credential].attributes
             path == page[p].path
  <2>1. page[p].outcome = Outcome(page[p].secret, a, path, page[p].address)
    BY DEF CInv, OutcomeInv
  <2>2. Preflight(page[p].secret, a, path)
    BY LiveServedPathPasses
  <2>3. Execute(page[p].secret, a, path, page[p].address)
    BY <2>2, OnlyAddressFails
  <2> QED
    BY <2>1, <2>2, <2>3 DEF Outcome
<1> QED
  BY <1>1, CircuitInvariance, PTL

(* What the page says of a failure is so (prover.client.ts:137).             *)
THEOREM FailuresHaveTheirReason == CSpec => []FailuresAreExplained
<1>1. CInv => FailuresAreExplained
  <2> SUFFICES ASSUME CInv, NEW p \in ProvePage
               PROVE  /\ page[p].outcome = "EXECUTE" => page[p].address = ZeroField
                      /\ page[p].outcome = "LEAF_MISMATCH" =>
                           \/ ~page[p].live
                           \/ minted[page[p].credential].commitment # Commit(page[p].secret)
    BY DEF FailuresAreExplained
  <2> DEFINE a    == minted[page[p].credential].attributes
             path == page[p].path
  <2>1. page[p].outcome = IF page[p].at = "done"
                          THEN Outcome(page[p].secret, a, path, page[p].address)
                          ELSE "none"
    BY DEF CInv, OutcomeInv
  <2>2. ASSUME page[p].outcome = "EXECUTE" PROVE page[p].address = ZeroField
    <3>1. Preflight(page[p].secret, a, path) /\ ~Execute(page[p].secret, a, path, page[p].address)
      BY <2>1, <2>2 DEF Outcome
    <3> QED
      BY <3>1, OnlyAddressFails
  <2>3. ASSUME page[p].outcome = "LEAF_MISMATCH", page[p].live,
               minted[page[p].credential].commitment = Commit(page[p].secret)
        PROVE  FALSE
    <3>1. page[p].at = "done" /\ ~Preflight(page[p].secret, a, path)
      BY <2>1, <2>3 DEF Outcome
    <3> QED
      BY <2>3, <3>1, LiveServedPathPasses
  <2> QED
    BY <2>2, <2>3
<1> QED
  BY <1>1, CircuitInvariance, PTL
-----------------------------------------------------------------------------
(* What a root commits to.  A node is the hash of the two below it, and a   *)
(* node beyond the leaves is that of a subtree of zeros all the same.       *)
Node(t, l, i) == NodeAt(Nodes(t)[l], l, i)

(* The leaf of an index, zero beyond the last.                              *)
LeafAt(t, i) == IF i \in 0 .. Len(t) - 1 THEN t[i + 1] ELSE ZeroField

LEMMA NodeIsHash ==
  ASSUME NEW t, NEW l \in 1 .. Depth, NEW i \in Nat
  PROVE  Node(t, l, i) = HashTwo(Node(t, l - 1, 2 * i), Node(t, l - 1, 2 * i + 1))
<1> DEFINE low == Nodes(t)[l - 1]
<1>1. Nodes(t)[l] = Above(low, l - 1) /\ DOMAIN Above(low, l - 1) = {j \div 2 : j \in DOMAIN low}
  BY NodesDef DEF Above
<1>2. (2 * i) \div 2 = i /\ (2 * i + 1) \div 2 = i
  OBVIOUS
<1> HIDE DEF low
<1>3. CASE i \in DOMAIN Above(low, l - 1)
  <2>1. Node(t, l, i) = Above(low, l - 1)[i]
    BY <1>1, <1>3 DEF Node, NodeAt
  <2>2. Above(low, l - 1)[i] = HashTwo(NodeAt(low, l - 1, 2 * i), NodeAt(low, l - 1, 2 * i + 1))
    BY <1>3 DEF Above
  <2> QED
    BY <2>1, <2>2 DEF Node, low
<1>4. CASE i \notin DOMAIN Above(low, l - 1)
  <2>1. 2 * i \notin DOMAIN low /\ 2 * i + 1 \notin DOMAIN low
    BY <1>1, <1>2, <1>4
  <2>2. /\ Node(t, l, i) = ZeroNode[l]
        /\ Node(t, l - 1, 2 * i) = ZeroNode[l - 1]
        /\ Node(t, l - 1, 2 * i + 1) = ZeroNode[l - 1]
    BY <1>1, <1>4, <2>1 DEF Node, NodeAt, low
  <2> QED
    BY <2>2, ZeroNodeDef
<1> QED
  BY <1>3, <1>4

(* Do two trees agree on a level? If they agree on one they agree on the one *)
(* below, for Poseidon is collision free, and on the one above.             *)
AgreeOn(t, u, l) == \A i \in 0 .. Capacity[Depth - l] - 1 : Node(t, l, i) = Node(u, l, i)

LEMMA LevelsAgree ==
  ASSUME NEW t, NEW u, NEW l \in 1 .. Depth
  PROVE  AgreeOn(t, u, l) <=> AgreeOn(t, u, l - 1)
<1> DEFINE n == Capacity[Depth - l]
<1>1. n \in Nat /\ Capacity[Depth - (l - 1)] = 2 * n
  <2>1. Depth - (l - 1) \in 1 .. Depth /\ Depth - (l - 1) - 1 = Depth - l
        /\ Depth - l \in 0 .. Depth
    BY CircuitAssumption
  <2> QED
    BY <2>1, CapacityDef, CapacityType
<1> HIDE DEF n
<1>2. ASSUME AgreeOn(t, u, l) PROVE AgreeOn(t, u, l - 1)
  <2> SUFFICES ASSUME NEW j \in 0 .. 2 * n - 1 PROVE Node(t, l - 1, j) = Node(u, l - 1, j)
    BY <1>1 DEF AgreeOn
  <2> DEFINE i == j \div 2
  <2>1. i \in 0 .. n - 1 /\ i \in Nat /\ (j = 2 * i \/ j = 2 * i + 1)
    BY <1>1
  <2> HIDE DEF i
  <2>2. Node(t, l, i) = Node(u, l, i)
    BY <1>2, <2>1 DEF AgreeOn, n
  <2>3. HashTwo(Node(t, l - 1, 2 * i), Node(t, l - 1, 2 * i + 1))
          = HashTwo(Node(u, l - 1, 2 * i), Node(u, l - 1, 2 * i + 1))
    BY <2>1, <2>2, NodeIsHash
  <2> QED
    BY <2>1, <2>3, HashTwoIsInjective
<1>3. ASSUME AgreeOn(t, u, l - 1) PROVE AgreeOn(t, u, l)
  <2> SUFFICES ASSUME NEW i \in 0 .. n - 1 PROVE Node(t, l, i) = Node(u, l, i)
    BY DEF AgreeOn, n
  <2>1. i \in Nat /\ 2 * i \in 0 .. 2 * n - 1 /\ 2 * i + 1 \in 0 .. 2 * n - 1
    BY <1>1
  <2>2. /\ Node(t, l - 1, 2 * i) = Node(u, l - 1, 2 * i)
        /\ Node(t, l - 1, 2 * i + 1) = Node(u, l - 1, 2 * i + 1)
    BY <1>1, <1>3, <2>1 DEF AgreeOn
  <2> QED
    BY <2>1, <2>2, NodeIsHash
<1> QED
  BY <1>2, <1>3

(* MerkleService's root commits to exactly the leaves and their indexes: two *)
(* lists of leaves, none longer than the tree has room for, have one root if *)
(* and only if they have the same leaf at every index, where zeros at the    *)
(* end do not count.  Issuance takes a root for the set of its leaves.       *)
THEOREM RootsCommitToLeaves ==
  ASSUME NEW t, NEW u
  PROVE  TreeRoot(t) = TreeRoot(u) <=>
           \A i \in 0 .. Capacity[Depth] - 1 : LeafAt(t, i) = LeafAt(u, i)
<1> DEFINE Down == {k \in 0 .. Depth : AgreeOn(t, u, Depth) => AgreeOn(t, u, Depth - k)}
           Up   == {l \in 0 .. Depth : AgreeOn(t, u, 0) => AgreeOn(t, u, l)}
<1>1. AgreeOn(t, u, Depth) => AgreeOn(t, u, 0)
  <2>1. 0 \in Down /\ \A k \in 1 .. Depth : k - 1 \in Down => k \in Down
    <3>1. 0 \in Down
      BY CircuitAssumption
    <3>2. ASSUME NEW k \in 1 .. Depth, k - 1 \in Down PROVE k \in Down
      <4>1. Depth - (k - 1) \in 1 .. Depth /\ (Depth - (k - 1)) - 1 = Depth - k /\ k \in 0 .. Depth
        BY CircuitAssumption
      <4>2. AgreeOn(t, u, Depth - (k - 1)) <=> AgreeOn(t, u, Depth - k)
        BY <4>1, LevelsAgree
      <4> QED
        BY <3>2, <4>1, <4>2
    <3> QED
      BY <3>1, <3>2
  <2> HIDE DEF Down
  <2>2. Depth \in Down
    BY <2>1, Induction, CircuitAssumption
  <2> QED
    BY <2>2, CircuitAssumption DEF Down
<1>2. AgreeOn(t, u, 0) => AgreeOn(t, u, Depth)
  <2>1. 0 \in Up /\ \A l \in 1 .. Depth : l - 1 \in Up => l \in Up
    BY LevelsAgree, CircuitAssumption
  <2> HIDE DEF Up
  <2>2. Depth \in Up
    BY <2>1, Induction, CircuitAssumption
  <2> QED
    BY <2>2 DEF Up
<1>3. AgreeOn(t, u, Depth) <=> TreeRoot(t) = TreeRoot(u)
  <2>1. Capacity[Depth - Depth] = 1 /\ 0 .. 1 - 1 = {0}
    BY CapacityDef, CircuitAssumption
  <2> QED
    BY <2>1 DEF AgreeOn, TreeRoot, Node
<1>4. ASSUME NEW i PROVE Node(t, 0, i) = LeafAt(t, i) /\ Node(u, 0, i) = LeafAt(u, i)
  <2>1. /\ Nodes(t)[0] = [j \in 0 .. Len(t) - 1 |-> t[j + 1]]
        /\ Nodes(u)[0] = [j \in 0 .. Len(u) - 1 |-> u[j + 1]]
        /\ ZeroNode[0] = ZeroField
    BY NodesDef, ZeroNodeDef
  <2> QED
    BY <2>1 DEF Node, NodeAt, LeafAt
<1>5. AgreeOn(t, u, 0) <=> \A i \in 0 .. Capacity[Depth] - 1 : LeafAt(t, i) = LeafAt(u, i)
  <2>1. Depth - 0 = Depth
    BY CircuitAssumption
  <2> QED
    BY <1>4, <2>1 DEF AgreeOn
<1> QED
  BY <1>1, <1>2, <1>3, <1>5

(* As Issuance has it: the root of a list of leaves stands for the pairs of  *)
(* an index and a leaf that is not zero.                                    *)
LeafSet(t) == {<<i, t[i]>> : i \in {j \in DOMAIN t : t[j] # ZeroField}}

(* Issuance's model of what MerkleService computes loses nothing and adds     *)
(* nothing: two trees have one root exactly if those sets are equal.         *)
THEOREM RootIsItsLeafSet ==
  ASSUME NEW S, NEW T, NEW t \in Seq(S), NEW u \in Seq(T),
         Len(t) <= Capacity[Depth], Len(u) <= Capacity[Depth]
  PROVE  TreeRoot(t) = TreeRoot(u) <=> LeafSet(t) = LeafSet(u)
<1> DEFINE N == Capacity[Depth]
<1>1. /\ N \in Nat /\ Len(t) \in Nat /\ Len(u) \in Nat
      /\ DOMAIN t = 1 .. Len(t) /\ DOMAIN u = 1 .. Len(u)
  BY CapacityType, CircuitAssumption
<1>2. /\ \A i \in 1 .. N : \A x : <<i, x>> \in LeafSet(t) <=> x = LeafAt(t, i - 1) /\ x # ZeroField
      /\ \A i \in 1 .. N : \A x : <<i, x>> \in LeafSet(u) <=> x = LeafAt(u, i - 1) /\ x # ZeroField
  BY <1>1 DEF LeafSet, LeafAt
<1>3. \A e \in LeafSet(t) \cup LeafSet(u) : e = <<e[1], e[2]>> /\ e[1] \in 1 .. N
  BY <1>1 DEF LeafSet
<1>4. ASSUME LeafSet(t) = LeafSet(u), NEW i \in 1 .. N PROVE LeafAt(t, i - 1) = LeafAt(u, i - 1)
  <2> DEFINE x == LeafAt(t, i - 1)
             y == LeafAt(u, i - 1)
  <2> HIDE DEF x, y
  <2>1. /\ \A z : <<i, z>> \in LeafSet(t) <=> z = x /\ z # ZeroField
        /\ \A z : <<i, z>> \in LeafSet(u) <=> z = y /\ z # ZeroField
    BY <1>2 DEF x, y
  <2>2. x # ZeroField => x = y
    BY <1>4, <2>1
  <2>3. y # ZeroField => x = y
    BY <1>4, <2>1
  <2> QED
    BY <2>2, <2>3 DEF x, y
<1>5. ASSUME \A i \in 1 .. N : LeafAt(t, i - 1) = LeafAt(u, i - 1) PROVE LeafSet(t) = LeafSet(u)
  <2>1. ASSUME NEW i \in 1 .. N, NEW x PROVE <<i, x>> \in LeafSet(t) <=> <<i, x>> \in LeafSet(u)
    BY <1>2, <1>5
  <2>2. \A e \in LeafSet(t) \cup LeafSet(u) : e \in LeafSet(t) <=> e \in LeafSet(u)
    BY <1>3, <2>1
  <2> QED
    BY <2>2
<1>6. (\A i \in 1 .. N : LeafAt(t, i - 1) = LeafAt(u, i - 1))
        <=> (\A i \in 0 .. N - 1 : LeafAt(t, i) = LeafAt(u, i))
  <2>1. \A i \in 0 .. N - 1 : i + 1 \in 1 .. N /\ (i + 1) - 1 = i
    BY <1>1
  <2>2. \A i \in 1 .. N : i - 1 \in 0 .. N - 1
    BY <1>1
  <2> QED
    BY <2>1, <2>2
<1> QED
  BY <1>4, <1>5, <1>6, RootsCommitToLeaves

(* Each mint and each revocation makes a root that is not the one before it, *)
(* which is why mintCredential and revokeCredential each have to publish.    *)
THEOREM EveryChangeMovesTheRoot ==
  CSpec => [][tree' # tree => TreeRoot(tree') # TreeRoot(tree)]_cvars
<1>1. CInv /\ [CNext]_cvars =>
        [tree' # tree => TreeRoot(tree') # TreeRoot(tree)]_cvars
  <2> SUFFICES ASSUME CInv, [CNext]_cvars, tree' # tree PROVE TreeRoot(tree') # TreeRoot(tree)
    OBVIOUS
  <2>1. /\ Len(tree) \in Nat /\ Len(tree) <= MaxLeaf /\ DOMAIN tree = 1 .. Len(tree)
        /\ DOMAIN minted = DOMAIN tree /\ MaxLeaf <= Capacity[Depth]
        /\ MaxLeaf \in Nat /\ Capacity[Depth] \in Nat
    <3>1. Capacity[Depth] \in Nat
      BY CapacityType, CircuitAssumption
    <3> QED
      BY <3>1, CircuitAssumption DEF CInv, CTypeOK
  <2>2. CASE MintCredential
    <3>1. PICK s \in Secret, a \in Attribute : tree' = Append(tree, BuildLeaf(Commit(s), a))
      BY <2>2 DEF MintCredential
    <3>2. Len(tree) < MaxLeaf
      BY <2>2 DEF MintCredential
    <3>3. Len(tree') = Len(tree) + 1 /\ tree'[Len(tree) + 1] = BuildLeaf(Commit(s), a)
      BY <3>1 DEF CInv, CTypeOK
    <3>4. LeafAt(tree, Len(tree)) = ZeroField /\ LeafAt(tree', Len(tree)) # ZeroField
      BY <2>1, <3>3, LeafIsNotZero DEF LeafAt
    <3> QED
      BY <2>1, <3>2, <3>4, RootsCommitToLeaves
  <2>3. CASE RevokeCredential
    <3>1. PICK i \in DOMAIN minted : minted[i].active /\ tree' = [tree EXCEPT ![i] = ZeroField]
      BY <2>3 DEF RevokeCredential
    <3>2. Len(tree') = Len(tree) /\ tree'[i] = ZeroField /\ i \in DOMAIN tree
      BY <2>1, <3>1 DEF CInv, CTypeOK
    <3>3. tree[i] # ZeroField
      BY <3>1, LeafIsNotZero DEF CInv, TreeInv, LeafOf
    <3>4. LeafAt(tree, i - 1) # LeafAt(tree', i - 1) /\ i - 1 \in 0 .. Capacity[Depth] - 1
      BY <2>1, <3>2, <3>3 DEF LeafAt
    <3> QED
      BY <3>4, RootsCommitToLeaves
  <2> QED
    BY <2>2, <2>3 DEF CNext, cvars, OpenPage, ServePath, Prove
<1> QED
  BY <1>1, CircuitInvariance, PTL DEF CSpec
=============================================================================
