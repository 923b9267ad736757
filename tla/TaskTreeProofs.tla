---------------------------- MODULE TaskTreeProofs ----------------------------
EXTENDS TaskTree, FiniteSetTheorems, SequenceTheorems, WellFoundedInduction, TLAPS

(***************************************************************************)
(* The cost-ordered tree executor, for every forest and every budget: no   *)
(* node is processed twice, the tracked bytes never wrap and, without a    *)
(* budget, are those of the contributions not assembled yet; and when the  *)
(* children a throttled node processes itself are leaves, a node is        *)
(* processed after its children and every node is processed.               *)
(*                                                                         *)
(* What is recursive (Postorder, FlattenSeq, ContribOf) is a function, so  *)
(* each recursive equation is derived from its CHOOSE, and used by         *)
(* induction over the numbers of the nodes or the sizes of the sets, as a  *)
(* set of those for which the claim holds (Upwards, SmallerFirst).  The    *)
(* argument: the order of a subtree lists each of its nodes once, children *)
(* first; so the program of a task has each of its nodes in one step, a    *)
(* child before its parent; and the invariant says the same of the steps   *)
(* all tasks have left: no node is of two steps, a node that is to be      *)
(* processed has not been, and each child of it is over, comes before it   *)
(* or is awaited before it.                                                *)
(***************************************************************************)

-----------------------------------------------------------------------------
(* Induction over the numbers of the supernodes                            *)

\* A set of natural numbers with each number whose predecessors it has holds
\* all of them.
LEMMA Upwards ==
  ASSUME NEW P, \A n \in Nat : (\A m \in Nat : m < n => m \in P) => n \in P
  PROVE  Nat \subseteq P
<1> DEFINE Bad == Nat \ P
<1>1. ASSUME Bad # {} PROVE FALSE
  <2>1. PICK n \in Bad : \A m \in Bad : ~(<<m, n>> \in OpToRel(<, Nat))
    BY <1>1, NatLessThanWellFounded, WFMin
  <2>2. ASSUME NEW m \in Nat, m < n PROVE m \in P
    BY <2>1, <2>2 DEF OpToRel
  <2>3. QED
    BY <2>2
<1>2. QED
  BY <1>1

\* Children first.
LEMMA UpTheTree ==
  ASSUME NEW P, \A n \in Nodes : (\A m \in Nodes : m < n => m \in P) => n \in P
  PROVE  Nodes \subseteq P
<1> DEFINE Q == {k \in Nat : k \in Nodes => k \in P}
<1>1. Nodes \subseteq Nat
  BY TreeAssumption
<1>2. \A n \in Nat : (\A m \in Nat : m < n => m \in Q) => n \in Q
  BY <1>1
<1>3. Nat \subseteq Q
  <2> HIDE DEF Q
  <2> QED BY <1>2, Upwards
<1>4. QED
  BY <1>1, <1>3

\* Parents first.
LEMMA DownTheTree ==
  ASSUME NEW P, \A n \in Nodes : (\A m \in Nodes : m > n => m \in P) => n \in P
  PROVE  Nodes \subseteq P
<1>1. PICK last \in Nat : Nodes = 0..last
  BY TreeAssumption
<1> DEFINE Q == {k \in Nat : last - k \in Nodes => last - k \in P}
<1>2. \A n \in Nat : (\A m \in Nat : m < n => m \in Q) => n \in Q
  <2> SUFFICES ASSUME NEW n \in Nat, \A m \in Nat : m < n => m \in Q, last - n \in Nodes
               PROVE  last - n \in P
    OBVIOUS
  <2>1. ASSUME NEW m \in Nodes, m > last - n PROVE m \in P
    <3>1. m \in 0..last /\ last - m \in Nat /\ last - m < n /\ last - (last - m) = m
      BY <1>1, <2>1
    <3>2. last - m \in Q
      BY <3>1
    <3>3. QED
      BY <3>1, <3>2
  <2>2. QED
    BY <2>1
<1>3. Nat \subseteq Q
  <2> HIDE DEF Q
  <2> QED BY <1>2, Upwards
<1>4. ASSUME NEW n \in Nodes PROVE n \in P
  <2>1. n \in 0..last /\ last - n \in Nat /\ last - (last - n) = n
    BY <1>1
  <2>2. last - n \in Q
    BY <2>1, <1>3
  <2>3. QED
    BY <2>1, <2>2
<1>5. QED
  BY <1>4

-----------------------------------------------------------------------------
(* Sequences put together                                                  *)

\* F is the first m sequences of s one after the other, off their offsets.
Placed(F, s, m, off) ==
  /\ off \in [1..m -> Nat]
  /\ \A k \in 1..m : /\ off[k] + Len(s[k]) <= Len(F)
                     /\ \A j \in 1..Len(s[k]) : F[off[k] + j] = s[k][j]
  /\ \A k, l \in 1..m : k < l => off[k] + Len(s[k]) <= off[l]
  /\ \A i \in 1..Len(F) : \E k \in 1..m : \E j \in 1..Len(s[k]) : i = off[k] + j

\* One sequence more is put after those already placed.
LEMMA PlacedNext ==
  ASSUME NEW X, NEW s \in Seq(Seq(X)), NEW m \in Nat, m + 1 <= Len(s),
         NEW F \in Seq(X), NEW off, Placed(F, s, m, off)
  PROVE  /\ F \o s[m + 1] \in Seq(X)
         /\ \E o : Placed(F \o s[m + 1], s, m + 1, o)
<1> DEFINE G == F \o s[m + 1]
           o == [k \in 1..(m + 1) |-> IF k = m + 1 THEN Len(F) ELSE off[k]]
<1>1. \A k \in 1..(m + 1) : s[k] \in Seq(X) /\ Len(s[k]) \in Nat
  OBVIOUS
<1>2. Len(F) \in Nat /\ s[m + 1] \in Seq(X) /\ Len(s[m + 1]) \in Nat
  BY <1>1
<1>3. G \in Seq(X) /\ Len(G) = Len(F) + Len(s[m + 1])
  BY <1>2
<1>4. \A i \in 1..Len(F) : G[i] = F[i]
  BY <1>2
<1>5. \A j \in 1..Len(s[m + 1]) : G[Len(F) + j] = s[m + 1][j]
  BY <1>2
<1>6. \A k \in 1..m : o[k] = off[k] /\ off[k] \in Nat /\ o[k] \in Nat
  BY DEF Placed
<1>7. o[m + 1] = Len(F)
  OBVIOUS
<1>8. \A k \in 1..(m + 1) : k \in 1..m \/ k = m + 1
  OBVIOUS
<1> HIDE DEF G, o
<1>9. o \in [1..(m + 1) -> Nat]
  BY <1>2, <1>6, <1>7, <1>8 DEF o
<1>10. ASSUME NEW k \in 1..(m + 1)
       PROVE  o[k] + Len(s[k]) <= Len(G) /\ \A j \in 1..Len(s[k]) : G[o[k] + j] = s[k][j]
  <2>1. CASE k \in 1..m
    <3>1. off[k] + Len(s[k]) <= Len(F) /\ \A j \in 1..Len(s[k]) : F[off[k] + j] = s[k][j]
      BY <2>1 DEF Placed
    <3>2. \A j \in 1..Len(s[k]) : off[k] + j \in 1..Len(F)
      BY <2>1, <3>1, <1>1, <1>2, <1>6
    <3>3. \A j \in 1..Len(s[k]) : G[off[k] + j] = s[k][j]
      BY <3>1, <3>2, <1>4
    <3>4. off[k] + Len(s[k]) <= Len(G)
      BY <2>1, <3>1, <1>1, <1>2, <1>3, <1>6
    <3>5. QED
      BY <2>1, <3>3, <3>4, <1>6
  <2>2. CASE k = m + 1
    BY <2>2, <1>2, <1>3, <1>5, <1>7
  <2>3. QED
    BY <2>1, <2>2, <1>8
<1>11. ASSUME NEW k \in 1..(m + 1), NEW l \in 1..(m + 1), k < l PROVE o[k] + Len(s[k]) <= o[l]
  <2>1. k \in 1..m
    BY <1>11
  <2>2. CASE l \in 1..m
    BY <2>1, <2>2, <1>6, <1>11 DEF Placed
  <2>3. CASE l = m + 1
    BY <2>1, <2>3, <1>6, <1>7 DEF Placed
  <2>4. QED
    BY <2>2, <2>3, <1>8
<1>12. ASSUME NEW i \in 1..Len(G)
       PROVE  \E k \in 1..(m + 1) : \E j \in 1..Len(s[k]) : i = o[k] + j
  <2>1. CASE i <= Len(F)
    <3>1. i \in 1..Len(F)
      BY <2>1, <1>2, <1>3
    <3>2. PICK k \in 1..m : \E j \in 1..Len(s[k]) : i = off[k] + j
      BY <3>1 DEF Placed
    <3>3. k \in 1..(m + 1) /\ o[k] = off[k]
      BY <1>6
    <3>4. QED
      BY <3>2, <3>3
  <2>2. CASE i > Len(F)
    <3>1. i - Len(F) \in 1..Len(s[m + 1]) /\ i = o[m + 1] + (i - Len(F))
      BY <2>2, <1>2, <1>3, <1>7
    <3>2. m + 1 \in 1..(m + 1)
      OBVIOUS
    <3>3. QED
      BY <3>1, <3>2
  <2>3. QED
    BY <2>1, <2>2, <1>2
<1>13. Placed(G, s, m + 1, o)
  BY <1>9, <1>10, <1>11, <1>12 DEF Placed
<1>14. QED
  BY <1>3, <1>13 DEF G

\* The recursion of FlattenSeq over the first m sequences.
Flat(g, s, m) == g = [i \in 1..m |-> IF i = 1 THEN s[i] ELSE g[i - 1] \o s[i]]

\* There is a function of partial concatenations, as FlattenSeq chooses one.
LEMMA FlatExists ==
  ASSUME NEW s, NEW m \in Nat, m > 0 PROVE \E g : Flat(g, s, m)
<1> DEFINE P == {k \in Nat : k = 0 \/ \E g : Flat(g, s, k)}
<1>1. ASSUME NEW n \in Nat, \A k \in Nat : k < n => k \in P PROVE n \in P
  <2>1. CASE n = 0
    BY <2>1
  <2>2. CASE n = 1
    <3>1. Flat([i \in 1..1 |-> s[i]], s, 1)
      BY DEF Flat
    <3>2. QED
      BY <2>2, <3>1
  <2>3. CASE n > 1
    <3>1. n - 1 \in Nat /\ n - 1 < n /\ n - 1 # 0
      BY <2>3
    <3>2. PICK g : Flat(g, s, n - 1)
      BY <3>1, <1>1
    <3> HIDE DEF P
    <3> DEFINE h == [i \in 1..n |-> IF i = n THEN g[n - 1] \o s[n] ELSE g[i]]
    <3>3. ASSUME NEW i \in 1..n
          PROVE  h[i] = IF i = 1 THEN s[i] ELSE h[i - 1] \o s[i]
      <4>1. CASE i = n
        <5>0. n \in 1..n /\ n - 1 \in 1..n /\ n - 1 # n
          BY <2>3
        <5>1. h[n - 1] = g[n - 1] /\ h[n] = g[n - 1] \o s[n]
          BY <5>0
        <5> HIDE DEF h
        <5>2. n # 1 /\ h[n] = h[n - 1] \o s[n]
          BY <5>1, <2>3
        <5>3. QED
          BY <4>1, <5>2
      <4>2. CASE i # n
        <5>1. i \in 1..(n - 1) /\ h[i] = g[i]
          BY <4>2
        <5>2. g[i] = IF i = 1 THEN s[i] ELSE g[i - 1] \o s[i]
          BY <5>1, <3>2 DEF Flat
        <5>3. i # 1 => i - 1 \in 1..n /\ i - 1 # n /\ h[i - 1] = g[i - 1]
          BY <5>1
        <5>4. QED
          BY <5>1, <5>2, <5>3
      <4>3. QED
        BY <4>1, <4>2
    <3>4. Flat(h, s, n)
      <4>1. h = [i \in 1..n |-> h[i]]
        OBVIOUS
      <4> HIDE DEF h
      <4>2. QED
        BY <4>1, <3>3 DEF Flat
    <3> HIDE DEF h
    <3>5. \E g2 : Flat(g2, s, n)
      BY <3>4
    <3>6. QED
      BY <3>5 DEF P
  <2>4. QED
    BY <2>1, <2>2, <2>3
<1>2. Nat \subseteq P
  <2> HIDE DEF P
  <2> QED BY <1>1, Upwards
<1>3. QED
  BY <1>2

\* FlattenSeq puts its sequences one after the other.
LEMMA FlattenFacts ==
  ASSUME NEW X, NEW s \in Seq(Seq(X))
  PROVE  /\ FlattenSeq(s) \in Seq(X)
         /\ \E off : Placed(FlattenSeq(s), s, Len(s), off)
<1>1. CASE Len(s) = 0
  <2>1. s = <<>> /\ FlattenSeq(s) = <<>>
    BY <1>1 DEF FlattenSeq
  <2>2. Placed(<<>>, s, 0, [k \in 1..0 |-> 0])
    BY DEF Placed
  <2>3. FlattenSeq(s) \in Seq(X)
    BY <2>1, EmptySeq
  <2> DEFINE o == [k \in 1..0 |-> 0]
  <2>4. Placed(FlattenSeq(s), s, Len(s), o)
    BY <2>1, <2>2, <1>1
  <2> HIDE DEF o
  <2>5. QED
    BY <2>3, <2>4
<1>2. CASE Len(s) > 0
  <2> DEFINE L == Len(s)
             f == CHOOSE g : Flat(g, s, L)
             P == {m \in Nat : m \in 1..L => f[m] \in Seq(X) /\ \E off : Placed(f[m], s, m, off)}
  <2>0. L \in Nat /\ L > 0
    BY <1>2
  <2>1. Flat(f, s, L)
    BY <2>0, FlatExists
  <2>2. FlattenSeq(s) = f[L]
    BY <1>2 DEF FlattenSeq, Flat
  <2> HIDE DEF f
  <2>3. \A i \in 1..L : f[i] = IF i = 1 THEN s[i] ELSE f[i - 1] \o s[i]
    BY <2>1 DEF Flat
  <2>4. ASSUME NEW m \in Nat, \A k \in Nat : k < m => k \in P PROVE m \in P
    <3> SUFFICES ASSUME m \in 1..L PROVE f[m] \in Seq(X) /\ \E off : Placed(f[m], s, m, off)
      OBVIOUS
    <3>1. CASE m = 1
      <4>1. f[1] = s[1] /\ s[1] \in Seq(X) /\ Len(s[1]) \in Nat
        BY <3>1, <2>3, <2>0
      <4> DEFINE o == [k \in 1..1 |-> 0]
      <4>2. \A k \in 1..1 : k = 1 /\ o[k] = 0
        OBVIOUS
      <4>3. Placed(s[1], s, 1, o)
        BY <4>1, <4>2 DEF Placed
      <4>4. QED
        BY <3>1, <4>1, <4>3
    <3>2. CASE m > 1
      <4>1. m - 1 \in 1..L /\ m - 1 \in Nat /\ m - 1 < m /\ (m - 1) + 1 = m
        BY <3>2, <2>0
      <4>2. f[m - 1] \in Seq(X) /\ \E off : Placed(f[m - 1], s, m - 1, off)
        BY <4>1, <2>4
      <4> HIDE DEF P
      <4>3. f[m] = f[m - 1] \o s[m]
        <5>1. m # 1
          BY <3>2
        <5>2. QED
          BY <5>1, <2>3
      <4>4. m <= Len(s)
        BY <2>0
      <4>5. PICK off : Placed(f[m - 1], s, m - 1, off)
        BY <4>2
      <4>6. f[m - 1] \o s[(m - 1) + 1] \in Seq(X)
            /\ \E o : Placed(f[m - 1] \o s[(m - 1) + 1], s, (m - 1) + 1, o)
        BY <4>1, <4>2, <4>4, <4>5, PlacedNext
      <4>7. QED
        BY <4>1, <4>3, <4>6
    <3>3. QED
      BY <3>1, <3>2
  <2>5. Nat \subseteq P
    <3> HIDE DEF P, L
    <3> QED BY <2>4, Upwards
  <2>6. QED
    BY <2>0, <2>2, <2>5
<1>3. QED
  BY <1>1, <1>2

-----------------------------------------------------------------------------
(* The order in which a subtree is run                                     *)

\* The tree, as the proofs use it.
LEMMA TreeFacts ==
  /\ Nodes \subseteq Nat /\ Main \notin Nodes /\ IsFiniteSet(Nodes)
  /\ \E last \in Nat : Nodes = 0..last
  /\ Roots \in Seq(Nodes)
  /\ \A n \in Nodes : /\ Kids[n] \in Seq(Nodes)
                      /\ \A i \in DOMAIN Kids[n] : Kids[n][i] \in Nodes /\ Kids[n][i] < n
<1>1. PICK last \in Nat : Nodes = 0..last
  BY TreeAssumption
<1>2. IsFiniteSet(Nodes)
  BY <1>1, FS_Interval
<1>3. ASSUME NEW n \in Nodes
      PROVE  Kids[n] \in Seq(Nodes) /\ \A i \in DOMAIN Kids[n] : Kids[n][i] \in Nodes /\ Kids[n][i] < n
  <2>1. Kids[n] \in Seq(Nodes)
    BY TreeAssumption
  <2>2. QED
    BY <2>1, TreeAssumption
<1>4. QED
  BY <1>1, <1>2, <1>3, TreeAssumption

\* A node is the child of one node, at one place.
LEMMA OneParent ==
  ASSUME NEW m \in Nodes, NEW n \in Nodes, NEW i \in DOMAIN Kids[m], NEW j \in DOMAIN Kids[n],
         Kids[m][i] = Kids[n][j]
  PROVE  m = n /\ i = j
BY TreeAssumption

\* The recursion of Postorder, on the nodes D.
Ordered(g, D) ==
  g = [m \in D |-> FlattenSeq([i \in DOMAIN Kids[m] |-> g[Kids[m][i]]]) \o <<m>>]

\* There is a function that solves the recursive equation of Postorder.
LEMMA OrderExists == \E g : Ordered(g, Nodes)
<1> DEFINE Below(k) == {m \in Nodes : m < k}
           P == {k \in Nat : \E g : Ordered(g, Below(k))}
<1>1. PICK last \in Nat : Nodes = 0..last
  BY TreeFacts
<1>2. ASSUME NEW k \in Nat, \A l \in Nat : l < k => l \in P PROVE k \in P
  <2>1. CASE k = 0
    <3>1. Below(k) = {}
      BY <2>1, TreeFacts
    <3>2. Ordered([m \in {} |-> 0], Below(k))
      BY <3>1 DEF Ordered
    <3>3. QED
      BY <3>2
  <2>2. CASE k > 0
    <3>1. k - 1 \in Nat /\ k - 1 < k
      BY <2>2
    <3>2. PICK g : Ordered(g, Below(k - 1))
      BY <3>1, <1>2
    <3> DEFINE new(m) == FlattenSeq([i \in DOMAIN Kids[m] |-> g[Kids[m][i]]]) \o <<m>>
               h == [m \in Below(k) |-> IF m = k - 1 THEN new(m) ELSE g[m]]
    <3> HIDE DEF P
    <3>3. ASSUME NEW m \in Below(k)
          PROVE  h[m] = FlattenSeq([i \in DOMAIN Kids[m] |-> h[Kids[m][i]]]) \o <<m>>
      <4>1. m \in Nodes /\ m \in Nat /\ m < k
        BY TreeFacts
      <4>2. h[m] = new(m)
        <5>1. CASE m = k - 1
          BY <5>1
        <5>2. CASE m # k - 1
          <6>1. m \in Below(k - 1)
            BY <5>2, <4>1
          <6>2. g[m] = new(m)
            BY <6>1, <3>2 DEF Ordered
          <6>3. QED
            BY <6>2, <5>2
        <5>3. QED
          BY <5>1, <5>2
      <4>3. ASSUME NEW i \in DOMAIN Kids[m] PROVE h[Kids[m][i]] = g[Kids[m][i]]
        <5>1. Kids[m][i] \in Nodes /\ Kids[m][i] \in Nat /\ Kids[m][i] < m
          BY <4>1, TreeFacts
        <5>2. Kids[m][i] \in Below(k) /\ Kids[m][i] # k - 1
          BY <5>1, <4>1
        <5>3. QED
          BY <5>2
      <4> HIDE DEF h
      <4>4. [i \in DOMAIN Kids[m] |-> h[Kids[m][i]]] = [i \in DOMAIN Kids[m] |-> g[Kids[m][i]]]
        BY <4>3
      <4>5. QED
        BY <4>2, <4>4
    <3>4. h = [m \in Below(k) |-> h[m]]
      OBVIOUS
    <3> HIDE DEF h
    <3>5. Ordered(h, Below(k))
      BY <3>3, <3>4 DEF Ordered
    <3>6. QED
      BY <3>5 DEF P
  <2>3. QED
    BY <2>1, <2>2
<1>3. last + 1 \in P
  <2> HIDE DEF P
  <2> QED BY <1>2, Upwards
<1>4. Below(last + 1) = Nodes
  BY <1>1
<1>5. QED
  BY <1>3, <1>4

\* So the recursive equation of Postorder holds of it.
LEMMA PostorderDef ==
  \A n \in Nodes :
    Postorder[n] = FlattenSeq([i \in DOMAIN Kids[n] |-> Postorder[Kids[n][i]]]) \o <<n>>
<1>1. Ordered(Postorder, Nodes)
  BY OrderExists DEF Ordered, Postorder
<1>2. QED
  BY <1>1 DEF Ordered

\* What is run for the subtree of n: each node once, after its children, n
\* last and everything else below it.
SoundOrder(n) ==
  /\ Postorder[n] \in Seq(Nodes)
  /\ Len(Postorder[n]) > 0 /\ Postorder[n][Len(Postorder[n])] = n
  /\ \A i, j \in DOMAIN Postorder[n] : Postorder[n][i] = Postorder[n][j] => i = j
  /\ \A i \in DOMAIN Postorder[n] :
       /\ Postorder[n][i] <= n
       /\ Postorder[n][i] # n =>
            \E j \in DOMAIN Postorder[n] :
              \E k \in DOMAIN Kids[Postorder[n][j]] : Kids[Postorder[n][j]][k] = Postorder[n][i]
       /\ \A k \in DOMAIN Kids[Postorder[n][i]] :
            \E j \in DOMAIN Postorder[n] : j < i /\ Postorder[n][j] = Kids[Postorder[n][i]][k]

Subtree(n) == ToSet(Postorder[n])

\* Two subtrees of which neither contains the root of the other share no node.
LEMMA Disjoint ==
  ASSUME NEW c \in Nodes, NEW d \in Nodes, SoundOrder(c), SoundOrder(d),
         c \notin Subtree(d), d \notin Subtree(c)
  PROVE  Subtree(c) \cap Subtree(d) = {}
<1> DEFINE P == {m \in Nodes : m \notin Subtree(c) \cap Subtree(d)}
<1>0. Subtree(c) \subseteq Nodes
  BY DEF SoundOrder, Subtree, ToSet
<1>1. ASSUME NEW m \in Nodes, \A p \in Nodes : p > m => p \in P, m \in Subtree(c), m \in Subtree(d)
      PROVE  FALSE
  <2>1. m # c /\ m # d
    BY <1>1
  <2>2. PICK i \in DOMAIN Postorder[c] : Postorder[c][i] = m
    BY <1>1 DEF Subtree, ToSet
  <2>3. PICK j \in DOMAIN Postorder[c] :
          \E k \in DOMAIN Kids[Postorder[c][j]] : Kids[Postorder[c][j]][k] = m
    <3>1. Postorder[c][i] # c =>
            \E j \in DOMAIN Postorder[c] :
              \E k \in DOMAIN Kids[Postorder[c][j]] : Kids[Postorder[c][j]][k] = Postorder[c][i]
      BY DEF SoundOrder
    <3>2. QED
      BY <2>1, <2>2, <3>1
  <2>4. PICK i2 \in DOMAIN Postorder[d] : Postorder[d][i2] = m
    BY <1>1 DEF Subtree, ToSet
  <2>5. PICK j2 \in DOMAIN Postorder[d] :
          \E k \in DOMAIN Kids[Postorder[d][j2]] : Kids[Postorder[d][j2]][k] = m
    <3>1. Postorder[d][i2] # d =>
            \E j3 \in DOMAIN Postorder[d] :
              \E k \in DOMAIN Kids[Postorder[d][j3]] : Kids[Postorder[d][j3]][k] = Postorder[d][i2]
      BY DEF SoundOrder
    <3>2. QED
      BY <2>1, <2>4, <3>1
  <2>6. Postorder[c][j] \in Nodes /\ Postorder[d][j2] \in Nodes
    BY DEF SoundOrder
  <2>7. Postorder[c][j] = Postorder[d][j2]
    BY <2>3, <2>5, <2>6, OneParent
  <2>8. Postorder[c][j] \in Subtree(c) \cap Subtree(d)
    BY <2>7 DEF Subtree, ToSet
  <2>9. Postorder[c][j] > m
    BY <2>3, <2>6, TreeFacts
  <2>10. QED
    BY <1>1, <2>6, <2>8, <2>9
<1>2. Nodes \subseteq P
  <2>1. \A m \in Nodes : (\A p \in Nodes : p > m => p \in P) => m \in P
    BY <1>1
  <2> HIDE DEF P
  <2>2. QED
    BY <2>1, DownTheTree
<1>3. QED
  BY <1>0, <1>2

\* What SoundOrder says of one place of the order.
LEMMA OrderAt ==
  ASSUME NEW n, SoundOrder(n), NEW i \in DOMAIN Postorder[n]
  PROVE  /\ Postorder[n][i] <= n
         /\ Postorder[n][i] # n =>
              \E j \in DOMAIN Postorder[n] :
                \E k \in DOMAIN Kids[Postorder[n][j]] : Kids[Postorder[n][j]][k] = Postorder[n][i]
         /\ \A k \in DOMAIN Kids[Postorder[n][i]] :
              \E j \in DOMAIN Postorder[n] : j < i /\ Postorder[n][j] = Kids[Postorder[n][i]][k]
BY DEF SoundOrder

\* Two children of one node have no node of their subtrees in common.
LEMMA Siblings ==
  ASSUME NEW n \in Nodes, NEW k \in DOMAIN Kids[n], NEW l \in DOMAIN Kids[n], k # l,
         SoundOrder(Kids[n][k]), SoundOrder(Kids[n][l])
  PROVE  Subtree(Kids[n][k]) \cap Subtree(Kids[n][l]) = {}
<1>1. ASSUME NEW x \in DOMAIN Kids[n], NEW y \in DOMAIN Kids[n], x # y, SoundOrder(Kids[n][y])
      PROVE  Kids[n][x] \notin Subtree(Kids[n][y])
  <2> DEFINE d == Kids[n][y]
  <2>0. d \in Nodes /\ d < n /\ Kids[n][x] # d
    BY <1>1, OneParent, TreeFacts
  <2>1. SUFFICES ASSUME NEW i \in DOMAIN Postorder[d], Postorder[d][i] = Kids[n][x] PROVE FALSE
    BY DEF Subtree, ToSet
  <2>2. SoundOrder(d)
    BY <1>1
  <2> HIDE DEF d
  <2>3. Postorder[d][i] # d =>
          \E j \in DOMAIN Postorder[d] :
            \E q \in DOMAIN Kids[Postorder[d][j]] : Kids[Postorder[d][j]][q] = Postorder[d][i]
    BY <2>2 DEF SoundOrder
  <2>4. PICK j \in DOMAIN Postorder[d] :
          \E q \in DOMAIN Kids[Postorder[d][j]] : Kids[Postorder[d][j]][q] = Kids[n][x]
    BY <2>0, <2>1, <2>3
  <2>5. Postorder[d][j] \in Nodes /\ Postorder[d][j] <= d
    <3>1. Postorder[d] \in Seq(Nodes)
      BY <2>2 DEF SoundOrder
    <3>2. Postorder[d][j] <= d
      BY <2>2, OrderAt
    <3>3. QED
      BY <3>1, <3>2
  <2>6. Postorder[d][j] = n
    BY <2>4, <2>5, <1>1, OneParent
  <2>7. QED
    BY <2>0, <2>5, <2>6, TreeFacts
<1>2. Kids[n][k] \in Nodes /\ Kids[n][l] \in Nodes
  BY TreeFacts
<1>3. Kids[n][k] \notin Subtree(Kids[n][l]) /\ Kids[n][l] \notin Subtree(Kids[n][k])
  BY <1>1
<1>4. QED
  BY <1>2, <1>3, Disjoint

\* The order of every subtree is sound: each node once, its children before it.
LEMMA OrderSound == \A n \in Nodes : SoundOrder(n)
<1> DEFINE P == {n \in Nodes : SoundOrder(n)}
<1>1. ASSUME NEW n \in Nodes, \A m \in Nodes : m < n => m \in P PROVE SoundOrder(n)
  <2> DEFINE s == [i \in DOMAIN Kids[n] |-> Postorder[Kids[n][i]]]
             m == Len(Kids[n])
             c(k) == Kids[n][k]
             F == FlattenSeq(s)
             L == Len(F)
             O == Postorder[n]
  <2>1. m \in Nat /\ DOMAIN Kids[n] = 1..m /\ n \in Nat
    BY TreeFacts
  <2>2. ASSUME NEW k \in 1..m
        PROVE  c(k) \in Nodes /\ c(k) \in Nat /\ c(k) < n /\ SoundOrder(c(k)) /\ s[k] = Postorder[c(k)]
    BY <2>1, <1>1, TreeFacts
  <2>3. s \in Seq(Seq(Nodes)) /\ Len(s) = m
    <3>1. \A k \in 1..m : s[k] \in Seq(Nodes)
      BY <2>2 DEF SoundOrder
    <3>2. s \in [1..m -> Seq(Nodes)]
      BY <2>1, <3>1
    <3>3. QED
      BY <2>1, <3>2, IsASeq
  <2> HIDE DEF s, P
  <2>4. F \in Seq(Nodes)
    BY <2>3, FlattenFacts
  <2>5. PICK off : Placed(F, s, m, off)
    BY <2>3, FlattenFacts
  <2>6. O = F \o <<n>>
    BY PostorderDef DEF s
  <2> HIDE DEF F, O
  <2>7. L \in Nat /\ O \in Seq(Nodes) /\ Len(O) = L + 1 /\ DOMAIN O = 1..(L + 1) /\ O[L + 1] = n
    BY <2>4, <2>6
  <2>8. \A i \in 1..L : O[i] = F[i]
    BY <2>4, <2>6
  <2>9. \A k \in 1..m : Len(s[k]) \in Nat /\ Len(s[k]) > 0 /\ DOMAIN s[k] = 1..Len(s[k])
    BY <2>2 DEF SoundOrder
  <2>10. ASSUME NEW k \in 1..m, NEW j \in 1..Len(s[k])
         PROVE  off[k] \in Nat /\ off[k] + j \in 1..L /\ O[off[k] + j] = s[k][j]
    <3>1. off[k] \in Nat /\ off[k] + Len(s[k]) <= L /\ F[off[k] + j] = s[k][j]
      BY <2>5 DEF Placed
    <3>2. off[k] + j \in 1..L
      BY <3>1, <2>7, <2>9
    <3>3. QED
      BY <3>1, <3>2, <2>8
  <2>11. \A i \in 1..(L + 1) : i = L + 1 \/ \E k \in 1..m : \E j \in 1..Len(s[k]) : i = off[k] + j
    <3>1. \A i \in 1..L : \E k \in 1..m : \E j \in 1..Len(s[k]) : i = off[k] + j
      BY <2>5 DEF Placed
    <3>2. QED
      BY <3>1, <2>7
  <2>12. ASSUME NEW k \in 1..m, NEW j \in 1..Len(s[k])
         PROVE  /\ s[k][j] \in Nodes /\ s[k][j] \in Subtree(c(k)) /\ s[k][j] <= c(k) /\ s[k][j] < n
                /\ s[k][j] # c(k) => \E j2 \in 1..Len(s[k]) : \E q \in DOMAIN Kids[s[k][j2]] :
                                       Kids[s[k][j2]][q] = s[k][j]
                /\ \A q \in DOMAIN Kids[s[k][j]] :
                     \E j2 \in 1..Len(s[k]) : j2 < j /\ s[k][j2] = Kids[s[k][j]][q]
    <3> DEFINE S == s[k]
               d == c(k)
    <3>1. SoundOrder(d) /\ S = Postorder[d] /\ j \in DOMAIN S /\ DOMAIN S = 1..Len(S)
      BY <2>2, <2>9
    <3>2. s[k][j] \in Nodes /\ s[k][j] <= c(k)
      BY <3>1 DEF SoundOrder
    <3>3. s[k][j] \in Subtree(c(k))
      BY <3>1 DEF Subtree, ToSet
    <3>4. s[k][j] < n
      <4>1. s[k][j] \in Nat /\ c(k) \in Nat /\ c(k) < n
        BY <3>2, <2>2, TreeFacts
      <4>2. QED
        BY <4>1, <3>2, <2>1
    <3> HIDE DEF S, d
    <3>5. S[j] # d => \E j2 \in 1..Len(S) : \E q \in DOMAIN Kids[S[j2]] : Kids[S[j2]][q] = S[j]
      <4>1. Postorder[d][j] # d =>
              \E j2 \in DOMAIN Postorder[d] :
                \E q \in DOMAIN Kids[Postorder[d][j2]] : Kids[Postorder[d][j2]][q] = Postorder[d][j]
        BY <3>1, OrderAt
      <4>2. QED
        BY <4>1, <3>1
    <3>6. \A q \in DOMAIN Kids[S[j]] : \E j2 \in 1..Len(S) : j2 < j /\ S[j2] = Kids[S[j]][q]
      <4>1. \A q \in DOMAIN Kids[Postorder[d][j]] :
              \E j2 \in DOMAIN Postorder[d] : j2 < j /\ Postorder[d][j2] = Kids[Postorder[d][j]][q]
        BY <3>1, OrderAt
      <4>2. QED
        BY <4>1, <3>1
    <3>7. QED
      BY <3>2, <3>3, <3>4, <3>5, <3>6 DEF S, d
  <2>13. ASSUME NEW i \in 1..(L + 1)
         PROVE  /\ O[i] <= n
                /\ O[i] # n => \E j \in 1..(L + 1) : \E q \in DOMAIN Kids[O[j]] : Kids[O[j]][q] = O[i]
                /\ \A q \in DOMAIN Kids[O[i]] : \E j \in 1..(L + 1) : j < i /\ O[j] = Kids[O[i]][q]
    <3>1. CASE i = L + 1
      <4>1. O[i] = n
        BY <3>1, <2>7
      <4>2. ASSUME NEW q \in DOMAIN Kids[n] PROVE \E j \in 1..(L + 1) : j < i /\ O[j] = c(q)
        <5>1. q \in 1..m /\ Len(s[q]) \in 1..Len(s[q])
          BY <2>1, <2>9
        <5>2. s[q][Len(s[q])] = c(q)
          BY <5>1, <2>2 DEF SoundOrder
        <5>3. off[q] + Len(s[q]) \in 1..L /\ O[off[q] + Len(s[q])] = c(q)
          BY <5>1, <5>2, <2>10
        <5>4. QED
          BY <5>3, <3>1, <2>7
      <4>3. QED
        BY <4>1, <4>2, <2>1
    <3>2. ASSUME NEW k \in 1..m, NEW j \in 1..Len(s[k]), i = off[k] + j PROVE <2>13!2
      <4>1. O[i] = s[k][j] /\ off[k] \in Nat
        <5>1. O[off[k] + j] = s[k][j] /\ off[k] \in Nat
          BY <2>10
        <5>2. QED
          BY <3>2, <5>1
      <4>2. O[i] <= n
        <5>1. s[k][j] \in Nat /\ n \in Nat
          BY <2>12, TreeFacts
        <5>2. s[k][j] < n
          BY <2>12
        <5>3. QED
          BY <4>1, <5>1, <5>2
      <4>3. ASSUME O[i] # n
            PROVE  \E x \in 1..(L + 1) : \E q \in DOMAIN Kids[O[x]] : Kids[O[x]][q] = O[i]
        <5>1. CASE s[k][j] = c(k)
          <6>1. k \in DOMAIN Kids[O[L + 1]] /\ Kids[O[L + 1]][k] = O[i] /\ L + 1 \in 1..(L + 1)
            BY <5>1, <4>1, <2>1, <2>7
          <6>2. QED
            BY <6>1
        <5>2. CASE s[k][j] # c(k)
          <6>1. PICK j2 \in 1..Len(s[k]) : \E q \in DOMAIN Kids[s[k][j2]] : Kids[s[k][j2]][q] = s[k][j]
            BY <5>2, <2>12
          <6>2. off[k] + j2 \in 1..(L + 1) /\ O[off[k] + j2] = s[k][j2]
            BY <2>10, <2>7
          <6>3. QED
            BY <6>1, <6>2, <4>1
        <5>3. QED
          BY <5>1, <5>2
      <4>4. ASSUME NEW q \in DOMAIN Kids[O[i]]
            PROVE  \E x \in 1..(L + 1) : x < i /\ O[x] = Kids[O[i]][q]
        <5>1. PICK j2 \in 1..Len(s[k]) : j2 < j /\ s[k][j2] = Kids[O[i]][q]
          <6>1. q \in DOMAIN Kids[s[k][j]]
            BY <4>1
          <6>2. \E j2 \in 1..Len(s[k]) : j2 < j /\ s[k][j2] = Kids[s[k][j]][q]
            BY <6>1, <2>12
          <6>3. QED
            BY <4>1, <6>2
        <5>2. off[k] + j2 \in 1..(L + 1) /\ O[off[k] + j2] = s[k][j2]
          BY <2>10, <2>7
        <5>3. off[k] + j2 < i
          BY <5>1, <4>1, <3>2, <2>9
        <5>4. QED
          BY <5>1, <5>2, <5>3
      <4>5. QED
        BY <4>2, <4>3, <4>4
    <3>3. QED
      BY <3>1, <3>2, <2>11
  <2>14. ASSUME NEW i \in 1..(L + 1), NEW j \in 1..(L + 1), O[i] = O[j] PROVE i = j
    <3>1. ASSUME NEW x \in 1..(L + 1), O[x] = n PROVE x = L + 1
      <4>1. ASSUME NEW k \in 1..m, NEW a \in 1..Len(s[k]), x = off[k] + a PROVE FALSE
        <5>1. O[x] < n
          BY <4>1, <2>10, <2>12
        <5>2. QED
          BY <5>1, <3>1, <2>1
      <4>2. QED
        BY <4>1, <2>11
    <3>2. CASE i = L + 1 \/ j = L + 1
      BY <3>1, <3>2, <2>7, <2>14
    <3>3. CASE i # L + 1 /\ j # L + 1
      <4>1. PICK k \in 1..m : \E a \in 1..Len(s[k]) : i = off[k] + a
        BY <3>3, <2>11
      <4>2. PICK a \in 1..Len(s[k]) : i = off[k] + a
        BY <4>1
      <4>3. PICK l \in 1..m : \E b \in 1..Len(s[l]) : j = off[l] + b
        BY <3>3, <2>11
      <4>4. PICK b \in 1..Len(s[l]) : j = off[l] + b
        BY <4>3
      <4>5. s[k][a] = s[l][b]
        BY <4>2, <4>4, <2>10, <2>14
      <4>6. k = l
        <5>1. s[k][a] \in Subtree(c(k)) /\ s[k][a] \in Subtree(c(l))
          BY <4>5, <2>12
        <5>2. SoundOrder(c(k)) /\ SoundOrder(c(l)) /\ k \in DOMAIN Kids[n] /\ l \in DOMAIN Kids[n]
          BY <2>1, <2>2
        <5>3. QED
          BY <5>1, <5>2, Siblings
      <4>7. a = b
        <5>1. s[k] = Postorder[c(k)] /\ SoundOrder(c(k)) /\ a \in DOMAIN s[k] /\ b \in DOMAIN s[k]
          BY <2>2, <2>9, <4>6
        <5>2. QED
          BY <5>1, <4>5, <4>6 DEF SoundOrder
      <4>8. QED
        BY <4>2, <4>4, <4>6, <4>7
    <3>4. QED
      BY <3>2, <3>3
  <2>16. /\ \A i, j \in DOMAIN O : O[i] = O[j] => i = j
         /\ \A i \in DOMAIN O :
              /\ O[i] <= n
              /\ O[i] # n => \E j \in DOMAIN O : \E q \in DOMAIN Kids[O[j]] : Kids[O[j]][q] = O[i]
              /\ \A q \in DOMAIN Kids[O[i]] : \E j \in DOMAIN O : j < i /\ O[j] = Kids[O[i]][q]
    <3> DEFINE D == 1..(L + 1)
    <3>1. DOMAIN O = D
      BY <2>7
    <3>2. \A i, j \in D : O[i] = O[j] => i = j
      BY <2>14
    <3>3. \A i \in D :
            /\ O[i] <= n
            /\ O[i] # n => \E j \in D : \E q \in DOMAIN Kids[O[j]] : Kids[O[j]][q] = O[i]
            /\ \A q \in DOMAIN Kids[O[i]] : \E j \in D : j < i /\ O[j] = Kids[O[i]][q]
      BY <2>13
    <3> HIDE DEF D
    <3>4. QED
      BY <3>1, <3>2, <3>3
  <2>17. O \in Seq(Nodes) /\ Len(O) > 0 /\ O[Len(O)] = n
    BY <2>7
  <2>18. QED
    BY ONLY <2>16, <2>17 DEF SoundOrder, O
<1>2. QED
  <2>1. \A n \in Nodes : (\A m \in Nodes : m < n => m \in P) => n \in P
    BY <1>1
  <2> HIDE DEF P
  <2>2. Nodes \subseteq P
    BY <2>1, UpTheTree
  <2>3. QED
    BY <2>2 DEF P

-----------------------------------------------------------------------------
(* Sums of contributions                                                   *)

\* A part of the nodes is finite, and smaller without one of them.
LEMMA CardFacts ==
  ASSUME NEW S \in SUBSET Nodes
  PROVE  /\ Cardinality(S) \in Nat
         /\ \A x \in S : Cardinality(S \ {x}) < Cardinality(S)
<1>1. IsFiniteSet(S) /\ Cardinality(S) \in Nat
  BY TreeFacts, FS_Subset, FS_CardinalityType
<1>2. \A x \in S : Cardinality(S \ {x}) = Cardinality(S) - 1
  BY <1>1, FS_RemoveElement
<1>3. QED
  BY <1>1, <1>2

\* Induction over the sets of nodes, by their sizes.
LEMMA SmallerFirst ==
  ASSUME NEW P,
         \A S \in SUBSET Nodes :
           (\A T \in SUBSET Nodes : Cardinality(T) < Cardinality(S) => T \in P) => S \in P
  PROVE  SUBSET Nodes \subseteq P
<1> DEFINE Q == {k \in Nat : \A S \in SUBSET Nodes : Cardinality(S) = k => S \in P}
<1>1. \A n \in Nat : (\A m \in Nat : m < n => m \in Q) => n \in Q
  BY CardFacts
<1>2. Nat \subseteq Q
  <2> HIDE DEF Q
  <2> QED BY <1>1, Upwards
<1>3. QED
  BY <1>2, CardFacts

Pick(s) == CHOOSE x \in s : TRUE

\* A set that is not empty has the element picked.
LEMMA PickIn == \A s : s # {} => Pick(s) \in s
BY DEF Pick

\* The recursion of a sum over the subsets of S.
Summed(g, S) ==
  g = [s \in SUBSET S |-> IF s = {} THEN 0 ELSE Contrib[Pick(s)] + g[s \ {Pick(s)}]]

\* ContribOf, as the recursive sum it chooses.
LEMMA ContribIsSum ==
  ASSUME NEW S, NEW g, g = CHOOSE h : Summed(h, S) PROVE ContribOf(S) = g[S]
BY DEF ContribOf, SumFunctionOnSet, FoldFunctionOnSet, MapThenFoldSet, Summed, Pick

\* What ContribOf computes.
Adds(S) == ContribOf(S) = IF S = {} THEN 0 ELSE Contrib[Pick(S)] + ContribOf(S \ {Pick(S)})

\* The recursive equation of ContribOf, for every set of nodes.
LEMMA ContribDef == \A S \in SUBSET Nodes : Adds(S)
<1> DEFINE P == {S \in SUBSET Nodes : Adds(S)}
<1>1. ASSUME NEW S \in SUBSET Nodes, \A T \in SUBSET Nodes : Cardinality(T) < Cardinality(S) => T \in P
      PROVE  S \in P
  <2> DEFINE rest(s) == s \ {Pick(s)}
             h == [s \in SUBSET S |-> IF s = S /\ s # {} THEN Contrib[Pick(S)] + ContribOf(rest(S))
                                      ELSE ContribOf(s)]
             g == CHOOSE f : Summed(f, S)
  <2>1. ASSUME NEW s \in SUBSET S, s # S PROVE Adds(s)
    <3>1. PICK x \in S : x \notin s
      BY <2>1
    <3>2. Cardinality(S \ {x}) < Cardinality(S) /\ S \ {x} \in SUBSET Nodes
      BY CardFacts
    <3>3. IsFiniteSet(S \ {x}) /\ s \subseteq S \ {x}
      BY <3>1, TreeFacts, FS_Subset
    <3>4. Cardinality(s) <= Cardinality(S \ {x})
      BY <3>3, FS_Subset
    <3>5. Cardinality(s) < Cardinality(S) /\ s \in SUBSET Nodes
      BY <3>2, <3>4, CardFacts
    <3>6. QED
      BY <3>5, <1>1
  <2>2. ASSUME NEW s \in SUBSET S, s # {} PROVE rest(s) \in SUBSET S /\ rest(s) # S /\ rest(s) # s
    BY <2>2, PickIn
  <2> HIDE DEF P, rest
  <2>3. S # {} => \A s \in SUBSET S : h[s] = IF s = {} THEN 0 ELSE Contrib[Pick(s)] + h[rest(s)]
    <3> SUFFICES ASSUME S # {}, NEW s \in SUBSET S
                 PROVE  h[s] = IF s = {} THEN 0 ELSE Contrib[Pick(s)] + h[rest(s)]
      OBVIOUS
    <3>1. CASE s = {}
      <4>1. h[s] = ContribOf({})
        BY <3>1
      <4>2. QED
        BY <4>1, <3>1, <2>1 DEF Adds
    <3>2. CASE s # {}
      <4>1. h[rest(s)] = ContribOf(rest(s))
        BY <3>2, <2>2
      <4>2. CASE s = S
        BY <4>1, <4>2, <3>2
      <4>3. CASE s # S
        <5>1. h[s] = ContribOf(s)
          BY <4>3
        <5>2. ContribOf(s) = Contrib[Pick(s)] + ContribOf(rest(s))
          BY <4>3, <3>2, <2>1 DEF Adds, rest
        <5>3. QED
          BY <5>1, <5>2, <4>1, <3>2
      <4>4. QED
        BY <4>2, <4>3
    <3>3. QED
      BY <3>1, <3>2
  <2>4. S # {} => \E f : Summed(f, S)
    <3>1. h = [s \in SUBSET S |-> h[s]]
      OBVIOUS
    <3> HIDE DEF h
    <3>2. S # {} => Summed(h, S)
      BY <2>3, <3>1 DEF Summed, rest
    <3>3. QED
      BY <3>2
  <2> HIDE DEF h
  <2>5. S = {} => \E f : Summed(f, S)
    <3>1. Summed([s \in SUBSET {} |-> 0], {})
      BY DEF Summed
    <3>2. QED
      BY <3>1
  <2>6. Summed(g, S) /\ ContribOf(S) = g[S]
    <3>1. Summed(g, S)
      BY <2>4, <2>5
    <3>2. QED
      BY <3>1, ContribIsSum
  <2> HIDE DEF g
  <2>7. \A s \in SUBSET S : g[s] = IF s = {} THEN 0 ELSE Contrib[Pick(s)] + g[rest(s)]
    BY <2>6 DEF Summed, rest
  <2>8. \A s \in SUBSET S : s # S => g[s] = ContribOf(s)
    <3> DEFINE E == {s \in SUBSET Nodes : s \in SUBSET S /\ s # S => g[s] = ContribOf(s)}
    <3>1. ASSUME NEW s \in SUBSET Nodes,
                 \A t \in SUBSET Nodes : Cardinality(t) < Cardinality(s) => t \in E,
                 s \in SUBSET S, s # S
          PROVE  g[s] = ContribOf(s)
      <4>1. CASE s = {}
        BY <4>1, <3>1, <2>1, <2>7 DEF Adds
      <4>2. CASE s # {}
        <5>1. rest(s) \in SUBSET S /\ rest(s) # S /\ rest(s) \in SUBSET Nodes
          BY <4>2, <2>2, <3>1
        <5>2. Cardinality(rest(s)) < Cardinality(s)
          BY <4>2, CardFacts, PickIn DEF rest
        <5>3. g[rest(s)] = ContribOf(rest(s))
          BY <5>1, <5>2, <3>1
        <5>4. g[s] = Contrib[Pick(s)] + g[rest(s)]
          BY <4>2, <3>1, <2>7
        <5>5. ContribOf(s) = Contrib[Pick(s)] + ContribOf(rest(s))
          BY <4>2, <3>1, <2>1 DEF Adds, rest
        <5>6. QED
          BY <5>3, <5>4, <5>5
      <4>3. QED
        BY <4>1, <4>2
    <3>2. \A s \in SUBSET Nodes :
            (\A t \in SUBSET Nodes : Cardinality(t) < Cardinality(s) => t \in E) => s \in E
      BY <3>1
    <3> HIDE DEF E
    <3>3. SUBSET Nodes \subseteq E
      BY <3>2, SmallerFirst
    <3>4. SUBSET S \subseteq SUBSET Nodes
      OBVIOUS
    <3>5. QED
      BY <3>3, <3>4 DEF E
  <2>9. Adds(S)
    <3>1. CASE S = {}
      BY <3>1, <2>6, <2>7 DEF Adds
    <3>2. CASE S # {}
      <4>1. g[rest(S)] = ContribOf(rest(S))
        BY <3>2, <2>2, <2>8
      <4>2. g[S] = Contrib[Pick(S)] + g[rest(S)]
        BY <3>2, <2>7
      <4>3. QED
        BY <4>1, <4>2, <3>2, <2>6 DEF Adds, rest
    <3>3. QED
      BY <3>1, <3>2
  <2>10. QED
    BY <2>9 DEF P
<1>2. SUBSET Nodes \subseteq P
  <2> HIDE DEF P
  <2> QED BY <1>1, SmallerFirst
<1>3. QED
  BY <1>2

\* It does not matter in which order they are added.
LEMMA ContribOne ==
  \A S \in SUBSET Nodes : /\ ContribOf(S) \in Nat
                          /\ \A x \in S : ContribOf(S) = Contrib[x] + ContribOf(S \ {x})
<1> DEFINE Fine(S) == /\ ContribOf(S) \in Nat
                      /\ \A x \in S : ContribOf(S) = Contrib[x] + ContribOf(S \ {x})
           P == {S \in SUBSET Nodes : Fine(S)}
<1>1. ASSUME NEW S \in SUBSET Nodes, \A T \in SUBSET Nodes : Cardinality(T) < Cardinality(S) => T \in P
      PROVE  S \in P
  <2>1. CASE S = {}
    <3>1. ContribOf(S) = 0
      BY <2>1, ContribDef DEF Adds
    <3>2. QED
      BY <2>1, <3>1
  <2>2. CASE S # {}
    <3> DEFINE p == Pick(S)
    <3>1. p \in S /\ p \in Nodes /\ Contrib[p] \in Nat
      BY <2>2, PickIn, CostAssumption
    <3>2. ContribOf(S) = Contrib[p] + ContribOf(S \ {p})
      BY <2>2, ContribDef DEF Adds
    <3> HIDE DEF p
    <3>3. Fine(S \ {p})
      BY <3>1, <1>1, CardFacts
    <3>4. ContribOf(S) \in Nat
      BY <3>1, <3>2, <3>3
    <3>5. ASSUME NEW x \in S, x # p PROVE ContribOf(S) = Contrib[x] + ContribOf(S \ {x})
      <4>1. ContribOf(S \ {p}) = Contrib[x] + ContribOf((S \ {p}) \ {x})
        BY <3>3, <3>5
      <4>2. Fine(S \ {x})
        BY <1>1, CardFacts
      <4>3. ContribOf(S \ {x}) = Contrib[p] + ContribOf((S \ {x}) \ {p})
        BY <4>2, <3>1, <3>5
      <4>4. (S \ {x}) \ {p} = (S \ {p}) \ {x}
        OBVIOUS
      <4>5. Contrib[x] \in Nat /\ ContribOf((S \ {p}) \ {x}) \in Nat
        <5>1. Cardinality((S \ {p}) \ {x}) < Cardinality(S)
          <6>1. x \in S \ {p} /\ S \ {p} \in SUBSET Nodes /\ (S \ {p}) \ {x} \in SUBSET Nodes
            BY <3>5
          <6>2. Cardinality((S \ {p}) \ {x}) < Cardinality(S \ {p})
            BY <6>1, CardFacts
          <6>3. Cardinality(S \ {p}) < Cardinality(S)
            BY <3>1, CardFacts
          <6>4. QED
            BY <6>1, <6>2, <6>3, CardFacts
        <5>2. (S \ {p}) \ {x} \in P
          BY <5>1, <1>1
        <5>3. QED
          BY <5>2, CostAssumption
      <4> DEFINE r == ContribOf((S \ {p}) \ {x})
      <4>6. ContribOf(S) = Contrib[p] + (Contrib[x] + r) /\ ContribOf(S \ {x}) = Contrib[p] + r
        BY <3>2, <4>1, <4>3, <4>4
      <4>7. r \in Nat /\ Contrib[p] \in Nat /\ Contrib[x] \in Nat
        BY <3>1, <4>5
      <4> HIDE DEF r
      <4>8. QED
        BY <4>6, <4>7
    <3>6. Fine(S)
      BY <3>2, <3>4, <3>5
    <3>7. QED
      BY <3>6
  <2>3. QED
    BY <2>1, <2>2
<1>2. SUBSET Nodes \subseteq P
  <2> HIDE DEF P
  <2> QED BY <1>1, SmallerFirst
<1>3. QED
  BY <1>2

\* The contributions of two sets of nodes apart add up.
LEMMA ContribUnion ==
  ASSUME NEW A \in SUBSET Nodes
  PROVE  \A B \in SUBSET Nodes :
           A \cap B = {} => ContribOf(A \cup B) = ContribOf(A) + ContribOf(B)
<1> DEFINE P == {B \in SUBSET Nodes :
                   A \cap B = {} => ContribOf(A \cup B) = ContribOf(A) + ContribOf(B)}
<1>1. ASSUME NEW B \in SUBSET Nodes, \A T \in SUBSET Nodes : Cardinality(T) < Cardinality(B) => T \in P,
             A \cap B = {}
      PROVE  ContribOf(A \cup B) = ContribOf(A) + ContribOf(B)
  <2>0. ContribOf(A) \in Nat
    BY ContribOne
  <2>1. CASE B = {}
    <3>1. ContribOf(B) = 0
      BY <2>1, ContribDef DEF Adds
    <3>2. A \cup B = A
      BY <2>1
    <3>3. QED
      BY <2>0, <3>1, <3>2
  <2>2. CASE B # {}
    <3>1. PICK x \in B : TRUE
      BY <2>2
    <3>2. /\ B \ {x} \in SUBSET Nodes /\ Cardinality(B \ {x}) < Cardinality(B) /\ A \cap (B \ {x}) = {}
          /\ A \cup B \in SUBSET Nodes /\ x \in A \cup B
          /\ (A \cup B) \ {x} = A \cup (B \ {x})
      BY <1>1, CardFacts
    <3>3. ContribOf(A \cup (B \ {x})) = ContribOf(A) + ContribOf(B \ {x})
      BY <3>2, <1>1
    <3>4. ContribOf(B) = Contrib[x] + ContribOf(B \ {x}) /\ ContribOf(B \ {x}) \in Nat
      BY <3>2, ContribOne
    <3>5. ContribOf(A \cup B) = Contrib[x] + ContribOf(A \cup (B \ {x}))
      BY <3>2, ContribOne
    <3>6. Contrib[x] \in Nat
      BY CostAssumption
    <3>7. QED
      BY <2>0, <3>3, <3>4, <3>5, <3>6
  <2>3. QED
    BY <2>1, <2>2
<1>2. SUBSET Nodes \subseteq P
  <2>1. \A S \in SUBSET Nodes :
          (\A T \in SUBSET Nodes : Cardinality(T) < Cardinality(S) => T \in P) => S \in P
    BY <1>1
  <2> HIDE DEF P
  <2>2. QED
    BY <2>1, SmallerFirst
<1>3. QED
  BY <1>2

-----------------------------------------------------------------------------
(* The subtrees of a node and of the forest                                *)

\* A subtree holds its root, and the children of each of its nodes.
LEMMA SubtreeFacts ==
  ASSUME NEW n \in Nodes
  PROVE  /\ Subtree(n) \in SUBSET Nodes /\ n \in Subtree(n)
         /\ \A m \in Subtree(n) : m <= n
         /\ \A m \in Subtree(n) : m # n => \E p \in Subtree(n) : m \in ToSet(Kids[p])
         /\ \A p \in Subtree(n) : ToSet(Kids[p]) \subseteq Subtree(n)
<1> DEFINE O == Postorder[n]
<1>1. SoundOrder(n)
  BY OrderSound
<1>2. O \in Seq(Nodes) /\ Len(O) > 0 /\ O[Len(O)] = n
  BY <1>1 DEF SoundOrder
<1>3. Len(O) \in DOMAIN O
  BY <1>2
<1>4. ASSUME NEW m \in Subtree(n)
      PROVE  /\ m \in Nodes /\ m <= n
             /\ m # n => \E p \in Subtree(n) : m \in ToSet(Kids[p])
             /\ ToSet(Kids[m]) \subseteq Subtree(n)
  <2>1. PICK i \in DOMAIN O : O[i] = m
    BY DEF Subtree, ToSet
  <2>2. /\ O[i] <= n
        /\ O[i] # n => \E j \in DOMAIN O : \E k \in DOMAIN Kids[O[j]] : Kids[O[j]][k] = O[i]
        /\ \A k \in DOMAIN Kids[O[i]] : \E j \in DOMAIN O : j < i /\ O[j] = Kids[O[i]][k]
    BY <1>1, OrderAt
  <2>3. m \in Nodes
    BY <1>2, <2>1
  <2>4. \A j \in DOMAIN O : O[j] \in Subtree(n)
    BY DEF Subtree, ToSet
  <2> HIDE DEF O
  <2>5. m # n => \E p \in Subtree(n) : m \in ToSet(Kids[p])
    BY <2>1, <2>2, <2>4 DEF ToSet
  <2>6. ToSet(Kids[m]) \subseteq Subtree(n)
    BY <2>1, <2>2, <2>4 DEF ToSet
  <2>7. QED
    BY <2>1, <2>2, <2>3, <2>5, <2>6
<1>5. n \in Subtree(n)
  BY <1>2, <1>3 DEF Subtree, ToSet
<1>6. QED
  BY <1>4, <1>5

\* A child comes before its parent, and its subtree within the parent's.
LEMMA KidFacts ==
  ASSUME NEW n \in Nodes, NEW c \in ToSet(Kids[n])
  PROVE  /\ c \in Nodes /\ c < n /\ n \notin Subtree(c) /\ Subtree(c) \subseteq Subtree(n)
         /\ \A p \in Nodes : c \in ToSet(Kids[p]) => p = n
         /\ c \notin ToSet(Roots)
<1>1. c \in Nodes /\ c < n
  BY TreeFacts DEF ToSet
<1>2. n \notin Subtree(c)
  <2>1. n \in Subtree(c) => n <= c
    BY <1>1, SubtreeFacts
  <2>2. n \in Nat /\ c \in Nat
    BY <1>1, TreeFacts
  <2>3. QED
    BY <2>1, <2>2, <1>1
<1>3. \A p \in Nodes : c \in ToSet(Kids[p]) => p = n
  BY OneParent DEF ToSet
<1>4. c \notin ToSet(Roots)
  BY <1>1, TreeAssumption
<1>5. Subtree(c) \subseteq Subtree(n)
  <2> DEFINE P == {m \in Nodes : m \in Subtree(c) => m \in Subtree(n)}
  <2>1. ASSUME NEW m \in Nodes, \A p \in Nodes : p > m => p \in P, m \in Subtree(c)
        PROVE  m \in Subtree(n)
    <3>1. CASE m = c
      <4>1. n \in Subtree(n) /\ ToSet(Kids[n]) \subseteq Subtree(n)
        BY SubtreeFacts
      <4>2. QED
        BY <3>1, <4>1
    <3>2. CASE m # c
      <4>1. PICK p \in Subtree(c) : m \in ToSet(Kids[p])
        BY <3>2, <2>1, <1>1, SubtreeFacts
      <4>2. p \in Nodes /\ m < p
        BY <4>1, <1>1, SubtreeFacts, TreeFacts DEF ToSet
      <4>3. p \in Subtree(n)
        BY <4>1, <4>2, <2>1
      <4>4. QED
        BY <4>1, <4>3, SubtreeFacts
    <3>3. QED
      BY <3>1, <3>2
  <2>2. Nodes \subseteq P
    <3>1. \A m \in Nodes : (\A p \in Nodes : p > m => p \in P) => m \in P
      BY <2>1
    <3> HIDE DEF P
    <3>2. QED
      BY <3>1, DownTheTree
  <2>3. QED
    BY <2>2, <1>1, SubtreeFacts
<1>6. QED
  BY <1>1, <1>2, <1>3, <1>4, <1>5

\* Two nodes that no node has below it together.
Unrelated(q) ==
  \A i, j \in DOMAIN q : i # j => Subtree(q[i]) \cap Subtree(q[j]) = {}

\* The children of one node have subtrees apart.
LEMMA KidsUnrelated ==
  ASSUME NEW n \in Nodes, NEW c \in ToSet(Kids[n]), NEW d \in ToSet(Kids[n]), c # d
  PROVE  Subtree(c) \cap Subtree(d) = {}
<1>1. PICK k \in DOMAIN Kids[n] : Kids[n][k] = c
  BY DEF ToSet
<1>2. PICK l \in DOMAIN Kids[n] : Kids[n][l] = d
  BY DEF ToSet
<1>3. SoundOrder(c) /\ SoundOrder(d)
  BY OrderSound, KidFacts
<1>4. QED
  BY <1>1, <1>2, <1>3, Siblings

\* So have the roots.
LEMMA RootsUnrelated == Unrelated(Roots)
<1> SUFFICES ASSUME NEW i \in DOMAIN Roots, NEW j \in DOMAIN Roots, i # j
             PROVE  Subtree(Roots[i]) \cap Subtree(Roots[j]) = {}
  BY DEF Unrelated
<1>0. \A k \in DOMAIN Roots : Roots[k] \in Nodes
  BY TreeFacts
<1>1. ASSUME NEW x \in DOMAIN Roots, NEW y \in DOMAIN Roots, x # y
      PROVE  Roots[x] \notin Subtree(Roots[y])
  <2>1. Roots[x] \in Nodes /\ Roots[y] \in Nodes /\ Roots[x] # Roots[y] /\ Roots[x] \in ToSet(Roots)
    <3>1. Roots[x] # Roots[y]
      BY <1>1, TreeAssumption
    <3>2. Roots[x] \in Nodes /\ Roots[y] \in Nodes
      BY <1>0
    <3>3. Roots[x] \in ToSet(Roots)
      BY DEF ToSet
    <3>4. QED
      BY <3>1, <3>2, <3>3
  <2>2. \A p \in Nodes : Roots[x] \notin ToSet(Kids[p])
    BY <2>1, TreeAssumption
  <2>3. QED
    BY <2>1, <2>2, SubtreeFacts
<1>3. SoundOrder(Roots[i]) /\ SoundOrder(Roots[j])
  BY <1>0, OrderSound
<1>4. QED
  BY <1>1, <1>0, <1>3, Disjoint

-----------------------------------------------------------------------------
(* What a task does                                                        *)

Fixed == ({"run", "bare", "cap", "spawn"} \X Nodes) \cup {Wait}

\* The nodes a step is to process: of a spawned task, those of its subtree.
Mine(x) ==
  IF x[1] = "spawn" THEN Subtree(x[2]) ELSE IF x[1] \in {"cap", "wait"} THEN {} ELSE {x[2]}

Owned(P) == UNION {Mine(P[i]) : i \in DOMAIN P}

\* No node is of two steps.
Apart(P) == \A i, j \in DOMAIN P : i # j => Mine(P[i]) \cap Mine(P[j]) = {}

\* Before a node, the program of t has each of its children, or, when the node
\* is t itself, the spawn of a task for it and then a wait.
First(P, t) ==
  \A i \in DOMAIN P : P[i][1] \in {"run", "bare"} =>
    \A c \in ToSet(Kids[P[i][2]]) :
      \/ \E j \in DOMAIN P : j < i /\ P[j] \in {Run(c), Bare(c)}
      \/ /\ P[i][2] = t
         /\ \E k \in DOMAIN P : k < i /\ P[k] = Wait /\ \E j \in DOMAIN P : j < k /\ P[j] = Spawn(c)

\* What a step is and which node it is on.
LEMMA StepParts ==
  /\ \A n : /\ Run(n)[1] = "run" /\ Bare(n)[1] = "bare" /\ Cap(n)[1] = "cap" /\ Spawn(n)[1] = "spawn"
           /\ Run(n)[2] = n /\ Bare(n)[2] = n /\ Cap(n)[2] = n /\ Spawn(n)[2] = n
  /\ Wait[1] = "wait"
BY DEF Run, Bare, Cap, Spawn, Wait

\* The nodes each kind of step is to process.
LEMMA MineOf ==
  /\ \A n : Mine(Run(n)) = {n} /\ Mine(Bare(n)) = {n} /\ Mine(Cap(n)) = {} /\ Mine(Spawn(n)) = Subtree(n)
  /\ Mine(Wait) = {}
<1>1. \A n : Mine(Run(n)) = {n}
  BY DEF Mine, Run
<1>2. \A n : Mine(Bare(n)) = {n}
  BY DEF Mine, Bare
<1>3. \A n : Mine(Cap(n)) = {}
  BY DEF Mine, Cap
<1>4. \A n : Mine(Spawn(n)) = Subtree(n)
  BY DEF Mine, Spawn
<1>5. Mine(Wait) = {}
  BY DEF Mine, Wait
<1>6. QED
  BY <1>1, <1>2, <1>3, <1>4, <1>5

\* Where the elements of two sequences are in their concatenation.
LEMMA ConcatAt ==
  ASSUME NEW X, NEW A \in Seq(X), NEW B \in Seq(X)
  PROVE  /\ A \o B \in Seq(X) /\ Len(A) \in Nat /\ Len(B) \in Nat
         /\ \A i \in DOMAIN A : i \in DOMAIN (A \o B) /\ (A \o B)[i] = A[i] /\ i <= Len(A)
         /\ \A i \in DOMAIN B : Len(A) + i \in DOMAIN (A \o B) /\ (A \o B)[Len(A) + i] = B[i]
         /\ \A i \in DOMAIN (A \o B) : i \in DOMAIN A \/ \E j \in DOMAIN B : i = Len(A) + j
<1>1. A \o B \in Seq(X) /\ Len(A) \in Nat /\ Len(B) \in Nat /\ Len(A \o B) = Len(A) + Len(B)
  OBVIOUS
<1>2. DOMAIN A = 1..Len(A) /\ DOMAIN B = 1..Len(B) /\ DOMAIN (A \o B) = 1..(Len(A) + Len(B))
  BY <1>1
<1>3. \A i \in 1..Len(A) : (A \o B)[i] = A[i]
  BY <1>1
<1>4. \A i \in 1..Len(B) : (A \o B)[Len(A) + i] = B[i]
  BY <1>1
<1>5. \A i \in 1..(Len(A) + Len(B)) : i \in 1..Len(A) \/ (i - Len(A) \in 1..Len(B) /\ i = Len(A) + (i - Len(A)))
  BY <1>1
<1> DEFINE C == A \o B
<1> HIDE DEF C
<1>6. \A i \in DOMAIN A : i \in DOMAIN C /\ C[i] = A[i] /\ i <= Len(A)
  BY <1>1, <1>2, <1>3 DEF C
<1>7. \A i \in DOMAIN B : Len(A) + i \in DOMAIN C /\ C[Len(A) + i] = B[i]
  <2>1. \A i \in 1..Len(B) : Len(A) + i \in 1..(Len(A) + Len(B))
    BY <1>1
  <2>2. QED
    BY <2>1, <1>2, <1>4 DEF C
<1>8. \A i \in DOMAIN C : i \in DOMAIN A \/ \E j \in DOMAIN B : i = Len(A) + j
  <2>1. \A i \in 1..(Len(A) + Len(B)) : i \in 1..Len(A) \/ \E j \in 1..Len(B) : i = Len(A) + j
    BY <1>5
  <2>2. QED
    BY <2>1, <1>2 DEF C
<1>9. QED
  BY <1>1, <1>6, <1>7, <1>8 DEF C

\* Programs for nodes apart make one in which no node is of two steps.
LEMMA Glue ==
  ASSUME NEW A \in Seq(Fixed), NEW B \in Seq(Fixed), Apart(A), Apart(B), Owned(A) \cap Owned(B) = {}
  PROVE  /\ A \o B \in Seq(Fixed) /\ Apart(A \o B) /\ Owned(A \o B) = Owned(A) \cup Owned(B)
<1> DEFINE C == A \o B
<1>1. /\ C \in Seq(Fixed) /\ Len(A) \in Nat
      /\ \A i \in DOMAIN A : i \in DOMAIN C /\ C[i] = A[i] /\ i <= Len(A)
      /\ \A i \in DOMAIN B : Len(A) + i \in DOMAIN C /\ C[Len(A) + i] = B[i]
      /\ \A i \in DOMAIN C : i \in DOMAIN A \/ \E j \in DOMAIN B : i = Len(A) + j
  BY ConcatAt
<1> HIDE DEF C
<1>2. \A i \in DOMAIN A : Mine(A[i]) \subseteq Owned(A)
  BY DEF Owned
<1>3. \A i \in DOMAIN B : Mine(B[i]) \subseteq Owned(B)
  BY DEF Owned
<1>4. ASSUME NEW i \in DOMAIN C, NEW j \in DOMAIN C, i # j PROVE Mine(C[i]) \cap Mine(C[j]) = {}
  <2>1. CASE i \in DOMAIN A /\ j \in DOMAIN A
    BY <2>1, <1>1, <1>4 DEF Apart
  <2>2. CASE i \in DOMAIN A /\ j \notin DOMAIN A
    <3>1. PICK b \in DOMAIN B : j = Len(A) + b
      BY <2>2, <1>1
    <3>2. Mine(C[i]) \subseteq Owned(A) /\ Mine(C[j]) \subseteq Owned(B)
      BY <3>1, <2>2, <1>1, <1>2, <1>3
    <3>3. QED
      BY <3>2
  <2>3. CASE i \notin DOMAIN A /\ j \in DOMAIN A
    <3>1. PICK b \in DOMAIN B : i = Len(A) + b
      BY <2>3, <1>1
    <3>2. Mine(C[j]) \subseteq Owned(A) /\ Mine(C[i]) \subseteq Owned(B)
      BY <3>1, <2>3, <1>1, <1>2, <1>3
    <3>3. QED
      BY <3>2
  <2>4. CASE i \notin DOMAIN A /\ j \notin DOMAIN A
    <3>1. PICK a \in DOMAIN B : i = Len(A) + a
      BY <2>4, <1>1
    <3>2. PICK b \in DOMAIN B : j = Len(A) + b
      BY <2>4, <1>1
    <3>3. a # b /\ C[i] = B[a] /\ C[j] = B[b]
      BY <3>1, <3>2, <1>1, <1>4
    <3>4. QED
      BY <3>3 DEF Apart
  <2>5. QED
    BY <2>1, <2>2, <2>3, <2>4
<1>5. Owned(C) \subseteq Owned(A) \cup Owned(B)
  <2>1. ASSUME NEW i \in DOMAIN C PROVE Mine(C[i]) \subseteq Owned(A) \cup Owned(B)
    <3>1. CASE i \in DOMAIN A
      BY <3>1, <1>1, <1>2
    <3>2. CASE i \notin DOMAIN A
      BY <3>2, <1>1, <1>3
    <3>3. QED
      BY <3>1, <3>2
  <2>2. QED
    BY <2>1 DEF Owned
<1>6. Owned(A) \cup Owned(B) \subseteq Owned(C)
  <2>1. \A i \in DOMAIN A : Mine(A[i]) \subseteq Owned(C)
    BY <1>1 DEF Owned
  <2>2. \A i \in DOMAIN B : Mine(B[i]) \subseteq Owned(C)
    BY <1>1 DEF Owned
  <2>3. QED
    BY <2>1, <2>2 DEF Owned
<1>7. QED
  BY <1>1, <1>4, <1>5, <1>6 DEF Apart, C

\* Children come first in a program made of two in which they do.
LEMMA GlueFirst ==
  ASSUME NEW A \in Seq(Fixed), NEW B \in Seq(Fixed), NEW t, First(A, t), First(B, t)
  PROVE  First(A \o B, t)
<1> DEFINE C == A \o B
           Kid(i, c) == \E j \in DOMAIN C : j < i /\ C[j] \in {Run(c), Bare(c)}
           Late(i, c) == \E k \in DOMAIN C : /\ k < i /\ C[k] = Wait
                                             /\ \E j \in DOMAIN C : j < k /\ C[j] = Spawn(c)
<1>1. /\ C \in Seq(Fixed) /\ Len(A) \in Nat
      /\ \A i \in DOMAIN A : i \in DOMAIN C /\ C[i] = A[i] /\ i <= Len(A)
      /\ \A i \in DOMAIN B : Len(A) + i \in DOMAIN C /\ C[Len(A) + i] = B[i]
      /\ \A i \in DOMAIN C : i \in DOMAIN A \/ \E j \in DOMAIN B : i = Len(A) + j
  BY ConcatAt
<1>2. DOMAIN A \subseteq Nat /\ DOMAIN B \subseteq Nat
  OBVIOUS
<1> HIDE DEF C
<1>3. ASSUME NEW i \in DOMAIN C, C[i][1] \in {"run", "bare"}, NEW c \in ToSet(Kids[C[i][2]])
      PROVE  Kid(i, c) \/ (C[i][2] = t /\ Late(i, c))
  <2>1. CASE i \in DOMAIN A
    <3>1. \/ \E j \in DOMAIN A : j < i /\ A[j] \in {Run(c), Bare(c)}
          \/ /\ A[i][2] = t
             /\ \E k \in DOMAIN A : k < i /\ A[k] = Wait /\ \E j \in DOMAIN A : j < k /\ A[j] = Spawn(c)
      BY <2>1, <1>1, <1>3 DEF First
    <3>2. QED
      BY <2>1, <3>1, <1>1
  <2>2. CASE i \notin DOMAIN A
    <3>1. PICK b \in DOMAIN B : i = Len(A) + b
      BY <2>2, <1>1
    <3>2. C[i] = B[b]
      BY <3>1, <1>1
    <3>3. \/ \E j \in DOMAIN B : j < b /\ B[j] \in {Run(c), Bare(c)}
          \/ /\ B[b][2] = t
             /\ \E k \in DOMAIN B : k < b /\ B[k] = Wait /\ \E j \in DOMAIN B : j < k /\ B[j] = Spawn(c)
      BY <3>2, <1>3 DEF First
    <3>4. CASE \E j \in DOMAIN B : j < b /\ B[j] \in {Run(c), Bare(c)}
      <4>1. PICK j \in DOMAIN B : j < b /\ B[j] \in {Run(c), Bare(c)}
        BY <3>4
      <4>2. Len(A) + j \in DOMAIN C /\ C[Len(A) + j] = B[j] /\ Len(A) + j < i
        BY <4>1, <3>1, <1>1, <1>2
      <4>3. QED
        BY <4>1, <4>2
    <3>5. CASE /\ B[b][2] = t
               /\ \E k \in DOMAIN B : k < b /\ B[k] = Wait /\ \E j \in DOMAIN B : j < k /\ B[j] = Spawn(c)
      <4>1. PICK k \in DOMAIN B : k < b /\ B[k] = Wait /\ \E j \in DOMAIN B : j < k /\ B[j] = Spawn(c)
        BY <3>5
      <4>2. PICK j \in DOMAIN B : j < k /\ B[j] = Spawn(c)
        BY <4>1
      <4>3. /\ Len(A) + k \in DOMAIN C /\ C[Len(A) + k] = Wait /\ Len(A) + k < i
            /\ Len(A) + j \in DOMAIN C /\ C[Len(A) + j] = Spawn(c) /\ Len(A) + j < Len(A) + k
        <5>1. Len(A) + k \in DOMAIN C /\ C[Len(A) + k] = Wait
          BY <4>1, <1>1
        <5>2. Len(A) + j \in DOMAIN C /\ C[Len(A) + j] = Spawn(c)
          BY <4>2, <1>1
        <5>3. Len(A) \in Nat /\ k \in Nat /\ j \in Nat /\ b \in Nat
          BY <1>1, <1>2
        <5>4. Len(A) + k < i /\ Len(A) + j < Len(A) + k
          BY <5>3, <4>1, <4>2, <3>1
        <5>5. QED
          BY <5>1, <5>2, <5>4
      <4>4. Late(i, c)
        BY <4>3
      <4>5. QED
        BY <4>4, <3>2, <3>5
    <3>6. QED
      BY <3>3, <3>4, <3>5
  <2>3. QED
    BY <2>1, <2>2
<1>4. QED
  BY <1>3 DEF First, C

\* The steps a program is made of.
LEMMA InFixed ==
  /\ \A n \in Nodes : Run(n) \in Fixed /\ Bare(n) \in Fixed /\ Cap(n) \in Fixed /\ Spawn(n) \in Fixed
  /\ Wait \in Fixed
BY DEF Fixed, Run, Bare, Cap, Spawn

\* A subtree run in place.
LEMMA RunSubtreeOk ==
  ASSUME NEW n \in Nodes, NEW t
  PROVE  /\ RunSubtree(n) \in Seq(Fixed) /\ Apart(RunSubtree(n)) /\ Owned(RunSubtree(n)) = Subtree(n)
         /\ First(RunSubtree(n), t)
         /\ \A i \in DOMAIN RunSubtree(n) : RunSubtree(n)[i][1] = "run"
         /\ \E i \in DOMAIN RunSubtree(n) : RunSubtree(n)[i] = Run(n)
<1> DEFINE O == Postorder[n]
           R == RunSubtree(n)
<1>0. SoundOrder(n)
  BY OrderSound
<1>1. O \in Seq(Nodes) /\ Len(O) \in Nat /\ Len(O) > 0 /\ O[Len(O)] = n /\ DOMAIN O = 1..Len(O)
  BY <1>0 DEF SoundOrder
<1>2. R = [i \in DOMAIN O |-> Run(O[i])]
  BY DEF RunSubtree, Each
<1>3. \A i \in DOMAIN O : O[i] \in Nodes
  BY <1>1
<1>4. \A i, j \in DOMAIN O : O[i] = O[j] => i = j
  BY <1>0 DEF SoundOrder
<1>5. \A i \in DOMAIN O : \A c \in ToSet(Kids[O[i]]) : \E j \in DOMAIN O : j < i /\ O[j] = c
  <2> SUFFICES ASSUME NEW i \in DOMAIN O, NEW c \in ToSet(Kids[O[i]])
               PROVE  \E j \in DOMAIN O : j < i /\ O[j] = c
    OBVIOUS
  <2>1. \A k \in DOMAIN Kids[O[i]] : \E j \in DOMAIN O : j < i /\ O[j] = Kids[O[i]][k]
    BY <1>0, OrderAt
  <2> HIDE DEF O
  <2>2. QED
    BY <2>1 DEF ToSet
<1>6. Subtree(n) = {O[i] : i \in DOMAIN O}
  BY DEF Subtree, ToSet
<1> HIDE DEF O, R
<1>7. DOMAIN R = DOMAIN O /\ \A i \in DOMAIN O : R[i] = <<"run", O[i]>> /\ R[i][1] = "run" /\ R[i][2] = O[i]
  BY <1>2 DEF Run
<1>8. R \in Seq(Fixed)
  <2>1. \A i \in 1..Len(O) : R[i] \in Fixed
    BY <1>1, <1>3, <1>7, InFixed DEF Run
  <2>2. R \in [1..Len(O) -> Fixed]
    BY <2>1, <1>1, <1>2
  <2>3. QED
    BY <2>2, <1>1, IsASeq
<1>9. \A i \in DOMAIN R : Mine(R[i]) = {O[i]}
  BY <1>7 DEF Mine
<1>10. Apart(R)
  BY <1>4, <1>7, <1>9 DEF Apart
<1>11. Owned(R) = Subtree(n)
  BY <1>6, <1>7, <1>9 DEF Owned
<1>12. First(R, t)
  <2> SUFFICES ASSUME NEW i \in DOMAIN R, NEW c \in ToSet(Kids[R[i][2]])
               PROVE  \E j \in DOMAIN R : j < i /\ R[j] \in {Run(c), Bare(c)}
    BY DEF First
  <2>1. PICK j \in DOMAIN O : j < i /\ O[j] = c
    BY <1>5, <1>7
  <2>2. R[j] = Run(c)
    BY <2>1, <1>7 DEF Run
  <2>3. QED
    BY <2>1, <2>2, <1>7
<1>13. \E i \in DOMAIN R : R[i] = Run(n)
  <2>1. Len(O) \in DOMAIN O
    BY <1>1
  <2>2. R[Len(O)] = Run(n)
    BY <2>1, <1>1, <1>7 DEF Run
  <2>3. QED
    BY <2>1, <2>2, <1>7
<1>14. QED
  BY <1>7, <1>8, <1>10, <1>11, <1>12, <1>13 DEF R

\* Programs for unrelated subtrees, one after the other.
LEMMA Pieces ==
  ASSUME NEW q \in Seq(Nodes), Unrelated(q), NEW s \in Seq(Seq(Fixed)), Len(s) = Len(q), NEW t,
         \A k \in DOMAIN q : Apart(s[k]) /\ Owned(s[k]) \subseteq Subtree(q[k]) /\ First(s[k], t)
  PROVE  /\ FlattenSeq(s) \in Seq(Fixed) /\ Apart(FlattenSeq(s)) /\ First(FlattenSeq(s), t)
         /\ Owned(FlattenSeq(s)) \subseteq UNION {Subtree(q[k]) : k \in DOMAIN q}
         /\ \A i \in DOMAIN FlattenSeq(s) :
              \E k \in DOMAIN q : \E j \in DOMAIN s[k] : FlattenSeq(s)[i] = s[k][j]
         /\ \A k \in DOMAIN q : \A j \in DOMAIN s[k] :
              \E i \in DOMAIN FlattenSeq(s) : FlattenSeq(s)[i] = s[k][j]
<1> DEFINE F == FlattenSeq(s)
           m == Len(s)
<1>1. m \in Nat /\ DOMAIN q = 1..m
  OBVIOUS
<1>2. F \in Seq(Fixed) /\ \E o : Placed(F, s, m, o)
  BY FlattenFacts
<1>3. PICK off : Placed(F, s, m, off)
  BY <1>2
<1> HIDE DEF F
<1>4. Len(F) \in Nat /\ DOMAIN F = 1..Len(F)
  BY <1>2
<1>5. \A k \in 1..m : s[k] \in Seq(Fixed) /\ Len(s[k]) \in Nat /\ DOMAIN s[k] = 1..Len(s[k])
  OBVIOUS
<1> HIDE DEF m
<1>6. ASSUME NEW k \in 1..m, NEW j \in DOMAIN s[k]
      PROVE  off[k] \in Nat /\ j \in Nat /\ off[k] + j \in DOMAIN F /\ F[off[k] + j] = s[k][j]
  <2>1. off[k] \in Nat /\ off[k] + Len(s[k]) <= Len(F)
    BY <1>3 DEF Placed
  <2>2. j \in 1..Len(s[k])
    BY <1>5
  <2>3. F[off[k] + j] = s[k][j]
    BY <2>2, <1>3 DEF Placed
  <2>4. off[k] + j \in 1..Len(F)
    BY <2>1, <2>2, <1>4, <1>5
  <2>5. QED
    BY <2>1, <2>2, <2>3, <2>4, <1>4
<1>7. \A i \in DOMAIN F : \E k \in 1..m : \E j \in DOMAIN s[k] : i = off[k] + j
  <2>1. \A i \in 1..Len(F) : \E k \in 1..m : \E j \in 1..Len(s[k]) : i = off[k] + j
    BY <1>3 DEF Placed
  <2>2. QED
    BY <2>1, <1>4, <1>5
<1>8. ASSUME NEW k \in 1..m, NEW j \in DOMAIN s[k] PROVE Mine(s[k][j]) \subseteq Subtree(q[k])
  <2>1. Mine(s[k][j]) \subseteq Owned(s[k])
    BY DEF Owned
  <2>2. QED
    BY <2>1, <1>1
<1>9. Apart(F)
  <2> SUFFICES ASSUME NEW i \in DOMAIN F, NEW i2 \in DOMAIN F, i # i2
               PROVE  Mine(F[i]) \cap Mine(F[i2]) = {}
    BY DEF Apart
  <2>1. PICK k \in 1..m : \E j \in DOMAIN s[k] : i = off[k] + j
    BY <1>7
  <2>2. PICK j \in DOMAIN s[k] : i = off[k] + j
    BY <2>1
  <2>3. PICK k2 \in 1..m : \E j2 \in DOMAIN s[k2] : i2 = off[k2] + j2
    BY <1>7
  <2>4. PICK j2 \in DOMAIN s[k2] : i2 = off[k2] + j2
    BY <2>3
  <2>5. F[i] = s[k][j] /\ F[i2] = s[k2][j2]
    BY <2>2, <2>4, <1>6
  <2>6. CASE k = k2
    <3>1. j # j2
      BY <2>2, <2>4, <2>6
    <3>2. Apart(s[k])
      BY <1>1
    <3>3. QED
      BY <3>1, <3>2, <2>5, <2>6 DEF Apart
  <2>7. CASE k # k2
    <3>1. Subtree(q[k]) \cap Subtree(q[k2]) = {}
      BY <2>7, <1>1 DEF Unrelated
    <3>2. Mine(F[i]) \subseteq Subtree(q[k]) /\ Mine(F[i2]) \subseteq Subtree(q[k2])
      BY <2>5, <1>8
    <3>3. QED
      BY <3>1, <3>2
  <2>8. QED
    BY <2>6, <2>7
<1>10. Owned(F) \subseteq UNION {Subtree(q[k]) : k \in DOMAIN q}
  <2>1. ASSUME NEW i \in DOMAIN F PROVE \E k \in DOMAIN q : Mine(F[i]) \subseteq Subtree(q[k])
    <3>1. PICK k \in 1..m : \E j \in DOMAIN s[k] : i = off[k] + j
      BY <1>7
    <3>2. PICK j \in DOMAIN s[k] : i = off[k] + j
      BY <3>1
    <3>3. F[i] = s[k][j]
      BY <3>2, <1>6
    <3>4. QED
      BY <3>3, <1>1, <1>8
  <2>2. QED
    BY <2>1 DEF Owned
<1>11. First(F, t)
  <2> SUFFICES ASSUME NEW i \in DOMAIN F, F[i][1] \in {"run", "bare"}, NEW c \in ToSet(Kids[F[i][2]])
               PROVE  \/ \E j \in DOMAIN F : j < i /\ F[j] \in {Run(c), Bare(c)}
                      \/ /\ F[i][2] = t
                         /\ \E x \in DOMAIN F : /\ x < i /\ F[x] = Wait
                                                /\ \E j \in DOMAIN F : j < x /\ F[j] = Spawn(c)
    BY DEF First
  <2>1. PICK k \in 1..m : \E j \in DOMAIN s[k] : i = off[k] + j
    BY <1>7
  <2>2. PICK j \in DOMAIN s[k] : i = off[k] + j
    BY <2>1
  <2> DEFINE S == s[k]
  <2>3. F[i] = S[j] /\ First(S, t) /\ j \in DOMAIN S /\ off[k] \in Nat
    BY <2>2, <1>1, <1>6
  <2>4. \A x \in DOMAIN S : off[k] + x \in DOMAIN F /\ F[off[k] + x] = S[x] /\ x \in Nat
    BY <1>6
  <2> HIDE DEF S
  <2>5. \/ \E x \in DOMAIN S : x < j /\ S[x] \in {Run(c), Bare(c)}
        \/ /\ S[j][2] = t
           /\ \E x \in DOMAIN S : x < j /\ S[x] = Wait /\ \E y \in DOMAIN S : y < x /\ S[y] = Spawn(c)
    BY <2>3 DEF First
  <2>6. CASE \E x \in DOMAIN S : x < j /\ S[x] \in {Run(c), Bare(c)}
    <3>1. PICK x \in DOMAIN S : x < j /\ S[x] \in {Run(c), Bare(c)}
      BY <2>6
    <3>2. off[k] + x < i
      BY <3>1, <2>2, <2>3, <2>4
    <3>3. QED
      BY <3>1, <3>2, <2>4
  <2>7. CASE /\ S[j][2] = t
             /\ \E x \in DOMAIN S : x < j /\ S[x] = Wait /\ \E y \in DOMAIN S : y < x /\ S[y] = Spawn(c)
    <3>1. PICK x \in DOMAIN S : x < j /\ S[x] = Wait /\ \E y \in DOMAIN S : y < x /\ S[y] = Spawn(c)
      BY <2>7
    <3>2. PICK y \in DOMAIN S : y < x /\ S[y] = Spawn(c)
      BY <3>1
    <3>3. off[k] + x < i /\ off[k] + y < off[k] + x
      <4>1. x \in Nat /\ y \in Nat /\ j \in Nat /\ off[k] \in Nat
        BY <2>3, <2>4
      <4>2. y < x /\ x < j /\ i = off[k] + j
        BY <3>1, <3>2, <2>2
      <4>3. QED
        BY <4>1, <4>2
    <3>4. off[k] + y \in DOMAIN F /\ F[off[k] + y] = Spawn(c)
      BY <3>2, <2>4
    <3>5. off[k] + x \in DOMAIN F /\ F[off[k] + x] = Wait
      BY <3>1, <2>4
    <3>6. F[i][2] = t
      BY <2>3, <2>7
    <3>7. QED
      BY <3>3, <3>4, <3>5, <3>6
  <2>8. QED
    BY <2>5, <2>6, <2>7
<1>12. ASSUME NEW i \in DOMAIN F PROVE \E k \in DOMAIN q : \E j \in DOMAIN s[k] : F[i] = s[k][j]
  <2>1. PICK k \in 1..m : \E j \in DOMAIN s[k] : i = off[k] + j
    BY <1>7
  <2>2. PICK j \in DOMAIN s[k] : i = off[k] + j
    BY <2>1
  <2>3. F[i] = s[k][j]
    BY <2>2, <1>6
  <2>4. QED
    BY <2>3, <1>1
<1>13. \A k \in DOMAIN q : \A j \in DOMAIN s[k] : \E i \in DOMAIN F : F[i] = s[k][j]
  BY <1>1, <1>6
<1>14. QED
  BY <1>2, <1>9, <1>10, <1>11, <1>12, <1>13 DEF F

\* The children of one kind, in their order.
LEMMA Chosen ==
  ASSUME NEW n \in Nodes, NEW T,
         NEW F, F = FlattenSeq([i \in DOMAIN Kids[n] |-> IF Kids[n][i] \in T THEN <<Kids[n][i]>> ELSE <<>>])
  PROVE  /\ F \in Seq(Nodes)
         /\ \A i, j \in DOMAIN F : F[i] = F[j] => i = j
         /\ ToSet(F) = ToSet(Kids[n]) \cap T
<1> DEFINE K == Kids[n]
           s == [i \in DOMAIN K |-> IF K[i] \in T THEN <<K[i]>> ELSE <<>>]
           m == Len(K)
<1>1. K \in Seq(Nodes) /\ m \in Nat /\ DOMAIN K = 1..m
  BY TreeFacts
<1>2. \A i, j \in DOMAIN K : K[i] = K[j] => i = j
  BY OneParent
<1> HIDE DEF K, m
<1>3. \A k \in 1..m : /\ s[k] = IF K[k] \in T THEN <<K[k]>> ELSE <<>>
                      /\ s[k] \in Seq(Nodes)
  <2>1. \A k \in 1..m : K[k] \in Nodes
    BY <1>1
  <2>2. \A x \in Nodes : <<x>> \in Seq(Nodes)
    OBVIOUS
  <2>3. <<>> \in Seq(Nodes)
    OBVIOUS
  <2>4. QED
    BY <2>1, <2>2, <2>3, <1>1
<1>4. s \in Seq(Seq(Nodes)) /\ Len(s) = m
  <2>1. s \in [1..m -> Seq(Nodes)]
    BY <1>1, <1>3
  <2>2. QED
    BY <2>1, <1>1, IsASeq
<1>5. F = FlattenSeq(s)
  BY DEF K
<1> HIDE DEF s
<1>6. F \in Seq(Nodes)
  BY <1>4, <1>5, FlattenFacts
<1>7. PICK off : Placed(F, s, m, off)
  BY <1>4, <1>5, FlattenFacts
<1>8. \A k \in 1..m : \A j \in 1..Len(s[k]) : j = 1 /\ K[k] \in T /\ s[k][j] = K[k]
  <2> SUFFICES ASSUME NEW k \in 1..m, NEW j \in 1..Len(s[k]) PROVE j = 1 /\ K[k] \in T /\ s[k][j] = K[k]
    OBVIOUS
  <2>1. CASE K[k] \in T
    <3>1. s[k] = <<K[k]>>
      BY <2>1, <1>3
    <3>2. QED
      BY <2>1, <3>1
  <2>2. CASE K[k] \notin T
    <3>1. s[k] = <<>>
      BY <2>2, <1>3
    <3>2. QED
      BY <3>1
  <2>3. QED
    BY <2>1, <2>2
<1>9. \A k \in 1..m : K[k] \in T => Len(s[k]) = 1
  <2> SUFFICES ASSUME NEW k \in 1..m, K[k] \in T PROVE Len(s[k]) = 1
    OBVIOUS
  <2>1. s[k] = <<K[k]>>
    BY <1>3
  <2>2. QED
    BY <2>1
<1>10. Len(F) \in Nat /\ DOMAIN F = 1..Len(F)
  BY <1>6
<1>11. \A k \in 1..m : off[k] \in Nat
  BY <1>7 DEF Placed
<1>12. \A i \in DOMAIN F : \E k \in 1..m : i = off[k] + 1 /\ K[k] \in T /\ F[i] = K[k]
  <2> SUFFICES ASSUME NEW i \in DOMAIN F
               PROVE  \E k \in 1..m : i = off[k] + 1 /\ K[k] \in T /\ F[i] = K[k]
    OBVIOUS
  <2>1. PICK k \in 1..m : \E j \in 1..Len(s[k]) : i = off[k] + j
    BY <1>7, <1>10 DEF Placed
  <2>2. PICK j \in 1..Len(s[k]) : i = off[k] + j
    BY <2>1
  <2>3. F[off[k] + j] = s[k][j]
    BY <1>7 DEF Placed
  <2>4. QED
    BY <2>2, <2>3, <1>8
<1>13. \A k \in 1..m : K[k] \in T => off[k] + 1 \in DOMAIN F /\ F[off[k] + 1] = K[k]
  <2> SUFFICES ASSUME NEW k \in 1..m, K[k] \in T
               PROVE  off[k] + 1 \in DOMAIN F /\ F[off[k] + 1] = K[k]
    OBVIOUS
  <2>1. Len(s[k]) = 1 /\ 1 \in 1..Len(s[k]) /\ s[k][1] = K[k]
    BY <1>8, <1>9
  <2>2. off[k] + Len(s[k]) <= Len(F) /\ F[off[k] + 1] = s[k][1]
    BY <2>1, <1>7 DEF Placed
  <2>3. QED
    BY <2>1, <2>2, <1>10, <1>11
<1>14. \A i, j \in DOMAIN F : F[i] = F[j] => i = j
  BY <1>1, <1>2, <1>12
<1>15. ToSet(F) = ToSet(K) \cap T
  <2>1. ToSet(F) \subseteq ToSet(K) \cap T
    BY <1>1, <1>12 DEF ToSet
  <2>2. ToSet(K) \cap T \subseteq ToSet(F)
    BY <1>1, <1>13 DEF ToSet
  <2>3. QED
    BY <2>1, <2>2
<1>16. QED
  BY <1>6, <1>14, <1>15 DEF K

\* The children that get a task and those that are run in place.
LEMMA ChildrenSplit ==
  ASSUME NEW n \in Nodes
  PROVE  /\ ParChildren(n) \in Seq(Nodes) /\ TinyChildren(n) \in Seq(Nodes)
         /\ Unrelated(ParChildren(n)) /\ Unrelated(TinyChildren(n))
         /\ ToSet(ParChildren(n)) \cup ToSet(TinyChildren(n)) = ToSet(Kids[n])
         /\ ToSet(ParChildren(n)) \cap ToSet(TinyChildren(n)) = {}
<1> DEFINE T == {c \in Nodes : Tiny(c)}
           U == {c \in Nodes : ~Tiny(c)}
           p == ParChildren(n)
           q == TinyChildren(n)
<1>0. \A i \in DOMAIN Kids[n] : Kids[n][i] \in Nodes
  BY TreeFacts
<1>1. p = FlattenSeq([i \in DOMAIN Kids[n] |-> IF Kids[n][i] \in U THEN <<Kids[n][i]>> ELSE <<>>])
  <2>1. [i \in DOMAIN Kids[n] |-> IF ~Tiny(Kids[n][i]) THEN <<Kids[n][i]>> ELSE <<>>]
          = [i \in DOMAIN Kids[n] |-> IF Kids[n][i] \in U THEN <<Kids[n][i]>> ELSE <<>>]
    BY <1>0
  <2>2. QED
    BY <2>1 DEF ParChildren, Those, Each
<1>2. q = FlattenSeq([i \in DOMAIN Kids[n] |-> IF Kids[n][i] \in T THEN <<Kids[n][i]>> ELSE <<>>])
  <2>1. [i \in DOMAIN Kids[n] |-> IF Tiny(Kids[n][i]) THEN <<Kids[n][i]>> ELSE <<>>]
          = [i \in DOMAIN Kids[n] |-> IF Kids[n][i] \in T THEN <<Kids[n][i]>> ELSE <<>>]
    BY <1>0
  <2>2. QED
    BY <2>1 DEF TinyChildren, Those, Each
<1>3. T \cap U = {} /\ T \cup U = Nodes /\ ToSet(Kids[n]) \subseteq Nodes
  BY <1>0 DEF ToSet
<1> HIDE DEF T, U, p, q
<1>4. p \in Seq(Nodes) /\ ToSet(p) = ToSet(Kids[n]) \cap U /\ \A i, j \in DOMAIN p : p[i] = p[j] => i = j
  BY <1>1, Chosen
<1>5. q \in Seq(Nodes) /\ ToSet(q) = ToSet(Kids[n]) \cap T /\ \A i, j \in DOMAIN q : q[i] = q[j] => i = j
  BY <1>2, Chosen
<1>6. ASSUME NEW r, ToSet(r) \subseteq ToSet(Kids[n]), \A i, j \in DOMAIN r : r[i] = r[j] => i = j
      PROVE  Unrelated(r)
  <2> SUFFICES ASSUME NEW i \in DOMAIN r, NEW j \in DOMAIN r, i # j
               PROVE  Subtree(r[i]) \cap Subtree(r[j]) = {}
    BY DEF Unrelated
  <2>1. r[i] \in ToSet(Kids[n]) /\ r[j] \in ToSet(Kids[n]) /\ r[i] # r[j]
    BY <1>6 DEF ToSet
  <2>2. QED
    BY <2>1, KidsUnrelated
<1>7. Unrelated(p) /\ Unrelated(q)
  BY <1>4, <1>5, <1>6
<1>8. QED
  BY <1>3, <1>4, <1>5, <1>7 DEF p, q

\* The program of a subtree that has a task, for its children with a task.
LEMMA SpawnAllOk ==
  ASSUME NEW q \in Seq(Nodes), Unrelated(q), NEW t
  PROVE  /\ SpawnAll(q) \in Seq(Fixed) /\ Apart(SpawnAll(q)) /\ First(SpawnAll(q), t)
         /\ Owned(SpawnAll(q)) \subseteq UNION {Subtree(q[k]) : k \in DOMAIN q}
         /\ \A i \in DOMAIN SpawnAll(q) :
              SpawnAll(q)[i] = Wait \/ \E k \in DOMAIN q : SpawnAll(q)[i] = Spawn(q[k])
         /\ \A k \in DOMAIN q :
              \E i \in DOMAIN SpawnAll(q) : /\ SpawnAll(q)[i] = Wait
                                            /\ \E j \in DOMAIN SpawnAll(q) : j < i /\ SpawnAll(q)[j] = Spawn(q[k])
<1> DEFINE S == SpawnAll(q)
           m == Len(q)
<1>1. m \in Nat /\ DOMAIN q = 1..m /\ \A k \in 1..m : q[k] \in Nodes
  OBVIOUS
<1>2. CASE q = <<>>
  <2>1. S = <<>> /\ DOMAIN S = {} /\ DOMAIN q = {}
    BY <1>2 DEF SpawnAll
  <2>2. S \in Seq(Fixed)
    BY <2>1
  <2> HIDE DEF S
  <2>3. Owned(S) = {}
    BY <2>1 DEF Owned
  <2>4. Apart(S) /\ First(S, t)
    BY <2>1 DEF Apart, First
  <2>5. QED
    BY <2>1, <2>2, <2>3, <2>4 DEF S
<1>3. CASE q # <<>>
  <2> DEFINE e == [i \in 1..m |-> Spawn(q[i])]
  <2>1. e \in [1..m -> Fixed]
    BY <1>1, InFixed
  <2>2. e \in Seq(Fixed) /\ Len(e) = m
    BY <2>1, <1>1, IsASeq
  <2>3. S = Append(e, Wait)
    BY <1>1, <1>3 DEF SpawnAll, Each
  <2>4. \A k \in 1..m : e[k] = Spawn(q[k])
    OBVIOUS
  <2> HIDE DEF S, e, m
  <2>5. S \in Seq(Fixed) /\ Len(S) = m + 1 /\ DOMAIN S = 1..(m + 1)
    BY <1>1, <2>2, <2>3, InFixed
  <2>6. (\A k \in 1..m : S[k] = Spawn(q[k])) /\ S[m + 1] = Wait
    BY <1>1, <2>2, <2>3, <2>4
  <2>7. \A i \in DOMAIN S : i \in 1..m \/ i = m + 1
    BY <1>1, <2>5
  <2>8. (\A k \in 1..m : Mine(S[k]) = Subtree(q[k])) /\ Mine(S[m + 1]) = {}
    BY <2>6 DEF Mine, Spawn, Wait
  <2>9. Apart(S)
    <3> SUFFICES ASSUME NEW i \in DOMAIN S, NEW j \in DOMAIN S, i # j PROVE Mine(S[i]) \cap Mine(S[j]) = {}
      BY DEF Apart
    <3>1. CASE i \in 1..m /\ j \in 1..m
      BY <3>1, <1>1, <2>8 DEF Unrelated
    <3>2. CASE i = m + 1 \/ j = m + 1
      BY <3>2, <2>8
    <3>3. QED
      BY <3>1, <3>2, <2>7
  <2>10. Owned(S) \subseteq UNION {Subtree(q[k]) : k \in DOMAIN q}
    <3>1. \A i \in DOMAIN S : Mine(S[i]) \subseteq UNION {Subtree(q[k]) : k \in DOMAIN q}
      BY <1>1, <2>7, <2>8
    <3>2. QED
      BY <3>1 DEF Owned
  <2>11. \A i \in DOMAIN S : S[i] = Wait \/ \E k \in DOMAIN q : S[i] = Spawn(q[k])
    BY <1>1, <2>6, <2>7
  <2>12. First(S, t)
    BY <2>11 DEF First, Wait, Spawn
  <2>13. ASSUME NEW k \in DOMAIN q
         PROVE  \E i \in DOMAIN S : S[i] = Wait /\ \E j \in DOMAIN S : j < i /\ S[j] = Spawn(q[k])
    <3>1. k \in DOMAIN S /\ m + 1 \in DOMAIN S /\ k < m + 1
      BY <1>1, <2>5
    <3>2. S[k] = Spawn(q[k])
      BY <1>1, <2>6
    <3>3. QED
      BY <3>1, <3>2, <2>6
  <2>14. QED
    BY <2>5, <2>9, <2>10, <2>11, <2>12, <2>13 DEF S
<1>4. QED
  BY <1>2, <1>3

\* Children processed without their subtrees.
LEMMA BareAllOk ==
  ASSUME NEW q \in Seq(Nodes), Unrelated(q), q # <<>>, NEW t,
         NEW e \in Seq(Fixed), Len(e) = Len(q), \A k \in DOMAIN q : e[k] = Bare(q[k]),
         NEW S, S = Append(e, Cap(q[1]))
  PROVE  /\ S \in Seq(Fixed) /\ Apart(S)
         /\ Owned(S) \subseteq UNION {Subtree(q[k]) : k \in DOMAIN q}
         /\ \A i \in DOMAIN S : S[i] = Cap(q[1]) \/ \E k \in DOMAIN q : S[i] = Bare(q[k])
         /\ (\A k \in DOMAIN q : Kids[q[k]] = <<>>) => First(S, t)
         /\ \A k \in DOMAIN q : \E i \in DOMAIN S : S[i] = Bare(q[k])
<1> DEFINE m == Len(q)
<1>1. m \in Nat /\ m > 0 /\ DOMAIN q = 1..m /\ \A k \in 1..m : q[k] \in Nodes
  OBVIOUS
<1>3. e \in Seq(Fixed) /\ Len(e) = m
  OBVIOUS
<1>4. S = Append(e, Cap(q[1])) /\ Cap(q[1]) \in Fixed
  BY <1>1, InFixed
<1>5. \A k \in 1..m : e[k] = Bare(q[k])
  BY <1>1
<1> HIDE DEF m
<1>6. S \in Seq(Fixed) /\ Len(S) = m + 1 /\ DOMAIN S = 1..(m + 1)
  BY <1>1, <1>3, <1>4
<1>7. (\A k \in 1..m : S[k] = Bare(q[k])) /\ S[m + 1] = Cap(q[1])
  BY <1>1, <1>3, <1>4, <1>5
<1>8. \A i \in DOMAIN S : i \in 1..m \/ i = m + 1
  BY <1>1, <1>6
<1>9. (\A k \in 1..m : Mine(S[k]) = {q[k]} /\ q[k] \in Subtree(q[k])) /\ Mine(S[m + 1]) = {}
  BY <1>1, <1>7, SubtreeFacts, MineOf
<1>10. Apart(S)
  <2> SUFFICES ASSUME NEW i \in DOMAIN S, NEW j \in DOMAIN S, i # j PROVE Mine(S[i]) \cap Mine(S[j]) = {}
    BY DEF Apart
  <2>1. CASE i \in 1..m /\ j \in 1..m
    <3>1. Subtree(q[i]) \cap Subtree(q[j]) = {}
      BY <2>1, <1>1 DEF Unrelated
    <3>2. QED
      BY <3>1, <2>1, <1>9
  <2>2. CASE i = m + 1 \/ j = m + 1
    BY <2>2, <1>9
  <2>3. QED
    BY <2>1, <2>2, <1>8
<1>11. Owned(S) \subseteq UNION {Subtree(q[k]) : k \in DOMAIN q}
  <2>1. ASSUME NEW i \in DOMAIN S PROVE Mine(S[i]) \subseteq UNION {Subtree(q[k]) : k \in DOMAIN q}
    <3>1. CASE i \in 1..m
      <4>1. i \in DOMAIN q /\ Mine(S[i]) \subseteq Subtree(q[i])
        BY <3>1, <1>1, <1>9
      <4>2. QED
        BY <4>1
    <3>2. CASE i = m + 1
      BY <3>2, <1>9
    <3>3. QED
      BY <3>1, <3>2, <1>8
  <2>2. QED
    BY <2>1 DEF Owned
<1>12. \A i \in DOMAIN S : S[i] = Cap(q[1]) \/ \E k \in DOMAIN q : S[i] = Bare(q[k])
  BY <1>1, <1>7, <1>8
<1>13. (\A k \in DOMAIN q : Kids[q[k]] = <<>>) => First(S, t)
  <2> SUFFICES ASSUME \A k \in DOMAIN q : Kids[q[k]] = <<>>, NEW i \in DOMAIN S, S[i][1] \in {"run", "bare"}
               PROVE  ToSet(Kids[S[i][2]]) = {}
    BY DEF First
  <2>0. S[i] # Cap(q[1])
    BY StepParts
  <2>1. PICK k \in DOMAIN q : S[i] = Bare(q[k])
    BY <1>12, <2>0
  <2>2. Kids[S[i][2]] = <<>>
    <3>1. S[i][2] = q[k]
      BY <2>1, StepParts
    <3>2. QED
      BY <3>1
  <2>3. QED
    BY <2>2 DEF ToSet
<1>14. ASSUME NEW k \in DOMAIN q PROVE \E i \in DOMAIN S : S[i] = Bare(q[k])
  <2>1. k \in 1..m /\ k \in DOMAIN S
    BY <1>1, <1>6
  <2>2. QED
    BY <2>1, <1>7
<1>15. QED
  BY <1>6, <1>10, <1>11, <1>12, <1>13, <1>14

\* The subtrees of q run in place, one after the other.
LEMMA RunAllOk ==
  ASSUME NEW q \in Seq(Nodes), Unrelated(q), NEW t, NEW F, F = FlattenSeq(Each(RunSubtree, q))
  PROVE  /\ F \in Seq(Fixed) /\ Apart(F) /\ First(F, t)
         /\ Owned(F) \subseteq UNION {Subtree(q[k]) : k \in DOMAIN q}
         /\ \A i \in DOMAIN F : F[i][1] = "run"
         /\ \A k \in DOMAIN q : \E i \in DOMAIN F : F[i] = Run(q[k])
<1> DEFINE s == [i \in DOMAIN q |-> RunSubtree(q[i])]
           m == Len(q)
<1>1. m \in Nat /\ DOMAIN q = 1..m /\ \A k \in DOMAIN q : q[k] \in Nodes
  OBVIOUS
<1>2. \A k \in DOMAIN q : s[k] = RunSubtree(q[k])
  OBVIOUS
<1>3. F = FlattenSeq(s)
  BY DEF Each
<1>4. \A k \in DOMAIN q : /\ s[k] \in Seq(Fixed) /\ Apart(s[k]) /\ Owned(s[k]) \subseteq Subtree(q[k])
                          /\ First(s[k], t) /\ \A i \in DOMAIN s[k] : s[k][i][1] = "run"
                          /\ \E i \in DOMAIN s[k] : s[k][i] = Run(q[k])
  BY <1>1, <1>2, RunSubtreeOk
<1>5. s \in [1..m -> Seq(Fixed)]
  BY <1>1, <1>4
<1>6. s \in Seq(Seq(Fixed)) /\ Len(s) = Len(q)
  BY <1>1, <1>5, IsASeq
<1> HIDE DEF s, m
<1>66. \A k \in DOMAIN q : Apart(s[k]) /\ Owned(s[k]) \subseteq Subtree(q[k]) /\ First(s[k], t)
  BY <1>4
<1>7. /\ F \in Seq(Fixed) /\ Apart(F) /\ First(F, t)
      /\ Owned(F) \subseteq UNION {Subtree(q[k]) : k \in DOMAIN q}
      /\ \A i \in DOMAIN F : \E k \in DOMAIN q : \E j \in DOMAIN s[k] : F[i] = s[k][j]
      /\ \A k \in DOMAIN q : \A j \in DOMAIN s[k] : \E i \in DOMAIN F : F[i] = s[k][j]
  <2> DEFINE G == FlattenSeq(s)
  <2>1. /\ G \in Seq(Fixed) /\ Apart(G) /\ First(G, t)
        /\ Owned(G) \subseteq UNION {Subtree(q[k]) : k \in DOMAIN q}
        /\ \A i \in DOMAIN G : \E k \in DOMAIN q : \E j \in DOMAIN s[k] : G[i] = s[k][j]
        /\ \A k \in DOMAIN q : \A j \in DOMAIN s[k] : \E i \in DOMAIN G : G[i] = s[k][j]
    BY ONLY q \in Seq(Nodes), Unrelated(q), <1>6, <1>66, Pieces
  <2>2. F = G
    BY <1>3
  <2> HIDE DEF G
  <2>3. QED
    BY <2>1, <2>2
<1>8. ASSUME NEW i \in DOMAIN F PROVE F[i][1] = "run"
  <2>1. PICK k \in DOMAIN q : \E j \in DOMAIN s[k] : F[i] = s[k][j]
    BY <1>7
  <2>2. QED
    BY <2>1, <1>4
<1>9. ASSUME NEW k \in DOMAIN q PROVE \E i \in DOMAIN F : F[i] = Run(q[k])
  <2>1. PICK j \in DOMAIN s[k] : s[k][j] = Run(q[k])
    BY <1>4
  <2>2. QED
    BY <2>1, <1>7
<1>10. QED
  BY <1>7, <1>8, <1>9

\* The step of n itself, at the end of a program.
LEMMA ThenRun ==
  ASSUME NEW A \in Seq(Fixed), Apart(A), NEW n \in Nodes, n \notin Owned(A)
  PROVE  /\ A \o <<Run(n)>> \in Seq(Fixed) /\ Apart(A \o <<Run(n)>>)
         /\ \E i \in DOMAIN (A \o <<Run(n)>>) : (A \o <<Run(n)>>)[i] = Run(n)
<1> DEFINE B == <<Run(n)>>
<1>1. B \in Seq(Fixed) /\ DOMAIN B = {1} /\ B[1] = Run(n)
  <2>1. Run(n) \in Fixed
    BY InFixed
  <2> DEFINE x == Run(n)
  <2> HIDE DEF x
  <2>2. <<x>> \in Seq(Fixed) /\ DOMAIN <<x>> = {1} /\ <<x>>[1] = x
    BY <2>1 DEF x
  <2>3. QED
    BY <2>2 DEF x
<1> HIDE DEF B
<1>2. Apart(B) /\ Owned(B) = {n}
  BY <1>1, MineOf DEF Apart, Owned
<1>3. A \o B \in Seq(Fixed) /\ Apart(A \o B)
  BY <1>1, <1>2, Glue
<1>4. Len(A) + 1 \in DOMAIN (A \o B) /\ (A \o B)[Len(A) + 1] = Run(n)
  <2>1. \A i \in DOMAIN B : Len(A) + i \in DOMAIN (A \o B) /\ (A \o B)[Len(A) + i] = B[i]
    BY <1>1, ConcatAt
  <2>2. QED
    BY <2>1, <1>1
<1>5. QED
  BY <1>3, <1>4 DEF B

\* The step of n at the end, when its children are before it.
LEMMA ThenRunFirst ==
  ASSUME NEW A \in Seq(Fixed), NEW t, First(A, t), NEW n \in Nodes,
         \A c \in ToSet(Kids[n]) :
           \/ \E j \in DOMAIN A : A[j] \in {Run(c), Bare(c)}
           \/ n = t /\ \E k \in DOMAIN A : A[k] = Wait /\ \E j \in DOMAIN A : j < k /\ A[j] = Spawn(c)
  PROVE  First(A \o <<Run(n)>>, t)
<1> DEFINE B == <<Run(n)>>
           C == A \o B
<1>1. B \in Seq(Fixed) /\ DOMAIN B = {1} /\ B[1] = Run(n)
  <2>1. Run(n) \in Fixed
    BY InFixed
  <2> DEFINE x == Run(n)
  <2> HIDE DEF x
  <2>2. <<x>> \in Seq(Fixed) /\ DOMAIN <<x>> = {1} /\ <<x>>[1] = x
    BY <2>1 DEF x
  <2>3. QED
    BY <2>2 DEF x
<1> HIDE DEF B
<1>2. /\ C \in Seq(Fixed) /\ Len(A) \in Nat
      /\ \A i \in DOMAIN A : i \in DOMAIN C /\ C[i] = A[i] /\ i <= Len(A)
      /\ Len(A) + 1 \in DOMAIN C /\ C[Len(A) + 1] = Run(n)
      /\ \A i \in DOMAIN C : i \in DOMAIN A \/ i = Len(A) + 1
  BY <1>1, ConcatAt
<1>3. \A i \in DOMAIN A : i \in Nat /\ i < Len(A) + 1
  BY <1>2
<1> HIDE DEF C
<1>4. ASSUME NEW i \in DOMAIN C, C[i][1] \in {"run", "bare"}, NEW c \in ToSet(Kids[C[i][2]])
      PROVE  \/ \E j \in DOMAIN C : j < i /\ C[j] \in {Run(c), Bare(c)}
             \/ /\ C[i][2] = t
                /\ \E k \in DOMAIN C : k < i /\ C[k] = Wait /\ \E j \in DOMAIN C : j < k /\ C[j] = Spawn(c)
  <2>1. CASE i \in DOMAIN A
    <3>1. \/ \E j \in DOMAIN A : j < i /\ A[j] \in {Run(c), Bare(c)}
          \/ /\ A[i][2] = t
             /\ \E k \in DOMAIN A : k < i /\ A[k] = Wait /\ \E j \in DOMAIN A : j < k /\ A[j] = Spawn(c)
      BY <2>1, <1>2, <1>4 DEF First
    <3>2. QED
      BY <2>1, <3>1, <1>2
  <2>2. CASE i = Len(A) + 1
    <3>1. C[i][2] = n
      BY <2>2, <1>2, StepParts
    <3>2. \/ \E j \in DOMAIN A : A[j] \in {Run(c), Bare(c)}
          \/ n = t /\ \E k \in DOMAIN A : A[k] = Wait /\ \E j \in DOMAIN A : j < k /\ A[j] = Spawn(c)
      BY <3>1, <1>4
    <3>3. QED
      BY <3>1, <3>2, <2>2, <1>2, <1>3
  <2>3. QED
    BY <2>1, <2>2, <1>2
<1>5. QED
  BY <1>4 DEF First, B, C

\* The condition on the budget under which the tree is run children first: a
\* throttled node has only leaves among the children it would run in parallel.
OnlyLeavesThrottled ==
  \A n \in Nodes : Throttled(n) => \A c \in ToSet(ParChildren(n)) : Kids[c] = <<>>

\* What is expected of the program of t.
SoundProgram(P, t) ==
  /\ P \in Seq(Fixed) /\ Apart(P)
  /\ \A i \in DOMAIN P : P[i][1] = "spawn" => P[i][2] \in ChildrenOf(t)
  /\ \A i \in DOMAIN P : P[i][1] = "bare" => policy.budget > 0
  /\ OnlyLeavesThrottled => First(P, t)

\* The program of a task (process_costed, tree_executor.cpp) is sound: it has the
\* step of its own node, and no node outside its subtree.
LEMMA ProgramSound ==
  ASSUME NEW n \in Nodes
  PROVE  /\ SoundProgram(Program(n), n)
         /\ Owned(Program(n)) \subseteq Subtree(n)
         /\ \E i \in DOMAIN Program(n) : Program(n)[i] = Run(n)
<1> DEFINE par == ParChildren(n)
           tiny == TinyChildren(n)
           A == FlattenSeq(Each(RunSubtree, tiny))
           B == IF Throttled(n) THEN Append(Each(Bare, par), Cap(par[1])) ELSE SpawnAll(par)
           Coarse == Kids[n] = <<>> \/ Tiny(n) \/ Depth[n] >= CoarseDepth
<1>0. n # Main /\ ChildrenOf(n) = ToSet(Kids[n])
  BY TreeFacts DEF ChildrenOf
<1>1. CASE Coarse
  <2> DEFINE R == RunSubtree(n)
  <2>1. Program(n) = R
    BY <1>1 DEF Program
  <2>2. /\ R \in Seq(Fixed) /\ Apart(R) /\ Owned(R) = Subtree(n) /\ First(R, n)
        /\ \A i \in DOMAIN R : R[i][1] = "run"
        /\ \E i \in DOMAIN R : R[i] = Run(n)
    BY RunSubtreeOk
  <2> HIDE DEF R
  <2>3. SoundProgram(R, n)
    BY <2>2 DEF SoundProgram
  <2>4. QED
    BY <2>1, <2>2, <2>3
<1>2. CASE ~Coarse
  <2>1. Program(n) = (A \o B) \o <<Run(n)>>
    BY <1>2 DEF Program
  <2>2. /\ par \in Seq(Nodes) /\ tiny \in Seq(Nodes) /\ Unrelated(par) /\ Unrelated(tiny)
        /\ ToSet(par) \cup ToSet(tiny) = ToSet(Kids[n]) /\ ToSet(par) \cap ToSet(tiny) = {}
    BY ChildrenSplit
  <2> HIDE DEF par, tiny
  <2>3. /\ A \in Seq(Fixed) /\ Apart(A) /\ First(A, n)
        /\ Owned(A) \subseteq UNION {Subtree(tiny[k]) : k \in DOMAIN tiny}
        /\ \A i \in DOMAIN A : A[i][1] = "run"
        /\ \A k \in DOMAIN tiny : \E i \in DOMAIN A : A[i] = Run(tiny[k])
    BY <2>2, RunAllOk
  <2>4. /\ B \in Seq(Fixed) /\ Apart(B) /\ (OnlyLeavesThrottled => First(B, n))
        /\ Owned(B) \subseteq UNION {Subtree(par[k]) : k \in DOMAIN par}
        /\ \A i \in DOMAIN B : /\ B[i][1] = "spawn" => B[i][2] \in ToSet(par)
                               /\ B[i][1] = "bare" => policy.budget > 0
        /\ \A k \in DOMAIN par :
             \/ \E i \in DOMAIN B : B[i] = Bare(par[k])
             \/ \E i \in DOMAIN B : B[i] = Wait /\ \E j \in DOMAIN B : j < i /\ B[j] = Spawn(par[k])
    <3>1. CASE Throttled(n)
      <4>1. B = Append([k \in DOMAIN par |-> Bare(par[k])], Cap(par[1]))
        BY <3>1 DEF Each
      <4>2. par # <<>> /\ policy.budget > 0
        BY <3>1 DEF Throttled, par
      <4> HIDE DEF B
      <4>3. /\ B \in Seq(Fixed) /\ Apart(B)
            /\ Owned(B) \subseteq UNION {Subtree(par[k]) : k \in DOMAIN par}
            /\ \A i \in DOMAIN B : B[i] = Cap(par[1]) \/ \E k \in DOMAIN par : B[i] = Bare(par[k])
            /\ (\A k \in DOMAIN par : Kids[par[k]] = <<>>) => First(B, n)
            /\ \A k \in DOMAIN par : \E i \in DOMAIN B : B[i] = Bare(par[k])
        <5> DEFINE m == Len(par)
                   e == [k \in DOMAIN par |-> Bare(par[k])]
        <5>1. m \in Nat /\ DOMAIN par = 1..m /\ \A k \in DOMAIN par : par[k] \in Nodes
          BY <2>2
        <5>2. e \in [1..m -> Fixed]
          BY <5>1, InFixed
        <5>3. e \in Seq(Fixed) /\ Len(e) = Len(par)
          BY <5>1, <5>2, IsASeq
        <5>4. (\A k \in DOMAIN par : e[k] = Bare(par[k])) /\ B = Append(e, Cap(par[1]))
          BY <4>1
        <5> HIDE DEF e, m
        <5>5. QED
          <6>1. B \in Seq(Fixed) /\ Apart(B)
            BY ONLY <5>3, <5>4, <4>2, <2>2, BareAllOk
          <6>2. Owned(B) \subseteq UNION {Subtree(par[k]) : k \in DOMAIN par}
            BY ONLY <5>3, <5>4, <4>2, <2>2, BareAllOk
          <6>3. \A i \in DOMAIN B : B[i] = Cap(par[1]) \/ \E k \in DOMAIN par : B[i] = Bare(par[k])
            BY ONLY <5>3, <5>4, <4>2, <2>2, BareAllOk
          <6>4. (\A k \in DOMAIN par : Kids[par[k]] = <<>>) => First(B, n)
            BY ONLY <5>3, <5>4, <4>2, <2>2, BareAllOk
          <6>5. \A k \in DOMAIN par : \E i \in DOMAIN B : B[i] = Bare(par[k])
            BY ONLY <5>3, <5>4, <4>2, <2>2, BareAllOk
          <6>6. QED BY <6>1, <6>2, <6>3, <6>4, <6>5
      <4>4. OnlyLeavesThrottled => First(B, n)
        <5>1. OnlyLeavesThrottled => \A k \in DOMAIN par : Kids[par[k]] = <<>>
          BY <3>1 DEF OnlyLeavesThrottled, ToSet, par
        <5>2. QED
          BY <5>1, <4>3
      <4>5. \A i \in DOMAIN B : B[i][1] # "spawn"
        BY <4>3, StepParts
      <4>6. QED
        BY <4>2, <4>3, <4>4, <4>5
    <3>2. CASE ~Throttled(n)
      <4>1. B = SpawnAll(par)
        BY <3>2
      <4> HIDE DEF B
      <4>2. /\ B \in Seq(Fixed) /\ Apart(B) /\ First(B, n)
            /\ Owned(B) \subseteq UNION {Subtree(par[k]) : k \in DOMAIN par}
            /\ \A i \in DOMAIN B : B[i] = Wait \/ \E k \in DOMAIN par : B[i] = Spawn(par[k])
            /\ \A k \in DOMAIN par :
                 \E i \in DOMAIN B : B[i] = Wait /\ \E j \in DOMAIN B : j < i /\ B[j] = Spawn(par[k])
        BY <4>1, <2>2, SpawnAllOk
      <4>3. ASSUME NEW i \in DOMAIN B
            PROVE  B[i][1] # "bare" /\ (B[i][1] = "spawn" => B[i][2] \in ToSet(par))
        BY <4>2, StepParts DEF ToSet
      <4>4. QED
        BY <4>2, <4>3
    <3>3. QED
      BY <3>1, <3>2
  <2> HIDE DEF A, B
  <2>5. Owned(A) \cap Owned(B) = {}
    <3>1. ASSUME NEW k \in DOMAIN tiny, NEW l \in DOMAIN par
          PROVE  Subtree(tiny[k]) \cap Subtree(par[l]) = {}
      <4>1. tiny[k] \in ToSet(tiny) /\ par[l] \in ToSet(par)
        BY DEF ToSet
      <4>2. tiny[k] \in ToSet(Kids[n]) /\ par[l] \in ToSet(Kids[n]) /\ tiny[k] # par[l]
        BY <4>1, <2>2
      <4>3. QED
        BY <4>2, KidsUnrelated
    <3>2. QED
      BY <3>1, <2>3, <2>4
  <2>6. A \o B \in Seq(Fixed) /\ Apart(A \o B) /\ Owned(A \o B) = Owned(A) \cup Owned(B)
    BY <2>3, <2>4, <2>5, Glue
  <2>7. Owned(A) \cup Owned(B) \subseteq Subtree(n) \ {n}
    <3>1. ASSUME NEW c \in ToSet(Kids[n]) PROVE Subtree(c) \subseteq Subtree(n) \ {n}
      BY KidFacts
    <3>2. (\A k \in DOMAIN tiny : tiny[k] \in ToSet(Kids[n])) /\ (\A k \in DOMAIN par : par[k] \in ToSet(Kids[n]))
      BY <2>2 DEF ToSet
    <3>3. QED
      BY <3>1, <3>2, <2>3, <2>4
  <2> DEFINE C == A \o B
             P == C \o <<Run(n)>>
  <2>8. /\ C \in Seq(Fixed)
        /\ \A i \in DOMAIN A : i \in DOMAIN C /\ C[i] = A[i]
        /\ \A i \in DOMAIN B : Len(A) + i \in DOMAIN C /\ C[Len(A) + i] = B[i]
        /\ \A i \in DOMAIN C : i \in DOMAIN A \/ \E j \in DOMAIN B : i = Len(A) + j
    BY <2>3, <2>4, ConcatAt
  <2>9. P \in Seq(Fixed) /\ Apart(P) /\ \E i \in DOMAIN P : P[i] = Run(n)
    BY <2>6, <2>7, ThenRun
  <2>10. OnlyLeavesThrottled => First(C, n)
    BY <2>3, <2>4, GlueFirst
  <2> DEFINE U == <<Run(n)>>
  <2>11. U \in Seq(Fixed) /\ \A i \in DOMAIN U : U[i] = Run(n)
    <3>1. Run(n) \in Fixed
      BY InFixed
    <3> DEFINE x == Run(n)
    <3> HIDE DEF x
    <3>2. <<x>> \in Seq(Fixed) /\ \A i \in DOMAIN <<x>> : <<x>>[i] = x
      BY <3>1 DEF x
    <3>3. QED
      BY <3>2 DEF x
  <2>12. P = C \o U
    OBVIOUS
  <2> HIDE DEF C, P, U
  <2>13. \A i \in DOMAIN P : P[i] = Run(n) \/ \E j \in DOMAIN C : P[i] = C[j]
    <3>1. /\ \A i \in DOMAIN C : (C \o U)[i] = C[i]
          /\ \A i \in DOMAIN U : (C \o U)[Len(C) + i] = U[i]
          /\ \A i \in DOMAIN (C \o U) : i \in DOMAIN C \/ \E j \in DOMAIN U : i = Len(C) + j
      BY <2>8, <2>11, ConcatAt
    <3>2. QED
      BY <3>1, <2>11, <2>12
  <2>14. ASSUME NEW j \in DOMAIN C
         PROVE  (C[j][1] = "spawn" => C[j][2] \in ToSet(Kids[n])) /\ (C[j][1] = "bare" => policy.budget > 0)
    <3>1. CASE j \in DOMAIN A
      BY <3>1, <2>3, <2>8
    <3>2. CASE j \notin DOMAIN A
      BY <3>2, <2>2, <2>4, <2>8
    <3>3. QED
      BY <3>1, <3>2
  <2>15. ASSUME NEW i \in DOMAIN P
         PROVE  (P[i][1] = "spawn" => P[i][2] \in ChildrenOf(n)) /\ (P[i][1] = "bare" => policy.budget > 0)
    <3>1. CASE P[i] = Run(n)
      BY <3>1, StepParts
    <3>2. CASE P[i] # Run(n)
      BY <3>2, <2>13, <2>14, <1>0
    <3>3. QED
      BY <3>1, <3>2
  <2>16. ASSUME OnlyLeavesThrottled PROVE First(P, n)
    <3>1. ASSUME NEW c \in ToSet(Kids[n])
          PROVE  \/ \E j \in DOMAIN C : C[j] \in {Run(c), Bare(c)}
                 \/ \E k \in DOMAIN C : C[k] = Wait /\ \E j \in DOMAIN C : j < k /\ C[j] = Spawn(c)
      <4>1. CASE c \in ToSet(tiny)
        <5>1. PICK k \in DOMAIN tiny : tiny[k] = c
          BY <4>1 DEF ToSet
        <5>2. PICK i \in DOMAIN A : A[i] = Run(c)
          BY <5>1, <2>3
        <5>3. QED
          BY <5>2, <2>8
      <4>2. CASE c \in ToSet(par)
        <5>1. PICK k \in DOMAIN par : par[k] = c
          BY <4>2 DEF ToSet
        <5>2. CASE \E i \in DOMAIN B : B[i] = Bare(c)
          BY <5>2, <2>8
        <5>3. CASE \E i \in DOMAIN B : B[i] = Wait /\ \E j \in DOMAIN B : j < i /\ B[j] = Spawn(c)
          <6>1. PICK i \in DOMAIN B : B[i] = Wait /\ \E j \in DOMAIN B : j < i /\ B[j] = Spawn(c)
            BY <5>3
          <6>2. PICK j \in DOMAIN B : j < i /\ B[j] = Spawn(c)
            BY <6>1
          <6>3. i \in Nat /\ j \in Nat /\ Len(A) \in Nat
            BY <2>3, <2>4
          <6>4. Len(A) + i \in DOMAIN C /\ C[Len(A) + i] = Wait
            BY <6>1, <2>8
          <6>5. Len(A) + j \in DOMAIN C /\ C[Len(A) + j] = Spawn(c)
            BY <6>2, <2>8
          <6>6. Len(A) + j < Len(A) + i
            BY <6>2, <6>3
          <6>7. QED
            BY <6>4, <6>5, <6>6
        <5>4. QED
          BY <5>1, <5>2, <5>3, <2>4
      <4>3. QED
        BY <4>1, <4>2, <2>2
    <3>2. First(C \o <<Run(n)>>, n)
      BY <3>1, <2>8, <2>10, <2>16, ThenRunFirst
    <3>3. QED
      BY <3>2 DEF P
  <2>17. Owned(P) \subseteq Subtree(n)
    <3>1. \A j \in DOMAIN C : Mine(C[j]) \subseteq Subtree(n)
      <4>1. \A j \in DOMAIN C : Mine(C[j]) \subseteq Owned(C)
        BY DEF Owned
      <4>2. Owned(C) \subseteq Subtree(n)
        BY <2>6, <2>7 DEF C
      <4>3. QED
        BY <4>1, <4>2
    <3>2. Mine(Run(n)) \subseteq Subtree(n)
      BY MineOf, SubtreeFacts
    <3>3. \A i \in DOMAIN P : Mine(P[i]) \subseteq Subtree(n)
      BY <3>1, <3>2, <2>13
    <3>4. QED
      BY <3>3 DEF Owned
  <2>18. SoundProgram(P, n)
    BY <2>9, <2>15, <2>16 DEF SoundProgram
  <2>19. Program(n) = P
    BY <2>1 DEF P, C
  <2>20. QED
    BY <2>9, <2>17, <2>18, <2>19
<1>3. QED
  BY <1>1, <1>2

\* The same for the thread of the single construct. In its program every root
\* is run, or spawned before a wait.
MainFirst(P) ==
  \A r \in ToSet(Roots) :
    \/ \E i \in DOMAIN P : P[i] = Run(r)
    \/ \E k \in DOMAIN P : P[k] = Wait /\ \E j \in DOMAIN P : j < k /\ P[j] = Spawn(r)

\* Serially: the roots are taken from the top of a stack.
LEMMA SerialSound ==
  ASSUME NEW P, P = FlattenSeq(Each(RunSubtree, Reverse(Roots)))
  PROVE  SoundProgram(P, Main) /\ MainFirst(P)
<1> DEFINE q == Reverse(Roots)
           m == Len(Roots)
<1>1. m \in Nat /\ DOMAIN Roots = 1..m /\ \A i \in 1..m : Roots[i] \in Nodes
  BY TreeAssumption
<1>2. q = [i \in 1..m |-> Roots[m - i + 1]]
  BY DEF Reverse
<1>3. P = FlattenSeq(Each(RunSubtree, q))
  OBVIOUS
<1> HIDE DEF q, m
<1>4. \A i \in 1..m : m - i + 1 \in 1..m /\ m - (m - i + 1) + 1 = i
  BY <1>1
<1>5. DOMAIN q = 1..m /\ \A i \in 1..m : q[i] = Roots[m - i + 1] /\ q[i] \in Nodes
  BY <1>1, <1>2, <1>4
<1>6. q \in Seq(Nodes)
  <2>1. q \in [1..m -> Nodes]
    BY <1>2, <1>5
  <2>2. QED
    BY <1>1, <2>1, IsASeq
<1>7. Unrelated(q)
  <2> SUFFICES ASSUME NEW i \in 1..m, NEW j \in 1..m, i # j
               PROVE  Subtree(q[i]) \cap Subtree(q[j]) = {}
    BY <1>5 DEF Unrelated
  <2>1. m - i + 1 # m - j + 1
    BY <1>1
  <2>2. Subtree(Roots[m - i + 1]) \cap Subtree(Roots[m - j + 1]) = {}
    BY <1>1, <1>4, <2>1, RootsUnrelated DEF Unrelated
  <2>3. QED
    BY <2>2, <1>5
<1>8. /\ P \in Seq(Fixed) /\ Apart(P) /\ First(P, Main)
      /\ \A i \in DOMAIN P : P[i][1] = "run"
      /\ \A k \in DOMAIN q : \E i \in DOMAIN P : P[i] = Run(q[k])
  BY <1>3, <1>6, <1>7, RunAllOk
<1>9. ASSUME NEW r \in ToSet(Roots) PROVE \E i \in DOMAIN P : P[i] = Run(r)
  <2>1. PICK k \in 1..m : Roots[k] = r
    BY <1>1 DEF ToSet
  <2>2. m - k + 1 \in DOMAIN q /\ q[m - k + 1] = r
    BY <2>1, <1>4, <1>5
  <2>3. QED
    BY <2>2, <1>8
<1>10. QED
  BY <1>8, <1>9 DEF SoundProgram, MainFirst

\* In parallel: a task for each root whose subtree is not small.
LEMMA ParallelSound ==
  ASSUME NEW s \in Seq(Seq(Fixed)), Len(s) = Len(Roots),
         \A k \in DOMAIN Roots :
           s[k] = IF Tiny(Roots[k]) THEN RunSubtree(Roots[k]) ELSE <<Spawn(Roots[k])>>,
         NEW P, P = FlattenSeq(s) \o <<Wait>>
  PROVE  SoundProgram(P, Main) /\ MainFirst(P)
<1> DEFINE F == FlattenSeq(s)
           U == <<Wait>>
           m == Len(Roots)
<1>1. m \in Nat /\ DOMAIN Roots = 1..m /\ Roots \in Seq(Nodes) /\ \A i \in 1..m : Roots[i] \in Nodes
  BY TreeAssumption
<1>2. ASSUME NEW k \in DOMAIN Roots
      PROVE  /\ Apart(s[k]) /\ Owned(s[k]) \subseteq Subtree(Roots[k]) /\ First(s[k], Main)
             /\ \A i \in DOMAIN s[k] : s[k][i][1] = "run" \/ s[k][i] = Spawn(Roots[k])
             /\ \E i \in DOMAIN s[k] : s[k][i] \in {Run(Roots[k]), Spawn(Roots[k])}
  <2> DEFINE r == Roots[k]
             p == s[k]
  <2>1. r \in Nodes
    BY <1>1
  <2>2. CASE Tiny(r)
    <3>1. p = RunSubtree(r)
      BY <2>2
    <3> HIDE DEF r, p
    <3>2. /\ Apart(p) /\ Owned(p) = Subtree(r) /\ First(p, Main)
          /\ \A i \in DOMAIN p : p[i][1] = "run"
          /\ \E i \in DOMAIN p : p[i] = Run(r)
      BY <3>1, <2>1, RunSubtreeOk
    <3>3. QED
      BY <3>2 DEF r, p
  <2>3. CASE ~Tiny(r)
    <3>1. p = <<Spawn(r)>>
      BY <2>3
    <3> DEFINE x == Spawn(r)
    <3> HIDE DEF r, p, x
    <3>2. p = <<x>>
      BY <3>1 DEF x
    <3>3. DOMAIN p = {1} /\ p[1] = x
      BY <3>2
    <3>4. Mine(x) = Subtree(r) /\ x[1] = "spawn"
      BY StepParts, MineOf DEF x
    <3>5. Apart(p) /\ Owned(p) = Subtree(r)
      BY <3>3, <3>4 DEF Apart, Owned
    <3>6. First(p, Main)
      BY <3>3, <3>4 DEF First
    <3>7. QED
      BY <3>3, <3>5, <3>6 DEF r, p, x
  <2>4. QED
    BY <2>2, <2>3
<1>3. F \in Seq(Fixed) /\ Apart(F) /\ First(F, Main)
  <2>1. \A k \in DOMAIN Roots : Apart(s[k]) /\ Owned(s[k]) \subseteq Subtree(Roots[k]) /\ First(s[k], Main)
    BY <1>2
  <2>2. QED
    BY ONLY <1>1, <2>1, s \in Seq(Seq(Fixed)), Len(s) = Len(Roots), RootsUnrelated, Pieces
<1>4. /\ \A i \in DOMAIN F : \E k \in DOMAIN Roots : \E j \in DOMAIN s[k] : F[i] = s[k][j]
      /\ \A k \in DOMAIN Roots : \A j \in DOMAIN s[k] : \E i \in DOMAIN F : F[i] = s[k][j]
  <2>1. \A k \in DOMAIN Roots : Apart(s[k]) /\ Owned(s[k]) \subseteq Subtree(Roots[k]) /\ First(s[k], Main)
    BY <1>2
  <2>2. QED
    BY ONLY <1>1, <2>1, s \in Seq(Seq(Fixed)), Len(s) = Len(Roots), RootsUnrelated, Pieces
<1>5. U \in Seq(Fixed) /\ DOMAIN U = {1} /\ U[1] = Wait
  <2> DEFINE w == Wait
  <2>1. w \in Fixed
    BY InFixed
  <2> HIDE DEF w
  <2>2. <<w>> \in Seq(Fixed) /\ DOMAIN <<w>> = {1} /\ <<w>>[1] = w
    BY <2>1
  <2>3. QED
    BY <2>2 DEF w
<1>6. P = F \o U
  OBVIOUS
<1> HIDE DEF F, U, m
<1>7. ASSUME NEW i \in DOMAIN F
      PROVE  F[i][1] = "run" \/ (F[i][1] = "spawn" /\ F[i][2] \in ToSet(Roots))
  <2>1. PICK k \in DOMAIN Roots : \E j \in DOMAIN s[k] : F[i] = s[k][j]
    BY <1>4
  <2>2. F[i][1] = "run" \/ F[i] = Spawn(Roots[k])
    BY <2>1, <1>2
  <2>3. QED
    BY <2>2, StepParts DEF ToSet
<1>8. ASSUME NEW r \in ToSet(Roots) PROVE \E i \in DOMAIN F : F[i] \in {Run(r), Spawn(r)}
  <2>1. PICK k \in DOMAIN Roots : Roots[k] = r
    BY DEF ToSet
  <2>2. PICK j \in DOMAIN s[k] : s[k][j] \in {Run(r), Spawn(r)}
    BY <2>1, <1>2
  <2>3. QED
    BY <2>2, <1>4
<1>9. Apart(U) /\ Owned(U) = {} /\ First(U, Main)
  <2>1. U[1][1] = "wait" /\ Mine(U[1]) = {}
    BY <1>5, StepParts, MineOf
  <2>2. QED
    BY <1>5, <2>1 DEF Apart, Owned, First
<1>10. P \in Seq(Fixed) /\ Apart(P)
  BY <1>3, <1>5, <1>6, <1>9, Glue
<1>11. First(P, Main)
  BY <1>3, <1>5, <1>6, <1>9, GlueFirst
<1>12. /\ Len(F) \in Nat
       /\ \A i \in DOMAIN F : i \in DOMAIN P /\ P[i] = F[i] /\ i <= Len(F)
       /\ \A i \in DOMAIN U : Len(F) + i \in DOMAIN P /\ P[Len(F) + i] = U[i]
       /\ \A i \in DOMAIN P : i \in DOMAIN F \/ \E j \in DOMAIN U : i = Len(F) + j
  <2> DEFINE C == F \o U
  <2>1. /\ Len(F) \in Nat
        /\ \A i \in DOMAIN F : i \in DOMAIN C /\ C[i] = F[i] /\ i <= Len(F)
        /\ \A i \in DOMAIN U : Len(F) + i \in DOMAIN C /\ C[Len(F) + i] = U[i]
        /\ \A i \in DOMAIN C : i \in DOMAIN F \/ \E j \in DOMAIN U : i = Len(F) + j
    BY ONLY <1>3, <1>5, ConcatAt
  <2>2. P = C
    BY <1>6
  <2> HIDE DEF C
  <2>3. QED
    BY <2>1, <2>2
<1>13. Len(F) + 1 \in DOMAIN P /\ P[Len(F) + 1] = Wait
  BY <1>5, <1>12
<1>14. ASSUME NEW i \in DOMAIN P
       PROVE  P[i][1] \in {"run", "wait"} \/ (P[i][1] = "spawn" /\ P[i][2] \in ToSet(Roots))
  <2>1. CASE i \in DOMAIN F
    BY <2>1, <1>7, <1>12
  <2>2. CASE i \notin DOMAIN F
    <3>1. i = Len(F) + 1
      BY <2>2, <1>5, <1>12
    <3>2. QED
      BY <3>1, <1>13, StepParts
  <2>3. QED
    BY <2>1, <2>2
<1>15. ASSUME NEW r \in ToSet(Roots)
       PROVE  \/ \E i \in DOMAIN P : P[i] = Run(r)
              \/ \E k \in DOMAIN P : P[k] = Wait /\ \E j \in DOMAIN P : j < k /\ P[j] = Spawn(r)
  <2>1. PICK i \in DOMAIN F : F[i] \in {Run(r), Spawn(r)}
    BY <1>8
  <2>2. i \in DOMAIN P /\ P[i] \in {Run(r), Spawn(r)} /\ i < Len(F) + 1
    <3>1. i \in Nat
      BY <1>3
    <3>2. QED
      BY <2>1, <3>1, <1>12
  <2>3. QED
    BY <2>2, <1>13
<1>16. ChildrenOf(Main) = ToSet(Roots)
  BY DEF ChildrenOf
<1>17. QED
  BY <1>10, <1>11, <1>14, <1>15, <1>16 DEF SoundProgram, MainFirst

\* So is the program of the call itself, serial or parallel.
LEMMA MainSound == SoundProgram(MainProgram, Main) /\ MainFirst(MainProgram)
<1>1. CASE ~policy.parallel
  BY <1>1, SerialSound DEF MainProgram
<1>2. CASE policy.parallel
  <2> DEFINE s == [k \in DOMAIN Roots |-> IF Tiny(Roots[k]) THEN RunSubtree(Roots[k]) ELSE <<Spawn(Roots[k])>>]
             m == Len(Roots)
  <2>1. m \in Nat /\ DOMAIN Roots = 1..m /\ \A i \in DOMAIN Roots : Roots[i] \in Nodes
    BY TreeAssumption
  <2>2. ASSUME NEW k \in DOMAIN Roots PROVE s[k] \in Seq(Fixed)
    <3>1. RunSubtree(Roots[k]) \in Seq(Fixed)
      BY <2>1, RunSubtreeOk
    <3>2. <<Spawn(Roots[k])>> \in Seq(Fixed)
      <4> DEFINE x == Spawn(Roots[k])
      <4>1. x \in Fixed
        BY <2>1, InFixed
      <4> HIDE DEF x
      <4>2. <<x>> \in Seq(Fixed)
        BY <4>1
      <4>3. QED
        BY <4>2 DEF x
    <3>3. QED
      BY <3>1, <3>2
  <2>3. s \in [1..m -> Seq(Fixed)]
    BY <2>1, <2>2
  <2>4. s \in Seq(Seq(Fixed)) /\ Len(s) = Len(Roots)
    BY <2>1, <2>3, IsASeq
  <2>5. MainProgram = FlattenSeq(s) \o <<Wait>>
    BY <1>2 DEF MainProgram, Each
  <2>6. \A k \in DOMAIN Roots :
          s[k] = IF Tiny(Roots[k]) THEN RunSubtree(Roots[k]) ELSE <<Spawn(Roots[k])>>
    OBVIOUS
  <2> HIDE DEF s
  <2>7. QED
    BY <2>4, <2>5, <2>6, ParallelSound
<1>3. QED
  BY <1>1, <1>2

-----------------------------------------------------------------------------
(* The inductive invariant                                                 *)

Live == ({"run", "bare", "cap", "spawn", "running", "bare running", "record"} \X Nodes) \cup {Wait}

\* The steps at which a task processes a node.
Work == {"run", "bare", "running", "bare running", "record"}

\* A node that has been processed, and recorded if it had to be.
OverIn(c, d, r, p) == c \in d /\ (c \in r \/ p.budget > 0)
Over(c) == OverIn(c, done, recorded, policy)

\* Where node c is accounted for, before step b of t: it is over; or t is to
\* process it before that step; or, if c may be a task that t waits for, t is to
\* wait before that step, after c is spawned.
ComesIn(s, b, c, own, d, r, p, st) ==
  \/ OverIn(c, d, r, p)
  \/ \E j \in DOMAIN s : j < b /\ s[j][1] \in Work /\ s[j][2] = c
  \/ own /\ \E k \in DOMAIN s : k < b /\ s[k] = Wait /\ (c \in st \/ \E j \in DOMAIN s : j < k /\ s[j] = Spawn(c))
Comes(t, b, c, own) == ComesIn(todo[t], b, c, own, done, recorded, policy, started)

InvType ==
  /\ TypeOK /\ Main \in started /\ recorded \subseteq done
  /\ todo \in [Tasks -> Seq(Live)]
  /\ \A t \in Tasks \ started : todo[t] = <<>>

\* No node is of two steps, of one task or of two.
InvApart ==
  \A t, u \in Tasks : \A i \in DOMAIN todo[t], j \in DOMAIN todo[u] :
    (t # u \/ i # j) => Mine(todo[t][i]) \cap Mine(todo[u][j]) = {}

\* What a step of t says of the nodes it is to process.
Marked(x, t, cs, d, r, p) ==
  /\ x[1] \in {"run", "bare", "spawn"} => \A n \in Mine(x) : cs[n] = 0
  /\ x[1] \in {"running", "bare running"} => cs[x[2]] = 1 /\ x[2] \notin d
  /\ x[1] = "record" => x[2] \in d /\ x[2] \notin r
  /\ x[1] \in {"bare", "bare running"} => p.budget > 0
  /\ x[1] = "spawn" => x[2] \in ChildrenOf(t)

InvMarks ==
  /\ \A n \in Nodes : calls[n] <= 1 /\ (n \in done => calls[n] = 1)
  /\ \A t \in Tasks : \A i \in DOMAIN todo[t] : Marked(todo[t][i], t, calls, done, recorded, policy)

\* A task that is under way is to process its own node.
InvOwn == \A t \in started \cap Nodes : Comes(t, Len(todo[t]) + 1, t, FALSE)

InvRoots == \A r \in ToSet(Roots) : Comes(Main, Len(todo[Main]) + 1, r, TRUE)

InvFirst ==
  /\ \A t \in Tasks : \A i \in DOMAIN todo[t] : todo[t][i][1] \in {"run", "bare"} =>
       \A c \in ToSet(Kids[todo[t][i][2]]) : Comes(t, i, c, todo[t][i][2] = t)
  /\ \A n \in Nodes : calls[n] > 0 => \A c \in ToSet(Kids[n]) : Over(c)

Inv ==
  /\ InvType /\ InvApart /\ InvMarks /\ InvOwn /\ InvRoots
  /\ OnlyLeavesThrottled => InvFirst
  /\ TracksLive

\* The steps that process a node are at work on it.
LEMMA AtWork == \A c, z : z \in {Run(c), Bare(c)} => z[1] \in Work /\ z[2] = c
<1>1. "run" \in Work /\ "bare" \in Work
  BY DEF Work
<1>2. ASSUME NEW c, NEW z, z = Run(c) \/ z = Bare(c) PROVE z[1] \in Work /\ z[2] = c
  BY <1>1, <1>2, StepParts
<1>3. QED
  BY <1>2

-----------------------------------------------------------------------------
(* What a step does to the steps left                                      *)

\* r is what is left of s: without its first step if d = 1; with another first
\* step if d = 0.
Moved(s, r, d) ==
  /\ \A i \in DOMAIN r : i \in Nat /\ i > 0 /\ i + d \in DOMAIN s /\ (d = 1 \/ i # 1 => r[i] = s[i + d])
  /\ \A i \in DOMAIN s : i \in Nat /\ i > 0 /\ (i > d => i - d \in DOMAIN r)
  /\ Len(s) \in Nat /\ Len(r) = Len(s) - d

\* What is left without the first step.
LEMMA TailMoved ==
  ASSUME NEW X, NEW s \in Seq(X), s # <<>>
  PROVE  Tail(s) \in Seq(X) /\ Moved(s, Tail(s), 1)
<1> DEFINE r == Tail(s)
           m == Len(s)
<1>1. m \in Nat /\ m > 0 /\ DOMAIN s = 1..m
  OBVIOUS
<1>2. r \in Seq(X) /\ Len(r) = m - 1 /\ \A i \in 1..(m - 1) : r[i] = s[i + 1]
  OBVIOUS
<1>3. DOMAIN r = 1..(m - 1)
  BY <1>1, <1>2
<1> HIDE DEF r
<1>4. \A i \in DOMAIN r : i \in Nat /\ i > 0 /\ i + 1 \in DOMAIN s /\ r[i] = s[i + 1]
  BY <1>1, <1>2, <1>3
<1>5. \A i \in DOMAIN s : i \in Nat /\ i > 0 /\ (i > 1 => i - 1 \in DOMAIN r)
  BY <1>1, <1>3
<1>6. QED
  BY <1>1, <1>2, <1>4, <1>5 DEF Moved, r

\* The length of a concatenation and the elements of each part.
LEMMA ConcatLen ==
  ASSUME NEW X, NEW A \in Seq(X), NEW B \in Seq(X)
  PROVE  /\ A \o B \in Seq(X) /\ Len(A) \in Nat /\ Len(B) \in Nat /\ Len(A \o B) = Len(A) + Len(B)
         /\ \A i \in 1..Len(A) : (A \o B)[i] = A[i]
         /\ \A i \in 1..Len(B) : (A \o B)[Len(A) + i] = B[i]
OBVIOUS

\* What is left with another first step.
LEMMA PutMoved ==
  ASSUME NEW X, NEW s \in Seq(X), s # <<>>, NEW x \in X
  PROVE  /\ <<x>> \o Tail(s) \in Seq(X) /\ Moved(s, <<x>> \o Tail(s), 0)
         /\ 1 \in DOMAIN (<<x>> \o Tail(s)) /\ (<<x>> \o Tail(s))[1] = x
<1> DEFINE r == Tail(s)
           u == <<x>>
           v == u \o r
           m == Len(s)
<1>1. m \in Nat /\ m > 0 /\ DOMAIN s = 1..m
  OBVIOUS
<1>2. r \in Seq(X) /\ Len(r) = m - 1 /\ \A i \in 1..(m - 1) : r[i] = s[i + 1]
  OBVIOUS
<1>3. u \in Seq(X) /\ Len(u) = 1 /\ u[1] = x
  OBVIOUS
<1> HIDE DEF r, u
<1>4. v \in Seq(X) /\ Len(v) = m /\ v[1] = x
  <2>1. v \in Seq(X) /\ Len(v) = Len(u) + Len(r)
    BY <1>2, <1>3, ConcatLen
  <2>2. \A i \in 1..Len(u) : v[i] = u[i]
    BY <1>2, <1>3, ConcatLen
  <2>3. QED
    BY <2>1, <2>2, <1>1, <1>2, <1>3
<1>5. \A i \in 2..m : v[i] = r[i - 1]
  <2>1. \A i \in 1..Len(r) : v[Len(u) + i] = r[i]
    <3>1. u \in Seq(X) /\ r \in Seq(X)
      BY <1>2, <1>3
    <3>2. \A i \in 1..Len(r) : (u \o r)[Len(u) + i] = r[i]
      BY ONLY <3>1, ConcatLen
    <3>3. QED
      BY <3>2
  <2>2. \A i \in 2..m : i - 1 \in 1..Len(r) /\ 1 + (i - 1) = i
    BY <1>1, <1>2
  <2>3. QED
    BY <2>1, <2>2, <1>3
<1>6. \A i \in 2..m : v[i] = s[i]
  <2>1. \A i \in 2..m : i - 1 \in 1..(m - 1) /\ (i - 1) + 1 = i
    BY <1>1
  <2>2. QED
    BY <2>1, <1>2, <1>5
<1> HIDE DEF v
<1>7. DOMAIN v = 1..m
  BY <1>1, <1>4
<1>8. \A i \in DOMAIN v : i \in Nat /\ i > 0 /\ i + 0 \in DOMAIN s /\ (i # 1 => v[i] = s[i + 0])
  <2>1. \A i \in 1..m : i \in Nat /\ i > 0 /\ i + 0 = i /\ (i # 1 => i \in 2..m)
    BY <1>1
  <2>2. QED
    BY <2>1, <1>1, <1>6, <1>7
<1>9. \A i \in DOMAIN s : i \in Nat /\ i > 0 /\ i - 0 \in DOMAIN v
  BY <1>1, <1>7
<1>10. Moved(s, v, 0)
  BY <1>1, <1>4, <1>8, <1>9 DEF Moved
<1>11. 1 \in DOMAIN v
  BY <1>1, <1>7
<1>12. QED
  BY <1>4, <1>10, <1>11 DEF v, u, r

\* A step is a kind and a node, or the wait.
LEMMA LiveParts ==
  ASSUME NEW y \in Live
  PROVE  /\ y[1] # "wait" => y[2] \in Nodes /\ y = <<y[1], y[2]>>
         /\ y[1] = "wait" => y = Wait
<1>1. CASE y = Wait
  BY <1>1, StepParts
<1>2. CASE y # Wait
  <2> DEFINE K == {"run", "bare", "cap", "spawn", "running", "bare running", "record"}
  <2>1. "wait" \notin K
    OBVIOUS
  <2>2. y \in K \X Nodes
    BY <1>2 DEF Live
  <2> HIDE DEF K
  <2>3. y[1] \in K /\ y[2] \in Nodes /\ y = <<y[1], y[2]>>
    BY <2>2
  <2>4. QED
    BY <2>1, <2>3
<1>3. QED
  BY <1>1, <1>2

\* The step a task is at is the first of those it has left.
LEMMA HeadOf ==
  ASSUME InvType, NEW t \in started, Op(t) # "end"
  PROVE  /\ t \in Tasks /\ todo[t] \in Seq(Live) /\ todo[t] # <<>> /\ 1 \in DOMAIN todo[t]
         /\ Op(t) = todo[t][1][1] /\ Of(t) = todo[t][1][2] /\ todo[t][1] \in Live
         /\ Op(t) # "wait" => Of(t) \in Nodes /\ todo[t][1] = <<Op(t), Of(t)>>
         /\ Op(t) = "wait" => todo[t][1] = Wait
<1>1. t \in Tasks /\ todo[t] \in Seq(Live)
  BY DEF InvType, TypeOK
<1>2. todo[t] # <<>>
  BY DEF Op, Next1
<1> DEFINE s == todo[t]
<1>3. 1 \in DOMAIN s /\ Head(s) = s[1] /\ s[1] \in Live
  <2> HIDE DEF s
  <2>1. s \in Seq(Live) /\ s # <<>>
    BY <1>1, <1>2 DEF s
  <2>2. Len(s) \in Nat /\ Len(s) > 0 /\ DOMAIN s = 1..Len(s)
    BY <2>1
  <2>3. QED
    BY <2>1, <2>2
<1>4. Op(t) = s[1][1] /\ Of(t) = s[1][2]
  BY <1>2, <1>3 DEF Op, Of, Next1
<1> HIDE DEF s
<1>5. s[1][1] # "wait" => s[1][2] \in Nodes /\ s[1] = <<s[1][1], s[1][2]>>
  BY <1>3, LiveParts
<1>6. s[1][1] = "wait" => s[1] = Wait
  BY <1>3, LiveParts
<1>7. QED
  BY <1>1, <1>2, <1>3, <1>4, <1>5, <1>6 DEF s

\* The first step of t is taken.
Dropped(t) == /\ Moved(todo[t], todo'[t], 1)
              /\ \A u \in Tasks \ {t} : todo'[u] = todo[u]

\* It becomes another step on the same node.
Replaced(t, k) == /\ Moved(todo[t], todo'[t], 0)
                  /\ 1 \in DOMAIN todo'[t] /\ todo'[t][1] = <<k, Of(t)>>
                  /\ \A u \in Tasks \ {t} : todo'[u] = todo[u]

\* What the end of a step does to the steps left.
LEMMA AdvanceShape ==
  ASSUME InvType, NEW t \in started, Op(t) # "end", Advance(t)
  PROVE  todo' \in [Tasks -> Seq(Live)] /\ Dropped(t)
<1>1. t \in Tasks /\ todo[t] \in Seq(Live) /\ todo[t] # <<>> /\ todo \in [Tasks -> Seq(Live)]
  BY HeadOf DEF InvType
<1>2. Tail(todo[t]) \in Seq(Live) /\ Moved(todo[t], Tail(todo[t]), 1)
  BY <1>1, TailMoved
<1>3. todo' = [todo EXCEPT ![t] = Tail(todo[t])]
  BY DEF Advance
<1>4. todo'[t] = Tail(todo[t]) /\ \A u \in Tasks \ {t} : todo'[u] = todo[u]
  BY <1>1, <1>3
<1>5. todo' \in [Tasks -> Seq(Live)]
  BY <1>1, <1>2, <1>3
<1>6. QED
  BY <1>2, <1>4, <1>5 DEF Dropped

\* What the next phase of a step does to the steps left.
LEMMA PutShape ==
  ASSUME InvType, NEW t \in started, Op(t) \notin {"end", "wait"},
         NEW k \in {"running", "bare running", "record"},
         todo' = [todo EXCEPT ![t] = <<<<k, Of(t)>>>> \o Tail(@)]
  PROVE  todo' \in [Tasks -> Seq(Live)] /\ Replaced(t, k)
<1>1. t \in Tasks /\ todo[t] \in Seq(Live) /\ todo[t] # <<>> /\ todo \in [Tasks -> Seq(Live)] /\ Of(t) \in Nodes
  BY HeadOf DEF InvType
<1> DEFINE x == <<k, Of(t)>>
           v == <<x>> \o Tail(todo[t])
<1>2. x \in Live
  BY <1>1 DEF Live
<1>3. todo' = [todo EXCEPT ![t] = v]
  OBVIOUS
<1> DEFINE s == todo[t]
<1> HIDE DEF x
<1>4. v \in Seq(Live) /\ Moved(todo[t], v, 0) /\ 1 \in DOMAIN v /\ v[1] = x
  <2>1. s \in Seq(Live) /\ s # <<>>
    BY <1>1
  <2>2. v = <<x>> \o Tail(s)
    OBVIOUS
  <2> HIDE DEF s, v
  <2>3. <<x>> \o Tail(s) \in Seq(Live) /\ Moved(s, <<x>> \o Tail(s), 0)
        /\ 1 \in DOMAIN (<<x>> \o Tail(s)) /\ (<<x>> \o Tail(s))[1] = x
    BY <2>1, <1>2, PutMoved
  <2>4. QED
    BY <2>2, <2>3 DEF s
<1> HIDE DEF v
<1>5. todo'[t] = v /\ \A u \in Tasks \ {t} : todo'[u] = todo[u]
  BY <1>1, <1>3
<1>6. todo' \in [Tasks -> Seq(Live)]
  BY <1>1, <1>3, <1>4
<1>7. QED
  BY <1>4, <1>5, <1>6 DEF Replaced, x

-----------------------------------------------------------------------------
(* A node stays accounted for                                              *)

\* What is over stays over.
LEMMA OverStays ==
  ASSUME NEW c, NEW p, NEW d, NEW d2, d \subseteq d2, NEW r, NEW r2, r \subseteq r2, OverIn(c, d, r, p)
  PROVE  OverIn(c, d2, r2, p)
BY DEF OverIn

\* What is accounted for stays so as more is done, recorded and started.
LEMMA ComesStays ==
  ASSUME NEW s, NEW b, NEW c, NEW own, NEW p,
         NEW d, NEW d2, d \subseteq d2, NEW r, NEW r2, r \subseteq r2, NEW st, NEW st2, st \subseteq st2,
         ComesIn(s, b, c, own, d, r, p, st)
  PROVE  ComesIn(s, b, c, own, d2, r2, p, st2)
<1>1. OverIn(c, d, r, p) => OverIn(c, d2, r2, p)
  BY OverStays
<1>2. QED
  BY <1>1 DEF ComesIn

\* The first step has become another one on the same node.
LEMMA ComesPut ==
  ASSUME NEW s, NEW s2, Moved(s, s2, 0), 1 \in DOMAIN s, 1 \in DOMAIN s2,
         s[1][1] \in Work, s2[1][1] \in Work, s2[1][2] = s[1][2],
         NEW b, NEW c, NEW own, NEW p,
         NEW d, NEW d2, d \subseteq d2, NEW r, NEW r2, r \subseteq r2, NEW st, NEW st2, st \subseteq st2,
         ComesIn(s, b, c, own, d, r, p, st)
  PROVE  ComesIn(s2, b, c, own, d2, r2, p, st2)
<1>1. \A i \in DOMAIN s : i \in DOMAIN s2 /\ (i # 1 => s2[i] = s[i])
  BY DEF Moved
<1>2. s[1] # Wait /\ s[1] # Spawn(c)
  BY StepParts DEF Work
<1>3. CASE OverIn(c, d, r, p)
  BY <1>3, OverStays DEF ComesIn
<1>4. CASE \E j \in DOMAIN s : j < b /\ s[j][1] \in Work /\ s[j][2] = c
  <2>1. PICK j \in DOMAIN s : j < b /\ s[j][1] \in Work /\ s[j][2] = c
    BY <1>4
  <2>2. j \in DOMAIN s2 /\ s2[j][1] \in Work /\ s2[j][2] = c
    BY <2>1, <1>1
  <2>3. QED
    BY <2>1, <2>2 DEF ComesIn
<1>5. CASE own /\ \E k \in DOMAIN s : k < b /\ s[k] = Wait /\ (c \in st \/ \E j \in DOMAIN s : j < k /\ s[j] = Spawn(c))
  <2>1. PICK k \in DOMAIN s : k < b /\ s[k] = Wait /\ (c \in st \/ \E j \in DOMAIN s : j < k /\ s[j] = Spawn(c))
    BY <1>5
  <2>2. k \in DOMAIN s2 /\ s2[k] = Wait
    BY <2>1, <1>1, <1>2
  <2>3. c \in st2 \/ \E j \in DOMAIN s2 : j < k /\ s2[j] = Spawn(c)
    <3>1. CASE c \in st
      BY <3>1
    <3>2. CASE \E j \in DOMAIN s : j < k /\ s[j] = Spawn(c)
      BY <3>2, <1>1, <1>2
    <3>3. QED
      BY <2>1, <3>1, <3>2
  <2>4. QED
    BY <1>5, <2>1, <2>2, <2>3 DEF ComesIn
<1>6. QED
  BY <1>3, <1>4, <1>5 DEF ComesIn

\* The first step has been taken.
LEMMA ComesDrop ==
  ASSUME NEW s, NEW s2, Moved(s, s2, 1), 1 \in DOMAIN s,
         NEW b \in Nat, NEW c, NEW own, NEW p,
         NEW d, NEW d2, d \subseteq d2, NEW r, NEW r2, r \subseteq r2, NEW st, NEW st2, st \subseteq st2,
         s[1][1] \in Work /\ s[1][2] = c => OverIn(c, d2, r2, p),
         s[1] = Wait /\ own /\ c \in st => OverIn(c, d2, r2, p),
         s[1] = Spawn(c) => c \in st2,
         ComesIn(s, b, c, own, d, r, p, st)
  PROVE  ComesIn(s2, b - 1, c, own, d2, r2, p, st2)
<1>1. ASSUME NEW i \in DOMAIN s, i # 1
      PROVE  i \in Nat /\ i - 1 \in DOMAIN s2 /\ s2[i - 1] = s[i]
  <2>1. i \in Nat /\ i > 0
    BY DEF Moved
  <2>2. i > 1
    BY <2>1, <1>1
  <2>3. i - 1 \in DOMAIN s2
    BY <2>2 DEF Moved
  <2>4. s2[i - 1] = s[(i - 1) + 1]
    BY <2>3 DEF Moved
  <2>5. (i - 1) + 1 = i
    BY <2>1
  <2>6. QED
    BY <2>1, <2>3, <2>4, <2>5
<1>2. CASE OverIn(c, d, r, p)
  BY <1>2, OverStays DEF ComesIn
<1>3. CASE \E j \in DOMAIN s : j < b /\ s[j][1] \in Work /\ s[j][2] = c
  <2>1. PICK j \in DOMAIN s : j < b /\ s[j][1] \in Work /\ s[j][2] = c
    BY <1>3
  <2>2. CASE j = 1
    BY <2>1, <2>2 DEF ComesIn
  <2>3. CASE j # 1
    <3>1. j \in Nat /\ j - 1 \in DOMAIN s2 /\ s2[j - 1] = s[j] /\ j - 1 < b - 1
      BY <2>1, <2>3, <1>1
    <3>2. QED
      BY <2>1, <3>1 DEF ComesIn
  <2>4. QED
    BY <2>2, <2>3
<1>4. CASE own /\ \E k \in DOMAIN s : k < b /\ s[k] = Wait /\ (c \in st \/ \E j \in DOMAIN s : j < k /\ s[j] = Spawn(c))
  <2>1. PICK k \in DOMAIN s : k < b /\ s[k] = Wait /\ (c \in st \/ \E j \in DOMAIN s : j < k /\ s[j] = Spawn(c))
    BY <1>4
  <2>2. CASE k = 1
    <3>1. \A j \in DOMAIN s : ~(j < 1)
      BY DEF Moved
    <3>2. c \in st
      BY <2>1, <2>2, <3>1
    <3>3. QED
      BY <2>1, <2>2, <3>2, <1>4 DEF ComesIn
  <2>3. CASE k # 1
    <3>1. k \in Nat /\ k - 1 \in DOMAIN s2 /\ s2[k - 1] = Wait /\ k - 1 < b - 1
      BY <2>1, <2>3, <1>1
    <3>2. c \in st2 \/ \E j \in DOMAIN s2 : j < k - 1 /\ s2[j] = Spawn(c)
      <4>1. CASE c \in st
        BY <4>1
      <4>2. CASE \E j \in DOMAIN s : j < k /\ s[j] = Spawn(c)
        <5>1. PICK j \in DOMAIN s : j < k /\ s[j] = Spawn(c)
          BY <4>2
        <5>2. CASE j = 1
          BY <5>1, <5>2
        <5>3. CASE j # 1
          <6>1. j \in Nat /\ j - 1 \in DOMAIN s2 /\ s2[j - 1] = Spawn(c) /\ j - 1 < k - 1
            BY <5>1, <5>3, <3>1, <1>1
          <6>2. QED
            BY <6>1
        <5>4. QED
          BY <5>2, <5>3
      <4>3. QED
        BY <2>1, <4>1, <4>2
    <3>3. QED
      BY <1>4, <3>1, <3>2 DEF ComesIn
  <2>4. QED
    BY <2>2, <2>3
<1>5. QED
  BY <1>2, <1>3, <1>4 DEF ComesIn

\* Nothing is left of a task whose steps are all taken: its nodes are over.
LEMMA ComesEmpty ==
  ASSUME NEW s, s = <<>>, NEW b, NEW c, NEW own, NEW d, NEW r, NEW p, NEW st,
         ComesIn(s, b, c, own, d, r, p, st)
  PROVE  OverIn(c, d, r, p)
<1>1. DOMAIN s = {}
  OBVIOUS
<1>2. QED
  BY <1>1 DEF ComesIn

\* Before its first step only what is over.
LEMMA ComesFirst ==
  ASSUME NEW s, \A i \in DOMAIN s : i \in Nat /\ i > 0, NEW c, NEW own, NEW d, NEW r, NEW p, NEW st,
         ComesIn(s, 1, c, own, d, r, p, st)
  PROVE  OverIn(c, d, r, p)
<1>1. \A i \in DOMAIN s : ~(i < 1)
  OBVIOUS
<1>2. QED
  BY <1>1 DEF ComesIn

-----------------------------------------------------------------------------
(* A step that starts no task                                              *)

\* What is throttled depends on the policy only.
LEMMA SamePolicy ==
  ASSUME policy' = policy
  PROVE  OnlyLeavesThrottled' <=> OnlyLeavesThrottled
<1>1. \A n : Tiny(n)' <=> Tiny(n)
  BY DEF Tiny
<1>2. ASSUME NEW n \in Nodes PROVE ParChildren(n)' = ParChildren(n)
  <2>1. [i \in DOMAIN Kids[n] |-> IF ~(SubtreeFlops[Kids[n][i]] < policy'.min) THEN <<Kids[n][i]>> ELSE <<>>]
          = [i \in DOMAIN Kids[n] |-> IF ~(SubtreeFlops[Kids[n][i]] < policy.min) THEN <<Kids[n][i]>> ELSE <<>>]
    OBVIOUS
  <2>2. QED
    BY <2>1 DEF ParChildren, Those, Each, Tiny
<1>3. \A n \in Nodes : Throttled(n)' <=> Throttled(n)
  BY <1>2 DEF Throttled
<1>4. QED
  BY <1>2, <1>3 DEF OnlyLeavesThrottled

\* A place in a program is a number.
LEMMA Positions ==
  ASSUME InvType
  PROVE  \A u \in Tasks : \A i \in DOMAIN todo[u] : i \in Nat /\ todo[u][i] \in Live
<1>1. ASSUME NEW u \in Tasks, NEW i \in DOMAIN todo[u] PROVE i \in Nat /\ todo[u][i] \in Live
  <2> DEFINE s == todo[u]
  <2>1. s \in Seq(Live) /\ i \in DOMAIN s
    BY <1>1 DEF InvType
  <2> HIDE DEF s
  <2>2. i \in Nat /\ s[i] \in Live
    BY <2>1
  <2>3. QED
    BY <2>2 DEF s
<1>2. QED
  BY <1>1

\* Where each step left was before.
LEMMA Before ==
  ASSUME InvType, NEW t \in Tasks, NEW d \in {0, 1}, Moved(todo[t], todo'[t], d),
         \A u \in Tasks \ {t} : todo'[u] = todo[u],
         NEW u \in Tasks, NEW i \in DOMAIN todo'[u], NEW e, e = IF u = t THEN d ELSE 0
  PROVE  /\ i \in Nat /\ i + e \in DOMAIN todo[u]
         /\ u # t \/ d = 1 \/ i # 1 => todo'[u][i] = todo[u][i + e]
         /\ u = t /\ d = 1 => i + e # 1
<1>1. CASE u = t
  BY <1>1 DEF Moved
<1>2. CASE u # t
  <2>1. i \in DOMAIN todo[u] /\ todo'[u] = todo[u]
    BY <1>2
  <2>2. i \in Nat
    BY <2>1, Positions
  <2>3. i + e = i
    BY <1>2, <2>2
  <2>4. QED
    BY <1>2, <2>1, <2>2, <2>3
<1>3. QED
  BY <1>1, <1>2

\* No node is of two steps after a step that adds none.
LEMMA ApartMoved ==
  ASSUME InvType, InvApart, NEW t \in Tasks, NEW d \in {0, 1}, Moved(todo[t], todo'[t], d),
         \A u \in Tasks \ {t} : todo'[u] = todo[u],
         d = 0 => Mine(todo'[t][1]) = Mine(todo[t][1])
  PROVE  InvApart'
<1>1. ASSUME NEW u \in Tasks, NEW i \in DOMAIN todo'[u], NEW e, e = IF u = t THEN d ELSE 0
      PROVE  i \in Nat /\ i + e \in DOMAIN todo[u] /\ Mine(todo'[u][i]) = Mine(todo[u][i + e])
  <2>1. /\ i \in Nat /\ i + e \in DOMAIN todo[u]
        /\ u # t \/ d = 1 \/ i # 1 => todo'[u][i] = todo[u][i + e]
    BY <1>1, Before
  <2>2. CASE u # t \/ d = 1 \/ i # 1
    BY <2>1, <2>2
  <2>3. CASE u = t /\ d = 0 /\ i = 1
    <3>1. i + e = 1
      BY <1>1, <2>3
    <3>2. QED
      BY <2>1, <2>3, <3>1
  <2>4. QED
    BY <2>2, <2>3
<1>2. ASSUME NEW u \in Tasks, NEW i \in DOMAIN todo'[u], NEW v \in Tasks, NEW j \in DOMAIN todo'[v], u # v \/ i # j
      PROVE  Mine(todo'[u][i]) \cap Mine(todo'[v][j]) = {}
  <2> DEFINE e == IF u = t THEN d ELSE 0
             f == IF v = t THEN d ELSE 0
  <2>1. u = v => e = f
    OBVIOUS
  <2>2. e \in Nat /\ f \in Nat
    OBVIOUS
  <2>3. e = IF u = t THEN d ELSE 0
    OBVIOUS
  <2>4. f = IF v = t THEN d ELSE 0
    OBVIOUS
  <2> HIDE DEF e, f
  <2>5. i \in Nat /\ i + e \in DOMAIN todo[u] /\ Mine(todo'[u][i]) = Mine(todo[u][i + e])
    BY <1>1, <2>3
  <2>6. j \in Nat /\ j + f \in DOMAIN todo[v] /\ Mine(todo'[v][j]) = Mine(todo[v][j + f])
    BY <1>1, <2>4
  <2>7. u # v \/ i + e # j + f
    BY <1>2, <2>1, <2>2, <2>5, <2>6
  <2>8. Mine(todo[u][i + e]) \cap Mine(todo[v][j + f]) = {}
    BY <2>5, <2>6, <2>7 DEF InvApart
  <2>9. QED
    BY <2>5, <2>6, <2>8
<1>3. QED
  BY <1>2 DEF InvApart

\* A step says the same when the nodes that change are not its.
LEMMA MarkedElse ==
  ASSUME NEW x \in Live, NEW t, NEW N, Mine(x) \cap N = {},
         NEW cs, NEW cs2, NEW d, NEW d2, NEW r, NEW r2, NEW p,
         \A m \in Nodes \ N : cs2[m] = cs[m] /\ (m \in d2 <=> m \in d) /\ (m \in r2 <=> m \in r),
         Marked(x, t, cs, d, r, p)
  PROVE  Marked(x, t, cs2, d2, r2, p)
<1>1. x[1] # "wait" => x[2] \in Nodes
  BY LiveParts
<1>2. Mine(x) \subseteq Nodes
  <2>1. x[1] # "wait" => Subtree(x[2]) \subseteq Nodes
    BY <1>1, SubtreeFacts
  <2>2. QED
    BY <1>1, <2>1 DEF Mine
<1>3. x[1] \in {"run", "bare", "spawn"} => \A n \in Mine(x) : cs2[n] = 0
  BY <1>2 DEF Marked
<1>4. x[1] \in {"running", "bare running", "record"} => x[2] \in Nodes /\ x[2] \notin N
  BY <1>1 DEF Mine
<1>5. x[1] \in {"running", "bare running"} => cs2[x[2]] = 1 /\ x[2] \notin d2
  BY <1>4 DEF Marked
<1>6. x[1] = "record" => x[2] \in d2 /\ x[2] \notin r2
  BY <1>4 DEF Marked
<1>7. QED
  BY <1>3, <1>5, <1>6 DEF Marked

\* What the steps left say of their nodes is kept by a step on another node.
LEMMA MarksMoved ==
  ASSUME InvType, InvApart, InvMarks, NEW t \in Tasks, NEW d \in {0, 1}, Moved(todo[t], todo'[t], d),
         \A u \in Tasks \ {t} : todo'[u] = todo[u], policy' = policy,
         1 \in DOMAIN todo[t], NEW N, N \subseteq Mine(todo[t][1]),
         \A m \in Nodes \ N : /\ calls'[m] = calls[m]
                              /\ (m \in done' <=> m \in done) /\ (m \in recorded' <=> m \in recorded),
         d = 0 => Marked(todo'[t][1], t, calls', done', recorded', policy')
  PROVE  \A u \in Tasks : \A i \in DOMAIN todo'[u] : Marked(todo'[u][i], u, calls', done', recorded', policy')
<1> SUFFICES ASSUME NEW u \in Tasks, NEW i \in DOMAIN todo'[u]
             PROVE  Marked(todo'[u][i], u, calls', done', recorded', policy')
  OBVIOUS
<1>1. CASE u = t /\ d = 0 /\ i = 1
  BY <1>1
<1>2. CASE u # t \/ d = 1 \/ i # 1
  <2> DEFINE e == IF u = t THEN d ELSE 0
  <2>1. e = IF u = t THEN d ELSE 0
    OBVIOUS
  <2> HIDE DEF e
  <2>2. /\ i \in Nat /\ i + e \in DOMAIN todo[u] /\ todo'[u][i] = todo[u][i + e]
        /\ u = t /\ d = 1 => i + e # 1
    BY <1>2, <2>1, Before
  <2>3. u # t \/ i + e # 1
    BY <1>2, <2>1, <2>2
  <2> DEFINE x == todo[u][i + e]
  <2>4. Mine(x) \cap Mine(todo[t][1]) = {}
    BY <2>2, <2>3 DEF InvApart
  <2>5. Marked(x, u, calls, done, recorded, policy) /\ x \in Live
    BY <2>2, Positions DEF InvMarks
  <2> HIDE DEF x
  <2>6. Mine(x) \cap N = {}
    BY <2>4
  <2>7. Marked(x, u, calls', done', recorded', policy)
    BY <2>5, <2>6, MarkedElse
  <2>8. QED
    BY <2>2, <2>7 DEF x
<1>3. QED
  BY <1>1, <1>2

\* The children of a task, and of the call.
LEMMA ChildFacts ==
  /\ \A u \in Nodes : u # Main /\ ChildrenOf(u) = ToSet(Kids[u])
  /\ ChildrenOf(Main) = ToSet(Roots)
  /\ \A u \in Tasks : ChildrenOf(u) \subseteq Nodes
<1>1. \A u \in Nodes : u # Main /\ ChildrenOf(u) = ToSet(Kids[u]) /\ ToSet(Kids[u]) \subseteq Nodes
  BY TreeFacts DEF ChildrenOf, ToSet
<1>2. ChildrenOf(Main) = ToSet(Roots) /\ ToSet(Roots) \subseteq Nodes
  BY TreeFacts DEF ChildrenOf, ToSet
<1>3. QED
  BY <1>1, <1>2 DEF Tasks

\* Nodes accounted for before step b of t are after the step that t takes.
Carries(t, d) ==
  \A b \in Nat, c \in Nodes, own \in BOOLEAN : (own => c \in ChildrenOf(t)) /\ Comes(t, b, c, own)
    => ComesIn(todo'[t], b - d, c, own, done', recorded', policy', started')

\* What InvFirst says of the steps that are left.
FirstLeft ==
  \A u \in Tasks : \A i \in DOMAIN todo'[u] : todo'[u][i][1] \in {"run", "bare"} =>
    \A c \in ToSet(Kids[todo'[u][i][2]]) :
      ComesIn(todo'[u], i, c, todo'[u][i][2] = u, done', recorded', policy', started')

\* Every node accounted for stays so, when the one at work does.
LEMMA AccountsMoved ==
  ASSUME InvType, NEW t \in started, t \in Tasks, NEW d \in {0, 1}, Moved(todo[t], todo'[t], d),
         \A u \in Tasks \ {t} : todo'[u] = todo[u], policy' = policy, started' = started,
         done \subseteq done', recorded \subseteq recorded',
         d = 0 => todo'[t][1][1] \notin {"run", "bare"},
         Carries(t, d)
  PROVE  (InvOwn => InvOwn') /\ (InvRoots => InvRoots') /\ (InvFirst => FirstLeft)
<1> DEFINE After(u, b, c, own) == ComesIn(todo'[u], b, c, own, done', recorded', policy', started')
<1>1. Len(todo[t]) \in Nat /\ Len(todo'[t]) = Len(todo[t]) - d
  BY DEF Moved
<1>2. ASSUME NEW u \in Tasks, u # t, NEW b, NEW c, NEW own, Comes(u, b, c, own)
      PROVE  After(u, b, c, own)
  <2>1. todo'[u] = todo[u]
    BY <1>2
  <2>2. ComesIn(todo[u], b, c, own, done', recorded', policy, started)
    BY <1>2, ComesStays DEF Comes
  <2>3. QED
    BY <2>1, <2>2
<1>3. ASSUME NEW u \in Tasks, NEW c \in Nodes, NEW own \in BOOLEAN, own => c \in ChildrenOf(u),
             Comes(u, Len(todo[u]) + 1, c, own)
      PROVE  After(u, Len(todo'[u]) + 1, c, own)
  <2>1. CASE u = t
    <3> DEFINE b == Len(todo[t]) + 1
    <3>1. b \in Nat /\ b - d = Len(todo'[t]) + 1
      BY <1>1
    <3>2. Comes(t, b, c, own)
      BY <1>3, <2>1
    <3> HIDE DEF b
    <3>3. After(t, b - d, c, own)
      BY <3>1, <3>2, <1>3, <2>1 DEF Carries
    <3>4. QED
      BY <3>1, <3>3, <2>1
  <2>2. CASE u # t
    <3>1. todo'[u] = todo[u]
      BY <2>2
    <3>2. After(u, Len(todo[u]) + 1, c, own)
      BY <1>2, <1>3, <2>2
    <3>3. QED
      BY <3>1, <3>2
  <2>3. QED
    BY <2>1, <2>2
<1>4. ASSUME InvOwn PROVE InvOwn'
  <2>1. ASSUME NEW u \in started \cap Nodes PROVE After(u, Len(todo'[u]) + 1, u, FALSE)
    <3>1. u \in Tasks /\ u \in Nodes /\ Comes(u, Len(todo[u]) + 1, u, FALSE)
      BY <1>4 DEF InvOwn, Tasks
    <3>2. QED
      BY <3>1, <1>3
  <2>2. QED
    BY <2>1 DEF InvOwn, Comes
<1>5. ASSUME InvRoots PROVE InvRoots'
  <2>1. ASSUME NEW r \in ToSet(Roots) PROVE After(Main, Len(todo'[Main]) + 1, r, TRUE)
    <3>1. Main \in Tasks /\ r \in Nodes /\ r \in ChildrenOf(Main) /\ Comes(Main, Len(todo[Main]) + 1, r, TRUE)
      BY <1>5, ChildFacts DEF InvRoots, Tasks
    <3>2. QED
      BY <3>1, <1>3
  <2>2. QED
    BY <2>1 DEF InvRoots, Comes
<1>6. ASSUME InvFirst, NEW u \in Tasks, NEW i \in DOMAIN todo'[u], todo'[u][i][1] \in {"run", "bare"},
             NEW c \in ToSet(Kids[todo'[u][i][2]])
      PROVE  After(u, i, c, todo'[u][i][2] = u)
  <2> DEFINE e == IF u = t THEN d ELSE 0
             x == todo'[u][i]
             own == (x[2] = u)
  <2>1. e = IF u = t THEN d ELSE 0
    OBVIOUS
  <2>2. u # t \/ d = 1 \/ i # 1
    BY <1>6
  <2>3. e \in {0, 1}
    OBVIOUS
  <2> HIDE DEF e
  <2>4. i \in Nat /\ i + e \in DOMAIN todo[u] /\ todo[u][i + e] = x
    BY <2>1, <2>2, Before
  <2>5. x \in Live
    BY <2>4, Positions
  <2>6. x[1] \in {"run", "bare"} /\ c \in ToSet(Kids[x[2]])
    BY <1>6
  <2>7. x[2] \in Nodes
    BY <2>5, <2>6, LiveParts
  <2>8. Comes(u, i + e, c, own)
    BY <1>6, <2>4, <2>6 DEF InvFirst
  <2>9. c \in Nodes /\ own \in BOOLEAN
    BY <2>6, <2>7, ChildFacts DEF Tasks
  <2> HIDE DEF x
  <2>10. own => c \in ChildrenOf(u)
    BY <2>6, <2>7, ChildFacts
  <2> HIDE DEF own
  <2>11. After(u, i, c, own)
    <3>1. CASE u = t
      <4>1. i + e \in Nat /\ (i + e) - d = i
        BY <2>1, <2>3, <2>4, <3>1
      <4>2. After(t, (i + e) - d, c, own)
        BY <3>1, <4>1, <2>8, <2>9, <2>10 DEF Carries
      <4>3. QED
        BY <4>1, <4>2, <3>1
    <3>2. CASE u # t
      <4>1. i + e = i
        BY <2>1, <2>4, <3>2
      <4>2. QED
        BY <4>1, <2>8, <1>2, <3>2
    <3>3. QED
      BY <3>1, <3>2
  <2>12. QED
    BY <2>11 DEF own, x
<1>7. InvFirst => FirstLeft
  BY <1>6 DEF FirstLeft
<1>8. QED
  BY <1>4, <1>5, <1>7

\* A step that is over, when the nodes it is on are accounted for without it.
LEMMA DropKeeps ==
  ASSUME Inv, InvType', NEW t \in started, Op(t) \notin {"end", "spawn"}, Advance(t),
         policy' = policy, started' = started, calls' = calls, done \subseteq done', recorded \subseteq recorded',
         NEW N, N \subseteq Mine(todo[t][1]),
         \A m \in Nodes \ N : (m \in done' <=> m \in done) /\ (m \in recorded' <=> m \in recorded),
         \A m \in done' : calls[m] = 1,
         Op(t) \in Work => OverIn(Of(t), done', recorded', policy),
         Op(t) = "wait" => \A c \in ChildrenOf(t) \cap started : Over(c),
         TracksLive'
  PROVE  Inv'
<1>1. /\ InvType /\ InvApart /\ InvMarks /\ InvOwn /\ InvRoots
      /\ OnlyLeavesThrottled => InvFirst
  BY DEF Inv
<1>2. /\ t \in Tasks /\ 1 \in DOMAIN todo[t] /\ Op(t) = todo[t][1][1] /\ Of(t) = todo[t][1][2]
  BY <1>1, HeadOf
<1>3. Moved(todo[t], todo'[t], 1) /\ \A u \in Tasks \ {t} : todo'[u] = todo[u]
  BY <1>1, AdvanceShape DEF Dropped
<1>4. InvApart'
  BY <1>1, <1>2, <1>3, ApartMoved
<1>5. \A m \in Nodes \ N : calls'[m] = calls[m]
  OBVIOUS
<1>6. \A u \in Tasks : \A i \in DOMAIN todo'[u] : Marked(todo'[u][i], u, calls', done', recorded', policy')
  BY <1>1, <1>2, <1>3, <1>5, MarksMoved
<1>7. InvMarks'
  <2>1. \A n \in Nodes : calls'[n] <= 1 /\ (n \in done' => calls'[n] = 1)
    BY <1>1 DEF InvMarks
  <2>2. QED
    BY <2>1, <1>6 DEF InvMarks
<1>8. ASSUME NEW b \in Nat, NEW c \in Nodes, NEW own \in BOOLEAN, own => c \in ChildrenOf(t), Comes(t, b, c, own)
      PROVE  ComesIn(todo'[t], b - 1, c, own, done', recorded', policy', started')
  <2>1. todo[t][1][1] \in Work /\ todo[t][1][2] = c => OverIn(c, done', recorded', policy)
    BY <1>2
  <2>2. todo[t][1] = Wait /\ own /\ c \in started => OverIn(c, done', recorded', policy)
    <3>1. ASSUME todo[t][1] = Wait, own, c \in started PROVE OverIn(c, done', recorded', policy)
      <4>1. Op(t) = "wait"
        BY <3>1, <1>2, StepParts
      <4>2. Over(c)
        BY <4>1, <3>1, <1>8
      <4>3. QED
        BY <4>2, OverStays DEF Over
    <3>2. QED
      BY <3>1
  <2>3. todo[t][1] # Spawn(c)
    BY <1>2, StepParts
  <2>4. ComesIn(todo[t], b, c, own, done, recorded, policy, started)
    BY <1>8 DEF Comes
  <2>5. QED
    BY <1>2, <1>3, <2>1, <2>2, <2>3, <2>4, ComesDrop
<1>9. InvOwn' /\ InvRoots' /\ (InvFirst => FirstLeft)
  <2>1. Carries(t, 1)
    BY <1>8 DEF Carries
  <2>2. 1 \in {0, 1} /\ 1 # 0
    OBVIOUS
  <2>3. (InvOwn => InvOwn') /\ (InvRoots => InvRoots') /\ (InvFirst => FirstLeft)
    BY <1>1, <1>2, <1>3, <2>1, <2>2, AccountsMoved
  <2>4. QED
    BY <1>1, <2>3
<1>10. ASSUME OnlyLeavesThrottled' PROVE InvFirst'
  <2>1. InvFirst
    BY <1>1, <1>10, SamePolicy
  <2>2. ASSUME NEW n \in Nodes, calls'[n] > 0, NEW c \in ToSet(Kids[n]) PROVE OverIn(c, done', recorded', policy')
    <3>1. Over(c)
      BY <2>1, <2>2 DEF InvFirst
    <3>2. QED
      BY <3>1, OverStays DEF Over
  <2>3. QED
    BY <1>9, <2>1, <2>2 DEF InvFirst, FirstLeft, Comes, Over
<1>11. QED
  BY <1>4, <1>7, <1>9, <1>10 DEF Inv

\* Two facts of arithmetic.
LEMMA SmallNumbers == (\A b \in Nat : b - 0 = b) /\ (\A x : x = 1 => x <= 1 /\ x > 0)
OBVIOUS

\* A step that becomes another one on the same node.
LEMMA PutKeeps ==
  ASSUME Inv, InvType', NEW t \in started, Op(t) \in {"run", "bare", "running"},
         NEW k \in {"running", "bare running", "record"}, Replaced(t, k),
         policy' = policy, started' = started, done \subseteq done', recorded' = recorded, current' = current,
         \A m \in Nodes \ {Of(t)} : calls'[m] = calls[m] /\ (m \in done' <=> m \in done),
         calls'[Of(t)] = 1,
         Marked(<<k, Of(t)>>, t, calls', done', recorded', policy'),
         InvFirst => \A c \in ToSet(Kids[Of(t)]) : Over(c)
  PROVE  Inv'
<1> DEFINE n == Of(t)
<1>1. /\ InvType /\ InvApart /\ InvMarks /\ InvOwn /\ InvRoots
      /\ OnlyLeavesThrottled => InvFirst
  BY DEF Inv
<1>2. /\ t \in Tasks /\ 1 \in DOMAIN todo[t] /\ Op(t) = todo[t][1][1] /\ n = todo[t][1][2] /\ n \in Nodes
  BY <1>1, HeadOf
<1>3. /\ Moved(todo[t], todo'[t], 0) /\ 1 \in DOMAIN todo'[t] /\ todo'[t][1] = <<k, n>>
      /\ \A u \in Tasks \ {t} : todo'[u] = todo[u]
  BY DEF Replaced
<1>4. todo'[t][1][1] = k /\ todo'[t][1][2] = n
  <2> DEFINE x == todo'[t][1]
  <2>1. x = <<k, n>>
    BY <1>3
  <2> HIDE DEF n, x
  <2>2. x[1] = k /\ x[2] = n
    BY <2>1
  <2>3. QED
    BY <2>2 DEF x, n
<1>44. calls'[n] = 1
  OBVIOUS
<1> HIDE DEF n
<1>5. Mine(todo[t][1]) = {n} /\ Mine(todo'[t][1]) = {n}
  BY <1>2, <1>4 DEF Mine
<1>6. InvApart'
  BY <1>1, <1>2, <1>3, <1>5, ApartMoved
<1>7. \A u \in Tasks : \A i \in DOMAIN todo'[u] : Marked(todo'[u][i], u, calls', done', recorded', policy')
  <2>1. \A m \in Nodes \ {n} : /\ calls'[m] = calls[m]
                               /\ (m \in done' <=> m \in done) /\ (m \in recorded' <=> m \in recorded)
    BY DEF n
  <2>2. Marked(todo'[t][1], t, calls', done', recorded', policy')
    BY <1>3 DEF n
  <2>3. QED
    BY <1>1, <1>2, <1>3, <1>5, <2>1, <2>2, MarksMoved
<1>8. InvMarks'
  <2>1. ASSUME NEW m \in Nodes PROVE calls'[m] <= 1 /\ (m \in done' => calls'[m] = 1)
    <3>1. CASE m = n
      BY ONLY <3>1, <1>44, SmallNumbers
    <3>2. CASE m # n
      BY <3>2, <1>1 DEF InvMarks, n
    <3>3. QED
      BY <3>1, <3>2
  <2>2. QED
    BY <2>1, <1>7 DEF InvMarks
<1>9. ASSUME NEW b \in Nat, NEW c \in Nodes, NEW own \in BOOLEAN, own => c \in ChildrenOf(t), Comes(t, b, c, own)
      PROVE  ComesIn(todo'[t], b - 0, c, own, done', recorded', policy', started')
  <2>1. ComesIn(todo[t], b, c, own, done, recorded, policy, started)
    BY <1>9 DEF Comes
  <2>2. todo[t][1][1] \in Work /\ todo'[t][1][1] \in Work /\ todo'[t][1][2] = todo[t][1][2]
    BY <1>2, <1>4 DEF Work
  <2>3. ComesIn(todo'[t], b, c, own, done', recorded', policy, started')
    BY <1>2, <1>3, <2>1, <2>2, ComesPut
  <2>4. b - 0 = b
    BY ONLY <1>9, SmallNumbers
  <2>5. QED
    BY <2>3, <2>4
<1>10. InvOwn' /\ InvRoots' /\ (InvFirst => FirstLeft)
  <2>1. todo'[t][1][1] \notin {"run", "bare"}
    BY <1>4
  <2>2. Carries(t, 0)
    BY <1>9 DEF Carries
  <2>3. recorded \subseteq recorded' /\ 0 \in {0, 1}
    OBVIOUS
  <2>4. (InvOwn => InvOwn') /\ (InvRoots => InvRoots') /\ (InvFirst => FirstLeft)
    BY <1>1, <1>2, <1>3, <2>1, <2>2, <2>3, AccountsMoved
  <2>5. QED
    BY <1>1, <2>4
<1>11. ASSUME OnlyLeavesThrottled' PROVE InvFirst'
  <2>1. InvFirst
    BY <1>1, <1>11, SamePolicy
  <2>2. ASSUME NEW m \in Nodes, calls'[m] > 0, NEW c \in ToSet(Kids[m]) PROVE OverIn(c, done', recorded', policy')
    <3>1. Over(c)
      <4>1. CASE m = n
        BY <4>1, <2>1, <2>2 DEF n
      <4>2. CASE m # n
        BY <4>2, <2>1, <2>2 DEF InvFirst, n
      <4>3. QED
        BY <4>1, <4>2
    <3>2. QED
      BY <3>1, OverStays DEF Over
  <2>3. QED
    BY <1>10, <2>1, <2>2 DEF InvFirst, FirstLeft, Comes, Over
<1>12. TracksLive'
  BY DEF Inv, TracksLive
<1>13. QED
  BY <1>6, <1>8, <1>10, <1>11, <1>12 DEF Inv

-----------------------------------------------------------------------------
(* The steps                                                               *)

\* The callback is called on a node: it had not been.
LEMMA CallKeeps ==
  ASSUME Inv, NEW t \in started, Call(t)
  PROVE  Inv'
<1> DEFINE n == Of(t)
           k == IF Op(t) = "run" THEN "running" ELSE "bare running"
<1>1. InvType /\ InvApart /\ InvMarks
  BY DEF Inv
<1>2. Op(t) \in {"run", "bare"}
  BY DEF Call
<1>3. /\ t \in Tasks /\ 1 \in DOMAIN todo[t] /\ Op(t) = todo[t][1][1] /\ n = todo[t][1][2] /\ n \in Nodes
  BY <1>1, <1>2, HeadOf
<1>4. k \in {"running", "bare running", "record"}
  OBVIOUS
<1>5. todo' \in [Tasks -> Seq(Live)] /\ Replaced(t, k)
  <2>1. todo' = [todo EXCEPT ![t] = <<<<k, n>>>> \o Tail(@)]
    BY DEF Call
  <2> HIDE DEF k
  <2>2. QED
    BY <1>1, <1>2, <1>4, <2>1, PutShape
<1>6. /\ calls' = [calls EXCEPT ![n] = @ + 1]
      /\ UNCHANGED <<policy, started, done, recorded, current, peak>>
  BY DEF Call
<1>7. Marked(todo[t][1], t, calls, done, recorded, policy)
  BY <1>1, <1>3 DEF InvMarks
<1>8. calls[n] = 0 /\ (Op(t) = "bare" => policy.budget > 0)
  BY <1>2, <1>3, <1>7 DEF Marked, Mine
<1>9. calls \in [Nodes -> Nat]
  BY <1>1 DEF InvType, TypeOK
<1> HIDE DEF n
<1>10. calls' \in [Nodes -> Nat] /\ calls'[n] = 1 /\ \A m \in Nodes \ {n} : calls'[m] = calls[m]
  BY <1>3, <1>6, <1>8, <1>9
<1>11. InvType'
  <2>1. TypeOK'
    BY <1>1, <1>6, <1>10 DEF InvType, TypeOK
  <2>2. \A u \in Tasks \ started : todo'[u] = <<>>
    BY <1>1, <1>5 DEF InvType, Replaced
  <2>3. QED
    BY <1>1, <1>5, <1>6, <2>1, <2>2 DEF InvType
<1>12. n \notin done
  BY <1>1, <1>3, <1>8 DEF InvMarks
<1>13. Marked(<<k, n>>, t, calls', done', recorded', policy')
  <2>1. <<k, n>>[1] = k /\ <<k, n>>[2] = n
    OBVIOUS
  <2>2. k = "bare running" => policy'.budget > 0
    BY <1>2, <1>6, <1>8
  <2>3. k # "bare"
    OBVIOUS
  <2> DEFINE x == <<k, n>>
  <2> HIDE DEF x, k
  <2>4. x[1] = k /\ x[2] = n
    BY <2>1 DEF x
  <2>5. k \in {"running", "bare running"}
    BY DEF k
  <2>6. Marked(x, t, calls', done', recorded', policy')
    BY <2>2, <2>4, <2>5, <1>6, <1>10, <1>12 DEF Marked
  <2>7. QED
    BY <2>6 DEF x
<1>14. ASSUME InvFirst PROVE \A c \in ToSet(Kids[n]) : Over(c)
  <2> SUFFICES ASSUME NEW c \in ToSet(Kids[n]) PROVE Over(c)
    OBVIOUS
  <2> DEFINE own == (todo[t][1][2] = t)
  <2>1. Comes(t, 1, c, own)
    BY <1>2, <1>3, <1>14 DEF InvFirst
  <2> HIDE DEF own
  <2>2. \A i \in DOMAIN todo[t] : i \in Nat /\ i > 0
    BY <1>5 DEF Replaced, Moved
  <2>3. QED
    BY <2>1, <2>2, ComesFirst DEF Comes, Over
<1> HIDE DEF k
<1>15. QED
  BY <1>2, <1>4, <1>5, <1>6, <1>10, <1>11, <1>13, <1>14, PutKeeps DEF n

\* The callback returns: the node is done.
LEMMA ReturnKeeps ==
  ASSUME Inv, NEW t \in started, Return(t)
  PROVE  Inv'
<1> DEFINE n == Of(t)
<1>1. InvType /\ InvApart /\ InvMarks
  BY DEF Inv
<1>2. Op(t) \in {"running", "bare running"}
  BY DEF Return
<1>3. /\ t \in Tasks /\ 1 \in DOMAIN todo[t] /\ Op(t) = todo[t][1][1] /\ n = todo[t][1][2] /\ n \in Nodes
  BY <1>1, <1>2, HeadOf
<1>4. done' = done \cup {n} /\ UNCHANGED <<policy, started, calls, recorded, current, peak>>
  BY DEF Return
<1>5. Marked(todo[t][1], t, calls, done, recorded, policy)
  BY <1>1, <1>3 DEF InvMarks
<1>6. calls[n] = 1 /\ n \notin done /\ (Op(t) = "bare running" => policy.budget > 0)
  BY <1>2, <1>3, <1>5 DEF Marked
<1>7. recorded \subseteq done /\ done \subseteq Nodes /\ calls \in [Nodes -> Nat]
  BY <1>1 DEF InvType, TypeOK
<1>8. TypeOK' /\ recorded' \subseteq done' /\ Main \in started'
  BY <1>1, <1>3, <1>4 DEF InvType, TypeOK
<1>9. TracksLive'
  BY <1>4 DEF Inv, TracksLive
<1>10. CASE Op(t) = "running"
  <2>1. todo' = [todo EXCEPT ![t] = <<<<"record", n>>>> \o Tail(@)]
    BY <1>10 DEF Return
  <2>2. todo' \in [Tasks -> Seq(Live)] /\ Replaced(t, "record")
    BY <1>1, <1>10, <2>1, PutShape
  <2>3. InvType'
    <3>1. \A u \in Tasks \ started : todo'[u] = <<>>
      BY <1>1, <2>2 DEF InvType, Replaced
    <3>2. QED
      BY <1>4, <1>8, <2>2, <3>1 DEF InvType
  <2>4. \A m \in Nodes \ {n} : calls'[m] = calls[m] /\ (m \in done' <=> m \in done)
    BY <1>4
  <2> DEFINE x == <<"record", n>>
  <2>5. x[1] = "record" /\ x[2] = n
    OBVIOUS
  <2>6. Marked(x, t, calls', done', recorded', policy')
    <3> HIDE DEF x, n
    <3>1. n \in done' /\ n \notin recorded'
      BY <1>4, <1>6, <1>7
    <3>2. QED
      BY <2>5, <3>1 DEF Marked
  <2>7. ASSUME InvFirst PROVE \A c \in ToSet(Kids[n]) : Over(c)
    <3>1. calls[n] > 0
      BY ONLY <1>6, SmallNumbers
    <3>2. QED
      BY <1>3, <2>7, <3>1 DEF InvFirst
  <2>8. calls'[n] = 1
    BY <1>4, <1>6
  <2>9. QED
    BY <1>4, <1>10, <2>2, <2>3, <2>4, <2>6, <2>7, <2>8, PutKeeps
<1>11. CASE Op(t) = "bare running"
  <2>1. Advance(t)
    BY <1>11 DEF Return
  <2>2. todo' \in [Tasks -> Seq(Live)] /\ Dropped(t)
    BY <1>1, <1>11, <2>1, AdvanceShape
  <2>3. InvType'
    <3>1. \A u \in Tasks \ started : todo'[u] = <<>>
      BY <1>1, <2>2 DEF InvType, Dropped
    <3>2. QED
      BY <1>4, <1>8, <2>2, <3>1 DEF InvType
  <2>4. {n} \subseteq Mine(todo[t][1])
    BY <1>3, <1>11 DEF Mine
  <2>5. \A m \in Nodes \ {n} : (m \in done' <=> m \in done) /\ (m \in recorded' <=> m \in recorded)
    BY <1>4
  <2>6. \A m \in done' : calls[m] = 1
    BY <1>1, <1>4, <1>6, <1>7 DEF InvMarks
  <2>7. OverIn(n, done', recorded', policy)
    BY <1>4, <1>6, <1>11 DEF OverIn
  <2> HIDE DEF n
  <2>8. done \subseteq done' /\ recorded \subseteq recorded' /\ policy' = policy /\ started' = started /\ calls' = calls
    BY <1>4
  <2>9. Op(t) \notin {"end", "spawn"} /\ Op(t) # "wait"
    BY <1>11
  <2>10. QED
    BY <1>9, <2>1, <2>3, <2>4, <2>5, <2>6, <2>7, <2>8, <2>9, DropKeeps DEF n
<1>12. QED
  BY <1>2, <1>10, <1>11

\* Without a budget, a node that is recorded takes over the contributions of its
\* children, which are all counted.
LEMMA RecordTracks ==
  ASSUME Inv, NEW t \in started, Record(t)
  PROVE  TracksLive'
<1> DEFINE n == Of(t)
           S == {m \in recorded : \A p \in recorded : m \notin ToSet(Kids[p])}
           S2 == {m \in recorded \cup {n} : \A p \in recorded \cup {n} : m \notin ToSet(Kids[p])}
           K == ToSet(Kids[n])
<1> SUFFICES ASSUME policy'.budget = 0
             PROVE  current' = ContribOf({m \in recorded' : \A p \in recorded' : m \notin ToSet(Kids[p])})
  BY DEF TracksLive
<1>1. InvType /\ InvMarks /\ Op(t) = "record"
  BY DEF Inv, Record
<1>2. policy' = policy /\ recorded' = recorded \cup {n} /\ current' = LiveAfter(n)
  BY DEF Record
<1>3. policy.budget = 0 /\ InvFirst
  <2>1. policy.budget = 0
    BY <1>2
  <2>2. OnlyLeavesThrottled
    <3>1. \A m : ~Throttled(m)
      BY <2>1 DEF Throttled
    <3>2. QED
      BY <3>1 DEF OnlyLeavesThrottled
  <2>3. QED
    BY <2>1, <2>2 DEF Inv
<1>4. current = ContribOf(S)
  BY <1>3 DEF Inv, TracksLive
<1>5. /\ n \in Nodes /\ Marked(todo[t][1], t, calls, done, recorded, policy)
      /\ todo[t][1][1] = "record" /\ todo[t][1][2] = n
  BY <1>1, HeadOf DEF InvMarks
<1>6. n \in done /\ n \notin recorded
  BY <1>5 DEF Marked
<1>7. recorded \subseteq Nodes /\ recorded \subseteq done
  BY <1>1 DEF InvType, TypeOK
<1> HIDE DEF n
<1>8. ASSUME NEW m \in done, NEW c \in ToSet(Kids[m]) PROVE c \in recorded
  <2>1. m \in Nodes /\ calls[m] = 1
    BY <1>1 DEF InvType, TypeOK, InvMarks
  <2>2. calls[m] > 0
    BY ONLY <2>1, SmallNumbers
  <2>3. Over(c)
    BY <1>3, <2>1, <2>2 DEF InvFirst
  <2>4. ~(policy.budget > 0)
    BY <1>3
  <2>5. QED
    BY <2>3, <2>4 DEF Over, OverIn
<1>9. K \subseteq S
  <2> SUFFICES ASSUME NEW c \in K PROVE c \in S
    OBVIOUS
  <2>1. c \in recorded
    BY <1>6, <1>8
  <2>2. \A p \in Nodes : c \in ToSet(Kids[p]) => p = n
    BY <1>5, KidFacts
  <2>3. QED
    BY <2>1, <2>2, <1>6, <1>7
<1>10. \A p \in recorded : n \notin ToSet(Kids[p])
  BY <1>6, <1>7, <1>8
<1>11. n \notin K
  <2>1. n \in K => n < n
    BY <1>5, KidFacts
  <2>2. n \in Nat
    BY <1>5, TreeFacts
  <2>3. QED
    BY <2>1, <2>2
<1>12. S2 = (S \ K) \cup {n}
  <2>1. \A p \in recorded : p # n
    BY <1>6
  <2>2. QED
    BY <1>6, <1>10, <1>11
<1>13. S \subseteq Nodes /\ n \notin S
  BY <1>6, <1>7
<1> HIDE DEF S, S2, K
<1>14. ContribOf(S) = ContribOf(S \ K) + ContribOf(K)
  <2>1. S = (S \ K) \cup K /\ (S \ K) \cap K = {}
    BY <1>9
  <2>2. S \ K \in SUBSET Nodes /\ K \in SUBSET Nodes
    BY <1>9, <1>13
  <2>3. QED
    BY <2>1, <2>2, ContribUnion
<1>15. ContribOf(S2) = Contrib[n] + ContribOf(S \ K)
  <2>1. S2 \in SUBSET Nodes /\ n \in S2 /\ S2 \ {n} = S \ K
    BY <1>5, <1>12, <1>13
  <2>2. ContribOf(S2) = Contrib[n] + ContribOf(S2 \ {n})
    BY <2>1, ContribOne
  <2>3. QED
    BY <2>1, <2>2
<1>16. ContribOf(S \ K) \in Nat /\ ContribOf(K) \in Nat /\ Contrib[n] \in Nat
  <2>1. S \ K \in SUBSET Nodes /\ K \in SUBSET Nodes
    BY <1>9, <1>13
  <2>2. QED
    BY <2>1, <1>5, ContribOne, CostAssumption
<1>17. current' = ContribOf(S2)
  <2>1. LiveAfter(n) = (IF current >= ContribOf(K) THEN current - ContribOf(K) ELSE 0) + Contrib[n]
    BY DEF LiveAfter, Consumed, K
  <2>2. QED
    BY <1>2, <1>4, <1>14, <1>15, <1>16, <2>1
<1>18. QED
  BY <1>2, <1>17 DEF S2

\* A node is recorded, its bytes taken and those of its children given back.
LEMMA RecordKeeps ==
  ASSUME Inv, NEW t \in started, Record(t)
  PROVE  Inv'
<1> DEFINE n == Of(t)
<1>1. InvType /\ InvApart /\ InvMarks /\ Op(t) = "record"
  BY DEF Inv, Record
<1>2. /\ recorded' = recorded \cup {n} /\ current' = LiveAfter(n)
      /\ peak' = (IF current' > peak THEN current' ELSE peak)
      /\ Advance(t) /\ UNCHANGED <<policy, started, calls, done>>
  BY DEF Record
<1>3. /\ t \in Tasks /\ 1 \in DOMAIN todo[t] /\ todo[t][1][1] = "record" /\ todo[t][1][2] = n /\ n \in Nodes
      /\ Marked(todo[t][1], t, calls, done, recorded, policy)
  BY <1>1, HeadOf DEF InvMarks
<1>4. n \in done
  BY <1>3 DEF Marked
<1>5. current' \in Nat
  <2>1. ContribOf(ToSet(Kids[n])) \in Nat /\ Contrib[n] \in Nat /\ current \in Nat
    <3>1. ToSet(Kids[n]) \in SUBSET Nodes
      BY <1>3, KidFacts
    <3>2. QED
      BY <1>1, <1>3, <3>1, ContribOne, CostAssumption DEF InvType, TypeOK
  <2>2. QED
    BY <1>2, <2>1 DEF LiveAfter, Consumed
<1>6. todo' \in [Tasks -> Seq(Live)] /\ Dropped(t)
  BY <1>1, <1>2, AdvanceShape
<1>7. InvType'
  <2>1. \A u \in Tasks \ started : todo'[u] = <<>>
    BY <1>1, <1>6 DEF InvType, Dropped
  <2>2. TypeOK'
    BY <1>1, <1>2, <1>3, <1>5 DEF InvType, TypeOK
  <2>3. QED
    BY <1>1, <1>2, <1>4, <1>6, <2>1, <2>2 DEF InvType
<1>8. TracksLive'
  BY RecordTracks
<1>9. {n} \subseteq Mine(todo[t][1])
  BY <1>3 DEF Mine
<1>10. \A m \in done' : calls[m] = 1
  BY <1>1, <1>2 DEF InvMarks, InvType, TypeOK
<1>11. OverIn(n, done', recorded', policy)
  BY <1>2, <1>4 DEF OverIn
<1> HIDE DEF n
<1>12. /\ \A m \in Nodes \ {n} : (m \in done' <=> m \in done) /\ (m \in recorded' <=> m \in recorded)
       /\ done \subseteq done' /\ recorded \subseteq recorded' /\ policy' = policy /\ started' = started
       /\ calls' = calls /\ Advance(t)
  BY <1>2
<1>13. Op(t) \notin {"end", "spawn"} /\ Op(t) # "wait"
  BY <1>1
<1>14. QED
  BY <1>7, <1>8, <1>9, <1>10, <1>11, <1>12, <1>13, DropKeeps DEF n

\* The peak of a throttled node is raised.
LEMMA RaisePeakKeeps ==
  ASSUME Inv, NEW t \in started, RaisePeak(t)
  PROVE  Inv'
<1>1. InvType /\ InvApart /\ InvMarks /\ Op(t) = "cap"
  BY DEF Inv, RaisePeak
<1>2. Advance(t) /\ UNCHANGED <<policy, started, calls, done, recorded, current>>
  BY DEF RaisePeak
<1>3. peak' \in Nat
  <2>1. Of(t) \in Nodes
    BY <1>1, HeadOf
  <2>2. policy.budget \in Nat /\ Contrib[Of(t)] \in Nat /\ peak \in Nat
    BY <1>1, <2>1, CostAssumption, PolicyAssumption DEF InvType, TypeOK
  <2>3. QED
    BY <2>2 DEF RaisePeak
<1>4. todo' \in [Tasks -> Seq(Live)] /\ Dropped(t)
  BY <1>1, <1>2, AdvanceShape
<1>5. InvType'
  <2>1. \A u \in Tasks \ started : todo'[u] = <<>>
    BY <1>1, <1>4 DEF InvType, Dropped, Tasks
  <2>2. TypeOK'
    BY <1>1, <1>2, <1>3 DEF InvType, TypeOK
  <2>3. QED
    BY <1>1, <1>2, <1>4, <2>1, <2>2 DEF InvType
<1>6. TracksLive'
  BY <1>2 DEF Inv, TracksLive
<1>7. \A m \in done' : calls[m] = 1
  BY <1>1, <1>2 DEF InvMarks, InvType, TypeOK
<1>8. Op(t) \notin {"end", "spawn"} /\ Op(t) # "wait" /\ Op(t) \notin Work
  BY <1>1 DEF Work
<1>9. {} \subseteq Mine(todo[t][1])
  OBVIOUS
<1>10. /\ \A m \in Nodes \ {} : (m \in done' <=> m \in done) /\ (m \in recorded' <=> m \in recorded)
       /\ done \subseteq done' /\ recorded \subseteq recorded' /\ policy' = policy /\ started' = started
       /\ calls' = calls
  BY <1>2
<1>11. QED
  BY <1>2, <1>5, <1>6, <1>7, <1>8, <1>9, <1>10, DropKeeps

\* A task goes on when those it waits for have ended: their nodes are over.
LEMMA TaskWaitKeeps ==
  ASSUME Inv, NEW t \in started, TaskWait(t)
  PROVE  Inv'
<1>1. InvType /\ InvApart /\ InvMarks /\ InvOwn /\ Op(t) = "wait"
  BY DEF Inv, TaskWait
<1>2. Advance(t) /\ UNCHANGED <<policy, started, calls, done, recorded, current, peak>>
  BY DEF TaskWait
<1>3. todo' \in [Tasks -> Seq(Live)] /\ Dropped(t)
  BY <1>1, <1>2, AdvanceShape
<1>4. InvType'
  <2>1. \A u \in Tasks \ started : todo'[u] = <<>>
    BY <1>1, <1>3 DEF InvType, Dropped
  <2>2. TypeOK'
    BY <1>1, <1>2 DEF InvType, TypeOK
  <2>3. QED
    BY <1>1, <1>2, <1>3, <2>1, <2>2 DEF InvType
<1>5. TracksLive'
  BY <1>2 DEF Inv, TracksLive
<1>6. \A m \in done' : calls[m] = 1
  BY <1>1, <1>2 DEF InvMarks, InvType, TypeOK
<1>7. Op(t) \notin {"end", "spawn"} /\ Op(t) \notin Work
  BY <1>1 DEF Work
<1>8. ASSUME NEW c \in ChildrenOf(t) \cap started PROVE Over(c)
  <2>1. todo[c] = <<>>
    BY <1>8 DEF TaskWait, WaitedFor, Ended
  <2>2. c \in Nodes
    BY <1>1, <1>8, HeadOf, ChildFacts
  <2>3. Comes(c, Len(todo[c]) + 1, c, FALSE)
    BY <1>1, <1>8, <2>2 DEF InvOwn
  <2>4. QED
    BY <2>1, <2>3, ComesEmpty DEF Comes, Over
<1>9. {} \subseteq Mine(todo[t][1])
  OBVIOUS
<1>10. /\ \A m \in Nodes \ {} : (m \in done' <=> m \in done) /\ (m \in recorded' <=> m \in recorded)
       /\ done \subseteq done' /\ recorded \subseteq recorded' /\ policy' = policy /\ started' = started
       /\ calls' = calls
  BY <1>2
<1>11. QED
  BY <1>2, <1>4, <1>5, <1>6, <1>7, <1>8, <1>9, <1>10, DropKeeps

\* A child whose spawn is still ahead has no task yet.
LEMMA NotSpawnedTwice ==
  ASSUME InvType, InvApart, InvMarks, InvOwn, NEW t \in started, Op(t) = "spawn"
  PROVE  Of(t) \notin started
<1> DEFINE c == Of(t)
<1>1. /\ t \in Tasks /\ 1 \in DOMAIN todo[t] /\ todo[t][1][1] = "spawn" /\ todo[t][1][2] = c /\ c \in Nodes
      /\ Marked(todo[t][1], t, calls, done, recorded, policy)
  BY HeadOf DEF InvMarks
<1>2. Mine(todo[t][1]) = Subtree(c)
  BY <1>1 DEF Mine
<1> HIDE DEF c
<1>3. c \in Subtree(c)
  BY <1>1, SubtreeFacts
<1>4. calls[c] = 0
  BY <1>1, <1>2, <1>3 DEF Marked
<1>5. ASSUME c \in started PROVE FALSE
  <2>1. ComesIn(todo[c], Len(todo[c]) + 1, c, FALSE, done, recorded, policy, started)
    BY <1>1, <1>5 DEF InvOwn, Comes
  <2>2. ~OverIn(c, done, recorded, policy)
    BY <1>1, <1>4 DEF InvMarks, OverIn
  <2>3. PICK j \in DOMAIN todo[c] : todo[c][j][1] \in Work /\ todo[c][j][2] = c
    BY <2>1, <2>2 DEF ComesIn
  <2>4. c \in Mine(todo[c][j])
    BY <2>3 DEF Mine, Work
  <2>5. c # t \/ j # 1
    BY <1>1, <2>3 DEF Work
  <2>6. c \in Tasks
    BY <1>1 DEF Tasks
  <2>7. Mine(todo[c][j]) \cap Mine(todo[t][1]) = {}
    BY <1>1, <2>3, <2>5, <2>6 DEF InvApart
  <2>8. QED
    BY <1>2, <1>3, <2>4, <2>7
<1>6. QED
  BY <1>5 DEF c

\* The steps of a program are steps a task can have.
LEMMA FixedLive == Seq(Fixed) \subseteq Seq(Live) /\ \A x \in Fixed : x[1] \in {"run", "bare", "cap", "spawn", "wait"}
<1>1. \A x \in Fixed : x \in Live
  BY DEF Fixed, Live
<1>2. ASSUME NEW x \in Fixed PROVE x[1] \in {"run", "bare", "cap", "spawn", "wait"}
  <2> DEFINE K == {"run", "bare", "cap", "spawn"}
  <2>1. x \in K \X Nodes \/ x = Wait
    BY DEF Fixed
  <2> HIDE DEF K
  <2>2. x[1] \in K \/ x[1] = "wait"
    BY <2>1, StepParts
  <2>3. QED
    BY <2>2 DEF K
<1>3. Fixed \subseteq Live
  BY <1>1
<1> HIDE DEF Fixed, Live
<1>4. QED
  BY <1>2, <1>3

\* A task is started with its program, which takes over the nodes of the spawn.
LEMMA SpawnKeeps ==
  ASSUME Inv, NEW t \in started, SpawnTask(t)
  PROVE  Inv'
<1> DEFINE c == Of(t)
           P == Program(c)
           s == todo[t]
           After(u, b, n, own) == ComesIn(todo'[u], b, n, own, done', recorded', policy', started')
<1>1. /\ InvType /\ InvApart /\ InvMarks /\ InvOwn /\ InvRoots /\ Op(t) = "spawn"
      /\ OnlyLeavesThrottled => InvFirst
  BY DEF Inv, SpawnTask
<1>2. /\ t \in Tasks /\ 1 \in DOMAIN s /\ s[1] = <<"spawn", c>> /\ c \in Nodes /\ s \in Seq(Live) /\ s # <<>>
      /\ Marked(s[1], t, calls, done, recorded, policy)
  BY <1>1, HeadOf DEF InvMarks
<1>3. /\ started' = started \cup {c} /\ UNCHANGED <<policy, calls, done, recorded, current, peak>>
      /\ todo' = [todo EXCEPT ![t] = Tail(s), ![c] = P]
  BY DEF SpawnTask
<1>4. c \notin started /\ c # t /\ c # Main
  BY <1>1, NotSpawnedTwice DEF InvType
<1>5. /\ P \in Seq(Fixed) /\ Apart(P)
      /\ \A i \in DOMAIN P : P[i][1] = "spawn" => P[i][2] \in ChildrenOf(c)
      /\ \A i \in DOMAIN P : P[i][1] = "bare" => policy.budget > 0
      /\ OnlyLeavesThrottled => First(P, c)
      /\ Owned(P) \subseteq Subtree(c)
      /\ \E i \in DOMAIN P : P[i] = Run(c)
  BY <1>2, ProgramSound DEF SoundProgram
<1>6. Tail(s) \in Seq(Live) /\ Moved(s, Tail(s), 1) /\ P \in Seq(Live)
  BY <1>2, <1>5, TailMoved, FixedLive
<1> HIDE DEF c, P, s
<1>7. /\ todo' \in [Tasks -> Seq(Live)] /\ todo'[t] = Tail(s) /\ todo'[c] = P /\ todo[c] = <<>>
      /\ \A u \in Tasks \ {t, c} : todo'[u] = todo[u]
  <2>1. todo \in [Tasks -> Seq(Live)] /\ c \in Tasks
    BY <1>1, <1>2 DEF InvType, Tasks
  <2>2. todo[c] = <<>>
    BY <1>1, <1>4, <2>1 DEF InvType
  <2>3. QED
    BY <1>2, <1>3, <1>4, <1>6, <2>1, <2>2
<1>8. s[1][1] = "spawn" /\ s[1][2] = c
  BY <1>2
<1>9. Mine(s[1]) = Subtree(c) /\ \A n \in Subtree(c) : calls[n] = 0
  BY <1>2, <1>8 DEF Mine, Marked
\* Where a step of another task was.
<1>10. ASSUME NEW u \in Tasks, u # c, NEW i \in DOMAIN todo'[u], NEW e, e = IF u = t THEN 1 ELSE 0
       PROVE  i \in Nat /\ i + e \in DOMAIN todo[u] /\ todo'[u][i] = todo[u][i + e] /\ (u # t \/ i + e # 1)
  <2>1. CASE u = t
    <3>1. i \in DOMAIN Tail(s)
      BY <1>7, <1>10, <2>1
    <3>2. i \in Nat /\ i > 0 /\ i + 1 \in DOMAIN s /\ Tail(s)[i] = s[i + 1]
      BY <1>6, <3>1 DEF Moved
    <3>3. i + e = i + 1 /\ i + 1 # 1
      BY <1>10, <2>1, <3>2
    <3>4. todo'[u] = Tail(s) /\ todo[u] = s
      BY <1>7, <2>1 DEF s
    <3>5. QED
      BY <3>2, <3>3, <3>4
  <2>2. CASE u # t
    <3>1. todo'[u] = todo[u]
      BY <1>7, <1>10, <2>2
    <3>2. i \in Nat
      BY <1>1, <3>1, Positions
    <3>3. i + e = i
      BY <1>10, <2>2, <3>2
    <3>4. QED
      BY <2>2, <3>1, <3>2, <3>3
  <2>3. QED
    BY <2>1, <2>2
<1>11. InvType'
  <2>1. TypeOK'
    BY <1>1, <1>2, <1>3 DEF InvType, TypeOK, Tasks
  <2>2. \A u \in Tasks \ (started \cup {c}) : todo'[u] = <<>>
    BY <1>1, <1>7 DEF InvType
  <2>3. QED
    BY <1>1, <1>3, <1>7, <2>1, <2>2 DEF InvType
<1>12. \A i \in DOMAIN P : Mine(P[i]) \subseteq Subtree(c)
  BY <1>5 DEF Owned
<1>13. InvApart'
  <2>1. ASSUME NEW u \in Tasks, u # c, NEW i \in DOMAIN todo'[u], NEW j \in DOMAIN P
        PROVE  Mine(todo'[u][i]) \cap Mine(P[j]) = {}
    <3> DEFINE e == IF u = t THEN 1 ELSE 0
    <3>1. i + e \in DOMAIN todo[u] /\ todo'[u][i] = todo[u][i + e] /\ (u # t \/ i + e # 1)
      BY <1>10, <2>1
    <3> HIDE DEF e
    <3>2. Mine(todo[u][i + e]) \cap Mine(todo[t][1]) = {}
      BY <1>1, <1>2, <3>1 DEF InvApart, s
    <3>3. Mine(todo[u][i + e]) \cap Subtree(c) = {}
      BY <3>2, <1>9 DEF s
    <3>4. QED
      BY <3>1, <3>3, <1>12
  <2>2. ASSUME NEW u \in Tasks, u # c, NEW v \in Tasks, v # c,
               NEW i \in DOMAIN todo'[u], NEW j \in DOMAIN todo'[v], u # v \/ i # j
        PROVE  Mine(todo'[u][i]) \cap Mine(todo'[v][j]) = {}
    <3> DEFINE e == IF u = t THEN 1 ELSE 0
               f == IF v = t THEN 1 ELSE 0
    <3>1. i \in Nat /\ i + e \in DOMAIN todo[u] /\ todo'[u][i] = todo[u][i + e]
      BY <1>10, <2>2
    <3>2. j \in Nat /\ j + f \in DOMAIN todo[v] /\ todo'[v][j] = todo[v][j + f]
      BY <1>10, <2>2
    <3>3. (u = v => e = f) /\ e \in Nat /\ f \in Nat
      OBVIOUS
    <3> HIDE DEF e, f
    <3>4. u # v \/ i + e # j + f
      BY <2>2, <3>1, <3>2, <3>3
    <3>5. Mine(todo[u][i + e]) \cap Mine(todo[v][j + f]) = {}
      BY <1>1, <3>1, <3>2, <3>4 DEF InvApart
    <3>6. QED
      BY <3>1, <3>2, <3>5
  <2>3. ASSUME NEW u \in Tasks, NEW v \in Tasks,
               NEW i \in DOMAIN todo'[u], NEW j \in DOMAIN todo'[v], u # v \/ i # j
        PROVE  Mine(todo'[u][i]) \cap Mine(todo'[v][j]) = {}
    <3>1. CASE u = c /\ v = c
      <4>1. i \in DOMAIN P /\ j \in DOMAIN P /\ i # j
        BY <1>7, <2>3, <3>1
      <4>2. Mine(P[i]) \cap Mine(P[j]) = {}
        BY <1>5, <4>1 DEF Apart
      <4>3. QED
        BY <1>7, <3>1, <4>2
    <3>2. CASE u # c /\ v = c
      <4>1. j \in DOMAIN P
        BY <1>7, <2>3, <3>2
      <4>2. QED
        BY <1>7, <2>1, <3>2, <4>1
    <3>3. CASE u = c /\ v # c
      <4>1. i \in DOMAIN P
        BY <1>7, <2>3, <3>3
      <4>2. Mine(todo'[v][j]) \cap Mine(P[i]) = {}
        BY <2>1, <3>3, <4>1
      <4>3. QED
        BY <1>7, <3>3, <4>2
    <3>4. CASE u # c /\ v # c
      BY <2>2, <2>3, <3>4
    <3>5. QED
      BY <3>1, <3>2, <3>3, <3>4
  <2>4. QED
    BY <2>3 DEF InvApart
<1>14. InvMarks'
  <2>1. ASSUME NEW i \in DOMAIN P PROVE Marked(P[i], c, calls, done, recorded, policy)
    <3>1. P[i] \in Fixed
      BY <1>5
    <3>2. P[i][1] \in {"run", "bare", "cap", "spawn", "wait"}
      BY <3>1, FixedLive
    <3>3. \A n \in Mine(P[i]) : calls[n] = 0
      BY <1>9, <1>12
    <3>4. QED
      BY <1>5, <3>2, <3>3 DEF Marked
  <2>2. ASSUME NEW u \in Tasks, NEW i \in DOMAIN todo'[u]
        PROVE  Marked(todo'[u][i], u, calls', done', recorded', policy')
    <3>1. CASE u = c
      BY <1>3, <1>7, <2>1, <2>2, <3>1
    <3>2. CASE u # c
      <4> DEFINE e == IF u = t THEN 1 ELSE 0
      <4>1. i + e \in DOMAIN todo[u] /\ todo'[u][i] = todo[u][i + e]
        BY <1>10, <3>2
      <4> HIDE DEF e
      <4>2. Marked(todo[u][i + e], u, calls, done, recorded, policy)
        BY <1>1, <4>1 DEF InvMarks
      <4>3. QED
        BY <1>3, <4>1, <4>2
    <3>3. QED
      BY <3>1, <3>2
  <2>3. \A n \in Nodes : calls'[n] <= 1 /\ (n \in done' => calls'[n] = 1)
    BY <1>1, <1>3 DEF InvMarks
  <2>4. QED
    BY <2>2, <2>3 DEF InvMarks
<1>15. ASSUME NEW u \in Tasks, u # c, NEW b \in Nat, NEW n \in Nodes, NEW own \in BOOLEAN, Comes(u, b, n, own),
              NEW e, e = IF u = t THEN 1 ELSE 0
       PROVE  After(u, b - e, n, own)
  <2>1. ComesIn(todo[u], b, n, own, done, recorded, policy, started)
    BY <1>15 DEF Comes
  <2>2. done \subseteq done' /\ recorded \subseteq recorded' /\ started \subseteq started' /\ policy' = policy
    BY <1>3
  <2>3. CASE u = t
    <3>1. s[1][1] \notin Work /\ s[1] # Wait
      BY <1>8, StepParts DEF Work
    <3>2. s[1] = Spawn(n) => n \in started'
      BY <1>3, <1>8, StepParts
    <3>3. ComesIn(s, b, n, own, done, recorded, policy, started)
      BY <2>1, <2>3 DEF s
    <3>4. ComesIn(Tail(s), b - 1, n, own, done', recorded', policy, started')
      BY <1>2, <1>6, <2>2, <3>1, <3>2, <3>3, ComesDrop
    <3>5. QED
      BY <1>7, <1>15, <2>2, <2>3, <3>4
  <2>4. CASE u # t
    <3>1. todo'[u] = todo[u] /\ e = 0
      BY <1>7, <1>15, <2>4
    <3>2. ComesIn(todo[u], b, n, own, done', recorded', policy, started')
      BY <2>1, <2>2, ComesStays
    <3>3. b - e = b
      BY ONLY <3>1, <1>15, SmallNumbers
    <3>4. QED
      BY <2>2, <3>1, <3>2, <3>3
  <2>5. QED
    BY <2>3, <2>4
<1>16. ASSUME NEW u \in Tasks, u # c, NEW n \in Nodes, NEW own \in BOOLEAN, Comes(u, Len(todo[u]) + 1, n, own)
       PROVE  After(u, Len(todo'[u]) + 1, n, own)
  <2> DEFINE e == IF u = t THEN 1 ELSE 0
             b == Len(todo[u]) + 1
  <2>1. e = IF u = t THEN 1 ELSE 0
    OBVIOUS
  <2>2. todo[u] \in Seq(Live)
    BY <1>1 DEF InvType
  <2>3. b \in Nat /\ b - e = Len(todo'[u]) + 1
    <3>1. Len(todo[u]) \in Nat
      BY <2>2
    <3>2. CASE u = t
      <4>1. Len(todo'[u]) = Len(todo[u]) - 1
        BY <1>6, <1>7, <3>2 DEF Moved, s
      <4>2. QED
        BY <3>1, <3>2, <4>1
    <3>3. CASE u # t
      BY <1>7, <1>16, <3>1, <3>3
    <3>4. QED
      BY <3>2, <3>3
  <2>4. Comes(u, b, n, own)
    BY <1>16
  <2> HIDE DEF b, e
  <2>5. After(u, b - e, n, own)
    BY <1>15, <1>16, <2>1, <2>3, <2>4
  <2>6. QED
    BY <2>3, <2>5
<1>17. InvOwn'
  <2>1. ASSUME NEW u \in started' \cap Nodes PROVE After(u, Len(todo'[u]) + 1, u, FALSE)
    <3>1. CASE u = c
      <4>1. PICK i \in DOMAIN P : P[i] = Run(c)
        BY <1>5
      <4>2. i < Len(P) + 1
        <5>1. i \in 1..Len(P) /\ Len(P) \in Nat
          BY <1>5
        <5>2. QED
          BY <5>1
      <4>3. P[i][1] \in Work /\ P[i][2] = c
        BY <4>1, StepParts DEF Work
      <4>4. ComesIn(P, Len(P) + 1, c, FALSE, done', recorded', policy', started')
        BY <4>2, <4>3 DEF ComesIn
      <4>5. QED
        BY <1>7, <3>1, <4>4
    <3>2. CASE u # c
      <4>1. u \in Tasks /\ u \in Nodes /\ u \in started
        BY <1>3, <3>2 DEF Tasks
      <4>2. Comes(u, Len(todo[u]) + 1, u, FALSE)
        BY <1>1, <4>1 DEF InvOwn
      <4>3. QED
        BY <1>16, <3>2, <4>1, <4>2
    <3>3. QED
      BY <3>1, <3>2
  <2>2. QED
    BY <2>1 DEF InvOwn, Comes
<1>18. InvRoots'
  <2>1. ASSUME NEW r \in ToSet(Roots) PROVE After(Main, Len(todo'[Main]) + 1, r, TRUE)
    <3>1. Main \in Tasks /\ Main # c /\ r \in Nodes /\ Comes(Main, Len(todo[Main]) + 1, r, TRUE)
      BY <1>1, <1>4, ChildFacts DEF InvRoots, Tasks
    <3>2. QED
      BY <1>16, <3>1
  <2>2. QED
    BY <2>1 DEF InvRoots, Comes
<1>19. ASSUME OnlyLeavesThrottled' PROVE InvFirst'
  <2>1. InvFirst /\ First(P, c)
    BY <1>1, <1>3, <1>5, <1>19, SamePolicy
  <2>2. ASSUME NEW u \in Tasks, NEW i \in DOMAIN todo'[u], NEW x, x = todo'[u][i], x[1] \in {"run", "bare"},
               NEW n \in ToSet(Kids[x[2]])
        PROVE  After(u, i, n, x[2] = u)
    <3>1. CASE u = c
      <4>1. i \in DOMAIN P /\ P[i] = x /\ todo'[u] = P
        BY <1>7, <2>2, <3>1
      <4>2. \/ \E j \in DOMAIN P : j < i /\ P[j] \in {Run(n), Bare(n)}
            \/ /\ x[2] = c
               /\ \E k \in DOMAIN P : k < i /\ P[k] = Wait /\ \E j \in DOMAIN P : j < k /\ P[j] = Spawn(n)
        <5>1. P[i][1] \in {"run", "bare"} /\ n \in ToSet(Kids[P[i][2]])
          BY <2>2, <4>1
        <5>2. \/ \E j \in DOMAIN P : j < i /\ P[j] \in {Run(n), Bare(n)}
              \/ /\ P[i][2] = c
                 /\ \E k \in DOMAIN P : k < i /\ P[k] = Wait /\ \E j \in DOMAIN P : j < k /\ P[j] = Spawn(n)
          BY <2>1, <4>1, <5>1 DEF First
        <5>3. QED
          BY <4>1, <5>2
      <4>3. \A z : z \in {Run(n), Bare(n)} => z[1] \in Work /\ z[2] = n
        BY AtWork
      <4>4. ComesIn(P, i, n, x[2] = u, done', recorded', policy', started')
        BY <3>1, <4>2, <4>3 DEF ComesIn
      <4>5. QED
        BY <4>1, <4>4
    <3>2. CASE u # c
      <4> DEFINE e == IF u = t THEN 1 ELSE 0
                 own == (x[2] = u)
      <4>1. e = IF u = t THEN 1 ELSE 0
        OBVIOUS
      <4>2. i \in Nat /\ i + e \in DOMAIN todo[u] /\ x = todo[u][i + e]
        BY <1>10, <2>2, <3>2
      <4>3. e \in Nat
        OBVIOUS
      <4> HIDE DEF e
      <4>4. x \in Live
        BY <1>1, <4>2, Positions
      <4>5. x[2] \in Nodes
        BY <2>2, <4>4, LiveParts
      <4>6. n \in Nodes
        BY <2>2, <4>5, ChildFacts DEF Tasks
      <4>7. Comes(u, i + e, n, own)
        BY <2>1, <2>2, <4>2 DEF InvFirst
      <4>8. own \in BOOLEAN
        OBVIOUS
      <4> HIDE DEF own
      <4>9. i + e \in Nat /\ (i + e) - e = i
        BY <4>2, <4>3
      <4>10. After(u, (i + e) - e, n, own)
        BY <1>15, <3>2, <4>1, <4>6, <4>7, <4>8, <4>9
      <4>11. QED
        BY <4>9, <4>10 DEF own
    <3>3. QED
      BY <3>1, <3>2
  <2>3. ASSUME NEW m \in Nodes, calls'[m] > 0, NEW n \in ToSet(Kids[m]) PROVE OverIn(n, done', recorded', policy')
    <3>1. Over(n)
      BY <1>3, <2>1, <2>3 DEF InvFirst
    <3>2. QED
      BY <1>3, <3>1 DEF Over, OverIn
  <2>4. QED
    BY <2>2, <2>3 DEF InvFirst, Comes, Over
<1>20. TracksLive'
  BY <1>3 DEF Inv, TracksLive
<1>21. QED
  BY <1>11, <1>13, <1>14, <1>17, <1>18, <1>19, <1>20 DEF Inv

-----------------------------------------------------------------------------
(* The theorems                                                            *)

\* The invariant holds when the call begins, with the program of the call.
LEMMA InitInv == Init => Inv
<1> SUFFICES ASSUME Init PROVE Inv
  OBVIOUS
<1> DEFINE P == MainProgram
<1>1. /\ policy \in Policies /\ started = {Main} /\ calls = [n \in Nodes |-> 0]
      /\ todo = [t \in Tasks |-> IF t = Main THEN P ELSE <<>>]
      /\ done = {} /\ recorded = {} /\ current = 0 /\ peak = 0
  BY DEF Init
<1>2. /\ P \in Seq(Fixed) /\ Apart(P)
      /\ \A i \in DOMAIN P : P[i][1] = "spawn" => P[i][2] \in ChildrenOf(Main)
      /\ \A i \in DOMAIN P : P[i][1] = "bare" => policy.budget > 0
      /\ OnlyLeavesThrottled => First(P, Main)
      /\ MainFirst(P)
  BY MainSound DEF SoundProgram
<1>3. P \in Seq(Live)
  BY <1>2, FixedLive
<1> HIDE DEF P
<1>4. Main \in Tasks /\ Main \notin Nodes
  BY TreeFacts, ChildFacts DEF Tasks
<1>5. todo[Main] = P /\ \A t \in Tasks \ {Main} : todo[t] = <<>> /\ DOMAIN todo[t] = {}
  BY <1>1, <1>4
<1>6. InvType
  <2>1. <<>> \in Seq(Live)
    OBVIOUS
  <2>2. todo \in [Tasks -> Seq(Live)]
    BY <1>1, <1>3, <2>1
  <2>3. TypeOK
    BY <1>1, <1>4 DEF TypeOK
  <2>4. QED
    BY <1>1, <1>5, <2>2, <2>3 DEF InvType
<1>7. InvApart
  BY <1>2, <1>5 DEF InvApart, Apart
<1>8. InvMarks
  <2>1. \A n \in Nodes : calls[n] = 0
    BY <1>1
  <2>2. ASSUME NEW i \in DOMAIN P PROVE Marked(P[i], Main, calls, done, recorded, policy)
    <3>1. P[i] \in Fixed
      BY <1>2
    <3>2. P[i][1] \in {"run", "bare", "cap", "spawn", "wait"}
      BY <3>1, FixedLive
    <3>3. P[i][1] \in {"run", "bare", "spawn"} => Mine(P[i]) \subseteq Nodes
      <4>1. P[i] \in Live
        BY <3>1 DEF Fixed, Live
      <4>2. P[i][1] # "wait" => P[i][2] \in Nodes
        BY <4>1, LiveParts
      <4>3. P[i][1] # "wait" => Subtree(P[i][2]) \subseteq Nodes
        BY <4>2, SubtreeFacts
      <4>4. QED
        BY <4>2, <4>3 DEF Mine
    <3>4. QED
      BY <1>2, <2>1, <3>2, <3>3 DEF Marked
  <2>3. \A n \in Nodes : calls[n] <= 1 /\ (n \in done => calls[n] = 1)
    BY <1>1
  <2>4. QED
    BY <1>5, <2>2, <2>3 DEF InvMarks
<1>9. InvOwn
  BY <1>1, <1>4 DEF InvOwn
<1>10. InvRoots
  <2>1. ASSUME NEW r \in ToSet(Roots) PROVE ComesIn(P, Len(P) + 1, r, TRUE, done, recorded, policy, started)
    <3>1. \A i \in DOMAIN P : i < Len(P) + 1
      <4>1. DOMAIN P = 1..Len(P) /\ Len(P) \in Nat
        BY <1>2
      <4>2. QED
        BY <4>1
    <3>2. \/ \E i \in DOMAIN P : P[i] = Run(r)
          \/ \E k \in DOMAIN P : P[k] = Wait /\ \E j \in DOMAIN P : j < k /\ P[j] = Spawn(r)
      BY <1>2 DEF MainFirst
    <3>3. Run(r)[1] \in Work /\ Run(r)[2] = r
      BY StepParts DEF Work
    <3>4. QED
      BY <3>1, <3>2, <3>3 DEF ComesIn
  <2>2. QED
    BY <1>5, <2>1 DEF InvRoots, Comes
<1>11. ASSUME OnlyLeavesThrottled PROVE InvFirst
  <2>1. \A n \in Nodes : ~(calls[n] > 0)
    BY <1>1
  <2>2. ASSUME NEW i \in DOMAIN P, NEW x, x = P[i], x[1] \in {"run", "bare"}, NEW c \in ToSet(Kids[x[2]])
        PROVE  ComesIn(P, i, c, x[2] = Main, done, recorded, policy, started)
    <3>1. \/ \E j \in DOMAIN P : j < i /\ P[j] \in {Run(c), Bare(c)}
          \/ /\ x[2] = Main
             /\ \E k \in DOMAIN P : k < i /\ P[k] = Wait /\ \E j \in DOMAIN P : j < k /\ P[j] = Spawn(c)
      <4>1. P[i][1] \in {"run", "bare"} /\ c \in ToSet(Kids[P[i][2]]) /\ First(P, Main)
        BY <1>2, <1>11, <2>2
      <4>2. \/ \E j \in DOMAIN P : j < i /\ P[j] \in {Run(c), Bare(c)}
            \/ /\ P[i][2] = Main
               /\ \E k \in DOMAIN P : k < i /\ P[k] = Wait /\ \E j \in DOMAIN P : j < k /\ P[j] = Spawn(c)
        BY <4>1, <2>2 DEF First
      <4>3. QED
        BY <2>2, <4>2
    <3>2. \A z : z \in {Run(c), Bare(c)} => z[1] \in Work /\ z[2] = c
      BY AtWork
    <3>3. QED
      BY <3>1, <3>2 DEF ComesIn
  <2>3. ASSUME NEW t \in Tasks, NEW i \in DOMAIN todo[t], NEW x, x = todo[t][i], x[1] \in {"run", "bare"},
               NEW c \in ToSet(Kids[x[2]])
        PROVE  Comes(t, i, c, x[2] = t)
    <3>1. t = Main
      BY <1>5, <2>3
    <3>2. QED
      BY <1>5, <2>2, <2>3, <3>1 DEF Comes
  <2>4. QED
    BY <2>1, <2>3 DEF InvFirst
<1>12. TracksLive
  <2>1. {n \in recorded : \A p \in recorded : n \notin ToSet(Kids[p])} = {}
    BY <1>1
  <2>2. ContribOf({}) = 0
    BY ContribDef DEF Adds
  <2>3. QED
    BY <1>1, <2>1, <2>2 DEF TracksLive
<1>13. QED
  BY <1>6, <1>7, <1>8, <1>9, <1>10, <1>11, <1>12 DEF Inv

\* And every step keeps it.
LEMMA NextInv == Inv /\ [Next]_vars => Inv'
<1> SUFFICES ASSUME Inv, [Next]_vars PROVE Inv'
  OBVIOUS
<1>1. ASSUME NEW t \in started, Step(t) PROVE Inv'
  <2>1. CASE Call(t)
    BY <2>1, CallKeeps
  <2>2. CASE Return(t)
    BY <2>2, ReturnKeeps
  <2>3. CASE Record(t)
    BY <2>3, RecordKeeps
  <2>4. CASE RaisePeak(t)
    BY <2>4, RaisePeakKeeps
  <2>5. CASE SpawnTask(t)
    BY <2>5, SpawnKeeps
  <2>6. CASE TaskWait(t)
    BY <2>6, TaskWaitKeeps
  <2>7. QED
    BY <1>1, <2>1, <2>2, <2>3, <2>4, <2>5, <2>6 DEF Step
<1>2. CASE UNCHANGED vars
  <2>1. /\ policy' = policy /\ todo' = todo /\ started' = started /\ calls' = calls
        /\ done' = done /\ recorded' = recorded /\ current' = current /\ peak' = peak
    BY <1>2 DEF vars
  <2>2. InvType' /\ InvApart' /\ InvMarks'
    BY <2>1 DEF Inv, InvType, TypeOK, InvApart, InvMarks
  <2>3. InvOwn' /\ InvRoots' /\ TracksLive'
    BY <2>1 DEF Inv, InvOwn, InvRoots, TracksLive, Comes
  <2>4. OnlyLeavesThrottled' => InvFirst'
    <3>1. InvFirst => InvFirst'
      BY <2>1 DEF InvFirst, Comes, Over
    <3>2. QED
      BY <2>1, <3>1, SamePolicy DEF Inv
  <2>5. QED
    BY <2>2, <2>3, <2>4 DEF Inv
<1>3. QED
  BY <1>1, <1>2 DEF Next, Done

\* Every variable has its type (TypeOK): LiveMemoryTracker's bytes in use never go
\* below zero, so its unsigned count does not wrap there, whatever the budget.
THEOREM Typed == Spec => []TypeOK
<1>1. Inv => TypeOK
  BY DEF Inv, InvType
<1>2. QED
  BY InitInv, NextInv, <1>1, PTL DEF Spec

AtMostOnce == \A n \in Nodes : calls[n] <= 1

\* What holds for every budget: the callback is called on no node twice, and
\* without a budget the tracked bytes are those of the contributions not
\* assembled yet (TracksLive), however the tasks interleave.
THEOREM NeverTwice == Spec => [](AtMostOnce /\ TracksLive)
<1>1. Inv => AtMostOnce /\ TracksLive
  BY DEF Inv, InvMarks, AtMostOnce
<1>2. QED
  BY InitInv, NextInv, <1>1, PTL DEF Spec

\* The policy, and so what the budget throttles, is that of the call.
LEMMA KeepsPolicy == [Next]_vars => policy' = policy
BY DEF Next, Step, Done, vars, Call, Return, Record, RaisePeak, SpawnTask, TaskWait

\* When the budget throttles only leaves, a node is processed after its children
\* (threading.hpp:26), whatever task runs them.
THEOREM ChildrenFirstTheorem == Spec /\ OnlyLeavesThrottled => []ChildrenFirst
<1>1. Inv /\ OnlyLeavesThrottled => ChildrenFirst
  BY DEF Inv, InvFirst, ChildrenFirst, Over, OverIn
<1>2. OnlyLeavesThrottled /\ [Next]_vars => OnlyLeavesThrottled'
  BY KeepsPolicy, SamePolicy
<1>3. QED
  BY InitInv, NextInv, <1>1, <1>2, PTL DEF Spec

\* And the accounts of the executor are right: every node is processed exactly
\* once by the time the call returns, and the tracked bytes are the live ones.
THEOREM NodesAccountedTheorem == Spec /\ OnlyLeavesThrottled => []NodesAccounted
<1>1. ASSUME Inv, OnlyLeavesThrottled PROVE NodesAccounted
  <2>1. \A n \in Nodes : calls[n] <= 1
    BY <1>1 DEF Inv, InvMarks
  <2>2. ASSUME Finished PROVE done = Nodes
    <3>1. \A r \in ToSet(Roots) : r \in done
      <4>1. todo[Main] = <<>>
        BY <2>2 DEF Finished, Ended
      <4>2. ASSUME NEW r \in ToSet(Roots) PROVE r \in done
        <5>1. ComesIn(todo[Main], Len(todo[Main]) + 1, r, TRUE, done, recorded, policy, started)
          BY <1>1 DEF Inv, InvRoots, Comes
        <5>2. OverIn(r, done, recorded, policy)
          BY <4>1, <5>1, ComesEmpty
        <5>3. QED
          BY <5>2 DEF OverIn
      <4>3. QED
        BY <4>2
    <3>2. ASSUME NEW n \in Nodes, n \in done, NEW c \in ToSet(Kids[n]) PROVE c \in done
      <4>1. calls[n] = 1
        BY <1>1, <3>2 DEF Inv, InvMarks
      <4>2. calls[n] > 0
        BY ONLY <4>1, SmallNumbers
      <4>3. QED
        BY <1>1, <3>2, <4>2 DEF Inv, InvFirst, Over, OverIn
    <3>3. \A n \in Nodes : (\A m \in Nodes : m > n => m \in done) => n \in done
      <4> SUFFICES ASSUME NEW n \in Nodes, \A m \in Nodes : m > n => m \in done, n \notin ToSet(Roots)
                   PROVE  n \in done
        BY <3>1
      <4>1. PICK p \in Nodes : n \in ToSet(Kids[p])
        BY TreeAssumption
      <4>2. p > n
        <5>1. n < p
          BY <4>1, KidFacts
        <5>2. n \in Nat /\ p \in Nat
          BY TreeFacts
        <5>3. QED
          BY <5>1, <5>2
      <4>3. QED
        BY <4>1, <4>2, <3>2
    <3>4. Nodes \subseteq done
      BY <3>3, DownTheTree
    <3>5. QED
      BY <1>1, <3>4 DEF Inv, InvType, TypeOK
  <2>3. QED
    BY <1>1, <2>1, <2>2 DEF NodesAccounted, EachNodeOnce, Inv
<1>2. OnlyLeavesThrottled /\ [Next]_vars => OnlyLeavesThrottled'
  BY KeepsPolicy, SamePolicy
<1>3. QED
  BY InitInv, NextInv, <1>1, <1>2, PTL DEF Spec

=============================================================================
