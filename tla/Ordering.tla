------------------------------ MODULE Ordering ------------------------------
(***************************************************************************)
(* Fill-reducing orderings: minimum degree, the METIS backends and the     *)
(* matching-based compressed ordering (ordering_amd.cpp,                   *)
(* ordering_metis.cpp, ordering_matching.cpp).                             *)
(*                                                                         *)
(* lib says which libraries the build has: lib.amd, and lib.metis, one of  *)
(* "none", "fails" (every call reports an error), "best" and "worst" (the  *)
(* order it returns, by fill).  An ordering that failed is <<>>.           *)
(***************************************************************************)
EXTENDS Matching, Elimination

CONSTANTS MetisFlopsPerRow, \* kMetisFlopsPerRow
          PairTolLog        \* log kMatchingPairTol, in units of 1/(2 Unit)

ASSUME OrderingAssumption == MetisFlopsPerRow \in Nat /\ PairTolLog \in Int

HasEdges(adj) == \E v \in DOMAIN adj : adj[v] # {}

(* fallback_minimum_degree_ordering: the least degree, lowest vertex first;*)
(* the neighbours of an eliminated vertex become a clique.                 *)
MinimumDegree(adj) ==
  LET Least0(t) == LET left == DOMAIN adj \ t.out
                   IN CHOOSE v \in left : \A w \in left :
                        \/ Cardinality(t.g[v]) < Cardinality(t.g[w])
                        \/ Cardinality(t.g[v]) = Cardinality(t.g[w]) /\ v <= w
      Step(t, k) ==
        LET v == Least0(t)
            nbrs == t.g[v] \ t.out
        IN [out |-> t.out \cup {v}, perm |-> Append(t.perm, v),
            g |-> [u \in DOMAIN adj |->
                     IF u \in nbrs THEN (t.g[u] \cup nbrs) \ (t.out \cup {u, v}) ELSE t.g[u]]]
  IN FoldLeft(Step, [out |-> {}, perm |-> <<>>, g |-> adj],
              Identity(Cardinality(DOMAIN adj))).perm

(* amd_order_adjacency: the library's approximate minimum degree; without  *)
(* the library it reports failure.                                         *)
AmdOrderAdjacency(lib, adj) ==
  IF DOMAIN adj = {} THEN <<>>
  ELSE IF ~lib.amd THEN <<>>
  ELSE IF ~HasEdges(adj) THEN Identity(Cardinality(DOMAIN adj))
  ELSE MinimumDegree(adj)

EntriesOf(L) == SumOf([k \in DOMAIN L |-> Cardinality(L[k])])
Fill(adj, p) == EntriesOf(Filled(adj, p))

(* METIS_NodeND: deterministic, an order of the vertices or an error.      *)
OrderByFill(fill, best) ==
  CHOOSE p \in DOMAIN fill : \A q \in DOMAIN fill :
    IF best THEN fill[p] <= fill[q] ELSE fill[p] >= fill[q]
MetisNodeND(lib, adj) ==
  IF lib.metis \in {"none", "fails"} THEN <<>>
  ELSE OrderByFill([p \in Permutations(DOMAIN adj) |-> Fill(adj, p)], lib.metis = "best")

(* The factory and the backends' compute_ordering.                         *)
BackendOrder(lib, method, adj) ==
  IF method = "METIS" /\ lib.metis # "none" THEN MetisNodeND(lib, adj)
  ELSE IF ~HasEdges(adj) THEN Identity(Cardinality(DOMAIN adj)) ELSE MinimumDegree(adj)
-----------------------------------------------------------------------------
(* Matching-based compressed ordering.  A matching result is its status,   *)
(* the row of each column (0: free) and twice the logarithm of its scale.  *)
Result(s) == [status |-> s.status, rowOf |-> s.rowOf, scale |-> Current(s)]
InitialResult(s) == [status |-> "Success", rowOf |-> s.initRow, scale |-> Initial(s)]
MatchedRank(mr) == Cardinality({j \in DOMAIN mr.rowOf : mr.rowOf[j] # 0})

NoEntry == -Inf

(* Twice the logarithm of the scaled magnitude of entry (i, j).            *)
ScaledLog(A, mr, i, j) ==
  LET c == MinOf(i, j)
      at == {p \in DOMAIN A[c] : A[c][p][1] = MaxOf(i, j) /\ A[c][p][2] # 0}
  IN IF at = {} THEN NoEntry
     ELSE 2 * LogOf(A[c][CHOOSE p \in at : TRUE][2]) + mr.scale[i] + mr.scale[j]
DiagLog(A, mr, j) == ScaledLog(A, mr, j, j)
CouplingLog(A, mr, c) == IF mr.rowOf[c] = 0 THEN NoEntry ELSE ScaledLog(A, mr, mr.rowOf[c], c)

(* The cycle or open path of the matching that starts at column c.         *)
RECURSIVE WalkFrom(_, _, _)
WalkFrom(rowOf, c, seen) ==
  IF c = 0 \/ c \in seen THEN <<>>
  ELSE <<c>> \o WalkFrom(rowOf, rowOf[c], seen \cup {c})

(* Every cycle is split into adjacent pairs: an even one takes the heavier *)
(* alternation, an odd one leaves out its best diagonal, an open path is   *)
(* split from its head.  The index of the first pair's first member.       *)
FirstPair(A, mr, walk) ==
  LET k == Len(walk)
      weight(par) == SumOf([t \in {q \in 1..k : q % 2 = par} |-> CouplingLog(A, mr, walk[t])])
      single == CHOOSE t \in 1..k : \A q \in 1..k :
                  \/ DiagLog(A, mr, walk[t]) > DiagLog(A, mr, walk[q])
                  \/ DiagLog(A, mr, walk[t]) = DiagLog(A, mr, walk[q]) /\ t <= q
  IN IF mr.rowOf[walk[k]] # walk[1] THEN 1
     ELSE IF k % 2 = 0 THEN IF weight(0) > weight(1) THEN 2 ELSE 1
     ELSE single + 1

PairsFrom(A, mr, walk, first) ==
  LET k == Len(walk)
      at(t) == walk[((first + t - 1) % k) + 1]
  IN IF k < 2 THEN {}
     ELSE {pr \in {<<at(2 * q), at(2 * q + 1)>> : q \in 0..((k \div 2) - 1)} :
             MinOf(DiagLog(A, mr, pr[1]), DiagLog(A, mr, pr[2])) < PairTolLog}
PairsOfWalk(A, mr, walk) == PairsFrom(A, mr, walk, FirstPair(A, mr, walk))

(* Open paths from their heads first, then the cycles.                     *)
TakeWalk(A, mr, t, walk) == [seen |-> t.seen \cup ToSet(walk),
                             pairs |-> t.pairs \cup PairsOfWalk(A, mr, walk)]
Pairs(A, mr) ==
  LET heads == {j \in DOMAIN mr.rowOf : \A c \in DOMAIN mr.rowOf : mr.rowOf[c] # j}
  IN FoldLeft(LAMBDA t, j : TakeWalk(A, mr, t, WalkFrom(mr.rowOf, j, t.seen)),
              [seen |-> {}, pairs |-> {}],
              Ascending(heads) \o Ascending(DOMAIN mr.rowOf)).pairs

(* The compressed graph: a node per pair or unpaired variable, numbered by *)
(* its first member.                                                       *)
Compressed(adj, pairs) ==
  LET partner == [v \in DOMAIN adj |->
                    LET ps == {pr \in pairs : v \in {pr[1], pr[2]}}
                    IN IF ps = {} THEN 0
                       ELSE LET pr == CHOOSE q \in ps : TRUE
                            IN IF pr[1] = v THEN pr[2] ELSE pr[1]]
      first == Ascending({v \in DOMAIN adj : partner[v] = 0 \/ v < partner[v]})
      members == [J \in DOMAIN first |->
                    IF partner[first[J]] = 0 THEN <<first[J]>>
                    ELSE <<first[J], partner[first[J]]>>]
      touches(J, K) == \E a \in ToSet(members[J]), b \in ToSet(members[K]) : b \in adj[a]
  IN [members |-> members,
      adj |-> [J \in DOMAIN first |-> {K \in DOMAIN first : K # J /\ touches(J, K)}],
      weight |-> [J \in DOMAIN first |-> Len(members[J])]]

Expand(graph, order) == FlattenSeq([k \in DOMAIN order |-> graph.members[order[k]]])

(* matching_order_from.  nodes is what the candidate's METIS (serial, or   *)
(* parallel nested dissection) answers on the compressed graph.  Starting  *)
(* it before AMD's verdict (CandidateNd::speculate) changes no result.     *)
Ordered(adj, perm, used) == [perm |-> perm, tree |-> SymbolicCounts(adj, perm), used |-> used]
CheaperOf(first, second) == IF second.tree.flops < first.tree.flops THEN second ELSE first
WithMetis(adj, graph, nodes, first) ==
  IF nodes = <<>> THEN first ELSE CheaperOf(first, Ordered(adj, Expand(graph, nodes), "METIS"))

WithSecond(adj, graph, how, refactors, nodes, first) ==
  IF /\ how = "Auto" /\ HasEdges(graph.adj)
     /\ first.tree.flops * refactors >= MetisFlopsPerRow * Cardinality(DOMAIN adj)
  THEN WithMetis(adj, graph, nodes, first) ELSE first
CompressedOrder(adj, graph, amd, how, refactors, nodes) ==
  IF amd = <<>> THEN [ok |-> FALSE]
  ELSE [ok |-> TRUE] @@ WithSecond(adj, graph, how, refactors, nodes,
                                   Ordered(adj, Expand(graph, amd), "AMD"))

PairGraph(A, mr) == Compressed(Adjacency(A), Pairs(A, mr))
MatchingOrderFrom(lib, A, mr, graph, how, refactors, nodes) ==
  IF mr.status # "Success" THEN [ok |-> FALSE]
  ELSE [scale |-> mr.scale]
       @@ CompressedOrder(Adjacency(A), graph, AmdOrderAdjacency(lib, graph.adj),
                          how, refactors, nodes)

=============================================================================
