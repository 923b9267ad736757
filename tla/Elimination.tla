----------------------------- MODULE Elimination -----------------------------
(***************************************************************************)
(* Elimination tree, postorder and exact column counts of a symmetric      *)
(* pattern under an ordering: etree.cpp, the Gilbert-Ng-Peyton counts of   *)
(* supernode_detection.cpp and the adjacency builders of ordering_amd.cpp  *)
(* and sym_graph.cpp.                                                      *)
(*                                                                         *)
(* A pattern is a function from vertices 1..n to their sets of neighbours; *)
(* an ordering p is the sequence of the vertices in elimination order, and *)
(* tree nodes are positions in it.  Parent 0 is no parent.                 *)
(***************************************************************************)
EXTENDS CostGraph, FiniteSetsExt

(* Both triangles of the cleaned lower triangle, without the diagonal.     *)
Adjacency(A) ==
  [v \in Cols(A) |-> {i \in Cols(A) : i # v /\
     \E p \in DOMAIN A[MinOf(i, v)] : A[MinOf(i, v)][p][1] = MaxOf(i, v)}]

Identity(n) == AsSeq([k \in 1..n |-> k])
Position(p) == [v \in {p[k] : k \in DOMAIN p} |-> CHOOSE k \in DOMAIN p : p[k] = v]
IsOrder(p, V) == Len(p) = Cardinality(V) /\ {p[k] : k \in DOMAIN p} = V

(* Neighbours of the vertex at position k, as positions.                   *)
Around(adj, p, k) == LET at == Position(p) IN {at[u] : u \in adj[p[k]]}

(* Liu's algorithm: each earlier neighbour r of row k climbs its ancestors *)
(* to a root, pointing every vertex on the way at k.                       *)
RECURSIVE Climb(_, _, _)
Climb(t, r, k) ==
  LET a == t.ancestor[r] IN
  IF a = k THEN t
  ELSE IF a = 0 THEN [t EXCEPT !.parent[r] = k, !.ancestor[r] = k]
  ELSE Climb([t EXCEPT !.ancestor[r] = k], a, k)

EtreeFromAdjacency(adj, p) ==
  LET none == AsSeq([k \in DOMAIN p |-> 0])
      Row(t, k) == FoldLeft(LAMBDA x, r : Climb(x, r, k), t,
                            Ascending({r \in Around(adj, p, k) : r < k}))
  IN FoldLeft(Row, [parent |-> none, ancestor |-> none], Identity(Len(p))).parent

ChildrenOf(parent, k) == Ascending({j \in DOMAIN parent : parent[j] = k})

(* Depth-first, children and roots in ascending order.                     *)
RECURSIVE Subtree(_, _)
Subtree(parent, k) ==
  Append(FlattenSeq([c \in DOMAIN ChildrenOf(parent, k) |->
                       Subtree(parent, ChildrenOf(parent, k)[c])]), k)
EtreePostorder(parent) ==
  LET roots == ChildrenOf(parent, 0)
  IN FlattenSeq([c \in DOMAIN roots |-> Subtree(parent, roots[c])])

(* The longest path from a node down to a leaf, over the postorder.        *)
EtreeDepth(parent, post) ==
  LET Up(d, j) == IF parent[j] = 0 THEN d
                  ELSE [d EXCEPT ![parent[j]] = MaxOf(@, d[j] + 1)]
  IN Max(ToSet(FoldLeft(Up, AsSeq([j \in DOMAIN parent |-> 0]), post)) \cup {0})
-----------------------------------------------------------------------------
(* Column counts: a row subtree counts through its leaves and their least  *)
(* common ancestors only.  first[j] is the postorder rank of j's first     *)
(* descendant.                                                             *)
FirstDescendant(parent, post) ==
  LET rank == Position(post)
      RECURSIVE Under(_)
      Under(j) == {rank[j]} \cup UNION {Under(c) : c \in {i \in DOMAIN parent : parent[i] = j}}
  IN AsSeq([j \in DOMAIN parent |-> Min(Under(j))])

RECURSIVE RootOf(_, _)
RootOf(ancestor, q) == IF ancestor[q] = q THEN q ELSE RootOf(ancestor, ancestor[q])

RECURSIVE CompressTo(_, _, _)
CompressTo(ancestor, s, q) ==
  IF s = q THEN ancestor ELSE CompressTo([ancestor EXCEPT ![s] = q], ancestor[s], q)

ColumnCounts(adj, p, parent, post) ==
  LET first == FirstDescendant(parent, post)
      leaf(j) == ~ \E c \in DOMAIN parent : parent[c] = j
      start == [delta    |-> AsSeq([j \in DOMAIN p |-> IF leaf(j) THEN 1 ELSE 0]),
                maxfirst |-> AsSeq([j \in DOMAIN p |-> 0]),
                prevleaf |-> AsSeq([j \in DOMAIN p |-> 0]),
                ancestor |-> Identity(Len(p))]
      Skeleton(t, j, i) ==
        IF first[j] <= t.maxfirst[i] THEN t
        ELSE LET was == t.prevleaf[i]
                 u == [t EXCEPT !.maxfirst[i] = first[j], !.prevleaf[i] = j,
                                !.delta[j] = @ + 1]
                 q == RootOf(t.ancestor, was)
             IN IF was = 0 THEN u
                ELSE [u EXCEPT !.delta[q] = @ - 1,
                               !.ancestor = CompressTo(@, was, q)]
      Column(t, j) ==
        LET s == IF parent[j] = 0 THEN t ELSE [t EXCEPT !.delta[parent[j]] = @ - 1]
            u == FoldLeft(LAMBDA x, i : Skeleton(x, j, i), s,
                          Ascending({i \in Around(adj, p, j) : i > j}))
        IN IF parent[j] = 0 THEN u ELSE [u EXCEPT !.ancestor[j] = parent[j]]
      Sum(d, j) == IF parent[j] = 0 THEN d ELSE [d EXCEPT ![parent[j]] = @ + d[j]]
  IN FoldLeft(Sum, FoldLeft(Column, start, post).delta, Identity(Len(p)))

(* symbolic_counts: the tree, its postorder and depth, the counts and the  *)
(* predicted flops (the sum of squared counts) of an ordering.             *)
Counted(parent, post, count) ==
  [parent |-> parent, post |-> post, count |-> count, depth |-> EtreeDepth(parent, post),
   flops |-> SumOf([j \in DOMAIN count |-> count[j] * count[j]])]
SymbolicCounts(adj, p) ==
  LET OfTree(parent, post) == Counted(parent, post, ColumnCounts(adj, p, parent, post))
      Postordered(parent) == OfTree(parent, EtreePostorder(parent))
  IN Postordered(EtreeFromAdjacency(adj, p))
-----------------------------------------------------------------------------
(* Reference: the pattern of the factor by playing the elimination game on *)
(* the permuted graph; Filled[k] is column k below the diagonal.           *)
Filled(adj, p) ==
  LET Eliminate(g, k) ==
        LET below == {i \in g[k] : i > k}
        IN [i \in DOMAIN g |-> IF i \in below THEN (g[i] \cup below) \ {i} ELSE g[i]]
      graph == FoldLeft(Eliminate, [k \in DOMAIN p |-> Around(adj, p, k)], Identity(Len(p)))
  IN [k \in DOMAIN p |-> {i \in graph[k] : i > k}]
=============================================================================
