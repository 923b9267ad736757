--------------------------- MODULE NestedDissection ---------------------------
(***************************************************************************)
(* The pieces of parallel nested dissection (ordering_parallel_nd.cpp):    *)
(* exact compression, the split of a part, the order of a leaf and the     *)
(* final numbering; and the dissection done by one caller, part after part.*)
(***************************************************************************)
EXTENDS Ordering

CONSTANTS MinSplit,         \* kMinSplit: smaller parts stay leaves
          Levels,           \* ParallelNdOptions::levels
          SplitSepDepth,    \* kSplitSepDepth: separators above it run as tasks
          SepRuns,          \* SMF_SEP_NRUNS, on parts of more than SepFloor
          SepFloor,         \* vertices; smaller ones have no runs
          AmdLeafMax        \* ParallelNdOptions::amd_leaf_max

ASSUME DissectionAssumption ==
  {MinSplit, Levels, SplitSepDepth, SepRuns, SepFloor, AmdLeafMax} \subseteq Nat

(* Vertices with equal closed neighbourhoods become one supervariable,     *)
(* numbered by its smallest member (compress_closed_adjacency, compress).  *)
Compress(adj, weight) ==
  LET closed(v) == adj[v] \cup {v}
      first == Ascending({v \in DOMAIN adj :
                            \A u \in DOMAIN adj : closed(u) = closed(v) => v <= u})
      members == [s \in DOMAIN first |->
                    Ascending({u \in DOMAIN adj : closed(u) = closed(first[s])})]
  IN [members |-> members,
      adj |-> [s \in DOMAIN first |->
                 {t \in DOMAIN first \ {s} : ToSet(members[t]) \cap adj[first[s]] # {}}],
      weight |-> [s \in DOMAIN first |->
                    SumOf([v \in ToSet(members[s]) |-> weight[v]])]]

Members(c, supers) == FlattenSeq([k \in DOMAIN supers |-> c.members[supers[k]]])

(* Connected components of a part, labelled by their smallest vertices.    *)
RECURSIVE Reach(_, _)
Reach(nbr, S) == LET T == S \cup UNION {nbr[v] : v \in S}
                 IN IF T = S THEN S ELSE Reach(nbr, T)
Components(nbr) == {Reach(nbr, {v}) : v \in DOMAIN nbr}

Weight(c, S) == SumOf([v \in S |-> c.weight[v]])

(* Heaviest components first (the earlier of equal ones), each to the      *)
(* lighter side.                                                           *)
ComponentSides(c, parts) ==
  LET Heavier(S, T) == \/ Weight(c, S) > Weight(c, T)
                       \/ Weight(c, S) = Weight(c, T) /\ Min(S) < Min(T)
      Put(half, S) == IF Weight(c, half[1]) <= Weight(c, half[2])
                      THEN <<half[1] \cup S, half[2]>> ELSE <<half[1], half[2] \cup S>>
      half == FoldLeft(Put, <<{}, {}>>, SetToSortSeq(parts, Heavier))
  IN [ok |-> TRUE, half |-> half, sep |-> {}]

(* A METIS call on a part of `size` supervariables fails when the library  *)
(* is set to fail there: stage 0 is the call or the start of a separator,  *)
(* 1..SepRuns one of its runs, 9 its end and 10 a leaf's METIS_NodeND.     *)
CallFails(lib, size, stage) == lib.metis \in {"none", "fails"} \/ <<size, stage>> \in lib.fails

Failed == [ok |-> FALSE]
NoCut(V) == [ok |-> TRUE, half |-> <<V, {}>>, sep |-> {}]

(* The member of S of the lexicographically least rank.                    *)
LeastBy(S, rank) ==
  CHOOSE x \in S : \A y \in S : \/ rank[x][1] < rank[y][1]
                                \/ rank[x][1] = rank[y][1] /\ rank[x][2] <= rank[y][2]

(* METIS_ComputeVertexSeparator: deterministic; the least separator, then  *)
(* the most even halves.  A half is empty when nothing separates.          *)
VertexSeparator(c, nbr) ==
  LET V == DOMAIN nbr
      edge(H) == UNION {nbr[v] : v \in H} \ H
      other(H) == V \ (H \cup edge(H))
      rank(H) == <<Weight(c, edge(H)), AbsVal(Weight(c, H) - Weight(c, other(H)))>>
      cuts == {H \in SUBSET V : H # {} /\ other(H) # {}}
      Along(H) == [ok |-> TRUE, half |-> <<H, other(H)>>, sep |-> edge(H)]
  IN IF \A H \in SUBSET V : H = {} \/ other(H) = {}
     THEN NoCut(V)
     ELSE Along(LeastBy(cuts, [H \in SUBSET V |-> rank(H)]))

Splits(cut) == cut.half[1] # {} /\ cut.half[2] # {}

(* The induced graph of a part: `mine` holds the vertices it owns.         *)
Induced(c, verts, mine) == [v \in verts |-> c.adj[v] \cap mine]

(* The runs of a part's separator, when it is split into tasks.            *)
RunsOf(size, depth) == IF depth < SplitSepDepth /\ size > SepFloor THEN SepRuns ELSE 0

(* order_leaf: AMD on the uncompressed leaf, each supervariable gathered   *)
(* at its first member; METIS on the compressed one past AmdLeafMax.       *)
LocalOrder(lib, adj, orig, own) ==
  AmdOrderAdjacency(lib, [k \in DOMAIN orig |->
                            {q \in DOMAIN orig : orig[q] \in adj[orig[k]] \cap own}])
Gathered(c, verts, orig, amd) ==
  LET super(v) == CHOOSE s \in verts : v \in ToSet(c.members[s])
  IN IF amd = <<>> THEN [ok |-> FALSE]
     ELSE [ok |-> TRUE,
           order |-> FoldLeft(LAMBDA out, k : IF orig[k] \in ToSet(out) THEN out
                                              ELSE out \o c.members[super(orig[k])],
                              <<>>, amd)]
PartOrder(c, supers, nd) ==
  IF nd = <<>> THEN [ok |-> FALSE]
  ELSE [ok |-> TRUE, order |-> Members(c, [k \in DOMAIN nd |-> supers[nd[k]]])]
PartMetis(lib, c, supers, mine) ==
  IF CallFails(lib, Len(supers), 10) THEN <<>>
  ELSE MetisNodeND(lib, [k \in DOMAIN supers |->
                           {q \in DOMAIN supers : supers[q] \in c.adj[supers[k]] \cap mine}])
OrderLeaf(lib, c, adj, verts, mine) ==
  LET supers == Ascending(verts)
      orig == Members(c, supers)
      own == UNION {ToSet(c.members[s]) : s \in mine}
  IN IF Len(supers) < AmdLeafMax
     THEN Gathered(c, verts, orig, LocalOrder(lib, adj, orig, own))
     ELSE PartOrder(c, supers, PartMetis(lib, c, supers, mine))
-----------------------------------------------------------------------------
(* The dissection by one caller: halves before their separator.            *)
Bisection(lib, c, nbr, parts, depth) ==
  LET size == Cardinality(DOMAIN nbr)
      stages == (0..RunsOf(size, depth)) \cup (IF depth < SplitSepDepth THEN {9} ELSE {})
  IN IF Cardinality(parts) > 1 THEN ComponentSides(c, parts)
     ELSE IF \E stage \in stages : CallFails(lib, size, stage) THEN Failed
     ELSE VertexSeparator(c, nbr)

Joined(c, left, right, sep) ==
  IF ~left.ok \/ ~right.ok THEN Failed
  ELSE [ok |-> TRUE, order |-> left.order \o right.order \o Members(c, Ascending(sep))]

CutOf(lib, c, nbr, depth) ==
  IF depth >= Levels \/ Cardinality(DOMAIN nbr) < MinSplit THEN NoCut(DOMAIN nbr)
  ELSE Bisection(lib, c, nbr, Components(nbr), depth)

RECURSIVE Dissect(_, _, _, _, _), DissectAlong(_, _, _, _, _, _)
DissectAlong(lib, c, adj, verts, depth, cut) ==
  IF ~cut.ok THEN Failed
  ELSE IF ~Splits(cut) THEN OrderLeaf(lib, c, adj, verts, verts)
  ELSE Joined(c, Dissect(lib, c, adj, cut.half[1], depth + 1),
              Dissect(lib, c, adj, cut.half[2], depth + 1), cut.sep)
Dissect(lib, c, adj, verts, depth) ==
  DissectAlong(lib, c, adj, verts, depth, CutOf(lib, c, Induced(c, verts, verts), depth))

(* parallel_nd_order's result; <<>> when it reports failure.               *)
NdOrderOf(r) == IF r.ok THEN r.order ELSE <<>>
DissectAll(lib, c, adj) == Dissect(lib, c, adj, DOMAIN c.adj, 0)
NdOrder(lib, adj, weight) ==
  IF Cardinality(DOMAIN adj) <= 2 THEN Identity(Cardinality(DOMAIN adj))
  ELSE IF lib.metis = "none" THEN <<>>
  ELSE NdOrderOf(DissectAll(lib, Compress(adj, weight), adj))
=============================================================================
