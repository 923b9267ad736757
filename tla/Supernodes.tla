----------------------------- MODULE Supernodes -----------------------------
(***************************************************************************)
(* Relaxed supernode amalgamation (amalgamate_relaxed), the children lists *)
(* (build_children_csr) and the row structure of the fronts                *)
(* (build_assembly_tree).                                                  *)
(*                                                                         *)
(* parent and count are the elimination tree and column counts in the      *)
(* postordered numbering.  A supernode is a range of columns of the final  *)
(* numbering and its parent supernode (0: none).                           *)
(***************************************************************************)
EXTENDS Elimination

CONSTANTS FreeZeros,        \* kAmalgamateFreeZeros
          ZeroShareTenths,  \* ten times kAmalgamateMaxZeroShare
          MinBlock,         \* kCostMinBlock
          WordFlops         \* kCostWordFlops

ASSUME AmalgamationAssumption ==
  /\ FreeZeros \in Nat /\ ZeroShareTenths \in 0..10 /\ MinBlock \in Nat
  /\ WordFlops \in Nat \ {0}

(* cb_merge_pays: the flops of padding the child's columns against the     *)
(* words its contribution block no longer moves.                           *)
CostModelPays(pc, qc, fp) ==
  LET z == MaxOf(fp - qc, 0)
  IN /\ qc >= MinBlock
     /\ pc * z * (pc + fp + qc + WordFlops) < 3 * WordFlops * qc * qc

(* CHOLMOD's relaxation: k columns, zeros of the merged node's entries.    *)
CholmodTakes(k, zeros, added, entries) ==
  \/ k <= 4 \/ added <= 0
  \/ k <= 16 /\ 10 * zeros < 8 * entries
  \/ k <= 48 /\ 10 * zeros < entries
  \/ 20 * zeros < entries

(* Fundamental supernodes of the postordered numbering: the first columns. *)
StartsSupernode(parent, count, j) ==
  \/ j = 1 \/ parent[j - 1] # j
  \/ Cardinality({c \in DOMAIN parent : parent[c] = j}) # 1
  \/ count[j - 1] # count[j] + 1

(* The merges, bottom-up.  A flagged column goes with its parent whatever  *)
(* the rule says.                                                          *)
MergedGroups(parent, count, nemin, keep, rule) ==
  LET n == Len(parent)
      first == Ascending({j \in 1..n : StartsSupernode(parent, count, j)})
      ns == Len(first)
      last(s) == IF s = ns THEN n ELSE first[s + 1] - 1
      node == [j \in 1..n |-> CHOOSE s \in 1..ns : first[s] <= j /\ j <= last(s)]
      up == [s \in 1..ns |-> IF parent[last(s)] = 0 THEN 0 ELSE node[parent[last(s)]]]
      below(s) == count[last(s)] - 1
      forced == {node[j] : j \in {k \in keep : parent[k] # 0 /\ node[parent[k]] # node[k]}}
      start == [group |-> Identity(ns),
                cols |-> AsSeq([s \in 1..ns |-> last(s) - first[s] + 1]),
                fill |-> AsSeq([s \in 1..ns |->
                            SumOf([j \in first[s]..last(s) |-> count[j]])])]
      Stored(k, s) == k * (k + below(s))
      Pays(t, s, p) ==
        LET k == t.cols[s] + t.cols[p]
            entries == Stored(k, p)
            zeros == entries - t.fill[s] - t.fill[p]
            added == entries - Stored(t.cols[s], s) - Stored(t.cols[p], p)
        IN \/ /\ t.cols[s] < nemin /\ t.cols[p] < nemin
              /\ added <= FreeZeros \/ 10 * zeros <= ZeroShareTenths * entries
           \/ /\ rule = "CostModel" /\ nemin > 1
              /\ CostModelPays(t.cols[s], below(s), t.cols[p] + below(p))
           \/ /\ rule = "SmfPlusCholmod" /\ nemin > 1
              /\ CholmodTakes(k, zeros, added, entries)
      Merge(t, s) ==
        LET p == up[s] IN
        IF p = 0 \/ (s \notin forced /\ ~Pays(t, s, p)) THEN t
        ELSE [t EXCEPT !.group[s] = p, !.cols[p] = @ + t.cols[s],
                       !.fill[p] = @ + t.fill[s]]
      merged == IF nemin > 1 \/ forced # {} THEN FoldLeft(Merge, start, Identity(ns))
                ELSE start
      Resolve(g, s) == [g EXCEPT ![s] = g[g[s]]]
      group == FoldLeft(Resolve, merged.group, Reverse(Identity(ns)))
  IN [groups |-> {s \in 1..ns : group[s] = s},
      of     |-> [j \in 1..n |-> group[node[j]]],
      up     |-> [s \in 1..ns |-> IF up[s] = 0 THEN 0 ELSE group[up[s]]]]

(* Groups in postorder of their tree, each one's columns contiguous.       *)
Regrouped(parent, m) ==
  LET kids(g) == Ascending({c \in m.groups : m.up[c] = g})
      RECURSIVE Visit(_)
      Visit(g) == Append(FlattenSeq([c \in DOMAIN kids(g) |-> Visit(kids(g)[c])]), g)
      post == FlattenSeq([c \in DOMAIN kids(0) |-> Visit(kids(0)[c])])
      columns(g) == Ascending({j \in DOMAIN parent : m.of[j] = g})
      before(i) == SumOf([h \in 1..(i - 1) |-> Len(columns(post[h]))])
  IN [order  |-> FlattenSeq([i \in DOMAIN post |-> columns(post[i])]),
      snodes |-> [i \in DOMAIN post |->
                    [first |-> before(i) + 1, last |-> before(i) + Len(columns(post[i])),
                     parent |-> IF m.up[post[i]] = 0 THEN 0
                                ELSE CHOOSE h \in DOMAIN post : post[h] = m.up[post[i]]]]]
AmalgamateRelaxed(parent, count, nemin, keep, rule) ==
  Regrouped(parent, MergedGroups(parent, count, nemin, keep, rule))

(* build_children_csr: descending, as the factor's stack consumes them.    *)
ChildrenCsr(snodes) ==
  [s \in DOMAIN snodes |->
     Reverse(Ascending({c \in DOMAIN snodes : snodes[c].parent = s}))]

(* build_assembly_tree: own columns, the pattern's rows below them, and    *)
(* the rows the children hand on.                                          *)
FrontRowsMut(below, snodes, children) ==
  [s \in DOMAIN snodes |-> snodes[s].first..snodes[s].last
                           \cup UNION {below[j] : j \in snodes[s].first..snodes[s].last}]
FrontRows(below, snodes, children) ==
  LET Rows0(s) == snodes[s].first..snodes[s].last
                  \cup UNION {below[j] : j \in snodes[s].first..snodes[s].last}
      Add(rows, s) ==
        Append(rows, Rows0(s) \cup UNION {{r \in rows[c] : r > snodes[c].last} :
                                            c \in {children[s][q] : q \in DOMAIN children[s]}})
  IN FoldLeft(Add, <<>>, Identity(Len(snodes)))
=============================================================================
