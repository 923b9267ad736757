----------------------------- MODULE ThreadPlan -----------------------------
(***************************************************************************)
(* The thread plan of the tree-parallel factorization                      *)
(* (solver/src/parallel/thread_plan.{hpp,cpp}): the partition of the       *)
(* assembly tree into subtrees and a top part, by the heap                 *)
(* (PartitionSubtrees) and by the target alone (PartitionTasks), and the   *)
(* thread count of least cost.                                             *)
(*                                                                         *)
(* A view v has, for each node of the postorder 1..ns, its parent (0: a    *)
(* root), its work and its split ("tiles", "blas" or "none"). A tree t is  *)
(* a view with its subtree sums: [v, u, total]. A cost is a fraction       *)
(* <<numerator, denominator>>, with a positive denominator.                *)
(***************************************************************************)
EXTENDS Integers, FiniteSets, FiniteSetsExt, SequencesExt

CONSTANTS
  MinWork,          (* kTreeParallelMinWork                                 *)
  PartsPerThread,   (* subtrees are lighter than total / (this x threads)   *)
  GrainsPerThread   (* kTaskGrainsPerThread                                 *)

ASSUME PlanAssumption == MinWork \in Nat /\ PartsPerThread \in Nat /\ GrainsPerThread \in Nat

Nodes(v)   == [s \in 1..Len(v.work) |-> s]
KidsOf(v, s) == {c \in DOMAIN v.work : v.parent[c] = s}

-----------------------------------------------------------------------------
(* Subtree sums                                                            *)

AddNode(v, u, s) ==
  [first |-> Append(u.first, Min({s} \cup {u.first[c] : c \in KidsOf(v, s)})),
   work  |-> Append(u.work, v.work[s] + SumFunctionOnSet(u.work, KidsOf(v, s)))]

SubtreeSums(v) == FoldLeft(LAMBDA u, s : AddNode(v, u, s), [first |-> <<>>, work |-> <<>>], Nodes(v))

TreeWith(v, u) == [v |-> v, u |-> u, total |-> SumFunctionOnSet(u.work, KidsOf(v, 0))]
TreeOf(v)      == TreeWith(v, SubtreeSums(v))

\* Heavier than the target, total / (4 threads).
Heavy(t, T, s) == PartsPerThread * T * t.u.work[s] > t.total
TopPart(t, T)  == {s \in DOMAIN t.v.work : Heavy(t, T, s)}

\* A finite set in an order: each place has the element that many come before.
Ranked(S, Before(_, _)) ==
  [i \in 1..Cardinality(S) |-> CHOOSE r \in S : Cardinality({q \in S : Before(q, r)}) = i - 1]

-----------------------------------------------------------------------------
(* partition_subtrees: [ranges, top]                                       *)

NoPartition == [ranges |-> <<>>, top |-> {}]

\* The heap's order: by work, then by node.
HeapAbove(t, r, s) ==
  t.u.work[r] > t.u.work[s] \/ (t.u.work[r] = t.u.work[s] /\ r > s)
HeapTop(t, heap)   == CHOOSE s \in heap : \A r \in heap \ {s} : HeapAbove(t, s, r)

\* A turn of its loop: the heaviest node goes to the top part, its children
\* into the heap. The loop ends when the heaviest is light.
SplitTurn(t, T, h) ==
  IF h.heap = {} \/ ~Heavy(t, T, HeapTop(t, h.heap)) THEN h
  ELSE [heap |-> (h.heap \ {HeapTop(t, h.heap)}) \cup KidsOf(t.v, HeapTop(t, h.heap)),
        top  |-> h.top \cup {HeapTop(t, h.heap)}]

SplitHeap(t, T) ==
  FoldLeft(LAMBDA h, s : SplitTurn(t, T, h), [heap |-> KidsOf(t.v, 0), top |-> {}], Nodes(t.v))

RangesOf(t, heap) ==
  [i \in 1..Cardinality(heap) |->
     LET s == Ranked(heap, LAMBDA r, q : HeapAbove(t, r, q))[i] IN <<t.u.first[s], s>>]

PartitionSubtrees(t, T) ==
  IF t.total < MinWork THEN NoPartition
  ELSE LET h == SplitHeap(t, T) IN [ranges |-> RangesOf(t, h.heap), top |-> h.top]

-----------------------------------------------------------------------------
(* partition_tasks                                                         *)

\* A subtree of the partition: not heavy, under a heavy node or none.
IsSubtree(t, T, s) == ~Heavy(t, T, s) /\ (t.v.parent[s] = 0 \/ Heavy(t, T, t.v.parent[s]))
SubtreesOf(t, T) == {s \in DOMAIN t.v.work : IsSubtree(t, T, s)}
SubTotal(t, T)   == SumFunctionOnSet(t.u.work, SubtreesOf(t, T))

WithinGrain(t, T, work) == GrainsPerThread * T * work <= SubTotal(t, T)

\* Mutant: ranges merge across the top fronts between them.
MergesMut(t, T, out, r) == out # <<>> /\ WithinGrain(t, T, Last(out).work + r.work)

\* The range r joins the last one.
Merges(t, T, out, r) ==
  /\ out # <<>>
  /\ Last(out).hi + 1 = r.lo
  /\ WithinGrain(t, T, Last(out).work + r.work)

WithRange(t, T, out, r) ==
  IF Merges(t, T, out, r)
  THEN [out EXCEPT ![Len(out)].hi = r.hi, ![Len(out)].work = @ + r.work]
  ELSE Append(out, r)

WithNode(t, T, out, s) ==
  IF ~IsSubtree(t, T, s) THEN out
  ELSE WithRange(t, T, out, [lo |-> t.u.first[s], hi |-> s, work |-> t.u.work[s]])

MergedTasks(t, T) == FoldLeft(LAMBDA out, s : WithNode(t, T, out, s), <<>>, Nodes(t.v))

\* Heaviest first, ties by the larger last node.
HeavierRange(r, q) == r.work > q.work \/ (r.work = q.work /\ r.hi > q.hi)

PartitionTasks(t, T) ==
  IF t.total < MinWork THEN NoPartition
  ELSE [ranges |-> [i \in DOMAIN MergedTasks(t, T) |->
                      LET r == Ranked(ToSet(MergedTasks(t, T)), HeavierRange)[i] IN <<r.lo, r.hi>>],
        top |-> TopPart(t, T)]

-----------------------------------------------------------------------------
(* The cost model. Costs c: per_thread, per_top_front,                     *)
(* per_split_front_thread and split_cap. A plan k has its critical path    *)
(* times the threads (cp_top), and its cost in parts of a unit (Parts).    *)

\* T times the heaviest path through top nodes; split fronts count work / T.
PathStep(t, T, below, s) ==
  below[s] + (IF t.v.split[s] = "none" THEN T * t.v.work[s] ELSE t.v.work[s])

PathTurn(t, T, p, s) ==
  IF ~Heavy(t, T, s) THEN p
  ELSE IF t.v.parent[s] = 0
  THEN [p EXCEPT !.cp = Max({p.cp, PathStep(t, T, p.below, s)})]
  ELSE [p EXCEPT !.below[t.v.parent[s]] = Max({p.below[t.v.parent[s]], PathStep(t, T, p.below, s)})]

NoPath(t) == [below |-> [s \in DOMAIN t.v.work |-> 0], cp |-> 0]

AlongPaths(t, T) == FoldLeft(LAMBDA p, s : PathTurn(t, T, p, s), NoPath(t), Nodes(t.v))

WorkOf(t, S) == SumFunctionOnSet(t.v.work, S)
Tiled(t, T)  == {s \in TopPart(t, T) : t.v.split[s] = "tiles"}

\* factor_plan_terms for T threads.
PlanTerms(t, T) ==
  [threads |-> T, ok |-> Len(MergedTasks(t, T)) >= 2, sub_total |-> SubTotal(t, T),
   max_subtree |-> Max({0} \cup {r.work : r \in ToSet(MergedTasks(t, T))}),
   top_total |-> WorkOf(t, TopPart(t, T)), cp_top |-> AlongPaths(t, T).cp,
   top_fronts |-> Cardinality(TopPart(t, T)), split_top_fronts |-> Cardinality(Tiled(t, T)),
   split_top_work |-> WorkOf(t, Tiled(t, T))]

\* 1, the powers of two below max_threads, and max_threads.
CandidateThreads(max) == {1} \cup {T \in 2..max : T = max \/ \E i \in 1..T : T = 2^i}

Capped(T, c)   == Min({T, Max({1, c.split_cap})})
Parts(k, c)    == k.threads * Capped(k.threads, c)
TopTime(k, c)  ==
  Max({k.cp_top * Capped(k.threads, c),
       (k.top_total - k.split_top_work) * Capped(k.threads, c) + k.split_top_work * k.threads})
Overheads(k, c) == k.threads * c.per_thread + k.top_fronts * c.per_top_front
                   + k.split_top_fronts * k.threads * c.per_split_front_thread

\* factor_plan_cost of T > 1 threads.
PlanCost(k, c) ==
  <<Max({k.max_subtree * Parts(k, c), k.sub_total * Capped(k.threads, c)})
      + TopTime(k, c) + Overheads(k, c) * Parts(k, c),
    Parts(k, c)>>

\* x is at most 2% more than y.
Near(x, y) == 50 * x[1] * y[2] <= 51 * y[1] * x[2]

\* least_cost_threads: the fewest threads within 2% of the least cost, of those
\* whose cost is not negative.
LeastCost(costs) ==
  LET valid == {k \in costs : k.cost[1] >= 0}
      near  == {k \in valid : \A q \in valid : Near(k.cost, q.cost)}
  IN (CHOOSE k \in near : \A q \in near : k.threads <= q.threads).threads

CandidateCosts(t, max, c) ==
  {[threads |-> 1, cost |-> <<t.total, 1>>]}
  \cup {[threads |-> T, cost |-> PlanCost(PlanTerms(t, T), c)] :
          T \in {q \in CandidateThreads(max) \ {1} :
                   t.total >= MinWork /\ t.total > 0 /\ PlanTerms(t, q).ok}}

PlanThreads(t, max, c) == LeastCost(CandidateCosts(t, max, c))

\* plan_is_serial: no thread count but one can be chosen.
PlanIsSerial(total, c) ==
  \/ total < MinWork \/ total <= 0
  \/ /\ c.per_thread >= 0 /\ c.per_top_front >= 0 /\ c.per_split_front_thread >= 0
     /\ total <= 4 * c.per_thread

=============================================================================
