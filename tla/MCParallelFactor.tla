-------------------------- MODULE MCParallelFactor --------------------------
(* An instance of ParallelFactor for TLC: a tree whose partition for two   *)
(* threads has the tasks {4}, {3}, {1} and the top fronts 2 (above 1) and  *)
(* 5 (the root), so that tasks come after a top front in postorder; and    *)
(* every postorder forest of five fronts for the plan alone.               *)
EXTENDS ParallelFactor

MCProj == <<4, 3>>

Untiled == [f \in 1..5 |-> "none"]
View(parent, work, split) == [parent |-> parent, work |-> work, split |-> split]
MainView == View([f \in 1..5 |-> CASE f = 1 -> 2 [] f = 5 -> 0 [] OTHER -> 5],
                 <<1, 3, 1, 1, 1>>, Untiled)

Costs(thread, front, split) ==
  [per_thread |-> thread, per_top_front |-> front, per_split_front_thread |-> split, split_cap |-> 2]
NoCosts == Costs(0, 0, 0)

NoneNeg == [f \in 1..5 |-> 0]

Scenario(view, want, auto, costs, budget, work, neg, broken, limit) ==
  [view |-> view, want |-> want, auto |-> auto, costs |-> costs, budget |-> budget,
   work |-> work, neg |-> neg, broken |-> broken, limit |-> limit]

\* Delayed pivots in some fronts: two more units of work in each.
Delayed(s) == [f \in 1..5 |-> MainView.work[f] + IF f \in s THEN 2 ELSE 0]

WorkScenarios ==
  {Scenario(MainView, 2, FALSE, NoCosts, FALSE, Delayed(s), NoneNeg, {}, "work") : s \in SUBSET (1..5)}

\* Negative pivots in some fronts, and perhaps a front whose D is not finite.
NegativeScenarios ==
  {Scenario(MainView, 2, FALSE, NoCosts, FALSE, MainView.work,
            [f \in 1..5 |-> IF f \in s THEN 1 ELSE 0], b, "negatives")
     : s \in SUBSET {1, 3, 5}, b \in {{}, {4}}}

-----------------------------------------------------------------------------
(* The plan's trees                                                        *)

\* The ancestors of front f, itself included.
Above(parent, f) ==
  LET up[k \in 0..5] == IF k = 0 THEN {f} ELSE up[k - 1] \cup {parent[g] : g \in up[k - 1] \ {0}}
  IN up[5]

\* A postorder: the fronts between one and its parent are below the parent.
Forests ==
  {p \in [1..5 -> 0..5] :
     /\ \A f \in 1..5 : p[f] = 0 \/ p[f] > f
     /\ \A f \in 1..5 : \A g \in 1..5 :
          p[f] # 0 /\ f < g /\ g < p[f] => p[f] \in Above(p, g)
     /\ \A f, g \in 1..5 : f < g /\ p[f] = 0 => g \notin {p[f]}}

Works  == {w \in [1..5 -> {1, 2, 4}] : \A f \in 1..5 : w[f] = 2 => f \in {2, 4}}
Splits == {Untiled, [f \in 1..5 |-> IF f = 5 THEN "tiles" ELSE "blas"]}

\* One thread, for the plan alone.
PlanScenarios ==
  {Scenario(View(p, w, s), 1, TRUE, c, FALSE, w, NoneNeg, {}, "none")
     : p \in Forests, w \in Works, s \in Splits, c \in {NoCosts, Costs(2, 1, 0)}}

\* The thread count chosen by cost, and the budget's partition.
ChosenScenarios ==
  {Scenario(View(MainView.parent, w, Untiled), want, TRUE, c, b, w, NoneNeg, {}, "none")
     : w \in {<<1, 1, 1, 1, 1>>, <<1, 3, 1, 1, 1>>, <<4, 1, 4, 4, 1>>}, want \in {1, 2},
       c \in {NoCosts, Costs(1, 0, 0)}, b \in BOOLEAN}

MCScenarios == WorkScenarios \cup NegativeScenarios \cup PlanScenarios \cup ChosenScenarios

=============================================================================
