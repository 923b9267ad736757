---- MODULE MCSolvePhase ----
(* Two subtrees under a top of three fronts, a pool of the caller and one  *)
(* worker, two callers, two columns; refinement by every method with and   *)
(* without the static path, with no budget and with three steps.           *)
EXTENDS SolvePhase

MCSub == <<<<1, 2>>, <<3>>>>
MCTop == <<5, 6, 7>>
MCParent == [f \in 5 .. 7 |-> IF f = 7 THEN 0 ELSE 7]
MCExt == [f \in {1, 2, 3, 5, 6, 7} |->
            CASE f = 1 -> {2, 5} [] f = 2 -> {5, 7} [] f = 3 -> {6, 7}
              [] f \in {5, 6} -> {7} [] OTHER -> {}]

MCPrograms == {<<>>, <<"Full">>}

E(eta, omega) == [eta |-> eta, omega |-> omega]
MCMetrics == {E(1, 1), E(1, 2), E(2, 5), E(7, 1), E(2, 8)}
MCSettings ==
  {s \in [method : {"Classical", "Fgmres", "Auto"}, static_path : BOOLEAN, grown : BOOLEAN,
          static_pivots : BOOLEAN, refinement_max_iters : {0, 3}, refine_max_steps : {0, 3},
          fgmres_restart : {2}] :
     s.grown => s.static_path}
====
