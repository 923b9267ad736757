----------------------------- MODULE Refinement -----------------------------
(***************************************************************************)
(* Iterative refinement (refinement.cpp): classical steps, FGMRES with the *)
(* factor as the preconditioner, and Auto, which begins with the first and *)
(* escalates to the second.                                                *)
(*                                                                         *)
(* A column of x is its two backward errors: eta in units of a half of     *)
(* kTargetEtaInf, omega of a half of kTargetOmega; the static target       *)
(* refine_omega_target is one unit.  What a step makes of a column is any  *)
(* of Metrics, or an iterate whose errors cannot be computed.              *)
(***************************************************************************)
EXTENDS Integers, FiniteSets, FiniteSetsExt

CONSTANTS
  Metrics,   \* the backward errors an iterate may have: records [eta, omega]
  RefineColumns,
  Settings   \* the Controls and factors refined with

ASSUME RefineAssumption ==
  RefineColumns \in Nat \ {0} /\ Metrics \subseteq [eta : Nat, omega : Nat]
ASSUME SettingsAssumption ==
  Settings \subseteq [method : {"Classical", "Fgmres", "Auto"}, static_path : BOOLEAN,
                      grown : BOOLEAN, static_pivots : BOOLEAN, refinement_max_iters : Nat,
                      refine_max_steps : Nat, fgmres_restart : Nat]

MetricGate == 2   \* kTargetEtaInf and kTargetOmega
RCols == 1 .. RefineColumns

VARIABLES
  set,        \* the call's settings
  rpc,        \* where the call is
  xr,         \* each column's backward errors
  start,      \* x as the caller gave it
  iter,       \* classical steps taken
  stagnated,  \* stagnated_steps
  column,     \* fgmres_refine's column
  used,       \* the column's iterations
  most,       \* the most any column used
  inner, cycle_len,  \* the cycle's iteration and its length
  improved, forced_only,
  result      \* RefinementResult

refineVars == <<set, rpc, xr, start, iter, stagnated, column, used, most, inner, cycle_len,
                improved, forced_only, result>>

\* The errors of all columns, as refine_core measures and reports them.
Worst(v) == [eta |-> Max({v[i].eta : i \in RCols}), omega |-> Max({v[i].omega : i \in RCols})]

metric_score(e) == Max({e.eta, e.omega})
meets_gate(e)   == e.eta <= MetricGate /\ e.omega <= MetricGate
omega_target    == IF set.static_path THEN 1 ELSE MetricGate
reached(e)      == e.eta <= MetricGate /\ e.omega <= omega_target
force_step      == set.static_path /\ set.grown
NoResult        == [status |-> "none", iterations |-> 0, errors |-> 0]

RefineInit ==
  /\ set \in Settings
  /\ xr \in [RCols -> Metrics] /\ start = xr
  /\ rpc = "begin"
  /\ iter = 0 /\ stagnated = 0 /\ column = 0 /\ used = 0 /\ most = 0 /\ inner = 0 /\ cycle_len = 0
  /\ improved = FALSE /\ forced_only = FALSE
  /\ result = NoResult

Report(n, v) ==
  /\ rpc' = "done"
  /\ result' = [status |-> IF meets_gate(Worst(v)) THEN "Success" ELSE "MaxIterations",
                iterations |-> n, errors |-> Worst(v)]

-----------------------------------------------------------------------------

\* refine_core: nothing to do, no steps allowed, or one of the methods.
RefineBegin ==
  /\ rpc = "begin"
  /\ \/ rpc' = "done" /\ result' = [NoResult EXCEPT !.status = "IllegalValue"]   \* x or b not finite
     \/ /\ (reached(Worst(xr)) /\ ~force_step) \/ set.refinement_max_iters = 0
        /\ Report(0, xr)
     \/ /\ ~(reached(Worst(xr)) /\ ~force_step) /\ set.refinement_max_iters # 0
        /\ rpc' = IF set.method = "Fgmres" THEN "fgmres" ELSE "classical"
        /\ UNCHANGED result
  /\ UNCHANGED <<set, xr, start, iter, stagnated, column, used, most, inner, cycle_len, improved, forced_only>>

Cap == IF set.method = "Auto" THEN Min({set.refinement_max_iters, set.refine_max_steps})
       ELSE set.refinement_max_iters

\* classical_refine is over: FGMRES takes what is left of the budget, or
\* the best iterate is the answer.
ClassicalOver(v, escalate) ==
  /\ IF set.method = "Auto" /\ escalate /\ iter' < set.refine_max_steps
     THEN rpc' = "fgmres" /\ UNCHANGED result
     ELSE Report(iter', v)
  /\ xr' = v
  /\ UNCHANGED stagnated

\* x is left at the best iterate.
Best(cand) == xr

\* The step improved the score: go on, stop, or escalate.
Improved(cand) ==
  LET old == metric_score(Worst(xr))  new == metric_score(Worst(cand))
      slow == IF 100 * new > 85 * old THEN stagnated + 1 ELSE 0
  IN
  \/ reached(Worst(cand)) /\ ClassicalOver(cand, FALSE)
  \/ /\ ~reached(Worst(cand)) /\ set.method = "Auto"
     /\ IF 2 * new > old \/ (set.static_pivots /\ iter' >= Min({3, Cap}))
        THEN ClassicalOver(cand, TRUE)
        ELSE IF iter' = Cap THEN ClassicalOver(cand, FALSE)
        ELSE xr' = cand /\ UNCHANGED <<rpc, stagnated, result>>
  \/ /\ ~reached(Worst(cand)) /\ set.method = "Classical"
     /\ IF slow >= 2 \/ iter' = Cap THEN ClassicalOver(cand, FALSE)
        ELSE xr' = cand /\ stagnated' = slow /\ UNCHANGED <<rpc, result>>

\* x + M^-1 r for all columns in one solve.
ClassicalStep ==
  /\ rpc = "classical" /\ iter < Cap
  /\ iter' = iter + 1
  /\ \/ ClassicalOver(xr, FALSE)               \* the solve failed, or r is not finite
     \/ \E cand \in [RCols -> Metrics] :
          IF metric_score(Worst(cand)) < metric_score(Worst(xr)) THEN Improved(cand)
          ELSE ClassicalOver(Best(cand), ~reached(Worst(xr)))
  /\ UNCHANGED <<set, start, column, used, most, inner, cycle_len, improved, forced_only>>

NoSteps ==
  /\ rpc = "classical" /\ Cap = 0
  /\ Report(0, xr)
  /\ UNCHANGED <<set, xr, start, iter, stagnated, column, used, most, inner, cycle_len, improved, forced_only>>

-----------------------------------------------------------------------------
(* FGMRES                                                                  *)

Budget == set.refine_max_steps - iter

\* fgmres_column begins on the next column, or all are done.
NextColumn ==
  /\ rpc = "fgmres"
  /\ IF column = RefineColumns
     THEN /\ Report(iter + Max({most, used}), xr)
          /\ UNCHANGED <<column, used, most, forced_only>>
     ELSE /\ column' = column + 1 /\ used' = 0 /\ most' = Max({most, used})
          /\ forced_only' = reached(xr[column + 1])
          /\ rpc' = IF Budget <= 0 \/ (forced_only' /\ ~(force_step /\ iter = 0)) THEN "fgmres" ELSE "cycle"
          /\ UNCHANGED result
  /\ UNCHANGED <<set, xr, start, iter, stagnated, inner, cycle_len, improved>>

\* A restart from the best iterate, whose residual must not be zero.
Cycle ==
  /\ rpc = "cycle"
  /\ \/ rpc' = "fgmres"
     \/ rpc' = IF used < Budget THEN "arnoldi" ELSE "fgmres"
  /\ inner' = 0 /\ cycle_len' = Min({Max({1, set.fgmres_restart}), Budget - used})
  /\ improved' = FALSE
  /\ UNCHANGED <<set, xr, start, iter, stagnated, column, used, most, forced_only, result>>

\* Mutant: an iterate is accepted without looking at the score.
BetterMut(cand, old) == TRUE

Better(cand, old) == metric_score(cand) < metric_score(old)

\* One solve; the iterate is formed and measured.  It is not accepted when it
\* has grown past x_limit or cannot be measured.
Arnoldi ==
  /\ rpc = "arnoldi"
  /\ used' = used + 1 /\ inner' = inner + 1
  /\ \/ /\ rpc' = "fgmres"      \* stop: the solve failed, or no direction came of it
        /\ UNCHANGED <<xr, improved>>
     \/ \E cand \in Metrics, accepted, breakdown \in BOOLEAN :
          LET ok == accepted /\ Better(cand, xr[column]) IN
          /\ xr' = IF ok THEN [xr EXCEPT ![column] = cand] ELSE xr
          /\ improved' = (improved \/ ok)
          /\ rpc' = IF forced_only \/ (ok /\ reached(cand)) THEN "fgmres"
                    ELSE IF breakdown \/ inner' = cycle_len THEN (IF improved' THEN "cycle" ELSE "fgmres")
                    ELSE "arnoldi"
  /\ UNCHANGED <<set, start, iter, stagnated, column, most, cycle_len, forced_only, result>>

RefineNext == RefineBegin \/ ClassicalStep \/ NoSteps \/ NextColumn \/ Cycle \/ Arnoldi

-----------------------------------------------------------------------------
(* Properties                                                              *)

\* What refine() reports are the backward errors of the x it leaves, which is
\* never worse than the x it was given, whichever phase ended it and why.
RefineHonest ==
  rpc = "done" /\ result.status # "IllegalValue" =>
    /\ result.errors = Worst(xr)
    /\ metric_score(Worst(xr)) <= metric_score(Worst(start))
    /\ result.status = "Success" <=> meets_gate(Worst(xr))

\* The steps stay within the budget across the two phases, restarts and
\* columns; a statically pivoted factor that grew takes one at least.
RefineBudget ==
  rpc = "done" /\ result.status # "IllegalValue" =>
    /\ result.iterations <= IF set.method = "Classical" THEN set.refinement_max_iters ELSE set.refine_max_steps
    /\ force_step /\ set.refinement_max_iters > 0
       /\ (set.method = "Classical" \/ (set.method = "Auto" /\ set.refine_max_steps > 0))
         => result.iterations >= 1

\* What refine() returns is true of the x it leaves, within its budget.
RefineSound == RefineHonest /\ RefineBudget

=============================================================================
