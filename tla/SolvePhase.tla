----------------------------- MODULE SolvePhase -----------------------------
(***************************************************************************)
(* The solve phase: callers solving through one slack factor at once       *)
(* (SlackSolve), one of them, Parallel, with a SolveWorkspace whose pool   *)
(* runs the full factor's triangular solves (TreeSolve); or a refinement   *)
(* on its own (Refinement), whose solves may fail at any step.             *)
(***************************************************************************)
EXTENDS TreeSolve, SlackSolve, Refinement

CONSTANT Parallel   \* the caller whose Control::num_threads is above one

VARIABLE call       \* which call is made: "solve" or "refine"

solveVars == <<poolVars, treeVars, slackVars>>
vars == <<call, solveVars, refineVars>>

Idle(c) == spc[c] = "gate" /\ jobs[c] = <<>>

Init ==
  /\ TreeInit /\ SlackInit /\ RefineInit
  /\ \/ /\ call = "solve" /\ \A c \in Callers : ~Idle(c)
        /\ set = (CHOOSE s \in Settings : TRUE) /\ xr = (CHOOSE v \in [RCols -> Metrics] : TRUE)
     \/ call = "refine" /\ ~analysed /\ ~checked /\ \A c \in Callers : Idle(c) /\ ~cont[c]

-----------------------------------------------------------------------------

\* solve_core of the parallel caller on a factor that large is the tree's
\* forward and backward solve; it returns at the end of that.
InTree == spc[Parallel] = "core" /\ Refusal(Parallel) = "Success"

SolveTree ==
  /\ UNCHANGED <<slackVars, refineVars>>
  /\ \/ InTree /\ Start
     \/ Idle(Parallel) /\ End
     \/ Return \/ CallerWaits
     \/ \E w \in Workers : Worker(w)
     \/ \E t \in Threads : ShareStep(t)

Caller(c) ==
  /\ SlackStep(c)
  /\ c = Parallel /\ InTree => stage = "end"
  /\ UNCHANGED <<poolVars, treeVars, refineVars>>

Next ==
  /\ UNCHANGED call
  /\ \/ call = "solve" /\ (SolveTree \/ \E c \in Callers : Caller(c))
     \/ call = "refine" /\ RefineNext /\ UNCHANGED solveVars

\* Each thread is scheduled: the pool's, and the callers'.
Fairness ==
  /\ WF_vars(call = "solve" /\ UNCHANGED <<call, slackVars, refineVars>>
             /\ ((InTree /\ Start) \/ (Idle(Parallel) /\ End) \/ Return \/ CallerWaits))
  /\ \A w \in Workers : WF_vars(Worker(w) /\ UNCHANGED <<call, slackVars, refineVars>>)
  /\ \A t \in Threads : WF_vars(ShareStep(t) /\ UNCHANGED <<call, slackVars, refineVars>>)
  /\ \A c \in Callers : WF_vars(Caller(c) /\ UNCHANGED call)
  /\ WF_vars(RefineNext /\ call = "refine" /\ UNCHANGED <<call, solveVars>>)

Spec == Init /\ [][Next]_vars /\ Fairness

-----------------------------------------------------------------------------

\* Every call returns, whoever waits on the pool, on full_mu or on the other
\* callers' factorization, and refinement ends; then the pool's threads are
\* joined.
SolvesEnd == <>(\/ rpc = "done"
                \/ (\A c \in Callers : Idle(c)) /\ (stage = "end" => cpc = "destroyed") /\ call = "solve")

=============================================================================
