----------------------------- MODULE SlackSolve -----------------------------
(***************************************************************************)
(* Solves through one slack factor, by several callers at once (slack_solve *)
(* of solve.cpp): a full solve with the reduced factor is measured on the  *)
(* full matrix, refined at most SlackRefineSteps times per column, and if  *)
(* a column is still inaccurate the full matrix is factored, once, under   *)
(* full_mu; that factor then answers for the slack factor.                 *)
(*                                                                         *)
(* The buffer b is how far through L, D, L^T it is, and by which factors.  *)
(***************************************************************************)
EXTENDS Integers, Sequences

CONSTANTS
  Callers,
  Programs,          \* the jobs a caller may run on one right-hand side
  Columns,           \* nrhs
  SlackRefineSteps,  \* kSlackRefineSteps
  None

ASSUME SlackAssumption == Columns \in Nat \ {0} /\ SlackRefineSteps \in Nat

VARIABLES
  full,       \* SlackFactor::full: the status of the full factor, or None
  full_error, \* SlackFactor::full_error
  full_mu,    \* the holder of full_mu, or None
  analysed,   \* whether the plan's full analysis can be made
  checked,    \* slack_omega_target > 0 when the matrix was factored
  cont,       \* each caller's continue_on_singular
  spc,        \* where each caller is in slack_solve
  jobs,       \* the jobs a caller has left, the current one first
  b,          \* each caller's buffer
  slack_b,    \* SolveWorkspace::slack_b: the right-hand sides kept
  col, it,    \* the column and refinement step of the accuracy check
  accurate,   \* every column so far is under the target
  by,         \* the factor the current job is solved with
  rc          \* what the caller's last job returned

slackVars == <<full, full_error, full_mu, analysed, checked, cont, spc, jobs, b, slack_b,
               col, it, accurate, by, rc>>
factorVars == <<analysed, checked, cont>>

From == [Full |-> 0, Forward |-> 0, DiagOnly |-> 1, DiagBack |-> 1, Backward |-> 2]
To   == [Full |-> 3, Forward |-> 1, DiagOnly |-> 2, DiagBack |-> 3, Backward |-> 3]

\* A full solve is a program of its own; and None is no status.
ASSUME ProgramsAssumption ==
  /\ \A p \in Programs : /\ p \in Seq(DOMAIN From)
                         /\ p = <<"Full">> \/ \A i \in DOMAIN p : p[i] # "Full"
  /\ None \notin {"Success", "Singular", "MaxPivotDelays"}

Rhs   == [at |-> 0, through |-> {}]
Wrong == [at |-> 4, through |-> {}]

\* solve_core's part of a job: the buffer must be where the job begins.
Through(job, factor, v) ==
  IF v.at = From[job] THEN [at |-> To[job], through |-> v.through \cup {factor}] ELSE Wrong

SlackInit ==
  /\ full = None /\ full_error = "Success" /\ full_mu = None
  /\ analysed \in BOOLEAN /\ checked \in BOOLEAN
  /\ cont \in [Callers -> BOOLEAN]
  /\ jobs \in [Callers -> Programs]
  /\ spc = [c \in Callers |-> "gate"]
  /\ b = [c \in Callers |-> Rhs] /\ slack_b = b
  /\ col = [c \in Callers |-> 1] /\ it = [c \in Callers |-> 0]
  /\ accurate = [c \in Callers |-> TRUE]
  /\ by = [c \in Callers |-> None]
  /\ rc = [c \in Callers |-> "Success"]

Go(c, at) == spc' = [spc EXCEPT ![c] = at]

-----------------------------------------------------------------------------

\* The factor's one gate, read under full_mu.
Gate(c) ==
  /\ spc[c] = "gate" /\ jobs[c] # <<>> /\ full_mu = None
  /\ \/ /\ full # None
        /\ Go(c, "core") /\ by' = [by EXCEPT ![c] = "full"] /\ UNCHANGED rc
     \/ /\ full = None /\ full_error # "Success"
        /\ Go(c, "return") /\ rc' = [rc EXCEPT ![c] = full_error] /\ UNCHANGED by
     \/ /\ full = None /\ full_error = "Success"
        /\ Go(c, "substitute") /\ by' = [by EXCEPT ![c] = "reduced"] /\ UNCHANGED rc
  /\ UNCHANGED <<full, full_error, full_mu, factorVars, jobs, b, slack_b, col, it, accurate>>

\* slack_substitute with a copy of the right-hand sides kept for the check:
\* the reduced factor is always one that succeeded.
Substitute(c) ==
  /\ spc[c] = "substitute"
  /\ b' = [b EXCEPT ![c] = Through(Head(jobs[c]), "reduced", @)]
  /\ IF Head(jobs[c]) = "Full" /\ checked
     THEN /\ Go(c, "omega")
          /\ slack_b' = [slack_b EXCEPT ![c] = b[c]]
          /\ col' = [col EXCEPT ![c] = 1] /\ it' = [it EXCEPT ![c] = 0]
          /\ accurate' = [accurate EXCEPT ![c] = TRUE]
          /\ UNCHANGED rc
     ELSE /\ Go(c, "return") /\ rc' = [rc EXCEPT ![c] = "Success"]
          /\ UNCHANGED <<slack_b, col, it, accurate>>
  /\ UNCHANGED <<full, full_error, full_mu, factorVars, jobs, by>>

\* slack_omega of the column: under the target, or to be refined, or given up.
Omega(c) ==
  /\ spc[c] = "omega"
  /\ \E under \in BOOLEAN :
       IF ~under /\ it[c] < SlackRefineSteps
       THEN /\ it' = [it EXCEPT ![c] = @ + 1]
            /\ UNCHANGED <<spc, col, accurate, rc>>
       ELSE /\ accurate' = [accurate EXCEPT ![c] = @ /\ under]
            /\ it' = [it EXCEPT ![c] = 0]
            /\ IF col[c] < Columns
               THEN col' = [col EXCEPT ![c] = @ + 1] /\ UNCHANGED <<spc, rc>>
               ELSE /\ Go(c, IF accurate'[c] THEN "return" ELSE "full")
                    /\ rc' = [rc EXCEPT ![c] = "Success"]
                    /\ UNCHANGED col
  /\ UNCHANGED <<full, full_error, full_mu, factorVars, jobs, b, slack_b, by>>

LockFull(c) ==
  /\ spc[c] = "full" /\ full_mu = None
  /\ full_mu' = c /\ Go(c, "build")
  /\ UNCHANGED <<full, full_error, factorVars, jobs, b, slack_b, col, it, accurate, by, rc>>

\* Mutant: a caller that waited for the mutex does not look again.
UntriedMut == TRUE

\* Tried once per factor.
Untried == full = None /\ full_error = "Success"

\* The factorization, kept whatever its status.
Build(c) ==
  /\ spc[c] = "build"
  /\ IF Untried /\ analysed
     THEN full' \in {"Success", "Singular", "MaxPivotDelays"} /\ UNCHANGED full_error
     ELSE /\ full_error' = IF Untried THEN "IllegalValue" ELSE full_error
          /\ UNCHANGED full
  /\ full_mu' = None /\ Go(c, "again")
  /\ UNCHANGED <<factorVars, jobs, b, slack_b, col, it, accurate, by, rc>>

\* Mutant: the full factor solves what the reduced one left in the buffer.
GivenBackMut(c) == b[c]

Proceeds(c) == full = "Success" \/ (full # "MaxPivotDelays" /\ cont[c])

\* The right-hand sides back, unless the full factor will refuse them.
GivenBack(c) == IF Proceeds(c) THEN slack_b[c] ELSE b[c]

SolveAgain(c) ==
  /\ spc[c] = "again"
  /\ IF full = None
     THEN /\ rc' = [rc EXCEPT ![c] = full_error] /\ Go(c, "return")
          /\ UNCHANGED <<b, by>>
     ELSE /\ b' = [b EXCEPT ![c] = GivenBack(c)]
          /\ by' = [by EXCEPT ![c] = "full"] /\ Go(c, "core")
          /\ UNCHANGED rc
  /\ UNCHANGED <<full, full_error, full_mu, factorVars, jobs, slack_b, col, it, accurate>>

\* What solve_core refuses before it solves.
Refusal(c) ==
  IF full = "MaxPivotDelays" THEN "WorkLimitExceeded"
  ELSE IF full = "Singular" /\ ~cont[c] THEN "SingularMatrix" ELSE "Success"

\* solve_core on the full factor.
Core(c) ==
  /\ spc[c] = "core"
  /\ rc' = [rc EXCEPT ![c] = Refusal(c)]
  /\ b' = [b EXCEPT ![c] = IF Refusal(c) = "Success" THEN Through(Head(jobs[c]), "full", @) ELSE @]
  /\ Go(c, "return")
  /\ UNCHANGED <<full, full_error, full_mu, factorVars, jobs, slack_b, col, it, accurate, by>>

\* The caller goes on to its next job, unless this one failed.
SlackReturn(c) ==
  /\ spc[c] = "return"
  /\ jobs' = [jobs EXCEPT ![c] = IF rc[c] = "Success" THEN Tail(@) ELSE <<>>]
  /\ Go(c, "gate")
  /\ UNCHANGED <<full, full_error, full_mu, factorVars, b, slack_b, col, it, accurate, by, rc>>

SlackStep(c) ==
  \/ Gate(c) \/ Substitute(c) \/ Omega(c) \/ LockFull(c) \/ Build(c)
  \/ SolveAgain(c) \/ Core(c) \/ SlackReturn(c)

-----------------------------------------------------------------------------
(* Properties                                                              *)

\* A full solve that returns success solves the caller's right-hand side,
\* from its beginning and with one factor, and one it was entitled to: the
\* reduced factor only if it measured accurate or was not to be measured; a
\* refused one leaves the refined solution (the copy-back of slack_solve).
FullSolveIsHonest ==
  \A c \in Callers : spc[c] = "return" /\ jobs[c] = <<"Full">> =>
    /\ rc[c] = "Success" => b[c].at = 3 /\ b[c].through = {by[c]}
    /\ rc[c] = "Success" /\ by[c] = "reduced" => ~checked \/ accurate[c]
    /\ rc[c] # "Success" => b[c].at \in {0, 3}

\* The full factor is made once, by whichever caller needs it first, and no
\* caller sees another one afterwards (full_mu, "tried once per factor").
BuiltOnce == [][full # None => full' = full]_slackVars

=============================================================================
