----------------------------- MODULE IpmSession -----------------------------
(***************************************************************************)
(* IpmSession (solver/src/ipm_session.cpp, include/smf/ipm_session.hpp):   *)
(* one KKT pattern factorized repeatedly by an interior-point method, with *)
(* inertia learning and early abort (feature 1), re-analysis from the      *)
(* realized pivot order under probation (feature 2), and the refinement    *)
(* matrix of the static modes (feature 3). The session is sequential: an   *)
(* action is one call of its interface.                                    *)
(*                                                                         *)
(* What a numeric factorization can return (Solver::factor) is a set of    *)
(* outcomes; numbers are kept as far as a decision reads them. Both        *)
(* features are on. An analysis is named by the call that made it; 0 is    *)
(* none.                                                                   *)
(***************************************************************************)
EXTENDS Integers

CONSTANTS
  Banded,          (* the ordering is AutoParallel and the pattern banded: a *)
                   (* positive definite factor takes the band form           *)
  MinGap,          (* reanalyse_min_gap                                      *)
  DelayThreshold,  (* reanalyse_delay_frac * n                               *)
  MaxNeg,          (* bound: negative pivots of a factor                     *)
  MaxDelays,       (* bound: delayed pivots of a factor                      *)
  MaxCalls,        (* bound: calls of analyse() and factor()                 *)
  ScaledCalls      (* bound: calls up to which the caller sets user scales   *)

ASSUME BandedAssumption == Banded \in BOOLEAN
ASSUME BoundsAssumption ==
  {MinGap, DelayThreshold, MaxNeg, MaxDelays, MaxCalls, ScaledCalls} \subseteq Nat

VARIABLES
  gen,        (* factor_generation_                                          *)
  pattern,    (* mat_ holds a pattern                                        *)
  mat,        (* the call that loaded mat_'s values                          *)
  mode,       (* static_mode: off (or Fallback), regularized                 *)
  ctrl,       (* ctrl_: [spd, scale], scale the call a user scale is for     *)
  once,       (* user_scale_once_                                            *)
  fctrl,      (* factor_ctrl_, with its copy of the scale                    *)
  ak, prev,   (* the analysis, and the one kept in reserve                   *)
  planned,    (* the analyses that own a slack plan                          *)
  fk,         (* [analysis, slack, status, values, band, neg, static,        *)
              (* posdef]: values and band name the call (and control) each   *)
              (* array is a factor of, neg its negative pivots (-1: none)    *)
  info,       (* info_: [neg, delays]                                        *)
  prevInfo,   (* prev_info_                                                  *)
  expected,   (* expected_neg_, -1: none                                     *)
  solvable, aborted, pending, lastSpd,
  re,         (* re-analysis: [armed, delays, last, probation, bound,        *)
              (* revert, stopped]                                            *)
  stats,      (* [factorizations, tried, reverted]                           *)
  refine,     (* refine_mat_: [ready, gen, of], of the call of its values    *)
  last,       (* history: the last call of factor(), its values and control  *)
  answer,     (* history: the factor the last successful solve used, and the *)
              (* values it was refined against (0: not refined)              *)
  accepted    (* history: the negatives of the last accepted factor          *)

numeric == <<fk, info, solvable, aborted, pending, lastSpd>>
history == <<re, stats, expected, accepted>>
anvars  == <<ak, prev, planned, prevInfo>>
vars    == <<gen, pattern, mat, mode, ctrl, once, fctrl, anvars, numeric, history, refine, last,
             answer>>

-----------------------------------------------------------------------------
PlainCtrl == [spd |-> FALSE, scale |-> 0]
NoFactor  == [call |-> 0, ctrl |-> PlainCtrl]
NoAnswer  == [solved |-> FALSE, of |-> NoFactor, against |-> 0]
NoInfo    == [neg |-> 0, delays |-> 0]

EmptyKeep == [analysis |-> 0, slack |-> FALSE, status |-> "Success", values |-> NoFactor,
              band |-> NoFactor, neg |-> -1, static |-> FALSE, posdef |-> FALSE]
NoHistory == [armed |-> FALSE, delays |-> 0, last |-> -1, probation |-> FALSE, bound |-> 0,
              revert |-> FALSE, stopped |-> FALSE]
NoStats   == [factorizations |-> 0, tried |-> 0, reverted |-> 0]
NoRefine  == [ready |-> FALSE, gen |-> -1, of |-> 0]

regularized == mode = "regularized"

Init ==
  /\ gen = 0 /\ pattern = FALSE /\ mat = 0 /\ mode = "off"
  /\ ctrl = PlainCtrl /\ once = FALSE /\ fctrl = PlainCtrl
  /\ ak = 0 /\ prev = 0 /\ planned = {} /\ prevInfo = NoInfo
  /\ fk = EmptyKeep /\ info = NoInfo
  /\ solvable = FALSE /\ aborted = FALSE /\ pending = FALSE /\ lastSpd = FALSE
  /\ re = NoHistory /\ stats = NoStats /\ expected = -1 /\ accepted = -1
  /\ refine = NoRefine /\ last = NoFactor /\ answer = NoAnswer

-----------------------------------------------------------------------------
(* analyse(), set_control(), set_user_scale()                              *)

\* run_analysis(): it fails, or makes an analysis, which has a slack plan
\* only under an auto ordering (not AMD, the regularized mode's).
Analysis(m, call, a, plans) ==
  \/ a = 0 /\ plans = {}
  \/ a = call /\ (plans = {} \/ (plans = {a} /\ m # "regularized"))

\* A new pattern starts a new history. The values may come now or with the
\* first factor().
Analyse ==
  /\ gen < MaxCalls
  /\ gen' = gen + 1
  /\ \E c \in {PlainCtrl, [PlainCtrl EXCEPT !.spd = TRUE]} : ctrl' = c /\ fctrl' = c
  /\ mode' \in {"off", "regularized"}
  /\ once' = FALSE
  /\ fk' = EmptyKeep /\ info' = NoInfo /\ prev' = 0 /\ prevInfo' = NoInfo
  /\ re' = NoHistory /\ stats' = NoStats /\ expected' = -1 /\ accepted' = -1
  /\ solvable' = FALSE /\ aborted' = FALSE /\ pending' = FALSE /\ lastSpd' = FALSE
  /\ pattern' \in BOOLEAN
  /\ \E given \in BOOLEAN :
       IF pattern' /\ given
       THEN mat' = gen' /\ Analysis(mode', gen', ak', planned')
       ELSE mat' = 0 /\ ak' = 0 /\ planned' = {}
  /\ refine' = [NoRefine EXCEPT !.ready = pattern' /\ mode' = "regularized", !.gen = refine.gen]
  /\ last' = NoFactor /\ answer' = NoAnswer

SetControl ==
  /\ \E spd \in BOOLEAN : ctrl' = [spd |-> spd, scale |-> 0]
  /\ once' = FALSE
  /\ answer' = NoAnswer
  /\ UNCHANGED <<gen, pattern, mat, mode, fctrl, anvars, numeric, history, refine, last>>

\* The scale is the caller's, for the next call of factor().
SetUserScale ==
  /\ gen < ScaledCalls
  /\ ctrl' = [ctrl EXCEPT !.scale = gen + 1]
  /\ once' = TRUE
  /\ answer' = NoAnswer
  /\ UNCHANGED <<gen, pattern, mat, mode, fctrl, anvars, numeric, history, refine, last>>

-----------------------------------------------------------------------------
(* Solver::factor into fk of analysis a, with control c and a limit on the *)
(* negative pivots (-1: none): what it leaves in the FactorKeep and Info   *)

\* Whether the factor may go through the slack plan (factor_slack).
SlackArmed(a, c, limit, p) == a \in p /\ ~c.spd /\ c.scale = 0 /\ limit < 0

\* error: info.status, told apart only where it is read.
Outcome(keep, neg, delays, error) ==
  [fk |-> keep, info |-> [neg |-> neg, delays |-> delays], error |-> error]

\* The FactorKeep as it enters a factorization, once it points at analysis a,
\* as an error leaves it, and as a factor fills it.
Entered(k) == [k EXCEPT !.slack = FALSE, !.neg = -1]

BegunIndef(k, a) == [Entered(k) EXCEPT !.analysis = a, !.static = FALSE, !.posdef = FALSE]

BegunPosdef(k, a) ==
  [Entered(k) EXCEPT !.analysis = a, !.static = FALSE, !.posdef = TRUE, !.band = NoFactor]

Failed(k, s) == [k EXCEPT !.status = s, !.values = NoFactor]

Filled(k, s, of, g, path) ==
  [k EXCEPT !.status = s, !.values = of, !.neg = g, !.static = (path = "static"),
            !.slack = (path = "slack")]

\* A band factor leaves the multifrontal factor's array as it was.
FilledBand(k, of) == [k EXCEPT !.status = "Success", !.band = of]

\* Where a factor that fails before its engine begins may point: a reduced
\* factor of the slack plan ran first.
Pointed(k, a, plan) == {Entered(k)} \cup (IF plan THEN {BegunIndef(k, a)} ELSE {})

\* factor_indef: an error before the engine runs,
EarlyErrors(a, k, i, plan) ==
  {Outcome(Failed(x, "Singular"), i.neg, 0, e) :
     x \in Pointed(k, a, plan), e \in {"SingularMatrix", "IllegalValue"}}

\* a stop at the limit,
Stops(a, k, limit) ==
  {Outcome(Failed(BegunIndef(k, a), "InertiaExceeded"), g, d, "InertiaExceeded") :
     g \in IF limit < 0 THEN {} ELSE (limit + 1)..(MaxNeg + 1), d \in 0..MaxDelays}

\* a factor of the whole matrix,
WholeFactors(a, k, limit, of) ==
  {Outcome(Filled(BegunIndef(k, a), s, of, g, path), g, d,
           IF s = "Success" THEN s ELSE "SingularMatrix") :
     s \in {"Success", "Singular"}, path \in {"plain", "static"},
     g \in 0..(IF limit < 0 THEN MaxNeg ELSE limit), d \in 0..MaxDelays}

\* a factor through the slack plan,
PlanFactors(a, k, of, plan) ==
  {Outcome(Filled(BegunIndef(k, a), "Success", of, g, "slack"), g, d, "Success") :
     g \in IF plan THEN 0..MaxNeg ELSE {}, d \in 0..MaxDelays}

\* or an error of the engine's.
IndefOutcomes(a, c, limit, p, k, i, of) ==
  LET plan == SlackArmed(a, c, limit, p)
  IN  EarlyErrors(a, k, i, plan) \cup Stops(a, k, limit) \cup WholeFactors(a, k, limit, of)
      \cup PlanFactors(a, k, of, plan)
      \cup {Outcome(Failed(BegunIndef(k, a), "Singular"), i.neg, 0, "IllegalValue")}

\* factor_posdef, which counts no pivots.
PosdefOutcomes(a, k, i, of) ==
  {Outcome(Failed(x, "NotPositiveDefinite"), i.neg, i.delays, "NotPositiveDefinite") :
     x \in {Entered(k), BegunPosdef(k, a)}}
  \cup {Outcome(Filled(BegunPosdef(k, a), "Success", of, -1, "plain"), i.neg, i.delays, "Success")}
  \cup {Outcome(FilledBand(BegunPosdef(k, a), b), i.neg, i.delays, "Success") :
          b \in IF Banded THEN {of} ELSE {}}

Outcomes(a, c, limit, p, k, i, of) ==
  IF c.spd THEN PosdefOutcomes(a, k, i, of) ELSE IndefOutcomes(a, c, limit, p, k, i, of)

-----------------------------------------------------------------------------
(* run_factor(): the factor state, and the end of a probation              *)

\* Mutant: a Singular factor can be solved with whether or not it ran.
UsableMut(a, o) == o.fk.status = "Success" \/ o.error = "SingularMatrix"

Ran(a, o) == o.fk.analysis = a /\ o.fk.values # NoFactor

Usable(a, o) ==
  \/ o.fk.status = "Success"
  \/ o.fk.status = "Singular" /\ o.error = "SingularMatrix" /\ Ran(a, o)

\* Mutant: an adopted analysis that passes its probation leaves the old one.
DropPreviousMut(analysis) == analysis

\* drop_previous_analysis()
DropPrevious(analysis) == 0

\* The numeric state: what prepare_analysis() leaves and run_factor() updates.
Session ==
  [ak |-> ak, prev |-> prev, prevInfo |-> prevInfo, fk |-> fk, info |-> info,
   solvable |-> solvable, aborted |-> aborted, pending |-> pending, lastSpd |-> lastSpd,
   re |-> re, stats |-> stats]

Become(x) ==
  /\ ak' = x.ak /\ prev' = x.prev /\ prevInfo' = x.prevInfo /\ fk' = x.fk /\ info' = x.info
  /\ solvable' = x.solvable /\ aborted' = x.aborted /\ pending' = x.pending
  /\ lastSpd' = x.lastSpd /\ re' = x.re /\ stats' = x.stats

\* The first factor of an adopted analysis that ran in full is judged.
Judged(x, o) == x.re.probation /\ Usable(x.ak, o) /\ Ran(x.ak, o)

Worse(x, o) == o.info.delays > x.re.bound

Judgement(r, worse) ==
  [r EXCEPT !.probation = FALSE, !.revert = @ \/ worse, !.stopped = @ \/ worse]

\* The session x after outcome o of a factorization under control c.
RunFactor(x, c, o) ==
  LET drops == Judged(x, o) /\ ~Worse(x, o)
  IN  [ak       |-> x.ak,
       prev     |-> IF drops THEN DropPrevious(x.prev) ELSE x.prev,
       prevInfo |-> IF drops THEN NoInfo ELSE x.prevInfo,
       fk       |-> o.fk,
       info     |-> o.info,
       solvable |-> Usable(x.ak, o),
       aborted  |-> o.fk.status = "InertiaExceeded",
       pending  |-> Usable(x.ak, o),
       lastSpd  |-> c.spd /\ o.fk.status = "Success",
       re       |-> IF Judged(x, o) THEN Judgement(x.re, Worse(x, o)) ELSE x.re,
       stats    |-> IF Judged(x, o) /\ Worse(x, o) THEN [x.stats EXCEPT !.reverted = @ + 1]
                    ELSE x.stats]

-----------------------------------------------------------------------------
(* factor()                                                                *)

\* No pattern, or a wrong number of values: no factor is left.
FactorRefused ==
  /\ gen < MaxCalls
  /\ gen' = gen + 1
  /\ solvable' = FALSE /\ aborted' = FALSE /\ pending' = FALSE /\ lastSpd' = FALSE
  /\ answer' = NoAnswer
  /\ UNCHANGED <<pattern, mat, mode, ctrl, once, fctrl, anvars, fk, info, history, refine, last>>

\* The values and the control are taken, the user scale once.
TakeCall ==
  /\ gen < MaxCalls /\ pattern
  /\ gen' = gen + 1
  /\ mat' = gen'
  /\ fctrl' = ctrl
  /\ ctrl' = IF once THEN [ctrl EXCEPT !.scale = 0] ELSE ctrl
  /\ once' = FALSE
  /\ last' = [call |-> gen', ctrl |-> ctrl]
  /\ refine' = IF regularized THEN [refine EXCEPT !.of = gen'] ELSE refine
  /\ answer' = NoAnswer
  /\ UNCHANGED <<pattern, mode>>

\* The deferred analysis fails.
AnalysisFails ==
  /\ TakeCall
  /\ ak = 0
  /\ solvable' = FALSE /\ aborted' = FALSE /\ pending' = FALSE /\ lastSpd' = FALSE
  /\ UNCHANGED <<anvars, fk, info, history>>

\* Mutant: the revert frees the adopted analysis under the factor.
RevertedKeepMut == fk

\* The factor forgets the analysis about to be freed.
RevertedKeep == [fk EXCEPT !.analysis = 0]

\* prepare_analysis() with analysis a: a pending revert, or an armed
\* re-analysis, rejected or adopted (the old analysis stays for the
\* probation).
PrepareAnalysis(a) ==
  LET x        == [Session EXCEPT !.ak = a]
      reverted == [x EXCEPT !.ak = prev, !.prev = 0, !.fk = RevertedKeep, !.info = prevInfo,
                            !.prevInfo = NoInfo, !.re.revert = FALSE]
      rejected == [x EXCEPT !.re.armed = FALSE, !.re.last = stats.factorizations + 1,
                            !.stats.tried = @ + 1]
      adopted  == [rejected EXCEPT !.ak = gen + 1, !.prev = a, !.info = NoInfo, !.prevInfo = info,
                                   !.re.probation = TRUE, !.re.bound = re.delays]
  IN  IF re.revert THEN {reverted} ELSE IF re.armed THEN {rejected, adopted} ELSE {x}

\* The limit of an indefinite factor: the learned expectation, or the
\* caller's in its place (a negative one is none).
Limits == IF ctrl.spd THEN {-1} ELSE {expected} \cup -1..MaxNeg

\* factor() under one of the limits.
FactorUnder(limits) ==
  /\ TakeCall
  /\ UNCHANGED <<expected, accepted>>
  /\ \E a \in {ak, gen + 1} \ {0} :
       /\ IF ak # 0 THEN a = ak /\ planned' = planned ELSE Analysis(mode, gen + 1, a, planned')
       /\ \E limit \in limits, x \in PrepareAnalysis(a) :
            LET counted == [x EXCEPT !.stats.factorizations = @ + 1]
            IN  \E o \in Outcomes(x.ak, ctrl, limit, planned', x.fk, x.info, last') :
                  Become(RunFactor(counted, ctrl, o))

Factor == FactorUnder(Limits)

-----------------------------------------------------------------------------
(* solve()                                                                 *)

\* Mutant: an aborted factorization is completed with the current control.
CompletionCtrlMut == ctrl

\* The control of the aborted call.
CompletionCtrl == fctrl

\* The sessions to solve with: an aborted factor is completed first, with no
\* limit.
Completed ==
  IF aborted /\ ak # 0
  THEN {RunFactor(Session, CompletionCtrl, o) :
          o \in Outcomes(ak, CompletionCtrl, -1, planned, fk, info,
                         [call |-> mat, ctrl |-> CompletionCtrl])}
  ELSE {Session}

\* There is no factor to solve with, or Solver::solve fails (a singular
\* factor without continue_on_singular, a wrong argument).
SolveFails ==
  /\ \E x \in Completed : Become(x)
  /\ answer' = NoAnswer
  /\ UNCHANGED <<gen, pattern, mat, mode, ctrl, once, fctrl, planned, expected, accepted, refine, last>>

\* Mutant: the refinement matrix keeps its values for later factors.
StaleMut == FALSE

\* The refinement matrix holds another factor's values.
Stale == refine.gen # gen

\* A refined solve off the regularized mode brings the matrix up to date.
Refreshed == IF ~refine.ready \/ Stale THEN [ready |-> TRUE, gen |-> gen, of |-> mat] ELSE refine

\* Mutant: the next attempt is counted as run in this factorization.
GapPassedMut(r, s) == r.last < 0 \/ s.factorizations + 2 - r.last >= MinGap

\* The attempt would run in the next factorization.
GapPassed(r, s) == r.last < 0 \/ s.factorizations + 1 - r.last >= MinGap

\* consider_reanalysis() arms the next factor().
Arms(x) ==
  /\ ~x.re.stopped /\ ~x.re.probation /\ ~x.re.revert
  /\ ~fctrl.spd
  /\ x.info.delays > DelayThreshold
  /\ GapPassed(x.re, x.stats)
  /\ ~x.fk.slack /\ x.fk.analysis # 0

\* The first successful solve accepts the factor: its inertia is learned.
Accept(x) ==
  IF x.pending
  THEN /\ expected' = IF x.lastSpd THEN expected ELSE x.info.neg
       /\ accepted' = IF x.lastSpd THEN accepted ELSE x.fk.neg
       /\ Become([x EXCEPT !.pending = FALSE,
                           !.re = IF Arms(x) THEN [@ EXCEPT !.armed = TRUE, !.delays = x.info.delays]
                                  ELSE @])
  ELSE Become(x) /\ UNCHANGED <<expected, accepted>>

\* A full solve is refined against the unregularized matrix, or, off the
\* regularized mode, with a static-path factor that forced a pivot.
Refines(x, full) ==
  full /\ (regularized \/ x.fk.static) /\ ~x.fk.posdef /\ x.fk.analysis # 0

\* Solver::solve reads the band form whenever the FactorKeep holds one, which
\* has no partial solves.
Solve ==
  \E x \in Completed, full \in BOOLEAN :
    /\ x.solvable
    /\ x.fk.band # NoFactor => ~x.fk.slack /\ full
    /\ refine' = IF Refines(x, full) /\ ~regularized THEN Refreshed ELSE refine
    /\ answer' = [solved |-> TRUE,
                  of |-> IF x.fk.band # NoFactor THEN x.fk.band ELSE x.fk.values,
                  against |-> IF Refines(x, full) THEN refine'.of ELSE 0]
    /\ Accept(x)
    /\ UNCHANGED <<gen, pattern, mat, mode, ctrl, once, fctrl, planned, last>>

-----------------------------------------------------------------------------
Next ==
  \/ Analyse \/ SetControl \/ SetUserScale
  \/ FactorRefused \/ AnalysisFails \/ Factor
  \/ SolveFails \/ Solve

Spec == Init /\ [][Next]_vars

-----------------------------------------------------------------------------
(* Properties                                                              *)

\* Type correctness: every variable of the session keeps its domain.
TypeOK ==
  LET Call    == 0..MaxCalls
      Control == [spd : BOOLEAN, scale : 0..MaxCalls + 1]
      Factored == [call : Call, ctrl : Control]
      Counts  == [neg : 0..MaxNeg + 1, delays : 0..MaxDelays]
  IN /\ gen \in Call /\ pattern \in BOOLEAN /\ mat \in Call
     /\ mode \in {"off", "regularized"}
     /\ ctrl \in Control /\ fctrl \in Control /\ once \in BOOLEAN
     /\ ak \in Call /\ prev \in Call /\ planned \subseteq 1..MaxCalls
     /\ fk \in [analysis : Call, slack : BOOLEAN,
                status : {"Success", "Singular", "InertiaExceeded", "NotPositiveDefinite"},
                values : Factored, band : Factored, neg : -1..MaxNeg,
                static : BOOLEAN, posdef : BOOLEAN]
     /\ info \in Counts /\ prevInfo \in Counts
     /\ {solvable, aborted, pending, lastSpd} \subseteq BOOLEAN
     /\ re \in [armed : BOOLEAN, delays : 0..MaxDelays, last : -1..MaxCalls,
                probation : BOOLEAN, bound : 0..MaxDelays, revert : BOOLEAN, stopped : BOOLEAN]
     /\ stats \in [factorizations : Call, tried : Call, reverted : Call]
     /\ expected \in -1..MaxNeg /\ accepted \in -1..MaxNeg
     /\ refine \in [ready : BOOLEAN, gen : -1..MaxCalls, of : Call]
     /\ last \in Factored
     /\ answer \in [solved : BOOLEAN, of : Factored, against : Call]

\* The factor's analysis pointer is never left dangling: through re-analyses,
\* probations, reverts, failures and aborts it is null, the analysis, or the
\* one kept in reserve (run_factor(), prepare_analysis(), drop).
FactorAlive == fk.analysis \in {0, ak, prev}

\* An analysis is kept in reserve exactly while the adopted one is on
\* probation or about to be left, and none is armed meanwhile: so the assertion of
\* prepare_analysis() ("no probation is open here") holds, and a revert finds
\* the old analysis.
OneAnalysisInReserve ==
  /\ prev # 0 <=> re.probation \/ re.revert
  /\ ~(re.probation /\ re.revert)
  /\ re.armed => prev = 0 /\ ak # 0
  /\ re.revert => re.stopped

\* What a successful solve() solves with is a complete factor of the values
\* of the last factor(), under that call's control, an aborted one completed
\* included ("Solve with the last factor").
SolvesLastFactor == answer.solved => answer.of = last

\* The expectation that arms the early abort is the negative count of a
\* factor that ran in full and was solved with: never one of an aborted, a
\* failed or a superseded factorization.
LearnsAccepted == expected = accepted

\* A refined solve is refined against the values of the factor it solved
\* with.
RefinesFactored == answer.against \in {0, last.call}

\* Attempts to re-analyse are at least reanalyse_min_gap factorizations apart,
\* and after one was worse there is none until the next analyse().
ReanalysesSpaced ==
  [][stats'.tried > stats.tried =>
       /\ ~re.stopped
       /\ re.last >= 0 => re'.last - re.last >= MinGap]_vars

=============================================================================
