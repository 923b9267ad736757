----------------------------- MODULE Ma97Plugin -----------------------------
(***************************************************************************)
(* The MA97 plugin (solver/src/smf_ma97_plugin.cpp, with the decisions of  *)
(* include/smf/ipopt_plugin_control.hpp): IPOPT's calls on one akeep and   *)
(* the fkeep handles factored from it, composed with the IpmSession they   *)
(* share. A call of the interface is a sequence of calls of the session,   *)
(* each an action of IpmSession.                                           *)
(*                                                                         *)
(* One session at a time: a new akeep waits for the handles of the old one *)
(* to be freed (IPOPT frees both before it analyses again). A scale vector *)
(* is named by the factorization that computed it, 0 is the unit scale, -1 *)
(* one the caller kept from an earlier akeep.                              *)
(* SMF_IPM_ABORT and SMF_STALE_SCALE_RETRY are on.                         *)
(***************************************************************************)
EXTENDS IpmSession

CONSTANT Handles        (* the fkeep pointers of the caller                *)

VARIABLES
  akeep,      (* the caller holds an akeep                                 *)
  handle,     (* per fkeep: NoHandle, or [spd, first, generation, num_neg, *)
              (* aborted], first the session's first factorization of the  *)
              (* call that made it                                         *)
  scale,      (* the scale vector of the caller                            *)
  rejects,    (* the analysis of this pattern rejects the matching order   *)
  call,       (* the call that is running                                  *)
  return      (* what the last call returned                               *)

plugin     == <<akeep, handle, scale, rejects, call, return>>
session    == vars
pluginVars == <<session, plugin>>

-----------------------------------------------------------------------------
NoHandle == [spd |-> FALSE, first |-> 0, generation |-> 0, num_neg |-> 0, aborted |-> FALSE]
Unit     == [of |-> 0, full |-> TRUE]
Earlier  == [of |-> -1, full |-> TRUE]
NoCall   == [pc |-> "idle"]
NoReturn == [op |-> "none", flag |-> 0]

PluginInit ==
  /\ Init
  /\ akeep = FALSE /\ handle = [h \in Handles |-> NoHandle]
  /\ scale \in {Unit, Earlier} /\ rejects \in BOOLEAN
  /\ call = NoCall /\ return = NoReturn

Made(h) == handle[h] # NoHandle
Idle    == call.pc = "idle"

-----------------------------------------------------------------------------
(* ma97_analyse_d                                                          *)

\* A new session; a refused pattern or a failed analysis leaves no akeep.
AnalyseCall ==
  /\ Idle /\ ~akeep /\ \A h \in Handles : ~Made(h)
  /\ Analyse
  /\ ~ctrl'.spd /\ mode' = "off"
  /\ akeep' = (pattern' /\ (mat' # 0 => ak' # 0))
  /\ return' = [op |-> "analyse", flag |-> IF akeep' THEN 0 ELSE -3]
  /\ UNCHANGED <<handle, scale, rejects, call>>

-----------------------------------------------------------------------------
(* ma97_factor_d                                                           *)

\* ma97_scaling_call(): a matching scaling the analysis rejected is answered
\* with the unit scale; a factorization that scales hands its scale back; a
\* scale passed back without a request is used.
UnitScale(ask) == ask = "matching" /\ ak # 0 /\ rejects

ScalingOf(ask) ==
  IF UnitScale(ask) THEN "none"
  ELSE IF ask # "none" THEN "computed"
  ELSE IF scale # Unit THEN "reused" ELSE "none"

\* No akeep, or a scaling option out of range.
FactorRejected ==
  /\ Idle
  /\ return' = [op |-> "factor", flag |-> IF akeep THEN -6 ELSE -5]
  /\ UNCHANGED <<akeep, handle, scale, rejects, call, session>>

\* The control of the call goes to the session. A factorization whose scale
\* goes back to IPOPT does not take the slack plan.
FactorCall ==
  /\ Idle /\ akeep
  /\ \E h \in Handles, spd \in BOOLEAN, ask \in {"none", "equilibration", "matching"} :
       /\ SetControl /\ ctrl'.spd = spd
       /\ call' = [pc      |-> IF ScalingOf(ask) = "reused" THEN "scale" ELSE "factor",
                   h       |-> h,
                   spd     |-> spd,
                   first   |-> gen + 1,
                   unit    |-> UnitScale(ask),
                   scaling |-> ScalingOf(ask),
                   slack   |-> ScalingOf(ask) # "computed",
                   attempt |-> 1,
                   factor_scale |-> Unit]
  /\ return' = NoReturn
  /\ UNCHANGED <<akeep, handle, scale, rejects>>

PassScale ==
  /\ call.pc = "scale"
  /\ SetUserScale
  /\ call' = [call EXCEPT !.pc = "factor"]
  /\ UNCHANGED <<akeep, handle, scale, rejects, return>>

\* The scale a factorization applies, the reduced matrix's when it went
\* through the slack plan.
AppliedScale ==
  IF call.scaling = "computed" THEN [of |-> gen', full |-> ~fk'.slack]
  ELSE IF call.scaling = "reused" THEN scale ELSE Unit

\* session.factor(), which may run the deferred analysis.
SessionFactor ==
  /\ call.pc = "factor"
  /\ AnalysisFails \/ FactorUnder({expected})
  /\ fk'.slack => call.slack
  /\ call' = [call EXCEPT !.pc = "judge", !.factor_scale = AppliedScale]
  /\ UNCHANGED <<akeep, handle, scale, rejects, return>>

\* IpmFactorStatus of the session's last factorization: a matching scaling
\* that finds no matching is Singular as well, without a factor.
Statuses ==
  IF aborted THEN {"WrongInertia"}
  ELSE IF solvable THEN {IF fk.status = "Success" THEN "Ok" ELSE "Singular"}
  ELSE {"Error"} \cup
       (IF call.scaling = "computed" /\ ~call.spd /\ ak # 0 /\ fk.status = "Singular"
        THEN {"Singular"} ELSE {})

\* Mutant: the retry may take the slack plan.
RetrySlackMut == TRUE

\* The retry's scale goes back to IPOPT: no slack plan.
RetrySlack == FALSE

\* A factor that is singular under a reused scale is factored again with a
\* fresh matching scaling.
RetriesStaleScale(status) == call.attempt = 1 /\ call.scaling = "reused" /\ status = "Singular"

Retry ==
  /\ call.pc = "judge"
  /\ \E status \in Statuses : RetriesStaleScale(status)
  /\ SetControl /\ ctrl'.spd = call.spd
  /\ call' = [call EXCEPT !.pc = "factor", !.attempt = 2, !.scaling = "computed",
                          !.slack = RetrySlack]
  /\ UNCHANGED <<akeep, handle, scale, rejects, return>>

\* The retry gave no factor: the stale scale's is made once more.
FallBack ==
  /\ call.pc = "judge" /\ call.attempt = 2
  /\ \E status \in Statuses : status \notin {"Ok", "Singular"}
  /\ SetControl /\ ctrl'.spd = call.spd
  /\ call' = [call EXCEPT !.pc = "scale", !.attempt = 3, !.scaling = "reused", !.slack = TRUE]
  /\ UNCHANGED <<akeep, handle, scale, rejects, return>>

\* The call keeps the result of this attempt.
Final(status) ==
  /\ ~RetriesStaleScale(status)
  /\ call.attempt = 2 => status \in {"Ok", "Singular"}

\* Negative pivots of the factor; none for a positive definite one.
Negatives == IF call.spd THEN 0 ELSE info.neg

\* The handle of the session's factor.
NewHandle(neg, partial) ==
  [spd |-> call.spd, first |-> call.first, generation |-> gen, num_neg |-> neg, aborted |-> partial]

\* The scale handed back: the factor's if it computed one (an empty one, of a
\* factorization that never began, is not copied), ones for a rejected
\* matching.
ScaleBack ==
  IF call.unit THEN Unit
  ELSE IF call.scaling = "computed" /\ (aborted \/ solvable) THEN call.factor_scale ELSE scale

\* A stop on wrong inertia is a successful factor with the partial count; a
\* factor with a static pivot is reported singular.
Returned ==
  /\ call.pc = "judge"
  /\ \E status \in Statuses :
       /\ Final(status)
       /\ ak # 0 /\ status # "Error"
       /\ handle' = [handle EXCEPT ![call.h] = NewHandle(Negatives, status = "WrongInertia")]
       /\ scale' = ScaleBack
       /\ return' = [op |-> "factor", h |-> call.h, num_neg |-> Negatives,
                     flag |-> IF status = "Singular" \/ (status = "Ok" /\ fk.static) THEN 7 ELSE 0,
                     factor_scale |-> call.factor_scale]
  /\ call' = NoCall
  /\ UNCHANGED <<akeep, rejects, session>>

\* Without an analysis the caller's handle stays as it was; any other failure
\* deletes it.
Refused ==
  /\ call.pc = "judge"
  /\ \E status \in Statuses : Final(status) /\ (status = "Error" \/ ak = 0)
  /\ handle' = IF ak = 0 THEN handle ELSE [handle EXCEPT ![call.h] = NoHandle]
  /\ return' = [op |-> "factor", flag |-> IF ak = 0 THEN -3 ELSE -5]
  /\ call' = NoCall
  /\ UNCHANGED <<akeep, scale, rejects, session>>

-----------------------------------------------------------------------------
(* ma97_solve_d                                                            *)

\* Mutant: a handle is solved with whoever was factored last.
CurrentMut(h) == Made(h)

\* The session's factor is still the one this handle was given.
Current(h) == Made(h) /\ handle[h].generation = gen

\* No handle, one whose factor was replaced, or a wrong argument (-2, as -4).
SolveRefused ==
  /\ Idle
  /\ \E h \in Handles :
       return' = [op |-> "solve", flag |-> IF Current(h) THEN -2 ELSE IF Made(h) THEN -1 ELSE -5]
  /\ UNCHANGED <<akeep, handle, scale, rejects, call, session>>

SolveCall ==
  /\ Idle
  /\ \E h \in Handles :
       /\ Current(h)
       /\ SetControl /\ ctrl'.spd = handle[h].spd
       /\ call' = [pc |-> "solve", h |-> h]
  /\ return' = NoReturn
  /\ UNCHANGED <<akeep, handle, scale, rejects>>

\* The solve after an aborted factor completed it: the full inertia.
CompletedHandle(h) ==
  [handle[h] EXCEPT !.num_neg = IF lastSpd' THEN 0 ELSE info'.neg, !.aborted = FALSE]

SessionSolve ==
  /\ call.pc = "solve"
  /\ \/ /\ Solve
        /\ handle' = IF handle[call.h].aborted
                     THEN [handle EXCEPT ![call.h] = CompletedHandle(call.h)] ELSE handle
        /\ return' = [op |-> "solve", h |-> call.h, flag |-> 0,
                      num_neg |-> handle'[call.h].num_neg]
     \/ /\ SolveFails
        /\ handle' = handle
        /\ return' = [op |-> "solve", flag |-> -5]
  /\ call' = NoCall
  /\ UNCHANGED <<akeep, scale, rejects>>

-----------------------------------------------------------------------------
(* ma97_free_akeep_d, ma97_free_fkeep_d: either may go first, the session  *)
(* is theirs together                                                      *)

FreeAkeep ==
  /\ Idle /\ akeep
  /\ akeep' = FALSE
  /\ return' = NoReturn
  /\ UNCHANGED <<handle, scale, rejects, call, session>>

FreeFkeep ==
  /\ Idle
  /\ \E h \in Handles : Made(h) /\ handle' = [handle EXCEPT ![h] = NoHandle]
  /\ return' = NoReturn
  /\ UNCHANGED <<akeep, scale, rejects, call, session>>

-----------------------------------------------------------------------------
PluginNext ==
  \/ AnalyseCall
  \/ FactorRejected \/ FactorCall \/ PassScale \/ SessionFactor \/ Retry \/ FallBack \/ Returned \/ Refused
  \/ SolveRefused \/ SolveCall \/ SessionSolve
  \/ FreeAkeep \/ FreeFkeep

PluginSpec == PluginInit /\ [][PluginNext]_pluginVars

-----------------------------------------------------------------------------
(* Properties                                                              *)

\* Handles share one session and one factor: a solve that succeeds through a
\* handle solved with a complete factor of the values of the call that made
\* the handle, and reports that factor's negative pivots, the factor
\* completed after a stop on wrong inertia included (ma97_solve_d, "a solve
\* with an fkeep whose factor has since been replaced fails").
HandleAnswersItsFactor ==
  return.op = "solve" /\ return.flag = 0 =>
    /\ answer.solved
    /\ answer.of.call \in handle[return.h].first .. handle[return.h].generation
    /\ return.num_neg = IF answer.of.ctrl.spd THEN 0 ELSE fk.neg

\* The scale IPOPT keeps for its later factorizations is always a full
\* matrix's, and after a call that factored, through a retry or not, it is
\* the scale of the factor the handle holds (ma97_factor_d, "a scale computed
\* here goes back to IPOPT for reuse, so it must be the full matrix's").
ScaleIsTheFactors ==
  /\ scale.full
  /\ return.op = "factor" /\ return.flag >= 0 /\ (solvable \/ aborted) =>
       scale = return.factor_scale

-----------------------------------------------------------------------------
(* For TLC: the handles are alike.                                         *)
Injective(p) == \A g, h \in Handles : p[g] = p[h] => g = h
Pointers == {[h \in Handles |-> p[h]] : p \in {q \in [Handles -> Handles] : Injective(q)}}

=============================================================================
