--------------------------- MODULE RescueDrivers ---------------------------
(***************************************************************************)
(* Solver::factor of an indefinite matrix (solve.cpp): the slack plan, the *)
(* realized-delay matching trigger, the scale-on-delay rescue with its     *)
(* kept scale, next ratio and static fallback.  One caller factors a       *)
(* sequence of values, each with its own control, into one FactorKeep; the *)
(* engine (factor_indef) is an external choice of outcomes.                *)
(*                                                                         *)
(* A scaling is named by the values it is the matching scaling of.  A      *)
(* probe's backward error is a decade: 0 is kReuseOmegaFloor, OmegaCap     *)
(* kReuseOmegaMax, and kReuseOmegaFactor is one decade.                    *)
(***************************************************************************)
EXTENDS Naturals, Integers

CONSTANTS
  Values,          \* value arrays of the pattern
  None,            \* no values, no scaling, no analysis, no signature
  Full, Reduced,   \* the matrix's own analysis, and its slack plan's reduced one
  MatchingOrdered, \* the analyses that took the matching ordering (and scale)
  TrialSkipped,    \* AnalysisKeep::matching_trial_skipped
  Eligible,        \* AnalysisKeep::matching_trigger_eligible
  Analysed,        \* the values of analyse()
  ZeroPattern,     \* per analysis and values: signature of the exactly zero values
  Matchable,       \* <<analysis, signature>>: there is a matching scaling
  Fits,            \* <<w, v>>: the matching scaling of w still fits v
  OmegaCap,
  Controls,        \* the controls of factor(), records of Control below
  SlackMaxFallbacks \* kSlackMaxFallbacks

Analyses == {Full, Reduced}
Omegas   == 0..(OmegaCap + 1)

\* A kept scale: the values it is of, its baseline delay_omega (-1: none), and
\* fresh, the probe's error when it was computed.
KeptScales == [of : Values, omega : Omegas \cup {-1}, fresh : Omegas \cup {-1}]

\* The fields of Control the drivers read: armed is scale_on_delay_armed,
\* safety the skip-trial rescue, next the next ratio, carry the carry,
\* bound max_negative_pivots >= 0.
Control ==
  [static : BOOLEAN, realized : BOOLEAN, armed : BOOLEAN, safety : BOOLEAN, reuse : BOOLEAN,
   next : BOOLEAN, carry : BOOLEAN, fallback : BOOLEAN, slack : BOOLEAN,
   bound : BOOLEAN]

ASSUME ControlsAssumption ==
  /\ Controls \subseteq Control
  /\ \A c \in Controls : c.armed \/ c.safety => ~c.static /\ ~c.bound
  /\ \A c \in Controls : c.slack => ~c.static /\ ~c.bound

ASSUME ValuesAssumption ==
  /\ Analysed \in Values /\ Fits \subseteq Values \X Values
  /\ SlackMaxFallbacks \in Nat \ {0} /\ OmegaCap \in Nat
  /\ DOMAIN ZeroPattern = Analyses /\ \A a \in Analyses : DOMAIN ZeroPattern[a] = Values

\* None is told apart from what it stands in for.
ASSUME NoneAssumption ==
  /\ None \notin Values /\ None \notin Analyses /\ None \notin KeptScales
  /\ \A a \in Analyses, v \in Values : ZeroPattern[a][v] # None

\* A signature says the same of every analysis it turns up in: the one a
\* FactorKeep remembers does not name its analysis (delay_signature).
SignaturesTell ==
  \A a, b \in Analyses, v, w \in Values :
    ZeroPattern[a][v] = ZeroPattern[b][w] =>
      (<<a, ZeroPattern[a][v]>> \in Matchable <=> <<b, ZeroPattern[b][w]>> \in Matchable)

VARIABLES
  ak,        \* per analysis: the values of its matching_reanalysis, and _tried
  fallbacks, \* AnalysisKeep::slack_fallbacks_in_row
  fk,        \* the FactorKeep: its rescue state and the factor it holds
  info,      \* the Info fields of the drivers
  call,      \* the factor() in progress: its locals
  pc         \* the stage it has reached

vars == <<ak, fallbacks, fk, info, call, pc>>

-----------------------------------------------------------------------------
NoFactor == [a |-> None, v |-> None, scale |-> None, st |-> "None"]

\* scale is delay_scale with its delay_omega, sig is delay_signature.
NoKeep == [analysis |-> None, scale |-> None, sig |-> None, next |-> FALSE,
           static |-> FALSE, rejected |-> None, path |-> FALSE, slack |-> FALSE,
           held |-> NoFactor]

NoInfo == [rescales |-> 0, static |-> 0, scaling |-> "None", pairs |-> FALSE]

NoCall == [v |-> None, c |-> None, a |-> None, plan |-> FALSE, via |-> "none",
           kept |-> None, next |-> FALSE, st |-> "None", probe |-> -1]

Init ==
  /\ ak = [a \in Analyses |-> [re |-> None, tried |-> FALSE]]
  /\ fallbacks = 0 /\ fk = NoKeep /\ info = NoInfo /\ call = NoCall /\ pc = "idle"

Ended == {"Success", "Singular"}   \* the lambda `ran`: the engine reached the end

\* The factor of a stage: what the engine leaves in the FactorKeep.  An error
\* may come before static_path is reset.
Held(k, a, scale, st) ==
  LET h == [k EXCEPT !.held = [a |-> a, v |-> call.v, scale |-> scale, st |-> st]]
  IN  {[h EXCEPT !.path = FALSE]} \cup (IF st = "Error" THEN {h} ELSE {})

\* Auto's scaling: the analysis' matching scale with the matching ordering.
AutoScale(a) == IF a \in MatchingOrdered THEN Analysed ELSE None

\* The scale a factorization of the analysis resolves to: its matching
\* re-analysis has the matching scale of the values it was made from.
ResolvedScale(a) == IF ak[a].re # None THEN ak[a].re ELSE AutoScale(a)

Scaling(scale) == IF scale = None THEN "None" ELSE "Matching"

\* matching_scale_of: whether there is one depends on the zero pattern only.
MatchingScale(a, v) == IF <<a, ZeroPattern[a][v]>> \in Matchable THEN v ELSE None

-----------------------------------------------------------------------------
(* Solver::factor and factor_slack                                         *)

\* factor() begins: through the slack plan when its pair pass succeeds, else
\* with the full matrix's own analysis.
Factor(v, c) ==
  /\ pc = "idle"
  /\ pc' = "dispatch"
  /\ LET tries == c.slack /\ fallbacks < SlackMaxFallbacks
         begun == [NoCall EXCEPT !.v = v, !.c = c]
     IN  \/ /\ tries
            /\ call' = [begun EXCEPT !.a = Reduced, !.plan = TRUE]
            /\ info' = NoInfo
            /\ UNCHANGED fallbacks
         \/ /\ tries                           \* a pair fails its guard
            /\ call' = [begun EXCEPT !.a = Full]
            /\ fallbacks' = fallbacks + 1
            /\ info' = NoInfo
         \/ /\ ~tries
            /\ call' = [begun EXCEPT !.a = Full]
            /\ info' = NoInfo
            /\ UNCHANGED fallbacks
  /\ fk' = [fk EXCEPT !.slack = FALSE]
  /\ UNCHANGED ak

\* The Info of the reduced factorization is dropped.
RejectedInfo == NoInfo

RejectedCall(x) == [NoCall EXCEPT !.v = x.v, !.c = x.c, !.a = Full]

\* The end of a driver: the reduced factor stands only when it succeeded with
\* no zero pivot and no pivot buried in the pairs' rounding.
Finish ==
  /\ pc = "done"
  /\ \/ /\ call.plan /\ call.st = "Success"
        /\ fallbacks' = 0
        /\ fk' = [fk EXCEPT !.slack = TRUE]
        /\ info' = [info EXCEPT !.pairs = TRUE]
        /\ pc' = "idle" /\ call' = NoCall
     \/ /\ call.plan
        /\ fallbacks' = fallbacks + 1
        /\ info' = RejectedInfo
        /\ call' = RejectedCall(call)
        /\ pc' = "dispatch"
        /\ UNCHANGED fk
     \/ /\ ~call.plan
        /\ pc' = "idle" /\ call' = NoCall
        /\ UNCHANGED <<fallbacks, fk, info>>
  /\ UNCHANGED ak

Done(st) ==
  /\ pc' = "done"
  /\ call' = [call EXCEPT !.st = st]

-----------------------------------------------------------------------------
(* factor_with_matching_trigger                                            *)

RealizedPending(a) == call.c.realized /\ a \in Eligible /\ ~ak[a].tried

\* scale_on_delay_armed, or skip_trial_rescue_armed; the latter runs the
\* rescue with no early stop, next ratio or static fallback.
Armed(a)  == ak[a].re = None /\ ~RealizedPending(a) /\ call.c.armed
Safety(a) == ak[a].re = None /\ ~RealizedPending(a) /\ ~call.c.armed /\ call.c.safety
               /\ a \in TrialSkipped

\* Control::pivoting = Static: no rescue state survives it.
StaticMode ==
  /\ pc = "dispatch" /\ call.c.static
  /\ \E st \in Ended \cup {"Error"} \cup IF call.c.bound THEN {"InertiaExceeded"} ELSE {} :
       /\ \E h \in Held(fk, call.a, ResolvedScale(call.a), st) :
            fk' = [h EXCEPT !.analysis = None, !.next = FALSE, !.static = FALSE, !.scale = None,
                            !.path = IF st # "InertiaExceeded" THEN TRUE ELSE @]
       /\ info' = [info EXCEPT !.scaling = Scaling(ResolvedScale(call.a)),
                                  !.static = IF st # "InertiaExceeded" THEN 1 ELSE 0]
       /\ Done(st)
  /\ UNCHANGED <<ak, fallbacks>>

\* A factorization with no rescue: with the matching re-analysis, or as Auto
\* resolves it; then, under RealizedDelays, a factor with too many delays is
\* re-analysed once and factored again.
Plain ==
  /\ pc = "dispatch" /\ ~call.c.static /\ ~Armed(call.a) /\ ~Safety(call.a)
  /\ LET a == call.a IN
     \E st \in Ended \cup {"Error"} \cup IF call.c.bound THEN {"InertiaExceeded"} ELSE {} :
       /\ fk' \in Held(fk, a, ResolvedScale(a), st)
       /\ info' = [info EXCEPT !.scaling = Scaling(ResolvedScale(a))]
       /\ \/ Done(st) /\ UNCHANGED ak
          \/ /\ ak[a].re = None /\ RealizedPending(a) /\ st \in Ended
             /\ \/ /\ MatchingScale(a, call.v) # None
                   /\ ak' = [ak EXCEPT ![a] = [re |-> call.v, tried |-> TRUE]]
                   /\ pc' = "again" /\ UNCHANGED call
                \/ /\ ak' = [ak EXCEPT ![a].tried = TRUE]
                   /\ Done(st)
  /\ UNCHANGED fallbacks

FactorAgain ==
  /\ pc = "again"
  /\ \E st \in Ended \cup {"Error"} \cup IF call.c.bound THEN {"InertiaExceeded"} ELSE {} :
       /\ fk' \in Held(fk, call.a, ResolvedScale(call.a), st)
       /\ Done(st)
  /\ info' = [info EXCEPT !.scaling = Scaling(ResolvedScale(call.a))]
  /\ UNCHANGED <<ak, fallbacks>>

-----------------------------------------------------------------------------
(* factor_scale_on_delay                                                   *)

Fallback(a) == call.via = "armed" /\ call.c.fallback /\ fk.rejected # a
NextOn      == call.via = "armed" /\ call.c.next

\* Mutant: hopeless once is hopeless for good, whatever the values' zeros.
SameZerosMut(v) == TRUE

SameZeros(v) == ZeroPattern[call.a][v] = fk.sig

\* The state of an earlier factorization of this analysis decides the first
\* stage; the FactorKeep forgets it until this one has run to the end.
Enter ==
  /\ pc = "dispatch" /\ ~call.c.static /\ (Armed(call.a) \/ Safety(call.a))
  /\ LET a        == call.a
         armed    == Armed(a)
         ours     == fk.analysis = a
         next     == ours /\ fk.next
         goStatic == ours /\ fk.static /\ armed /\ call.c.fallback
         hopeless == ours /\ ~next /\ ~goStatic /\ fk.scale = None
         first    == ~ours \/ hopeless \/ next
         carries  == next /\ armed /\ call.c.carry /\ call.c.next
         fits     == ~first /\ call.c.reuse /\ fk.scale # None
                       /\ <<fk.scale.of, call.v>> \in Fits
     IN  /\ pc' = CASE goStatic -> "static"
                    [] ~goStatic /\ hopeless /\ SameZeros(call.v) -> "unarmed"
                    [] ~goStatic /\ fits -> "kept"
                    [] ~goStatic /\ first /\ ~carries
                         /\ ~(hopeless /\ SameZeros(call.v)) -> "try"
                    [] OTHER -> "rescale"
         /\ call' = [call EXCEPT !.via = IF armed THEN "armed" ELSE "safety",
                                 !.kept = IF ours THEN fk.scale ELSE None,
                                 !.next = next]
         /\ fk' = [fk EXCEPT !.analysis = None, !.next = FALSE, !.static = FALSE, !.scale = None]
  /\ UNCHANGED <<ak, fallbacks, info>>

\* These values' zero pattern is known to have no matching scaling.
Unarmed ==
  /\ pc = "unarmed"
  /\ \E st \in Ended \cup {"Error"} : \E h \in Held(fk, call.a, AutoScale(call.a), st) :
       /\ fk' = IF st \in Ended THEN [h EXCEPT !.analysis = call.a] ELSE h
       /\ Done(st)
  /\ info' = [info EXCEPT !.scaling = Scaling(AutoScale(call.a))]
  /\ UNCHANGED <<ak, fallbacks>>

\* The let-through factor was scaled by its own values' matching.
OwnScale(a) == AutoScale(a) # None /\ call.v = Analysed

\* The factor that tripped is redone on the static path, or rescaled.
AfterTrip(a) == IF Fallback(a) THEN "static" ELSE "rescale"

\* The first try, as Auto resolves it, under the work limit: let through
\* (perhaps costly), or stopped at the limit or at the early crossing
\* (EarlyWorkStop), which take the same path.
TryAuto ==
  /\ pc = "try"
  /\ LET a == call.a IN
     \/ \E st \in Ended \cup {"Error"}, costly \in BOOLEAN :
          /\ \E h \in Held(fk, a, AutoScale(a), st) :
               fk' = IF st \in Ended /\ NextOn /\ costly /\ ~OwnScale(a)
                     THEN [h EXCEPT !.analysis = a, !.static = Fallback(a), !.next = ~Fallback(a)]
                     ELSE h
          /\ info' = [info EXCEPT !.scaling = Scaling(AutoScale(a))]
          /\ Done(st)
     \/ /\ fk' \in Held(fk, a, AutoScale(a), "MaxPivotDelays")
        /\ pc' = AfterTrip(a)
        /\ UNCHANGED <<info, call>>
  /\ UNCHANGED <<ak, fallbacks>>

\* try_static: kept only when it perturbed no pivot and its growth is small.
TryStatic ==
  /\ pc = "static"
  /\ LET a == call.a IN
     \/ /\ fk' \in Held(fk, a, AutoScale(a), "Error")
        /\ Done("Error")
        /\ UNCHANGED info
     \/ /\ \E h \in Held(fk, a, AutoScale(a), "Success") :
             fk' = [h EXCEPT !.path = TRUE, !.analysis = a, !.static = TRUE]
        /\ info' = [info EXCEPT !.static = 1, !.scaling = Scaling(AutoScale(a))]
        /\ Done("Success")
     \/ \E st \in Ended : \E h \in Held(fk, a, AutoScale(a), st) :
          /\ fk' = [h EXCEPT !.rejected = a]
          /\ pc' = "rescale" /\ UNCHANGED <<info, call>>
  /\ UNCHANGED <<ak, fallbacks>>

\* scale_on_delay_reuse_passes, with no baseline only the cap.
ReusePasses(probe, fresh) == probe <= OmegaCap /\ (fresh >= 0 => probe <= fresh + 1)

\* Mutant: the baseline follows the last probe.
KeptScaleMut(probe) == [call.kept EXCEPT !.omega = probe]

\* The kept scale goes back with the baseline of its own first factor.
KeptScale(probe) == call.kept

\* Mutant: the kept scale is tried again.
AfterMissMut == "kept"

\* The kept scale is given up for a new one.
AfterMiss == "rescale"

\* Start from the kept scale; the limit trips, or the probe judges.
TryKept ==
  /\ pc = "kept"
  /\ LET a == call.a IN
     \/ /\ fk' \in Held(fk, a, call.kept.of, "Error")
        /\ Done("Error")
        /\ UNCHANGED info
     \/ \E st \in Ended, probe \in Omegas : \E h \in Held(fk, a, call.kept.of, st) :
          IF st = "Singular" \/ ReusePasses(probe, call.kept.omega)
          THEN /\ fk' = [h EXCEPT !.analysis = a, !.scale = KeptScale(probe)]
               /\ info' = [info EXCEPT !.scaling = "Matching"]
               /\ pc' = "done"
               /\ call' = [call EXCEPT !.st = st, !.probe = IF st = "Success" THEN probe ELSE -1]
          ELSE /\ fk' = h
               /\ pc' = AfterMiss /\ UNCHANGED <<info, call>>
     \/ /\ fk' \in Held(fk, a, call.kept.of, "MaxPivotDelays")
        /\ pc' = AfterMiss /\ UNCHANGED <<info, call>>
  /\ UNCHANGED <<ak, fallbacks>>

\* Mutant: an unfinished rescaled factorization leaves its scale.
KeepsScaleMut(st) == TRUE

KeepsScale(st) == st \in Ended

\* A new matching scaling of these values, or none: factored to the end.
Rescale ==
  /\ pc = "rescale"
  /\ LET a     == call.a
         scale == MatchingScale(a, call.v)
     IN  \E st \in Ended \cup {"Error"} :
           \/ /\ scale = None
              /\ \E h \in Held(fk, a, AutoScale(a), st) :
                   fk' = IF st \in Ended THEN [h EXCEPT !.analysis = a, !.sig = ZeroPattern[a][call.v]]
                         ELSE h
              /\ info' = [info EXCEPT !.scaling = Scaling(AutoScale(a))]
              /\ Done(st)
           \/ /\ scale # None
              /\ \E h \in Held(fk, a, scale, st),
                    omega \in IF call.c.reuse /\ st = "Success" THEN Omegas ELSE {-1} :
                   fk' = IF KeepsScale(st)
                         THEN [h EXCEPT !.analysis = a,
                                        !.scale = [of |-> scale, omega |-> omega, fresh |-> omega]]
                         ELSE h
              /\ info' = [info EXCEPT !.rescales = 1,
                                      !.scaling = IF st \in Ended THEN "Matching" ELSE "User"]
              /\ Done(st)
  /\ UNCHANGED <<ak, fallbacks>>

Step ==
  \/ Finish \/ StaticMode \/ Plain \/ FactorAgain
  \/ Enter \/ Unarmed \/ TryAuto \/ TryStatic \/ TryKept \/ Rescale

Next == (\E v \in Values, c \in Controls : Factor(v, c)) \/ Step

\* A factorization is a sequence of finite engine runs.
Spec == Init /\ [][Next]_vars /\ WF_vars(Step)

-----------------------------------------------------------------------------
(* Properties                                                              *)

Stages   == {"unarmed", "try", "static", "kept", "rescale"}   \* of factor_scale_on_delay
Statuses == Ended \cup {"None", "Error", "InertiaExceeded", "MaxPivotDelays"}

Factors == [a : Analyses \cup {None}, v : Values \cup {None}, scale : Values \cup {None},
            st : Statuses]

Signatures == {ZeroPattern[a][v] : a \in Analyses, v \in Values}

Keeps == [analysis : Analyses \cup {None}, scale : KeptScales \cup {None},
          sig : Signatures \cup {None}, next : BOOLEAN, static : BOOLEAN,
          rejected : Analyses \cup {None}, path : BOOLEAN, slack : BOOLEAN, held : Factors]

Infos == [rescales : {0, 1}, static : {0, 1}, scaling : {"None", "Matching", "User"},
          pairs : BOOLEAN]

Calls == [v : Values \cup {None}, c : Controls \cup {None}, a : Analyses \cup {None},
          plan : BOOLEAN, via : {"none", "armed", "safety"}, kept : KeptScales \cup {None},
          next : BOOLEAN, st : Statuses, probe : Omegas \cup {-1}]

\* Every component stays in its range (FactorKeep, Info, and the locals of
\* the drivers); the slack fallbacks in a row never pass kSlackMaxFallbacks.
TypeOK ==
  /\ ak \in [Analyses -> [re : Values \cup {None}, tried : BOOLEAN]]
  /\ fallbacks \in 0..SlackMaxFallbacks
  /\ fk \in Keeps /\ info \in Infos /\ call \in Calls
  /\ pc \in {"idle", "dispatch", "again", "done"} \cup Stages

\* However many factorizations reuse one kept scale, a factor returned with it
\* was probed within one decade of the error measured when the scale was
\* fresh (factor_scale_on_delay's reuse test): the accuracy cannot drift from
\* one reuse to the next.
ReuseNeverDrifts ==
  pc = "done" /\ call.probe >= 0 =>
    /\ call.probe <= OmegaCap
    /\ fk.scale.fresh >= 0 => call.probe <= fk.scale.fresh + 1

\* After the rescue driver, the rescue state it left in the FactorKeep is that
\* of the factor the keep holds: made for the same analysis, run to the end,
\* scaled by the kept scale, or on the static path that later ones repeat.
KeepMatchesFactor ==
  pc = "done" /\ call.via # "none" /\ fk.analysis # None =>
    /\ fk.held.a = fk.analysis /\ fk.held.v = call.v /\ fk.held.st \in Ended
    /\ fk.scale # None => fk.held.scale = fk.scale.of
    /\ fk.scale = None => fk.next \/ fk.static \/ MatchingScale(call.a, call.v) = None
    /\ ~(fk.next /\ fk.static)

\* What Info reports of the factorization is true of the factor handed back,
\* also when a rescued reduced factor was thrown away for the full matrix's.
InfoDescribesFactor ==
  pc = "idle" /\ fk.held.st \in Ended =>
    /\ info.pairs <=> fk.slack
    /\ fk.slack => fk.held.a = Reduced
    /\ info.static = 1 <=> fk.path
    /\ info.rescales = 1 => fk.held.scale = fk.held.v
    /\ info.scaling = "Matching" <=> fk.held.scale # None
    /\ info.rescales = 1 /\ info.static = 1 => FALSE

\* What a factorization leaves: the keep's rescue state and Info agree with
\* the factor handed back (solve.cpp, the rescue and slack drivers).
OutcomeConsistent == KeepMatchesFactor /\ InfoDescribesFactor

\* What the FactorKeep remembers of earlier factorizations may be acted on,
\* through any sequence of values, controls, analyses and failures between
\* (factor_scale_on_delay): a factorization gives up its work limit (runs
\* unarmed) only for values that have no matching scaling, though the
\* signature it compares was left by an earlier call; and it never starts on
\* the static path while the mark says that this analysis' static factor was
\* thrown away, though delay_static is followed without a look at the mark.
VerdictsStand ==
  /\ pc = "unarmed" => MatchingScale(call.a, call.v) = None
  /\ pc = "static" => fk.rejected # call.a

\* Every factorization ends: no rescue, re-analysis or slack fallback sends it
\* round again.
FactorEnds == pc # "idle" ~> pc = "idle"

=============================================================================
