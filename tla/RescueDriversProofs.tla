-------------------------- MODULE RescueDriversProofs --------------------------
(***************************************************************************)
(* The rescue drivers, for every set of values, every control and every    *)
(* outcome of the engine: a factorization leaves a FactorKeep and an Info  *)
(* that describe the factor handed back (OutcomeConsistent), a kept scale  *)
(* is judged by the error of its own first factor (ReuseNeverDrifts), and  *)
(* the verdicts of earlier calls on an analysis still hold when they are   *)
(* acted on (VerdictsStand).  The remembered signature does not name its   *)
(* analysis, so what depends on it is proved under SignaturesTell.         *)
(*                                                                         *)
(* The properties speak of the end of a call; the invariant says what the  *)
(* stages before it rely on: the keep's memory of hopeless values and of a *)
(* scale's baseline outlives calls (Memory), a call carries its values and *)
(* its analysis (InCall), the stages of factor_scale_on_delay run with the *)
(* rescue state forgotten (InStage), and the last stage leaves the factor  *)
(* of this call (AtDone).                                                  *)
(***************************************************************************)
EXTENDS RescueDrivers, TLAPS

\* A remembered signature: no analysis has a matching scaling of values
\* with it.
Hopeless(sig) ==
  \A a \in Analyses, v \in Values : ZeroPattern[a][v] = sig => MatchingScale(a, v) = None

\* What the FactorKeep remembers between calls: a hopeless signature, a static
\* path that was not thrown away, a scale with its own first factor's error.
Memory ==
  /\ SignaturesTell => Hopeless(fk.sig)
  /\ fk.static => fk.rejected # fk.analysis
  /\ fk.scale # None => fk.scale.omega = fk.scale.fresh
  /\ call.kept # None => call.kept.omega = call.kept.fresh

\* A factor() in progress.
InCall ==
  pc # "idle" =>
    /\ call.v \in Values /\ call.c \in Controls /\ call.a \in Analyses
    /\ call.plan => call.a = Reduced /\ fallbacks < SlackMaxFallbacks
    /\ ~fk.slack /\ ~info.pairs
    /\ pc # "done" => info.rescales = 0 /\ info.static = 0 /\ call.probe = -1
    /\ pc \in {"dispatch", "again"} => call.via = "none"

\* A stage of factor_scale_on_delay.
InStage ==
  pc \in Stages =>
    /\ call.via # "none"
    /\ fk.analysis = None /\ ~fk.next /\ ~fk.static /\ fk.scale = None
    /\ pc = "unarmed" /\ SignaturesTell => MatchingScale(call.a, call.v) = None
    /\ pc = "static" => fk.rejected # call.a
    /\ pc = "kept" => call.kept # None

\* InfoDescribesFactor before the slack plan's verdict.
Described ==
  /\ info.static = 1 <=> fk.path
  /\ info.rescales = 1 => fk.held.scale = fk.held.v
  /\ info.scaling = "Matching" <=> fk.held.scale # None
  /\ ~(info.rescales = 1 /\ info.static = 1)

\* The driver has ended.
AtDone ==
  pc = "done" =>
    /\ fk.held.a = call.a /\ fk.held.v = call.v /\ fk.held.st = call.st
    /\ call.st \in Ended => Described

\* The inductive invariant.
IInv ==
  /\ TypeOK /\ Memory /\ InCall /\ InStage /\ AtDone
  /\ (SignaturesTell => KeepMatchesFactor) /\ InfoDescribesFactor /\ ReuseNeverDrifts

-----------------------------------------------------------------------------
\* What a run of the engine leaves in the keep: the factor of these values
\* and nothing else, off the static path unless it fell over before the reset
\* (factor_indef).
Ran(h, a, scale, st) ==
  /\ h \in Keeps
  /\ h.held = [a |-> a, v |-> call.v, scale |-> scale, st |-> st]
  /\ h.analysis = fk.analysis /\ h.scale = fk.scale /\ h.sig = fk.sig
  /\ h.next = fk.next /\ h.static = fk.static /\ h.slack = fk.slack
  /\ h.rejected = fk.rejected
  /\ st # "Error" => h.path = FALSE

LEMMA HeldFacts ==
  ASSUME TypeOK, call.v \in Values,
         NEW a \in Analyses, NEW scale \in Values \cup {None}, NEW st \in Statuses,
         NEW h \in Held(fk, a, scale, st)
  PROVE  Ran(h, a, scale, st)
<1> DEFINE held == [a |-> a, v |-> call.v, scale |-> scale, st |-> st]
           g    == [fk EXCEPT !.held = held]
<1>1. fk \in Keeps
  BY DEF TypeOK
<1>2. held \in Factors
  BY DEF Factors
<1>3. /\ g \in Keeps /\ g.held = held
      /\ g.analysis = fk.analysis /\ g.scale = fk.scale /\ g.sig = fk.sig
      /\ g.next = fk.next /\ g.static = fk.static /\ g.slack = fk.slack
      /\ g.rejected = fk.rejected
  <2> HIDE DEF held
  <2>1. QED
    BY <1>1, <1>2 DEF Keeps
<1>4. h = [g EXCEPT !.path = FALSE] \/ (st = "Error" /\ h = g)
  BY DEF Held
<1>5. QED
  <2> HIDE DEF g, held
  <2>1. CASE h = [g EXCEPT !.path = FALSE]
    BY <1>3, <2>1 DEF Keeps, Ran, held
  <2>2. CASE st = "Error" /\ h = g
    BY <1>3, <2>2 DEF Ran, held
  <2>3. QED
    BY <1>4, <2>1, <2>2

\* Auto's scaling is of the analysed values.
LEMMA AutoScaleType ==
  ASSUME NEW a PROVE AutoScale(a) \in Values \cup {None}
BY ValuesAssumption DEF AutoScale

\* The re-analysis' scale, or Auto's, is of some values.
LEMMA ResolvedScaleType ==
  ASSUME TypeOK, NEW a \in Analyses PROVE ResolvedScale(a) \in Values \cup {None}
BY AutoScaleType DEF ResolvedScale, TypeOK

\* Info says a matching scaling was used exactly when there was a scaling.
LEMMA ScalingSays ==
  ASSUME NEW scale
  PROVE  /\ Scaling(scale) \in {"None", "Matching"}
         /\ Scaling(scale) = "Matching" <=> scale # None
BY DEF Scaling

\* Whatever the first state holds, no factorization has run.
LEMMA InitHolds == Init => IInv
<1> SUFFICES ASSUME Init PROVE IInv
  OBVIOUS
<1>1. fk \in Keeps /\ info \in Infos /\ call \in Calls
  <2>1. NoFactor \in Factors
    BY DEF NoFactor, Factors, Statuses, Ended
  <2>2. fk \in Keeps
    BY <2>1 DEF Init, NoKeep, Keeps
  <2>3. info \in Infos
    BY DEF Init, NoInfo, Infos
  <2>4. call \in Calls
    BY DEF Init, NoCall, Calls, Statuses, Ended
  <2>5. QED
    BY <2>2, <2>3, <2>4
<1>2. TypeOK
  <2>1. ak \in [Analyses -> [re : Values \cup {None}, tried : BOOLEAN]]
    BY DEF Init
  <2>2. fallbacks \in 0..SlackMaxFallbacks /\ pc = "idle"
    BY ValuesAssumption DEF Init
  <2>3. QED
    BY <1>1, <2>1, <2>2 DEF TypeOK
<1>3. Memory
  BY NoneAssumption DEF Init, NoKeep, NoCall, Memory, Hopeless
<1>4. InfoDescribesFactor
  BY DEF Init, NoKeep, NoFactor, InfoDescribesFactor, Ended
<1>5. InCall /\ InStage /\ AtDone /\ KeepMatchesFactor /\ ReuseNeverDrifts
  BY DEF Init, InCall, InStage, AtDone, KeepMatchesFactor, ReuseNeverDrifts, Stages
<1>6. QED
  BY <1>2, <1>3, <1>4, <1>5 DEF IInv

-----------------------------------------------------------------------------
(* Solver::factor                                                          *)

LEMMA FactorHolds ==
  ASSUME IInv, NEW v \in Values, NEW c \in Controls, Factor(v, c)
  PROVE  IInv'
<1> DEFINE begun == [NoCall EXCEPT !.v = v, !.c = c]
<1>1. /\ pc = "idle" /\ pc' = "dispatch" /\ ak' = ak /\ info' = NoInfo
      /\ fk' = [fk EXCEPT !.slack = FALSE]
  BY DEF Factor
<1>2. \/ /\ fallbacks < SlackMaxFallbacks /\ fallbacks' = fallbacks
         /\ call' = [begun EXCEPT !.a = Reduced, !.plan = TRUE]
      \/ /\ fallbacks < SlackMaxFallbacks /\ fallbacks' = fallbacks + 1
         /\ call' = [begun EXCEPT !.a = Full]
      \/ /\ fallbacks' = fallbacks
         /\ call' = [begun EXCEPT !.a = Full]
  BY DEF Factor
<1>3. begun \in Calls /\ begun.v = v /\ begun.c = c /\ begun.plan = FALSE /\ begun.via = "none"
      /\ begun.kept = None /\ begun.probe = -1
  BY DEF NoCall, Calls, Statuses, Ended
<1>4. /\ call' \in Calls /\ call'.v = v /\ call'.c = c /\ call'.a \in Analyses
      /\ call'.via = "none" /\ call'.kept = None /\ call'.probe = -1
      /\ call'.plan => call'.a = Reduced /\ fallbacks < SlackMaxFallbacks /\ fallbacks' = fallbacks
  <2> HIDE DEF begun
  <2>1. QED
    BY <1>2, <1>3 DEF Calls, Analyses
<1>5. /\ fk' \in Keeps /\ fk'.slack = FALSE
      /\ fk'.sig = fk.sig /\ fk'.scale = fk.scale /\ fk'.held = fk.held
      /\ fk'.static = fk.static /\ fk'.rejected = fk.rejected /\ fk'.analysis = fk.analysis
  BY <1>1 DEF IInv, TypeOK, Keeps
<1>6. /\ info' \in Infos /\ ~info'.pairs /\ info'.rescales = 0 /\ info'.static = 0
  BY <1>1 DEF NoInfo, Infos
<1>7. fallbacks' \in 0..SlackMaxFallbacks
  BY <1>2, ValuesAssumption DEF IInv, TypeOK
<1>8. TypeOK'
  BY <1>1, <1>4, <1>5, <1>6, <1>7 DEF IInv, TypeOK
<1>9. Memory'
  BY <1>4, <1>5 DEF IInv, Memory
<1>10. InCall'
  BY <1>1, <1>4, <1>5, <1>6 DEF InCall
<1>11. /\ InStage' /\ AtDone'
       /\ KeepMatchesFactor' /\ InfoDescribesFactor' /\ ReuseNeverDrifts'
  BY <1>1 DEF InStage, Stages, AtDone, KeepMatchesFactor, InfoDescribesFactor, ReuseNeverDrifts
<1>12. QED
  BY <1>8, <1>9, <1>10, <1>11 DEF IInv

LEMMA FinishHolds ==
  ASSUME IInv, Finish PROVE IInv'
<1>1. pc = "done" /\ ak' = ak /\ InCall /\ AtDone /\ Memory /\ TypeOK
  BY DEF Finish, IInv
<1>2. NoCall \in Calls /\ NoCall.kept = None
  BY DEF NoCall, Calls, Statuses, Ended
<1>3. CASE /\ call.plan /\ call.st = "Success"
           /\ fallbacks' = 0
           /\ fk' = [fk EXCEPT !.slack = TRUE]
           /\ info' = [info EXCEPT !.pairs = TRUE]
           /\ pc' = "idle" /\ call' = NoCall
  <2>1. /\ fk' \in Keeps /\ fk'.slack = TRUE /\ fk'.path = fk.path
        /\ fk'.sig = fk.sig /\ fk'.scale = fk.scale /\ fk'.held = fk.held
        /\ fk'.static = fk.static /\ fk'.rejected = fk.rejected /\ fk'.analysis = fk.analysis
    BY <1>1, <1>3 DEF TypeOK, Keeps
  <2>2. /\ info' \in Infos /\ info'.pairs = TRUE /\ info'.rescales = info.rescales
        /\ info'.static = info.static /\ info'.scaling = info.scaling
    BY <1>1, <1>3 DEF TypeOK, Infos
  <2>3. TypeOK'
    BY <1>1, <1>2, <1>3, <2>1, <2>2, ValuesAssumption DEF TypeOK
  <2>4. Memory'
    BY <1>1, <1>2, <1>3, <2>1 DEF Memory
  <2>5. fk.held.a = Reduced /\ Described
    BY <1>1, <1>3 DEF InCall, AtDone, Ended
  <2>6. InfoDescribesFactor'
    BY <2>1, <2>2, <2>5 DEF InfoDescribesFactor, Described
  <2>7. /\ InCall' /\ InStage' /\ AtDone' /\ KeepMatchesFactor' /\ ReuseNeverDrifts'
    BY <1>3 DEF InCall, InStage, Stages, AtDone, KeepMatchesFactor, ReuseNeverDrifts
  <2>8. QED
    BY <2>3, <2>4, <2>6, <2>7 DEF IInv
<1>4. CASE /\ call.plan
           /\ fallbacks' = fallbacks + 1
           /\ info' = RejectedInfo
           /\ call' = RejectedCall(call)
           /\ pc' = "dispatch"
           /\ UNCHANGED fk
  <2>1. /\ call' \in Calls /\ call'.v = call.v /\ call'.c = call.c /\ call'.a = Full
        /\ call'.plan = FALSE /\ call'.via = "none" /\ call'.kept = None /\ call'.probe = -1
    BY <1>1, <1>2, <1>4 DEF RejectedCall, NoCall, Calls, TypeOK, InCall, Analyses
  <2>2. info' \in Infos /\ ~info'.pairs /\ info'.rescales = 0 /\ info'.static = 0
    BY <1>4 DEF RejectedInfo, NoInfo, Infos
  <2>3. fallbacks' \in 0..SlackMaxFallbacks
    BY <1>1, <1>4, ValuesAssumption DEF TypeOK, InCall
  <2>4. TypeOK'
    BY <1>1, <1>4, <2>1, <2>2, <2>3 DEF TypeOK
  <2>5. Memory'
    BY <1>1, <1>4, <2>1 DEF Memory
  <2>6. InCall'
    BY <1>1, <1>4, <2>1, <2>2 DEF InCall, Analyses
  <2>7. /\ InStage' /\ AtDone'
        /\ KeepMatchesFactor' /\ InfoDescribesFactor' /\ ReuseNeverDrifts'
    BY <1>4 DEF InStage, Stages, AtDone, KeepMatchesFactor, InfoDescribesFactor, ReuseNeverDrifts
  <2>8. QED
    BY <2>4, <2>5, <2>6, <2>7 DEF IInv
<1>5. CASE /\ ~call.plan
           /\ pc' = "idle" /\ call' = NoCall
           /\ UNCHANGED <<fallbacks, fk, info>>
  <2>1. TypeOK' /\ Memory'
    BY <1>1, <1>2, <1>5 DEF TypeOK, Memory
  <2>2. InfoDescribesFactor'
    BY <1>1, <1>5 DEF InfoDescribesFactor, Described, AtDone, InCall
  <2>3. /\ InCall' /\ InStage' /\ AtDone' /\ KeepMatchesFactor' /\ ReuseNeverDrifts'
    BY <1>5 DEF InCall, InStage, Stages, AtDone, KeepMatchesFactor, ReuseNeverDrifts
  <2>4. QED
    BY <2>1, <2>2, <2>3 DEF IInv
<1>6. QED
  BY <1>3, <1>4, <1>5 DEF Finish

-----------------------------------------------------------------------------
\* The last stage of a driver: what it must leave for the invariant.
LEMMA EndHolds ==
  ASSUME IInv, pc \notin {"idle", "done"}, pc' = "done",
         fallbacks' = fallbacks, ak' \in [Analyses -> [re : Values \cup {None}, tried : BOOLEAN]],
         fk' \in Keeps, info' \in Infos, NEW st \in Statuses, Done(st),
         fk'.held.a = call.a, fk'.held.v = call.v, fk'.held.st = st, fk'.slack = FALSE,
         info'.pairs = FALSE, SignaturesTell => Hopeless(fk'.sig),
         fk'.static => fk'.rejected # fk'.analysis,
         fk'.scale # None => fk'.scale.omega = fk'.scale.fresh,
         st \in Ended => Described',
         call.via # "none" /\ fk'.analysis # None =>
           /\ fk'.held.a = fk'.analysis /\ st \in Ended
           /\ fk'.scale # None => fk'.held.scale = fk'.scale.of
           /\ SignaturesTell /\ fk'.scale = None =>
                fk'.next \/ fk'.static \/ MatchingScale(call.a, call.v) = None
           /\ ~(fk'.next /\ fk'.static)
  PROVE  IInv'
<1>1. /\ call' \in Calls /\ call'.v = call.v /\ call'.c = call.c /\ call'.a = call.a
      /\ call'.plan = call.plan /\ call'.via = call.via /\ call'.kept = call.kept
      /\ call'.st = st /\ call'.probe = call.probe
  BY DEF Done, IInv, TypeOK, Calls
<1>2. /\ call.v \in Values /\ call.c \in Controls /\ call.a \in Analyses /\ call.probe = -1
      /\ call.plan => call.a = Reduced /\ fallbacks < SlackMaxFallbacks
  BY DEF IInv, InCall
<1>3. TypeOK'
  BY <1>1 DEF IInv, TypeOK
<1>4. Memory'
  BY <1>1 DEF IInv, Memory
<1>5. InCall'
  BY <1>1, <1>2 DEF InCall
<1>6. AtDone'
  BY <1>1 DEF AtDone
<1>7. SignaturesTell => KeepMatchesFactor'
  BY <1>1 DEF KeepMatchesFactor
<1>8. ReuseNeverDrifts'
  BY <1>1, <1>2 DEF ReuseNeverDrifts
<1>9. InStage' /\ InfoDescribesFactor'
  BY DEF InStage, Stages, InfoDescribesFactor
<1>10. QED
  BY <1>3, <1>4, <1>5, <1>6, <1>7, <1>8, <1>9 DEF IInv

\* A stage of the rescue that leads to another: it has run the engine, but
\* neither the rescue state nor Info has changed.
LEMMA NextStageHolds ==
  ASSUME IInv, pc \in Stages, pc' \in Stages \ {"unarmed", "kept"},
         UNCHANGED <<ak, fallbacks, info, call>>,
         NEW scale \in Values \cup {None}, NEW st \in Statuses,
         NEW h \in Held(fk, call.a, scale, st),
         fk' = h \/ (pc' = "rescale" /\ fk' = [h EXCEPT !.rejected = call.a]),
         pc' = "static" => fk.rejected # call.a
  PROVE  IInv'
<1>1. pc \notin {"idle", "done"} /\ pc' \notin {"idle", "done", "dispatch", "again", "unarmed", "kept"}
  BY DEF Stages
<1>2. TypeOK /\ Memory /\ InCall /\ InStage /\ call.v \in Values /\ call.a \in Analyses
  BY <1>1 DEF IInv, InCall
<1>3. /\ h \in Keeps
      /\ h.analysis = fk.analysis /\ h.scale = fk.scale /\ h.sig = fk.sig
      /\ h.next = fk.next /\ h.static = fk.static /\ h.slack = fk.slack /\ h.rejected = fk.rejected
  <2>1. Ran(h, call.a, scale, st)
    BY <1>2, HeldFacts
  <2>2. QED
    BY <2>1 DEF Ran
<1>4. /\ fk' \in Keeps
      /\ fk'.analysis = fk.analysis /\ fk'.scale = fk.scale /\ fk'.sig = fk.sig
      /\ fk'.next = fk.next /\ fk'.static = fk.static /\ fk'.slack = fk.slack
      /\ pc' = "static" => fk'.rejected # call.a
  BY <1>2, <1>3 DEF Keeps
<1>5. TypeOK'
  BY <1>2, <1>4 DEF TypeOK
<1>6. Memory'
  BY <1>2, <1>4 DEF Memory, InStage
<1>7. InCall'
  BY <1>1, <1>2, <1>4 DEF InCall
<1>8. InStage'
  BY <1>1, <1>2, <1>4 DEF InStage
<1>9. /\ AtDone' /\ KeepMatchesFactor' /\ InfoDescribesFactor' /\ ReuseNeverDrifts'
  BY <1>1 DEF AtDone, KeepMatchesFactor, InfoDescribesFactor, ReuseNeverDrifts
<1>10. QED
  BY <1>5, <1>6, <1>7, <1>8, <1>9 DEF IInv

-----------------------------------------------------------------------------
(* factor_with_matching_trigger                                            *)

\* What holds while a driver runs.
LEMMA RunningFacts ==
  ASSUME IInv, pc \notin {"idle", "done"}
  PROVE  /\ TypeOK /\ Memory /\ InStage
         /\ call.v \in Values /\ call.c \in Controls /\ call.a \in Analyses
         /\ fk \in Keeps /\ info \in Infos /\ call \in Calls
         /\ fk.slack = FALSE /\ info.pairs = FALSE
         /\ info.rescales = 0 /\ info.static = 0 /\ call.probe = -1
         /\ pc \in {"dispatch", "again"} => call.via = "none"
<1>1. TypeOK /\ Memory /\ InCall /\ InStage
  BY DEF IInv
<1>2. fk \in Keeps /\ info \in Infos /\ call \in Calls
  BY <1>1 DEF TypeOK
<1>3. fk.slack \in BOOLEAN /\ info.pairs \in BOOLEAN
  BY <1>2 DEF Keeps, Infos
<1>4. QED
  BY <1>1, <1>2, <1>3 DEF InCall

\* The statuses a run of the engine to the end or to an error has.
LEMMA StatusType ==
  ASSUME NEW st \in Ended \cup {"Error"} \cup IF call.c.bound THEN {"InertiaExceeded"} ELSE {}
  PROVE  st \in Statuses
BY DEF Statuses, Ended

LEMMA StaticModeHolds ==
  ASSUME IInv, StaticMode PROVE IInv'
<1> DEFINE a == call.a
<1>1. PICK st \in Ended \cup {"Error"} \cup IF call.c.bound THEN {"InertiaExceeded"} ELSE {} :
        /\ \E h \in Held(fk, a, ResolvedScale(a), st) :
             fk' = [h EXCEPT !.analysis = None, !.next = FALSE, !.static = FALSE, !.scale = None,
                             !.path = IF st # "InertiaExceeded" THEN TRUE ELSE @]
        /\ info' = [info EXCEPT !.scaling = Scaling(ResolvedScale(a)),
                                !.static = IF st # "InertiaExceeded" THEN 1 ELSE 0]
        /\ Done(st)
  BY DEF StaticMode
<1>2. pc = "dispatch" /\ ak' = ak /\ fallbacks' = fallbacks
  BY DEF StaticMode
<1>3. /\ TypeOK /\ Memory /\ call.v \in Values /\ a \in Analyses /\ info \in Infos
      /\ fk.slack = FALSE /\ info.pairs = FALSE /\ info.rescales = 0 /\ call.via = "none"
  BY <1>2, RunningFacts
<1>4. PICK h \in Held(fk, a, ResolvedScale(a), st) :
        fk' = [h EXCEPT !.analysis = None, !.next = FALSE, !.static = FALSE, !.scale = None,
                        !.path = IF st # "InertiaExceeded" THEN TRUE ELSE @]
  BY <1>1
<1>5. st \in Statuses /\ ResolvedScale(a) \in Values \cup {None}
  BY <1>3, StatusType, ResolvedScaleType
<1>6. Ran(h, a, ResolvedScale(a), st)
  BY <1>3, <1>5, HeldFacts
<1> HIDE DEF a
<1>7. /\ fk' \in Keeps /\ fk'.slack = FALSE /\ fk'.sig = fk.sig /\ fk'.scale = None
      /\ fk'.analysis = None /\ fk'.held = h.held /\ fk'.static = FALSE
      /\ st # "InertiaExceeded" => fk'.path = TRUE
  BY <1>3, <1>4, <1>6 DEF Ran, Keeps
<1>8. h.held.a = a /\ h.held.v = call.v /\ h.held.st = st /\ h.held.scale = ResolvedScale(a)
  BY <1>6 DEF Ran
<1>9. /\ info' \in Infos /\ info'.pairs = FALSE /\ info'.rescales = 0
      /\ info'.scaling = Scaling(ResolvedScale(a))
      /\ st # "InertiaExceeded" => info'.static = 1
  BY <1>1, <1>3, ScalingSays DEF Infos
<1>10. st \in Ended => Described'
  <2>1. st \in Ended => st # "InertiaExceeded"
    BY DEF Ended
  <2>2. info'.scaling = "Matching" <=> fk'.held.scale # None
    BY <1>7, <1>8, <1>9, ScalingSays
  <2>3. QED
    BY <1>7, <1>9, <2>1, <2>2 DEF Described
<1>11. /\ SignaturesTell => Hopeless(fk'.sig)
       /\ ak' \in [Analyses -> [re : Values \cup {None}, tried : BOOLEAN]]
  BY <1>2, <1>3, <1>7 DEF Memory, TypeOK
<1>12. pc' = "done" /\ Done(st)
  BY <1>1 DEF Done
<1>13. QED
  BY <1>2, <1>3, <1>5, <1>7, <1>8, <1>9, <1>10, <1>11, <1>12, EndHolds DEF a

\* A driver that ends with what the engine left, recording no rescue state.
LEMMA RunEndHolds ==
  ASSUME IInv, pc \notin {"idle", "done"},
         fallbacks' = fallbacks, ak' \in [Analyses -> [re : Values \cup {None}, tried : BOOLEAN]],
         NEW scale \in Values \cup {None}, NEW st \in Statuses,
         fk' \in Held(fk, call.a, scale, st), Done(st),
         info' \in Infos, info'.pairs = FALSE,
         st \in Ended => info'.static = 0 /\ info'.rescales = 0,
         st \in Ended => (info'.scaling = "Matching" <=> scale # None)
  PROVE  IInv'
<1>1. /\ TypeOK /\ Memory /\ InStage /\ call.v \in Values /\ call.a \in Analyses
      /\ fk.slack = FALSE /\ (pc \in {"dispatch", "again"} => call.via = "none")
  BY RunningFacts
<1>2. Ran(fk', call.a, scale, st)
  BY <1>1, HeldFacts
<1>3. /\ fk' \in Keeps /\ fk'.slack = FALSE /\ fk'.sig = fk.sig /\ fk'.scale = fk.scale
      /\ fk'.analysis = fk.analysis /\ (st # "Error" => fk'.path = FALSE)
      /\ fk'.held.a = call.a /\ fk'.held.v = call.v /\ fk'.held.st = st
      /\ fk'.held.scale = scale
      /\ fk'.static = fk.static /\ fk'.rejected = fk.rejected
  BY <1>1, <1>2 DEF Ran
<1>4. call.via = "none" \/ fk'.analysis = None
  BY <1>1, <1>3 DEF InStage, TypeOK
<1>5. (SignaturesTell => Hopeless(fk'.sig)) /\ (fk'.scale # None => fk'.scale.omega = fk'.scale.fresh)
      /\ (fk'.static => fk'.rejected # fk'.analysis)
  BY <1>1, <1>3 DEF Memory
<1>6. st \in Ended => Described'
  <2>1. st \in Ended => st # "Error"
    BY DEF Ended
  <2>2. QED
    BY <1>3, <2>1 DEF Described
<1>7. pc' = "done"
  BY DEF Done
<1>8. QED
  BY <1>3, <1>4, <1>5, <1>6, <1>7, EndHolds

LEMMA PlainHolds ==
  ASSUME IInv, Plain PROVE IInv'
<1> DEFINE a     == call.a
           scale == ResolvedScale(a)
           says  == Scaling(scale)
<1>1. pc = "dispatch" /\ fallbacks' = fallbacks
  BY DEF Plain
<1>2. PICK st \in Ended \cup {"Error"} \cup IF call.c.bound THEN {"InertiaExceeded"} ELSE {} :
        /\ fk' \in Held(fk, a, scale, st)
        /\ info' = [info EXCEPT !.scaling = says]
        /\ \/ Done(st) /\ UNCHANGED ak
           \/ /\ ak[a].re = None /\ RealizedPending(a) /\ st \in Ended
              /\ \/ /\ MatchingScale(a, call.v) # None
                    /\ ak' = [ak EXCEPT ![a] = [re |-> call.v, tried |-> TRUE]]
                    /\ pc' = "again" /\ UNCHANGED call
                 \/ /\ ak' = [ak EXCEPT ![a].tried = TRUE]
                    /\ Done(st)
  BY DEF Plain
<1>3. /\ TypeOK /\ Memory /\ call.v \in Values /\ call.c \in Controls /\ a \in Analyses
      /\ info \in Infos /\ call \in Calls
      /\ fk.slack = FALSE /\ info.pairs = FALSE /\ info.rescales = 0 /\ info.static = 0
      /\ call.via = "none" /\ call.probe = -1
  BY <1>1, RunningFacts
<1>4. st \in Statuses /\ scale \in Values \cup {None}
  BY <1>3, StatusType, ResolvedScaleType
<1>5. says \in {"None", "Matching"} /\ (says = "Matching" <=> scale # None)
  BY ScalingSays
<1>6. Ran(fk', a, scale, st)
  BY <1>2, <1>3, <1>4, HeldFacts
<1>7. /\ info' \in Infos /\ info'.pairs = FALSE /\ info'.rescales = 0 /\ info'.static = 0
      /\ info'.scaling = says
  <2> HIDE DEF says
  <2>1. QED
    BY <1>2, <1>3, <1>5 DEF Infos
<1>8. ak' \in [Analyses -> [re : Values \cup {None}, tried : BOOLEAN]]
  <2>1. ak \in [Analyses -> [re : Values \cup {None}, tried : BOOLEAN]]
    BY <1>3 DEF TypeOK
  <2>2. \/ ak' = ak \/ ak' = [ak EXCEPT ![a] = [re |-> call.v, tried |-> TRUE]]
        \/ ak' = [ak EXCEPT ![a].tried = TRUE]
    BY <1>2
  <2>3. a \in Analyses /\ [re |-> call.v, tried |-> TRUE] \in [re : Values \cup {None}, tried : BOOLEAN]
    BY <1>3
  <2>4. [ak[a] EXCEPT !.tried = TRUE] \in [re : Values \cup {None}, tried : BOOLEAN]
    BY <2>1, <2>3
  <2> HIDE DEF a
  <2>5. QED
    BY <2>1, <2>2, <2>3, <2>4
<1>9. CASE Done(st)
  <2> HIDE DEF a, scale, says
  <2>1. fk' \in Held(fk, call.a, scale, st)
    BY <1>2 DEF a
  <2>2. QED
    BY <1>1, <1>4, <1>5, <1>7, <1>8, <1>9, <2>1, RunEndHolds
<1>10. CASE pc' = "again" /\ UNCHANGED call
  <2> HIDE DEF scale, says
  <2>1. TypeOK'
    BY <1>1, <1>3, <1>6, <1>7, <1>8, <1>10 DEF TypeOK, Ran
  <2>2. Memory'
    BY <1>3, <1>6, <1>10 DEF Memory, Ran
  <2>3. InCall'
    BY <1>1, <1>3, <1>6, <1>7, <1>10 DEF IInv, InCall, Ran
  <2>4. /\ InStage' /\ AtDone'
        /\ KeepMatchesFactor' /\ InfoDescribesFactor' /\ ReuseNeverDrifts'
    BY <1>10 DEF InStage, Stages, AtDone, KeepMatchesFactor, InfoDescribesFactor, ReuseNeverDrifts
  <2>5. QED
    BY <2>1, <2>2, <2>3, <2>4 DEF IInv
<1>11. QED
  BY <1>2, <1>9, <1>10

LEMMA FactorAgainHolds ==
  ASSUME IInv, FactorAgain PROVE IInv'
<1>1. PICK st \in Ended \cup {"Error"} \cup IF call.c.bound THEN {"InertiaExceeded"} ELSE {} :
        fk' \in Held(fk, call.a, ResolvedScale(call.a), st) /\ Done(st)
  BY DEF FactorAgain
<1>2. /\ pc = "again" /\ info' = [info EXCEPT !.scaling = Scaling(ResolvedScale(call.a))]
      /\ ak' = ak /\ fallbacks' = fallbacks
  BY DEF FactorAgain
<1>3. /\ TypeOK /\ call.v \in Values /\ call.a \in Analyses /\ info \in Infos
      /\ info.pairs = FALSE /\ info.rescales = 0 /\ info.static = 0
  BY <1>2, RunningFacts
<1>4. st \in Statuses
  BY StatusType
<1>5. /\ info' \in Infos /\ info'.pairs = FALSE /\ info'.rescales = 0 /\ info'.static = 0
      /\ info'.scaling = Scaling(ResolvedScale(call.a))
  BY <1>2, <1>3, ScalingSays DEF Infos
<1>6. ResolvedScale(call.a) \in Values \cup {None} /\ ak' \in [Analyses -> [re : Values \cup {None}, tried : BOOLEAN]]
  BY <1>2, <1>3, ResolvedScaleType DEF TypeOK
<1>7. QED
  BY <1>1, <1>2, <1>3, <1>4, <1>5, <1>6, ScalingSays, RunEndHolds

-----------------------------------------------------------------------------
(* factor_scale_on_delay                                                   *)

LEMMA EnterHolds ==
  ASSUME IInv, Enter PROVE IInv'
<1> DEFINE a        == call.a
           armed    == Armed(a)
           ours     == fk.analysis = a
           next     == ours /\ fk.next
           goStatic == ours /\ fk.static /\ armed /\ call.c.fallback
           hopeless == ours /\ ~next /\ ~goStatic /\ fk.scale = None
           first    == ~ours \/ hopeless \/ next
           carries  == next /\ armed /\ call.c.carry /\ call.c.next
           fits     == ~first /\ call.c.reuse /\ fk.scale # None
                         /\ <<fk.scale.of, call.v>> \in Fits
           via      == IF armed THEN "armed" ELSE "safety"
           kept     == IF ours THEN fk.scale ELSE None
<1>1. pc = "dispatch" /\ UNCHANGED <<ak, fallbacks, info>>
  BY DEF Enter
<1>2. pc' = CASE goStatic -> "static"
              [] ~goStatic /\ hopeless /\ SameZeros(call.v) -> "unarmed"
              [] ~goStatic /\ fits -> "kept"
              [] ~goStatic /\ first /\ ~carries /\ ~(hopeless /\ SameZeros(call.v)) -> "try"
              [] OTHER -> "rescale"
  BY DEF Enter
<1>3. call' = [call EXCEPT !.via = via, !.kept = kept, !.next = next]
  BY DEF Enter
<1>4. fk' = [fk EXCEPT !.analysis = None, !.next = FALSE, !.static = FALSE, !.scale = None]
  BY DEF Enter
<1>5. /\ TypeOK /\ Memory /\ call.v \in Values /\ call.c \in Controls /\ a \in Analyses
      /\ fk \in Keeps /\ call \in Calls
      /\ fk.slack = FALSE /\ info.pairs = FALSE /\ info.rescales = 0 /\ info.static = 0
      /\ call.probe = -1
  BY <1>1, RunningFacts
<1>6. /\ pc' \in Stages
      /\ pc' = "unarmed" => hopeless /\ SameZeros(call.v)
      /\ pc' = "kept" => fits
      /\ pc' = "static" => goStatic
  <2> HIDE DEF goStatic, hopeless, fits, first, carries
  <2>1. QED
    BY <1>2 DEF Stages
<1>7. via \in {"armed", "safety"} /\ kept \in KeptScales \cup {None} /\ next \in BOOLEAN
  <2>1. fk.scale \in KeptScales \cup {None}
    BY <1>5 DEF Keeps
  <2>2. QED
    BY <2>1
<1>8. kept # None => kept.omega = kept.fresh
  BY <1>5 DEF Memory
<1>9. pc' = "kept" => kept # None
  BY <1>6
<1>10. pc' = "unarmed" => (SignaturesTell => MatchingScale(call.a, call.v) = None)
  BY <1>5, <1>6 DEF SameZeros, Memory, Hopeless
<1>11. pc' = "static" => fk.rejected # a
  BY <1>5, <1>6 DEF Memory
<1>12. /\ call' \in Calls /\ call'.v = call.v /\ call'.c = call.c /\ call'.a = call.a
       /\ call'.plan = call.plan /\ call'.via = via /\ call'.kept = kept
       /\ call'.probe = call.probe
  <2> HIDE DEF via, kept, next
  <2>1. QED
    BY <1>3, <1>5, <1>7 DEF Calls
<1>13. /\ fk' \in Keeps /\ fk'.slack = fk.slack /\ fk'.sig = fk.sig /\ fk'.analysis = None
       /\ fk'.next = FALSE /\ fk'.static = FALSE /\ fk'.scale = None
       /\ fk'.rejected = fk.rejected
  BY <1>4, <1>5 DEF Keeps
<1>14. pc' \notin {"idle", "done", "dispatch", "again"}
  BY <1>6 DEF Stages
<1> HIDE DEF via, kept
<1>15. TypeOK'
  BY <1>1, <1>5, <1>6, <1>12, <1>13 DEF TypeOK
<1>16. Memory'
  BY <1>5, <1>8, <1>12, <1>13 DEF Memory
<1>17. InCall'
  BY <1>1, <1>5, <1>12, <1>13, <1>14 DEF IInv, InCall
<1>18. InStage'
  BY <1>7, <1>9, <1>10, <1>11, <1>12, <1>13 DEF InStage
<1>19. /\ AtDone' /\ KeepMatchesFactor' /\ InfoDescribesFactor' /\ ReuseNeverDrifts'
  BY <1>14 DEF AtDone, KeepMatchesFactor, InfoDescribesFactor, ReuseNeverDrifts
<1>20. QED
  BY <1>15, <1>16, <1>17, <1>18, <1>19 DEF IInv

\* What holds in a stage of the rescue.
LEMMA StageFacts ==
  ASSUME IInv, pc \in Stages
  PROVE  /\ pc \notin {"idle", "done"}
         /\ TypeOK /\ Memory /\ InStage
         /\ call.v \in Values /\ call.c \in Controls /\ call.a \in Analyses
         /\ fk \in Keeps /\ info \in Infos /\ call \in Calls
         /\ fk.slack = FALSE /\ info.pairs = FALSE
         /\ info.rescales = 0 /\ info.static = 0 /\ call.probe = -1
         /\ fk.analysis = None /\ fk.next = FALSE /\ fk.static = FALSE /\ fk.scale = None
<1>1. pc \notin {"idle", "done"}
  BY DEF Stages
<1>2. fk \in Keeps /\ InStage
  BY <1>1, RunningFacts
<1>3. fk.next \in BOOLEAN /\ fk.static \in BOOLEAN
  BY <1>2 DEF Keeps
<1>4. fk.analysis = None /\ fk.next = FALSE /\ fk.static = FALSE /\ fk.scale = None
  BY <1>2, <1>3 DEF InStage
<1>5. QED
  BY <1>1, <1>4, RunningFacts

\* Info after a run with scale, as Auto resolves it or not.
LEMMA InfoAfter ==
  ASSUME info \in Infos, NEW says \in {"None", "Matching", "User"},
         info' = [info EXCEPT !.scaling = says]
  PROVE  /\ info' \in Infos /\ info'.scaling = says /\ info'.pairs = info.pairs
         /\ info'.rescales = info.rescales /\ info'.static = info.static
BY DEF Infos

\* The kept factor's analysis and zero pattern, once its driver ended well.
LEMMA UnarmedHolds ==
  ASSUME IInv, Unarmed PROVE IInv'
<1> DEFINE a == call.a
<1>1. pc = "unarmed" /\ pc \in Stages /\ ak' = ak /\ fallbacks' = fallbacks
      /\ info' = [info EXCEPT !.scaling = Scaling(AutoScale(a))]
  BY DEF Unarmed, Stages
<1>0. PICK st \in Ended \cup {"Error"} : \E h \in Held(fk, a, AutoScale(a), st) :
        /\ fk' = IF st \in Ended THEN [h EXCEPT !.analysis = a] ELSE h
        /\ Done(st)
  BY DEF Unarmed
<1>2. PICK h \in Held(fk, a, AutoScale(a), st) :
        /\ fk' = IF st \in Ended THEN [h EXCEPT !.analysis = a] ELSE h
        /\ Done(st)
  BY <1>0
<1>3. /\ pc \notin {"idle", "done"} /\ TypeOK /\ Memory /\ InStage
      /\ call.v \in Values /\ a \in Analyses /\ info \in Infos
      /\ info.pairs = FALSE /\ info.rescales = 0 /\ info.static = 0
      /\ fk.slack = FALSE /\ fk.next = FALSE /\ fk.static = FALSE /\ fk.scale = None
  BY <1>1, StageFacts
<1>4. st \in Statuses /\ AutoScale(a) \in Values \cup {None} /\ Scaling(AutoScale(a)) \in {"None", "Matching"}
      /\ (Scaling(AutoScale(a)) = "Matching" <=> AutoScale(a) # None)
  BY AutoScaleType, ScalingSays DEF Statuses
<1>5. /\ info' \in Infos /\ info'.scaling = Scaling(AutoScale(a)) /\ info'.pairs = FALSE
      /\ info'.rescales = 0 /\ info'.static = 0
  BY <1>1, <1>3, <1>4, InfoAfter
<1>6. Ran(h, a, AutoScale(a), st) /\ ak' \in [Analyses -> [re : Values \cup {None}, tried : BOOLEAN]]
  BY <1>1, <1>3, <1>4, HeldFacts DEF TypeOK
<1> HIDE DEF a
<1>7. CASE st \in Ended
  <2>1. /\ fk' \in Keeps /\ fk'.slack = FALSE /\ fk'.sig = fk.sig /\ fk'.scale = None
        /\ fk'.analysis = a /\ fk'.held = h.held /\ fk'.path = h.path
        /\ fk'.next = FALSE /\ fk'.static = FALSE
    BY <1>2, <1>3, <1>6, <1>7 DEF Ran, Keeps
  <2>2. /\ h.held.a = a /\ h.held.v = call.v /\ h.held.st = st /\ h.held.scale = AutoScale(a)
        /\ h.path = FALSE
    BY <1>6, <1>7 DEF Ran, Ended
  <2>3. Described'
    BY <1>4, <1>5, <2>1, <2>2 DEF Described
  <2>4. (SignaturesTell => Hopeless(fk'.sig)) /\ (SignaturesTell => MatchingScale(call.a, call.v) = None)
    BY <1>1, <1>3, <2>1 DEF Memory, InStage
  <2>5. pc' = "done"
    BY <1>2 DEF Done
  <2>6. QED
    BY <1>1, <1>2, <1>3, <1>4, <1>5, <1>6, <1>7, <2>1, <2>2, <2>3, <2>4, <2>5, EndHolds DEF a
<1>8. CASE st \notin Ended
  BY <1>1, <1>2, <1>3, <1>4, <1>5, <1>6, <1>8, RunEndHolds DEF a
<1>9. QED
  BY <1>7, <1>8

LEMMA TryAutoHolds ==
  ASSUME IInv, TryAuto PROVE IInv'
<1> DEFINE a == call.a
           says == Scaling(AutoScale(a))
<1>1. pc = "try" /\ pc \in Stages /\ ak' = ak /\ fallbacks' = fallbacks
  BY DEF TryAuto, Stages
<1>2. /\ pc \notin {"idle", "done"} /\ TypeOK /\ Memory
      /\ call.v \in Values /\ a \in Analyses /\ info \in Infos
      /\ info.pairs = FALSE /\ info.rescales = 0 /\ info.static = 0
      /\ fk.slack = FALSE /\ fk.scale = None
  BY <1>1, StageFacts
<1>3. /\ AutoScale(a) \in Values \cup {None} /\ says \in {"None", "Matching"}
      /\ says = "Matching" <=> AutoScale(a) # None
      /\ ak' \in [Analyses -> [re : Values \cup {None}, tried : BOOLEAN]]
  BY <1>1, <1>2, AutoScaleType, ScalingSays DEF TypeOK
<1>4. ASSUME NEW st \in Ended \cup {"Error"}, NEW costly \in BOOLEAN,
             NEW h \in Held(fk, a, AutoScale(a), st),
             fk' = IF st \in Ended /\ NextOn /\ costly /\ ~OwnScale(a)
                   THEN [h EXCEPT !.analysis = a, !.static = Fallback(a), !.next = ~Fallback(a)]
                   ELSE h,
             info' = [info EXCEPT !.scaling = says], Done(st)
      PROVE  IInv'
  <2>1. st \in Statuses
    BY DEF Statuses
  <2>2. /\ info' \in Infos /\ info'.scaling = says /\ info'.pairs = FALSE
        /\ info'.rescales = 0 /\ info'.static = 0
    BY <1>2, <1>3, <1>4, InfoAfter
  <2>3. Ran(h, a, AutoScale(a), st)
    BY <1>2, <1>3, <2>1, HeldFacts
  <2>4. CASE fk' = h
    <3> HIDE DEF a
    <3>1. QED
      BY <1>1, <1>2, <1>3, <1>4, <2>1, <2>2, <2>4, RunEndHolds DEF a
  <2>5. CASE /\ st \in Ended
             /\ fk' = [h EXCEPT !.analysis = a, !.static = Fallback(a), !.next = ~Fallback(a)]
    <3> HIDE DEF a, says
    <3>1. Fallback(a) \in BOOLEAN
      BY DEF Fallback
    <3>2. /\ fk' \in Keeps /\ fk'.slack = FALSE /\ fk'.sig = fk.sig /\ fk'.scale = None
          /\ fk'.analysis = a /\ fk'.held = h.held /\ fk'.path = h.path
          /\ fk'.static = Fallback(a) /\ fk'.next = ~Fallback(a) /\ fk'.rejected = fk.rejected
      BY <1>2, <2>3, <2>5, <3>1 DEF Ran, Keeps
    <3>3. /\ h.held.a = a /\ h.held.v = call.v /\ h.held.st = st /\ h.held.scale = AutoScale(a)
          /\ h.path = FALSE
      BY <2>3, <2>5 DEF Ran, Ended
    <3>4. Described'
      BY <1>3, <2>2, <3>2, <3>3 DEF Described
    <3>5. (SignaturesTell => Hopeless(fk'.sig)) /\ pc' = "done"
      BY <1>2, <1>4, <3>2 DEF Memory, Done
    <3>6. (fk'.next \/ fk'.static) /\ ~(fk'.next /\ fk'.static)
      BY <3>1, <3>2
    <3>7. fk'.static => fk'.rejected # fk'.analysis
      BY <3>2 DEF Fallback
    <3>8. QED
      BY <1>1, <1>2, <1>3, <1>4, <2>1, <2>2, <2>5, <3>2, <3>3, <3>4, <3>5, <3>6, <3>7, EndHolds DEF a
  <2>6. QED
    BY <1>4, <2>4, <2>5
<1>5. CASE /\ fk' \in Held(fk, a, AutoScale(a), "MaxPivotDelays")
           /\ pc' = AfterTrip(a)
           /\ UNCHANGED <<info, call>>
  <2>1. pc' \in Stages \ {"unarmed", "kept"} /\ "MaxPivotDelays" \in Statuses
    BY <1>5 DEF AfterTrip, Stages, Statuses
  <2>3. pc' = "static" => fk.rejected # a
    BY <1>5 DEF AfterTrip, Fallback
  <2>2. QED
    BY <1>1, <1>3, <1>5, <2>1, <2>3, NextStageHolds
<1>6. QED
  BY <1>4, <1>5 DEF TryAuto

LEMMA TryStaticHolds ==
  ASSUME IInv, TryStatic PROVE IInv'
<1> DEFINE a == call.a
           says == Scaling(AutoScale(a))
<1>1. pc = "static" /\ pc \in Stages /\ ak' = ak /\ fallbacks' = fallbacks
  BY DEF TryStatic, Stages
<1>2. /\ pc \notin {"idle", "done"} /\ TypeOK /\ Memory /\ InStage
      /\ call.v \in Values /\ a \in Analyses /\ info \in Infos
      /\ info.pairs = FALSE /\ info.rescales = 0 /\ info.static = 0
      /\ fk.slack = FALSE /\ fk.scale = None /\ fk.next = FALSE
  BY <1>1, StageFacts
<1>3. /\ AutoScale(a) \in Values \cup {None} /\ says \in {"None", "Matching"}
      /\ says = "Matching" <=> AutoScale(a) # None
      /\ ak' \in [Analyses -> [re : Values \cup {None}, tried : BOOLEAN]]
  BY <1>1, <1>2, AutoScaleType, ScalingSays DEF TypeOK
<1>4. {"Error", "Success"} \cup Ended \subseteq Statuses /\ "Success" \in Ended /\ "Error" \notin Ended
  BY DEF Statuses, Ended
<1>5. CASE fk' \in Held(fk, a, AutoScale(a), "Error") /\ Done("Error") /\ UNCHANGED info
  BY <1>1, <1>2, <1>3, <1>4, <1>5, RunEndHolds
<1>6. ASSUME NEW h \in Held(fk, a, AutoScale(a), "Success"),
             fk' = [h EXCEPT !.path = TRUE, !.analysis = a, !.static = TRUE],
             info' = [info EXCEPT !.static = 1, !.scaling = says], Done("Success")
      PROVE  IInv'
  <2>1. Ran(h, a, AutoScale(a), "Success")
    BY <1>2, <1>3, <1>4, HeldFacts
  <2> HIDE DEF a, says
  <2>2. /\ info' \in Infos /\ info'.scaling = says /\ info'.pairs = FALSE
        /\ info'.rescales = 0 /\ info'.static = 1
    BY <1>2, <1>3, <1>6 DEF Infos
  <2>3. /\ fk' \in Keeps /\ fk'.slack = FALSE /\ fk'.sig = fk.sig /\ fk'.scale = None
        /\ fk'.analysis = a /\ fk'.held = h.held /\ fk'.path = TRUE
        /\ fk'.static = TRUE /\ fk'.next = FALSE /\ fk'.rejected = fk.rejected
    BY <1>2, <1>6, <2>1 DEF Ran, Keeps
  <2>4. /\ h.held.a = a /\ h.held.v = call.v /\ h.held.st = "Success"
        /\ h.held.scale = AutoScale(a)
    BY <2>1 DEF Ran
  <2>5. Described'
    BY <1>3, <2>2, <2>3, <2>4 DEF Described
  <2>6. (SignaturesTell => Hopeless(fk'.sig)) /\ pc' = "done"
    BY <1>2, <1>6, <2>3 DEF Memory, Done
  <2>7. fk'.rejected # fk'.analysis
    BY <1>1, <1>2, <2>3 DEF InStage, a
  <2>8. QED
    BY <1>1, <1>2, <1>3, <1>4, <1>6, <2>2, <2>3, <2>4, <2>5, <2>6, <2>7, EndHolds DEF a
<1>7. ASSUME NEW st \in Ended, NEW h \in Held(fk, a, AutoScale(a), st),
             fk' = [h EXCEPT !.rejected = a], pc' = "rescale", UNCHANGED <<info, call>>
      PROVE  IInv'
  <2>1. pc' \in Stages \ {"unarmed", "kept"} /\ st \in Statuses
    BY <1>4, <1>7 DEF Stages
  <2>2. QED
    BY <1>1, <1>3, <1>7, <2>1, NextStageHolds
<1>8. QED
  BY <1>5, <1>6, <1>7 DEF TryStatic

\* The kept scale: what it reports of its factor is judged by the error of
\* the scale's own first factor, since the kept record never changes.
LEMMA TryKeptHolds ==
  ASSUME IInv, TryKept PROVE IInv'
<1> DEFINE a == call.a
           kept == call.kept
<1>1. pc = "kept" /\ pc \in Stages /\ ak' = ak /\ fallbacks' = fallbacks
  BY DEF TryKept, Stages
<1>2. /\ pc \notin {"idle", "done"} /\ TypeOK /\ Memory /\ InStage /\ InCall
      /\ call.v \in Values /\ a \in Analyses /\ call.c \in Controls /\ info \in Infos
      /\ call \in Calls
      /\ info.pairs = FALSE /\ info.rescales = 0 /\ info.static = 0
      /\ fk.slack = FALSE /\ fk.scale = None /\ fk.next = FALSE /\ fk.static = FALSE
  BY <1>1, StageFacts DEF IInv
<1>3. kept \in KeptScales /\ kept # None /\ kept.omega = kept.fresh
  <2>1. kept # None /\ kept \in KeptScales \cup {None}
    BY <1>1, <1>2 DEF InStage, Calls
  <2>2. QED
    BY <1>2, <2>1 DEF Memory
<1>4. kept.of \in Values /\ kept.of # None /\ kept.omega \in Omegas \cup {-1}
  BY <1>3, NoneAssumption DEF KeptScales
<1>5. {"Error", "MaxPivotDelays"} \cup Ended \subseteq Statuses /\ "Error" \notin Ended
  BY DEF Statuses, Ended
<1>6. AfterMiss \in Stages \ {"unarmed", "kept"} /\ AfterMiss # "static"
  BY DEF AfterMiss, Stages
<1>7. CASE fk' \in Held(fk, a, kept.of, "Error") /\ Done("Error") /\ UNCHANGED info
  <2>1. ak' \in [Analyses -> [re : Values \cup {None}, tried : BOOLEAN]]
    BY <1>1, <1>2 DEF TypeOK
  <2>2. QED
    BY <1>1, <1>2, <1>4, <1>5, <1>7, <2>1, RunEndHolds
<1>8. ASSUME NEW st \in Ended, NEW h \in Held(fk, a, kept.of, st), fk' = h,
             pc' = AfterMiss, UNCHANGED <<info, call>>
      PROVE  IInv'
  BY <1>1, <1>4, <1>5, <1>6, <1>8, NextStageHolds
<1>9. CASE /\ fk' \in Held(fk, a, kept.of, "MaxPivotDelays")
           /\ pc' = AfterMiss /\ UNCHANGED <<info, call>>
  BY <1>1, <1>4, <1>5, <1>6, <1>9, NextStageHolds
<1>10. ASSUME NEW st \in Ended, NEW probe \in Omegas, NEW h \in Held(fk, a, kept.of, st),
              st = "Singular" \/ ReusePasses(probe, kept.omega),
              fk' = [h EXCEPT !.analysis = a, !.scale = KeptScale(probe)],
              info' = [info EXCEPT !.scaling = "Matching"], pc' = "done",
              call' = [call EXCEPT !.st = st, !.probe = IF st = "Success" THEN probe ELSE -1]
       PROVE  IInv'
  <2> DEFINE judged == IF st = "Success" THEN probe ELSE -1
  <2>1. Ran(h, a, kept.of, st)
    BY <1>2, <1>4, <1>5, HeldFacts
  <2>2. /\ info' \in Infos /\ info'.scaling = "Matching" /\ info'.pairs = FALSE
        /\ info'.rescales = 0 /\ info'.static = 0
    BY <1>2, <1>10, InfoAfter
  <2>3. judged \in Omegas \cup {-1} /\ st \in Statuses
    BY <1>5, <1>10
  <2>4. judged >= 0 => ReusePasses(probe, kept.omega) /\ judged = probe
    BY <1>10
  <2> HIDE DEF judged, a, kept
  <2>5. /\ call' \in Calls /\ call'.v = call.v /\ call'.c = call.c /\ call'.a = call.a
        /\ call'.plan = call.plan /\ call'.via = call.via /\ call'.kept = call.kept
        /\ call'.st = st /\ call'.probe = judged
    BY <1>2, <1>10, <2>3 DEF Calls, judged
  <2>6. /\ fk' \in Keeps /\ fk'.slack = FALSE /\ fk'.sig = fk.sig /\ fk'.scale = kept
        /\ fk'.analysis = a /\ fk'.held = h.held /\ fk'.path = h.path
        /\ fk'.static = FALSE /\ fk'.next = FALSE
    BY <1>2, <1>3, <1>10, <2>1 DEF Ran, Keeps, KeptScale, kept
  <2>7. /\ h.held.a = a /\ h.held.v = call.v /\ h.held.st = st /\ h.held.scale = kept.of
        /\ h.path = FALSE
    BY <1>5, <2>1 DEF Ran
  <2>8. TypeOK'
    BY <1>1, <1>2, <1>10, <2>2, <2>5, <2>6 DEF TypeOK
  <2>9. Memory'
    BY <1>2, <1>3, <2>5, <2>6 DEF Memory
  <2>10. InCall'
    BY <1>1, <1>2, <1>10, <2>2, <2>5, <2>6 DEF InCall
  <2>11. AtDone'
    BY <1>4, <2>2, <2>5, <2>6, <2>7 DEF AtDone, Described, a
  <2>12. KeepMatchesFactor'
    BY <1>3, <2>5, <2>6, <2>7 DEF KeepMatchesFactor
  <2>13. ReuseNeverDrifts'
    BY <1>3, <2>4, <2>5, <2>6 DEF ReuseNeverDrifts, ReusePasses
  <2>14. InStage' /\ InfoDescribesFactor'
    BY <1>10 DEF InStage, Stages, InfoDescribesFactor
  <2>15. QED
    BY <2>8, <2>9, <2>10, <2>11, <2>12, <2>13, <2>14 DEF IInv
<1>11. QED
  BY <1>7, <1>8, <1>9, <1>10 DEF TryKept

\* One analysis without a matching scaling of a signature's values speaks for
\* both, when signatures tell.
LEMMA HopelessSays ==
  ASSUME SignaturesTell, NEW b \in Analyses, NEW w \in Values, MatchingScale(b, w) = None
  PROVE  Hopeless(ZeroPattern[b][w])
<1>1. <<b, ZeroPattern[b][w]>> \notin Matchable
  BY NoneAssumption DEF MatchingScale
<1>2. ASSUME NEW a \in Analyses, NEW v \in Values, ZeroPattern[a][v] = ZeroPattern[b][w]
      PROVE  <<a, ZeroPattern[a][v]>> \notin Matchable
  BY <1>1, <1>2 DEF SignaturesTell
<1>3. QED
  BY <1>2 DEF Hopeless, MatchingScale

LEMMA RescaleHolds ==
  ASSUME IInv, Rescale PROVE IInv'
<1> DEFINE a == call.a
           scale == MatchingScale(a, call.v)
           says == Scaling(AutoScale(a))
<1>1. pc = "rescale" /\ pc \in Stages /\ ak' = ak /\ fallbacks' = fallbacks
  BY DEF Rescale, Stages
<1>2. /\ pc \notin {"idle", "done"} /\ TypeOK /\ Memory
      /\ call.v \in Values /\ a \in Analyses /\ info \in Infos
      /\ info.pairs = FALSE /\ info.rescales = 0 /\ info.static = 0
      /\ fk.slack = FALSE /\ fk.scale = None /\ fk.next = FALSE /\ fk.static = FALSE
  BY <1>1, StageFacts
<1>3. /\ AutoScale(a) \in Values \cup {None} /\ says \in {"None", "Matching"}
      /\ says = "Matching" <=> AutoScale(a) # None
      /\ ak' \in [Analyses -> [re : Values \cup {None}, tried : BOOLEAN]]
  BY <1>1, <1>2, AutoScaleType, ScalingSays DEF TypeOK
<1>4. /\ scale \in Values \cup {None} /\ (scale # None => scale = call.v)
      /\ scale = None => (SignaturesTell => MatchingScale(call.a, call.v) = None)
  BY <1>2, NoneAssumption DEF MatchingScale
<1>5. {"Error"} \cup Ended \subseteq Statuses /\ "Error" \notin Ended
  BY DEF Statuses, Ended
<1>6. ASSUME NEW st \in Ended \cup {"Error"}, scale = None,
             NEW h \in Held(fk, a, AutoScale(a), st),
             fk' = IF st \in Ended THEN [h EXCEPT !.analysis = a, !.sig = ZeroPattern[a][call.v]]
                   ELSE h,
             info' = [info EXCEPT !.scaling = says], Done(st)
      PROVE  IInv'
  <2>1. Ran(h, a, AutoScale(a), st) /\ st \in Statuses
    BY <1>2, <1>3, <1>5, HeldFacts
  <2>2. /\ info' \in Infos /\ info'.scaling = says /\ info'.pairs = FALSE
        /\ info'.rescales = 0 /\ info'.static = 0
    BY <1>2, <1>3, <1>6, InfoAfter
  <2>3. CASE st \notin Ended
    BY <1>1, <1>2, <1>3, <1>6, <2>1, <2>2, <2>3, RunEndHolds
  <2>4. CASE st \in Ended
    <3> HIDE DEF a, says, scale
    <3>1. /\ fk' \in Keeps /\ fk'.slack = FALSE /\ fk'.sig = ZeroPattern[a][call.v]
          /\ fk'.scale = None /\ fk'.analysis = a /\ fk'.held = h.held /\ fk'.path = h.path
          /\ fk'.static = FALSE /\ fk'.next = FALSE
      <4>1. ZeroPattern[a][call.v] \in Signatures
        BY <1>2 DEF Signatures, a
      <4>2. QED
        BY <1>2, <1>6, <2>1, <2>4, <4>1 DEF Ran, Keeps
    <3>2. /\ h.held.a = a /\ h.held.v = call.v /\ h.held.st = st /\ h.held.scale = AutoScale(a)
          /\ h.path = FALSE
      BY <1>5, <2>1, <2>4 DEF Ran
    <3>3. Described'
      BY <1>3, <2>2, <3>1, <3>2 DEF Described
    <3>4. (SignaturesTell => Hopeless(fk'.sig)) /\ (SignaturesTell => MatchingScale(call.a, call.v) = None) /\ pc' = "done"
      BY <1>2, <1>4, <1>6, <3>1, HopelessSays DEF Done, a, scale
    <3>5. QED
      BY <1>1, <1>2, <1>3, <1>6, <2>1, <2>2, <2>4, <3>1, <3>2, <3>3, <3>4, EndHolds DEF a
  <2>5. QED
    BY <2>3, <2>4
<1>7. ASSUME NEW st \in Ended \cup {"Error"}, scale # None,
             NEW h \in Held(fk, a, scale, st),
             NEW omega \in IF call.c.reuse /\ st = "Success" THEN Omegas ELSE {-1},
             fk' = IF KeepsScale(st)
                   THEN [h EXCEPT !.analysis = a,
                                  !.scale = [of |-> scale, omega |-> omega, fresh |-> omega]]
                   ELSE h,
             info' = [info EXCEPT !.rescales = 1,
                                  !.scaling = IF st \in Ended THEN "Matching" ELSE "User"],
             Done(st)
      PROVE  IInv'
  <2> DEFINE new == [of |-> scale, omega |-> omega, fresh |-> omega]
  <2>1. Ran(h, a, scale, st) /\ st \in Statuses
    BY <1>2, <1>4, <1>5, HeldFacts
  <2>2. new \in KeptScales /\ new.of = scale /\ new.omega = new.fresh /\ new # None
    BY <1>4, <1>7, NoneAssumption DEF KeptScales
  <2> HIDE DEF a, scale, new
  <2>3. /\ info' \in Infos /\ info'.pairs = FALSE /\ info'.rescales = 1 /\ info'.static = 0
        /\ st \in Ended => info'.scaling = "Matching"
    BY <1>2, <1>7 DEF Infos
  <2>4. CASE st \notin Ended
    <3>1. fk' = h
      BY <1>7, <2>4 DEF KeepsScale
    <3>2. /\ fk' \in Keeps /\ fk'.slack = FALSE /\ fk'.sig = fk.sig /\ fk'.scale = None
          /\ fk'.analysis = None /\ fk'.static = FALSE
      BY <1>1, <1>2, <2>1, <3>1, StageFacts DEF Ran
    <3>3. fk'.held.a = a /\ fk'.held.v = call.v /\ fk'.held.st = st
      BY <2>1, <3>1 DEF Ran
    <3>4. (SignaturesTell => Hopeless(fk'.sig)) /\ pc' = "done"
      BY <1>2, <1>7, <3>2 DEF Memory, Done
    <3>5. QED
      BY <1>1, <1>2, <1>3, <1>7, <2>1, <2>3, <2>4, <3>2, <3>3, <3>4, EndHolds DEF a
  <2>5. CASE st \in Ended
    <3>1. fk' = [h EXCEPT !.analysis = a, !.scale = new]
      BY <1>7, <2>5 DEF KeepsScale, new
    <3>2. /\ fk' \in Keeps /\ fk'.slack = FALSE /\ fk'.sig = fk.sig /\ fk'.scale = new
          /\ fk'.analysis = a /\ fk'.held = h.held /\ fk'.path = h.path
          /\ fk'.static = FALSE /\ fk'.next = FALSE
      BY <1>2, <2>1, <2>2, <3>1 DEF Ran, Keeps
    <3>3. /\ h.held.a = a /\ h.held.v = call.v /\ h.held.st = st /\ h.held.scale = scale
          /\ h.path = FALSE
      BY <1>5, <2>1, <2>5 DEF Ran
    <3>4. Described'
      BY <1>4, <1>7, <2>3, <2>5, <3>2, <3>3 DEF Described, scale
    <3>5. (SignaturesTell => Hopeless(fk'.sig)) /\ pc' = "done"
      BY <1>2, <1>7, <3>2 DEF Memory, Done
    <3>6. /\ fk'.scale # None /\ fk'.scale.omega = fk'.scale.fresh
          /\ fk'.held.scale = fk'.scale.of
      BY <2>2, <3>2, <3>3
    <3>7. /\ fk'.held.a = call.a /\ fk'.held.v = call.v /\ fk'.held.st = st
          /\ fk'.analysis = call.a /\ ~(fk'.next /\ fk'.static)
      BY <3>2, <3>3 DEF a
    <3>8. QED
      BY <1>1, <1>2, <1>3, <1>7, <2>1, <2>3, <2>5, <3>2, <3>4, <3>5, <3>6, <3>7, EndHolds
  <2>6. QED
    BY <2>4, <2>5
<1>8. QED
  BY <1>6, <1>7 DEF Rescale

-----------------------------------------------------------------------------
(* The theorems                                                            *)

\* No action of the drivers breaks the invariant.
LEMMA NextHolds == IInv /\ [Next]_vars => IInv'
<1> SUFFICES ASSUME IInv, [Next]_vars PROVE IInv'
  OBVIOUS
<1>1. CASE \E v \in Values, c \in Controls : Factor(v, c)
  BY <1>1, FactorHolds
<1>2. CASE Finish
  BY <1>2, FinishHolds
<1>3. CASE StaticMode
  BY <1>3, StaticModeHolds
<1>4. CASE Plain
  BY <1>4, PlainHolds
<1>5. CASE FactorAgain
  BY <1>5, FactorAgainHolds
<1>6. CASE Enter
  BY <1>6, EnterHolds
<1>7. CASE Unarmed
  BY <1>7, UnarmedHolds
<1>8. CASE TryAuto
  BY <1>8, TryAutoHolds
<1>9. CASE TryStatic
  BY <1>9, TryStaticHolds
<1>10. CASE TryKept
  BY <1>10, TryKeptHolds
<1>11. CASE Rescale
  BY <1>11, RescaleHolds
<1>12. CASE UNCHANGED vars
  <2>1. UNCHANGED <<ak, fallbacks, fk, info, call, pc>>
    BY <1>12 DEF vars
  <2>2. TypeOK' /\ Memory' /\ InCall' /\ InStage' /\ AtDone'
    BY <2>1 DEF IInv, TypeOK, Memory, InCall, InStage, AtDone, Described
  <2>3. (SignaturesTell => KeepMatchesFactor') /\ InfoDescribesFactor' /\ ReuseNeverDrifts'
    BY <2>1 DEF IInv, KeepMatchesFactor, InfoDescribesFactor, ReuseNeverDrifts
  <2>4. QED
    BY <2>2, <2>3 DEF IInv
<1>13. QED
  BY <1>1, <1>2, <1>3, <1>4, <1>5, <1>6, <1>7, <1>8, <1>9, <1>10, <1>11, <1>12 DEF Next, Step

\* The ranges of the drivers' state, and never more slack fallbacks in a row
\* than kSlackMaxFallbacks (factor_slack).
THEOREM TypeTheorem == Spec => []TypeOK
<1>1. IInv => TypeOK
  BY DEF IInv
<1>2. QED
  BY <1>1, InitHolds, NextHolds, PTL DEF Spec

\* Whatever route a factorization takes through the drivers, the rescue state
\* in the FactorKeep and Info describe the factor it hands back.
THEOREM OutcomeTheorem ==
  ASSUME SignaturesTell PROVE Spec => []OutcomeConsistent
<1>1. IInv => OutcomeConsistent
  BY DEF IInv, OutcomeConsistent
<1>2. QED
  BY <1>1, InitHolds, NextHolds, PTL DEF Spec

\* However often a kept scale is reused, each factor returned with it was
\* judged by the scale's own first error.
THEOREM ReuseTheorem == Spec => []ReuseNeverDrifts
<1>1. IInv => ReuseNeverDrifts
  BY DEF IInv
<1>2. QED
  BY <1>1, InitHolds, NextHolds, PTL DEF Spec

\* The verdicts of earlier calls stand: no work limit is given up but for
\* values without a matching scaling, and no rejected static path is retaken.
THEOREM VerdictsTheorem ==
  ASSUME SignaturesTell PROVE Spec => []VerdictsStand
<1>1. IInv => VerdictsStand
  BY DEF IInv, InStage, VerdictsStand, Stages
<1>2. QED
  BY <1>1, InitHolds, NextHolds, PTL DEF Spec

===============================================================================
