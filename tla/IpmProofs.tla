------------------------------- MODULE IpmProofs -------------------------------
(***************************************************************************)
(* The IPM session, and after it the MA97 plugin that drives it, for every *)
(* bound of each.                                                          *)
(*                                                                         *)
(* First the analyses of an IpmSession: the factor's analysis pointer is never dangling (FactorAlive), and one      *)
(* analysis is kept in reserve exactly during a probation and until a      *)
(* revert (OneAnalysisInReserve). The two are inductive together: a drop   *)
(* and a revert need to know where the factor points, and the factor may   *)
(* point at the analysis in reserve. Both are facts of the record Session, *)
(* so each is followed through the functions that make the next session.   *)
(* On them rest the second part, what is solved with, learned and refined  *)
(* against (SolvesLastFactor, LearnsAccepted, RefinesFactored), and the    *)
(* third, the spacing of re-analyses; then comes the plugin.               *)
(***************************************************************************)
EXTENDS Ma97Plugin, TLAPS

SessionFields == {"ak", "prev", "prevInfo", "fk", "info", "solvable", "aborted", "pending",
                  "lastSpd", "re", "stats"}

\* The parts of a session record the two invariants read.
Fields(x) ==
  /\ DOMAIN x = SessionFields
  /\ "analysis" \in DOMAIN x.fk
  /\ {"armed", "probation", "revert", "stopped", "last", "bound", "delays"} \subseteq DOMAIN x.re
  /\ x.re.armed \in BOOLEAN /\ x.re.probation \in BOOLEAN
  /\ x.re.revert \in BOOLEAN /\ x.re.stopped \in BOOLEAN

\* FactorAlive of a session record.
Alive(x) == x.fk.analysis \in {0, x.ak, x.prev}

\* OneAnalysisInReserve of a session record.
InReserve(x) ==
  /\ x.prev # 0 <=> x.re.probation \/ x.re.revert
  /\ ~(x.re.probation /\ x.re.revert)
  /\ x.re.armed => x.prev = 0 /\ x.ak # 0
  /\ x.re.revert => x.re.stopped

Sound(x) == Fields(x) /\ Alive(x) /\ InReserve(x)

\* The inductive invariant.
IInv == gen \in Nat /\ Sound(Session)

-----------------------------------------------------------------------------
\* A session with no factor and no history, as analyse() starts it.
LEMMA FreshSound ==
  ASSUME NEW x, DOMAIN x = SessionFields, x.fk = EmptyKeep, x.prev = 0, x.re = NoHistory
  PROVE  Sound(x)
<1>1. "analysis" \in DOMAIN EmptyKeep /\ EmptyKeep.analysis = 0
  BY DEF EmptyKeep
<1>2. /\ {"armed", "probation", "revert", "stopped", "last", "bound", "delays"} \subseteq DOMAIN NoHistory
      /\ NoHistory.armed = FALSE /\ NoHistory.probation = FALSE
      /\ NoHistory.revert = FALSE /\ NoHistory.stopped = FALSE
  BY DEF NoHistory
<1>3. QED
  BY <1>1, <1>2 DEF Sound, Fields, Alive, InReserve

\* A factorization of analysis a into k leaves the factor pointing where it
\* pointed, or at a (factor_indef, factor_posdef, factor_slack).
LEMMA OutcomeKeeps ==
  ASSUME NEW a, NEW c, NEW limit, NEW p, NEW k, NEW i, NEW of, "analysis" \in DOMAIN k,
         NEW o \in Outcomes(a, c, limit, p, k, i, of)
  PROVE  /\ "analysis" \in DOMAIN o.fk
         /\ o.fk.analysis \in {k.analysis, a}
<1> DEFINE Kept(f) == "analysis" \in DOMAIN f /\ f.analysis \in {k.analysis, a}
<1>1. ASSUME NEW f, Kept(f) PROVE Kept(Entered(f))
  BY <1>1 DEF Entered
<1>2. Kept(BegunIndef(k, a)) /\ Kept(BegunPosdef(k, a))
  BY <1>1 DEF BegunIndef, BegunPosdef
<1>3. ASSUME NEW f, Kept(f), NEW s PROVE Kept(Failed(f, s))
  BY <1>3 DEF Failed
<1>4. ASSUME NEW f, Kept(f), NEW s, NEW g, NEW path PROVE Kept(Filled(f, s, of, g, path))
  BY <1>4 DEF Filled
<1>5. ASSUME NEW f, Kept(f), NEW b PROVE Kept(FilledBand(f, b))
  BY <1>5 DEF FilledBand
<1>6. ASSUME NEW plan, NEW f \in Pointed(k, a, plan) PROVE Kept(f)
  BY <1>1, <1>2, <1>6 DEF Pointed
<1>7. ASSUME NEW f, NEW g, NEW d, NEW e, o = Outcome(f, g, d, e) PROVE o.fk = f
  BY <1>7 DEF Outcome
<1> SUFFICES Kept(o.fk)
  OBVIOUS
<1> HIDE DEF Kept
<1>8. CASE c.spd
  <2>1. o \in PosdefOutcomes(a, k, i, of)
    BY <1>8 DEF Outcomes
  <2>2. \/ \E x \in {Entered(k), BegunPosdef(k, a)} : o.fk = Failed(x, "NotPositiveDefinite")
        \/ o.fk = Filled(BegunPosdef(k, a), "Success", of, -1, "plain")
        \/ \E b : o.fk = FilledBand(BegunPosdef(k, a), b)
    BY <2>1, <1>7, Zenon DEF PosdefOutcomes
  <2>3. Kept(Entered(k))
    BY <1>1 DEF Kept
  <2>4. QED
    BY <2>2, <2>3, <1>2, <1>3, <1>4, <1>5
<1>9. CASE ~c.spd
  <2> DEFINE plan  == SlackArmed(a, c, limit, p)
             begun == BegunIndef(k, a)
  <2>1. \/ o \in EarlyErrors(a, k, i, plan) \/ o \in Stops(a, k, limit)
        \/ o \in WholeFactors(a, k, limit, of) \/ o \in PlanFactors(a, k, of, plan)
        \/ o = Outcome(Failed(begun, "Singular"), i.neg, 0, "IllegalValue")
    BY <1>9, Zenon DEF Outcomes, IndefOutcomes
  <2> HIDE DEF plan, begun
  <2>2. CASE o \in EarlyErrors(a, k, i, plan)
    <3>1. \E x \in Pointed(k, a, plan) : \E e : o = Outcome(Failed(x, "Singular"), i.neg, 0, e)
      BY <2>2 DEF EarlyErrors
    <3>2. QED
      BY <3>1, <1>1, <1>3, <1>6, <1>7
  <2>3. CASE o \in Stops(a, k, limit)
    <3>1. \E g, d, e : o = Outcome(Failed(begun, "InertiaExceeded"), g, d, e)
      BY <2>3 DEF Stops, begun
    <3>2. QED
      BY <3>1, <1>2, <1>3, <1>7 DEF begun
  <2>4. CASE o \in WholeFactors(a, k, limit, of)
    <3>1. \E s, g, path, d, e : o = Outcome(Filled(begun, s, of, g, path), g, d, e)
      BY <2>4 DEF WholeFactors, begun
    <3>2. QED
      BY <3>1, <1>2, <1>4, <1>7 DEF begun
  <2>5. CASE o \in PlanFactors(a, k, of, plan)
    <3>1. \E s, g, path, d, e : o = Outcome(Filled(begun, s, of, g, path), g, d, e)
      BY <2>5 DEF PlanFactors, begun
    <3>2. QED
      BY <3>1, <1>2, <1>4, <1>7 DEF begun
  <2>6. QED
    BY <2>1, <2>2, <2>3, <2>4, <2>5, <1>2, <1>3, <1>7 DEF begun
<1>10. QED
  BY <1>8, <1>9

\* run_factor() keeps a session sound: a probation ends in a drop, with the
\* factor on the adopted analysis, or in a pending revert.
LEMMA RunFactorSound ==
  ASSUME NEW x, NEW c, NEW o, Sound(x), "analysis" \in DOMAIN o.fk,
         o.fk.analysis \in {x.fk.analysis, x.ak}
  PROVE  Sound(RunFactor(x, c, o))
<1> DEFINE y == RunFactor(x, c, o)
           j == Judged(x, o)
           w == Worse(x, o)
<1>1. /\ y.fk = o.fk /\ y.ak = x.ak
      /\ y.prev = IF j /\ ~w THEN 0 ELSE x.prev
      /\ y.re = IF j THEN Judgement(x.re, w) ELSE x.re
      /\ DOMAIN y = SessionFields
  BY DEF RunFactor, DropPrevious, SessionFields
<1>2. x.re.probation \in BOOLEAN /\ x.re.revert \in BOOLEAN /\ w \in BOOLEAN
  BY DEF Sound, Fields, Worse
<1>3. CASE j
  <2>1. /\ DOMAIN y.re = DOMAIN x.re
        /\ y.re.probation = FALSE /\ y.re.armed = x.re.armed
        /\ y.re.revert = (x.re.revert \/ w) /\ y.re.stopped = (x.re.stopped \/ w)
    BY <1>1, <1>3 DEF Judgement, Sound, Fields
  <2>2. x.re.probation /\ o.fk.analysis = x.ak
    BY <1>3 DEF Judged, Ran
  <2> HIDE DEF y, j, w
  <2>3. Fields(y)
    BY <1>1, <1>2, <2>1 DEF Sound, Fields
  <2>4. Alive(y)
    BY <1>1, <2>2 DEF Alive
  <2>5. InReserve(y)
    BY <1>1, <1>2, <1>3, <2>1, <2>2 DEF Sound, Fields, InReserve
  <2>6. QED
    BY <2>3, <2>4, <2>5 DEF Sound, y
<1>4. CASE ~j
  <2> HIDE DEF y, j, w
  <2>1. Fields(y) /\ Alive(y) /\ InReserve(y)
    BY <1>1, <1>4 DEF Sound, Fields, Alive, InReserve
  <2>2. QED
    BY <2>1 DEF Sound, y
<1>5. QED
  BY <1>3, <1>4

\* prepare_analysis() keeps the session sound: a revert goes back to the
\* analysis in reserve and the factor forgets the other, an adoption puts the
\* current one in reserve.
LEMMA PrepareSound ==
  ASSUME IInv, NEW a, a # 0, ak # 0 => a = ak, NEW x \in PrepareAnalysis(a)
  PROVE  Sound(x)
<1> DEFINE s        == [Session EXCEPT !.ak = a]
           reverted == [s EXCEPT !.ak = prev, !.prev = 0, !.fk = RevertedKeep, !.info = prevInfo,
                                 !.prevInfo = NoInfo, !.re.revert = FALSE]
           rejected == [s EXCEPT !.re.armed = FALSE, !.re.last = stats.factorizations + 1,
                                 !.stats.tried = @ + 1]
           adopted  == [rejected EXCEPT !.ak = gen + 1, !.prev = a, !.info = NoInfo,
                                        !.prevInfo = info, !.re.probation = TRUE,
                                        !.re.bound = re.delays]
<1>1. /\ s.ak = a /\ s.prev = prev /\ s.fk = fk /\ s.re = re
      /\ DOMAIN s = SessionFields
  BY DEF Session, SessionFields
<1>2. Sound(Session) /\ gen + 1 # 0
  BY DEF IInv
<1>3. /\ "analysis" \in DOMAIN fk /\ fk.analysis \in {0, ak, prev}
      /\ {"armed", "probation", "revert", "stopped", "last", "bound", "delays"} \subseteq DOMAIN re
      /\ re.armed \in BOOLEAN /\ re.probation \in BOOLEAN
      /\ re.revert \in BOOLEAN /\ re.stopped \in BOOLEAN
      /\ prev # 0 <=> re.probation \/ re.revert
      /\ ~(re.probation /\ re.revert)
      /\ re.armed => prev = 0 /\ ak # 0
      /\ re.revert => re.stopped
  BY <1>2 DEF Sound, Fields, Alive, InReserve, Session
<1>4. /\ re.revert => x = reverted
      /\ ~re.revert /\ re.armed => x \in {rejected, adopted}
      /\ ~re.revert /\ ~re.armed => x = s
  BY DEF PrepareAnalysis
<1> HIDE DEF s
<1>5. CASE re.revert
  <2>1. /\ reverted.ak = prev /\ reverted.prev = 0 /\ reverted.fk = RevertedKeep
        /\ reverted.re = [re EXCEPT !.revert = FALSE]
        /\ DOMAIN reverted = SessionFields
    BY <1>1 DEF SessionFields
  <2>2. RevertedKeep.analysis = 0 /\ "analysis" \in DOMAIN RevertedKeep
    BY <1>3 DEF RevertedKeep
  <2> DEFINE r == [re EXCEPT !.revert = FALSE]
  <2>3. /\ DOMAIN r = DOMAIN re /\ r.revert = FALSE /\ r.probation = re.probation
        /\ r.armed = re.armed /\ r.stopped = re.stopped
    BY <1>3
  <2> HIDE DEF r, reverted
  <2>4. Sound(reverted)
    BY <1>3, <1>5, <2>1, <2>2, <2>3 DEF Sound, Fields, Alive, InReserve, r
  <2>5. QED
    BY <1>4, <1>5, <2>4
<1>6. CASE ~re.revert /\ re.armed
  <2> DEFINE r == [re EXCEPT !.armed = FALSE, !.last = stats.factorizations + 1]
             q == [r EXCEPT !.probation = TRUE, !.bound = re.delays]
  <2>1. /\ rejected.ak = a /\ rejected.prev = prev /\ rejected.fk = fk /\ rejected.re = r
        /\ DOMAIN rejected = SessionFields
    BY <1>1, <1>3 DEF SessionFields
  <2>2. /\ DOMAIN r = DOMAIN re /\ r.armed = FALSE /\ r.revert = re.revert
        /\ r.probation = re.probation /\ r.stopped = re.stopped
    BY <1>3
  <2> HIDE DEF rejected, r
  <2>3. /\ adopted.ak = gen + 1 /\ adopted.prev = a /\ adopted.fk = fk /\ adopted.re = q
        /\ DOMAIN adopted = SessionFields
    BY <2>1 DEF SessionFields
  <2>4. /\ DOMAIN q = DOMAIN re /\ q.armed = FALSE /\ q.revert = re.revert
        /\ q.probation = TRUE /\ q.stopped = re.stopped
    BY <1>3, <2>2
  <2> HIDE DEF adopted, q
  <2>5. Sound(rejected)
    BY <1>3, <1>6, <2>1, <2>2 DEF Sound, Fields, Alive, InReserve
  <2>6. Sound(adopted)
    BY <1>3, <1>6, <2>3, <2>4 DEF Sound, Fields, Alive, InReserve
  <2>7. QED
    BY <1>4, <1>6, <2>5, <2>6
<1>7. CASE ~re.revert /\ ~re.armed
  <2>1. Sound(s)
    BY <1>1, <1>3, <1>7 DEF Sound, Fields, Alive, InReserve
  <2>2. QED
    BY <1>4, <1>7, <2>1
<1>8. QED
  BY <1>5, <1>6, <1>7

\* The numeric variables take the session x.
LEMMA BecomeSound ==
  ASSUME NEW x, Sound(x), Become(x)
  PROVE  Sound(Session)'
BY DEF Sound, Fields, Alive, InReserve, Become, Session, SessionFields

\* Accepting a factor arms a re-analysis only with none in reserve.
LEMMA AcceptSound ==
  ASSUME NEW x, Sound(x), Accept(x)
  PROVE  Sound(Session)'
<1>1. CASE ~x.pending
  BY <1>1, BecomeSound DEF Accept
<1>2. CASE x.pending
  <2> DEFINE r == [x.re EXCEPT !.armed = TRUE, !.delays = x.info.delays]
             y == [x EXCEPT !.pending = FALSE, !.re = IF Arms(x) THEN r ELSE @]
  <2>1. Become(y)
    BY <1>2 DEF Accept
  <2>2. /\ y.ak = x.ak /\ y.prev = x.prev /\ y.fk = x.fk /\ DOMAIN y = SessionFields
        /\ y.re = IF Arms(x) THEN r ELSE x.re
    BY DEF Sound, Fields, SessionFields
  <2>3. /\ DOMAIN r = DOMAIN x.re /\ r.armed = TRUE /\ r.revert = x.re.revert
        /\ r.probation = x.re.probation /\ r.stopped = x.re.stopped
    BY DEF Sound, Fields
  <2> HIDE DEF y, r
  <2>4. Sound(y)
    BY <2>2, <2>3 DEF Sound, Fields, Alive, InReserve, Arms
  <2>5. QED
    BY <2>1, <2>4, BecomeSound
<1>3. QED
  BY <1>1, <1>2

\* The sessions solve() may solve with are sound.
LEMMA CompletedSound ==
  ASSUME IInv, NEW x \in Completed
  PROVE  Sound(x)
<1>1. Sound(Session) /\ Session.fk = fk /\ Session.ak = ak
  BY DEF IInv, Session
<1>2. "analysis" \in DOMAIN fk
  BY <1>1 DEF Sound, Fields
<1>3. CASE aborted /\ ak # 0
  <2> DEFINE of == [call |-> mat, ctrl |-> CompletionCtrl]
  <2>1. PICK o \in Outcomes(ak, CompletionCtrl, -1, planned, fk, info, of) :
          x = RunFactor(Session, CompletionCtrl, o)
    BY <1>3 DEF Completed
  <2> HIDE DEF of
  <2>2. "analysis" \in DOMAIN o.fk /\ o.fk.analysis \in {fk.analysis, ak}
    BY <1>2, OutcomeKeeps
  <2>3. QED
    BY <1>1, <2>1, <2>2, RunFactorSound
<1>4. CASE ~(aborted /\ ak # 0)
  BY <1>1, <1>4 DEF Completed
<1>5. QED
  BY <1>3, <1>4

-----------------------------------------------------------------------------
\* The invariant is inductive over every call of the session's interface.
THEOREM Inductive == Spec => []IInv
<1>1. Init => IInv
  <2> SUFFICES ASSUME Init
               PROVE  IInv
    OBVIOUS
  <2>1. /\ Session.fk = EmptyKeep /\ Session.prev = 0 /\ Session.re = NoHistory
        /\ DOMAIN Session = SessionFields
    BY DEF Init, Session, SessionFields
  <2>2. Sound(Session)
    BY <2>1, FreshSound
  <2>3. QED
    BY <2>2 DEF Init, IInv
<1>2. IInv /\ [Next]_vars => IInv'
  <2> SUFFICES ASSUME IInv, [Next]_vars
               PROVE  IInv'
    OBVIOUS
  <2>1. CASE Analyse
    <3>1. /\ gen' = gen + 1
          /\ fk' = EmptyKeep /\ prev' = 0 /\ re' = NoHistory
      BY <2>1 DEF Analyse
    <3>2. /\ Session'.fk = EmptyKeep /\ Session'.prev = 0 /\ Session'.re = NoHistory
          /\ DOMAIN Session' = SessionFields
      BY <3>1 DEF Session, SessionFields
    <3>3. Sound(Session')
      BY <3>2, FreshSound
    <3>4. Sound(Session)'
      BY <3>3 DEF Sound, Fields, Alive, InReserve
    <3>5. QED
      BY <3>1, <3>4 DEF IInv
  <2>2. CASE SetControl
    BY <2>2 DEF SetControl, IInv, Session, anvars, numeric, history
  <2>3. CASE SetUserScale
    BY <2>3 DEF SetUserScale, IInv, Session, anvars, numeric, history
  <2>4. CASE FactorRefused
    <3>1. gen' = gen + 1 /\ ak' = ak /\ prev' = prev /\ fk' = fk /\ re' = re
      BY <2>4 DEF FactorRefused, anvars, history
    <3>2. QED
      BY <3>1 DEF IInv, Sound, Fields, Alive, InReserve, Session, SessionFields
  <2>5. CASE AnalysisFails
    <3>1. gen' = gen + 1 /\ ak' = ak /\ prev' = prev /\ fk' = fk /\ re' = re
      BY <2>5 DEF AnalysisFails, TakeCall, anvars, history
    <3>2. QED
      BY <3>1 DEF IInv, Sound, Fields, Alive, InReserve, Session, SessionFields
  <2>6. CASE Factor
    <3>1. PICK a \in {ak, gen + 1} \ {0} :
            /\ ak # 0 => a = ak
            /\ \E limit \in Limits, x \in PrepareAnalysis(a) :
                 \E o \in Outcomes(x.ak, ctrl, limit, planned', x.fk, x.info, last') :
                   Become(RunFactor([x EXCEPT !.stats.factorizations = @ + 1], ctrl, o))
      BY <2>6 DEF Factor, FactorUnder
    <3>2. PICK limit \in Limits, x \in PrepareAnalysis(a) :
            \E o \in Outcomes(x.ak, ctrl, limit, planned', x.fk, x.info, last') :
              Become(RunFactor([x EXCEPT !.stats.factorizations = @ + 1], ctrl, o))
      BY <3>1
    <3>3. PICK o \in Outcomes(x.ak, ctrl, limit, planned', x.fk, x.info, last') :
            Become(RunFactor([x EXCEPT !.stats.factorizations = @ + 1], ctrl, o))
      BY <3>2
    <3> DEFINE y == [x EXCEPT !.stats.factorizations = @ + 1]
    <3>4. Sound(x)
      BY <3>1, PrepareSound
    <3>5. /\ y.ak = x.ak /\ y.prev = x.prev /\ y.fk = x.fk /\ y.re = x.re
          /\ DOMAIN y = SessionFields
      BY <3>4 DEF Sound, Fields, SessionFields
    <3>6. "analysis" \in DOMAIN o.fk /\ o.fk.analysis \in {x.fk.analysis, x.ak}
      BY <3>4, OutcomeKeeps DEF Sound, Fields
    <3>7. Become(RunFactor(y, ctrl, o))
      BY <3>3
    <3> HIDE DEF y
    <3>8. Sound(y)
      BY <3>4, <3>5 DEF Sound, Fields, Alive, InReserve
    <3>9. Sound(RunFactor(y, ctrl, o))
      BY <3>5, <3>6, <3>8, RunFactorSound
    <3>10. Sound(Session)'
      BY <3>7, <3>9, BecomeSound
    <3>11. gen' = gen + 1
      BY <2>6 DEF Factor, FactorUnder, TakeCall
    <3>12. QED
      BY <3>10, <3>11 DEF IInv
  <2>7. CASE SolveFails
    <3>1. PICK x \in Completed : Become(x)
      BY <2>7 DEF SolveFails
    <3>2. Sound(Session)'
      BY <3>1, CompletedSound, BecomeSound
    <3>3. QED
      BY <2>7, <3>2 DEF SolveFails, IInv
  <2>8. CASE Solve
    <3>1. PICK x \in Completed : Accept(x)
      BY <2>8 DEF Solve
    <3>2. Sound(Session)'
      BY <3>1, CompletedSound, AcceptSound
    <3>3. QED
      BY <2>8, <3>2 DEF Solve, IInv
  <2>9. CASE UNCHANGED vars
    BY <2>9 DEF vars, IInv, Session, anvars, numeric, history
  <2>10. QED
    BY <2>1, <2>2, <2>3, <2>4, <2>5, <2>6, <2>7, <2>8, <2>9 DEF Next
<1>3. QED
  BY <1>1, <1>2, PTL DEF Spec

\* The factor never points at a freed analysis: null, the current one or the
\* one in reserve, after every call.
THEOREM Pointer == Spec => []FactorAlive
<1>1. IInv => FactorAlive
  BY DEF IInv, Sound, Alive, FactorAlive, Session
<1>2. QED
  BY <1>1, Inductive, PTL

\* An analysis is in reserve exactly during a probation and until a revert,
\* and none is armed meanwhile.
THEOREM Reserve == Spec => []OneAnalysisInReserve
<1>1. IInv => OneAnalysisInReserve
  BY DEF IInv, Sound, InReserve, OneAnalysisInReserve, Session
<1>2. QED
  BY <1>1, Inductive, PTL


-----------------------------------------------------------------------------
(* What a factor is of, what is learned from it and what it is refined     *)
(* against                                                                 *)

KeepFields(k) == {"analysis", "status", "values", "band", "neg"} \subseteq DOMAIN k

\* A session whose factor, if it can be solved with, is one of of.
OfCall(x, of) ==
  /\ KeepFields(x.fk)
  /\ x.pending => x.lastSpd \/ x.info.neg = x.fk.neg
  /\ ~Banded => x.fk.band = NoFactor
  /\ ~Banded /\ x.solvable => x.fk.values = of

\* The refinement matrix: up to date on the regularized mode once factor()
\* has taken the values, elsewhere when its generation says so.
RefineInv ==
  /\ DOMAIN refine = {"ready", "gen", "of"} /\ refine.gen \in Int /\ refine.gen <= gen
  /\ regularized /\ (solvable \/ aborted) => refine.of = mat
  /\ ~regularized /\ refine.ready /\ refine.gen = gen => refine.of = mat

LastInv ==
  /\ solvable \/ aborted => last.call = mat
  /\ aborted => last = [call |-> mat, ctrl |-> fctrl]

AnswerInv ==
  /\ answer.against \in {0, last.call}
  /\ ~Banded /\ answer.solved => answer.of = last

UseInv == OfCall(Session, last) /\ RefineInv /\ LastInv /\ AnswerInv /\ expected = accepted

\* What any factorization leaves in the FactorKeep: the array filled is of its own
\* values, and an indefinite factor notes the negatives it reports.
LEMMA OutcomeFills ==
  ASSUME NEW a, NEW c, NEW limit, NEW p, NEW k, NEW i, NEW of, KeepFields(k),
         NEW o \in Outcomes(a, c, limit, p, k, i, of)
  PROVE  /\ KeepFields(o.fk)
         /\ ~Banded => o.fk.band \in {k.band, NoFactor}
         /\ Usable(a, o) => /\ ~Banded => o.fk.values = of
                            /\ (c.spd /\ o.fk.status = "Success") \/ o.info.neg = o.fk.neg
<1> DEFINE Same(f) == KeepFields(f) /\ f.band \in {k.band, NoFactor}
           Done(f, g) == /\ KeepFields(f) /\ f.band \in {k.band, NoFactor}
                         /\ f.values = of /\ f.neg = g
           Lost(f) == Same(f) /\ f.values = NoFactor
                      /\ f.status \in {"Singular", "InertiaExceeded", "NotPositiveDefinite"}
<1>1. ASSUME NEW f, Same(f) PROVE Same(Entered(f))
  BY <1>1 DEF Entered, KeepFields
<1>2. Same(BegunIndef(k, a)) /\ Same(BegunPosdef(k, a))
  BY DEF BegunIndef, BegunPosdef, Entered, KeepFields
<1>3. ASSUME NEW f, Same(f), NEW s \in {"Singular", "InertiaExceeded", "NotPositiveDefinite"}
      PROVE  Lost(Failed(f, s))
  BY <1>3 DEF Failed, KeepFields
<1>4. ASSUME NEW f, Same(f), NEW s, NEW g, NEW path
      PROVE  Done(Filled(f, s, of, g, path), g) /\ Filled(f, s, of, g, path).status = s
  BY <1>4 DEF Filled, KeepFields
<1>5. ASSUME NEW f, Same(f), NEW b
      PROVE  KeepFields(FilledBand(f, b)) /\ FilledBand(f, b).status = "Success"
  BY <1>5 DEF FilledBand, KeepFields
<1>6. ASSUME NEW plan, NEW f \in Pointed(k, a, plan) PROVE Same(f)
  <2>1. Same(k)
    OBVIOUS
  <2>2. QED
    BY <1>1, <1>2, <1>6, <2>1 DEF Pointed
<1>7. ASSUME NEW f, NEW g, NEW d, NEW e, o = Outcome(f, g, d, e) PROVE o.fk = f /\ o.info.neg = g
  BY <1>7 DEF Outcome
<1> DEFINE Goal == /\ KeepFields(o.fk)
                   /\ ~Banded => o.fk.band \in {k.band, NoFactor}
                   /\ Usable(a, o) => /\ ~Banded => o.fk.values = of
                                      /\ (c.spd /\ o.fk.status = "Success") \/ o.info.neg = o.fk.neg
<1>8. ASSUME Lost(o.fk) PROVE Goal
  BY <1>8 DEF Usable, Ran
<1>9. ASSUME Done(o.fk, o.info.neg) PROVE Goal
  BY <1>9
<1>10. ASSUME c.spd, o.fk.status = "Success", KeepFields(o.fk),
              Banded \/ Done(o.fk, o.fk.neg)
       PROVE  Goal
  BY <1>10
<1> SUFFICES Goal
  OBVIOUS
<1> HIDE DEF Same, Done, Lost, Goal
<1>11. CASE c.spd
  <2>1. o \in PosdefOutcomes(a, k, i, of)
    BY <1>11 DEF Outcomes
  <2>2. \/ \E x \in {Entered(k), BegunPosdef(k, a)} : o.fk = Failed(x, "NotPositiveDefinite")
        \/ o.fk = Filled(BegunPosdef(k, a), "Success", of, -1, "plain")
        \/ Banded /\ \E b : o.fk = FilledBand(BegunPosdef(k, a), b)
    BY <2>1, <1>7, Zenon DEF PosdefOutcomes
  <2>3. Same(Entered(k))
    <3>1. Same(k)
      BY DEF Same
    <3>2. QED
      BY <1>1, <3>1
  <2>4. CASE \E x \in {Entered(k), BegunPosdef(k, a)} : o.fk = Failed(x, "NotPositiveDefinite")
    BY <1>2, <1>3, <1>8, <2>3, <2>4
  <2>5. CASE o.fk = Filled(BegunPosdef(k, a), "Success", of, -1, "plain")
    <3>1. Done(o.fk, -1) /\ o.fk.status = "Success"
      BY <1>2, <1>4, <2>5
    <3>2. Done(o.fk, o.fk.neg) /\ KeepFields(o.fk)
      BY <3>1 DEF Done
    <3>3. QED
      BY <1>10, <1>11, <3>1, <3>2
  <2>6. CASE Banded /\ \E b : o.fk = FilledBand(BegunPosdef(k, a), b)
    BY <1>2, <1>5, <1>10, <1>11, <2>6
  <2>7. QED
    BY <2>2, <2>4, <2>5, <2>6
<1>12. CASE ~c.spd
  <2> DEFINE plan  == SlackArmed(a, c, limit, p)
             begun == BegunIndef(k, a)
  <2>1. \/ o \in EarlyErrors(a, k, i, plan) \/ o \in Stops(a, k, limit)
        \/ o \in WholeFactors(a, k, limit, of) \/ o \in PlanFactors(a, k, of, plan)
        \/ o = Outcome(Failed(begun, "Singular"), i.neg, 0, "IllegalValue")
    BY <1>12, Zenon DEF Outcomes, IndefOutcomes
  <2> HIDE DEF plan, begun
  <2>2. Same(begun)
    BY <1>2 DEF begun
  <2>3. CASE o \in EarlyErrors(a, k, i, plan)
    <3>1. \E x \in Pointed(k, a, plan) : \E e : o = Outcome(Failed(x, "Singular"), i.neg, 0, e)
      BY <2>3 DEF EarlyErrors
    <3>2. QED
      BY <3>1, <1>3, <1>6, <1>7, <1>8
  <2>4. CASE o \in Stops(a, k, limit)
    <3>1. \E g, d, e : o = Outcome(Failed(begun, "InertiaExceeded"), g, d, e)
      BY <2>4 DEF Stops, begun
    <3>2. QED
      BY <3>1, <2>2, <1>3, <1>7, <1>8
  <2>5. CASE o \in WholeFactors(a, k, limit, of)
    <3>1. \E s, g, path, d, e : o = Outcome(Filled(begun, s, of, g, path), g, d, e)
      BY <2>5 DEF WholeFactors, begun
    <3>2. QED
      BY <3>1, <2>2, <1>4, <1>7, <1>9
  <2>6. CASE o \in PlanFactors(a, k, of, plan)
    <3>1. \E s, g, path, d, e : o = Outcome(Filled(begun, s, of, g, path), g, d, e)
      BY <2>6 DEF PlanFactors, begun
    <3>2. QED
      BY <3>1, <2>2, <1>4, <1>7, <1>9
  <2>7. CASE o = Outcome(Failed(begun, "Singular"), i.neg, 0, "IllegalValue")
    BY <2>2, <2>7, <1>3, <1>7, <1>8
  <2>8. QED
    BY <2>1, <2>3, <2>4, <2>5, <2>6, <2>7
<1>13. QED
  BY <1>11, <1>12

\* run_factor() leaves a factor of the values it was given.
LEMMA RunFactorOf ==
  ASSUME NEW x, NEW c, NEW limit, NEW p, NEW of, KeepFields(x.fk), ~Banded => x.fk.band = NoFactor,
         NEW o \in Outcomes(x.ak, c, limit, p, x.fk, x.info, of), NEW y,
         y.ak = x.ak
  PROVE  OfCall(RunFactor(y, c, o), of)
<1>1. /\ KeepFields(o.fk) /\ (~Banded => o.fk.band = NoFactor)
      /\ Usable(x.ak, o) => /\ ~Banded => o.fk.values = of
                            /\ (c.spd /\ o.fk.status = "Success") \/ o.info.neg = o.fk.neg
  BY OutcomeFills
<1>2. LET r == RunFactor(y, c, o)
      IN  /\ r.fk = o.fk /\ r.info = o.info /\ r.solvable = Usable(y.ak, o)
          /\ r.pending = Usable(y.ak, o) /\ r.lastSpd = (c.spd /\ o.fk.status = "Success")
  BY DEF RunFactor
<1>3. QED
  BY <1>1, <1>2 DEF OfCall

LEMMA BecomeOf ==
  ASSUME NEW x, OfCall(x, last'), Become(x)
  PROVE  OfCall(Session, last)'
BY DEF OfCall, Become, Session

\* The sessions solve() may solve with.
LEMMA CompletedOf ==
  ASSUME UseInv, NEW x \in Completed
  PROVE  OfCall(x, last) /\ (x.solvable => solvable \/ aborted) /\ (x.aborted => aborted)
<1>1. /\ OfCall(Session, last) /\ Session.fk = fk /\ Session.ak = ak /\ Session.info = info
      /\ Session.solvable = solvable /\ Session.aborted = aborted
  BY DEF UseInv, Session
<1>2. CASE aborted /\ ak # 0
  <2>1. last = [call |-> mat, ctrl |-> CompletionCtrl]
    BY <1>2 DEF UseInv, LastInv, CompletionCtrl
  <2>2. PICK o \in Outcomes(ak, CompletionCtrl, -1, planned, fk, info, last) :
          x = RunFactor(Session, CompletionCtrl, o)
    BY <1>2, <2>1 DEF Completed
  <2>3. KeepFields(fk) /\ (~Banded => fk.band = NoFactor)
    BY <1>1 DEF OfCall
  <2>4. OfCall(RunFactor(Session, CompletionCtrl, o), last)
    BY <1>1, <2>3, RunFactorOf
  <2>5. QED
    BY <1>2, <2>2, <2>4
<1>3. CASE ~(aborted /\ ak # 0)
  BY <1>1, <1>3 DEF Completed
<1>4. QED
  BY <1>2, <1>3

\* What prepare_analysis() hands to the factorization keeps the arrays.
LEMMA PrepareKeeps ==
  ASSUME UseInv, NEW a, NEW x \in PrepareAnalysis(a)
  PROVE  KeepFields(x.fk) /\ (~Banded => x.fk.band = NoFactor)
<1>1. KeepFields(fk) /\ (~Banded => fk.band = NoFactor)
  BY DEF UseInv, OfCall, Session
<1>2. KeepFields(RevertedKeep) /\ RevertedKeep.band = fk.band
  BY <1>1 DEF RevertedKeep, KeepFields
<1> DEFINE s        == [Session EXCEPT !.ak = a]
           reverted == [s EXCEPT !.ak = prev, !.prev = 0, !.fk = RevertedKeep, !.info = prevInfo,
                                 !.prevInfo = NoInfo, !.re.revert = FALSE]
           rejected == [s EXCEPT !.re.armed = FALSE, !.re.last = stats.factorizations + 1,
                                 !.stats.tried = @ + 1]
           adopted  == [rejected EXCEPT !.ak = gen + 1, !.prev = a, !.info = NoInfo,
                                        !.prevInfo = info, !.re.probation = TRUE,
                                        !.re.bound = re.delays]
<1>3. x.fk \in {fk, RevertedKeep}
  <2>1. s.fk = fk /\ DOMAIN s = SessionFields
    BY DEF Session, SessionFields
  <2>2. x \in {reverted, rejected, adopted, s}
    BY DEF PrepareAnalysis
  <2> HIDE DEF s
  <2>3. reverted.fk = RevertedKeep
    BY <2>1 DEF SessionFields
  <2>4. rejected.fk = fk /\ DOMAIN rejected = SessionFields
    BY <2>1 DEF SessionFields
  <2> HIDE DEF rejected
  <2>5. adopted.fk = fk
    BY <2>4 DEF SessionFields
  <2> HIDE DEF reverted, adopted
  <2>6. QED
    BY <2>1, <2>2, <2>3, <2>4, <2>5
<1>4. QED
  BY <1>1, <1>2, <1>3

LEMMA TakenCall ==
  ASSUME IInv, UseInv, TakeCall
  PROVE  /\ RefineInv' /\ AnswerInv' /\ last'.call = mat'
         /\ last' = [call |-> mat', ctrl |-> fctrl']
<1>1. /\ gen \in Nat /\ gen' = gen + 1 /\ mat' = gen' /\ fctrl' = ctrl /\ mode' = mode
      /\ last' = [call |-> gen', ctrl |-> ctrl] /\ answer' = NoAnswer
      /\ refine' = IF regularized THEN [refine EXCEPT !.of = gen'] ELSE refine
  BY DEF TakeCall, IInv
<1>2. DOMAIN refine = {"ready", "gen", "of"} /\ refine.gen \in Int /\ refine.gen <= gen
  BY DEF UseInv, RefineInv
<1>3. /\ DOMAIN refine' = {"ready", "gen", "of"} /\ refine'.gen = refine.gen
      /\ regularized => refine'.of = gen'
  BY <1>1, <1>2
<1>4. refine'.gen \in Int /\ refine'.gen <= gen' /\ refine'.gen # gen'
  BY <1>1, <1>2, <1>3
<1>5. RefineInv'
  BY <1>1, <1>3, <1>4 DEF RefineInv, regularized
<1>6. AnswerInv'
  BY <1>1 DEF AnswerInv, NoAnswer
<1>7. QED
  BY <1>1, <1>5, <1>6

LEMMA UseInit == Init => UseInv
<1> SUFFICES ASSUME Init PROVE UseInv
  OBVIOUS
<1>1. OfCall(Session, last)
  BY DEF Init, Session, OfCall, EmptyKeep, KeepFields
<1>2. RefineInv /\ LastInv /\ AnswerInv
  BY DEF Init, RefineInv, LastInv, AnswerInv, NoRefine, NoAnswer, regularized
<1>3. QED
  BY <1>1, <1>2 DEF UseInv, Init

LEMMA UseFactor == ASSUME IInv, UseInv, Factor PROVE UseInv'
<1>1. PICK a \in {ak, gen + 1} \ {0} :
        \E limit \in Limits, x \in PrepareAnalysis(a) :
          \E o \in Outcomes(x.ak, ctrl, limit, planned', x.fk, x.info, last') :
            Become(RunFactor([x EXCEPT !.stats.factorizations = @ + 1], ctrl, o))
  BY DEF Factor, FactorUnder
<1>2. PICK limit \in Limits, x \in PrepareAnalysis(a) :
        \E o \in Outcomes(x.ak, ctrl, limit, planned', x.fk, x.info, last') :
          Become(RunFactor([x EXCEPT !.stats.factorizations = @ + 1], ctrl, o))
  BY <1>1
<1>3. PICK o \in Outcomes(x.ak, ctrl, limit, planned', x.fk, x.info, last') :
        Become(RunFactor([x EXCEPT !.stats.factorizations = @ + 1], ctrl, o))
  BY <1>2
<1> DEFINE y == [x EXCEPT !.stats.factorizations = @ + 1]
<1>4. KeepFields(x.fk) /\ (~Banded => x.fk.band = NoFactor)
  BY PrepareKeeps
<1>5. y.ak = x.ak /\ Become(RunFactor(y, ctrl, o))
  BY <1>3
<1> HIDE DEF y
<1>6. OfCall(RunFactor(y, ctrl, o), last')
  BY <1>4, <1>5, RunFactorOf
<1>7. OfCall(Session, last)'
  BY <1>5, <1>6, BecomeOf
<1>8. TakeCall /\ UNCHANGED <<expected, accepted>>
  BY DEF Factor, FactorUnder
<1>9. QED
  BY <1>7, <1>8, TakenCall DEF UseInv, LastInv

\* A solve that refines reads the values the factor was made of.
LEMMA UseSolve == ASSUME IInv, UseInv, Solve PROVE UseInv'
<1>1. PICK x \in Completed, full \in BOOLEAN :
        /\ x.solvable
        /\ refine' = IF Refines(x, full) /\ ~regularized THEN Refreshed ELSE refine
        /\ answer' = [solved |-> TRUE,
                      of |-> IF x.fk.band # NoFactor THEN x.fk.band ELSE x.fk.values,
                      against |-> IF Refines(x, full) THEN refine'.of ELSE 0]
        /\ Accept(x)
        /\ UNCHANGED <<gen, mat, mode, fctrl, last>>
  BY DEF Solve
<1>2. /\ OfCall(x, last) /\ (x.solvable => solvable \/ aborted) /\ (x.aborted => aborted)
      /\ Sound(x)
  BY CompletedOf, CompletedSound
<1>3. (solvable \/ aborted) /\ last.call = mat /\ gen \in Nat
  BY <1>1, <1>2 DEF UseInv, LastInv, IInv
<1>4. /\ DOMAIN refine = {"ready", "gen", "of"} /\ refine.gen \in Int /\ refine.gen <= gen
      /\ regularized => refine.of = mat
      /\ ~regularized /\ refine.ready /\ refine.gen = gen => refine.of = mat
  BY <1>3 DEF UseInv, RefineInv
<1>5. /\ DOMAIN refine' = {"ready", "gen", "of"} /\ refine'.gen \in Int /\ refine'.gen <= gen
      /\ regularized => refine'.of = mat
      /\ ~regularized /\ refine'.ready /\ refine'.gen = gen => refine'.of = mat
      /\ Refines(x, full) => refine'.of = mat
  <2>1. CASE Refines(x, full) /\ ~regularized
    <3>1. refine' = IF ~refine.ready \/ refine.gen # gen THEN [ready |-> TRUE, gen |-> gen, of |-> mat]
                    ELSE refine
      BY <1>1, <2>1 DEF Refreshed, Stale
    <3>2. CASE ~refine.ready \/ refine.gen # gen
      BY <1>3, <2>1, <3>1, <3>2
    <3>3. CASE ~(~refine.ready \/ refine.gen # gen)
      BY <1>4, <2>1, <3>1, <3>3
    <3>4. QED
      BY <3>2, <3>3
  <2>2. CASE ~(Refines(x, full) /\ ~regularized)
    BY <1>1, <1>4, <2>2
  <2>3. QED
    BY <2>1, <2>2
<1>6. RefineInv'
  BY <1>1, <1>5 DEF RefineInv, regularized
<1>7. AnswerInv'
  <2>1. answer'.against \in {0, last'.call}
    BY <1>1, <1>3, <1>5
  <2>2. ~Banded => answer'.of = last'
    BY <1>1, <1>2 DEF OfCall
  <2>3. QED
    BY <2>1, <2>2 DEF AnswerInv
<1>8. /\ fk' = x.fk /\ info' = x.info /\ solvable' = x.solvable /\ aborted' = x.aborted
      /\ lastSpd' = x.lastSpd /\ (pending' => x.pending)
      /\ expected' = accepted'
  <2>1. CASE x.pending
    <3> DEFINE y == [x EXCEPT !.pending = FALSE,
                              !.re = IF Arms(x) THEN [@ EXCEPT !.armed = TRUE, !.delays = x.info.delays]
                                     ELSE @]
    <3>1. Become(y) /\ expected' = (IF x.lastSpd THEN expected ELSE x.info.neg)
          /\ accepted' = (IF x.lastSpd THEN accepted ELSE x.fk.neg)
      BY <1>1, <2>1 DEF Accept
    <3>2. /\ y.fk = x.fk /\ y.info = x.info /\ y.solvable = x.solvable /\ y.aborted = x.aborted
          /\ y.lastSpd = x.lastSpd /\ y.pending = FALSE
      BY <1>2 DEF Sound, Fields, SessionFields
    <3> HIDE DEF y
    <3>3. expected' = accepted'
      BY <1>2, <2>1, <3>1 DEF OfCall, UseInv
    <3>4. QED
      BY <3>1, <3>2, <3>3 DEF Become
  <2>2. CASE ~x.pending
    BY <1>1, <2>2 DEF Accept, Become, UseInv
  <2>3. QED
    BY <2>1, <2>2
<1>9. OfCall(Session, last)'
  BY <1>1, <1>2, <1>8 DEF OfCall, Session
<1>10. LastInv'
  BY <1>1, <1>2, <1>3, <1>8 DEF UseInv, LastInv
<1>11. QED
  BY <1>6, <1>7, <1>8, <1>9, <1>10 DEF UseInv

LEMMA UseNext == IInv /\ UseInv /\ [Next]_vars => UseInv'
<1> SUFFICES ASSUME IInv, UseInv, [Next]_vars PROVE UseInv'
  OBVIOUS
<1>1. CASE Analyse
  <2>1. OfCall(Session, last)'
    BY <1>1 DEF Analyse, OfCall, Session, EmptyKeep, KeepFields
  <2>2. RefineInv'
    <3>1. /\ gen \in Nat /\ gen' = gen + 1 /\ solvable' = FALSE /\ aborted' = FALSE
          /\ refine' = [NoRefine EXCEPT !.ready = pattern' /\ mode' = "regularized", !.gen = refine.gen]
          /\ refine.gen \in Int /\ refine.gen <= gen
      BY <1>1 DEF Analyse, IInv, UseInv, RefineInv
    <3>2. DOMAIN refine' = {"ready", "gen", "of"} /\ refine'.gen = refine.gen
          /\ refine'.ready = (pattern' /\ mode' = "regularized")
      BY <3>1 DEF NoRefine
    <3>3. QED
      BY <3>1, <3>2 DEF RefineInv, regularized
  <2>3. LastInv' /\ AnswerInv' /\ expected' = accepted'
    BY <1>1 DEF Analyse, LastInv, AnswerInv, NoAnswer
  <2>4. QED
    BY <2>1, <2>2, <2>3 DEF UseInv
<1>2. CASE SetControl \/ SetUserScale
  BY <1>2 DEF SetControl, SetUserScale, anvars, numeric, history, UseInv, OfCall, Session, RefineInv,
              LastInv, AnswerInv, NoAnswer, regularized
<1>3. CASE FactorRefused
  <2>1. /\ gen \in Nat /\ gen' = gen + 1 /\ ~solvable' /\ ~aborted' /\ ~pending' /\ answer' = NoAnswer
        /\ UNCHANGED <<fk, info, refine, mode, last, expected, accepted>>
    BY <1>3 DEF FactorRefused, history, IInv
  <2>2. OfCall(Session, last)'
    BY <2>1 DEF UseInv, OfCall, Session
  <2>3. RefineInv'
    BY <2>1 DEF UseInv, RefineInv, regularized
  <2>4. QED
    BY <2>1, <2>2, <2>3 DEF UseInv, LastInv, AnswerInv, NoAnswer
<1>4. CASE AnalysisFails
  <2>1. /\ TakeCall /\ ~solvable' /\ ~aborted' /\ ~pending'
        /\ UNCHANGED <<fk, info, expected, accepted>>
    BY <1>4 DEF AnalysisFails, history
  <2>2. OfCall(Session, last)'
    BY <2>1 DEF UseInv, OfCall, Session
  <2>3. QED
    BY <2>1, <2>2, TakenCall DEF UseInv, LastInv
<1>5. CASE SolveFails
  <2>1. PICK x \in Completed : Become(x)
    BY <1>5 DEF SolveFails
  <2>2. /\ UNCHANGED <<gen, mat, mode, fctrl, expected, accepted, refine, last>> /\ answer' = NoAnswer
    BY <1>5 DEF SolveFails
  <2>3. OfCall(x, last) /\ (x.solvable => solvable \/ aborted) /\ (x.aborted => aborted)
    BY CompletedOf
  <2>4. OfCall(Session, last)'
    BY <2>1, <2>2, <2>3, BecomeOf
  <2>5. solvable' = x.solvable /\ aborted' = x.aborted
    BY <2>1 DEF Become
  <2>6. RefineInv' /\ AnswerInv'
    BY <2>2, <2>3, <2>5 DEF UseInv, RefineInv, AnswerInv, NoAnswer, regularized
  <2>7. LastInv'
    BY <2>1, <2>2, <2>3, <2>5 DEF UseInv, LastInv
  <2>8. QED
    BY <2>2, <2>4, <2>6, <2>7 DEF UseInv
<1>6. CASE UNCHANGED vars
  BY <1>6 DEF vars, anvars, numeric, history, UseInv, OfCall, Session, RefineInv, LastInv, AnswerInv,
              regularized
<1>7. QED
  BY <1>1, <1>2, <1>3, <1>4, <1>5, <1>6, UseFactor, UseSolve DEF Next

THEOREM UseInductive == Spec => []UseInv
BY Inductive, UseInit, UseNext, PTL DEF Spec

\* The expectation that arms the early abort is the negative count of a
\* factor that ran in full and was solved with (solve(), features 1 and 2),
\* after every sequence of calls.
THEOREM Learned == Spec => []LearnsAccepted
<1>1. UseInv => LearnsAccepted
  BY DEF UseInv, LearnsAccepted
<1>2. QED
  BY <1>1, UseInductive, PTL

\* A refined solve reads the values its factor is of (refine_mat_ and its
\* generation).
THEOREM Refined == Spec => []RefinesFactored
<1>1. UseInv => RefinesFactored
  BY DEF UseInv, AnswerInv, RefinesFactored
<1>2. QED
  BY <1>1, UseInductive, PTL

\* Without the band form, a solve uses a factor of the last call of factor()
\* under its control, an aborted one completed included.
THEOREM SolvesLast == ASSUME ~Banded PROVE Spec => []SolvesLastFactor
<1>1. UseInv => SolvesLastFactor
  BY DEF UseInv, AnswerInv, SolvesLastFactor
<1>2. QED
  BY <1>1, UseInductive, PTL

-----------------------------------------------------------------------------
(* The spacing of re-analyses                                              *)

\* The counters of a session, and the time of its last attempt.
Counted(x) ==
  /\ {"factorizations", "tried", "reverted"} \subseteq DOMAIN x.stats
  /\ x.stats.tried \in Nat /\ x.stats.factorizations \in Int /\ x.re.last \in Int

\* An armed attempt is far enough from the last one, and the session has not
\* given re-analysis up.
Spaced(x) ==
  /\ Counted(x)
  /\ x.re.armed => /\ ~x.re.stopped
                   /\ x.re.last >= 0 => x.stats.factorizations + 1 - x.re.last >= MinGap

\* run_factor() tries nothing: it keeps the attempts and their times.
LEMMA RunFactorSpaced ==
  ASSUME NEW x, Sound(x), Spaced(x), NEW c, NEW o
  PROVE  LET y == RunFactor(x, c, o)
         IN  /\ Spaced(y) /\ y.re.last = x.re.last /\ y.re.armed = x.re.armed
             /\ y.stats.tried = x.stats.tried
<1> DEFINE y == RunFactor(x, c, o)
<1>1. /\ y.re = IF Judged(x, o) THEN Judgement(x.re, Worse(x, o)) ELSE x.re
      /\ y.stats = IF Judged(x, o) /\ Worse(x, o) THEN [x.stats EXCEPT !.reverted = @ + 1] ELSE x.stats
  BY DEF RunFactor
<1>2. /\ DOMAIN y.stats = DOMAIN x.stats /\ y.stats.tried = x.stats.tried
      /\ y.stats.factorizations = x.stats.factorizations
  BY <1>1 DEF Spaced, Counted
<1>3. y.re.last = x.re.last /\ y.re.armed = x.re.armed
  BY <1>1 DEF Judgement, Sound, Fields
<1>4. x.re.armed => ~Judged(x, o)
  BY DEF Judged, Sound, InReserve
<1>5. x.re.armed => y.re = x.re
  BY <1>1, <1>4
<1> HIDE DEF y
<1>6. Spaced(y)
  BY <1>2, <1>3, <1>5 DEF Spaced, Counted
<1>7. QED
  BY <1>2, <1>3, <1>6 DEF y

\* prepare_analysis() leaves nothing armed, and tries only what was.
LEMMA PrepareSpaced ==
  ASSUME IInv, Spaced(Session), NEW a, NEW x \in PrepareAnalysis(a)
  PROVE  /\ x.re.armed = FALSE /\ Counted(x)
         /\ x.stats.tried # stats.tried => re.armed /\ x.re.last = stats.factorizations + 1
<1> DEFINE s        == [Session EXCEPT !.ak = a]
           reverted == [s EXCEPT !.ak = prev, !.prev = 0, !.fk = RevertedKeep, !.info = prevInfo,
                                 !.prevInfo = NoInfo, !.re.revert = FALSE]
           rejected == [s EXCEPT !.re.armed = FALSE, !.re.last = stats.factorizations + 1,
                                 !.stats.tried = @ + 1]
           adopted  == [rejected EXCEPT !.ak = gen + 1, !.prev = a, !.info = NoInfo,
                                        !.prevInfo = info, !.re.probation = TRUE,
                                        !.re.bound = re.delays]
<1>1. s.re = re /\ s.stats = stats /\ DOMAIN s = SessionFields
  BY DEF Session, SessionFields
<1>2. /\ {"armed", "probation", "revert", "stopped", "last", "bound", "delays"} \subseteq DOMAIN re
      /\ re.armed \in BOOLEAN /\ re.revert \in BOOLEAN /\ (re.revert => ~re.armed)
  <2>1. Session.re = re
    BY DEF Session
  <2>2. QED
    BY <2>1 DEF IInv, Sound, Fields, InReserve
<1>3. /\ {"factorizations", "tried", "reverted"} \subseteq DOMAIN stats
      /\ stats.tried \in Nat /\ stats.factorizations \in Int /\ re.last \in Int
  <2>1. Session.re = re /\ Session.stats = stats
    BY DEF Session
  <2>2. QED
    BY <2>1 DEF Spaced, Counted
<1>4. /\ re.revert => x = reverted
      /\ ~re.revert /\ re.armed => x \in {rejected, adopted}
      /\ ~re.revert /\ ~re.armed => x = s
  BY DEF PrepareAnalysis
<1> HIDE DEF s
<1>5. CASE re.revert
  <2> DEFINE r == [re EXCEPT !.revert = FALSE]
  <2>1. reverted.re = r /\ reverted.stats = stats
    BY <1>1 DEF SessionFields
  <2>2. r.armed = re.armed /\ r.last = re.last
    BY <1>2
  <2> HIDE DEF r, reverted
  <2>3. QED
    BY <1>2, <1>3, <1>4, <1>5, <2>1, <2>2 DEF Counted
<1>6. CASE ~re.revert /\ re.armed
  <2> DEFINE r     == [re EXCEPT !.armed = FALSE, !.last = stats.factorizations + 1]
             q     == [r EXCEPT !.probation = TRUE, !.bound = re.delays]
             tried == [stats EXCEPT !.tried = @ + 1]
  <2>1. rejected.re = r /\ rejected.stats = tried /\ DOMAIN rejected = SessionFields
    BY <1>1, <1>2 DEF SessionFields
  <2>2. /\ DOMAIN r = DOMAIN re /\ r.armed = FALSE /\ r.last = stats.factorizations + 1
        /\ DOMAIN tried = DOMAIN stats /\ tried.tried = stats.tried + 1
        /\ tried.factorizations = stats.factorizations
    BY <1>2, <1>3
  <2> HIDE DEF rejected, r, tried
  <2>3. adopted.re = q /\ adopted.stats = tried
    BY <2>1 DEF SessionFields
  <2>4. q.armed = FALSE /\ q.last = stats.factorizations + 1
    BY <2>2
  <2> HIDE DEF adopted, q
  <2>5. QED
    BY <1>3, <1>4, <1>6, <2>1, <2>2, <2>3, <2>4 DEF Counted
<1>7. CASE ~re.revert /\ ~re.armed
  BY <1>1, <1>2, <1>3, <1>4, <1>7 DEF Counted
<1>8. QED
  BY <1>2, <1>5, <1>6, <1>7

\* A call of the session keeps the spacing, and a try is an armed one.
SpacedStep ==
  stats'.tried > stats.tried => ~re.stopped /\ (re.last >= 0 => re'.last - re.last >= MinGap)

LEMMA BecomeSpaced ==
  ASSUME NEW x, Spaced(x), Become(x)
  PROVE  Spaced(Session)' /\ stats' = x.stats /\ re' = x.re
BY DEF Spaced, Counted, Become, Session

LEMMA SpacedFactor ==
  ASSUME IInv, Spaced(Session), Factor
  PROVE  Spaced(Session)' /\ SpacedStep
<1>1. PICK a \in {ak, gen + 1} \ {0} :
        /\ ak # 0 => a = ak
        /\ \E limit \in Limits, x \in PrepareAnalysis(a) :
             \E o \in Outcomes(x.ak, ctrl, limit, planned', x.fk, x.info, last') :
               Become(RunFactor([x EXCEPT !.stats.factorizations = @ + 1], ctrl, o))
  BY DEF Factor, FactorUnder
<1>2. PICK limit \in Limits, x \in PrepareAnalysis(a) :
        \E o \in Outcomes(x.ak, ctrl, limit, planned', x.fk, x.info, last') :
          Become(RunFactor([x EXCEPT !.stats.factorizations = @ + 1], ctrl, o))
  BY <1>1
<1>3. PICK o \in Outcomes(x.ak, ctrl, limit, planned', x.fk, x.info, last') :
        Become(RunFactor([x EXCEPT !.stats.factorizations = @ + 1], ctrl, o))
  BY <1>2
<1> DEFINE y == [x EXCEPT !.stats.factorizations = @ + 1]
<1>4. Sound(x)
  BY <1>1, PrepareSound
<1>5. /\ x.re.armed = FALSE /\ Counted(x)
      /\ x.stats.tried # stats.tried => re.armed /\ x.re.last = stats.factorizations + 1
  BY PrepareSpaced
<1>6. /\ y.ak = x.ak /\ y.prev = x.prev /\ y.fk = x.fk /\ y.re = x.re
      /\ DOMAIN y = SessionFields
      /\ DOMAIN y.stats = DOMAIN x.stats /\ y.stats.tried = x.stats.tried
      /\ y.stats.factorizations = x.stats.factorizations + 1
  BY <1>4, <1>5 DEF Sound, Fields, SessionFields, Counted
<1>7. Become(RunFactor(y, ctrl, o))
  BY <1>3
<1> HIDE DEF y
<1>8. Sound(y)
  BY <1>4, <1>6 DEF Sound, Fields, Alive, InReserve
<1>9. Spaced(y)
  BY <1>5, <1>6 DEF Spaced, Counted
<1>10. /\ Spaced(RunFactor(y, ctrl, o)) /\ RunFactor(y, ctrl, o).re.last = x.re.last
       /\ RunFactor(y, ctrl, o).stats.tried = x.stats.tried
  BY <1>6, <1>8, <1>9, RunFactorSpaced
<1>11. Spaced(Session)' /\ stats'.tried = x.stats.tried /\ re'.last = x.re.last
  BY <1>7, <1>10, BecomeSpaced
<1>12. SpacedStep
  <2> SUFFICES ASSUME stats'.tried > stats.tried
               PROVE  ~re.stopped /\ (re.last >= 0 => re'.last - re.last >= MinGap)
    BY DEF SpacedStep
  <2>1. Session.re = re /\ Session.stats = stats
    BY DEF Session
  <2>2. stats.tried \in Nat /\ stats.factorizations \in Int /\ re.last \in Int
    BY <2>1 DEF Spaced, Counted
  <2>3. re.armed /\ re'.last = stats.factorizations + 1
    BY <1>5, <1>11, <2>2
  <2>4. ~re.stopped /\ (re.last >= 0 => stats.factorizations + 1 - re.last >= MinGap)
    BY <2>1, <2>3 DEF Spaced
  <2>5. QED
    BY <2>2, <2>3, <2>4
<1>13. QED
  BY <1>11, <1>12

LEMMA CompletedSpaced ==
  ASSUME IInv, Spaced(Session), NEW x \in Completed
  PROVE  Spaced(x) /\ x.stats.tried = stats.tried
<1>1. Sound(Session) /\ Session.stats = stats
  BY DEF IInv, Session
<1>2. CASE aborted /\ ak # 0
  <2>1. \E o : x = RunFactor(Session, CompletionCtrl, o)
    BY <1>2 DEF Completed
  <2>2. QED
    BY <1>1, <2>1, RunFactorSpaced
<1>3. CASE ~(aborted /\ ak # 0)
  BY <1>1, <1>3 DEF Completed
<1>4. QED
  BY <1>2, <1>3

LEMMA SpacedSolve ==
  ASSUME IInv, Spaced(Session), Solve
  PROVE  Spaced(Session)' /\ stats'.tried = stats.tried
<1>1. PICK x \in Completed : Accept(x)
  BY DEF Solve
<1>2. Spaced(x) /\ x.stats.tried = stats.tried /\ Sound(x)
  BY CompletedSpaced, CompletedSound
<1>3. CASE ~x.pending
  BY <1>1, <1>2, <1>3, BecomeSpaced DEF Accept
<1>4. CASE x.pending
  <2> DEFINE r == [x.re EXCEPT !.armed = TRUE, !.delays = x.info.delays]
             y == [x EXCEPT !.pending = FALSE, !.re = IF Arms(x) THEN r ELSE @]
  <2>1. Become(y)
    BY <1>1, <1>4 DEF Accept
  <2>2. y.stats = x.stats /\ y.re = IF Arms(x) THEN r ELSE x.re
    BY <1>2 DEF Sound, Fields, SessionFields
  <2>3. r.last = x.re.last /\ r.stopped = x.re.stopped
    BY <1>2 DEF Sound, Fields
  <2> HIDE DEF y, r
  <2>4. Counted(y)
    BY <1>2, <2>2, <2>3 DEF Spaced, Counted
  <2>5. Spaced(y)
    <3>1. CASE Arms(x)
      <4>1. ~x.re.stopped /\ (x.re.last < 0 \/ x.stats.factorizations + 1 - x.re.last >= MinGap)
        BY <3>1 DEF Arms, GapPassed
      <4>2. QED
        BY <1>2, <2>2, <2>3, <2>4, <3>1, <4>1 DEF Spaced, Counted
    <3>2. CASE ~Arms(x)
      BY <1>2, <2>2, <2>4, <3>2 DEF Spaced
    <3>3. QED
      BY <3>1, <3>2
  <2>6. QED
    BY <1>2, <2>1, <2>2, <2>5, BecomeSpaced
<1>5. QED
  BY <1>3, <1>4

LEMMA SpacedNext == IInv /\ Spaced(Session) /\ [Next]_vars => Spaced(Session)' /\ SpacedStep
<1> SUFFICES ASSUME IInv, Spaced(Session), [Next]_vars PROVE Spaced(Session)' /\ SpacedStep
  OBVIOUS
<1>0. stats.tried \in Nat
  <2>1. Session.stats = stats
    BY DEF Session
  <2>2. QED
    BY <2>1 DEF Spaced, Counted
<1>1. CASE Analyse
  <2>1. stats' = NoStats /\ re' = NoHistory
    BY <1>1 DEF Analyse
  <2>2. Spaced(Session)'
    BY <2>1 DEF Spaced, Counted, Session, NoStats, NoHistory
  <2>3. stats'.tried = 0
    BY <2>1 DEF NoStats
  <2>4. QED
    BY <1>0, <2>2, <2>3 DEF SpacedStep
<1>2. CASE SetControl \/ SetUserScale \/ FactorRefused \/ AnalysisFails \/ UNCHANGED vars
  <2>1. UNCHANGED <<re, stats>>
    BY <1>2 DEF SetControl, SetUserScale, FactorRefused, AnalysisFails, vars, history
  <2>2. QED
    BY <1>0, <2>1 DEF Spaced, Counted, Session, SpacedStep
<1>3. CASE SolveFails
  <2>1. PICK x \in Completed : Become(x)
    BY <1>3 DEF SolveFails
  <2>2. Spaced(Session)' /\ stats'.tried = stats.tried
    BY <2>1, CompletedSpaced, BecomeSpaced
  <2>3. QED
    BY <1>0, <2>2 DEF SpacedStep
<1>4. CASE Solve
  BY <1>0, <1>4, SpacedSolve DEF SpacedStep
<1>5. QED
  BY <1>1, <1>2, <1>3, <1>4, SpacedFactor DEF Next

\* Attempts to re-analyse are reanalyse_min_gap factorizations apart, and
\* there is none after one was worse (consider_reanalysis()).
THEOREM Spacing == Spec => ReanalysesSpaced
<1>1. Init => Spaced(Session)
  BY DEF Init, Spaced, Counted, Session, NoStats, NoHistory
<1>2. IInv /\ Spaced(Session) /\ [Next]_vars =>
        [stats'.tried > stats.tried =>
           /\ ~re.stopped
           /\ re.last >= 0 => re'.last - re.last >= MinGap]_vars
  BY SpacedNext DEF SpacedStep
<1>3. QED
  BY <1>1, <1>2, SpacedNext, Inductive, PTL DEF Spec, ReanalysesSpaced

-----------------------------------------------------------------------------
(***************************************************************************)
(* The MA97 plugin and the session it drives, for every set of handles and *)
(* every bound.  The plugin only ever makes calls of the session's         *)
(* interface (Drives), so what is proved of IpmSession holds under it; on  *)
(* that rest the two properties of the handles: a solve answers with the   *)
(* factor the handle was given (HandleAnswersItsFactor), and the scale     *)
(* handed back is that factor's (ScaleIsTheFactors).                       *)
(*                                                                         *)
(* A handle is tied to the session by its generation only, so the          *)
(* invariant says what follows while it is still the session's: no other   *)
(* handle is, no factor() came after it, and the count it reports is the   *)
(* factor's, or the factor is still incomplete (Answers).                  *)
(***************************************************************************)

\* What a session reports of a factor it can solve with, made under control c:
\* that it ran to the end, whether it is positive definite, and the negatives of
\* an indefinite one.
Reported(x, c) == x.solvable => /\ ~x.aborted
                                /\ x.lastSpd <=> c.spd
                                /\ ~c.spd => x.info.neg = x.fk.neg

ReportInv == Reported(Session, last.ctrl)

HandleFields(x) ==
  /\ DOMAIN x = {"spd", "first", "generation", "num_neg", "aborted"}
  /\ x.first \in Nat /\ x.generation \in Nat /\ x.aborted \in BOOLEAN

\* While a handle is the session's.
Answers(h) ==
  /\ last.call = gen /\ handle[h].first <= gen
  /\ ~handle[h].aborted =>
       /\ ~aborted
       /\ solvable => handle[h].num_neg = IF last.ctrl.spd THEN 0 ELSE fk.neg

HandleInv ==
  /\ DOMAIN handle = Handles
  /\ \A h \in Handles : /\ HandleFields(handle[h])
                        /\ Made(h) => handle[h].generation <= gen
                        /\ Current(h) => Answers(h)
  /\ \A g, h \in Handles : Current(g) /\ Current(h) => g = h

\* A factorization in progress, and its scaling decision.
FactorFields ==
  {"pc", "h", "spd", "first", "unit", "scaling", "slack", "attempt", "factor_scale"}

Factoring ==
  call.pc \in {"scale", "factor", "judge"} =>
    /\ DOMAIN call = FactorFields /\ call.h \in Handles /\ call.spd \in BOOLEAN
    /\ call.first \in Nat /\ call.first <= gen + 1
    /\ call.scaling \in {"none", "computed", "reused"}
    /\ call.unit => call.scaling = "none"
    /\ call.scaling = "none" /\ ~call.unit => scale = Unit
    /\ call.scaling = "computed" => ~call.slack
    /\ call.attempt = 2 => call.scaling = "computed"
    /\ call.pc \in {"scale", "factor"} => ctrl.spd = call.spd

\* Its result is about to be judged: no handle is of this factor yet.
Judging ==
  call.pc = "judge" =>
    /\ call.first <= gen /\ last.call = gen /\ last.ctrl.spd = call.spd
    /\ \A h \in Handles : ~Current(h)
    /\ call.factor_scale = Unit \/ call.scaling # "none"
    /\ call.factor_scale = scale \/ call.scaling # "reused"
    /\ call.factor_scale.full \/ call.scaling # "computed"

Calling ==
  /\ call.pc \in {"idle", "scale", "factor", "judge", "solve"}
  /\ call.pc # "idle" => return = NoReturn
  /\ call.pc = "solve" => call.h \in Handles /\ Current(call.h)
  /\ Factoring /\ Judging

\* The plugin's invariant, over the session's.
PluginInv ==
  HandleInv /\ Calling /\ ScaleIsTheFactors /\ (~Banded => HandleAnswersItsFactor)

-----------------------------------------------------------------------------
(* What the session reports                                                *)

\* A positive definite factor that can be solved with succeeded.
LEMMA PosdefSucceeds ==
  ASSUME NEW a, NEW c, c.spd, NEW limit, NEW p, NEW k, NEW i, NEW of, KeepFields(k),
         NEW o \in Outcomes(a, c, limit, p, k, i, of), Usable(a, o)
  PROVE  o.fk.status = "Success"
<1>1. o \in PosdefOutcomes(a, k, i, of)
  BY DEF Outcomes
<1>2. ASSUME NEW x \in {Entered(k), BegunPosdef(k, a)}, o.fk = Failed(x, "NotPositiveDefinite")
      PROVE  FALSE
  <2>1. "status" \in DOMAIN x
    BY <1>2 DEF Entered, BegunPosdef, KeepFields
  <2>2. o.fk.status = "NotPositiveDefinite"
    BY <1>2, <2>1 DEF Failed
  <2>3. QED
    BY <2>2 DEF Usable
<1>3. "status" \in DOMAIN BegunPosdef(k, a)
  BY DEF Entered, BegunPosdef, KeepFields
<1>4. ASSUME NEW f, NEW g, NEW d, NEW e, o = Outcome(f, g, d, e) PROVE o.fk = f
  BY <1>4 DEF Outcome
<1>5. \/ \E x \in {Entered(k), BegunPosdef(k, a)} : o.fk = Failed(x, "NotPositiveDefinite")
      \/ o.fk = Filled(BegunPosdef(k, a), "Success", of, -1, "plain")
      \/ \E b : o.fk = FilledBand(BegunPosdef(k, a), b)
  BY <1>1, <1>4, Zenon DEF PosdefOutcomes
<1>6. QED
  BY <1>2, <1>3, <1>5 DEF Filled, FilledBand

\* run_factor() reports the factor it leaves.
LEMMA RunReports ==
  ASSUME NEW x, NEW c, NEW limit, NEW p, NEW of, KeepFields(x.fk),
         NEW o \in Outcomes(x.ak, c, limit, p, x.fk, x.info, of), NEW y, y.ak = x.ak
  PROVE  Reported(RunFactor(y, c, o), c)
<1>1. LET r == RunFactor(y, c, o)
      IN  /\ r.fk = o.fk /\ r.info = o.info /\ r.solvable = Usable(x.ak, o)
          /\ r.lastSpd = (c.spd /\ o.fk.status = "Success")
          /\ r.aborted = (o.fk.status = "InertiaExceeded")
  BY DEF RunFactor
<1>2. Usable(x.ak, o) => (c.spd /\ o.fk.status = "Success") \/ o.info.neg = o.fk.neg
  BY OutcomeFills
<1>3. Usable(x.ak, o) /\ c.spd => o.fk.status = "Success"
  BY PosdefSucceeds
<1>4. Usable(x.ak, o) => o.fk.status # "InertiaExceeded"
  BY DEF Usable
<1>5. QED
  BY <1>1, <1>2, <1>3, <1>4 DEF Reported

LEMMA ReportFactor ==
  ASSUME UseInv, Factor
  PROVE  ReportInv'
<1>1. PICK a \in {ak, gen + 1} \ {0} :
        \E limit \in Limits, x \in PrepareAnalysis(a) :
          \E o \in Outcomes(x.ak, ctrl, limit, planned', x.fk, x.info, last') :
            Become(RunFactor([x EXCEPT !.stats.factorizations = @ + 1], ctrl, o))
  BY DEF Factor, FactorUnder
<1>2. PICK limit \in Limits, x \in PrepareAnalysis(a) :
        \E o \in Outcomes(x.ak, ctrl, limit, planned', x.fk, x.info, last') :
          Become(RunFactor([x EXCEPT !.stats.factorizations = @ + 1], ctrl, o))
  BY <1>1
<1>3. PICK o \in Outcomes(x.ak, ctrl, limit, planned', x.fk, x.info, last') :
        Become(RunFactor([x EXCEPT !.stats.factorizations = @ + 1], ctrl, o))
  BY <1>2
<1> DEFINE y == [x EXCEPT !.stats.factorizations = @ + 1]
<1>4. KeepFields(x.fk)
  BY PrepareKeeps
<1>5. y.ak = x.ak /\ Become(RunFactor(y, ctrl, o))
  BY <1>3
<1> HIDE DEF y
<1>6. Reported(RunFactor(y, ctrl, o), ctrl)
  BY <1>4, <1>5, RunReports
<1>7. last'.ctrl = ctrl
  BY DEF Factor, FactorUnder, TakeCall
<1>8. QED
  BY <1>5, <1>6, <1>7 DEF ReportInv, Reported, Become, Session

\* The sessions solve() may solve with report their factors.
LEMMA CompletedReports ==
  ASSUME UseInv, ReportInv, NEW x \in Completed
  PROVE  Reported(x, last.ctrl)
<1>1. /\ OfCall(Session, last) /\ Session.fk = fk /\ Session.ak = ak /\ Session.info = info
  BY DEF UseInv, Session
<1>2. CASE aborted /\ ak # 0
  <2>1. last = [call |-> mat, ctrl |-> CompletionCtrl]
    BY <1>2 DEF UseInv, LastInv, CompletionCtrl
  <2>2. PICK o \in Outcomes(ak, CompletionCtrl, -1, planned, fk, info, last) :
          x = RunFactor(Session, CompletionCtrl, o)
    BY <1>2, <2>1 DEF Completed
  <2>3. KeepFields(fk) /\ last.ctrl = CompletionCtrl
    BY <1>1, <2>1 DEF OfCall
  <2>4. Reported(RunFactor(Session, CompletionCtrl, o), CompletionCtrl)
    BY <1>1, <2>3, RunReports
  <2>5. QED
    BY <2>2, <2>3, <2>4
<1>3. CASE ~(aborted /\ ak # 0)
  BY <1>3 DEF Completed, ReportInv
<1>4. QED
  BY <1>2, <1>3

\* What accepting a factor leaves alone.
LEMMA AcceptKeeps ==
  ASSUME NEW x, Sound(x), Accept(x)
  PROVE  /\ fk' = x.fk /\ info' = x.info /\ solvable' = x.solvable /\ aborted' = x.aborted
         /\ lastSpd' = x.lastSpd
<1>1. CASE x.pending
  <2> DEFINE y == [x EXCEPT !.pending = FALSE,
                            !.re = IF Arms(x) THEN [@ EXCEPT !.armed = TRUE, !.delays = x.info.delays]
                                   ELSE @]
  <2>1. Become(y)
    BY <1>1 DEF Accept
  <2>2. /\ y.fk = x.fk /\ y.info = x.info /\ y.solvable = x.solvable /\ y.aborted = x.aborted
        /\ y.lastSpd = x.lastSpd
    BY DEF Sound, Fields, SessionFields
  <2> HIDE DEF y
  <2>3. QED
    BY <2>1, <2>2 DEF Become
<1>2. CASE ~x.pending
  BY <1>2 DEF Accept, Become
<1>3. QED
  BY <1>1, <1>2

LEMMA ReportNext == IInv /\ UseInv /\ ReportInv /\ [Next]_vars => ReportInv'
<1> SUFFICES ASSUME IInv, UseInv, ReportInv, [Next]_vars PROVE ReportInv'
  OBVIOUS
<1>1. CASE Analyse \/ FactorRefused \/ AnalysisFails
  <2>1. solvable' = FALSE
    BY <1>1 DEF Analyse, FactorRefused, AnalysisFails
  <2>2. QED
    BY <2>1 DEF ReportInv, Reported, Session
<1>2. CASE SetControl \/ SetUserScale \/ UNCHANGED vars
  <2>1. UNCHANGED <<solvable, aborted, lastSpd, info, fk, last>>
    BY <1>2 DEF SetControl, SetUserScale, vars, numeric
  <2>2. QED
    BY <2>1 DEF ReportInv, Reported, Session
<1>3. CASE Factor
  BY <1>3, ReportFactor
<1>4. CASE SolveFails
  <2>1. PICK x \in Completed : Become(x)
    BY <1>4 DEF SolveFails
  <2>2. Reported(x, last.ctrl) /\ last' = last
    BY <1>4, CompletedReports DEF SolveFails
  <2>3. QED
    BY <2>1, <2>2 DEF ReportInv, Reported, Session, Become
<1>5. CASE Solve
  <2>1. PICK x \in Completed : Accept(x)
    BY <1>5 DEF Solve
  <2>2. Reported(x, last.ctrl) /\ last' = last /\ Sound(x)
    BY <1>5, CompletedReports, CompletedSound DEF Solve
  <2>3. QED
    BY <2>1, <2>2, AcceptKeeps DEF ReportInv, Reported, Session
<1>6. QED
  BY <1>1, <1>2, <1>3, <1>4, <1>5 DEF Next

THEOREM ReportInductive == Spec => []ReportInv
<1>1. Init => ReportInv
  BY DEF Init, ReportInv, Reported, Session
<1>2. QED
  BY <1>1, ReportNext, Inductive, UseInductive, PTL DEF Spec

-----------------------------------------------------------------------------
(* The plugin's calls are the session's                                    *)

\* The plugin passes no limit of its own on the negative pivots: session.factor()
\* runs under the learned expectation, which a positive definite factorization
\* does not read.
LEMMA FactorsAsSession == FactorUnder({expected}) => Factor
<1> SUFFICES ASSUME FactorUnder({expected}) PROVE FactorUnder(Limits)
  BY DEF Factor
<1>1. PICK a \in {ak, gen + 1} \ {0} :
        /\ IF ak # 0 THEN a = ak /\ planned' = planned ELSE Analysis(mode, gen + 1, a, planned')
        /\ \E x \in PrepareAnalysis(a) :
             \E o \in Outcomes(x.ak, ctrl, expected, planned', x.fk, x.info, last') :
               Become(RunFactor([x EXCEPT !.stats.factorizations = @ + 1], ctrl, o))
  BY DEF FactorUnder
<1>2. PICK x \in PrepareAnalysis(a) :
        \E o \in Outcomes(x.ak, ctrl, expected, planned', x.fk, x.info, last') :
          Become(RunFactor([x EXCEPT !.stats.factorizations = @ + 1], ctrl, o))
  BY <1>1
<1>3. \E limit \in Limits :
        Outcomes(x.ak, ctrl, limit, planned', x.fk, x.info, last')
          = Outcomes(x.ak, ctrl, expected, planned', x.fk, x.info, last')
  <2>1. CASE ctrl.spd
    <3>1. -1 \in Limits
      BY <2>1 DEF Limits
    <3>2. Outcomes(x.ak, ctrl, -1, planned', x.fk, x.info, last')
            = Outcomes(x.ak, ctrl, expected, planned', x.fk, x.info, last')
      BY <2>1 DEF Outcomes
    <3>3. QED
      BY <3>1, <3>2
  <2>2. CASE ~ctrl.spd
    BY <2>2 DEF Limits
  <2>3. QED
    BY <2>1, <2>2
<1>4. \E limit \in Limits, y \in PrepareAnalysis(a) :
        \E o \in Outcomes(y.ak, ctrl, limit, planned', y.fk, y.info, last') :
          Become(RunFactor([y EXCEPT !.stats.factorizations = @ + 1], ctrl, o))
  BY <1>2, <1>3
<1>5. TakeCall /\ UNCHANGED <<expected, accepted>>
  BY DEF FactorUnder
<1>6. QED
  BY <1>1, <1>4, <1>5 DEF FactorUnder

\* Every step of the plugin is a call of the session's interface, or none.
LEMMA DrivesNext == [PluginNext]_pluginVars => [Next]_vars
<1> SUFFICES ASSUME [PluginNext]_pluginVars PROVE [Next]_vars
  OBVIOUS
<1>1. CASE AnalyseCall
  BY <1>1 DEF AnalyseCall, Next
<1>2. CASE FactorCall \/ Retry \/ FallBack \/ SolveCall
  BY <1>2 DEF FactorCall, Retry, FallBack, SolveCall, Next
<1>3. CASE PassScale
  BY <1>3 DEF PassScale, Next
<1>4. CASE SessionFactor
  BY <1>4, FactorsAsSession DEF SessionFactor, Next
<1>5. CASE SessionSolve
  BY <1>5 DEF SessionSolve, Next
<1>6. CASE FactorRejected \/ Returned \/ Refused \/ SolveRefused \/ FreeAkeep \/ FreeFkeep
           \/ UNCHANGED pluginVars
  BY <1>6 DEF FactorRejected, Returned, Refused, SolveRefused, FreeAkeep, FreeFkeep, pluginVars,
              session
<1>7. QED
  BY <1>1, <1>2, <1>3, <1>4, <1>5, <1>6 DEF PluginNext

\* The plugin implements the session: whatever is called through the MA97
\* interface, the session sees a run of its own interface (ma97_analyse_d,
\* ma97_factor_d, ma97_solve_d).
THEOREM Drives == PluginSpec => Spec
<1>1. PluginInit => Init
  BY DEF PluginInit
<1>2. QED
  BY <1>1, DrivesNext, PTL DEF PluginSpec, Spec

-----------------------------------------------------------------------------
(* The handles                                                             *)

LEMMA NoHandleFields == HandleFields(NoHandle)
BY DEF NoHandle, HandleFields

\* A step that returns nothing of a factor and leaves the handles and what they
\* are judged by alone.
Quiet ==
  /\ UNCHANGED <<handle, gen, last, solvable, aborted, fk, scale>>
  /\ return'.op \in {"none", "analyse"} \/ (return'.op \in {"factor", "solve"} /\ return'.flag \in -6..-1)

LEMMA QuietHolds ==
  ASSUME HandleInv, ScaleIsTheFactors, Quiet
  PROVE  HandleInv' /\ ScaleIsTheFactors' /\ HandleAnswersItsFactor'
<1>1. HandleInv'
  BY DEF Quiet, HandleInv, HandleFields, Answers, Current, Made
<1>2. ScaleIsTheFactors'
  BY DEF Quiet, ScaleIsTheFactors
<1>3. HandleAnswersItsFactor'
  BY DEF Quiet, HandleAnswersItsFactor
<1>4. QED
  BY <1>1, <1>2, <1>3

LEMMA PluginInitHolds == PluginInit => PluginInv
<1> SUFFICES ASSUME PluginInit PROVE PluginInv
  OBVIOUS
<1>1. HandleInv
  BY NoHandleFields DEF PluginInit, HandleInv, Current, Made
<1>2. Calling
  BY DEF PluginInit, Calling, Factoring, Judging, NoCall
<1>3. HandleAnswersItsFactor /\ ScaleIsTheFactors
  BY DEF PluginInit, HandleAnswersItsFactor, ScaleIsTheFactors, NoReturn, Unit, Earlier
<1>4. QED
  BY <1>1, <1>2, <1>3 DEF PluginInv

\* A new akeep: no handle is left of the old one.
LEMMA AnalyseHolds == ASSUME IInv, PluginInv, AnalyseCall PROVE PluginInv'
<1>1. /\ gen \in Nat /\ gen' = gen + 1 /\ UNCHANGED <<handle, scale, call>>
      /\ call.pc = "idle" /\ \A h \in Handles : ~Made(h)
      /\ return'.op = "analyse"
  BY DEF AnalyseCall, Analyse, IInv, Idle
<1>2. HandleInv'
  BY <1>1 DEF PluginInv, HandleInv, HandleFields, Current, Made
<1>3. Calling'
  BY <1>1 DEF Calling, Factoring, Judging
<1>4. ScaleIsTheFactors' /\ HandleAnswersItsFactor'
  BY <1>1 DEF PluginInv, ScaleIsTheFactors, HandleAnswersItsFactor
<1>5. QED
  BY <1>2, <1>3, <1>4 DEF PluginInv

\* The calls that are refused, or begin without a handle.
LEMMA RefusedHolds == ASSUME PluginInv, FactorRejected \/ SolveRefused \/ FreeAkeep PROVE PluginInv'
<1>1. /\ UNCHANGED <<handle, scale, call, session>> /\ call.pc = "idle"
      /\ return'.op = "none" \/ (return'.op \in {"factor", "solve"} /\ return'.flag \in -6..-1)
  BY DEF FactorRejected, SolveRefused, FreeAkeep, Idle, NoReturn
<1>2. Quiet
  BY <1>1 DEF Quiet, session, vars, numeric
<1>3. Calling'
  BY <1>1 DEF Calling, Factoring, Judging
<1>4. QED
  BY <1>2, <1>3, QuietHolds DEF PluginInv

LEMMA FreeHolds == ASSUME PluginInv, FreeFkeep PROVE PluginInv'
<1>1. PICK f \in Handles : handle' = [handle EXCEPT ![f] = NoHandle]
  BY DEF FreeFkeep
<1>2. /\ UNCHANGED <<scale, call, gen, last, solvable, aborted, fk>> /\ call.pc = "idle"
      /\ return'.op = "none"
  BY DEF FreeFkeep, Idle, NoReturn, session, vars, numeric
<1>3. HandleInv'
  <2>1. DOMAIN handle' = Handles /\ \A h \in Handles : handle'[h] \in {handle[h], NoHandle}
    BY <1>1 DEF PluginInv, HandleInv
  <2>2. \A h \in Handles : Made(h)' => Made(h) /\ handle'[h] = handle[h]
    BY <2>1 DEF Made
  <2>3. QED
    BY <1>2, <2>1, <2>2, NoHandleFields DEF PluginInv, HandleInv, HandleFields, Answers, Current
<1>4. Calling'
  BY <1>2 DEF Calling, Factoring, Judging
<1>5. ScaleIsTheFactors' /\ HandleAnswersItsFactor'
  BY <1>2 DEF PluginInv, ScaleIsTheFactors, HandleAnswersItsFactor
<1>6. QED
  BY <1>3, <1>4, <1>5 DEF PluginInv

\* SetControl leaves the handles and what they are judged by alone.
LEMMA ControlQuiet ==
  ASSUME SetControl \/ SetUserScale
  PROVE  UNCHANGED <<gen, last, solvable, aborted, fk>>
BY DEF SetControl, SetUserScale, numeric

\* A call of ma97_factor_d begins under the caller's control.
LEMMA FactorCallHolds == ASSUME IInv, PluginInv, FactorCall PROVE PluginInv'
<1>1. PICK h \in Handles, spd \in BOOLEAN, ask \in {"none", "equilibration", "matching"} :
        /\ SetControl /\ ctrl'.spd = spd
        /\ call' = [pc      |-> IF ScalingOf(ask) = "reused" THEN "scale" ELSE "factor",
                    h       |-> h,
                    spd     |-> spd,
                    first   |-> gen + 1,
                    unit    |-> UnitScale(ask),
                    scaling |-> ScalingOf(ask),
                    slack   |-> ScalingOf(ask) # "computed",
                    attempt |-> 1,
                    factor_scale |-> Unit]
  BY DEF FactorCall
<1>2. /\ return' = NoReturn /\ UNCHANGED <<handle, scale>> /\ gen \in Nat
      /\ UNCHANGED <<gen, last, solvable, aborted, fk>>
  BY <1>1, ControlQuiet DEF FactorCall, IInv
<1>3. Quiet
  BY <1>2 DEF Quiet, NoReturn
<1>4. /\ ScalingOf(ask) \in {"none", "computed", "reused"}
      /\ UnitScale(ask) => ScalingOf(ask) = "none"
      /\ ScalingOf(ask) = "none" /\ ~UnitScale(ask) => scale = Unit
  BY DEF ScalingOf
<1>5. /\ DOMAIN call' = FactorFields /\ call'.pc \in {"scale", "factor"} /\ call'.h = h
      /\ call'.spd = spd /\ call'.first = gen + 1 /\ call'.scaling = ScalingOf(ask)
      /\ call'.unit = UnitScale(ask) /\ call'.slack = (ScalingOf(ask) # "computed")
      /\ call'.attempt = 1
  BY <1>1 DEF FactorFields
<1>6. /\ call'.first \in Nat /\ call'.first <= gen' + 1 /\ call'.attempt # 2
      /\ call'.scaling = "computed" => ~call'.slack
  <2>1. gen' = gen /\ gen \in Nat
    BY <1>2
  <2>2. call'.scaling = "computed" => ~call'.slack
    BY <1>5
  <2>3. QED
    BY <1>5, <2>1, <2>2
<1>7. /\ call'.unit => call'.scaling = "none"
      /\ call'.scaling = "none" /\ ~call'.unit => scale' = Unit
  BY <1>2, <1>4, <1>5
<1>8. Factoring'
  BY <1>1, <1>4, <1>5, <1>6, <1>7 DEF Factoring
<1>9. Calling'
  BY <1>2, <1>5, <1>8 DEF Calling, Judging
<1>10. QED
  BY <1>3, <1>9, QuietHolds DEF PluginInv

\* The scale goes to the session, or another attempt begins.
LEMMA AttemptHolds == ASSUME PluginInv, PassScale \/ Retry \/ FallBack PROVE PluginInv'
<1>1. /\ call.pc \in {"scale", "judge"} /\ UNCHANGED <<handle, scale, return>>
      /\ SetControl \/ SetUserScale
  BY DEF PassScale, Retry, FallBack
<1>2. /\ UNCHANGED <<gen, last, solvable, aborted, fk>> /\ return' = NoReturn
      /\ DOMAIN call = FactorFields
  BY <1>1, ControlQuiet DEF PluginInv, Calling, Factoring
<1>3. Quiet
  BY <1>1, <1>2 DEF Quiet, NoReturn
<1>4. CASE PassScale
  <2>1. call.pc = "scale" /\ SetUserScale /\ call' = [call EXCEPT !.pc = "factor"]
    BY <1>4 DEF PassScale
  <2>2. /\ DOMAIN call' = FactorFields /\ call'.pc = "factor" /\ call'.h = call.h
        /\ call'.spd = call.spd /\ call'.first = call.first /\ call'.scaling = call.scaling
        /\ call'.unit = call.unit /\ call'.slack = call.slack /\ call'.attempt = call.attempt
    BY <1>2, <2>1 DEF FactorFields
  <2>3. ctrl'.spd = call.spd
    <3>1. ctrl.spd = call.spd
      BY <2>1 DEF PluginInv, Calling, Factoring
    <3>2. ctrl'.spd = ctrl.spd
      BY <2>1 DEF SetUserScale
    <3>3. QED
      BY <3>1, <3>2
  <2>4. Factoring'
    BY <1>1, <1>2, <2>1, <2>2, <2>3 DEF PluginInv, Calling, Factoring
  <2>5. Calling'
    BY <1>2, <2>2, <2>4 DEF Calling, Judging
  <2>6. QED
    BY <1>3, <2>5, QuietHolds DEF PluginInv
<1>5. CASE Retry
  <2>1. /\ call.pc = "judge" /\ ctrl'.spd = call.spd
        /\ \E status \in Statuses : RetriesStaleScale(status)
        /\ call' = [call EXCEPT !.pc = "factor", !.attempt = 2, !.scaling = "computed",
                                !.slack = RetrySlack]
    BY <1>5 DEF Retry
  <2>2. call.scaling = "reused"
    BY <2>1 DEF RetriesStaleScale
  <2>3. /\ DOMAIN call' = FactorFields /\ call'.pc = "factor" /\ call'.h = call.h
        /\ call'.spd = call.spd /\ call'.first = call.first /\ call'.scaling = "computed"
        /\ call'.unit = call.unit /\ call'.slack = FALSE
    BY <1>2, <2>1 DEF FactorFields, RetrySlack
  <2>4. Factoring'
    BY <1>1, <1>2, <2>1, <2>2, <2>3 DEF PluginInv, Calling, Factoring
  <2>5. Calling'
    BY <1>2, <2>3, <2>4 DEF Calling, Judging
  <2>6. QED
    BY <1>3, <2>5, QuietHolds DEF PluginInv
<1>6. CASE FallBack
  <2>1. /\ call.pc = "judge" /\ ctrl'.spd = call.spd /\ call.attempt = 2
        /\ call' = [call EXCEPT !.pc = "scale", !.attempt = 3, !.scaling = "reused", !.slack = TRUE]
    BY <1>6 DEF FallBack
  <2>2. /\ DOMAIN call' = FactorFields /\ call'.pc = "scale" /\ call'.h = call.h
        /\ call'.spd = call.spd /\ call'.first = call.first /\ call'.scaling = "reused"
        /\ call'.unit = call.unit /\ call'.attempt = 3
    BY <1>2, <2>1 DEF FactorFields
  <2>3. Factoring'
    BY <1>1, <1>2, <2>1, <2>2 DEF PluginInv, Calling, Factoring
  <2>4. Calling'
    BY <1>2, <2>2, <2>3 DEF Calling, Judging
  <2>5. QED
    BY <1>3, <2>4, QuietHolds DEF PluginInv
<1>7. QED
  BY <1>4, <1>5, <1>6

\* session.factor() moves the session on: no handle is the session's any more,
\* and the scale it applied is the one its scaling decision says.
LEMMA SessionFactorHolds == ASSUME IInv, PluginInv, SessionFactor PROVE PluginInv'
<1>1. /\ call.pc = "factor" /\ UNCHANGED <<handle, scale, return>> /\ TakeCall
      /\ fk'.slack => call.slack
      /\ call' = [call EXCEPT !.pc = "judge", !.factor_scale = AppliedScale]
  BY DEF SessionFactor, AnalysisFails, FactorUnder
<1>2. /\ gen \in Nat /\ gen' = gen + 1 /\ last'.call = gen' /\ last'.ctrl = ctrl
  BY <1>1 DEF TakeCall, IInv
<1>3. /\ DOMAIN call = FactorFields /\ call.h \in Handles /\ call.spd \in BOOLEAN
      /\ call.first \in Nat /\ call.first <= gen + 1
      /\ call.scaling \in {"none", "computed", "reused"}
      /\ call.unit => call.scaling = "none"
      /\ call.scaling = "none" /\ ~call.unit => scale = Unit
      /\ call.scaling = "computed" => ~call.slack
      /\ call.attempt = 2 => call.scaling = "computed"
      /\ ctrl.spd = call.spd /\ return = NoReturn
  BY <1>1 DEF PluginInv, Calling, Factoring
<1>4. /\ DOMAIN call' = FactorFields /\ call'.pc = "judge" /\ call'.h = call.h
      /\ call'.spd = call.spd /\ call'.first = call.first /\ call'.scaling = call.scaling
      /\ call'.unit = call.unit /\ call'.slack = call.slack /\ call'.attempt = call.attempt
      /\ call'.factor_scale = AppliedScale
  BY <1>1, <1>3 DEF FactorFields
<1>5. \A h \in Handles : ~Current(h)'
  <2> TAKE h \in Handles
  <2>1. Made(h)' => handle'[h].generation \in Nat /\ handle'[h].generation <= gen
    BY <1>1 DEF PluginInv, HandleInv, HandleFields, Made
  <2>2. QED
    BY <1>2, <2>1 DEF Current
<1>6. HandleInv'
  <2>1. DOMAIN handle = Handles /\ \A h \in Handles : HandleFields(handle[h])
    BY DEF PluginInv, HandleInv
  <2>2. \A h \in Handles : Made(h) => handle[h].generation <= gen
    BY DEF PluginInv, HandleInv
  <2>3. \A h \in Handles : Made(h)' => handle'[h].generation <= gen'
    BY <1>1, <1>2, <2>1, <2>2 DEF HandleFields, Made
  <2>4. QED
    BY <1>1, <1>5, <2>1, <2>3 DEF HandleInv, HandleFields
<1>7. Factoring'
  <2>1. call'.first <= gen' + 1
    BY <1>2, <1>3, <1>4
  <2>2. QED
    BY <1>1, <1>3, <1>4, <2>1 DEF Factoring
<1>8. Judging'
  <2>2. AppliedScale = Unit \/ call.scaling # "none"
    BY DEF AppliedScale
  <2>3. AppliedScale = scale \/ call.scaling # "reused"
    BY DEF AppliedScale
  <2>4. AppliedScale.full \/ call.scaling # "computed"
    <3>1. CASE call.scaling = "computed"
      <4>1. ~fk'.slack
        BY <1>1, <1>3, <3>1
      <4>2. AppliedScale = [of |-> gen', full |-> ~fk'.slack]
        BY <3>1 DEF AppliedScale
      <4>3. QED
        BY <4>1, <4>2
    <3>2. QED
      BY <3>1
  <2>5. call'.first <= gen'
    BY <1>2, <1>3, <1>4
  <2>6. QED
    BY <1>1, <1>2, <1>3, <1>4, <1>5, <2>2, <2>3, <2>4, <2>5 DEF Judging
<1>9. Calling'
  BY <1>1, <1>3, <1>4, <1>7, <1>8 DEF Calling
<1>10. ScaleIsTheFactors' /\ HandleAnswersItsFactor'
  BY <1>1, <1>3 DEF PluginInv, ScaleIsTheFactors, HandleAnswersItsFactor, NoReturn
<1>11. QED
  BY <1>6, <1>9, <1>10 DEF PluginInv

\* The handle ma97_factor_d leaves is the session's only one, with the count of its
\* factor, or of a stop; the scale it hands back is the one that was applied.
LEMMA ReturnedHolds == ASSUME IInv, ReportInv, PluginInv, Returned PROVE PluginInv'
<1>1. PICK status \in Statuses :
        /\ handle' = [handle EXCEPT ![call.h] = NewHandle(Negatives, status = "WrongInertia")]
        /\ scale' = ScaleBack
        /\ return' = [op |-> "factor", h |-> call.h, num_neg |-> Negatives,
                      flag |-> IF status = "Singular" \/ (status = "Ok" /\ fk.static) THEN 7 ELSE 0,
                      factor_scale |-> call.factor_scale]
  BY DEF Returned
<1>2. /\ call.pc = "judge" /\ call' = NoCall
      /\ UNCHANGED <<gen, last, solvable, aborted, fk>>
  BY DEF Returned, session, vars, numeric
<1>3. /\ call.h \in Handles /\ call.first \in Nat /\ call.first <= gen
      /\ last.call = gen /\ last.ctrl.spd = call.spd /\ call.spd \in BOOLEAN
      /\ \A h \in Handles : ~Current(h)
      /\ call.factor_scale = Unit \/ call.scaling # "none"
      /\ call.factor_scale = scale \/ call.scaling # "reused"
      /\ call.factor_scale.full \/ call.scaling # "computed"
      /\ call.scaling \in {"none", "computed", "reused"}
      /\ call.unit => call.scaling = "none"
      /\ call.scaling = "none" /\ ~call.unit => scale = Unit
  BY <1>2 DEF PluginInv, Calling, Factoring, Judging
<1> DEFINE new == NewHandle(Negatives, status = "WrongInertia")
<1>4. /\ DOMAIN new = {"spd", "first", "generation", "num_neg", "aborted"}
      /\ new.first = call.first /\ new.generation = gen /\ new.num_neg = Negatives
      /\ new.aborted = (status = "WrongInertia")
  BY DEF NewHandle
<1>5. ~new.aborted => ~aborted
  BY <1>4 DEF Statuses
<1>6. solvable => Negatives = IF last.ctrl.spd THEN 0 ELSE fk.neg
  BY <1>3 DEF Negatives, ReportInv, Reported, Session
<1>7. DOMAIN handle = Handles /\ handle' = [handle EXCEPT ![call.h] = new]
  BY <1>1 DEF PluginInv, HandleInv
<1>8. HandleFields(new)
  BY <1>3, <1>4 DEF HandleFields, IInv
<1> HIDE DEF new
<1>9. HandleInv'
  <2>1. /\ DOMAIN handle' = Handles /\ handle'[call.h] = new
        /\ \A h \in Handles : h # call.h => handle'[h] = handle[h]
    BY <1>3, <1>7
  <2>2. \A h \in Handles : Current(h)' => h = call.h
    BY <1>2, <1>3, <2>1 DEF Current, Made
  <2>3. ASSUME NEW h \in Handles, h = call.h PROVE Answers(h)'
    BY <2>3, <1>2, <1>3, <1>4, <1>5, <1>6, <2>1 DEF Answers
  <2>4. \A h \in Handles : Made(h)' => handle'[h].generation <= gen'
    <3>1. gen <= gen
      BY DEF IInv
    <3>2. QED
      BY <1>2, <1>4, <2>1, <3>1 DEF PluginInv, HandleInv, Made
  <2>5. \A h \in Handles : HandleFields(handle'[h])
    BY <1>8, <2>1 DEF PluginInv, HandleInv
  <2>6. \A h \in Handles : HandleFields(handle[h])'
    BY <2>5 DEF HandleFields
  <2>7. QED
    BY <2>1, <2>2, <2>3, <2>4, <2>6 DEF HandleInv
<1>10. Calling'
  BY <1>2 DEF Calling, Factoring, Judging, NoCall
<1>11. return'.op = "factor" /\ return'.factor_scale = call.factor_scale
  BY <1>1
<1>12. ScaleIsTheFactors'
  <2>1. scale.full /\ Unit.full
    BY DEF PluginInv, ScaleIsTheFactors, Unit
  <2>2. scale'.full
    BY <1>1, <1>3, <2>1 DEF ScaleBack
  <2>3. solvable \/ aborted => scale' = call.factor_scale
    BY <1>1, <1>3 DEF ScaleBack
  <2>4. QED
    BY <1>2, <1>11, <2>2, <2>3 DEF ScaleIsTheFactors
<1>13. HandleAnswersItsFactor'
  BY <1>11 DEF HandleAnswersItsFactor
<1>14. QED
  BY <1>9, <1>10, <1>12, <1>13 DEF PluginInv

\* A failed factorization leaves no handle of the session, the caller's earlier
\* one included.
LEMMA RefusedFactorHolds == ASSUME PluginInv, Refused PROVE PluginInv'
<1>1. /\ call.pc = "judge" /\ call' = NoCall /\ scale' = scale
      /\ handle' = IF ak = 0 THEN handle ELSE [handle EXCEPT ![call.h] = NoHandle]
      /\ return' = [op |-> "factor", flag |-> IF ak = 0 THEN -3 ELSE -5]
      /\ UNCHANGED <<gen, last, solvable, aborted, fk>>
  BY DEF Refused, session, vars, numeric
<1>2. return'.op = "factor" /\ return'.flag \in -6..-1
  BY <1>1
<1>3. \A h \in Handles : ~Current(h)
  BY <1>1 DEF PluginInv, Calling, Judging
<1>4. HandleInv'
  <2>1. DOMAIN handle' = Handles /\ \A h \in Handles : handle'[h] \in {handle[h], NoHandle}
    BY <1>1 DEF PluginInv, HandleInv
  <2>2. \A h \in Handles : Made(h)' => Made(h) /\ handle'[h] = handle[h]
    BY <2>1 DEF Made
  <2>3. \A h \in Handles : ~Current(h)'
    BY <1>1, <1>3, <2>2 DEF Current
  <2>4. QED
    BY <1>1, <2>1, <2>2, <2>3, NoHandleFields DEF PluginInv, HandleInv, HandleFields
<1>5. Calling'
  BY <1>1 DEF Calling, Factoring, Judging, NoCall
<1>6. ScaleIsTheFactors' /\ HandleAnswersItsFactor'
  BY <1>1, <1>2 DEF PluginInv, ScaleIsTheFactors, HandleAnswersItsFactor
<1>7. QED
  BY <1>4, <1>5, <1>6 DEF PluginInv

\* A solve begins only through the session's handle.
LEMMA SolveCallHolds == ASSUME PluginInv, SolveCall PROVE PluginInv'
<1>1. PICK h \in Handles : /\ Current(h) /\ SetControl
                           /\ call' = [pc |-> "solve", h |-> h]
  BY DEF SolveCall
<1>2. /\ return' = NoReturn /\ UNCHANGED <<handle, scale>>
      /\ UNCHANGED <<gen, last, solvable, aborted, fk>>
  BY <1>1, ControlQuiet DEF SolveCall
<1>3. Quiet
  BY <1>2 DEF Quiet, NoReturn
<1>4. call'.pc = "solve" /\ call'.h = h
  BY <1>1
<1>5. Current(h)'
  BY <1>1, <1>2 DEF Current, Made
<1>6. Calling'
  <2>1. \A g : g = h => Current(g)'
    BY <1>5
  <2>2. Current(call.h)'
    BY <1>4, <1>5 DEF Current, Made
  <2>3. QED
    BY <1>2, <1>4, <2>2 DEF Calling, Factoring, Judging
<1>7. QED
  BY <1>3, <1>6, QuietHolds DEF PluginInv

\* What a solve leaves of the factor: as it was, unless a stopped one was
\* completed, which the handle then reports.
LEMMA SessionSolveHolds ==
  ASSUME IInv, UseInv, UseInv', ReportInv, PluginInv, SessionSolve
  PROVE  PluginInv'
<1>1. /\ call.pc = "solve" /\ call' = NoCall /\ scale' = scale
      /\ UNCHANGED <<gen, last>>
  BY DEF SessionSolve, Solve, SolveFails
<1> DEFINE h == call.h
<1>2. /\ h \in Handles /\ Made(h) /\ handle[h].generation = gen
      /\ DOMAIN handle = Handles /\ HandleFields(handle[h])
      /\ last.call = gen /\ handle[h].first <= gen
      /\ ~handle[h].aborted =>
           /\ ~aborted
           /\ solvable => handle[h].num_neg = IF last.ctrl.spd THEN 0 ELSE fk.neg
      /\ \A g \in Handles : Current(g) => g = h
  BY <1>1 DEF PluginInv, Calling, HandleInv, Answers, Current
<1>3. ~handle[h].aborted => Completed = {Session}
  BY <1>2 DEF Completed
<1>4. Calling'
  BY <1>1 DEF Calling, Factoring, Judging, NoCall
<1>5. CASE SolveFails /\ handle' = handle /\ return' = [op |-> "solve", flag |-> -5]
  <2>1. PICK x \in Completed : Become(x)
    BY <1>5 DEF SolveFails
  <2>2. ~handle[h].aborted => UNCHANGED <<solvable, aborted, fk>>
    BY <1>3, <2>1 DEF Become, Session
  <2>3. \A g \in Handles : Current(g)' => Current(g) /\ g = h
    BY <1>1, <1>2, <1>5 DEF Current, Made
  <2>4. ASSUME NEW g \in Handles, g = h PROVE Answers(g)'
    BY <1>1, <1>2, <1>5, <2>2, <2>4 DEF Answers
  <2>5. HandleInv'
    BY <1>1, <1>5, <2>3, <2>4 DEF PluginInv, HandleInv, HandleFields, Made
  <2>6. return'.op = "solve" /\ return'.flag = -5
    BY <1>5
  <2>7. ScaleIsTheFactors' /\ HandleAnswersItsFactor'
    BY <1>1, <2>6 DEF PluginInv, ScaleIsTheFactors, HandleAnswersItsFactor
  <2>8. QED
    BY <1>4, <2>5, <2>7 DEF PluginInv
<1>6. CASE /\ Solve
           /\ handle' = IF handle[h].aborted
                        THEN [handle EXCEPT ![h] = CompletedHandle(h)] ELSE handle
           /\ return' = [op |-> "solve", h |-> h, flag |-> 0, num_neg |-> handle'[h].num_neg]
  <2>1. PICK x \in Completed : x.solvable /\ Accept(x)
    BY <1>6 DEF Solve
  <2>2. answer'.solved
    BY <1>6 DEF Solve
  <2>3. /\ fk' = x.fk /\ info' = x.info /\ solvable' = x.solvable /\ aborted' = x.aborted
        /\ lastSpd' = x.lastSpd
    BY <2>1, CompletedSound, AcceptKeeps
  <2>4. /\ ~x.aborted /\ (x.lastSpd <=> last.ctrl.spd)
        /\ ~last.ctrl.spd => x.info.neg = x.fk.neg
    BY <2>1, CompletedReports DEF Reported
  <2>5. /\ DOMAIN handle' = Handles /\ \A g \in Handles : g # h => handle'[g] = handle[g]
        /\ DOMAIN handle'[h] = DOMAIN handle[h] /\ handle'[h].first = handle[h].first
        /\ handle'[h].generation = gen
        /\ handle'[h].num_neg = IF last.ctrl.spd THEN 0 ELSE fk'.neg
        /\ handle'[h].aborted = FALSE
    <3>1. CASE handle[h].aborted
      <4> DEFINE new == [handle[h] EXCEPT !.num_neg = IF lastSpd' THEN 0 ELSE info'.neg,
                                          !.aborted = FALSE]
      <4>1. handle'[h] = new /\ handle' = [handle EXCEPT ![h] = new]
        BY <1>2, <1>6, <3>1 DEF CompletedHandle
      <4>2. /\ DOMAIN new = DOMAIN handle[h] /\ new.first = handle[h].first
            /\ new.generation = gen /\ new.aborted = FALSE
            /\ new.num_neg = IF lastSpd' THEN 0 ELSE info'.neg
        BY <1>2 DEF HandleFields
      <4> HIDE DEF new
      <4>3. new.num_neg = IF last.ctrl.spd THEN 0 ELSE fk'.neg
        BY <2>3, <2>4, <4>2
      <4>4. QED
        BY <1>2, <4>1, <4>2, <4>3
    <3>2. CASE ~handle[h].aborted
      <4>1. x = Session /\ handle' = handle
        BY <1>3, <1>6, <2>1, <3>2
      <4>2. solvable /\ fk' = fk
        BY <2>1, <2>3, <4>1 DEF Session
      <4>3. handle[h].aborted = FALSE
        BY <1>2, <3>2 DEF HandleFields
      <4>4. QED
        BY <1>2, <3>2, <4>1, <4>2, <4>3
    <3>3. QED
      BY <3>1, <3>2
  <2>6. HandleInv'
    <3>1. \A g \in Handles : g # h => Made(g)' = Made(g) /\ Current(g)' = Current(g)
      BY <1>1, <2>5 DEF Made, Current
    <3>2. \A g \in Handles : HandleFields(handle[g])'
      BY <1>2, <2>5 DEF PluginInv, HandleInv, HandleFields, IInv
    <3>3. \A g \in Handles : Current(g)' => g = h
      BY <1>2, <3>1
    <3>4. ASSUME NEW g \in Handles, g = h PROVE Answers(g)'
      BY <1>1, <1>2, <2>3, <2>4, <2>5, <3>4 DEF Answers
    <3>5. \A g \in Handles : Made(g)' => handle'[g].generation <= gen'
      BY <1>1, <1>2, <2>5, <3>1 DEF PluginInv, HandleInv, HandleFields
    <3>6. QED
      BY <2>5, <3>2, <3>3, <3>4, <3>5 DEF HandleInv
  <2>7. /\ return'.op = "solve" /\ return'.h = h /\ return'.flag = 0
        /\ return'.num_neg = handle'[h].num_neg
    BY <1>6
  <2>8. ScaleIsTheFactors'
    BY <1>1, <2>7 DEF PluginInv, ScaleIsTheFactors
  <2>9. ASSUME ~Banded PROVE HandleAnswersItsFactor'
    <3>1. answer'.of = last
      BY <1>1, <2>2, <2>9 DEF UseInv, AnswerInv
    <3>2. gen \in handle'[h].first .. handle'[h].generation
      BY <1>2, <2>5 DEF HandleFields, IInv
    <3>3. answer'.of.call = gen
      BY <1>2, <3>1
    <3>4. return'.num_neg = IF answer'.of.ctrl.spd THEN 0 ELSE fk'.neg
      BY <2>5, <2>7, <3>1
    <3>5. QED
      BY <2>2, <2>7, <3>2, <3>3, <3>4 DEF HandleAnswersItsFactor
  <2>10. QED
    BY <1>4, <2>6, <2>8, <2>9 DEF PluginInv
<1>7. QED
  BY <1>5, <1>6 DEF SessionSolve

LEMMA PluginNextHolds ==
  IInv /\ UseInv /\ UseInv' /\ ReportInv /\ PluginInv /\ [PluginNext]_pluginVars => PluginInv'
<1> SUFFICES ASSUME IInv, UseInv, UseInv', ReportInv, PluginInv, [PluginNext]_pluginVars
             PROVE  PluginInv'
  OBVIOUS
<1>1. CASE UNCHANGED pluginVars
  <2>1. UNCHANGED <<handle, scale, call, return, gen, last, solvable, aborted, fk, ctrl, answer>>
    BY <1>1 DEF pluginVars, plugin, session, vars, numeric
  <2>2. HandleInv'
    BY <2>1 DEF PluginInv, HandleInv, HandleFields, Answers, Current, Made
  <2>3. Calling'
    BY <2>1 DEF PluginInv, Calling, Factoring, Judging, Current, Made
  <2>4. ScaleIsTheFactors' /\ (~Banded => HandleAnswersItsFactor')
    BY <2>1 DEF PluginInv, ScaleIsTheFactors, HandleAnswersItsFactor
  <2>5. QED
    BY <2>2, <2>3, <2>4 DEF PluginInv
<1>2. QED
  BY <1>1, AnalyseHolds, RefusedHolds, FreeHolds, FactorCallHolds, AttemptHolds, SessionFactorHolds,
     ReturnedHolds, RefusedFactorHolds, SolveCallHolds, SessionSolveHolds DEF PluginNext

THEOREM PluginInductive == PluginSpec => []PluginInv
<1>1. PluginSpec => [](IInv /\ UseInv /\ ReportInv)
  BY Drives, Inductive, UseInductive, ReportInductive, PTL
<1>2. QED
  BY <1>1, PluginInitHolds, PluginNextHolds, PTL DEF PluginSpec

\* A solve that succeeds through a handle answers with a complete factor of the
\* values of the call that made the handle, with that factor's negatives, through
\* every order of factorizations, stops, retries, frees and solves over one
\* session (ma97_solve_d). The band form is left out as in SolvesLast.
THEOREM HandlesAnswer == ASSUME ~Banded PROVE PluginSpec => []HandleAnswersItsFactor
<1>1. PluginInv => HandleAnswersItsFactor
  BY DEF PluginInv
<1>2. QED
  BY <1>1, PluginInductive, PTL

\* The scale IPOPT keeps is always a full matrix's, and after a call that left a
\* factor, it is that factor's (ma97_factor_d and its stale-scale retry).
THEOREM ScalesKept == PluginSpec => []ScaleIsTheFactors
<1>1. PluginInv => ScaleIsTheFactors
  BY DEF PluginInv
<1>2. QED
  BY <1>1, PluginInductive, PTL

===============================================================================
