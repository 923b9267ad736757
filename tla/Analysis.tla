------------------------------ MODULE Analysis ------------------------------
(***************************************************************************)
(* Symbolic analysis (Solver::analyse): the calling thread orders the      *)
(* matrix, decides the matching trial, and builds the supernode tree; with *)
(* threads the trial's searches and ordering run beside it                 *)
(* (ConcurrentTrial) and a large graph is dissected in parallel            *)
(* (ParallelNd).                                                           *)
(*                                                                         *)
(* in is the call's input: the cleaned matrix, the Control fields, the     *)
(* libraries of the build and the faults of the run.                       *)
(***************************************************************************)
EXTENDS ParallelNd, Supernodes

CONSTANTS AutoMatchingMinN, \* kAutoMatchingMinN
          MetisMinN,        \* 8192
          BandMax,          \* 64
          IdentityMaxN,     \* 2048
          MaxFreePercent    \* 100 kInitialScaleMaxFree

ASSUME AnalysisAssumption ==
  {AutoMatchingMinN, MetisMinN, BandMax, IdentityMaxN, MaxFreePercent} \subseteq Nat

VARIABLES in,               \* the input
          main,             \* the calling thread
          trial             \* ConcurrentTrial, or NoTrial

avars == <<in, main, trial, nd, worker>>

N(x) == Cardinality(Cols(x.A))
NoTrial == [pc |-> "none"]
NoCand == [ok |-> FALSE]

(* kMatchingFlopsRatio = 3/2 and kMatchingInitialRejectRatio = 12/5.       *)
WithinFlopsRatio(f, f0) == 2 * f <= 3 * f0
PastRejectRatio(f, f0) == 5 * f > 12 * f0
Dear(x, flops) == flops * x.refactors >= MetisFlopsPerRow * N(x)

StoredEntries(A) == SumOf([j \in Cols(A) |-> Len(A[j])])
Budget(x) == IF x.passes < 0 THEN -1 ELSE x.passes * 2 * StoredEntries(x.A)
Slice(x) == MaxOf((2 * StoredEntries(x.A)) \div 16, 1)
GateArmed(x) == x.skipGate /\ x.weakPivot

(* The identity suits a densely occupied band and small problems.          *)
HalfBandwidth(A) == Max({0} \cup {A[j][Len(A[j])][1] - j : j \in {c \in Cols(A) : A[c] # <<>>}})
IsAuto(x) == x.ordering \in {"AutoSerial", "AutoParallel"}
UsesIdentity(x) ==
  /\ IsAuto(x) /\ HalfBandwidth(x.A) <= BandMax
  /\ \/ (HalfBandwidth(x.A) + 1) * N(x) <= 2 * StoredEntries(x.A)
     \/ N(x) <= IdentityMaxN

(* user_perm is a permutation and the columns of each pair are adjacent.   *)
UserOrderValid(x) ==
  /\ IsOrder(x.userPerm, Cols(x.A))
  /\ \A q \in DOMAIN x.userPairs :
       /\ {x.userPairs[q][1], x.userPairs[q][2]} \subseteq Cols(x.A)
       /\ AbsVal(Position(x.userPerm)[x.userPairs[q][1]]
                 - Position(x.userPerm)[x.userPairs[q][2]]) = 1

(* Saddle points: an exact zero on the diagonal, or 5% of the diagonals    *)
(* below 1% of their column's largest off-diagonal.                        *)
DiagOf(A, j) == LET at == {p \in DOMAIN A[j] : A[j][p][1] = j}
                IN IF at = {} THEN 0 ELSE AbsVal(A[j][CHOOSE p \in at : TRUE][2])
OffMax(A, j) == Max({0} \cup {AbsVal(A[e[2]][e[3]][2]) :
                                e \in {f \in Entries(A) : f[1] # f[2] /\ j \in {f[1], f[2]}}})
LooksLikeKkt(A) ==
  LET small == {j \in Cols(A) : 100 * DiagOf(A, j) < OffMax(A, j)}
  IN \/ \E j \in Cols(A) : DiagOf(A, j) = 0
     \/ 20 * Cardinality(small) >= Cardinality(Cols(A))
TrialDue(x) ==
  /\ IsAuto(x) /\ ~UsesIdentity(x) /\ N(x) >= AutoMatchingMinN
  /\ x.predicted /\ x.indefinite /\ LooksLikeKkt(x.A)

(* provably_not_diagonal: a sparse column without a diagonal value.        *)
ProvablyNotDiagonal(x) == \E j \in Cols(x.A) \ x.dense : DiagOf(x.A, j) = 0

NewMatcher(x) == Construct(x.A, x.alg, "Degree", x.dense, x.switchWork, -1)

(* The candidate's METIS: parallel ND with threads or in deterministic     *)
(* mode, when candidate_parallel_nd allows it.                             *)
UsesNd(x) == x.threads > 1 \/ x.deterministic
CandidateMetis(x, graph) ==
  IF x.candidateNd /\ UsesNd(x) THEN NdOrder(x.lib, graph.adj, graph.weight)
  ELSE MetisNodeND(x.lib, graph.adj)
CandidateOn(x, mr, graph) ==
  MatchingOrderFrom(x.lib, x.A, mr, graph, "Auto", x.refactors, CandidateMetis(x, graph))
CandidateFrom(x, mr) == CandidateOn(x, mr, PairGraph(x.A, mr))
Candidate(x, s) == IF s.status # "Success" THEN NoCand ELSE CandidateFrom(x, Result(s))
InitialCandidate(x, mr) ==
  MatchingOrderFrom(x.lib, x.A, mr, PairGraph(x.A, mr), "Amd", x.refactors, <<>>)

(* The base ordering: as given, the identity, a matching ordering, AMD or  *)
(* a backend; an ordering that failed falls back to the identity.          *)
AskedOn(x, mr, graph) ==
  MatchingOrderFrom(x.lib, x.A, mr, graph, "Auto", x.refactors, MetisNodeND(x.lib, graph.adj))
AskedFrom(x, mr) == AskedOn(x, mr, PairGraph(x.A, mr))
AskedMatching(x) ==
  IF x.ordering # "Matching" THEN NoCand
  ELSE AskedFrom(x, Result(Advance(Construct(x.A, "ShortestPath", "Column", x.dense, 0, -1), -1)))
BaseFrom(x, cand, amd, back) ==
  LET Base(perm, by, used) == [perm |-> perm, amd |-> by = "amd", used |-> used, cand |-> cand]
  IN IF x.ordering = "UserSupplied" THEN Base(x.userPerm, "user", "UserSupplied")
     ELSE IF UsesIdentity(x) THEN Base(Identity(N(x)), "user", "UserSupplied")
     ELSE IF cand.ok THEN Base(cand.perm, "matching", "Matching")
     ELSE IF amd # <<>> THEN Base(amd, "amd", "AMD")
     ELSE IF back = <<>> THEN Base(Identity(N(x)), "backend", "UserSupplied")
     ELSE Base(back, "backend",
               IF x.ordering = "AutoSerial" THEN "AMD"
               ELSE IF x.ordering = "AutoParallel"
                    THEN IF x.lib.metis # "none" /\ N(x) > MetisMinN THEN "METIS" ELSE "AMD"
               ELSE x.ordering)
BaseOrder(x) ==
  BaseFrom(x, AskedMatching(x),
           IF x.ordering = "METIS" THEN <<>> ELSE AmdOrderAdjacency(x.lib, Adjacency(x.A)),
           BackendOrder(x.lib, IF x.ordering = "AutoParallel" /\ N(x) > MetisMinN
                               THEN "METIS" ELSE x.ordering, Adjacency(x.A)))

InGateBand(x, flops) == flops >= x.skipMin * N(x) /\ flops <= x.skipMax * N(x)

(* AutoParallel tries METIS when the factor of AMD is dear.                *)
MetisDue(x, base, flops) ==
  /\ x.lib.metis # "none" /\ base.amd /\ x.ordering = "AutoParallel" /\ N(x) > MetisMinN
  /\ Dear(x, flops)
-----------------------------------------------------------------------------
(* The calling thread.  m.auto is auto_matching, m.trial the verdict       *)
(* (MatchingTrial), m.cand the candidate of matching_stats, m.matcher a    *)
(* serial matcher that waits (gated or paused).                            *)
Begin(x) ==
  [pc |-> "check", auto |-> FALSE, trial |-> "None", cand |-> NoCand, skipped |-> FALSE,
   matcher |-> NoTrial, deferred |-> FALSE, diagScale |-> <<>>, base |-> NoCand,
   sym |-> NoCand, freeShare |-> 100, keep |-> NoCand]

Idling == UNCHANGED <<nd, worker>>

Check ==
  /\ main.pc = "check"
  /\ main' = IF in.ordering = "UserSupplied" /\ ~UserOrderValid(in)
             THEN [main EXCEPT !.pc = "illegal"]
             ELSE IF N(in) = 0 THEN [main EXCEPT !.pc = "empty"]
             ELSE [main EXCEPT !.pc = "trial"]
  /\ UNCHANGED <<in, trial>> /\ Idling

WithCandidate(m, cand, verdict) ==
  [m EXCEPT !.auto = cand.ok, !.cand = cand, !.matcher = NoTrial,
            !.trial = IF cand.ok THEN verdict ELSE @]
WithExact(m, x, s, verdict) == WithCandidate(m, Candidate(x, s), verdict)

(* A serial trial's budgeted searches: done, or paused for the initial     *)
(* matching's verdict.                                                     *)
Paused(m, x, s) == IF MatchingDone(s) THEN WithExact(m, x, s, "Exact") ELSE [m EXCEPT !.matcher = s]
Budgeted(m, x, s) == Paused(m, x, Advance(s, Budget(x)))

SerialTrial(m, x, s) ==
  IF Diagonal(s)
  THEN [m EXCEPT !.auto = FALSE, !.trial = "Diagonal",
                 !.diagScale = Current(DiagonalResult(s))]
  ELSE IF GateArmed(x) THEN [m EXCEPT !.matcher = s]
  ELSE Budgeted(m, x, s)

StartTrial ==
  /\ main.pc = "trial"
  /\ LET due == TrialDue(in)
         m == [main EXCEPT !.pc = "order", !.auto = due]
     IN IF due /\ in.threads > 1
        THEN /\ main' = IF in.noThread THEN [m EXCEPT !.pc = "inline"] ELSE m
             /\ trial' = [pc |-> "construct", s |-> NoTrial, ctorReady |-> FALSE,
                          ctorDiag |-> FALSE, ready |-> FALSE, within |-> FALSE,
                          diagonal |-> FALSE, scale |-> <<>>, initial |-> NoTrial,
                          stop |-> FALSE, ordered |-> FALSE, cand |-> NoCand,
                          error |-> FALSE, base |-> -1]
        ELSE /\ main' = IF ~due THEN m
                        ELSE IF GateArmed(in) /\ ProvablyNotDiagonal(in)
                             THEN [m EXCEPT !.deferred = TRUE]
                        ELSE SerialTrial(m, in, NewMatcher(in))
             /\ UNCHANGED trial
  /\ UNCHANGED in /\ Idling

(* No thread could be created: the trial runs on the caller to its end.    *)
Inline ==
  /\ main.pc = "inline" /\ trial.pc = "done"
  /\ main' = [main EXCEPT !.pc = "order"]
  /\ UNCHANGED <<in, trial>> /\ Idling

Order ==
  /\ main.pc = "order"
  /\ \E base \in {BaseOrder(in)} :
       main' = [main EXCEPT !.pc = "gate", !.base = base,
                            !.sym = SymbolicCounts(Adjacency(in.A), base.perm)]
  /\ UNCHANGED <<in, trial>> /\ Idling

Concurrent == trial.pc # "none"
SerialWaits(m) == m.matcher # NoTrial

(* The skip gate, on the base AMD ordering's flops per row: serially the   *)
(* matcher waits; the concurrent trial's diagonal verdict is waited for.   *)
GateOpen == /\ main.auto /\ GateArmed(in) /\ main.base.amd
            /\ SerialWaits(main) \/ main.deferred \/ Concurrent
SkipsMut == InGateBand(in, main.sym.flops)
Skips == InGateBand(in, main.sym.flops) /\ ~(Concurrent /\ trial.ctorDiag)

AfterGate(m, x, s) ==
  [(IF s = NoTrial \/ ~m.auto THEN m ELSE Budgeted(m, x, s)) EXCEPT !.pc = "metis"]

Gate ==
  /\ main.pc = "gate"
  /\ GateOpen /\ Concurrent => trial.ctorReady \/ trial.ready
  /\ IF GateOpen /\ Skips
     THEN /\ main' = [main EXCEPT !.auto = FALSE, !.skipped = TRUE, !.matcher = NoTrial,
                                  !.pc = IF Concurrent THEN "joinSkip" ELSE "metis"]
          /\ trial' = IF Concurrent THEN [trial EXCEPT !.stop = TRUE] ELSE trial
     ELSE /\ main' = AfterGate(main, in, IF main.deferred /\ main.auto THEN NewMatcher(in)
                                        ELSE main.matcher)
          /\ UNCHANGED trial
  /\ UNCHANGED in /\ Idling

(* finish(): join, and rethrow what the worker threw.                      *)
JoinSkip ==
  /\ main.pc = "joinSkip" /\ trial.pc = "done"
  /\ main' = [main EXCEPT !.pc = IF trial.error THEN "threw" ELSE "metis"]
  /\ trial' = NoTrial
  /\ UNCHANGED in /\ Idling

CheaperBase(m, p, sym) ==
  IF sym.flops < m.sym.flops
  THEN [m EXCEPT !.base.perm = p, !.base.used = "METIS", !.sym = sym] ELSE m
KeepCheaper(m, x, p) ==
  IF p = <<>> THEN m ELSE CheaperBase(m, p, SymbolicCounts(Adjacency(x.A), p))

TryMetis ==
  /\ main.pc = "metis"
  /\ IF ~MetisDue(in, main.base, main.sym.flops)
     THEN main' = [main EXCEPT !.pc = "based"] /\ Idling
     ELSE IF UsesNd(in) /\ N(in) > 2
     THEN /\ main' = [main EXCEPT !.pc = "dissect"]
          /\ NdStart(Adjacency(in.A), [v \in Cols(in.A) |-> 1], in.ndThreads)
     ELSE /\ main' = [KeepCheaper(main, in,
                        IF UsesNd(in) THEN Identity(N(in))
                        ELSE BackendOrder(in.lib, "METIS", Adjacency(in.A))) EXCEPT !.pc = "based"]
          /\ Idling
  /\ UNCHANGED <<in, trial>>

(* The caller is one of the dissection's threads; it joins the others.     *)
Dissected ==
  /\ main.pc = "dissect" /\ NdDone
  /\ main' = [KeepCheaper(main, in, NdResult) EXCEPT !.pc = "based"]
  /\ nd' = NoNd /\ worker' = <<>>
  /\ UNCHANGED <<in, trial>>

(* base_ordered: the candidate's METIS may now use every thread.           *)
BaseOrdered ==
  /\ main.pc = "based"
  /\ trial' = IF Concurrent THEN [trial EXCEPT !.base = IF Dear(in, main.sym.flops) THEN 1 ELSE 0]
              ELSE trial
  /\ main' = [main EXCEPT !.pc = "verdict"]
  /\ UNCHANGED in /\ Idling

(* The initial matching's verdict: resume the searches, reject, or no      *)
(* ordering at all.                                                        *)
JudgeInitial(m, x, free, cand) ==
  IF ~cand.ok THEN [m EXCEPT !.auto = FALSE, !.pc = "reject"]
  ELSE IF PastRejectRatio(cand.tree.flops, m.sym.flops) /\ ~Dear(x, cand.tree.flops)
  THEN [m EXCEPT !.cand = cand, !.trial = "RejectedInitial", !.freeShare = free,
                 !.pc = "reject"]
  ELSE [m EXCEPT !.cand = cand, !.pc = "resume"]
InitialVerdict(m, x, mr) ==
  IF Dear(x, m.sym.flops) THEN [m EXCEPT !.pc = "resume"]
  ELSE JudgeInitial(m, x, (100 * (N(x) - MatchedRank(mr))) \div N(x), InitialCandidate(x, mr))

(* The calling thread waits for the budgeted searches, then decides.       *)
TrialVerdict ==
  /\ main.pc = "verdict" /\ Concurrent /\ trial.ready
  /\ IF trial.error THEN main' = [main EXCEPT !.pc = "joinThrow"] /\ UNCHANGED trial
     ELSE IF trial.diagonal
     THEN /\ main' = [main EXCEPT !.auto = FALSE, !.trial = "Diagonal",
                                  !.diagScale = trial.scale, !.pc = "joinStop"]
          /\ trial' = [trial EXCEPT !.stop = TRUE]
     ELSE \E m \in {IF trial.within THEN [main EXCEPT !.pc = "resume"]
                    ELSE InitialVerdict(main, in, trial.initial)} :
            /\ main' = [m EXCEPT !.pc = IF @ = "resume" THEN "joinExact" ELSE "joinStop"]
            /\ trial' = IF m.pc = "resume" THEN trial ELSE [trial EXCEPT !.stop = TRUE]
  /\ UNCHANGED in /\ Idling

JoinExact ==
  /\ main.pc = "joinExact" /\ trial.pc = "done"
  /\ main' = IF trial.error THEN [main EXCEPT !.pc = "threw"]
             ELSE [main EXCEPT !.auto = trial.ordered, !.pc = "adopt",
                               !.cand = IF trial.ordered THEN trial.cand ELSE @,
                               !.trial = IF ~trial.ordered THEN @
                                         ELSE IF trial.within THEN "Exact" ELSE "ResumedExact"]
  /\ trial' = NoTrial
  /\ UNCHANGED in /\ Idling

JoinStop ==
  /\ main.pc \in {"joinStop", "joinThrow"} /\ trial.pc = "done"
  /\ main' = [main EXCEPT !.pc = IF trial.error THEN "threw" ELSE "adopt"]
  /\ trial' = NoTrial
  /\ UNCHANGED in /\ Idling

Resumed(m, x) == IF m.pc = "resume"
                 THEN WithExact(m, x, Advance(m.matcher, -1), "ResumedExact")
                 ELSE [m EXCEPT !.matcher = NoTrial]
SerialVerdict ==
  /\ main.pc = "verdict" /\ ~Concurrent
  /\ main' = [(IF ~SerialWaits(main) THEN main
               ELSE Resumed(InitialVerdict(main, in, InitialResult(main.matcher)), in))
              EXCEPT !.pc = "adopt"]
  /\ UNCHANGED <<in, trial>> /\ Idling
-----------------------------------------------------------------------------
(* ConcurrentTrial::run on its worker thread.                              *)
Gated == GateArmed(in)
FailMut(t) == [t EXCEPT !.error = TRUE, !.pc = "done"]
Fail(t) == [t EXCEPT !.error = TRUE, !.ready = TRUE, !.pc = "done"]

TrialConstruct ==
  /\ trial.pc = "construct"
  /\ \E s \in {NewMatcher(in)} :
     trial' = IF in.throws = "construct" THEN Fail(trial)
              ELSE [trial EXCEPT !.s = s, !.ctorReady = Gated, !.ctorDiag = Gated /\ Diagonal(s),
                                 !.pc = IF Diagonal(s) THEN "diagonal" ELSE "search"]
  /\ UNCHANGED <<in, main>> /\ Idling

TrialDiagonal ==
  /\ trial.pc = "diagonal"
  /\ trial' = [trial EXCEPT !.diagonal = TRUE, !.scale = Current(DiagonalResult(trial.s)),
                            !.ready = TRUE, !.pc = "done"]
  /\ UNCHANGED <<in, main>> /\ Idling

(* The budgeted searches: one call, or, gated, slices with a stop check    *)
(* before each.                                                            *)
TrialSearch ==
  /\ trial.pc = "search"
  /\ LET target == IF ~Gated THEN Budget(in)
                   ELSE IF Budget(in) < 0 THEN trial.s.work + Slice(in)
                   ELSE MinOf(Budget(in), trial.s.work + Slice(in))
         Over(t) == ~Gated \/ MatchingDone(t) \/ (Budget(in) >= 0 /\ t.work >= Budget(in))
         Sliced(t) == [trial EXCEPT !.s = t, !.pc = IF Over(t) THEN "publish" ELSE "search"]
     IN \E t \in {IF Gated /\ trial.stop THEN trial.s ELSE Advance(trial.s, target)} :
          trial' = IF Gated /\ trial.stop THEN [trial EXCEPT !.ready = TRUE, !.pc = "done"]
                   ELSE Sliced(t)
  /\ UNCHANGED <<in, main>> /\ Idling

TrialPublish ==
  /\ trial.pc = "publish"
  /\ trial' = [trial EXCEPT !.within = MatchingDone(trial.s), !.ready = TRUE, !.pc = "exact",
                            !.initial = IF MatchingDone(trial.s) THEN NoTrial
                                        ELSE InitialResult(trial.s)]
  /\ UNCHANGED <<in, main>> /\ Idling

(* The remaining searches, a slice between stop checks.                    *)
TrialExact ==
  /\ trial.pc = "exact"
  /\ \E t \in {IF trial.stop THEN trial.s ELSE Advance(trial.s, trial.s.work + Slice(in))} :
       trial' = IF trial.stop THEN [trial EXCEPT !.pc = "done"]
                ELSE [trial EXCEPT !.s = t, !.pc = IF MatchingDone(t) THEN "decide" ELSE "exact"]
  /\ UNCHANGED <<in, main>> /\ Idling

TrialOrder ==
  /\ trial.pc = "decide"
  /\ \E cand \in {IF trial.stop \/ in.throws = "order" THEN NoCand ELSE Candidate(in, trial.s)} :
       trial' = IF ~trial.stop /\ in.throws = "order" THEN Fail(trial)
                ELSE [trial EXCEPT !.ordered = cand.ok, !.cand = cand, !.pc = "done"]
  /\ UNCHANGED <<in, main>> /\ Idling

TrialNext == \/ TrialConstruct \/ TrialDiagonal \/ TrialSearch
             \/ TrialPublish \/ TrialExact \/ TrialOrder
-----------------------------------------------------------------------------
(* The candidate replaces the base ordering unless its flops pass the      *)
(* ratio; then the tree is amalgamated and the keep assembled.             *)
Adopt(m) ==
  IF /\ m.auto /\ m.trial # "RejectedInitial" /\ m.base.used # "Matching"
     /\ WithinFlopsRatio(m.cand.tree.flops, m.sym.flops)
  THEN [m EXCEPT !.base.perm = m.cand.perm, !.base.used = "Matching", !.sym = m.cand.tree]
  ELSE m

(* A user pair stays together when the later column is the earlier one's   *)
(* parent; the earlier is flagged, in the postordered numbering.           *)
KeptPairs(x, sym) ==
  LET at == Position(x.userPerm)
      ends == [q \in DOMAIN x.userPairs |->
                 LET a == at[x.userPairs[q][1]]
                     b == at[x.userPairs[q][2]]
                 IN <<MinOf(a, b), MaxOf(a, b)>>]
  IN {ends[q][1] : q \in {r \in DOMAIN ends : sym.parent[ends[r][1]] = ends[r][2]}}

(* Steps 6 to 8: relabel by the postorder, amalgamate, relabel again; the  *)
(* permuted pattern with the place of every cleaned entry; the fronts.     *)
Fronts(x, final, depth, parent, count, am) ==
  LET inv == Position(am.order)
      n == N(x)
      at == Position(final)
      adj == Adjacency(x.A)
      below == [j \in 1..n |-> {r \in Around(adj, final, j) : r > j}]
      stored(c) == {MaxOf(at[e[1]], at[e[2]]) :
                      e \in {f \in Entries(x.A) : MinOf(at[f[1]], at[f[2]]) = c}}
      slot == [e \in Entries(x.A) |->
                 LET c == MinOf(at[e[1]], at[e[2]])
                 IN <<c, Position(Ascending(stored(c)))[MaxOf(at[e[1]], at[e[2]])]>>]
      kids == ChildrenCsr(am.snodes)
  IN [perm |-> final, snodes |-> am.snodes, children |-> kids,
      parent |-> [k \in 1..n |-> LET up == parent[am.order[k]]
                                 IN IF up = 0 THEN 0 ELSE inv[up]],
      post |-> [k \in 1..n |-> inv[k]],
      depth |-> depth,
      rows |-> FrontRows(below, am.snodes, kids),
      rowsTotal |-> SumOf([s \in DOMAIN am.snodes |-> am.snodes[s].last - am.snodes[s].first
                                                       + count[am.order[am.snodes[s].last]]]),
      column |-> [c \in 1..n |-> Ascending(stored(c))], slot |-> slot]

Symbolic(x, perm, sym) ==
  LET rank == Position(sym.post)
      n == N(x)
      parent == [k \in 1..n |-> LET up == sym.parent[sym.post[k]]
                                IN IF up = 0 THEN 0 ELSE rank[up]]
      count == [k \in 1..n |-> sym.count[sym.post[k]]]
      kept == IF x.ordering = "UserSupplied" THEN {rank[a] : a \in KeptPairs(x, sym)} ELSE {}
      Relabelled(am) == Fronts(x, [k \in 1..n |-> perm[sym.post[am.order[k]]]], sym.depth,
                               parent, count, am)
  IN Relabelled(AmalgamateRelaxed(parent, count, x.nemin, kept, x.rule))

ScaleOf(cand) == IF cand.ok THEN cand.scale ELSE <<>>

(* The scale and the flags an analysis carries.  (Matching asked for in a  *)
(* build without AMD that cannot match either reports Matching for the     *)
(* minimum degree it falls back to, with no scale.)                        *)
Keep(m, x) ==
  LET matching == m.base.used = "Matching"
      rejected == (m.auto /\ ~matching) \/ m.skipped
      partial == \/ m.trial = "Diagonal"
                 \/ /\ m.trial = "RejectedInitial" /\ m.freeShare <= MaxFreePercent
                    /\ ~x.weakPivot
  IN [trial |-> IF m.skipped THEN "Skipped" ELSE m.trial, used |-> m.base.used,
      scale |-> IF m.trial = "Diagonal" THEN m.diagScale
                ELSE IF matching THEN ScaleOf(IF m.base.cand.ok THEN m.base.cand ELSE m.cand)
                ELSE IF partial THEN m.cand.scale ELSE <<>>,
      partial |-> partial, rejected |-> rejected,
      rejectedScale |-> IF rejected /\ m.trial \in {"Exact", "ResumedExact"}
                        THEN m.cand.scale ELSE <<>>,
      eligible |-> IsAuto(x) /\ ~UsesIdentity(x) /\ x.indefinite /\ ~matching]

Outcome(m, x) == Keep(m, x) @@ Symbolic(x, m.base.perm, m.sym)
Finish ==
  /\ main.pc = "adopt"
  /\ \E m \in {Adopt(main)} :
       main' = [m EXCEPT !.pc = "done", !.keep = Outcome(m, in)]
  /\ UNCHANGED <<in, trial>> /\ Idling

MainNext == \/ Check \/ StartTrial \/ Inline \/ Order \/ Gate \/ JoinSkip \/ TryMetis
            \/ Dissected \/ BaseOrdered \/ TrialVerdict \/ JoinExact \/ JoinStop
            \/ SerialVerdict \/ Finish

DissectNext(k) == /\ main.pc = "dissect" /\ k \in DOMAIN worker
                  /\ NdStep(in.lib, k) /\ UNCHANGED <<in, main, trial>>

AnalysisNext == MainNext \/ TrialNext \/ \E k \in 1..3 : DissectNext(k)
AnalysisOver == main.pc \in {"done", "illegal", "empty", "threw"}

(* Weak fairness of the caller, the trial's thread and each thread of the  *)
(* dissection, with ENABLED written out: a thread is ready unless it has   *)
(* ended or waits for another.                                             *)
CallerWaits ==
  \/ main.pc \in {"inline", "joinSkip", "joinExact", "joinStop", "joinThrow"} /\ trial.pc # "done"
  \/ main.pc = "gate" /\ GateOpen /\ Concurrent /\ ~trial.ctorReady /\ ~trial.ready
  \/ main.pc = "verdict" /\ Concurrent /\ ~trial.ready
  \/ main.pc = "dissect" /\ ~NdDone
HelperReady(k) == /\ main.pc = "dissect" /\ k \in DOMAIN worker /\ worker[k].pc # "done"
                  /\ worker[k].pc = "pop" => nd.failed \/ nd.queue # {} \/ nd.pending = 0

AnalysisFair ==
  /\ <>[](~AnalysisOver /\ ~CallerWaits) => []<><<MainNext>>_avars
  /\ <>[](trial.pc \notin {"none", "done"}) => []<><<TrialNext>>_avars
  /\ \A k \in 1..3 : <>[]HelperReady(k) => []<><<DissectNext(k)>>_avars

(***************************************************************************)
(* What Solver::analyse promises of its result (main.keep): it does not    *)
(* depend on how the trial's thread, the dissection's threads and the      *)
(* caller interleave, its scale comes from a maximum-product matching, and *)
(* its fronts hold the factor exactly.                                     *)
(***************************************************************************)
Finished == main.pc = "done"

(* The verdict in one piece: every search to its end, the dissection by    *)
(* one caller, no gate that waits, no slice, no stop.                      *)
Skipped(m, x, s) == /\ m.auto /\ ~Diagonal(s) /\ GateArmed(x) /\ m.base.amd
                    /\ InGateBand(x, m.sym.flops)
SecondOrder(x) == IF UsesNd(x) THEN NdOrder(x.lib, Adjacency(x.A), [v \in Cols(x.A) |-> 1])
                  ELSE BackendOrder(x.lib, "METIS", Adjacency(x.A))
BegunMain(x, base) ==
  [Begin(x) EXCEPT !.auto = TrialDue(x), !.base = base,
                   !.sym = SymbolicCounts(Adjacency(x.A), base.perm)]
GatedMain(x, m, s) == IF Skipped(m, x, s) THEN [m EXCEPT !.auto = FALSE, !.skipped = TRUE] ELSE m
BasedMain(x, m) ==
  IF MetisDue(x, m.base, m.sym.flops) THEN KeepCheaper(m, x, SecondOrder(x)) ELSE m
Verdict(x, m, s) ==
  IF Budget(x) < 0 \/ MatchingDone(Advance(s, Budget(x))) THEN [m EXCEPT !.pc = "within"]
  ELSE InitialVerdict(m, x, InitialResult(s))
ExactMain(x, v, s) ==
  IF v.pc \in {"within", "resume"}
  THEN WithExact(v, x, Advance(s, -1), IF v.pc = "within" THEN "Exact" ELSE "ResumedExact")
  ELSE v
JudgedMain(x, m, s) ==
  IF ~m.auto THEN m
  ELSE IF Diagonal(s) THEN [m EXCEPT !.auto = FALSE, !.trial = "Diagonal",
                                     !.diagScale = Current(DiagonalResult(s))]
  ELSE ExactMain(x, Verdict(x, m, s), s)
SerialMain(x) ==
  JudgedMain(x, BasedMain(x, GatedMain(x, BegunMain(x, BaseOrder(x)), NewMatcher(x))),
             NewMatcher(x))

(* Determinism of the analysis: whatever the interleaving of the trial's   *)
(* searches, its stop, the skip gate, the parallel dissection and the      *)
(* caller, the orders, the verdict, the scale and the flags are those of   *)
(* the same call done in one piece; an exception reaches the caller only   *)
(* when something threw.                                                   *)
TrialAsSerial ==
  /\ Finished => main.keep = Outcome(Adopt(SerialMain(in)), in)
  /\ main.pc = "threw" => in.throws # ""
  /\ AnalysisOver => trial = NoTrial

(* The value of twice the log of entry (i, j) under a scale.               *)
ScaledAt(scale, e, A) == 2 * LogOf(A[e[2]][e[3]][2]) + scale[e[1]] + scale[e[2]]

(* The product of a perfect matching of A, as twice its logarithm's sum.   *)
BestProduct(A) ==
  LET g == BuildCostGraph(A)
      Log(p) == SumOf([j \in Cols(A) |-> g.top[j] - g.cost[j][p[j]]])
  IN Max({Log(p) : p \in Perfect(g)})
Stored(A) == {e \in Entries(A) : A[e[2]][e[3]][2] # 0}

(* The scale the analysis keeps, and the one it keeps for a later          *)
(* scale-on-delay: no scaled entry exceeds one, and after the exact        *)
(* searches, or a diagonal that left no dense column free, the product of  *)
(* the scale over the columns is the inverse of the largest product of a   *)
(* perfect matching (the optimal dual).  With dense columns a diagonal     *)
(* trial runs no search: its partial scale is feasible and no more.        *)
ScaleIsOptimal ==
  Finished =>
    /\ \A scale \in {main.keep.scale, main.keep.rejectedScale} \ {<<>>} :
         \A e \in Stored(in.A) : ScaledAt(scale, e, in.A) <= 0
    /\ \/ main.keep.trial \in {"Exact", "ResumedExact"}
       \/ main.keep.trial = "Diagonal" /\ in.dense = {}
       =>
         LET scale == IF main.keep.scale # <<>> THEN main.keep.scale ELSE main.keep.rejectedScale
         IN scale # <<>> /\ SumOf(scale) = -BestProduct(in.A)

(* The fronts hold the factor: the supernodes partition the columns of an  *)
(* order of the matrix, children before parents; tree, counts and the rows *)
(* of every front are those of the filled pattern, each front's rows below *)
(* its columns fit in its parent; every cleaned entry has its place.       *)
FrontsHoldFactor ==
  Finished =>
    LET k == main.keep
        adj == Adjacency(in.A)
        L == Filled(adj, k.perm)
        at == Position(k.perm)
        mine(s) == k.snodes[s].first..k.snodes[s].last
        deep(s) == {r \in k.rows[s] : r > k.snodes[s].last}
    IN /\ IsOrder(k.perm, Cols(in.A))
       /\ UNION {mine(s) : s \in DOMAIN k.snodes} = DOMAIN k.perm
       /\ \A s \in DOMAIN k.snodes : /\ k.snodes[s].parent = 0 \/ k.snodes[s].parent > s
                                     /\ s > 1 => k.snodes[s].first = k.snodes[s - 1].last + 1
       /\ \A c \in DOMAIN k.perm : k.parent[c] = (IF L[c] = {} THEN 0 ELSE Min(L[c]))
       /\ \A s \in DOMAIN k.snodes :
            /\ k.rows[s] = mine(s) \cup UNION {L[c] : c \in mine(s)}
            /\ deep(s) # {} => /\ k.snodes[s].parent # 0
                               /\ deep(s) \subseteq k.rows[k.snodes[s].parent]
       /\ k.rowsTotal = SumOf([s \in DOMAIN k.snodes |-> Cardinality(k.rows[s])])
       /\ \A e \in Entries(in.A) :
            LET c == k.slot[e][1] IN
            /\ {c, k.column[c][k.slot[e][2]]} = {at[e[1]], at[e[2]]}
            /\ c = MinOf(at[e[1]], at[e[2]])
       /\ in.ordering = "UserSupplied" =>
            \A a \in {q \in 1..Len(in.userPairs) :
                        LET ends == {at[in.userPairs[q][1]], at[in.userPairs[q][2]]}
                        IN L[Min(ends)] # {} /\ Min(L[Min(ends)]) = Max(ends)} :
              \E s \in DOMAIN k.snodes :
                {at[in.userPairs[a][1]], at[in.userPairs[a][2]]} \subseteq mine(s)

(* Every analysis ends, with its threads joined.                           *)
AnalysisEnds == <>AnalysisOver
=============================================================================
