---------------------------- MODULE Multifrontal ----------------------------
(***************************************************************************)
(* The numeric factorization (multifrontal_factor_serial, solver/src/      *)
(* multifrontal_serial.cpp) with its numbers: the serial engine over the   *)
(* postorder; and the tree-parallel one, where whole subtrees run on the   *)
(* threads' passes, the top fronts on the passes PassLanes hands out, and  *)
(* the gather concatenates the passes into one factor. ParallelFactor      *)
(* models how the subtrees are claimed and how a stop ends the run; here   *)
(* any thread takes any subtree nobody took, and a failed front ends the   *)
(* phase at once.                                                          *)
(***************************************************************************)
EXTENDS PassLanes, ProcessFront

LOCAL INSTANCE SequencesExt
LOCAL INSTANCE TLC

CONSTANT Problems   (* a set of problems *)

VARIABLES
  cs,           (* the problem: constant                                    *)
  expected,     (* auxiliary: what the serial engine ends with: constant    *)
  stage,        (* serial, subtrees, top, gather or done                    *)
  w,            (* the passes and what the fronts share                     *)
  status,
  node_budget,  (* the budget states of subtree roots and top fronts        *)
  serial,       (* the serial engine: its next front and running budget     *)
  started,      (* subtrees taken                                           *)
  task,         (* each thread's subtree, next front, first step and budget *)
  subtree_steps, phase1_steps,
  front,        (* the top front each thread runs, 0 for none               *)
  done,         (* top fronts completed: [pass, step, node]                 *)
  keep          (* the FactorKeep, once the factorization has ended         *)

inputs  == <<cs, expected>>
lanes   == <<busy, room, lane, need, pc>>
subtree == <<started, task, subtree_steps>>
mfVars  == <<inputs, stage, w, status, node_budget, serial, subtree, phase1_steps, front, done,
             keep, lanes>>

NS(p)  == Len(p.cols)
Fronts == 1..NS(cs)
Parallel(p) == p.threads > 1

-----------------------------------------------------------------------------
(* Passes                                                                  *)

EmptyPass ==
  [fv |-> <<>>, sri |-> <<>>, steps |-> <<>>, diag |-> <<>>, marks |-> <<>>, stack |-> {},
   cv_top |-> 0, held |-> <<[node |-> 0, block |-> NoBlock], [node |-> 0, block |-> NoBlock]>>,
   st |-> [inertia |-> Counts(0, 0, 0), statics |-> {}, retries |-> 0]]

Workspace(p) ==
  [passes |-> [me \in MainPass..(IF Parallel(p) THEN p.threads ELSE MainPass) |-> EmptyPass],
   cb |-> [s \in 1..NS(p) |-> [owner |-> MainPass, off |-> 0, size |-> 0, delayed |-> 0]],
   nodes |-> [s \in 1..NS(p) |-> NoPointer],
   memory |-> ArenaReset(p.memory),
   front_pass |-> [s \in 1..NS(p) |-> MainPass], col_ptr |-> [s \in 1..NS(p) |-> 0],
   types |-> [s \in 1..NS(p) |-> <<>>]]

Call(p, s, me, pop, tc, next) ==
  [cs |-> p, s |-> s, me |-> me, pop |-> pop, tc |-> tc, next |-> next]

\* diag_marks
Marked(v, me, s) ==
  [v EXCEPT !.passes[me].marks = Append(@, [node |-> s, end |-> Len(v.passes[me].diag)])]

-----------------------------------------------------------------------------
(* Delay budget regions                                                    *)

BudgetRegions(p) == BudgetArmed(p.ctl) /\ p.subtrees # <<>>

\* A top front starts from what its children ended with.
TopInState(p, nb, s) ==
  [count |-> FoldLeft(LAMBDA sum, c : sum + nb[c].count, 0, p.kids[s]),
   spent |-> \E c \in ToSet(p.kids[s]) : nb[c].spent]

FirstOfSubtree(p, s) == \E i \in DOMAIN p.subtrees : p.subtrees[i][1] = s
LastOfSubtree(p, s)  == \E i \in DOMAIN p.subtrees : p.subtrees[i][2] = s

-----------------------------------------------------------------------------
(* The serial engine: m is [w, at, bs, node_budget, status]                *)

\* Mutant: a subtree counts on from the one before.
BudgetIntoMut(p, m) ==
  IF BudgetRegions(p) /\ InTop(p, m.at) THEN TopInState(p, m.node_budget, m.at) ELSE m.bs

\* The budget state of the front m.at.
BudgetInto(p, m) ==
  CASE BudgetRegions(p) /\ InTop(p, m.at) -> TopInState(p, m.node_budget, m.at)
    [] BudgetRegions(p) /\ FirstOfSubtree(p, m.at) -> NoBudget
    [] OTHER -> m.bs

AfterFront(p, m, r) ==
  [w |-> r.w, at |-> m.at + 1, status |-> r.status,
   bs |-> IF BudgetRegions(p) /\ InTop(p, m.at) THEN m.bs ELSE r.bs,
   node_budget |-> IF BudgetRegions(p) /\ (InTop(p, m.at) \/ LastOfSubtree(p, m.at))
                   THEN [m.node_budget EXCEPT ![m.at] = r.bs] ELSE m.node_budget]

SerialFront(p, m) ==
  AfterFront(p, m, ProcessFrontOf(Call(p, m.at, MainPass, TRUE, p.ctl.det,
                                       IF m.at < NS(p) THEN m.at + 1 ELSE 0),
                                  m.w, BudgetInto(p, m)))

SerialStart(p) ==
  [w |-> Workspace(p), at |-> 1, bs |-> NoBudget,
   node_budget |-> [s \in 1..NS(p) |-> NoBudget], status |-> "Success"]

\* The serial engine run to its end.
RECURSIVE SerialRun(_, _)
SerialRun(p, m) ==
  IF m.at > NS(p) \/ m.status # "Success" THEN m ELSE SerialRun(p, SerialFront(p, m))

KeepOf(v) ==
  [fv |-> v.passes[MainPass].fv, sri |-> v.passes[MainPass].sri, diag |-> v.passes[MainPass].diag,
   types |-> v.types, col_ptr |-> v.col_ptr, st |-> v.passes[MainPass].st,
   steps |-> v.passes[MainPass].steps, subtrees |-> <<>>, top_begin |-> 0, top_parent |-> <<>>,
   top_rows |-> <<>>]

EndOf(m) == [status |-> m.status, keep |-> KeepOf(m.w)]
SerialEnd(p) == EndOf(SerialRun(p, SerialStart(p)))

-----------------------------------------------------------------------------
MfInit ==
  /\ cs \in Problems
  /\ expected = IF Parallel(cs) THEN SerialEnd([cs EXCEPT !.threads = 1]) ELSE <<>>
  /\ stage = IF Parallel(cs) THEN "subtrees" ELSE "serial"
  /\ w = Workspace(cs)
  /\ status = "Success"
  /\ node_budget = [s \in Fronts |-> NoBudget]
  /\ serial = [at |-> 1, bs |-> NoBudget]
  /\ started = {}
  /\ task = [t \in Threads |-> [at |-> 0, last |-> 0, first |-> 0, bs |-> NoBudget]]
  /\ subtree_steps = [t \in Threads |-> <<>>]
  /\ phase1_steps = [t \in Threads |-> 0]
  /\ front = [t \in Threads |-> 0]
  /\ done = <<>>
  /\ keep = <<>>
  /\ busy = {} /\ room = [l \in Lanes |-> 0] /\ need = [t \in Threads |-> 0]
  /\ lane = [t \in Threads |-> NoLane] /\ pc = [t \in Threads |-> "idle"]

NextSerial(m) ==
  /\ w' = m.w /\ status' = m.status /\ node_budget' = m.node_budget
  /\ serial' = [at |-> m.at, bs |-> m.bs]
  /\ stage' = IF m.status # "Success" \/ m.at > NS(cs) THEN "gather" ELSE stage

SerialStep ==
  /\ stage = "serial"
  /\ NextSerial(SerialFront(cs, [w |-> w, at |-> serial.at, bs |-> serial.bs,
                                 node_budget |-> node_budget, status |-> status]))
  /\ UNCHANGED <<inputs, subtree, phase1_steps, front, done, keep, lanes>>

-----------------------------------------------------------------------------
(* Phase 1: the subtrees                                                   *)

NoTask(t) == task[t].at = 0

TakeSubtree(t) ==
  /\ stage = "subtrees" /\ status = "Success" /\ NoTask(t)
  /\ \E i \in DOMAIN cs.subtrees \ started :
       /\ started' = started \cup {i}
       /\ task' = [task EXCEPT ![t] =
                     [at |-> cs.subtrees[i][1], last |-> cs.subtrees[i][2],
                      first |-> Len(w.passes[1 + t].steps), bs |-> NoBudget]]
  /\ UNCHANGED <<inputs, stage, w, status, node_budget, serial, subtree_steps, phase1_steps,
                 front, done, keep, lanes>>

\* A front of the subtree; its last one ends the task.
SubtreeFrontDone(t, s, r) ==
  /\ w' = IF r.status = "Success" THEN Marked(r.w, 1 + t, s) ELSE r.w
  /\ status' = r.status
  /\ IF r.status = "Success" /\ s < task[t].last
     THEN /\ task' = [task EXCEPT ![t].at = @ + 1, ![t].bs = r.bs]
          /\ UNCHANGED <<subtree_steps, node_budget>>
     ELSE /\ task' = [task EXCEPT ![t] = [at |-> 0, last |-> 0, first |-> 0, bs |-> NoBudget]]
          /\ subtree_steps' = [subtree_steps EXCEPT ![t] =
                                 Append(@, <<task[t].first, Len(r.w.passes[1 + t].steps)>>)]
          /\ node_budget' = IF BudgetRegions(cs) /\ r.status = "Success"
                            THEN [node_budget EXCEPT ![s] = r.bs] ELSE node_budget

SubtreeFront(t) ==
  /\ stage = "subtrees" /\ status = "Success" /\ ~NoTask(t)
  /\ SubtreeFrontDone(t, task[t].at,
       ProcessFrontOf(Call(cs, task[t].at, 1 + t, TRUE, cs.ctl.det,
                           IF task[t].at < task[t].last THEN task[t].at + 1 ELSE 0),
                      w, task[t].bs))
  /\ UNCHANGED <<inputs, stage, serial, started, phase1_steps, front, done, keep, lanes>>

\* Both phases' join; the passes' rooms are whatever phase 1 has left.
SubtreesEnd ==
  /\ stage = "subtrees"
  /\ status # "Success" \/ (started = DOMAIN cs.subtrees /\ \A t \in Threads : NoTask(t))
  /\ phase1_steps' = [t \in Threads |-> Len(w.passes[1 + t].steps)]
  /\ IF status = "Success" THEN stage' = "top" /\ room' \in [Lanes -> 0..MaxRoom]
     ELSE stage' = "gather" /\ UNCHANGED room
  /\ UNCHANGED <<inputs, w, status, node_budget, serial, subtree, front, done, keep,
                 busy, lane, need, pc>>

-----------------------------------------------------------------------------
(* Phase 2: the top of the tree (TopScheduler::work)                       *)

Top      == {s \in Fronts : InTop(cs, s)}
Complete == {done[i].node : i \in DOMAIN done}
Taken    == Complete \cup {front[t] : t \in Threads}
TopKids(s) == ToSet(cs.kids[s]) \cap Top

\* A listed front: one without children in the top part.
TakeTop(t) ==
  /\ stage = "top" /\ status = "Success" /\ pc[t] = "idle"
  /\ NextFront(t)
  /\ \E s \in Top \ Taken : TopKids(s) = {} /\ front' = [front EXCEPT ![t] = s]
  /\ UNCHANGED <<inputs, stage, w, status, node_budget, serial, subtree, phase1_steps, done, keep>>

Pick(t) ==
  /\ stage = "top"
  /\ KeepLane(t) \/ PickLocked(t)
  /\ UNCHANGED <<inputs, stage, w, status, node_budget, serial, subtree, phase1_steps, front, done,
                 keep>>

TopFrontDone(t, s, r) ==
  /\ w' = IF r.status = "Success" THEN Marked(r.w, 1 + lane[t], s) ELSE r.w
  /\ status' = IF r.status = "Success" THEN status ELSE r.status
  /\ node_budget' = IF BudgetRegions(cs) THEN [node_budget EXCEPT ![s] = r.bs] ELSE node_budget

RunTop(t) ==
  /\ stage = "top"
  /\ Run(t)
  /\ TopFrontDone(t, front[t],
       ProcessFrontOf(Call(cs, front[t], 1 + lane[t], FALSE, TRUE, 0), w,
                      IF BudgetRegions(cs) THEN TopInState(cs, node_budget, front[t]) ELSE NoBudget))
  /\ UNCHANGED <<inputs, stage, serial, subtree, phase1_steps, front, done, keep>>

\* finish(): the front is completed, and the thread goes on with the parent
\* whose last child it was.
WithCompleted(t) ==
  Append(done, [pass |-> 1 + lane[t], step |-> Len(w.passes[1 + lane[t]].steps), node |-> front[t]])

GoesOn(t) ==
  LET p == cs.parent[front[t]]
  IN p # 0 /\ TopKids(p) \subseteq Complete \cup {front[t]}

ContinueTop(t) ==
  /\ stage = "top" /\ status = "Success" /\ pc[t] = "ran"
  /\ GoesOn(t)
  /\ NextFront(t)
  /\ done' = WithCompleted(t)
  /\ front' = [front EXCEPT ![t] = cs.parent[front[t]]]
  /\ UNCHANGED <<inputs, stage, w, status, node_budget, serial, subtree, phase1_steps, keep>>

EndChain(t) ==
  /\ stage = "top" /\ pc[t] = "ran"
  /\ status = "Success" => ~GoesOn(t)
  /\ Release(t)
  /\ done' = IF status = "Success" THEN WithCompleted(t) ELSE done
  /\ front' = [front EXCEPT ![t] = 0]
  /\ UNCHANGED <<inputs, stage, w, status, node_budget, serial, subtree, phase1_steps, keep>>

TopEnd ==
  /\ stage = "top"
  /\ status # "Success" \/ Complete = Top
  /\ \A t \in Threads : pc[t] = "idle"
  /\ stage' = "gather"
  /\ UNCHANGED <<inputs, w, status, node_budget, serial, subtree, phase1_steps, front, done, keep,
                 lanes>>

-----------------------------------------------------------------------------
(* Phase 3: the gather                                                     *)

Passes == 1..cs.threads

\* The passes before t: what they put into fv and sri.
FvBase(t)  == FoldLeft(LAMBDA sum, u : sum + Len(w.passes[u].fv), 0, [u \in 1..(t - 1) |-> u])
SriBase(t) == FoldLeft(LAMBDA sum, u : sum + Len(w.passes[u].sri), 0, [u \in 1..(t - 1) |-> u])

\* Mutant: the row offsets move by the factor values' base.
RelocatedMut(t, step) ==
  [step EXCEPT !.factor_offset = @ + FvBase(t), !.row_offset = @ + FvBase(t)]

Relocated(t, step) ==
  [step EXCEPT !.factor_offset = @ + FvBase(t), !.row_offset = @ + SriBase(t)]

Concatenated(f(_)) == FlattenSeq([t \in Passes |-> f(t)])

Phase1Of(t) == [i \in 1..phase1_steps[t - 1] |-> Relocated(t, w.passes[t].steps[i])]
TopSteps    == [i \in DOMAIN done |-> Relocated(done[i].pass, w.passes[done[i].pass].steps[done[i].step])]

\* Deterministic mode: every step in postorder.
StepOfMark(t, s) ==
  Relocated(t, w.passes[t].steps[CHOOSE i \in DOMAIN w.passes[t].marks : w.passes[t].marks[i].node = s])
PostorderSteps == [s \in Fronts |-> StepOfMark(w.front_pass[s], s)]

StepBase(t) ==
  FoldLeft(LAMBDA sum, u : sum + phase1_steps[u - 1], 0, [u \in 1..(t - 1) |-> u])
RangesOf(t) ==
  [i \in DOMAIN subtree_steps[t - 1] |-> <<StepBase(t) + subtree_steps[t - 1][i][1],
                                           StepBase(t) + subtree_steps[t - 1][i][2]>>]

StepWork(step) == step.p * step.f
RangeWork(steps, r) ==
  FoldLeft(LAMBDA sum, i : sum + StepWork(steps[i]), 0, [i \in 1..(r[2] - r[1]) |-> r[1] + i])
HeaviestFirst(steps, ranges) ==
  SortSeq(ranges, LAMBDA q, r : RangeWork(steps, q) > RangeWork(steps, r))

\* The D entries front by front, in postorder.
EntriesOfMark(pass, i) ==
  SubSeq(pass.diag, (IF i = 1 THEN 0 ELSE pass.marks[i - 1].end) + 1, pass.marks[i].end)
EntriesOfFront(pass, s) ==
  EntriesOfMark(pass, CHOOSE i \in DOMAIN pass.marks : pass.marks[i].node = s)
DiagInPostorder == FlattenSeq([s \in Fronts |-> EntriesOfFront(w.passes[w.front_pass[s]], s)])

TopParents ==
  [i \in DOMAIN done |->
     LET p == cs.parent[done[i].node]
     IN IF p = 0 THEN -1 ELSE (CHOOSE j \in DOMAIN done : done[j].node = p) - 1]

FrontBase(s) == FvBase(w.front_pass[s])

TotalStats(passes) ==
  [inertia |-> FoldLeft(LAMBDA c, t : AddCounts(c, w.passes[t].st.inertia), Counts(0, 0, 0), passes),
   statics |-> UNION {w.passes[t].st.statics : t \in ToSet(passes)},
   retries |-> FoldLeft(LAMBDA c, t : c + w.passes[t].st.retries, 0, passes)]

\* Pivot rows of the top part: solve_top_rows.
PivotRows(rows, step) == SubSeq(rows, step.row_offset + 1, step.row_offset + step.p)
TopRowsOf(rows, steps) == FlattenSeq([i \in DOMAIN steps |-> PivotRows(rows, steps[i])])

ParallelKeep ==
  LET fv  == Concatenated(LAMBDA t : w.passes[t].fv)
      sri == Concatenated(LAMBDA t : w.passes[t].sri)
      sub == Concatenated(Phase1Of)
      base == [fv |-> fv, sri |-> sri, diag |-> DiagInPostorder, types |-> w.types,
               col_ptr |-> [s \in Fronts |-> w.col_ptr[s] + FrontBase(s)],
               st |-> TotalStats([t \in Passes |-> t])]
  IN IF cs.ctl.det
     THEN base @@ [steps |-> PostorderSteps, subtrees |-> <<>>, top_begin |-> 0,
                   top_parent |-> <<>>, top_rows |-> <<>>]
     ELSE base @@ [steps |-> sub \o TopSteps, subtrees |-> HeaviestFirst(sub, Concatenated(RangesOf)),
                   top_begin |-> Len(sub), top_parent |-> TopParents,
                   top_rows |-> TopRowsOf(sri, TopSteps)]

Gather ==
  /\ stage = "gather"
  /\ stage' = "done"
  /\ keep' = IF status # "Success" THEN <<>>
             ELSE IF Parallel(cs) THEN ParallelKeep ELSE KeepOf(w)
  /\ UNCHANGED <<inputs, w, status, node_budget, serial, subtree, phase1_steps, front, done, lanes>>

-----------------------------------------------------------------------------
ThreadStep(t) ==
  \/ TakeSubtree(t) \/ SubtreeFront(t) \/ TakeTop(t) \/ Pick(t) \/ RunTop(t)
  \/ ContinueTop(t) \/ EndChain(t)

MfNext == SerialStep \/ (\E t \in Threads : ThreadStep(t)) \/ SubtreesEnd \/ TopEnd \/ Gather
          \/ (stage = "done" /\ UNCHANGED mfVars)

MfSpec == MfInit /\ [][MfNext]_mfVars

-----------------------------------------------------------------------------
(* Properties                                                              *)

Factored == stage = "done" /\ status = "Success"

Cell(step, c, i) == keep.fv[step.factor_offset + (c - 1) * step.f + i]
RowAt(step, i)   == keep.sri[step.row_offset + i]
PosIn(step, r)   == {i \in 1..step.f : RowAt(step, i) = r}

\* The steps' D, and L's row of position i, as the solve reads them.
SecondOf2(step, c) == c > 1 /\ Cell(step, c, c - 1) # Zero
FirstOf2(step, c)  == c < step.p /\ SecondOf2(step, c + 1)
LRowAt(step, i) ==
  [c \in 1..step.p |-> IF c = i THEN One ELSE IF i > c THEN Cell(step, c, i) ELSE Zero]
StepTerm(step, i, j) ==
  Total([c \in 1..step.p |->
    LET l == LRowAt(step, i)
        m == LRowAt(step, j)
    IN IF SecondOf2(step, c) THEN Times(l[c], Plus(Times(Cell(step, c, c - 1), m[c - 1]),
                                                   Times(Cell(step, c, c), m[c])))
       ELSE IF FirstOf2(step, c) THEN Times(l[c], Plus(Times(Cell(step, c, c), m[c]),
                                                       Times(Cell(step, c + 1, c), m[c + 1])))
       ELSE Times(l[c], Times(Cell(step, c, c), m[c]))], 1..step.p)

Product(x, y) ==
  Total([k \in DOMAIN keep.steps |->
    IF PosIn(keep.steps[k], x) = {} \/ PosIn(keep.steps[k], y) = {} THEN Zero
    ELSE StepTerm(keep.steps[k], CHOOSE i \in PosIn(keep.steps[k], x) : TRUE,
                                 CHOOSE i \in PosIn(keep.steps[k], y) : TRUE)], DOMAIN keep.steps)

\* L D L^T is the matrix, but for the diagonals static pivoting has raised.
Reconstructs ==
  \A x, y \in DOMAIN cs.a : x <= y /\ ~(x = y /\ x \in keep.st.statics) => Product(x, y) = cs.a[x][y]

\* Sylvester's counts by any exact elimination.
RECURSIVE InertiaOf(_, _)
Schur1(a, R, r) == [x \in R |-> [y \in R |-> Minus(a[x][y], Over(Times(a[x][r], a[r][y]), a[r][r]))]]
Schur2(a, R, q, r) ==   \* a[q][q] = a[r][r] = 0
  [x \in R |-> [y \in R |->
     Minus(a[x][y], Over(Plus(Times(a[x][q], a[r][y]), Times(a[x][r], a[q][y])), a[q][r]))]]
InertiaOf(a, R) ==
  IF \E r \in R : a[r][r] # Zero
  THEN LET r == CHOOSE r \in R : a[r][r] # Zero
       IN AddCounts(IF a[r][r][1] > 0 THEN Counts(1, 0, 0) ELSE Counts(0, 1, 0),
                    InertiaOf(Schur1(a, R \ {r}, r), R \ {r}))
  ELSE IF \E q, r \in R : a[q][r] # Zero
  THEN LET q == CHOOSE q \in R : \E r \in R : a[q][r] # Zero
           r == CHOOSE r \in R : a[q][r] # Zero
       IN AddCounts(Counts(1, 1, 0), InertiaOf(Schur2(a, R \ {q, r}, q, r), R \ {q, r}))
  ELSE Counts(0, 0, Cardinality(R))

\* Every entry of L is within the threshold's bound.
GrowthBounded ==
  \A k \in DOMAIN keep.steps : \A c \in 1..keep.steps[k].p : \A i \in (c + 1)..keep.steps[k].f :
    AtMost(Times(cs.ctl.pivot_u, Mag(Cell(keep.steps[k], c, i))), One)

NeverStatic == ~cs.ctl.posdef /\ StaticPivot(cs.ctl) = Zero /\ FallbackStatic(cs.ctl) = Zero
               /\ ~BudgetArmed(cs.ctl)

\* ldlt_kernel.hpp:40-52, multifrontal_serial.hpp: whatever kernels the
\* fronts took, and wherever their parts ended up in the gathered factor,
\* L D L^T read through the final offsets is the matrix (but for the raised
\* diagonals), a run without static pivots reports the matrix's inertia and
\* keeps the entries of L within 1/u, and a positive definite factorization
\* succeeds exactly on positive definite matrices.
FactorIsExact ==
  /\ Factored => Reconstructs
  /\ Factored /\ NeverStatic => keep.st.inertia = InertiaOf(cs.a, DOMAIN cs.a) /\ GrowthBounded
  /\ stage = "done" /\ cs.ctl.posdef =>
       (status = "Success" <=> InertiaOf(cs.a, DOMAIN cs.a).pos = Cardinality(DOMAIN cs.a))

\* Front s's rows, sizes and columns, through factor_col_ptr.
BlockOf(k, s, step) ==
  [rows |-> SubSeq(k.sri, step.row_offset + 1, step.row_offset + step.f), p |-> step.p,
   values |-> SubSeq(k.fv, k.col_ptr[s] + 1, k.col_ptr[s] + step.p * step.f)]
SameBlock(k, m, s, i) ==
  /\ \E j \in DOMAIN k.steps : k.steps[j].factor_offset = k.col_ptr[s]
                               /\ BlockOf(k, s, k.steps[j]) = BlockOf(m, s, m.steps[i])

\* determinism.hpp:5-10, multifrontal_serial.cpp (delay budget regions):
\* whichever threads and passes run the fronts, every front's rows and
\* columns, D in postorder, the inertia, the static pivots and the budget
\* retries are the serial engine's (as long as no front is tiled outside
\* deterministic mode), and in deterministic mode the steps' order is.
DealtAsSerial ==
  stage = "done" /\ Parallel(cs) /\ (cs.ctl.det \/ ~TilesOn(cs)) =>
    /\ status = expected.status
    /\ status = "Success" =>
         LET k == expected.keep
         IN /\ \A s \in Fronts : SameBlock(keep, k, s, s)
            /\ keep.diag = k.diag /\ keep.types = k.types /\ keep.st = k.st
            /\ cs.ctl.det => \A s \in Fronts : BlockOf(keep, s, keep.steps[s]) = BlockOf(k, s, k.steps[s])

PivotStep(r) ==
  {k \in DOMAIN keep.steps : \E i \in 1..keep.steps[k].p : RowAt(keep.steps[k], i) = r}

\* Top steps k (numbered from 1) above which j is, by solve_top_parent.
RECURSIVE AboveTop(_)
AboveTop(i) == IF keep.top_parent[i] = -1 THEN {}
               ELSE {keep.top_parent[i] + 1} \cup AboveTop(keep.top_parent[i] + 1)

\* What the solve phase takes from the layout (solve_forward.cpp,
\* solve_backward.cpp): every row is pivoted in one step; a step's update
\* rows are pivoted in later steps; those of a subtree's step in the subtree
\* or the top part, those of a top step above it in the top tree; and the
\* subtrees are disjoint ranges that cover the steps before the top part.
LayoutSolves ==
  Factored =>
    /\ \A r \in DOMAIN cs.a : Cardinality(PivotStep(r)) = 1
    /\ \A k \in DOMAIN keep.steps : \A i \in (keep.steps[k].p + 1)..keep.steps[k].f :
         \A j \in PivotStep(RowAt(keep.steps[k], i)) :
           /\ k < j
           /\ \A r \in ToSet(keep.subtrees) :
                k \in (r[1] + 1)..r[2] => j <= r[2] \/ j > keep.top_begin
           /\ keep.subtrees # <<>> /\ k > keep.top_begin =>
                j - keep.top_begin \in AboveTop(k - keep.top_begin)
    /\ keep.subtrees # <<>> =>
         /\ UNION {(r[1] + 1)..r[2] : r \in ToSet(keep.subtrees)} = 1..keep.top_begin
         /\ \A q, r \in DOMAIN keep.subtrees : q # r =>
              keep.subtrees[q][2] <= keep.subtrees[r][1] \/ keep.subtrees[r][2] <= keep.subtrees[q][1]
         /\ ToSet(keep.top_rows) =
              {r \in DOMAIN cs.a : \A k \in PivotStep(r) : k > keep.top_begin}

=============================================================================
