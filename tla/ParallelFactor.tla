--------------------------- MODULE ParallelFactor ---------------------------
(***************************************************************************)
(* The tree-parallel numeric factorization (multifrontal_factor_serial,    *)
(* solver/src/multifrontal_serial.cpp:1119-1606): the thread plan chooses  *)
(* the engine and partitions the tree (ThreadPlan); phase 1 deals whole    *)
(* subtrees to the threads, phase 2 runs the top of the tree as a DAG      *)
(* (TopScheduler models its scheduler); a stop raised by any thread ends   *)
(* both. The fronts' arithmetic is reduced to what the control reads of    *)
(* it: a front's work, its negative pivots, and whether its D is finite.   *)
(*                                                                         *)
(* The relaxed polls of the stop flag in phase 1 may miss a stop: a thread *)
(* that does not see it goes on.                                           *)
(***************************************************************************)
EXTENDS EarlyGate, Sequences, ThreadPlan

CONSTANTS
  Scenarios,      (* [view, want, auto, costs, budget, work, neg, broken,   *)
                  (* limit]: the tree, Control's num_threads (want),        *)
                  (* auto_threads and thread costs, whether the delay       *)
                  (* budget is armed, the fronts' outcomes, and the limit:  *)
                  (* "none", "work" or "negatives" (never both,             *)
                  (* solve.cpp:110-111)                                     *)
  BudgetThreads,  (* kBudgetNominalThreads                                  *)
  WorkCap,        (* work_cap                                               *)
  NegLimit        (* neg_limit                                              *)

ASSUME LimitsAssumption == WorkCap \in Nat /\ NegLimit \in Nat /\ BudgetThreads \in Nat

\* A postorder numbers a parent after its children, and between a front and
\* its parent only what is below the parent; works and counts are not negative.
ASSUME ScenariosAssumption ==
  \A s \in Scenarios :
    /\ s.view.work \in [Fronts -> Nat] /\ s.view.parent \in [Fronts -> 0..N]
    /\ \A f \in Fronts : s.view.parent[f] = 0 \/ s.view.parent[f] > f
    /\ \A f, g \in Fronts : f < g /\ g < s.view.parent[f] => s.view.parent[g] \in 1..s.view.parent[f]
    /\ s.want \in Nat /\ {s.costs.per_thread, s.costs.per_top_front,
                          s.costs.per_split_front_thread, s.costs.split_cap} \subseteq Int
    /\ s.work \in [Fronts -> Nat] /\ s.neg \in [Fronts -> Nat]
    /\ s.broken \subseteq Fronts /\ s.limit \in {"none", "work", "negatives"}

VARIABLES
  scn,        (* the scenario: constant                                     *)
  plan,       (* [ranges, top, threads]: the partition                      *)
  failed,     (* the status, and the stop flag                              *)
  workDone,   (* work_done: of finished fronts                              *)
  negatives,  (* of finished fronts                                         *)
  claimed,    (* dealt subtrees claimed                                     *)
  next,       (* the next subtree not dealt                                 *)
  pc, at,     (* where each thread is, and its front                        *)
  last,       (* the last front of its subtree                              *)
  back,       (* where it goes from there                                   *)
  scan,       (* the dealt subtree it looks at in the take-over loop        *)
  taken,      (* top fronts handed out                                      *)
  factored,   (* how often each front has been factored                     *)
  phase       (* 0 before it starts, 1, 2, or 3 once the status is read     *)

outcomes == <<failed, workDone, negatives>>
dealing  == <<claimed, next, last, back, scan>>
inputs   == <<scn, plan>>
vars     == <<inputs, gate, outcomes, dealing, pc, at, taken, factored, phase>>

Free == scn.view.work   \* of each front, delay-free
Top  == plan.top
ChildrenOf(f) == KidsOf(scn.view, f)

\* dealt = min(subtrees, threads); subtrees are numbered from 0.
NSub  == Len(plan.ranges)
dealt == IF NSub < Cardinality(Threads) THEN NSub ELSE Cardinality(Threads)
Lo(i) == plan.ranges[i + 1][1]
Hi(i) == plan.ranges[i + 1][2]

Running    == failed = "Success"
Goto(t, l) == pc' = [pc EXCEPT ![t] = l]
WorkArmed  == scn.limit = "work"
Armed      == scn.limit = "negatives"

-----------------------------------------------------------------------------
(* The plan                                                                *)

WantThreads(t) ==
  CASE N < 2 -> 1
    [] scn.auto /\ scn.want > 1 ->
         IF PlanIsSerial(t.total, scn.costs) THEN 1 ELSE PlanThreads(t, scn.want, scn.costs)
    [] OTHER -> scn.want

\* With a delay budget, the budget's regions; else partition_tasks' tasks.
PartitionFor(t, want) ==
  CASE scn.budget /\ N >= 2 -> PartitionSubtrees(t, BudgetThreads)
    [] ~scn.budget /\ want > 1 -> PartitionTasks(t, want)
    [] OTHER -> NoPartition

PlanWith(part, want) ==
  [ranges |-> part.ranges, top |-> part.top,
   threads |-> IF want > 1 /\ Len(part.ranges) >= 2 THEN Min({want, Len(part.ranges)}) ELSE 1]

PlanTree(t) == PlanWith(PartitionFor(t, WantThreads(t)), WantThreads(t))

-----------------------------------------------------------------------------
(* The finished factorization, and the serial engine                       *)

GateStops == \E f \in Fronts : Crosses(scn.work, f) /\ Decision(scn.work, Free, f) = "stop"

\* What the finished factorization exhibits.
Causes ==
  (IF WorkArmed /\ (SumUpTo(scn.work, N) > WorkCap \/ GateStops)
   THEN {"WorkLimitExceeded"} ELSE {})
  \cup (IF Armed /\ SumUpTo(scn.neg, N) > NegLimit THEN {"InertiaExceeded"} ELSE {})
  \cup (IF scn.broken # {} THEN {"IllegalValue"} ELSE {})

\* The serial loop at front f: its status there.
SerialAt(f) ==
  IF WorkArmed /\ (SumUpTo(scn.work, f) > WorkCap
                    \/ (Crosses(scn.work, f) /\ Decision(scn.work, Free, f) = "stop"))
    THEN "WorkLimitExceeded"
  ELSE IF f \in scn.broken THEN "IllegalValue"
  ELSE IF Armed /\ SumUpTo(scn.neg, f) > NegLimit THEN "InertiaExceeded"
  ELSE "Success"

SerialStatus ==
  LET bad == {f \in Fronts : SerialAt(f) # "Success"}
  IN  IF bad = {} THEN "Success" ELSE SerialAt(CHOOSE f \in bad : \A g \in bad : f <= g)

\* The serial engine's fronts, up to the one it stops at.
SerialRuns(f) == \A g \in 1..(f - 1) : SerialAt(g) = "Success"

SerialEngine ==
  /\ phase' = 3
  /\ failed' = SerialStatus
  /\ factored' = [f \in Fronts |-> IF SerialRuns(f) THEN 1 ELSE 0]

-----------------------------------------------------------------------------
Init ==
  /\ scn \in Scenarios
  /\ \E t \in {TreeOf(scn.view)} : plan = PlanTree(t)
  /\ GateInit
  /\ failed = "Success" /\ workDone = 0 /\ negatives = 0
  /\ claimed = {} /\ next = dealt
  /\ last = [t \in Threads |-> 0]
  /\ back = [t \in Threads |-> "next"]
  /\ scan = [t \in Threads |-> 0]
  /\ pc = [t \in Threads |-> "own"]
  /\ at = [t \in Threads |-> 0]
  /\ taken = {}
  /\ factored = [f \in Fronts |-> 0]
  /\ phase = 0

\* The engine: the threads, or the serial loop.
Start ==
  /\ phase = 0
  /\ IF plan.threads > 1 THEN phase' = 1 /\ UNCHANGED <<failed, factored>> ELSE SerialEngine
  /\ UNCHANGED <<inputs, gate, workDone, negatives, dealing, pc, at, taken>>

-----------------------------------------------------------------------------
(* Phase 1: which subtree a thread runs next                               *)

\* run_task(i), to go on at l after it.
RunTask(t, i, l) ==
  /\ at' = [at EXCEPT ![t] = Lo(i)]
  /\ last' = [last EXCEPT ![t] = Hi(i)]
  /\ back' = [back EXCEPT ![t] = l]
  /\ Goto(t, "poll")

\* Mutant: claim() loads claimed and never exchanges it.
ClaimedMut(i) == claimed

\* claim()'s exchange.
Claimed(i) == claimed \cup {i}

Own(t) ==
  /\ pc[t] = "own"
  /\ \/ /\ t < dealt /\ t \notin claimed
        /\ claimed' = Claimed(t)
        /\ RunTask(t, t, "next")
        /\ UNCHANGED <<next, scan>>
     \/ /\ t >= dealt \/ t \in claimed \/ ~Running
        /\ Goto(t, "next")
        /\ UNCHANGED <<dealing, at>>
  /\ UNCHANGED <<inputs, gate, outcomes, taken, factored, phase>>

NextTask(t) ==
  /\ pc[t] = "next"
  /\ \/ /\ next' = next + 1
        /\ IF next < NSub
           THEN RunTask(t, next, "next") /\ UNCHANGED <<claimed, scan>>
           ELSE Goto(t, "over") /\ UNCHANGED <<claimed, last, back, scan, at>>
     \/ /\ ~Running
        /\ Goto(t, "over")
        /\ UNCHANGED <<dealing, at>>
  /\ UNCHANGED <<inputs, gate, outcomes, taken, factored, phase>>

MoreDealt(i) == i < dealt

\* A dealt subtree whose thread has not claimed it yet.
TakeOver(t) ==
  /\ pc[t] = "over"
  /\ \/ /\ MoreDealt(scan[t])
        /\ scan' = [scan EXCEPT ![t] = @ + 1]
        /\ IF scan[t] \notin claimed
           THEN /\ claimed' = Claimed(scan[t])
                /\ RunTask(t, scan[t], "over")
           ELSE UNCHANGED <<claimed, at, last, back, pc>>
     \/ /\ ~MoreDealt(scan[t]) \/ ~Running
        /\ Goto(t, "joined")
        /\ UNCHANGED <<claimed, scan, at, last, back>>
  /\ UNCHANGED <<inputs, gate, outcomes, next, taken, factored, phase>>

-----------------------------------------------------------------------------
(* process_front                                                           *)

\* The poll before each front of a subtree.
Poll(t) ==
  /\ pc[t] = "poll"
  /\ \/ Goto(t, "front")
     \/ ~Running /\ Goto(t, back[t])
  /\ UNCHANGED <<inputs, gate, outcomes, dealing, at, taken, factored, phase>>

\* An error of the front: failed.store, and the thread leaves the task (in
\* the top part, the scheduler).
Fail(t, e) ==
  /\ failed' = e
  /\ Goto(t, IF phase = 1 THEN back[t] ELSE "out")

\* The load of the work done, the cap, and reach()'s load of the verdict.
WorkCheck(t) ==
  /\ pc[t] = "front"
  /\ \/ /\ WorkArmed
        /\ workDone + scn.work[at[t]] > WorkCap \/ verdict = "stop"
        /\ Fail(t, "WorkLimitExceeded")
     \/ /\ WorkArmed
        /\ workDone + scn.work[at[t]] <= WorkCap /\ verdict = "open"
        /\ Goto(t, "store")
        /\ UNCHANGED failed
     \/ /\ WorkArmed => workDone + scn.work[at[t]] <= WorkCap /\ verdict = "go"
        /\ Goto(t, "compute")
        /\ UNCHANGED failed
  /\ UNCHANGED <<inputs, gate, workDone, negatives, dealing, at, taken, factored, phase>>

ReachStore(t) ==
  /\ pc[t] = "store"
  /\ StoreWork(at[t], scn.work[at[t]])
  /\ Goto(t, "add")
  /\ UNCHANGED <<inputs, outcomes, dealing, at, taken, factored, phase>>

ReachAdd(t) ==
  /\ pc[t] = "add"
  /\ AddWork(t, at[t])
  /\ Goto(t, IF MayHaveCrossed(total') THEN "walk" ELSE "compute")
  /\ UNCHANGED <<inputs, outcomes, dealing, at, taken, factored, phase>>

ReachWalk(t) ==
  /\ pc[t] = "walk"
  /\ Walk(t, Free) \/ NoWalk
  /\ IF verdict' = "stop" THEN Fail(t, "WorkLimitExceeded")
     ELSE Goto(t, "compute") /\ UNCHANGED failed
  /\ UNCHANGED <<inputs, workDone, negatives, dealing, at, taken, factored, phase>>

\* The front's kernel; D not finite is an error.
Compute(t) ==
  /\ pc[t] = "compute"
  /\ factored' = [factored EXCEPT ![at[t]] = @ + 1]
  /\ IF at[t] \in scn.broken THEN Fail(t, "IllegalValue")
     ELSE Goto(t, "count") /\ UNCHANGED failed
  /\ UNCHANGED <<inputs, gate, workDone, negatives, dealing, at, taken, phase>>

\* Mutant: an addition that reaches the limit raises the stop too.
PastLimitMut(count, limit) == count >= limit

PastLimit(count, limit) == count > limit

\* compare_exchange from Success.
Raise(exceeded, e) == failed' = IF exceeded /\ Running THEN e ELSE failed

\* count_negatives or count_work, then the next front.
Count(t) ==
  /\ pc[t] = "count"
  /\ workDone' = workDone + (IF WorkArmed THEN scn.work[at[t]] ELSE 0)
  /\ negatives' = negatives + (IF Armed THEN scn.neg[at[t]] ELSE 0)
  /\ \/ workDone' # workDone /\ Raise(PastLimit(workDone', WorkCap), "WorkLimitExceeded")
     \/ negatives' # negatives /\ Raise(PastLimit(negatives', NegLimit), "InertiaExceeded")
     \/ UNCHANGED outcomes
  /\ IF phase = 2 THEN Goto(t, "topend") /\ UNCHANGED at
     ELSE IF at[t] < last[t] THEN at' = [at EXCEPT ![t] = @ + 1] /\ Goto(t, "poll")
     ELSE Goto(t, back[t]) /\ UNCHANGED at
  /\ UNCHANGED <<inputs, gate, dealing, taken, factored, phase>>

-----------------------------------------------------------------------------
(* Phase 2 and the status                                                  *)

Phase1End ==
  /\ phase = 1
  /\ \A t \in Threads : pc[t] = "joined"
  /\ IF Running /\ Top # {}
     THEN phase' = 2 /\ pc' = [t \in Threads |-> "top"]
     ELSE phase' = 3 /\ UNCHANGED pc
  /\ UNCHANGED <<inputs, gate, outcomes, dealing, at, taken, factored>>

\* All children completed (TopScheduler: Topological).
TopReady(f) ==
  \A c \in ChildrenOf(f) :
    factored[c] > 0 /\ \A t \in Threads : at[t] = c => pc[t] \in {"top", "out"}

\* The scheduler hands a ready front to a thread; its run starts with the
\* load of the stop flag.
TakeTop(t) ==
  /\ pc[t] = "top"
  /\ \E f \in Top \ taken :
       /\ TopReady(f)
       /\ taken' = taken \cup {f}
       /\ at' = [at EXCEPT ![t] = f]
       /\ Goto(t, IF Running THEN "front" ELSE "out")
  /\ UNCHANGED <<inputs, gate, outcomes, dealing, factored, phase>>

\* The load at the end of run: false stops every thread.
TopEnd(t) ==
  /\ pc[t] = "topend"
  /\ Goto(t, IF Running THEN "top" ELSE "out")
  /\ UNCHANGED <<inputs, gate, outcomes, dealing, at, taken, factored, phase>>

\* The scheduler lets the thread go: a run returned false, or no front is
\* left.
LeaveTop(t) ==
  /\ pc[t] = "top"
  /\ \/ \E u \in Threads : pc[u] = "out"
     \/ taken = Top /\ \A u \in Threads : pc[u] \in {"top", "out"}
  /\ Goto(t, "out")
  /\ UNCHANGED <<inputs, gate, outcomes, dealing, at, taken, factored, phase>>

Phase2End ==
  /\ phase = 2
  /\ \A t \in Threads : pc[t] = "out"
  /\ phase' = 3
  /\ UNCHANGED <<inputs, gate, outcomes, dealing, pc, at, taken, factored>>

-----------------------------------------------------------------------------
Step(t) ==
  \/ Own(t) \/ NextTask(t) \/ TakeOver(t) \/ Poll(t) \/ WorkCheck(t) \/ ReachStore(t)
  \/ ReachAdd(t) \/ ReachWalk(t) \/ Compute(t) \/ Count(t) \/ TakeTop(t) \/ TopEnd(t)
  \/ LeaveTop(t)

Finished == phase = 3 /\ UNCHANGED vars

Next == Start \/ (\E t \in Threads : phase \in {1, 2} /\ Step(t)) \/ Phase1End \/ Phase2End \/ Finished

Spec == Init /\ [][Next]_vars

\* The pool's threads and the caller run.
FairSpec ==
  /\ Spec
  /\ WF_vars(Start) /\ WF_vars(Phase1End) /\ WF_vars(Phase2End)
  /\ \A t \in Threads : WF_vars(phase \in {1, 2} /\ Step(t))

-----------------------------------------------------------------------------
(* Properties                                                              *)

Interval(r) == r[1]..r[2]
FrontsOf(p) == UNION {Interval(p.ranges[i]) : i \in DOMAIN p.ranges}

\* The ranges and the top part share out the fronts.
Shares(p) ==
  /\ FrontsOf(p) \cup p.top = Fronts
  /\ FrontsOf(p) \cap p.top = {}
  /\ \A i, j \in DOMAIN p.ranges : i # j => Interval(p.ranges[i]) \cap Interval(p.ranges[j]) = {}

\* No child of a range's front lies outside it.
WholeSubtrees(p) ==
  \A i \in DOMAIN p.ranges : \A f \in Interval(p.ranges[i]) : ChildrenOf(f) \subseteq Interval(p.ranges[i])

\* The partition a parallel run works on: ranges of fronts, whole subtrees
\* that share out the fronts with the top part.
PlanFits ==
  plan.threads > 1 => /\ plan.ranges \in Seq(Fronts \X Fronts)
                      /\ \A i \in DOMAIN plan.ranges : plan.ranges[i][1] <= plan.ranges[i][2]
                      /\ Shares(plan) /\ WholeSubtrees(plan)

SoundPartition(t, T) ==
  LET heap  == PartitionSubtrees(t, T)
      tasks == PartitionTasks(t, T)
      Work(r) == WorkOf(t, Interval(r))
  IN /\ tasks.top = heap.top
     /\ Shares(heap) /\ Shares(tasks)
     /\ WholeSubtrees(heap) /\ WholeSubtrees(tasks)
     /\ \A i \in DOMAIN heap.ranges :
          \E j \in DOMAIN tasks.ranges : Interval(heap.ranges[i]) \subseteq Interval(tasks.ranges[j])
     /\ \A i, j \in DOMAIN tasks.ranges :
          tasks.ranges[i][2] + 1 = tasks.ranges[j][1]
          => ~WithinGrain(t, T, Work(tasks.ranges[i]) + Work(tasks.ranges[j]))

Labels == {"own", "next", "over", "poll", "front", "store", "add", "walk", "compute", "count",
           "joined", "top", "topend", "out"}

\* Every variable has its type.
TypeOK ==
  /\ works \in [Fronts -> Int] /\ total \in Nat /\ added \subseteq Fronts
  /\ sees \in [Threads -> SUBSET Fronts]
  /\ cursor \in 1..(N + 1) /\ verdict \in {"open", "go", "stop"}
  /\ failed \in {"Success", "WorkLimitExceeded", "InertiaExceeded", "IllegalValue"}
  /\ workDone \in Nat /\ negatives \in Nat
  /\ claimed \subseteq 0..(dealt - 1)
  /\ next \in 0..(NSub + Cardinality(Threads))
  /\ pc \in [Threads -> Labels] /\ at \in [Threads -> 0..N] /\ last \in [Threads -> 0..N]
  /\ back \in [Threads -> {"next", "over"}] /\ scan \in [Threads -> 0..dealt]
  /\ taken \subseteq Top /\ factored \in [Fronts -> Nat] /\ phase \in 0..3

\* thread_plan.hpp:156-158 and :211-218: the partition by the heap and the one
\* by the target alone cut the tree at the same nodes; the tasks merged from
\* adjacent subtrees are whole subtrees that cover every front outside the
\* top part once, the top part is closed towards the root, and no two
\* adjacent tasks are light enough to be one; a tree the dispatch calls
\* serial is one the cost model runs on one thread.
PlanSound ==
  phase = 0 =>
    /\ PlanFits
    /\ \A t \in {TreeOf(scn.view)} :
      /\ \A T \in 2..N : t.total >= MinWork => SoundPartition(t, T)
      /\ PlanIsSerial(t.total, scn.costs) =>
           \A max \in 2..N : PlanThreads(t, max, scn.costs) = 1

\* EarlyGate's comment (multifrontal_serial.cpp:178-197): the decision is the
\* one of the finished factorization's works in postorder, and a crossing all
\* of whose fronts have reported is decided.
GateDecidesInPostorder ==
  /\ verdict # "open" => \E f \in Fronts : Crosses(scn.work, f) /\ verdict = Decision(scn.work, Free, f)
  /\ \A f \in Fronts :
       /\ WorkArmed /\ Crosses(scn.work, f) /\ 1..f \subseteq added
       /\ \A t \in Threads : pc[t] # "walk"
       => verdict # "open"

\* determinism.hpp:27 and multifrontal_serial.cpp:1411-1418: a factorization
\* that has at most one reason to fail returns the serial engine's status, at
\* every thread count and whatever the order of events; whichever thread is
\* late, no front is factored twice or before its children, and a successful
\* factorization has factored them all.
SameAsSerial ==
  /\ phase = 3 /\ Cardinality(Causes) <= 1 => failed = SerialStatus
  /\ \A f \in Fronts : factored[f] <= 1
  /\ \A f \in Fronts : factored[f] = 1 => \A c \in ChildrenOf(f) : factored[c] = 1
  /\ phase = 3 /\ Running => \A f \in Fronts : factored[f] = 1

Outcome == INSTANCE FactorOutcome
  WITH Errors  <- {"WorkLimitExceeded", "InertiaExceeded", "IllegalValue"},
       causes  <- Causes,
       outcome <- IF phase = 3 THEN failed ELSE "running"

\* multifrontal_serial.hpp:64-79: the status is one of the reasons the
\* finished factorization has to fail, Success exactly when there is none,
\* and it is returned.
ReportsACause == Outcome!Spec

=============================================================================
