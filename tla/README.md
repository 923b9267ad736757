# opt_solver: a TLA+ model of the sparse symmetric solver

`smf` (`src/solver`) is a sparse symmetric direct solver: it orders a matrix, builds
its assembly tree, factors `A = L D L^T` by a multifrontal method, in parallel over the
tree, and solves with the factor. It is built for interior-point methods, which factor
one KKT pattern many times with changing values and read the inertia of every factor.

This directory models the solver from the ordering to the solve: the threads that share
an analysis, a factorization or a solve; the calls that share a session; and the
algorithms themselves, on matrices small enough for exact arithmetic.

All line numbers are of the sources under `src/`.

## 1. The system

### Components, their state and how they interact

| Component | Files (`solver/src`, `solver/include/smf`) | State | Operations |
|---|---|---|---|
| Matching and scaling | `scaling_matching.cpp`, `auction_matching.cpp`, `indexed_min_heap.hpp` | duals, matching, heap, the work spent; resumable | `advance`, `finish`, the skip gate |
| Orderings | `ordering_*.cpp`, `pivot_order.cpp` | permutation; of the parallel dissection a queue, `owner[]`, a pending count | AMD, METIS, compressed ordering, nested dissection |
| Symbolic analysis | `symbolic_analysis.cpp`, `etree.cpp`, `supernode_detection.cpp`, `assembly_tree.cpp` | AnalysisKeep; the trial's thread | elimination tree, counts, supernodes, the matching trial |
| Thread plan | `parallel/thread_plan.{hpp,cpp}` | none (caches of the last plan) | partition, cost model, thread count |
| Multifrontal driver | `multifrontal_serial.cpp` | claims of subtrees, next subtree, stop/status flag, counts of work and negatives, EarlyGate | phase 1 (subtrees), phase 2 (top), gather |
| Fronts | `multifrontal_serial.cpp` 353-930 | passes (columns, rows, steps, D), contribution blocks | `process_front` |
| Arenas | `parallel/chunk_arena.hpp`, `BlockPool` of `multifrontal_serial.cpp` | chunks, free buffers, kept across factorizations | `take`, `reset`, `acquire`, `release` |
| Dense kernels | `ldlt_kernel.cpp`, `ldlt_aptp.cpp` | a front | pivoted LDL^T: TPP, panels, APTP, static, in order |
| Top scheduler | `parallel/top_scheduler.{hpp,cpp}` | ready list, offers, completion list, free BLAS threads, pending children, stop flag, lock-free mirrors, one mutex and condition variable | `acquire`, `finish`, `offer`, `withdraw`, `work` |
| Pass lanes | same | busy flags; the room of each buffer | `pick`, `release` |
| Tile runner | `parallel/tile_tasks.{hpp,cpp}` | pending counts, two ready queues, helpers in the job, done count | `run`, `work`, `help`, `add_helper`, `release` |
| Task tree | `parallel/task_tree.cpp`, `threading.hpp` | OpenMP tasks, live and peak bytes | `run_costed_postorder` |
| Factor engines | `factor_indef.cpp`, `factor_posdef.cpp`, `solver.cpp` | FactorKeep, Info, workspace | `factor` per matrix type |
| Rescue drivers | `solve.cpp` 290-850, `slack_elimination.cpp` | what the AnalysisKeep and FactorKeep keep of earlier rescues; the slack plan's reduced and full analyses | scale-on-delay, matching trigger, slack plan |
| Solve phase | `solve_*.cpp`, `solve.cpp` 850-1340, `refinement.cpp` | right-hand sides, buffers per thread, the slack factor's full factor | forward, diagonal, backward, slack solve, refinement |
| Solve pool | `parallel/solve_pool.cpp`, `solve_pool.hpp` | generation, pending count, stop flag, one job | `run`, `worker`, destructor, `run_dag` |
| IPM session | `ipm_session.{cpp,hpp}` | analysis and reserve analysis, FactorKeep, Info, learned inertia, re-analysis history, refinement matrix, control and user scale | `analyse`, `set_control`, `set_user_scale`, `factor`, `solve` |
| MA97 plugin | `smf_ma97_plugin.cpp`, `ipopt_plugin_control.hpp` | handles with the generation of their factor, the scale kept for IPOPT | the MA97 C interface |
| BLAS guard | `parallel/blas_thread_guard.cpp` | per-thread nesting, the runtime's thread count | guard, idle scope |
| C API, IPOPT adapter, matrix input | `smf_c.cpp`, `ipopt_adapter.cpp`, `check_matrix.cpp`, ... | handles | conversions |

How they interact:

    MA97 plugin / C API --calls--> IpmSession --calls--> Solver::analyse | factor | solve
      analyse: base ordering (dissected by threads)  ||  matching trial on its thread
               --> elimination tree, counts, supernodes --> AnalysisKeep
      factor: rescue drivers --> factor_indef | factor_posdef
        multifrontal_factor_serial                        or   run_costed_postorder
          thread plan: engine, partition of the tree
          phase 1: threads claim subtrees, EarlyGate, counts, stop flag
          phase 2: TopScheduler::work --run callback--> process_front
                     large front: TileRunner --offer / withdraw--> TopScheduler
                     idle workers --add_helper / help--> TileRunner
                     buffers: PassLanes::pick / release; blocks: arenas
          gather: the passes into one factor, the layout the solve walks
      solve: triangular sweeps on the SolvePool; slack solve; refinement

### What is hard here, and what makes each part correct

- **Analysis.** The trial's searches run beside the base ordering, which may stop them,
  wait for their gate, or resume them under another budget; the dissection's threads
  share one queue. Correct when the result does not depend on any of it, when the scale
  is that of a maximum-product matching, and when the fronts hold the factor.
- **Fronts.** Pivots are refused, delayed to the parent, retried over a delay budget; a
  kernel restores what it did speculatively; blocks move, are handed over and recycled.
  Correct when the factor read through its final layout is the matrix, whatever kernel,
  pass, thread or recycled buffer was used.
- **Multifrontal driver.** Subtrees are dealt, taken over and stopped concurrently; an
  early stop must be decided as the serial engine would. Correct when each front is
  factored once and the status is the serial engine's, or a cause the matrix has.
- **Thread plan.** The cut is made twice, by a heap and by a target alone, and its
  subtrees are merged into tasks. Correct when tasks are whole and disjoint.
- **Top scheduler.** Any worker may stop, take a node, help or sleep at any moment;
  the stop flag is stored outside the lock and the mirrors are read outside it. Correct
  when the thread budget never leaks, no helper outlives its job, the completion order
  is topological (it becomes the layout of the solve), no work is left with everyone
  asleep, and every worker returns.
- **Tile runner.** Predecessor counts must order every pair of tasks that touch the same
  tile or scratch; correct when every schedule gives the serial result, no thread sleeps
  over ready work, and nobody is inside when the locals of the front go away.
- **Pass lanes.** A buffer changes hands between chains under a lock and is used
  without it; correct when a lane has one holder and a chain start finds a free one.
- **Task tree.** Sibling tasks end in any order, under a memory budget. Correct when a
  node runs once, after its children.
- **Rescue drivers.** One factorization may run the engine several times, on another
  scale, analysis or matrix, and what it learns decides the next. Correct when what is
  handed back agrees with itself, kept scales do not drift, a remembered verdict is acted on
  only where it holds, and it ends.
- **Solve phase.** Fronts of the top add to shared rows, subtrees to buffers per thread;
  several callers use one slack factor at once. Correct when every front reads final
  rows, `run` returns last, and a solve is answered by one factor that may answer it.
- **IPM session and plugin.** Long sequences of calls with failures, aborts completed
  later, a probation of an adopted analysis and its revert, retries of a stale scale.
  Correct when the factor never points at a freed analysis, a solve uses the last factor
  of its handle, what is learned comes from accepted factors, re-analyses are spaced.

`PROJECT.json` lists the hazards line by line, with the properties that cover each.

## 2. Modules

| Module | Models | Checked in run |
|---|---|---|
| `CostGraph`, `Matching` | the cost graph, the auction, the matcher with its heap, dense columns and resumption, and its scale | `analysis` |
| `Ordering` | minimum degree, the METIS backend, the compressed ordering of matched pairs | `analysis` |
| `NestedDissection`, `ParallelNd` | the pieces of the dissection; its task queue | `analysis` |
| `Elimination`, `Supernodes` | elimination tree, postorder, counts; amalgamation and the rows of the fronts | `analysis` |
| `Analysis` | `Solver::analyse` with the trial on its thread; what it promises | `analysis` |
| `ThreadPlan` | both partitions, the merge into tasks, the cost model | `parallel_factor`; `ParallelFactorProofs` |
| `EarlyGate` | `EarlyGate`: arrival order against postorder | `parallel_factor` |
| `ParallelFactor` | the driver of a parallel factorization | `parallel_factor`; `ParallelFactorProofs` |
| `FactorOutcome` | abstract: the status is one of the causes, `Success` iff there is none; implemented by `ParallelFactor` | `parallel_factor` |
| `Fractions`, `FrontKernel`, `AptpKernel` | exact arithmetic; the kernels of a front | `multifrontal` |
| `Arenas` | `ChunkArena` and `BlockPool` | `multifrontal` |
| `ProcessFront` | `process_front` | `multifrontal` |
| `PassLanes` | `PassLanes` and the chain holding a lane | `multifrontal`; `PassLanesProofs` |
| `Multifrontal` | the two engines over the fronts, and the gather | `multifrontal` |
| `TopScheduler` | `TopScheduler`, and of a front that lends threads the offer, the joins and the withdrawal | `top_scheduler`; `TopSchedulerProofs` |
| `AptpTiles`, `TileRunner` | both task graphs of a tiled front; the runner over them | `tile_runner`; `TileRunnerProofs` |
| `TaskTree` | `run_costed_postorder` | `task_tree`, `task_tree_budget`; `TaskTreeProofs` |
| `RescueDrivers` | `factor_slack`, the matching trigger, scale on delay | `rescue_drivers`; `RescueDriversProofs` |
| `SolvePool`, `TreeSolve` | the pool and `run_dag`; the parallel triangular solves on it | `solve_phase`; `SolvePhaseProofs` |
| `SlackSolve`, `Refinement` | solves through a slack factor; all refinement methods | `solve_phase`; `SolvePhaseProofs` |
| `SolvePhase` | callers of the three above | `solve_phase`; `SolvePhaseProofs` |
| `IpmSession` | `IpmSession`, and what the factor engines leave in the FactorKeep and Info | `ipm_session`, `ipm_session_band`; `IpmProofs` |
| `Ma97Plugin` | the plugin's calls, each a sequence of actions of `IpmSession` | `ma97_plugin`; `IpmProofs` |

Composition is by EXTENDS: `Ma97Plugin` on `IpmSession`; `Analysis` on `ParallelNd`,
`Supernodes` and what they use; `Multifrontal` on `PassLanes` and
`ProcessFront`, that on `AptpKernel` and `Arenas`; `ParallelFactor` on `EarlyGate` and
`ThreadPlan`; `SolvePhase` on `TreeSolve` (on `SolvePool`), `SlackSolve` and `Refinement`.

### The analysis family

A stored matrix is a function from columns to sequences of entries. Magnitudes are powers
of two, so that the logarithms the matcher adds are exact integers, kept in units that make
the square roots of the equilibration exact too. Rounding apart, every decision of the code
is the model's: ties are broken as the code's loops and heap break them.

`Turn` is one turn of the matcher's loop, and `Advance` a call under a work budget; the
trial's thread takes its searches one `Turn` at a time between the caller's steps. `main`
is the caller of `Solver::analyse`, `trial` the ConcurrentTrial, `nd` and `worker` the
dissection and its threads. The base ordering dissects with threads, the candidate's with
one caller (the sequential operator), as in the code. What a library may do is an input of
the call: METIS may be missing, fail, or return a better or a worse order; AMD may be
missing; METIS calls named in `lib.fails` fail; the trial may throw when constructed or
while it orders; no thread may be had.

### The factorization with its numbers

`FrontKernel` and `AptpKernel` compute on fractions in lowest terms. Two consequences: the
positive definite kernel stores `L` and `D` where the code stores a Cholesky factor (a
square root is no fraction), and thresholds are compared exactly. A front is kept by row
id, so that a symmetric swap of two positions is a swap of two rows. A tiled front has
APTP's result (`TileRunner` shows that the order of its tasks does not matter), with one
block size for both. `ProcessFront` is a function from a workspace to a workspace:
assembly from the matrix and the children's blocks, the kernel that size and state select,
the second run over the delay budget, storage, and the block left for the parent - in the
pass's stack, in the arena when the parent is a top front and the block large, or in a
buffer of the pool. Reading a block goes through the buffer it was put into, so that a
buffer recycled too early gives a wrong factor. One arena stands for the code's two (values
and row ids), which are taken from in the same order.

`Multifrontal` runs it: the serial engine front by front; or two threads that take any
subtree nobody took, then top fronts on the lanes `PassLanes` hands out, then the gather.
How subtrees are claimed and how a stop ends the run is `ParallelFactor`'s part; a failed
front here ends the phase. The room of a pass and a front's need are arbitrary numbers up
to `MaxRoom`: they decide which lane is picked, never what is in it. `expected` is an
auxiliary variable: the serial engine's result on the same problem.

### EarlyGate, ThreadPlan and ParallelFactor

Fronts are numbered by the postorder. `Init` chooses a scenario and computes its plan (a
pure function of it); `Start` chooses the engine; a serial run is its status. Phase 1 has
the claim of dealt subtrees, the shared counter of the others, the take-over of subtrees
not started, and the polls of the stop flag, which are relaxed and may miss a stop. A
thread's walk over the works sees what the acquire-release additions before its own have
published (`sees`), not every relaxed store: the model has the outcomes of the memory model
and not only the interleavings. Phase 2 hands out top fronts in any order the tree allows
(`TopScheduler` is its detail). The work limit and the negative limit are never armed
together (`solve.cpp:110-111`). The constants of the cost model and of the partition
(`MinWork`, parts and grains per thread, the nominal threads of the delay budget) are
scaled down with the trees.

### TopScheduler

Variables carry the member's names. A critical section is one step, except that
`stopped_` is loaded by `acquire` (line 82) and `finish` (line 123) and stored by
`finish` before its lock (line 106): there the section is two steps, and `mtx` names
the holder between them (`Return`/`Checked`/`TakeNode`/`TakeOffer`, and
`FinishRecord`/`FinishLink`). `Lock` is the entry of `acquire` from a spin, `Sleep` and
`SpuriousWake` its wait; a notified worker leaves `waiting`, and stays in `sleepers`
until it holds the lock again, as `sleepers_` does. `Offer`, `Withdraw`, `Join`,
`TilesDone`, `HelpEnd` are the calls the tile runner makes of the pool; `RunEnd` is the
`run` callback, which succeeds or fails. `mirror` is what `publish` stores and `Idle`
reads. `late` is a history variable: nodes handed out after the store of the flag.

### AptpTiles and TileRunner

`AptpTiles` has the id arithmetic, predecessor counts, successors and urgency as the
code computes them. `MainWrites`/`MainReads` list what `block_factor`, `apply_n`,
`block_finish` and `update_tile` touch: a tile's accepted part `L` and failed part `Q`
are apart because `Update` of one block column and `Finish` of the next run at the
same time on the two. `SerialEquivalent` states that every two conflicting tasks keep
the order of `aptp_detail::sweep`, so it checks the counts, not itself.
`TileRunner` is the monitor: `work` is cut at the points where the lock is released. The
queues are rings of a fixed room (`MainRoom`, `TrailRoom`), and `HelpersSound` includes
that they never hold more. The pool is the number of places it still offers (`slots`);
whether anyone comes is open, so `FrontEnds` holds with no helper at all. `own` is the
case `helpers == nullptr`.

### PassLanes and TaskTree

In `PassLanes` the room of a lane changes only under its holder, and `pick` reads the rooms
of free lanes under the lock. `std::abort` is a lane value outside the type, so that
`TypeOK` says it is never reached.

In `TaskTree` what a task does is fixed when it starts (`Program`): runs of small subtrees,
then spawns and a wait, or under the memory budget direct calls, then its own node.
`process_node` is two steps (call and return), the tracker's update a third. Any number of
tasks may be under way: a team of `threads` runs a subset of these schedules. The wait
between batches (`task_tree.cpp:192-201`) has no action: a batch exceeds the budget only if
all the children do, and then the other branch is taken first.

### RescueDrivers

One caller factors a sequence of values, each with its own control, into one FactorKeep.
The engine is a set of outcomes that respects the limit it was armed with. A scaling is
named by the values it is the matching scaling of, a probe's error is a decade. `pc` walks
through the drivers as the code nests them: slack plan, realized trigger, kept scale, next
ratio, try, rescale, static fallback. The zeros of the same values differ between the full
matrix and the plan's reduced one (`ZeroPattern`), and so may whether a matching exists.

### The solve phase

`SolvePool` is the handshake: publish under the mutex, spin, sleep, finish, join. What a
share does is the job's: `TreeSolve` gives it the forward pass (subtrees in any order,
updates to the top's rows into a buffer per thread, the sum by slices, the top as a DAG) and
the backward pass. A row of the right-hand side is the set of fronts whose updates it has
received; a front reads its rows and writes them in two steps, so a missing barrier shows.
`SlackSolve` lets two callers solve through one slack factor; `Refinement` keeps of an
iterate its two backward errors, and what a step makes of a column is free. `SolvePhase`
runs either the callers (one of them with a pool for the full factor) or a refinement whose
solves may fail at any step.

### IpmSession and Ma97Plugin

One action per call. `Solver::factor` is a set of outcomes (`Outcomes`): each says what
the FactorKeep, Info and status are after it, in particular where the analysis pointer
points and which arrays are a factor of what. `values` and `band` hold the call and
control they are a factor of, which is how `SolvesLastFactor` can say that a solve used
the factor of the last `factor()`. An analysis is named by the call that made it.
Simplifications: abort, learning and re-analysis are enabled; the static mode Fallback
is modelled with off (the session treats them alike but for what the engine returns);
what a candidate order is worth is a free choice; a solve that is refused or fails is
`SolveFails`; user scales are set only up to `ScaledCalls` calls, to bound the run.

`Ma97Plugin` makes the plugin's calls out of these: a call of the interface is a sequence of
actions of the session, with the plugin's own decisions between them. Handles are freed and
reused in any order; a scale vector is named by the factorization that computed it.

## 3. Runs and bounds

| Run | Bounds | Shows |
|---|---|---|
| `analysis` | all lower triangles of order 3 with two magnitudes that are not kept as they are; saddle points of order 4 and 5, bordered with a dense column; graphs of order 5 and 6 dissected by 2 or 3 threads; library and thread faults | `TrialAsSerial`, `ScaleIsOptimal`, `FrontsHoldFactor`, `AnalysisEnds` |
| `multifrontal` | trees of 2 to 4 fronts on the serial engine (matrices of order 4, every kernel and control), of 5 and 6 fronts on 2 threads; memory left over from an earlier call; half a million states | `FactorIsExact`, `DealtAsSerial`, `LayoutSolves`, `HoldersOnly` |
| `parallel_factor` | the plan of every postorder forest of 5 fronts with works of 1 and 4, and 2 in two of the fronts; a tree with 3 tasks and 2 top fronts on 2 threads, with every set of delayed fronts, and negative pivots in any of three fronts with and without a broken one | `PlanSound`, `GateDecidesInPostorder`, `SameAsSerial`, and `FactorOutcome` implemented (`ReportsACause`) |
| `top_scheduler` | 5 nodes (root 2 over 0, 1; root 4 over 3), 3 workers, 3 BLAS threads, 1 tile job per front, 1 spurious wake-up; 0.7 M states | `DispatchSound`, `BudgetConserved`, `AtMostOneLate`, `AllReturn` |
| `tile_runner` | 4 eligible block columns, 2 others, caller and 2 helpers | `SerialEquivalent`, `HelpersSound`, `FrontEnds` |
| `task_tree` | 9 nodes, 2 roots, depth 3; 7 policies, one with a budget only leaves exceed | `ChildrenFirst`, `NodesAccounted`, `Returns` |
| `task_tree_budget` | a budget the root's children exceed | violation of `ChildrenFirst`, finding 1 |
| `rescue_drivers` | 3 value arrays (analysed, no longer fitting, structurally singular with other zeros in each analysis), 6 controls; a million states | `OutcomeConsistent`, `ReuseNeverDrifts`, `VerdictsStand`, `FactorEnds` |
| `solve_phase` | 2 subtrees under a top of 3 fronts, caller and 1 worker, 2 callers, 2 columns; refinement of 2 columns by 3 methods, budgets 0 and 3 | `SolvesTree`, `FullSolveIsHonest`, `RefineSound`, `ReturnsLast`, `BuiltOnce`, `SolvesEnd` |
| `ipm_session` | 5 calls of `analyse` and `factor`, any number of the others; 0..1 negatives, 0..2 delays, gap 2; 0.5 M states | the five safety properties and `ReanalysesSpaced` |
| `ipm_session_band` | same, with the band form | violation of `SolvesLastFactor`, finding 2 |
| `ma97_plugin` | 2 handles, 4 calls that reach the session | `HandleAnswersItsFactor`, `ScaleIsTheFactors` |

Why the bounds are enough to see the interesting cases. Order 3 has every shape of a
matching problem with a free row, an augmenting path of length two and a tie; the chosen
matrices of order 4 to 6 add a dense column, compressed pairs, a separator with two halves
and parts small enough to be leaves. In `multifrontal` a root of two columns receives two
delayed pivots and a 2x2 across two children; the chain hands a block over twice; six
fronts on two threads are the least with three subtrees, a top front with two of them, and
a top front beside it.  In `parallel_factor` two of three tasks are dealt, so the third is
fetched, and a thread that ends its own can take over the other's; two tasks come after a
top front in postorder, so reports arrive before an earlier front can even start. Three
workers are one that runs, one that helps or takes over, one that sleeps; two roots leave
the end of one tree while another runs, and the leaf pair makes the last child a race.
Three threads are the least that give a share above 1 beside another node. Four block
columns are the least with two columns of lookahead right of one being finished. Five calls
hold an accepted factor with delays, the attempt, its factor under probation, a revert or a
drop, and the factor after it. One pool worker is enough for the handshake to be late by a
generation; two callers for the race on the full factor.

### Fairness

- `TopScheduler`: each worker, once it can step, steps (weak fairness of `Step(w)`): the
  OS runs every thread, and mutexes are held for bounded sections. A sleeping worker
  has no step until notified; nothing is assumed of spurious wake-ups.
- `TileRunner`: weak fairness of the caller and of each thread that has joined. Joining
  itself is not fair: an idle worker need not come.
- `ParallelFactor`: each thread, and the two joins.
- `TaskTree`: each spawned task runs (OpenMP runs a task at the latest at the
  `taskwait` or the barrier that waits for it).
- `SolvePhase`: each pool worker, each share, each caller.
- `RescueDrivers`: the caller.
- `Analysis`: the caller, the trial's thread and each thread of the dissection. The weak
  fairness is written out with the guards in place of ENABLED, which would evaluate the
  whole matching twice.
- The other modules have only safety properties: a session acts when it is called.

Deadlock is checked except where the system really stops without an end step:
`solve_phase` (the callers have returned), `analysis` (the call has returned) and
`ma97_plugin` (the bound on calls is reached). Elsewhere a system that has ended has an
explicit stuttering end step.

## 4. Proofs

TLAPS checks these for every value of the constants, under the named assumptions of
the modules: finite sets of nodes, workers and threads, a parent function, at least one
thread; a forest numbered children first (`TreeAssumption` of `TaskTree`); a grid with at least
one eligible block column (`GridAssumption`); of the rescue
drivers and the refinement, the ranges of controls and settings and that the models' `None`
is no value (`NoneAssumption`, `RefineAssumption`, `SettingsAssumption`). TLC evaluates each
of them on the instance of a run. Where a proof needs an induction over numbers or over a
finite set, it takes the least element of the set of counterexamples (`WFMin` of the
library, for the order of the numbers), which asks for no induction theorem.

**TopScheduler** (`TopSchedulerProofs`). The inductive invariant joins `TypeOK`,
`BudgetConserved` and what each program counter implies: who may hold a share, that a worker between the check of the
flag and its decision holds `mtx`, and how many nodes were handed out late. It is needed
because a share is only given back by a worker that has one, which the conservation law
alone does not say, and because the second late node is excluded by the lock, which the
count alone does not say.
- `TypeCorrect`: `Spec => []TypeOK`.
- `BudgetTheorem`: `Spec => []BudgetConserved`. The lemmas about the set of held threads
  (what it is after one share changes) carry it; `ShareBounds` bounds the share taken.
- `LateTheorem`: `Spec => []AtMostOneLate`.

**What TopScheduler hands out** (the same module, on that invariant). `DInv` has five parts.
`HelpInv`: a front has one offer at most, only while its tiles run, and the places left in
it and the helpers who took one stay below the front's share. `PlaceInv`: a node is in the
ready list, at one worker or completed, and its children are completed. `CountInv`: `pending_`
of a node is at least the number of its children not yet counted off, where a child in the
middle of `finish()` is not; it is needed because `pending_` reaching zero is what readies a
node. `ListInv`: the list of completions has each node once, children first. `WakeInv`:
outside the second half of `finish()`, what there is to take is published, and if anyone
sleeps some worker is on its way to it.
- `DispatchTheorem`: `Spec => []DispatchSound`, for any tree, workers and BLAS threads.

**PassLanes** (`PassLanesProofs`). Invariant: `TypeOK`, `HoldersOnly`, and a running
thread holds a lane. `SomeFree` counts: the busy lanes are those of the other threads,
one each, hence fewer than the lanes.
- `TypeCorrect`: the abort in `pick` is unreachable with any number of lanes.
- `Exclusive`: no two chains share a lane, and the marks are the held lanes.

**IpmSession** (`IpmProofs`). `FactorAlive` and `OneAnalysisInReserve` are inductive
only together: a revert or a drop needs to know where the factor points, and the factor
may point at the reserve. Both are facts of the record `Session`, so the lemmas follow
it through the functions that make the next session (`OutcomeKeeps`, `RunFactorSound`,
`PrepareSound`, `AcceptSound`, `CompletedSound`).
- `Pointer`: `Spec => []FactorAlive`.
- `Reserve`: `Spec => []OneAnalysisInReserve`: the assertion of `prepare_analysis()` holds.

`UseInv` builds on it: the factor that can be solved with is of the last call (`OfCall`), the
refinement matrix holds the last values when its generation says so (`RefineInv`), an
aborted factorization is of the values and control it would be completed with (`LastInv`).
- `SolvesLast`: `Spec => []SolvesLastFactor`, assuming `~Banded`; with the band form run
  `ipm_session_band` refutes it (section 5).
- `Learned`: `Spec => []LearnsAccepted`. `Refined`: `Spec => []RefinesFactored`.
- `Spacing`: `Spec => ReanalysesSpaced`: an armed attempt is already far enough from the last
  one (`Spaced`), which `factor()` cannot undo before it tries it.

**SolvePhase** (`SolvePhaseProofs`). Four invariants. The pool's says
that until `stop`, `pending_` counts the workers that are in a share or have a generation
unseen, that a worker takes a job only with one unseen, and that a share has a place in the
job only while it runs; it is needed because `ReturnsLast` reads only the last step, and a
worker late for one generation and early for the next would leave the count right and the
share running. The slack solves' says what a full solve's buffer holds at each place of
`slack_solve`, that a full factor is never unset and that `full_error` never clears.
`ProgramsAssumption` is used: a full solve is a program of its own.
- `ReturnTheorem`: `Spec => ReturnsLast`, for any number of threads and any tree.
- `HonestTheorem`: `Spec => []FullSolveIsHonest`, `BuiltOnceTheorem`: `Spec => BuiltOnce`, for
  any number of callers, columns and refinement steps.

`TreeInv` is of the triangular solves, on top of the pool's. It says which fronts each stage
has solved (`Progress`); that a row has the updates of the fronts written so far, or that the
threads' buffers hold them between them, each once, until the thread that owns the row's slice
has summed it (`RowInv`); that what a thread has read of its rows is still so when it writes
(`SnapFresh`). `ClaimInv` says that the fronts of a claimed subtree are solved except what one
thread holds of it; `TopInv` that only open fronts, those whose children (on the way back,
whose parent) are done, are queued or held, each once, and that `remaining` and `kids` count
what they should. The second is where a lost or doubled continuation of `run_dag` would show:
`remaining = 0`, on which threads leave, must mean that the top is done. An open front has all
its updaters done, not only its children: an induction over the top's order (`UpdatersDone`,
`UpdatedDone`) which uses that a front's extended rows are rows of its parent.
- `SolvesTreeTheorem`: `Spec => []SolvesTree`. It assumes of the layout (`LayoutAssumption`,
  `ExtAssumption`) what `multifrontal_serial.cpp:1640-1745` makes: disjoint complete subtrees, a
  top whose fronts are listed as they were factored, children before parents, and contribution
  rows that the parent assembles. `Workers` are `1 .. n`, since the slices are by thread number.

The last invariant, `RefineInv`, is of the refinement. It says what each stage of
`refine_core` holds of the iterate, the saved best one and the count of steps: the classical
steps leave the errors of the x they keep, a restart cycle of FGMRES never leaves a column
worse, and the second phase's steps fit what the first has left. The least and greatest
errors over the columns are lemmas over a finite set (`MaxOfTwo` and those beside it).
- `RefineTheorem`: `Spec => []RefineSound`, for every method, settings and columns.

**TileRunner** (`TileRunnerProofs`). Two halves. The first is the runner over *any* graph that
is `GraphSound` (the counts are the numbers of predecessors, each released once). `RunnerInv`
says that a task is in one place (not released, ready, at a thread, finished), that what was
released has its predecessors finished and its count says how many are left (`QueueInv`,
`ExecInv`), who is inside (`JobInv`), and that while anyone waits the only ready task is the
one the holder of the lock is taking (`WakeInv`; without it, a task released between a
notification and the waking is counted as nobody's). The second half is about the two graphs
as the code computes them, for any `K` and `NR`: the counts are right, conflicting tasks are
ordered by a path of the graph in the order of the serial sweep (`OrderSound`), and the
number of tasks is the one the rings of the queues have room for (`RoomSound`).
- `SerialTheorem`: `Spec => []SerialEquivalent`. `HelpersTheorem`: `Spec => []HelpersSound`.

**RescueDrivers** (`RescueDriversProofs`). The properties speak of the end of a call; the
invariant adds what the stages rely on: the keep's memory outlives calls (`Memory`), a call
carries its values and analysis (`InCall`), the stages of scale-on-delay run with the rescue
state forgotten (`InStage`), the last stage leaves this call's factor (`AtDone`).
- `TypeTheorem`, `ReuseTheorem`: `Spec => []ReuseNeverDrifts`.
- `OutcomeTheorem`: `Spec => []OutcomeConsistent`, `VerdictsTheorem`: `Spec =>
  []VerdictsStand`, both for instances with `SignaturesTell`: a signature of zeros means the
  same in both analyses. Within one analysis it does, up to a collision of the hash; between
  two the code does not ensure it (section 5), and the run's instance has it. The step that
  needs it compares a signature remembered from one with another's values (`HopelessSays`).

**Ma97Plugin** (`IpmProofs`, on the invariants of `IpmSession`). The plugin makes only calls of the session's interface,
so `IpmSession`'s invariants hold under it. A handle is tied to the session by its generation
alone; `PluginInv` says what follows while it is the session's: no other handle is, no
`factor()` came after it, and what it reports is the factor's or the factor is incomplete.
- `Drives`: `PluginSpec => Spec` of `IpmSession`.
- `HandlesAnswer`: `PluginSpec => []HandleAnswersItsFactor`, assuming `~Banded` as above.
- `ScalesKept`: `PluginSpec => []ScaleIsTheFactors`.

**ParallelFactor** (`ParallelFactorProofs`). For every tree numbered in postorder, works, negative
pivots, broken fronts, limit, costs, number of threads and interleaving (`ScenariosAssumption`:
a postorder numbers a parent after its children, and between a front and its parent only what
is below the parent; works are natural numbers and costs integers, in a unit of one's choice, so
that the fractions of the cost model are exact; the constants of the plan are natural
numbers, `PlanAssumption`). First the plan, then the run.

The plan is what loops over the nodes, a heap and a sort compute (`ThreadPlan`). Each loop is a
fold of the community modules; a fold stands for a CHOOSE over functions of the sets of nodes, so
its equation is derived first (`SumsUnrolled`, `SplitUnrolled`, `MergeUnrolled`,
`PathsUnrolled`), and an invariant of its turns is carried from one node to the next:
`SumsTo` (a subtree is an interval that ends with its root, and its work is the sum over it),
`HeapInv` (the top part is heavy, the children of its nodes are in it or in the heap, and each
turn splits a node until the heap is light), `TasksInv` (the merged tasks are whole subtrees, in
order, apart, and none could take in the next), `PathsFit`. A parent weighs no less than its
child, so the heavy nodes are closed towards the roots (`HeavyParent`): both partitions cut the
tree at them. The sorted lists are described by how many come before an element; that each place
has one is `RanksList`. From this `HeapDeals` and `TasksDeal` (the ranges are whole
subtrees, all of them, apart), `Partitioned` (what `SoundPartition` asks), `PlanDeals` (the plan
of a run satisfies `PlanFits`: its ranges are whole subtrees that share out the fronts with the
top part). `SerialPlanned` is arithmetic: if all the work is at most four times the overhead of
a thread, a plan of T threads costs no less than the serial run (`CostNoLess`: the sum of its
two phases and T overheads, against total / T + T * total / 4).
- `PlanTheorem`: `Spec => []PlanSound`.

The invariant of a run from a plan that fits (`ParInv`) has six parts.
`ShapeInv` has the ranges of the variables; `OwnInv` says that every front is still to be
given, has one thread, or is done, and its children before it (a thread owns the rest of its
subtree, not only the front it is at); `AtInv` what a thread at each label knows of its front;
`GateInv` that the cursor has passed reported fronts only, and that of the threads whose
addition completed a crossing one is on its way to the walk and sees every front up to it:
without `sees`, the walk could stop short and the crossing stay open. `SumInv` says what has been counted
and that a stop has a cause; it needs the owners to be distinct, or a front is counted twice.
`DealInv` says what a thread that leaves a loop has seen given, so that after the join nothing
is left. Sums up to a front are the code's running sums; the lemmas about them compare them with
sums over the set of fronts that have reported.
- `GateTheorem`: `Spec => []GateDecidesInPostorder`.
- `SerialTheorem`: `Spec => []SameAsSerial`. The serial loop ends at its least bad
  front, which shows a cause (`SerialEnds`); a run that comes through has met none (`NoCause`).
- `OutcomeTheorem`: `Spec => Outcome!Init /\ [][Outcome!Report]_(Outcome!vars)`: the
  safety part of the implementation of `FactorOutcome`.

**TaskTree** (`TaskTreeProofs`). For every forest whose nodes are numbered children first
(`analysis.hpp:42`), with one parent each (`TreeAssumption`), every cost model, policy and
interleaving of the tasks. What the executor does is recursive: the order of a subtree
(`Postorder`), the steps of a task (`Program`, made with `FlattenSeq`) and the bytes of a set
of nodes (`ContribOf`). Each is a recursive function, so its equation is derived from the
CHOOSE it stands for (`PostorderDef`, `FlattenFacts`, `ContribDef`) and used by induction, with
the set of the nodes, or of the sets of nodes, for which the claim holds (`UpTheTree`,
`DownTheTree`, `SmallerFirst`). `OrderSound`: the order of a subtree lists each of its nodes
once, children first. `ProgramSound`, `MainSound`: so the program of a task, or of the call, has
each node it is to process in one step, a child before its parent or awaited before it. The
invariant says this of the steps that are left: no node is of two of them, of one task or of
two (`InvApart`); what is to be processed has not been (`InvMarks`); a task is to process its
own node and the call the roots (`InvOwn`, `InvRoots`); each child of a node still to be
processed is over, comes before it, or is awaited before it (`InvFirst`). A spawn hands the
nodes of the subtree over to the program of the new task, and a wait gives them back as over.
- `NeverTwice`: `Spec => [](AtMostOnce /\ TracksLive)`, whatever the budget: no node is
  processed twice, and without a budget the tracked bytes are the live ones, by `RecordTracks`:
  the contributions a node consumes are all counted, so the clamp is not used. `Typed`: `Spec
  => []TypeOK`.
- `ChildrenFirstTheorem`: `Spec /\ OnlyLeavesThrottled => []ChildrenFirst`, and
  `NodesAccountedTheorem`: `Spec /\ OnlyLeavesThrottled => []NodesAccounted`.
  `OnlyLeavesThrottled` says that the children a throttled node processes itself are leaves. It
  holds without a budget and with each policy of `task_tree`, among them a budget that
  throttles a node over two leaves; the policy of `task_tree_budget` fails it, and there the
  code fails the property (finding 1), so it cannot be dropped.

Only model-checked: the liveness properties, and the liveness part of the implementation of
`FactorOutcome`, since fairness and ENABLED are out of the prover's reach; and the analysis and
numeric modules, whose algorithms are RECURSIVE operators over data, for which the prover has
no SMT backend: what they compute is compared with reference definitions on every small input.

## 5. Findings

1. `run_costed_postorder` under a memory budget that the contributions of a node's
   children exceed processes the children without the subtrees below them
   (`task_tree.cpp:209-226`). Run `task_tree_budget`.
2. `factor_indef` does not clear `use_banded_spd`: a session that factors a banded
   positive definite matrix and then, with another control, an indefinite one solves
   with the old band factor. Run `ipm_session_band`.

Comments that say more than the code does, met while modelling (no run is kept for them):

- `top_scheduler.cpp:103-105`: "no node is handed out after this store". One can be:
  `acquire` loads the flag before the store and pops after it. At most one
  (`AtMostOneLate`, proved), and it is only wasted work.
- `determinism.hpp:27-29`: the status of a factorization aborted by `max_negative_pivots`
  is deterministic. With more than one thread, and a front whose D is not finite, it is
  `InertiaExceeded` or `IllegalValue` according to timing.
- `ipm_session.hpp:185-188`: a user scale is for the next factor only. A refused `factor()`
  keeps it for a later one.
- `ipm_session.hpp:200-201`: the factor's analysis is the session's, the reserve or null. A
  factor through a slack plan points at the plan's reduced analysis
  (`ipm_session.cpp:268-273`). The model counts a plan's analysis as its owner.
- `smf_ma97_plugin.cpp:651`: if the fresh scaling cannot be computed, the stale-scale result
  stands. The retry's result is adopted also when the retry is singular.
- `solve.cpp:407-409`: "never again for this analysis and FactorKeep". The mark names one
  analysis: a static factor rejected under another one replaces it.
- `solve.cpp:365-366`: "these values' zero pattern had no matching scaling". The signature is
  not cleared with the rest of the rescue state and does not name its analysis
  (`factor_posdef.hpp:147-149`). After a full matrix without a matching scaling and a reduced
  one that leaves the static path to the next (`delay_static`), a reduced one with the
  fallback off compares its zeros with the full matrix's: with none in either it runs without
  its work limit, though it may have a matching scaling. TLC finds this on an instance
  without `SignaturesTell`.
- `ordering_parallel_nd.cpp:426`: a separator's runs are taken "lowest first"; its
  `operator<` makes the queue pop the highest first. The result does not depend on it.
- `symbolic_analysis.cpp:764-771`: ordering Matching whose matching fails, in a build without
  AMD, is reported as Matching, with an empty scale.
- `test_slack_elimination.cpp:303`: forward, diagonal and backward compose to a solve. Through
  a slack factor they do unless another caller's full solve falls back to the full factor
  between two of them.

## 6. Plan and what is not modelled

Next: the composition of `TileRunner` with `TopScheduler`.

Not modelled:

- Rounding, underflow and the accuracy of a solve: fractions are exact. The vectorized and
  LAPACK forms of a kernel are the same updates in another order, which only rounding tells
  apart.
- The dense paths before the multifrontal engine (`blocked_indef.cpp`, `pivoting.cpp`,
  `frontal_matrix.cpp`, `numeric_front.cpp`, used by `tree_parallel` factorizations): their
  fronts are `process_node` of `TaskTree`. The numbers are `FrontKernel`'s to other storage.
- METIS and AMD: external, with the results the inputs allow. `dispatch_policy.cpp`: a
  table of measured thresholds.
- The serial block, interleaved and sparse right-hand-side solves: the same substitution in
  one fixed order. The plan of a parallel solve.
- The plans and buffers cached across factorizations of one workspace, except the arenas and
  the pool: they hold what is computed again from the same inputs.
- `FactorStack`: included by `factor_posdef.cpp`, used by its tests alone. The BLAS guard: its
  state is the BLAS library's, and no result depends on it.
- The C API, the IPOPT adapter, matrix input and diagnostics: conversions without state of
  their own. Benchmarks, tools, vendored libraries.
