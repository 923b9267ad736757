------------------------------ MODULE TaskTree ------------------------------
(***************************************************************************)
(* run_costed_postorder (solver/src/parallel/task_tree.cpp): the tree of   *)
(* supernodes run by OpenMP tasks, for the factorization of tree_parallel  *)
(* (factor_indef.cpp:711-727). A task runs small subtrees itself, spawns   *)
(* one task per other child, waits for them and runs its own node.         *)
(*                                                                         *)
(* What a task does is fixed when it starts: a sequence of steps (Program) *)
(* executed in order. The tasks are those of the nodes and Main, the       *)
(* thread of the single construct. Any number of tasks are under way at    *)
(* once: a team of threads runs some of these schedules.                   *)
(***************************************************************************)
EXTENDS Integers, SequencesExt

CONSTANTS
  Nodes,        (* supernodes                                               *)
  Kids,         (* ak.children(): the children of each node, in their order *)
  Roots,        (* the roots, in index order                                *)
  Flops,        (* node_flops                                               *)
  Contrib,      (* contrib_bytes                                            *)
  Policies,     (* [parallel, budget, min]: what the caller may ask for     *)
  CoarseDepth,  (* depth from which a task runs its subtree itself          *)
  Main

\* The supernodes are numbered in postorder (analysis.hpp:42); the children and
\* the roots are read off each node's one parent.
ASSUME TreeAssumption ==
  /\ Nodes \subseteq Nat /\ (\E last \in Nodes : Nodes = 0..last) /\ Main \notin Nodes
  /\ Kids \in [Nodes -> Seq(Nodes)] /\ Roots \in Seq(Nodes)
  /\ \A n \in Nodes : \A i \in DOMAIN Kids[n] : Kids[n][i] < n
  /\ \A m, n \in Nodes : \A i \in DOMAIN Kids[m], j \in DOMAIN Kids[n] :
       Kids[m][i] = Kids[n][j] => m = n /\ i = j
  /\ \A i, j \in DOMAIN Roots : Roots[i] = Roots[j] => i = j
  /\ \A n \in Nodes : n \in ToSet(Roots) <=> \A p \in Nodes : n \notin ToSet(Kids[p])
ASSUME CostAssumption   == Flops \in [Nodes -> Nat] /\ Contrib \in [Nodes -> Nat]
ASSUME PolicyAssumption ==
  Policies \subseteq [parallel : BOOLEAN, budget : Nat, min : Nat] /\ CoarseDepth \in Nat

VARIABLES
  policy,    (* the policy of this call: constant                           *)
  todo,      (* the steps each started task has left                        *)
  started,   (* the tasks spawned                                           *)
  calls,     (* calls of process_node on each node                          *)
  done,      (* nodes process_node has returned for                         *)
  recorded,  (* history: nodes passed to on_node_complete                   *)
  current,   (* current_bytes                                               *)
  peak       (* peak_bytes                                                  *)

vars == <<policy, todo, started, calls, done, recorded, current, peak>>

-----------------------------------------------------------------------------
(* The tree and its costs                                                  *)

\* A subtree in the order of the iterative execution (and of serial_postorder).
Postorder[n \in Nodes] ==
  FlattenSeq([i \in DOMAIN Kids[n] |-> Postorder[Kids[n][i]]]) \o <<n>>

SubtreeFlops == [n \in Nodes |-> SumFunctionOnSet(Flops, ToSet(Postorder[n]))]

\* The depth argument of a node's task.
Depth[n \in Nodes] ==
  IF n \in ToSet(Roots) THEN 0
  ELSE 1 + Depth[CHOOSE p \in Nodes : n \in ToSet(Kids[p])]

ContribOf(ns) == SumFunctionOnSet(Contrib, ns)

-----------------------------------------------------------------------------
(* What a task does                                                        *)

Run(n)       == <<"run", n>>      \* process_node(n), then on_node_complete(n)
Bare(n)      == <<"bare", n>>     \* process_node(n) alone
Cap(n)       == <<"cap", n>>      \* peak_bytes raised to the bounded value
Spawn(n)     == <<"spawn", n>>
Wait         == <<"wait", Main>>  \* taskwait, or the barrier of the region

Each(Op(_), s)   == [i \in DOMAIN s |-> Op(s[i])]
Those(Test(_), s) == FlattenSeq(Each(LAMBDA x : IF Test(x) THEN <<x>> ELSE <<>>, s))
RunSubtree(n)  == Each(Run, Postorder[n])

Tiny(n) == SubtreeFlops[n] < policy.min

\* Mutant: the small children are also spawned.
ParChildrenMut(n) == Kids[n]

ParChildren(n) == Those(LAMBDA c : ~Tiny(c), Kids[n])

TinyChildren(n) == Those(Tiny, Kids[n])

\* The contributions of the children exceed the budget together. (So a batch
\* of them never does, and the wait between batches is never reached.)
Throttled(n) ==
  /\ policy.budget > 0
  /\ Len(ParChildren(n)) > 1
  /\ ContribOf(ToSet(ParChildren(n))) > policy.budget

\* Mutant: no wait for the children's tasks.
SpawnAllMut(s) == Each(Spawn, s)

SpawnAll(s) == IF s = <<>> THEN <<>> ELSE Append(Each(Spawn, s), Wait)

\* costed_task_impl
Program(n) ==
  LET par == ParChildren(n)
  IN  IF Kids[n] = <<>> \/ Tiny(n) \/ Depth[n] >= CoarseDepth THEN RunSubtree(n)
      ELSE FlattenSeq(Each(RunSubtree, TinyChildren(n)))
             \o (IF Throttled(n) THEN Append(Each(Bare, par), Cap(par[1])) ELSE SpawnAll(par))
             \o <<Run(n)>>

\* The body of run_costed_postorder; serially, the last root is on top of the
\* stack of serial_postorder.
MainProgram ==
  IF policy.parallel
  THEN FlattenSeq(Each(LAMBDA r : IF Tiny(r) THEN RunSubtree(r) ELSE <<Spawn(r)>>, Roots))
         \o <<Wait>>
  ELSE FlattenSeq(Each(RunSubtree, Reverse(Roots)))

Tasks == Nodes \cup {Main}

Init ==
  /\ policy \in Policies
  /\ started = {Main}
  /\ todo = [t \in Tasks |-> IF t = Main THEN MainProgram ELSE <<>>]
  /\ calls = [n \in Nodes |-> 0]
  /\ done = {} /\ recorded = {}
  /\ current = 0 /\ peak = 0

-----------------------------------------------------------------------------
(* The steps                                                               *)

Next1(t)   == IF todo[t] = <<>> THEN <<"end", Main>> ELSE Head(todo[t])
Op(t)      == Next1(t)[1]
Of(t)      == Next1(t)[2]
Ended(t)   == t \in started /\ todo[t] = <<>>
Advance(t) == todo' = [todo EXCEPT ![t] = Tail(@)]

\* process_node is called,
Call(t) ==
  /\ Op(t) \in {"run", "bare"}
  /\ calls' = [calls EXCEPT ![Of(t)] = @ + 1]
  /\ todo' = [todo EXCEPT ![t] = <<<<IF Op(t) = "run" THEN "running" ELSE "bare running", Of(t)>>>>
                                   \o Tail(@)]
  /\ UNCHANGED <<policy, started, done, recorded, current, peak>>

\* and returns; a throttled child is not recorded.
Return(t) ==
  /\ Op(t) \in {"running", "bare running"}
  /\ done' = done \cup {Of(t)}
  /\ IF Op(t) = "running" THEN todo' = [todo EXCEPT ![t] = <<<<"record", Of(t)>>>> \o Tail(@)]
     ELSE Advance(t)
  /\ UNCHANGED <<policy, started, calls, recorded, current, peak>>

Consumed(n) ==
  LET consumed == ContribOf(ToSet(Kids[n]))
  IN  IF current >= consumed THEN current - consumed ELSE 0

LiveAfter(n) == Consumed(n) + Contrib[n]

\* on_node_complete
Record(t) ==
  /\ Op(t) = "record"
  /\ recorded' = recorded \cup {Of(t)}
  /\ current' = LiveAfter(Of(t))
  /\ peak' = IF current' > peak THEN current' ELSE peak
  /\ Advance(t)
  /\ UNCHANGED <<policy, started, calls, done>>

RaisePeak(t) ==
  /\ Op(t) = "cap"
  /\ peak' = LET bounded == IF policy.budget > Contrib[Of(t)] THEN policy.budget ELSE Contrib[Of(t)]
             IN  IF bounded > peak THEN bounded ELSE peak
  /\ Advance(t)
  /\ UNCHANGED <<policy, started, calls, done, recorded, current>>

SpawnTask(t) ==
  /\ Op(t) = "spawn"
  /\ started' = started \cup {Of(t)}
  /\ todo' = [todo EXCEPT ![t] = Tail(@), ![Of(t)] = Program(Of(t))]
  /\ UNCHANGED <<policy, calls, done, recorded, current, peak>>

ChildrenOf(t) == ToSet(IF t = Main THEN Roots ELSE Kids[t])

\* Mutant: every child is waited for, spawned or not.
WaitedForMut(t) == \A c \in ChildrenOf(t) : Ended(c)

WaitedFor(t) == \A c \in ChildrenOf(t) \cap started : Ended(c)

TaskWait(t) ==
  /\ Op(t) = "wait"
  /\ WaitedFor(t)
  /\ Advance(t)
  /\ UNCHANGED <<policy, started, calls, done, recorded, current, peak>>

-----------------------------------------------------------------------------
Step(t) == Call(t) \/ Return(t) \/ Record(t) \/ RaisePeak(t) \/ SpawnTask(t) \/ TaskWait(t)

Finished == Ended(Main)

\* The call has returned.
Done == Finished /\ UNCHANGED vars

Next == (\E t \in started : Step(t)) \/ Done

Spec == Init /\ [][Next]_vars

\* OpenMP runs every spawned task at the latest at the wait for it.
FairSpec == Spec /\ \A t \in Tasks : WF_vars(Step(t))

-----------------------------------------------------------------------------
(* Properties                                                              *)

\* Every variable has its type; the live and peak bytes never wrap below 0
\* (they are unsigned).
TypeOK ==
  /\ policy \in Policies
  /\ started \subseteq Tasks /\ done \subseteq Nodes /\ recorded \subseteq Nodes
  /\ calls \in [Nodes -> Nat]
  /\ current \in Nat /\ peak \in Nat

\* threading.hpp:26: the tree is run children-first: when a node is processed
\* all its children have been, whatever task ran them.
ChildrenFirst ==
  \A n \in Nodes : calls[n] > 0 => ToSet(Kids[n]) \subseteq done

\* Every node is processed once: by the task of its own, by the task of an
\* ancestor that runs the subtree itself, never by both and never by none.
EachNodeOnce ==
  /\ \A n \in Nodes : calls[n] <= 1
  /\ Finished => done = Nodes

\* Without a budget the tracked bytes are those of the contributions formed
\* and not assembled yet, at any schedule, so the peak is theirs.
TracksLive ==
  policy.budget = 0 =>
    current = ContribOf({n \in recorded : \A p \in recorded : n \notin ToSet(Kids[p])})

\* The accounts of the executor: nodes processed and bytes tracked.
NodesAccounted == EachNodeOnce /\ TracksLive

\* The call returns.
Returns == <>Finished

=============================================================================
