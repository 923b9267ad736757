------------------------------ MODULE ParallelNd ------------------------------
(***************************************************************************)
(* The task queue of parallel nested dissection (parallel_nd_order): the   *)
(* calling thread and its helpers take the largest part first, split it or *)
(* order it as a leaf, and queue its halves; a top separator's runs are    *)
(* tasks of their own, and the one that completes them applies the split.  *)
(*                                                                         *)
(* nd.owner is read and written outside the lock; nodes, queue, pending    *)
(* and failed are guarded by it.                                           *)
(***************************************************************************)
EXTENDS NestedDissection

VARIABLES nd,               \* the dissection: nodes, owner, queue, pending, failed
          worker            \* its threads: [pc, task, cut]

ndvars == <<nd, worker>>

Node(verts, depth) ==
  [verts |-> verts, sep |-> {}, order |-> <<>>, child |-> <<>>, depth |-> depth,
   leaf |-> TRUE, left |-> 0]
Task(size, id, run) == [size |-> size, id |-> id, run |-> run]
NoTask == Task(0, 0, 0)
Idle == [pc |-> "pop", task |-> NoTask, cut |-> Failed]

(* Task::operator<: the larger part, then the lower id, then the higher    *)
(* run (run 0 here is no run).                                             *)
Before(s, t) == \/ s.size > t.size
                \/ s.size = t.size /\ s.id < t.id
                \/ s.size = t.size /\ s.id = t.id /\ s.run >= t.run
Top == CHOOSE t \in nd.queue : \A o \in nd.queue : Before(t, o)

(* The queue starts with the whole graph; threads is what the call could   *)
(* create, at most 2^Levels.                                               *)
NdStart(adj, weight, threads) ==
  LET c == Compress(adj, weight)
      all == DOMAIN c.adj
  IN /\ nd' = [c |-> c, adj |-> adj, node |-> <<Node(all, 0)>>,
               owner |-> [v \in all |-> 1], queue |-> {Task(Cardinality(all), 1, 0)},
               pending |-> 1, failed |-> FALSE]
     /\ worker' = [k \in 1..MinOf(threads, 2^Levels) |-> Idle]

NoNd == [queue |-> {}]

(* worker(): take the first task, or leave when the work is over.          *)
Pop(k) ==
  /\ worker[k].pc = "pop" /\ ~nd.failed /\ nd.queue # {}
  /\ nd' = [nd EXCEPT !.queue = @ \ {Top}]
  /\ worker' = [worker EXCEPT ![k] = [@ EXCEPT !.pc = "work", !.task = Top]]

Leave(k) ==
  /\ worker[k].pc = "pop" /\ (nd.failed \/ (nd.queue = {} /\ nd.pending = 0))
  /\ worker' = [worker EXCEPT ![k] = [@ EXCEPT !.pc = "done"]]
  /\ UNCHANGED nd

Mine(id) == {v \in DOMAIN nd.owner : nd.owner[v] = id}

(* The outcome of a task: a cut to apply, a leaf to order, runs to queue,  *)
(* nothing more (an earlier run), or a failure.                            *)
Start(lib, id) ==
  LET node == nd.node[id]
      size == Cardinality(node.verts)
      nbr == Induced(nd.c, node.verts, Mine(id))
      inTasks == node.depth < SplitSepDepth
  IN IF node.depth >= Levels \/ size < MinSplit THEN [to |-> "leaf"]
     ELSE IF Cardinality(Components(nbr)) > 1
          THEN [to |-> "split", cut |-> ComponentSides(nd.c, Components(nbr))]
     ELSE IF CallFails(lib, size, 0) THEN [to |-> "fail"]
     ELSE IF RunsOf(size, node.depth) > 0 THEN [to |-> "runs"]
     ELSE IF inTasks /\ CallFails(lib, size, 9) THEN [to |-> "fail"]
     ELSE LET cut == VertexSeparator(nd.c, nbr)
          IN [to |-> IF Splits(cut) THEN "split" ELSE "leaf", cut |-> cut]

(* split_sep: the run that brings the count to zero finishes.              *)
EndRun(lib, id, run) ==
  LET node == nd.node[id]
      size == Cardinality(node.verts)
      cut == VertexSeparator(nd.c, Induced(nd.c, node.verts, Mine(id)))
  IN IF CallFails(lib, size, run) THEN [to |-> "fail"]
     ELSE IF node.left # 1 THEN [to |-> "end"]
     ELSE IF CallFails(lib, size, 9) THEN [to |-> "fail"]
     ELSE [to |-> IF Splits(cut) THEN "split" ELSE "leaf", cut |-> cut]

Process(lib, k) ==
  /\ worker[k].pc = "work"
  /\ LET t == worker[k].task
         r == IF t.run > 0 THEN EndRun(lib, t.id, t.run) ELSE Start(lib, t.id)
         counted == IF t.run > 0 /\ ~CallFails(lib, t.size, t.run)
                    THEN [nd EXCEPT !.node[t.id].left = @ - 1] ELSE nd
     IN /\ nd' = counted
        /\ worker' = [worker EXCEPT ![k] =
             [@ EXCEPT !.pc = r.to, !.cut = IF r.to = "split" THEN r.cut ELSE Failed]]

(* bisect left a separator in flight: its runs are queued under the lock.  *)
QueueRuns(k) ==
  /\ worker[k].pc = "runs"
  /\ LET t == worker[k].task IN
     nd' = [nd EXCEPT !.node[t.id].left = SepRuns,
                      !.queue = @ \cup {Task(t.size, t.id, r) : r \in 1..SepRuns},
                      !.pending = @ + SepRuns]
  /\ worker' = [worker EXCEPT ![k].pc = "end"]

Leaf(lib, k) ==
  /\ worker[k].pc = "leaf"
  /\ LET id == worker[k].task.id
         r == OrderLeaf(lib, nd.c, nd.adj, nd.node[id].verts, Mine(id))
     IN /\ nd' = IF r.ok THEN [nd EXCEPT !.node[id].order = r.order] ELSE nd
        /\ worker' = [worker EXCEPT ![k].pc = IF r.ok THEN "end" ELSE "fail"]

(* apply(): the halves become nodes under the lock, ...                    *)
Allocate(k) ==
  /\ worker[k].pc = "split"
  /\ LET t == worker[k].task
         cut == worker[k].cut
         depth == nd.node[t.id].depth + 1
         next == Len(nd.node)
     IN nd' = [nd EXCEPT !.node = [@ EXCEPT ![t.id].child = <<next + 1, next + 2>>]
                                  \o <<Node(cut.half[1], depth), Node(cut.half[2], depth)>>]
  /\ worker' = [worker EXCEPT ![k].pc = "own"]

(* ... their vertices change owner outside it, ...                         *)
Own(k) ==
  /\ worker[k].pc = "own"
  /\ LET id == worker[k].task.id
         cut == worker[k].cut
         child == nd.node[id].child
     IN nd' = [nd EXCEPT
                 !.owner = [v \in DOMAIN @ |->
                              IF v \in cut.half[1] THEN child[1]
                              ELSE IF v \in cut.half[2] THEN child[2]
                              ELSE IF v \in cut.sep THEN 0 ELSE @[v]],
                 !.node[id].sep = cut.sep, !.node[id].leaf = FALSE, !.node[id].verts = {}]
  /\ worker' = [worker EXCEPT ![k].pc = "queue"]

(* ... and the halves are queued under it.                                 *)
QueueHalves(k) ==
  /\ worker[k].pc = "queue"
  /\ LET child == nd.node[worker[k].task.id].child IN
     nd' = [nd EXCEPT !.queue = @ \cup {Task(Cardinality(nd.node[c].verts), c, 0) :
                                          c \in {child[1], child[2]}},
                      !.pending = @ + 2]
  /\ worker' = [worker EXCEPT ![k].pc = "end"]

EndTask(k) ==
  /\ worker[k].pc \in {"end", "fail"}
  /\ nd' = [nd EXCEPT !.pending = @ - 1, !.failed = @ \/ worker[k].pc = "fail"]
  /\ worker' = [worker EXCEPT ![k] = Idle]

NdStep(lib, k) ==
  \/ Pop(k) \/ Leave(k) \/ Process(lib, k) \/ QueueRuns(k) \/ Leaf(lib, k)
  \/ Allocate(k) \/ Own(k) \/ QueueHalves(k) \/ EndTask(k)

NdDone == \A k \in DOMAIN worker : worker[k].pc = "done"

(* emit: children before their separator; <<>> after a failure.            *)
RECURSIVE Emit(_)
Emit(id) ==
  LET node == nd.node[id]
  IN IF node.leaf THEN node.order
     ELSE Emit(node.child[1]) \o Emit(node.child[2]) \o Members(nd.c, Ascending(node.sep))
NdResult == IF nd.failed THEN <<>> ELSE Emit(1)
=============================================================================
