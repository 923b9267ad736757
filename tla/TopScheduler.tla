---------------------------- MODULE TopScheduler ----------------------------
(***************************************************************************)
(* The task scheduler of the top part of the assembly tree                 *)
(* (solver/src/parallel/top_scheduler.{hpp,cpp}): a node is ready once all *)
(* its children have completed; running nodes share a budget of BLAS       *)
(* threads; a running front lends places to idle workers (TileHelpers).    *)
(*                                                                         *)
(* A critical section is one step, except where another thread's store of  *)
(* the atomic stopped_ (made before the lock is taken) can fall between    *)
(* its load and what is decided from it: acquire and finish are two steps  *)
(* there, and mtx names the lock's holder in between.                      *)
(***************************************************************************)
EXTENDS Integers, Sequences, FiniteSets

CONSTANTS
  Nodes,     (* local node indices                                           *)
  Parent,    (* parent_: a node's parent, NoNode for a root                  *)
  Workers,   (* the pool's threads                                           *)
  Threads,   (* BLAS threads to share: max(1, threads) of the constructor    *)
  TileJobs,  (* bound: tile jobs one front runs (ldlt_aptp_front_tiled: 2)   *)
  Spurious,  (* bound: spurious wake-ups of cv_.wait                         *)
  NoWorker

NoNode == -1

ASSUME NodesAssumption   == Nodes \subseteq Nat /\ IsFiniteSet(Nodes)
ASSUME ParentAssumption  == Parent \in [Nodes -> Nodes \cup {NoNode}]
ASSUME WorkersAssumption == IsFiniteSet(Workers) /\ NoWorker \notin Workers
ASSUME ThreadsAssumption == Threads \in Nat \ {0}
ASSUME BoundsAssumption  == TileJobs \in Nat /\ Spurious \in Nat

Children(p) == {n \in Nodes : Parent[n] = p}
Leaves      == {n \in Nodes : Children(n) = {}}

VARIABLES
  pending,    (* children not completed yet, per node                        *)
  ready,      (* shared list (LIFO): initially ready nodes only              *)
  offers,     (* sequence of [job, slots], newest last; a job is its owner   *)
  completed,  (* sequence of <<node, worker>>, in completion order           *)
  free,       (* BLAS threads not held by running nodes                      *)
  remaining,  (* nodes not completed                                         *)
  stopped,    (* the atomic flag                                             *)
  mirror,     (* lock-free copies polled by spinning workers                 *)
  mtx,        (* the worker inside a two-step critical section, or NoWorker  *)
  sleepers,   (* workers counted in sleepers_                                *)
  waiting,    (* those of them no notify has reached yet                     *)
  pc,         (* where each worker is                                        *)
  node,       (* the node each worker runs                                   *)
  share,      (* the BLAS threads that node holds                            *)
  tile,       (* the tile job of each worker's front: none, open or done     *)
  jobs,       (* tile jobs the front may still run                           *)
  helpers,    (* TileRunner::helpers_ of each worker's job                   *)
  helping,    (* whose job a worker helps                                    *)
  late,       (* history: nodes handed out after the store of stopped_       *)
  spurious    (* spurious wake-ups so far                                    *)

sched  == <<pending, ready, offers, completed, free, remaining, stopped, mirror, late>>
cvars  == <<mtx, sleepers, waiting, spurious>>
front  == <<node, share, tile, jobs>>
help   == <<helpers, helping>>
vars   == <<sched, cvars, pc, front, help>>

-----------------------------------------------------------------------------
(* Helpers                                                                 *)

AllButLast(s) == SubSeq(s, 1, Len(s) - 1)

\* max(1, free / (ready + 1))
ShareOf(fr, nready) ==
  IF fr \div (nready + 1) > 1 THEN fr \div (nready + 1) ELSE 1

Completed == {completed[i][1] : i \in DOMAIN completed}

\* What publish() copies.
Published(r, f, o, m) == [ready |-> Len(r), free |-> f, offers |-> Len(o), remaining |-> m]

\* Something an idle worker can take.
Takeable(r, f, o) == (Len(r) > 0 /\ f > 0) \/ Len(o) > 0

\* runnable()
Runnable == Takeable(ready, free, offers) \/ remaining = 0 \/ stopped

\* Mutant: nobody is woken for what a critical section leaves to take.
WakeOneMut(r, f, o) == UNCHANGED waiting

\* wake_one_if_runnable(), over the values the critical section leaves.
WakeOne(r, f, o) ==
  IF Takeable(r, f, o) /\ waiting # {}
  THEN \E w \in waiting : waiting' = waiting \ {w}
  ELSE UNCHANGED waiting

\* Mutant: the end of the run wakes one sleeper only.
NotifyAllMut == IF waiting = {} THEN UNCHANGED waiting
                ELSE \E w \in waiting : waiting' = waiting \ {w}

\* cv_.notify_all()
NotifyAll == waiting' = {}

\* Mutants: finish() forgets the node's threads; acquire() loads stopped_ no
\* more.
ReturnedMut(w)  == free
MayTakeMut      == remaining # 0

\* What the budget holds once worker w's node has ended.
Returned(w) == free + share[w]

\* --pending_[p] == 0
LastChild(p) == pending[p] = 1

\* The loads of stopped_ and remaining_ after the wait.
MayTake == ~stopped /\ remaining # 0

\* A node is handed out: counted once stopped_ is set.
CountLate == late' = IF stopped THEN late + 1 ELSE late

Goto(w, l) == pc' = [pc EXCEPT ![w] = l]

Unlocked == mtx = NoWorker

-----------------------------------------------------------------------------
Init ==
  /\ pending = [p \in Nodes |-> Cardinality(Children(p))]
  /\ ready \in [1..Cardinality(Leaves) -> Leaves]
  /\ \A i, j \in DOMAIN ready : i < j => ready[i] < ready[j]
  /\ offers = <<>>
  /\ completed = <<>>
  /\ free = Threads
  /\ remaining = Cardinality(Nodes)
  /\ stopped = FALSE
  /\ mirror = Published(ready, free, offers, remaining)
  /\ mtx = NoWorker
  /\ sleepers = {}
  /\ waiting = {}
  /\ pc = [w \in Workers |-> "spin"]
  /\ node = [w \in Workers |-> NoNode]
  /\ share = [w \in Workers |-> 0]
  /\ tile = [w \in Workers |-> "none"]
  /\ jobs = [w \in Workers |-> 0]
  /\ helpers = [w \in Workers |-> 0]
  /\ helping = [w \in Workers |-> NoWorker]
  /\ late = 0
  /\ spurious = 0

-----------------------------------------------------------------------------
(* acquire()                                                               *)

\* The spin ends (a hint, or its time is up) or cv_.wait returns, and the
\* worker holds the lock.
Lock(w) ==
  /\ \/ pc[w] = "spin"
     \/ pc[w] = "asleep" /\ w \notin waiting
  /\ Unlocked
  /\ mtx' = w
  /\ Goto(w, "checking")
  /\ UNCHANGED <<sched, sleepers, spurious, waiting, front, help>>

SpuriousWake(w) ==
  /\ w \in waiting
  /\ spurious < Spurious
  /\ waiting' = waiting \ {w}
  /\ spurious' = spurious + 1
  /\ UNCHANGED <<sched, mtx, sleepers, pc, front, help>>

Sleep(w) ==
  /\ pc[w] = "checking"
  /\ ~Runnable
  /\ sleepers' = sleepers \cup {w}
  /\ waiting' = waiting \cup {w}
  /\ mtx' = NoWorker
  /\ Goto(w, "asleep")
  /\ UNCHANGED <<sched, spurious, front, help>>

\* All nodes completed, or stopped: work() returns.
Return(w) ==
  /\ pc[w] = "checking"
  /\ stopped \/ remaining = 0
  /\ sleepers' = sleepers \ {w}
  /\ mtx' = NoWorker
  /\ Goto(w, "returned")
  /\ UNCHANGED <<sched, spurious, waiting, front, help>>

\* The loads of stopped_ and remaining_ let the worker take something.
Checked(w) ==
  /\ pc[w] = "checking"
  /\ Runnable
  /\ MayTake
  /\ sleepers' = sleepers \ {w}
  /\ Goto(w, "taking")
  /\ UNCHANGED <<sched, mtx, waiting, spurious, front, help>>

TakeNode(w) ==
  /\ pc[w] = "taking"
  /\ Len(ready) > 0 /\ free > 0
  /\ LET rest == AllButLast(ready)
         k    == ShareOf(free, Len(rest))
     IN /\ ready' = rest
        /\ free' = free - k
        /\ share' = [share EXCEPT ![w] = k]
        /\ node' = [node EXCEPT ![w] = ready[Len(ready)]]
        /\ mirror' = Published(rest, free', offers, remaining)
        /\ WakeOne(rest, free', offers)
  /\ jobs' = [jobs EXCEPT ![w] = TileJobs]
  /\ CountLate
  /\ mtx' = NoWorker
  /\ Goto(w, "run")
  /\ UNCHANGED <<pending, offers, completed, remaining, stopped, sleepers, spurious, tile, help>>

\* A place of the newest offer; add_helper() runs under the scheduler's lock.
TakeOffer(w) ==
  /\ pc[w] = "taking"
  /\ ~(Len(ready) > 0 /\ free > 0)
  /\ LET o    == offers[Len(offers)]
         left == IF o.slots = 1 THEN AllButLast(offers)
                 ELSE [offers EXCEPT ![Len(offers)].slots = @ - 1]
     IN /\ offers' = left
        /\ helpers' = [helpers EXCEPT ![o.job] = @ + 1]
        /\ helping' = [helping EXCEPT ![w] = o.job]
        /\ mirror' = Published(ready, free, left, remaining)
        /\ WakeOne(ready, free, left)
  /\ mtx' = NoWorker
  /\ Goto(w, "help")
  /\ UNCHANGED <<pending, ready, completed, free, remaining, stopped, late, sleepers, spurious, front>>

-----------------------------------------------------------------------------
(* run(node): the front's work, with at most TileJobs tile jobs            *)

\* TileRunner::run on helpers: offer(job, nthreads - 1).
Offer(w) ==
  /\ pc[w] = "run"
  /\ jobs[w] > 0 /\ share[w] > 1
  /\ Unlocked
  /\ offers' = Append(offers, [job |-> w, slots |-> share[w] - 1])
  /\ mirror' = Published(ready, free, offers', remaining)
  /\ WakeOne(ready, free, offers')
  /\ jobs' = [jobs EXCEPT ![w] = @ - 1]
  /\ tile' = [tile EXCEPT ![w] = "open"]
  /\ Goto(w, "tiles")
  /\ UNCHANGED <<pending, ready, completed, free, remaining, stopped, late, mtx, sleepers, spurious,
                 node, share, help>>

\* The last task of the job's graph has finished (on the owner or a helper).
TilesDone(w) ==
  /\ tile[w] = "open"
  /\ tile' = [tile EXCEPT ![w] = "done"]
  /\ UNCHANGED <<sched, cvars, pc, node, share, jobs, help>>

Without(s, i) == SubSeq(s, 1, i - 1) \o SubSeq(s, i + 1, Len(s))

\* withdraw(): the job's first offer, if it has places left.
Withdraw(w) ==
  /\ pc[w] = "tiles" /\ tile[w] = "done"
  /\ Unlocked
  /\ \/ \E i \in DOMAIN offers :
          /\ offers[i].job = w /\ \A j \in 1..(i - 1) : offers[j].job # w
          /\ offers' = Without(offers, i)
     \/ (\A i \in DOMAIN offers : offers[i].job # w) /\ UNCHANGED offers
  /\ mirror' = Published(ready, free, offers', remaining)
  /\ Goto(w, "joining")
  /\ UNCHANGED <<pending, ready, completed, free, remaining, stopped, late, cvars, front, help>>

\* cv_.wait(helpers_ == 0), then the job object may go.
Join(w) ==
  /\ pc[w] = "joining" /\ helpers[w] = 0
  /\ tile' = [tile EXCEPT ![w] = "none"]
  /\ Goto(w, "run")
  /\ UNCHANGED <<sched, cvars, node, share, jobs, help>>

\* TileRunner::help() returns: the graph is done, --helpers_.
HelpEnd(w) ==
  /\ pc[w] = "help"
  /\ tile[helping[w]] = "done"
  /\ helpers' = [helpers EXCEPT ![helping[w]] = @ - 1]
  /\ helping' = [helping EXCEPT ![w] = NoWorker]
  /\ Goto(w, "spin")
  /\ UNCHANGED <<sched, cvars, front>>

RunEnd(w) ==
  /\ pc[w] = "run"
  /\ pc' \in {[pc EXCEPT ![w] = "ended"], [pc EXCEPT ![w] = "failed"]}
  /\ UNCHANGED <<sched, cvars, front, help>>

-----------------------------------------------------------------------------
(* finish(): the threads of the node return to the budget                  *)

Idle(w) ==
  /\ share' = [share EXCEPT ![w] = 0]
  /\ node' = [node EXCEPT ![w] = NoNode]
  /\ Goto(w, "spin")

\* stopped_.store(true), before the lock.
StopStore(w) ==
  /\ pc[w] = "failed"
  /\ stopped' = TRUE
  /\ Goto(w, "stopping")
  /\ UNCHANGED <<pending, ready, offers, completed, free, remaining, mirror, late, cvars,
                 front, help>>

FinishFailed(w) ==
  /\ pc[w] = "stopping"
  /\ Unlocked
  /\ free' = Returned(w)
  /\ mirror' = Published(ready, free', offers, remaining)
  /\ NotifyAll
  /\ Idle(w)
  /\ UNCHANGED <<pending, ready, offers, completed, remaining, stopped, late, mtx, sleepers, spurious,
                 tile, jobs, help>>

\* The first half: up to the load of stopped_, which lets it go on to the
\* parent (the worker keeps the lock) or not.
FinishRecord(w) ==
  /\ pc[w] = "ended"
  /\ Unlocked
  /\ free' = Returned(w)
  /\ completed' = Append(completed, <<node[w], w>>)
  /\ remaining' = remaining - 1
  /\ \/ /\ remaining' = 0
        /\ mirror' = Published(ready, free', offers, remaining')
        /\ NotifyAll
        /\ Idle(w)
        /\ UNCHANGED mtx
     \/ /\ remaining' # 0 /\ stopped
        /\ Idle(w)
        /\ UNCHANGED <<mirror, waiting, mtx>>
     \/ /\ remaining' # 0 /\ ~stopped
        /\ mtx' = w
        /\ share' = [share EXCEPT ![w] = 0]
        /\ Goto(w, "linking")
        /\ UNCHANGED <<mirror, waiting, node>>
  /\ UNCHANGED <<pending, ready, offers, stopped, late, sleepers, spurious, tile, jobs, help>>

\* The second half: the parent's last child makes it the continuation, with
\* the share it would get if it were taken from the list.
FinishLink(w) ==
  /\ pc[w] = "linking"
  /\ LET p == Parent[node[w]]
         k == ShareOf(free, Len(ready))
         last == p # NoNode /\ LastChild(p)
     IN /\ pending' = IF p = NoNode THEN pending ELSE [pending EXCEPT ![p] = @ - 1]
        /\ \/ /\ last
              /\ free' = free - k
              /\ share' = [share EXCEPT ![w] = k]
              /\ node' = [node EXCEPT ![w] = p]
              /\ jobs' = [jobs EXCEPT ![w] = TileJobs]
              /\ CountLate
              /\ Goto(w, "run")
           \/ /\ ~last
              /\ free' = free
              /\ Idle(w)
              /\ UNCHANGED <<jobs, late>>
  /\ mirror' = Published(ready, free', offers, remaining)
  /\ WakeOne(ready, free', offers)
  /\ mtx' = NoWorker
  /\ UNCHANGED <<ready, offers, completed, remaining, stopped, sleepers, spurious, tile, help>>

-----------------------------------------------------------------------------
Step(w) ==
  \/ Lock(w) \/ Sleep(w) \/ Return(w) \/ Checked(w) \/ TakeNode(w) \/ TakeOffer(w)
  \/ Offer(w) \/ TilesDone(w) \/ Withdraw(w) \/ Join(w) \/ HelpEnd(w)
  \/ RunEnd(w) \/ StopStore(w) \/ FinishFailed(w) \/ FinishRecord(w) \/ FinishLink(w)

Finished == (\A w \in Workers : pc[w] = "returned") /\ UNCHANGED vars

Next == (\E w \in Workers : Step(w) \/ SpuriousWake(w)) \/ Finished

Spec == Init /\ [][Next]_vars

\* Every thread the operating system runs makes its next step eventually;
\* nothing is assumed of spurious wake-ups. A worker takes the lock a bounded
\* number of times, so weak fairness of the lock is enough.
Fairness == \A w \in Workers : WF_vars(Step(w))

FairSpec == Spec /\ Fairness

-----------------------------------------------------------------------------
(* Properties                                                              *)

Running == {w \in Workers : node[w] # NoNode /\ share[w] > 0}

\* The BLAS threads running nodes hold, one pair per thread.
Held(sh)    == {x \in Workers \X (1..Threads) : x[2] <= sh[x[1]]}
HeldThreads == Held(share)

\* Every variable has its type.
TypeOK ==
  /\ pending \in [Nodes -> Int]
  /\ ready \in Seq(Nodes)
  /\ offers \in Seq([job : Workers, slots : Nat \ {0}])
  /\ completed \in Seq(Nodes \X Workers)
  /\ free \in 0..Threads
  /\ remaining \in Int
  /\ stopped \in BOOLEAN
  /\ mirror \in [ready : Nat, free : Nat, offers : Nat, remaining : Int]
  /\ mtx \in Workers \cup {NoWorker}
  /\ sleepers \subseteq Workers
  /\ waiting \subseteq Workers
  /\ pc \in [Workers -> {"spin", "checking", "asleep", "taking", "returned", "run", "tiles",
                         "joining", "help", "ended", "failed", "stopping", "linking"}]
  /\ node \in [Workers -> Nodes \cup {NoNode}]
  /\ share \in [Workers -> 0..Threads]
  /\ tile \in [Workers -> {"none", "open", "done"}]
  /\ jobs \in [Workers -> 0..TileJobs]
  /\ helpers \in [Workers -> Int]
  /\ helping \in [Workers -> Workers \cup {NoWorker}]
  /\ late \in Nat

\* top_scheduler.hpp:37: the shares of running nodes and the free threads
\* always add up to the budget (no node oversubscribes it, no end or stop
\* leaks a thread).
BudgetConserved == free + Cardinality(HeldThreads) = Threads

\* A front and the workers it recruited never use more than the front's
\* share, and no worker is inside a job whose owner has left it (the job
\* object is a local of the front's factorization).
HelpersWithinShare ==
  \A w \in Workers :
    /\ helpers[w] = Cardinality({h \in Workers : helping[h] = w})
    /\ helpers[w] > 0 => tile[w] # "none" /\ helpers[w] < share[w]

\* top_scheduler.hpp:59: completion order is topological; a node runs once,
\* on one worker, after its last child has completed; the ones in the list or
\* running are not completed.
Topological ==
  /\ \A i, j \in DOMAIN completed :
       /\ i # j => completed[i][1] # completed[j][1]
       /\ Parent[completed[i][1]] = completed[j][1] => i < j
  /\ \A p \in Nodes : pending[p] >= 0
  /\ \A w \in Running :
       /\ Children(node[w]) \subseteq Completed
       /\ node[w] \notin Completed
       /\ \A v \in Running \ {w} : node[v] # node[w]
  /\ remaining = Cardinality(Nodes) - Len(completed)

\* A worker that is not blocked looks for work next.
Looking(w) ==
  \/ pc[w] \in {"spin", "checking", "taking"}
  \/ pc[w] = "asleep" /\ w \notin waiting

\* Work left to take while a worker sleeps has been announced: some worker
\* is on its way to take it, and the spinning ones can see it.
NoLostWork ==
  Unlocked /\ ~stopped /\ Takeable(ready, free, offers) =>
    /\ waiting # {} => \E w \in Workers : Looking(w)
    /\ mirror = Published(ready, free, offers, remaining)

\* What the scheduler hands out: each node once, after its children; helpers
\* within the share of the node they help; and no work left without a worker
\* on its way to it (top_scheduler.cpp).
DispatchSound == HelpersWithinShare /\ Topological /\ NoLostWork

\* After the store of stopped_, only the worker already past its load of it
\* can be handed a node: one at most.
AtMostOneLate == late <= 1

\* work() returns on every thread, on success and after a stop.
AllReturn == <>(\A w \in Workers : pc[w] = "returned")

=============================================================================
