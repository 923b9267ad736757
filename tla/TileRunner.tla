----------------------------- MODULE TileRunner -----------------------------
(***************************************************************************)
(* TileRunner (solver/src/parallel/tile_tasks.{hpp,cpp}): one caller and   *)
(* recruited helpers run the two graphs of a tiled front one after the     *)
(* other, over one monitor (mtx_, cv_). The pool that lends helpers is     *)
(* reduced to the places it offers (TopScheduler models it).               *)
(*                                                                         *)
(* work() holds the lock from the end of one task to the choice of the     *)
(* next: mtx names the holder between those two steps.                     *)
(***************************************************************************)
EXTENDS AptpTiles, FiniteSets

CONSTANTS
  Caller, Helpers,   (* the calling thread and the threads it can recruit   *)
  NoThread

Threads == {Caller} \cup Helpers

ASSUME ThreadsAssumption ==
  IsFiniteSet(Helpers) /\ Caller \notin Helpers /\ NoThread \notin Threads

\* nthreads of the job: the caller and one thread per offered place.
nthreads == Cardinality(Threads)

VARIABLES
  graph,     (* the graph of the current run(), 0 before the first           *)
  own,       (* whether run() starts threads of its own (helpers == nullptr) *)
  pending,   (* unfinished predecessors of each task                         *)
  hi,        (* urgent ready tasks, LIFO                                     *)
  lo,        (* other ready tasks, FIFO                                      *)
  done,      (* tasks finished                                               *)
  helpers,   (* helpers_: recruited threads not yet out of help()            *)
  slots,     (* places on offer in the pool                                  *)
  mtx,       (* the thread holding the lock between two steps                *)
  waiting,   (* threads in cv_.wait that no notify has reached               *)
  pc,        (* where each thread is                                         *)
  task,      (* the task each thread executes                                *)
  finished   (* history: the tasks of this graph that finished               *)

queue == <<pending, hi, lo, done, finished>>
run   == <<graph, own, slots, helpers>>
vars  == <<queue, run, mtx, waiting, pc, task>>

NoTask == -1

Unlocked   == mtx = NoThread
Goto(t, l) == pc' = [pc EXCEPT ![t] = l]
HasReady   == hi # <<>> \/ lo # <<>>
Total      == Cardinality(Tasks(graph))

\* The elements of a sequence in a set, in their order: SelectSeq by a
\* function of the prefix, which a proof can open.
Chosen(seq, S) ==
  LET pick[n \in 0..Len(seq)] == IF n = 0 THEN <<>>
                                 ELSE IF seq[n] \in S THEN Append(pick[n - 1], seq[n])
                                 ELSE pick[n - 1]
  IN  pick[Len(seq)]

-----------------------------------------------------------------------------
Init ==
  /\ graph = 0
  /\ own \in BOOLEAN
  /\ pending = <<>>
  /\ hi = <<>> /\ lo = <<>>
  /\ done = 0
  /\ helpers = 0
  /\ slots = 0
  /\ mtx = NoThread
  /\ waiting = {}
  /\ pc = [t \in Threads |-> IF t = Caller THEN "between" ELSE "idle"]
  /\ task = [t \in Threads |-> NoTask]
  /\ finished = {}

\* run(): the queues are set and helpers recruited: places offered to the
\* pool, or threads started.
Start ==
  /\ pc[Caller] = "between"
  /\ graph < 2 /\ Tasks(graph + 1) # {}
  /\ LET g == graph + 1
     IN /\ graph' = g
        /\ pending' = Pending(g)
        /\ hi' = Chosen(Roots(g), UrgentTasks[g])
        /\ lo' = Chosen(Roots(g), OtherTasks[g])
  /\ done' = 0
  /\ finished' = {}
  /\ IF own
     THEN /\ helpers' = nthreads - 1
          /\ slots' = 0
          /\ pc' = [t \in Threads |-> "enter"]
     ELSE /\ slots' = nthreads - 1
          /\ Goto(Caller, "enter")
          /\ UNCHANGED helpers
  /\ UNCHANGED <<own, mtx, waiting, task>>

\* The pool hands a place to an idle thread: add_helper(), then help().
AddHelper(h) ==
  /\ pc[h] = "idle" /\ slots > 0
  /\ Unlocked
  /\ slots' = slots - 1
  /\ helpers' = helpers + 1
  /\ Goto(h, "enter")
  /\ UNCHANGED <<queue, graph, own, mtx, waiting, task>>

-----------------------------------------------------------------------------
(* work()                                                                  *)

\* The lock is taken on entry, or again after a notify.
Lock(t) ==
  /\ pc[t] = "enter" \/ (pc[t] = "asleep" /\ t \notin waiting)
  /\ Unlocked
  /\ mtx' = t
  /\ Goto(t, "choosing")
  /\ UNCHANGED <<queue, run, waiting, task>>

Wait(t) ==
  /\ pc[t] = "choosing"
  /\ ~HasReady /\ done # Total
  /\ waiting' = waiting \cup {t}
  /\ mtx' = NoThread
  /\ Goto(t, "asleep")
  /\ UNCHANGED <<queue, run, task>>

\* All done: the caller goes on in run(), a helper in help().
Leave(t) ==
  /\ pc[t] = "choosing"
  /\ ~HasReady /\ done = Total
  /\ mtx' = NoThread
  /\ Goto(t, IF t = Caller THEN "withdrawing" ELSE "leaving")
  /\ UNCHANGED <<queue, run, waiting, task>>

Take(t) ==
  /\ pc[t] = "choosing"
  /\ \/ /\ hi # <<>>
        /\ task' = [task EXCEPT ![t] = Last(hi)]
        /\ hi' = Front(hi)
        /\ UNCHANGED lo
     \/ /\ hi = <<>> /\ lo # <<>>
        /\ task' = [task EXCEPT ![t] = Head(lo)]
        /\ lo' = Tail(lo)
        /\ UNCHANGED hi
  /\ mtx' = NoThread
  /\ Goto(t, "executing")
  /\ UNCHANGED <<pending, done, finished, run, waiting>>

\* Mutant: only three new tasks or more wake the others.
WorthWakingMut(pushed) == pushed > 2

\* The thread takes one of the tasks it pushed itself.
WorthWaking(pushed) == pushed > 1

\* execute() returned: release the successors, count the task, notify.
Finish(t) ==
  /\ pc[t] = "executing"
  /\ Unlocked
  /\ LET succ  == SuccessorsOf[graph][task[t]]
         left  == [s \in DOMAIN pending |-> IF s \in ToSet(succ) THEN pending[s] - 1
                                            ELSE pending[s]]
         ready == Chosen(succ, {s \in DOMAIN pending : left[s] = 0})
     IN /\ pending' = left
        /\ hi' = hi \o Chosen(ready, UrgentTasks[graph])
        /\ lo' = lo \o Chosen(ready, OtherTasks[graph])
        /\ waiting' = IF done + 1 = Total \/ WorthWaking(Len(ready)) THEN {} ELSE waiting
  /\ done' = done + 1
  /\ finished' = finished \cup {task[t]}
  /\ task' = [task EXCEPT ![t] = NoTask]
  /\ mtx' = t
  /\ Goto(t, "choosing")
  /\ UNCHANGED run

-----------------------------------------------------------------------------
(* The end of help() and of run()                                          *)

\* Mutant: a helper leaves without telling the caller.
LeaveNotifyMut == UNCHANGED waiting
LeaveNotify    == waiting' = {}

HelpEnd(h) ==
  /\ pc[h] = "leaving"
  /\ Unlocked
  /\ helpers' = helpers - 1
  /\ LeaveNotify
  /\ Goto(h, "idle")
  /\ UNCHANGED <<queue, graph, own, slots, mtx, task>>

\* withdraw() removes the places left; with threads of its own, nothing to do.
Withdraw ==
  /\ pc[Caller] = "withdrawing"
  /\ slots' = 0
  /\ Goto(Caller, "joining")
  /\ UNCHANGED <<queue, graph, own, helpers, mtx, waiting, task>>

Alone == helpers = 0

\* cv_.wait(helpers_ == 0), after joining the threads of its own.
Joining == pc[Caller] = "joining" \/ (pc[Caller] = "joinwait" /\ Caller \notin waiting)

JoinWait ==
  /\ Joining
  /\ Unlocked /\ ~Alone
  /\ waiting' = waiting \cup {Caller}
  /\ Goto(Caller, "joinwait")
  /\ UNCHANGED <<queue, run, mtx, task>>

Join ==
  /\ Joining
  /\ Unlocked /\ Alone
  /\ Goto(Caller, "between")
  /\ UNCHANGED <<queue, run, mtx, waiting, task>>

\* The front is done: the trailing graph has run, or there is none to run
\* (no other rows, or no pivot was eliminated).
FrontDone ==
  /\ pc[Caller] = "between"
  /\ graph > 0
  /\ Goto(Caller, "ended")
  /\ UNCHANGED <<queue, run, mtx, waiting, task>>

Finished == pc[Caller] = "ended" /\ UNCHANGED vars

-----------------------------------------------------------------------------
Work(t) == Lock(t) \/ Wait(t) \/ Leave(t) \/ Take(t) \/ Finish(t)

Next ==
  \/ Start \/ Withdraw \/ JoinWait \/ Join \/ FrontDone \/ Finished
  \/ \E t \in Threads : Work(t)
  \/ \E h \in Helpers : AddHelper(h) \/ HelpEnd(h)

Spec == Init /\ [][Next]_vars

\* Each thread inside a job makes its next step eventually. An idle thread
\* need not join (AddHelper), and the caller finishes without it.
FairSpec ==
  /\ Spec
  /\ WF_vars(Start) /\ WF_vars(Withdraw) /\ WF_vars(JoinWait \/ Join) /\ WF_vars(FrontDone)
  /\ \A t \in Threads : WF_vars(Work(t))
  /\ \A h \in Helpers : WF_vars(HelpEnd(h))

-----------------------------------------------------------------------------
(* Properties                                                              *)

Executing == {t \in Threads : pc[t] = "executing"}

\* Every variable has its type; the queues fit in their room.
TypeOK ==
  /\ graph \in 0..2 /\ own \in BOOLEAN
  /\ graph > 0 => /\ DOMAIN pending = Tasks(graph)
                  /\ \A t \in Tasks(graph) : pending[t] \in Nat
                  /\ ToSet(hi) \cup ToSet(lo) \cup finished \subseteq Tasks(graph)
                  /\ done \in 0..Total
  /\ helpers \in Nat /\ slots \in Nat
  /\ mtx \in Threads \cup {NoThread}
  /\ waiting \subseteq Threads
  /\ pc \in [Threads -> {"between", "idle", "enter", "choosing", "asleep", "executing",
                         "leaving", "withdrawing", "joining", "joinwait", "ended"}]

\* tile_tasks.hpp:31: the result does not depend on the schedule nor on the
\* thread count. When a task executes, every conflicting task (shared tile or
\* scratch, one of the two writing) that the serial sweep does before it has
\* finished, and every one it does after has not begun; a run that ends has
\* executed all its tasks.
SerialEquivalent ==
  /\ pc[Caller] \in {"between", "joining", "joinwait", "ended"} /\ graph > 0 => finished = Tasks(graph)
  /\ \A t \in Executing :
       /\ task[t] \notin finished
       /\ \A s \in Conflicts[graph][task[t]] :
            IF PlaceOf[graph][s] < PlaceOf[graph][task[t]] THEN s \in finished
            ELSE s \notin finished /\ \A u \in Executing : task[u] # s

\* tile_tasks.cpp:99: a thread sleeps only while no task is ready (the one
\* that pushed a single task takes it itself; more wake the others).
NoSleepingOverWork == Unlocked /\ waiting \cap Threads # {} => ~HasReady

\* tile_tasks.hpp:73: after withdraw() no thread joins, and when run() ends
\* no helper is left in the job, whose runner and graph are locals of the
\* front's factorization. Helpers never outnumber the places offered.
NoStrayHelper ==
  /\ pc[Caller] \in {"between", "ended"} => \A h \in Helpers : pc[h] = "idle"
  /\ Joining => slots = 0
  /\ helpers = Cardinality({h \in Helpers : pc[h] # "idle"})
  /\ helpers + slots <= nthreads - 1

\* tile_tasks.cpp:269: the ready queues' room counts the graph's tasks.
QueuesFit ==
  /\ graph > 0 => Total = IF graph = 1 THEN MainRoom ELSE TrailRoom
  /\ Len(hi) + Len(lo) <= Total

\* Threads that sleep, help or withdraw do so only when they may: no sleeper
\* beside ready work, no helper outside its job, no queue past its room
\* (tile_tasks.cpp).
HelpersSound == NoSleepingOverWork /\ NoStrayHelper /\ QueuesFit

\* The front ends, whoever joins.
FrontEnds == <>(pc[Caller] = "ended")

=============================================================================
