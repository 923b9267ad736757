----------------------------- MODULE SolvePool -----------------------------
(***************************************************************************)
(* The persistent worker threads of a parallel solve (solve_pool.hpp,      *)
(* solve_pool.cpp).  The caller is thread 0: run() publishes a job under   *)
(* the mutex with a new generation, executes its own share, then spins and *)
(* at last sleeps until every worker has finished its share.  A worker     *)
(* spins and then sleeps until the generation it has seen is stale.        *)
(*                                                                         *)
(* What a share does belongs to the job: a module that EXTENDS this one    *)
(* moves share[t] from "run" to "over".                                    *)
(***************************************************************************)
EXTENDS Integers, FiniteSets

CONSTANTS
  Workers,   \* tids of the pool's threads, 1 .. size() - 1
  NoOne      \* the mutex is free

Threads == {0} \cup Workers

ASSUME WorkersAssumption == IsFiniteSet(Workers) /\ Workers = 1 .. Cardinality(Workers)

VARIABLES
  generation, \* generation_
  pending,    \* pending_
  stop,       \* stop_
  mtx,        \* the holder of mtx_
  wpc,        \* where each worker is
  seen,       \* each worker's `seen`
  cpc,        \* where the caller is in run() or the destructor
  share       \* each thread's share of the current job

poolVars == <<generation, pending, stop, mtx, wpc, seen, cpc, share>>

PoolInit ==
  /\ generation = 0 /\ pending = 0 /\ stop = FALSE /\ mtx = NoOne
  /\ wpc = [w \in Workers |-> "spin"] /\ seen = [w \in Workers |-> 0]
  /\ cpc = "out" /\ share = [t \in Threads |-> "none"]

\* notify_all: the sleeping workers go back for the mutex.
Woken == [w \in Workers |-> IF wpc[w] = "asleep" THEN "lock" ELSE wpc[w]]

-----------------------------------------------------------------------------
(* The caller                                                              *)

\* Mutant: pending_ is left as the last job ended it.
WorkersPendingMut == pending

WorkersPending == Cardinality(Workers)

\* run(): the job, pending_ and generation_ change together under the mutex.
Publish ==
  /\ cpc = "out" /\ mtx = NoOne /\ Workers # {}
  /\ pending' = WorkersPending
  /\ generation' = generation + 1
  /\ wpc' = Woken
  /\ share' = [share EXCEPT ![0] = "run"]
  /\ cpc' = "share"
  /\ UNCHANGED <<stop, mtx, seen>>

CallerShareOver ==
  /\ cpc = "share" /\ share[0] = "over"
  /\ share' = [share EXCEPT ![0] = "none"]
  /\ cpc' = "spin"
  /\ UNCHANGED <<generation, pending, stop, mtx, wpc, seen>>

\* spin_until: every share is over, or kSpin has elapsed.
CallerSpin ==
  /\ cpc = "spin"
  /\ cpc' = IF pending = 0 THEN "out" ELSE "lock"
  /\ UNCHANGED <<generation, pending, stop, mtx, wpc, seen, share>>

\* done_.wait: the predicate is read under the mutex, which is given up
\* only when the caller is asleep.
CallerCheck ==
  /\ cpc = "lock" /\ mtx = NoOne
  /\ IF pending = 0
     THEN cpc' = "out" /\ UNCHANGED mtx
     ELSE cpc' = "block" /\ mtx' = 0
  /\ UNCHANGED <<generation, pending, stop, wpc, seen, share>>

CallerSleep ==
  /\ cpc = "block"
  /\ cpc' = "asleep" /\ mtx' = NoOne
  /\ UNCHANGED <<generation, pending, stop, wpc, seen, share>>

\* ~SolvePool: a generation of its own makes the workers look at stop_.
Destroy ==
  /\ cpc = "out" /\ mtx = NoOne
  /\ stop' = TRUE
  /\ generation' = generation + 1
  /\ wpc' = Woken
  /\ cpc' = "join"
  /\ UNCHANGED <<pending, mtx, seen, share>>

Join ==
  /\ cpc = "join" /\ \A w \in Workers : wpc[w] = "gone"
  /\ cpc' = "destroyed"
  /\ UNCHANGED <<generation, pending, stop, mtx, wpc, seen, share>>

-----------------------------------------------------------------------------
(* A worker                                                                *)

\* The spin ends with a new generation, or without one.
Spin(w) ==
  /\ wpc[w] = "spin"
  /\ wpc' = [wpc EXCEPT ![w] = IF generation # seen[w] THEN "take" ELSE "lock"]
  /\ UNCHANGED <<generation, pending, stop, mtx, seen, cpc, share>>

Wait(w) ==
  /\ wpc[w] = "lock" /\ mtx = NoOne
  /\ wpc' = [wpc EXCEPT ![w] = IF generation # seen[w] THEN "take" ELSE "asleep"]
  /\ UNCHANGED <<generation, pending, stop, mtx, seen, cpc, share>>

\* Under the mutex: leave, or note the generation and take its job.
Take(w) ==
  /\ wpc[w] = "take" /\ mtx = NoOne
  /\ IF stop
     THEN /\ wpc' = [wpc EXCEPT ![w] = "gone"]
          /\ UNCHANGED <<seen, share>>
     ELSE /\ wpc' = [wpc EXCEPT ![w] = "share"]
          /\ seen' = [seen EXCEPT ![w] = generation]
          /\ share' = [share EXCEPT ![w] = "run"]
  /\ UNCHANGED <<generation, pending, stop, mtx, cpc>>

\* finish(): the worker that brings pending_ to zero notifies the caller.
Finish(w) ==
  /\ wpc[w] = "share" /\ share[w] = "over"
  /\ share' = [share EXCEPT ![w] = "none"]
  /\ pending' = pending - 1
  /\ wpc' = [wpc EXCEPT ![w] = IF pending = 1 THEN "notify" ELSE "spin"]
  /\ UNCHANGED <<generation, stop, mtx, seen, cpc>>

\* Mutant: notify_one without the mutex.
MayNotifyMut == TRUE

MayNotify == mtx = NoOne

Notify(w) ==
  /\ wpc[w] = "notify" /\ MayNotify
  /\ cpc' = IF cpc = "asleep" THEN "lock" ELSE cpc
  /\ wpc' = [wpc EXCEPT ![w] = "spin"]
  /\ UNCHANGED <<generation, pending, stop, mtx, seen, share>>

WorkerStep(w) == Spin(w) \/ Wait(w) \/ Take(w) \/ Finish(w) \/ Notify(w)

\* run() after the job is published.
CallerStep == CallerShareOver \/ CallerSpin \/ CallerCheck \/ CallerSleep

=============================================================================
