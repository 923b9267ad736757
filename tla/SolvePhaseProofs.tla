-------------------------- MODULE SolvePhaseProofs --------------------------
(***************************************************************************)
(* Proofs about SolvePhase, for every number of pool threads, every tree   *)
(* and every set of callers: a job of the pool outlives all its users, the *)
(* parallel triangular solves compute what the serial ones do, a full      *)
(* solve through a slack factor is honest, and for every budget and number *)
(* of columns, so is a refinement.                                         *)
(***************************************************************************)
EXTENDS SolvePhase, FiniteSetTheorems, SequenceTheorems, WellFoundedInduction, TLAPS

WorkerPlaces == {"spin", "lock", "asleep", "take", "share", "notify", "gone"}
CallerPlaces == {"out", "share", "spin", "lock", "block", "asleep", "join", "destroyed"}
SharePlaces  == {"none", "run", "over"}
StepPlaces   == {"none", "claim", "sum", "poll", "empty", "pop", "front", "write", "processed"}

\* The workers that have not finished the job of the current generation:
\* those in its share, and those that have not seen it.
Unfinished == {w \in Workers : wpc[w] = "share" \/ seen[w] # generation}

PoolTypes ==
  /\ generation \in Nat /\ pending \in Nat /\ stop \in BOOLEAN
  /\ wpc \in [Workers -> WorkerPlaces] /\ seen \in [Workers -> Nat]
  /\ cpc \in CallerPlaces /\ share \in [Threads -> SharePlaces]

\* What each place implies of the generation and of the share.
PoolPlaces ==
  /\ \A w \in Workers : wpc[w] = "share" => seen[w] = generation
  /\ \A w \in Workers : wpc[w] = "take" => seen[w] # generation
  /\ \A w \in Workers : share[w] # "none" <=> wpc[w] = "share"
  /\ share[0] # "none" <=> cpc = "share"

\* pending_ counts the unfinished workers until the pool is stopped, which
\* happens between two jobs.
PoolCounts ==
  /\ ~stop => pending = Cardinality(Unfinished)
  /\ cpc \in {"out", "join", "destroyed"} => pending = 0
  /\ stop => cpc \in {"join", "destroyed"} /\ \A w \in Workers : wpc[w] # "share"

PoolInv == PoolTypes /\ PoolPlaces /\ PoolCounts

\* A thread is in the middle of its share only while that share runs.
SharesRun == tpc \in [Threads -> StepPlaces] /\ \A t \in Threads : tpc[t] # "none" => share[t] = "run"

IInv == PoolInv /\ SharesRun

-----------------------------------------------------------------------------

LEMMA ZeroIsCaller == 0 \in Threads /\ 0 \notin Workers /\ Workers \subseteq Threads
<1>1. 0 \notin 1 .. Cardinality(Workers)
  OBVIOUS
<1>2. 0 \notin Workers
  BY <1>1, WorkersAssumption, Zenon
<1>3. QED
  BY <1>2 DEF Threads

LEMMA UnfinishedFinite ==
  /\ IsFiniteSet(Unfinished) /\ Cardinality(Unfinished) \in Nat
  /\ IsFiniteSet(Workers) /\ Cardinality(Workers) \in Nat
<1>1. Unfinished \in SUBSET Workers
  BY DEF Unfinished
<1>2. QED
  BY <1>1, WorkersAssumption, FS_Subset, FS_CardinalityType

\* At the end of a job, and before one, nobody is unfinished: this is what
\* pending_ = 0 tells the caller.
LEMMA ZeroMeansNone ==
  ASSUME PoolInv, ~stop, pending = 0
  PROVE  \A w \in Workers : wpc[w] # "share" /\ seen[w] = generation /\ share[w] = "none"
<1>1. Unfinished = {}
  BY UnfinishedFinite, FS_EmptySet DEF PoolInv, PoolCounts
<1>2. QED
  BY <1>1 DEF Unfinished, PoolInv, PoolPlaces

LEMMA OutIsRunning ==
  ASSUME PoolInv, cpc = "out"
  PROVE  ~stop /\ pending = 0
BY DEF PoolInv, PoolCounts

\* A new generation is unseen by every worker, and woken workers are in no
\* share.
LEMMA PublishPool ==
  ASSUME PoolInv, Publish
  PROVE  PoolInv'
<1>1. \A w \in Workers : wpc[w] # "share" /\ seen[w] = generation /\ share[w] = "none"
  BY OutIsRunning, ZeroMeansNone DEF Publish
<1>2. PoolTypes'
  <2>1. Woken \in [Workers -> WorkerPlaces]
    BY DEF Woken, PoolInv, PoolTypes, WorkerPlaces
  <2>2. generation' \in Nat /\ pending' \in Nat
    BY UnfinishedFinite DEF Publish, PoolInv, PoolTypes, WorkersPending
  <2>3. share' \in [Threads -> SharePlaces]
    BY DEF Publish, PoolInv, PoolTypes, SharePlaces
  <2>4. QED
    BY <2>1, <2>2, <2>3 DEF Publish, PoolInv, PoolTypes, CallerPlaces
<1>3. \A w \in Workers : wpc'[w] # "share" /\ seen'[w] # generation'
  BY <1>1 DEF Publish, Woken, PoolInv, PoolTypes
<1>4. PoolPlaces'
  <2>1. share' = [share EXCEPT ![0] = "run"] /\ cpc' = "share"
    BY DEF Publish
  <2>2. share'[0] = "run" /\ \A w \in Workers : share'[w] = share[w]
    BY <2>1, ZeroIsCaller DEF PoolInv, PoolTypes
  <2>3. QED
    BY <1>1, <1>3, <2>1, <2>2 DEF PoolPlaces
<1>5. Unfinished' = Workers
  BY <1>3 DEF Unfinished
<1>6. PoolCounts'
  BY <1>5, OutIsRunning DEF PoolCounts, Publish, WorkersPending
<1>7. QED
  BY <1>2, <1>4, <1>6 DEF PoolInv

LEMMA DestroyPool ==
  ASSUME PoolInv, Destroy
  PROVE  PoolInv'
<1>1. \A w \in Workers : wpc[w] # "share" /\ seen[w] = generation /\ share[w] = "none"
  BY OutIsRunning, ZeroMeansNone DEF Destroy
<1>2. PoolTypes'
  <2>1. Woken \in [Workers -> WorkerPlaces]
    BY DEF Woken, PoolInv, PoolTypes, WorkerPlaces
  <2>2. QED
    BY <2>1 DEF Destroy, PoolInv, PoolTypes, CallerPlaces
<1>3. \A w \in Workers : wpc'[w] # "share" /\ seen'[w] # generation'
  BY <1>1 DEF Destroy, Woken, PoolInv, PoolTypes
<1>4. PoolPlaces'
  BY <1>1, <1>3, ZeroIsCaller DEF PoolPlaces, Destroy, PoolInv
<1>5. PoolCounts'
  BY <1>3, OutIsRunning DEF PoolCounts, Destroy
<1>6. QED
  BY <1>2, <1>4, <1>5 DEF PoolInv

\* The rest of run() and of the destructor touches no worker.
LEMMA CallerPool ==
  ASSUME PoolInv, CallerStep \/ Join
  PROVE  PoolInv'
<1>1. UNCHANGED <<generation, pending, stop, wpc, seen>>
  BY DEF CallerStep, CallerShareOver, CallerSpin, CallerCheck, CallerSleep, Join
<1>2. Unfinished' = Unfinished
  BY <1>1 DEF Unfinished
<1>3. CASE CallerShareOver
  <2>1. share'[0] = "none" /\ \A w \in Workers : share'[w] = share[w]
    BY <1>3, ZeroIsCaller DEF CallerShareOver, PoolInv, PoolTypes
  <2>2. PoolTypes'
    BY <1>1, <1>3 DEF CallerShareOver, PoolInv, PoolTypes, SharePlaces, CallerPlaces
  <2>3. PoolPlaces' /\ PoolCounts'
    BY <1>1, <1>2, <1>3, <2>1 DEF CallerShareOver, PoolInv, PoolPlaces, PoolCounts
  <2>4. QED
    BY <2>2, <2>3 DEF PoolInv
<1>4. CASE CallerSpin \/ CallerCheck \/ CallerSleep \/ Join
  <2>1. share' = share /\ cpc # "share" /\ cpc' # "share" /\ cpc' \in CallerPlaces
    BY <1>4 DEF CallerSpin, CallerCheck, CallerSleep, Join, CallerPlaces
  <2>2. /\ cpc' \in {"out", "join", "destroyed"} => pending = 0
        /\ stop => cpc' \in {"join", "destroyed"}
    BY <1>4 DEF CallerSpin, CallerCheck, CallerSleep, Join, PoolInv, PoolCounts
  <2>3. PoolTypes' /\ PoolPlaces' /\ PoolCounts'
    BY <1>1, <1>2, <2>1, <2>2 DEF PoolInv, PoolTypes, PoolPlaces, PoolCounts
  <2>4. QED
    BY <2>3 DEF PoolInv
<1>5. QED
  BY <1>3, <1>4 DEF CallerStep

\* A worker leaves the unfinished ones only by finish(), which counts it.
LEMMA WorkerPool ==
  ASSUME PoolInv, NEW w \in Workers, WorkerStep(w)
  PROVE  PoolInv'
<1>1. w \in Threads /\ w # 0
  BY ZeroIsCaller
<1>2. CASE Spin(w) \/ Wait(w) \/ Notify(w)
  <2>1. UNCHANGED <<generation, pending, stop, seen, share>>
    BY <1>2 DEF Spin, Wait, Notify
  <2>2. PICK p \in {"take", "lock", "asleep", "spin"} :
          /\ wpc' = [wpc EXCEPT ![w] = p] /\ wpc[w] # "share"
          /\ p = "take" => seen[w] # generation
    BY <1>2 DEF Spin, Wait, Notify
  <2>3. /\ cpc' \in CallerPlaces /\ (cpc' = "share" <=> cpc = "share")
        /\ (cpc' \in {"out", "join", "destroyed"} <=> cpc \in {"out", "join", "destroyed"})
        /\ (cpc' \in {"join", "destroyed"} <=> cpc \in {"join", "destroyed"})
    BY <1>2 DEF Spin, Wait, Notify, PoolInv, PoolTypes, CallerPlaces
  <2>4. wpc' \in [Workers -> WorkerPlaces] /\ wpc'[w] = p
        /\ \A v \in Workers \ {w} : wpc'[v] = wpc[v]
    BY <2>2 DEF PoolInv, PoolTypes, WorkerPlaces
  <2>5. Unfinished' = Unfinished
    BY <2>1, <2>2, <2>4 DEF Unfinished
  <2>6. PoolTypes'
    BY <2>1, <2>3, <2>4 DEF PoolInv, PoolTypes
  <2>7. PoolPlaces' /\ PoolCounts'
    BY <2>1, <2>2, <2>3, <2>4, <2>5 DEF PoolInv, PoolPlaces, PoolCounts
  <2>8. QED
    BY <2>6, <2>7 DEF PoolInv
<1>3. CASE Take(w) /\ stop
  <2>1. UNCHANGED <<generation, pending, stop, seen, share, cpc>>
        /\ wpc' = [wpc EXCEPT ![w] = "gone"] /\ wpc[w] = "take"
    BY <1>3 DEF Take
  <2>2. wpc' \in [Workers -> WorkerPlaces] /\ wpc'[w] = "gone"
        /\ \A v \in Workers \ {w} : wpc'[v] = wpc[v]
    BY <2>1 DEF PoolInv, PoolTypes, WorkerPlaces
  <2>3. PoolTypes' /\ PoolPlaces' /\ PoolCounts'
    BY <1>3, <2>1, <2>2 DEF PoolInv, PoolTypes, PoolPlaces, PoolCounts
  <2>4. QED
    BY <2>3 DEF PoolInv
<1>4. CASE Take(w) /\ ~stop
  <2>1. /\ UNCHANGED <<generation, pending, stop, cpc>>
        /\ wpc' = [wpc EXCEPT ![w] = "share"] /\ wpc[w] = "take"
        /\ seen' = [seen EXCEPT ![w] = generation]
        /\ share' = [share EXCEPT ![w] = "run"]
    BY <1>4 DEF Take
  <2>2. /\ wpc' \in [Workers -> WorkerPlaces] /\ wpc'[w] = "share"
        /\ seen' \in [Workers -> Nat] /\ seen'[w] = generation
        /\ \A v \in Workers \ {w} : wpc'[v] = wpc[v] /\ seen'[v] = seen[v]
    BY <2>1 DEF PoolInv, PoolTypes, WorkerPlaces
  <2>3. /\ share' \in [Threads -> SharePlaces] /\ share'[w] = "run"
        /\ \A t \in Threads \ {w} : share'[t] = share[t]
    BY <1>1, <2>1 DEF PoolInv, PoolTypes, SharePlaces
  <2>4. seen[w] # generation
    BY <2>1 DEF PoolInv, PoolPlaces
  <2>5. Unfinished' = Unfinished
    BY <2>1, <2>2, <2>4 DEF Unfinished
  <2>6. PoolTypes'
    BY <2>1, <2>2, <2>3 DEF PoolInv, PoolTypes
  <2>7. PoolPlaces'
    BY <1>1, <2>1, <2>2, <2>3, ZeroIsCaller DEF PoolInv, PoolPlaces
  <2>8. PoolCounts'
    BY <1>4, <2>1, <2>5 DEF PoolInv, PoolCounts
  <2>9. QED
    BY <2>6, <2>7, <2>8 DEF PoolInv
<1>5. CASE Finish(w)
  <2>1. /\ UNCHANGED <<generation, stop, seen, cpc>> /\ wpc[w] = "share"
        /\ share' = [share EXCEPT ![w] = "none"] /\ pending' = pending - 1
    BY <1>5 DEF Finish
  <2>2. PICK p \in {"notify", "spin"} : wpc' = [wpc EXCEPT ![w] = p]
    BY <1>5 DEF Finish
  <2>3. /\ wpc' \in [Workers -> WorkerPlaces] /\ wpc'[w] = p
        /\ \A v \in Workers \ {w} : wpc'[v] = wpc[v]
    BY <2>2 DEF PoolInv, PoolTypes, WorkerPlaces
  <2>4. /\ share' \in [Threads -> SharePlaces] /\ share'[w] = "none"
        /\ \A t \in Threads \ {w} : share'[t] = share[t]
    BY <1>1, <2>1 DEF PoolInv, PoolTypes, SharePlaces
  <2>5. ~stop /\ w \in Unfinished /\ seen[w] = generation
    BY <2>1 DEF PoolInv, PoolPlaces, PoolCounts, Unfinished
  <2>6. Unfinished' = Unfinished \ {w}
    BY <2>1, <2>3, <2>5 DEF Unfinished
  <2>7. Cardinality(Unfinished') = Cardinality(Unfinished) - 1
    BY <2>5, <2>6, UnfinishedFinite, FS_RemoveElement
  <2>8. Cardinality(Unfinished) # 0
    BY <2>5, UnfinishedFinite, FS_EmptySet
  <2>9. pending = Cardinality(Unfinished) /\ pending' \in Nat /\ pending # 0
    BY <2>1, <2>5, <2>8, UnfinishedFinite DEF PoolInv, PoolCounts
  <2>10. PoolTypes'
    BY <2>1, <2>3, <2>4, <2>9 DEF PoolInv, PoolTypes
  <2>11. PoolPlaces'
    BY <1>1, <2>1, <2>3, <2>4, ZeroIsCaller DEF PoolInv, PoolPlaces
  <2>12. PoolCounts'
    BY <2>1, <2>5, <2>7, <2>9 DEF PoolInv, PoolCounts
  <2>13. QED
    BY <2>10, <2>11, <2>12 DEF PoolInv
<1>6. QED
  BY <1>2, <1>3, <1>4, <1>5 DEF WorkerStep

-----------------------------------------------------------------------------
(* The shares                                                              *)

\* The only step of a share that touches the pool is its end.
LEMMA ShareSteps ==
  ASSUME IInv, NEW t \in Threads, ShareStep(t)
  PROVE  IInv'
<1>1. PICK p \in StepPlaces : tpc' = [tpc EXCEPT ![t] = p]
  BY DEF ShareStep, Begin, Claim, Sum, Poll, Empty, Pop, Processed, Read, Write, StepPlaces
<1>2. share[t] = "run"
  BY DEF ShareStep, Begin, Claim, Sum, Poll, Empty, Pop, Processed, Read, Write, IInv, SharesRun
<1>3. /\ tpc' \in [Threads -> StepPlaces] /\ tpc'[t] = p
      /\ \A u \in Threads \ {t} : tpc'[u] = tpc[u]
  BY <1>1 DEF IInv, SharesRun
<1>4. CASE UNCHANGED poolVars
  <2>1. PoolInv'
    BY <1>4 DEF IInv, PoolInv, PoolTypes, PoolPlaces, PoolCounts, Unfinished, poolVars
  <2>2. SharesRun'
    BY <1>2, <1>3, <1>4 DEF IInv, SharesRun, poolVars
  <2>3. QED
    BY <2>1, <2>2 DEF IInv
<1>5. CASE Over(t) /\ p = "none"
  <2>1. /\ share' \in [Threads -> SharePlaces] /\ share'[t] = "over"
        /\ \A u \in Threads \ {t} : share'[u] = share[u]
    BY <1>5 DEF Over, IInv, PoolInv, PoolTypes, SharePlaces
  <2>2. UNCHANGED <<generation, pending, stop, wpc, seen, cpc>>
    BY <1>5 DEF Over
  <2>3. \A u \in Threads : share'[u] # "none" <=> share[u] # "none"
    BY <1>2, <2>1
  <2>4. PoolTypes' /\ PoolPlaces' /\ PoolCounts'
    BY <2>1, <2>2, <2>3, ZeroIsCaller
    DEF IInv, PoolInv, PoolTypes, PoolPlaces, PoolCounts, Unfinished
  <2>5. SharesRun'
    BY <1>3, <1>5, <2>1 DEF IInv, SharesRun
  <2>6. QED
    BY <2>4, <2>5 DEF IInv, PoolInv
<1>6. UNCHANGED poolVars \/ (Over(t) /\ p = "none")
  <2>1. CASE Claim(t)
    BY <1>3, <2>1 DEF Claim, IInv, SharesRun
  <2>2. CASE Sum(t)
    BY <1>3, <2>2 DEF Sum, IInv, SharesRun
  <2>3. CASE Empty(t)
    BY <1>3, <2>3 DEF Empty, IInv, SharesRun
  <2>4. CASE Begin(t) \/ Poll(t) \/ Pop(t) \/ Processed(t) \/ Read(t) \/ Write(t)
    BY <2>4 DEF Begin, Poll, Pop, Processed, Read, Write
  <2>5. QED
    BY <2>1, <2>2, <2>3, <2>4 DEF ShareStep
<1>7. QED
  BY <1>4, <1>5, <1>6

\* A step of the pool that lets no share begin to run, or end, in the middle.
LEMMA PoolKeepsShares ==
  ASSUME IInv, PoolInv', UNCHANGED tpc,
         \A t \in Threads : share'[t] = share[t] \/ share'[t] = "run" \/ share[t] = "over"
  PROVE  IInv'
BY DEF IInv, SharesRun

LEMMA CallerSteps ==
  ASSUME IInv, Start \/ End \/ Return \/ CallerWaits
  PROVE  IInv'
<1>1. CASE Start
  <2>1. Publish /\ UNCHANGED tpc
    BY <1>1 DEF Start
  <2>2. \A t \in Threads : share'[t] = share[t] \/ share'[t] = "run"
    BY <2>1 DEF Publish, IInv, PoolInv, PoolTypes
  <2>3. QED
    BY <2>1, <2>2, PublishPool, PoolKeepsShares DEF IInv
<1>2. CASE End /\ Destroy
  <2>1. UNCHANGED <<tpc, share>>
    BY <1>2 DEF End, Destroy, treeVars
  <2>2. QED
    BY <1>2, <2>1, DestroyPool, PoolKeepsShares DEF IInv
<1>3. CASE Return \/ CallerWaits \/ (End /\ Join)
  <2>1. (CallerStep \/ Join) /\ UNCHANGED tpc
    BY <1>3 DEF Return, CallerWaits, End, CallerStep, treeVars
  <2>2. \A t \in Threads : share'[t] = share[t] \/ share[t] = "over"
    BY <2>1 DEF CallerStep, CallerShareOver, CallerSpin, CallerCheck, CallerSleep, Join,
                IInv, PoolInv, PoolTypes
  <2>3. QED
    BY <2>1, <2>2, CallerPool, PoolKeepsShares DEF IInv
<1>4. QED
  BY <1>1, <1>2, <1>3 DEF End

LEMMA WorkerSteps ==
  ASSUME IInv, NEW w \in Workers, Worker(w)
  PROVE  IInv'
<1>1. WorkerStep(w) /\ UNCHANGED tpc
  BY DEF Worker, treeVars
<1>2. \A t \in Threads : share'[t] = share[t] \/ share'[t] = "run" \/ share[t] = "over"
  BY <1>1 DEF WorkerStep, Spin, Wait, Take, Finish, Notify, IInv, PoolInv, PoolTypes
<1>3. QED
  BY <1>1, <1>2, WorkerPool, PoolKeepsShares DEF IInv

-----------------------------------------------------------------------------

LEMMA InitInv == Init => IInv
<1> SUFFICES ASSUME Init PROVE IInv
  OBVIOUS
<1>1. /\ generation = 0 /\ pending = 0 /\ stop = FALSE /\ cpc = "out"
      /\ wpc = [w \in Workers |-> "spin"] /\ seen = [w \in Workers |-> 0]
      /\ share = [t \in Threads |-> "none"] /\ tpc = [t \in Threads |-> "none"]
  BY DEF Init, TreeInit, PoolInit
<1>2. Unfinished = {}
  BY <1>1 DEF Unfinished
<1>3. PoolTypes
  BY <1>1 DEF PoolTypes, WorkerPlaces, CallerPlaces, SharePlaces
<1>4. PoolPlaces
  BY <1>1, ZeroIsCaller DEF PoolPlaces
<1>5. PoolCounts
  BY <1>1, <1>2, FS_EmptySet DEF PoolCounts
<1>6. SharesRun
  BY <1>1 DEF SharesRun, StepPlaces
<1>7. QED
  BY <1>3, <1>4, <1>5, <1>6 DEF IInv, PoolInv

\* The other callers and a refinement leave the pool and the tree alone.
LEMMA NextInv == IInv /\ [Next]_vars => IInv'
<1> SUFFICES ASSUME IInv, [Next]_vars PROVE IInv'
  OBVIOUS
<1>1. CASE UNCHANGED <<poolVars, treeVars>>
  BY <1>1 DEF IInv, PoolInv, PoolTypes, PoolPlaces, PoolCounts, SharesRun, Unfinished, poolVars,
              treeVars
<1>2. CASE Start \/ End \/ Return \/ CallerWaits
  BY <1>2, CallerSteps
<1>3. CASE \E w \in Workers : Worker(w)
  BY <1>3, WorkerSteps
<1>4. CASE \E t \in Threads : ShareStep(t)
  BY <1>4, ShareSteps
<1>5. CASE \E c \in Callers : Caller(c)
  BY <1>5, <1>1 DEF Caller
<1>6. QED
  BY <1>1, <1>2, <1>3, <1>4, <1>5 DEF Next, SolveTree, vars, solveVars

\* run() returns only on pending_ = 0, and then no thread uses its job.
LEMMA ReturnsAfterAll ==
  ASSUME IInv, [Next]_vars, cpc # "out", cpc' = "out"
  PROVE  \A t \in Threads : share'[t] = "none"
<1>1. CallerSpin \/ CallerCheck
  <2>1. ~UNCHANGED poolVars
    BY DEF poolVars
  <2>2. ~(\E t \in Threads : ShareStep(t))
    BY <2>1 DEF ShareStep, Begin, Claim, Sum, Poll, Empty, Pop, Processed, Read, Write, Over, poolVars
  <2>3. ~(\E w \in Workers : Worker(w))
    BY DEF Worker, WorkerStep, Spin, Wait, Take, Finish, Notify
  <2>4. ~(Start \/ End)
    BY DEF Start, End, Publish, Destroy, Join
  <2>5. Return \/ CallerWaits
    BY <2>1, <2>2, <2>3, <2>4 DEF Next, SolveTree, Caller, vars, solveVars
  <2>6. QED
    BY <2>5 DEF Return, CallerWaits
<1>2. pending = 0 /\ cpc \notin {"share", "join", "destroyed"} /\ UNCHANGED share
  BY <1>1 DEF CallerSpin, CallerCheck
<1>3. ~stop /\ share[0] = "none"
  BY <1>2 DEF IInv, PoolInv, PoolPlaces, PoolCounts
<1>4. \A w \in Workers : share[w] = "none"
  BY <1>2, <1>3, ZeroMeansNone DEF IInv
<1>5. QED
  BY <1>2, <1>3, <1>4 DEF Threads

\* run() returns last (SolvePool::run, finish): whatever the number of
\* threads and the tree, the caller leaves only when no thread is in a share
\* of its job any more.
THEOREM ReturnTheorem == Spec => ReturnsLast
<1>1. IInv /\ [Next]_vars =>
        [cpc # "out" /\ cpc' = "out" => \A t \in Threads : share'[t] = "none"]_<<poolVars, treeVars>>
  BY ReturnsAfterAll
<1>2. QED
  BY <1>1, InitInv, NextInv, PTL DEF Spec, ReturnsLast

-----------------------------------------------------------------------------
(* The slack solves                                                        *)

Statuses == {"Success", "Singular", "MaxPivotDelays"}
ByReduced == [at |-> 3, through |-> {"reduced"}]

\* What a full solve has in its buffer, by the place it is at.
OneSolve(c) ==
  /\ spc[c] \in {"gate", "substitute"} => b[c] = Rhs
  /\ spc[c] = "substitute" => by[c] = "reduced"
  /\ spc[c] \in {"omega", "full", "build", "again"} =>
       b[c] = ByReduced /\ by[c] = "reduced" /\ slack_b[c] = Rhs
  /\ spc[c] = "again" => full # None \/ full_error # "Success"
  /\ spc[c] = "core" => /\ by[c] = "full" /\ full # None
                        /\ Proceeds(c) => b[c] = Rhs
                        /\ b[c] \in {Rhs, ByReduced}
  /\ spc[c] = "return" =>
       /\ rc[c] = "Success" => b[c].at = 3 /\ b[c].through = {by[c]}
       /\ rc[c] = "Success" /\ by[c] = "reduced" => ~checked \/ accurate[c]
       /\ rc[c] # "Success" => b[c].at \in {0, 3}

\* The jobs left of a program.
Alone(p) == p \in Seq(DOMAIN From) /\ (p = <<"Full">> \/ \A i \in DOMAIN p : p[i] # "Full")

SlackDomains ==
  /\ DOMAIN spc = Callers /\ DOMAIN jobs = Callers /\ DOMAIN b = Callers
  /\ DOMAIN slack_b = Callers /\ DOMAIN by = Callers /\ DOMAIN rc = Callers
  /\ DOMAIN accurate = Callers

SlackInv ==
  /\ SlackDomains
  /\ full \in Statuses \cup {None}
  /\ \A c \in Callers : Alone(jobs[c]) /\ (jobs[c] = <<"Full">> => OneSolve(c))

LEMMA SlackInitInv == Init => SlackInv
<1> SUFFICES ASSUME Init PROVE SlackInv
  OBVIOUS
<1>1. SlackInit
  BY DEF Init
<1>2. SlackDomains /\ full \in Statuses \cup {None}
  BY <1>1 DEF SlackInit, SlackDomains
<1>3. \A c \in Callers : Alone(jobs[c])
  BY <1>1, ProgramsAssumption DEF SlackInit, Alone
<1>4. \A c \in Callers : OneSolve(c)
  BY <1>1 DEF SlackInit, OneSolve
<1>5. QED
  BY <1>2, <1>3, <1>4 DEF SlackInv

\* What the caller of a step may change of the others: the full factor is
\* made, or its failure noted, once.
LEMMA OthersKeep ==
  ASSUME SlackInv, NEW c \in Callers, SlackStep(c)
  PROVE  /\ SlackDomains' /\ full' \in Statuses \cup {None}
         /\ full # None => full' = full
         /\ full_error # "Success" => full_error' # "Success"
         /\ UNCHANGED <<checked, cont>>
         /\ \A d \in Callers \ {c} :
              /\ spc'[d] = spc[d] /\ jobs'[d] = jobs[d] /\ b'[d] = b[d] /\ slack_b'[d] = slack_b[d]
              /\ by'[d] = by[d] /\ rc'[d] = rc[d] /\ accurate'[d] = accurate[d]
<1>1. CASE Gate(c)
  BY <1>1 DEF Gate, Go, factorVars, SlackInv, SlackDomains
<1>2. CASE Substitute(c)
  BY <1>2 DEF Substitute, Go, factorVars, SlackInv, SlackDomains
<1>3. CASE Omega(c)
  BY <1>3 DEF Omega, Go, factorVars, SlackInv, SlackDomains
<1>4. CASE LockFull(c)
  BY <1>4 DEF LockFull, Go, factorVars, SlackInv, SlackDomains
<1>5. CASE Build(c)
  BY <1>5 DEF Build, Untried, Go, factorVars, SlackInv, SlackDomains, Statuses
<1>6. CASE SolveAgain(c)
  BY <1>6 DEF SolveAgain, Go, factorVars, SlackInv, SlackDomains
<1>7. CASE Core(c)
  BY <1>7 DEF Core, Go, factorVars, SlackInv, SlackDomains
<1>8. CASE SlackReturn(c)
  BY <1>8 DEF SlackReturn, Go, factorVars, SlackInv, SlackDomains
<1>9. QED
  BY <1>1, <1>2, <1>3, <1>4, <1>5, <1>6, <1>7, <1>8 DEF SlackStep

\* The caller's own solve: from the right-hand side to the solution by the
\* reduced factor, or by the full one after the right-hand side came back.
LEMMA OwnSolve ==
  ASSUME SlackInv, NEW c \in Callers, SlackStep(c), jobs[c] = <<"Full">>, jobs'[c] = <<"Full">>
  PROVE  OneSolve(c)'
<1> USE DEF SlackInv, SlackDomains, Go, factorVars
<1>1. OneSolve(c) /\ Head(jobs[c]) = "Full"
  OBVIOUS
<1>2. Through("Full", "reduced", Rhs) = ByReduced
      /\ Through("Full", "full", Rhs) = [at |-> 3, through |-> {"full"}]
  BY DEF Through, Rhs, From, To, ByReduced
<1>3. CASE Gate(c)
  BY <1>1, <1>3 DEF Gate, OneSolve, Rhs
<1>4. CASE Substitute(c)
  BY <1>1, <1>2, <1>4 DEF Substitute, OneSolve, ByReduced
<1>5. CASE Omega(c)
  BY <1>1, <1>5 DEF Omega, OneSolve, ByReduced
<1>6. CASE LockFull(c)
  BY <1>1, <1>6 DEF LockFull, OneSolve
<1>7. CASE Build(c)
  BY <1>1, <1>7, ProgramsAssumption DEF Build, Untried, OneSolve, Statuses
<1>8. CASE SolveAgain(c)
  BY <1>1, <1>8 DEF SolveAgain, GivenBack, Proceeds, OneSolve, ByReduced
<1>9. CASE Core(c)
  <2>1. /\ spc[c] = "core" /\ spc'[c] = "return" /\ full' = full /\ checked' = checked
        /\ rc'[c] = Refusal(c) /\ by'[c] = by[c] /\ by[c] = "full" /\ full \in Statuses
    BY <1>1, <1>9 DEF Core, OneSolve
  <2>2. CASE Refusal(c) = "Success"
    <3>1. Proceeds(c)
      BY <2>1, <2>2 DEF Refusal, Proceeds, Statuses
    <3>2. b[c] = Rhs
      BY <1>1, <2>1, <3>1 DEF OneSolve
    <3>3. b'[c] = [at |-> 3, through |-> {"full"}]
      BY <1>1, <1>2, <1>9, <2>2, <3>2 DEF Core
    <3>4. QED
      BY <2>1, <3>3 DEF OneSolve
  <2>3. CASE Refusal(c) # "Success"
    <3>1. b'[c] = b[c] /\ b[c] \in {Rhs, ByReduced}
      BY <1>1, <1>9, <2>1, <2>3 DEF Core, OneSolve
    <3>2. b'[c].at \in {0, 3}
      BY <3>1 DEF Rhs, ByReduced
    <3>3. QED
      BY <2>1, <2>3, <3>2 DEF OneSolve
  <2>4. QED
    BY <2>2, <2>3
<1>10. CASE SlackReturn(c)
  BY <1>1, <1>10 DEF SlackReturn
<1>11. QED
  BY <1>3, <1>4, <1>5, <1>6, <1>7, <1>8, <1>9, <1>10 DEF SlackStep

LEMMA TailOf ==
  ASSUME NEW S, NEW p \in Seq(S), p # <<>>, \A i \in DOMAIN p : p[i] # "Full"
  PROVE  Tail(p) \in Seq(S) /\ \A i \in DOMAIN Tail(p) : Tail(p)[i] # "Full"
<1>1. Tail(p) \in Seq(S) /\ Len(p) \in Nat \ {0} /\ Len(Tail(p)) = Len(p) - 1
  OBVIOUS
<1>2. \A i \in 1 .. Len(p) - 1 : Tail(p)[i] = p[i + 1] /\ i + 1 \in DOMAIN p
  BY <1>1
<1>3. DOMAIN Tail(p) = 1 .. Len(p) - 1
  BY <1>1
<1>4. QED
  BY <1>1, <1>2, <1>3

\* The jobs left after a step are still a full solve alone, or none.
LEMMA JobsLeft ==
  ASSUME SlackInv, NEW c \in Callers, SlackStep(c)
  PROVE  /\ Alone(jobs'[c])
         /\ jobs'[c] = <<"Full">> => jobs[c] = <<"Full">>
<1>1. Alone(jobs[c]) /\ c \in DOMAIN jobs
  BY DEF SlackInv, SlackDomains
<1>2. CASE SlackReturn(c)
  <2>1. jobs'[c] = Tail(jobs[c]) \/ jobs'[c] = <<>>
    BY <1>1, <1>2 DEF SlackReturn
  <2>2. Alone(<<>>) /\ <<>> # <<"Full">>
    BY DEF Alone
  <2>3. CASE jobs[c] = <<>>
    BY <1>1, <1>2, <2>2, <2>3 DEF SlackReturn
  <2>4. CASE jobs[c] = <<"Full">>
    BY <2>1, <2>2, <2>4
  <2>5. CASE jobs[c] # <<>> /\ jobs[c] # <<"Full">>
    <3> DEFINE p == jobs[c]
    <3>1. p \in Seq(DOMAIN From) /\ p # <<>> /\ \A i \in DOMAIN p : p[i] # "Full"
      BY <1>1, <2>5 DEF Alone
    <3>2. Tail(p) \in Seq(DOMAIN From) /\ \A i \in DOMAIN Tail(p) : Tail(p)[i] # "Full"
      BY <3>1, TailOf
    <3>3. Alone(Tail(p)) /\ Tail(p) # <<"Full">>
      <4>1. Alone(Tail(p))
        BY <3>2 DEF Alone
      <4>2. 1 \in DOMAIN <<"Full">> /\ <<"Full">>[1] = "Full"
        OBVIOUS
      <4>3. QED
        BY <3>2, <4>1, <4>2
    <3>4. QED
      BY <2>1, <2>2, <3>3
  <2>6. QED
    BY <2>3, <2>4, <2>5
<1>3. CASE UNCHANGED jobs
  BY <1>1, <1>3
<1>4. QED
  BY <1>2, <1>3 DEF SlackStep, Gate, Substitute, Omega, LockFull, Build, SolveAgain, Core

LEMMA SlackNextInv == SlackInv /\ [Next]_vars => SlackInv'
<1> SUFFICES ASSUME SlackInv, [Next]_vars PROVE SlackInv'
  OBVIOUS
<1>1. CASE UNCHANGED slackVars
  BY <1>1 DEF slackVars, SlackInv, SlackDomains, OneSolve, Alone, Proceeds
<1>2. ASSUME NEW c \in Callers, Caller(c) PROVE SlackInv'
  <2>1. SlackStep(c)
    BY <1>2 DEF Caller
  <2>2. SlackDomains' /\ full' \in Statuses \cup {None}
    BY <2>1, OthersKeep
  <2>3. Alone(jobs'[c]) /\ (jobs'[c] = <<"Full">> => OneSolve(c)')
    BY <2>1, JobsLeft, OwnSolve
  <2>4. ASSUME NEW d \in Callers \ {c} PROVE Alone(jobs'[d]) /\ (jobs'[d] = <<"Full">> => OneSolve(d)')
    <3>1. /\ Alone(jobs[d]) /\ (jobs[d] = <<"Full">> => OneSolve(d)) /\ jobs'[d] = jobs[d]
          /\ full \in Statuses \cup {None}
      BY <2>1, OthersKeep DEF SlackInv
    <3>2. OneSolve(d) => OneSolve(d)'
      BY <2>1, OthersKeep, ProgramsAssumption DEF OneSolve, Proceeds
    <3>3. QED
      BY <3>1, <3>2
  <2>5. \A d \in Callers : Alone(jobs'[d]) /\ (jobs'[d] = <<"Full">> => OneSolve(d)')
    BY <2>3, <2>4
  <2>6. \A d \in Callers : Alone(jobs[d])'
    BY <2>5 DEF Alone
  <2>7. QED
    BY <2>2, <2>5, <2>6 DEF SlackInv
<1>3. UNCHANGED slackVars \/ \E c \in Callers : Caller(c)
  BY DEF Next, SolveTree, vars, solveVars
<1>4. QED
  BY <1>1, <1>2, <1>3

\* Full solves are honest (slack_solve): for any number of callers, columns
\* and refinement steps, a full solve that returns success solves the
\* caller's right-hand side by one factor that may answer for it, and a
\* refused one leaves the right-hand side or the reduced factor's solution.
THEOREM HonestTheorem == Spec => []FullSolveIsHonest
<1>1. SlackInv => FullSolveIsHonest
  BY DEF SlackInv, OneSolve, FullSolveIsHonest
<1>2. QED
  BY <1>1, SlackInitInv, SlackNextInv, PTL DEF Spec

\* The full factor is made once (full_mu, "tried once per factor"), whichever
\* callers reach the fallback together.
THEOREM BuiltOnceTheorem == Spec => BuiltOnce
<1>1. SlackInv /\ [Next]_vars => [full # None => full' = full]_slackVars
  <2> SUFFICES ASSUME SlackInv, [Next]_vars PROVE [full # None => full' = full]_slackVars
    OBVIOUS
  <2>1. UNCHANGED slackVars \/ \E c \in Callers : SlackStep(c)
    BY DEF Next, SolveTree, Caller, vars, solveVars
  <2>2. QED
    BY <2>1, OthersKeep
<1>2. QED
  BY <1>1, SlackInitInv, SlackNextInv, PTL DEF Spec, BuiltOnce

-----------------------------------------------------------------------------
(* Refinement: what refine() reports of the x it leaves, and the budget    *)

\* A finite set of integers has a maximum: a least subset without one has no
\* element to leave out.
LEMMA FiniteMax ==
  ASSUME NEW S \in SUBSET Int, IsFiniteSet(S), S # {}
  PROVE  Max(S) \in S /\ \A lo \in S : lo <= Max(S)
<1> DEFINE Bad == {F \in SUBSET S : F # {} /\ ~\E hi \in F : \A lo \in F : hi >= lo}
<1>1. Bad \subseteq FiniteSubsetsOf(S)
  BY FS_FiniteSubsetsOfFinite
<1>2. ASSUME Bad # {} PROVE FALSE
  <2>1. PICK F \in Bad : \A G \in Bad : <<G, F>> \notin StrictSubsetOrdering(S)
    BY <1>1, <1>2, FS_StrictSubsetOrderingWellFounded, WFMin
  <2>2. PICK a \in F : TRUE
    OBVIOUS
  <2> DEFINE G == F \ {a}
  <2>3. G \notin Bad
    <3>1. <<G, F>> \in (SUBSET S) \X (SUBSET S) /\ G \subseteq F /\ G # F
      BY <2>2
    <3>2. <<G, F>> \in StrictSubsetOrdering(S)
      BY <3>1 DEF StrictSubsetOrdering
    <3>3. QED
      BY <2>1, <3>2
  <2>4. CASE G = {}
    <3>1. \A lo \in F : lo = a
      BY <2>4
    <3>2. QED
      BY <2>2, <3>1
  <2>5. CASE G # {}
    <3>1. PICK up \in G : \A lo \in G : up >= lo
      BY <2>3, <2>5
    <3>2. a \in Int /\ up \in Int /\ up \in F
      BY <2>2, <3>1
    <3>3. CASE up >= a
      <4>1. \A lo \in F : up >= lo
        BY <3>1, <3>3
      <4>2. QED
        BY <3>2, <4>1
    <3>4. CASE ~(up >= a)
      <4>1. \A lo \in F : a >= lo
        BY <3>1, <3>2, <3>4
      <4>2. QED
        BY <2>2, <4>1
    <3>5. QED
      BY <3>3, <3>4
  <2>6. QED
    BY <2>4, <2>5
<1>3. \E hi \in S : \A lo \in S : hi >= lo
  BY <1>2
<1>4. Max(S) \in S /\ \A lo \in S : Max(S) >= lo
  BY <1>3 DEF Max
<1>5. QED
  BY <1>4

LEMMA MaxOfTwo ==
  ASSUME NEW i \in Int, NEW j \in Int
  PROVE  /\ Max({i, j}) \in {i, j} /\ i <= Max({i, j}) /\ j <= Max({i, j})
         /\ Min({i, j}) \in {i, j} /\ Min({i, j}) <= i /\ Min({i, j}) <= j
<1>1. \E k \in {i, j} : \A l \in {i, j} : k >= l
  BY i >= j \/ j >= i
<1>2. \E k \in {i, j} : \A l \in {i, j} : k <= l
  BY i <= j \/ j <= i
<1>3. Max({i, j}) \in {i, j} /\ \A l \in {i, j} : Max({i, j}) >= l
  BY <1>1 DEF Max
<1>4. Min({i, j}) \in {i, j} /\ \A l \in {i, j} : Min({i, j}) <= l
  BY <1>2 DEF Min
<1>5. QED
  BY <1>3, <1>4

LEMMA ColumnsFinite == IsFiniteSet(RCols) /\ RCols # {}
<1>1. 1 \in RCols
  BY RefineAssumption DEF RCols
<1>2. IsFiniteSet(1 .. RefineColumns)
  <2>1. 1 \in Int /\ RefineColumns \in Int
    BY RefineAssumption
  <2>2. QED
    BY <2>1, FS_Interval
<1>3. QED
  BY <1>1, <1>2 DEF RCols

Errors == [eta : Nat, omega : Nat]

\* The worst errors bound every column's, and each is some column's.
LEMMA WorstBounds ==
  ASSUME NEW v \in [RCols -> Errors]
  PROVE  /\ Worst(v) \in Errors
         /\ \A i \in RCols : v[i].eta <= Worst(v).eta /\ v[i].omega <= Worst(v).omega
         /\ \E i \in RCols : Worst(v).eta = v[i].eta
         /\ \E i \in RCols : Worst(v).omega = v[i].omega
<1> DEFINE etas == {v[i].eta : i \in RCols}
           omegas == {v[i].omega : i \in RCols}
<1>1. \A i \in RCols : v[i].eta \in Nat /\ v[i].omega \in Nat
  BY DEF Errors
<1>2. IsFiniteSet(etas) /\ IsFiniteSet(omegas)
  <2> DEFINE f == [i \in RCols |-> v[i].eta]
             g == [i \in RCols |-> v[i].omega]
  <2>1. f \in Surjection(RCols, etas) /\ g \in Surjection(RCols, omegas)
    BY DEF Surjection
  <2>2. QED
    BY <2>1, ColumnsFinite, FS_Surjection
<1>3. etas \in SUBSET Int /\ omegas \in SUBSET Int /\ etas # {} /\ omegas # {}
  BY <1>1, ColumnsFinite
<1>4. Worst(v) = [eta |-> Max(etas), omega |-> Max(omegas)]
  BY DEF Worst
<1>5. /\ Max(etas) \in etas /\ \A y \in etas : y <= Max(etas)
      /\ Max(omegas) \in omegas /\ \A y \in omegas : y <= Max(omegas)
  BY <1>2, <1>3, FiniteMax
<1> DEFINE e == Max(etas)
           o == Max(omegas)
<1>6. /\ e \in etas /\ \A y \in etas : y <= e
      /\ o \in omegas /\ \A y \in omegas : y <= o
  BY <1>5
<1>7. Worst(v) = [eta |-> e, omega |-> o]
  BY <1>4
<1> HIDE DEF e, o
<1>8. e \in Nat /\ o \in Nat
  BY <1>1, <1>6
<1>9. QED
  BY <1>6, <1>7, <1>8 DEF Errors

LEMMA ScoreBounds ==
  ASSUME NEW e \in Errors
  PROVE  metric_score(e) \in Nat /\ metric_score(e) \in {e.eta, e.omega}
         /\ e.eta <= metric_score(e) /\ e.omega <= metric_score(e)
<1>1. e.eta \in Nat /\ e.omega \in Nat
  BY DEF Errors
<1> DEFINE i == e.eta
           j == e.omega
<1>2. i \in Nat /\ j \in Nat /\ i \in Int /\ j \in Int
  BY <1>1
<1>3. metric_score(e) = Max({i, j})
  BY DEF metric_score
<1> HIDE DEF i, j
<1>4. /\ Max({i, j}) \in {i, j} /\ i <= Max({i, j}) /\ j <= Max({i, j})
  BY <1>2, MaxOfTwo
<1>5. metric_score(e) \in {i, j} /\ i <= metric_score(e) /\ j <= metric_score(e)
  BY <1>3, <1>4
<1>6. QED
  BY <1>2, <1>5 DEF i, j

\* Columns that are each no worse are together no worse.
LEMMA WorstMonotone ==
  ASSUME NEW v \in [RCols -> Errors], NEW w \in [RCols -> Errors],
         \A i \in RCols : metric_score(w[i]) <= metric_score(v[i])
  PROVE  metric_score(Worst(w)) <= metric_score(Worst(v))
<1>1. Worst(v) \in Errors /\ Worst(w) \in Errors
  BY WorstBounds
<1>2. \A i \in RCols : metric_score(v[i]) <= metric_score(Worst(v))
  <2> TAKE i \in RCols
  <2>1. v[i] \in Errors /\ v[i].eta \in Nat /\ v[i].omega \in Nat
    BY DEF Errors
  <2>2. metric_score(v[i]) \in {v[i].eta, v[i].omega}
    BY <2>1, ScoreBounds
  <2>3. v[i].eta <= Worst(v).eta /\ v[i].omega <= Worst(v).omega
    BY WorstBounds
  <2>4. Worst(v).eta <= metric_score(Worst(v)) /\ Worst(v).omega <= metric_score(Worst(v))
        /\ metric_score(Worst(v)) \in Nat /\ Worst(v).eta \in Nat /\ Worst(v).omega \in Nat
    BY <1>1, ScoreBounds DEF Errors
  <2>5. QED
    BY <2>1, <2>2, <2>3, <2>4
<1>3. \E i \in RCols : metric_score(Worst(w)) \in {w[i].eta, w[i].omega}
  <2>1. metric_score(Worst(w)) \in {Worst(w).eta, Worst(w).omega}
    BY <1>1, ScoreBounds
  <2>2. QED
    BY <2>1, WorstBounds
<1>4. PICK i \in RCols : metric_score(Worst(w)) \in {w[i].eta, w[i].omega}
  BY <1>3
<1>5. /\ w[i] \in Errors /\ v[i] \in Errors
      /\ w[i].eta <= metric_score(w[i]) /\ w[i].omega <= metric_score(w[i])
      /\ metric_score(w[i]) \in Nat /\ metric_score(v[i]) \in Nat
      /\ w[i].eta \in Nat /\ w[i].omega \in Nat
  BY ScoreBounds DEF Errors
<1>6. metric_score(Worst(w)) \in Nat /\ metric_score(Worst(v)) \in Nat
  BY <1>1, ScoreBounds
<1>7. QED
  BY <1>2, <1>4, <1>5, <1>6

RefinePlaces == {"begin", "classical", "fgmres", "cycle", "arnoldi", "done"}

RefineTypes ==
  /\ set \in Settings /\ rpc \in RefinePlaces
  /\ xr \in [RCols -> Metrics] /\ start \in [RCols -> Metrics]
  /\ iter \in Nat /\ used \in Nat /\ most \in Nat /\ inner \in Nat /\ cycle_len \in Nat
  /\ column \in 0 .. RefineColumns

\* The best iterate is kept.
RefineNoWorse == metric_score(Worst(xr)) <= metric_score(Worst(start))

\* The budget left at each place, and the step a forced refinement has taken.
AtClassical ==
  rpc = "classical" =>
    /\ set.method # "Fgmres" /\ iter <= Cap /\ set.refinement_max_iters # 0
    /\ used = 0 /\ most = 0

AtFgmres ==
  rpc \in {"fgmres", "cycle", "arnoldi"} =>
    /\ set.method # "Classical" /\ iter <= set.refine_max_steps
    /\ used <= Budget /\ most <= Budget
    /\ set.method = "Auto" => iter >= 1
    /\ rpc # "fgmres" => column >= 1
    /\ rpc = "arnoldi" => inner < cycle_len /\ used + (cycle_len - inner) <= Budget

RefineInv ==
  /\ RefineTypes /\ RefineNoWorse
  /\ rpc = "begin" => iter = 0 /\ used = 0 /\ most = 0
  /\ AtClassical /\ AtFgmres
  /\ RefineSound

LEMMA SettingsTyped ==
  ASSUME set \in Settings
  PROVE  /\ set.method \in {"Classical", "Fgmres", "Auto"}
         /\ set.refinement_max_iters \in Nat /\ set.refine_max_steps \in Nat
         /\ set.fgmres_restart \in Nat
         /\ set.static_path \in BOOLEAN /\ set.grown \in BOOLEAN
BY SettingsAssumption

LEMMA CapBounds ==
  ASSUME set \in Settings
  PROVE  /\ Cap \in Nat /\ Cap <= set.refinement_max_iters
         /\ set.method = "Auto" => Cap <= set.refine_max_steps
         /\ Cap = 0 => set.refinement_max_iters = 0 \/ (set.method = "Auto" /\ set.refine_max_steps = 0)
<1> DEFINE i == set.refinement_max_iters
           j == set.refine_max_steps
<1>1. i \in Nat /\ j \in Nat /\ i \in Int /\ j \in Int
  BY SettingsTyped
<1>2. Cap = IF set.method = "Auto" THEN Min({i, j}) ELSE i
  BY DEF Cap
<1> HIDE DEF i, j
<1>3. Min({i, j}) \in {i, j} /\ Min({i, j}) <= i /\ Min({i, j}) <= j
  BY <1>1, MaxOfTwo
<1>4. QED
  BY <1>1, <1>2, <1>3 DEF i, j

LEMMA MetricsAreErrors == [RCols -> Metrics] \subseteq [RCols -> Errors]
BY RefineAssumption DEF Errors

LEMMA ScoreOfWorst ==
  ASSUME NEW v \in [RCols -> Metrics]
  PROVE  metric_score(Worst(v)) \in Nat
BY MetricsAreErrors, WorstBounds, ScoreBounds

\* What a report of v after n steps has to know.
LEMMA ReportSound ==
  ASSUME NEW n, NEW v, Report(n, v), xr' = v, UNCHANGED <<set, start>>,
         metric_score(Worst(v)) <= metric_score(Worst(start)),
         n <= IF set.method = "Classical" THEN set.refinement_max_iters ELSE set.refine_max_steps,
         /\ force_step /\ set.refinement_max_iters > 0
         /\ (set.method = "Classical" \/ (set.method = "Auto" /\ set.refine_max_steps > 0))
         => n >= 1
  PROVE  RefineSound'
<1>1. /\ result'.status = IF meets_gate(Worst(v)) THEN "Success" ELSE "MaxIterations"
      /\ result'.iterations = n /\ result'.errors = Worst(v)
  BY DEF Report
<1>2. RefineHonest'
  BY <1>1 DEF RefineHonest
<1>3. RefineBudget'
  BY <1>1 DEF RefineBudget, force_step
<1>4. QED
  BY <1>2, <1>3 DEF RefineSound

LEMMA RefineInitInv == RefineInit => RefineInv
<1> SUFFICES ASSUME RefineInit PROVE RefineInv
  OBVIOUS
<1>1. RefineTypes /\ rpc = "begin"
  BY RefineAssumption DEF RefineInit, RefineTypes, RefinePlaces
<1>2. RefineNoWorse
  BY <1>1, ScoreOfWorst DEF RefineInit, RefineNoWorse, RefineTypes
<1>3. RefineSound
  BY <1>1 DEF RefineSound, RefineHonest, RefineBudget
<1>4. QED
  BY <1>1, <1>2, <1>3 DEF RefineInv, RefineInit, AtClassical, AtFgmres

\* While the call goes on, nothing is reported.
LEMMA NotDone == ASSUME rpc' # "done" PROVE RefineSound'
BY DEF RefineSound, RefineHonest, RefineBudget

LEMMA RefineBeginInv == ASSUME RefineInv, RefineBegin PROVE RefineInv'
<1>1. /\ rpc = "begin" /\ iter = 0 /\ used = 0 /\ most = 0
      /\ UNCHANGED <<set, xr, start, iter, used, most, inner, cycle_len, column>>
      /\ RefineTypes /\ RefineNoWorse
  BY DEF RefineInv, RefineBegin
<1>2. /\ set.method \in {"Classical", "Fgmres", "Auto"}
      /\ set.refinement_max_iters \in Nat /\ set.refine_max_steps \in Nat
  BY <1>1, SettingsTyped DEF RefineTypes
<1>3. CASE rpc' = "done" /\ result' = [NoResult EXCEPT !.status = "IllegalValue"]
  <2>1. result'.status = "IllegalValue"
    BY <1>3 DEF NoResult
  <2>2. RefineSound'
    BY <2>1 DEF RefineSound, RefineHonest, RefineBudget
  <2>3. QED
    BY <1>1, <1>3, <2>2 DEF RefineInv, RefineTypes, RefinePlaces, RefineNoWorse, AtClassical, AtFgmres
<1>4. CASE ((reached(Worst(xr)) /\ ~force_step) \/ set.refinement_max_iters = 0) /\ Report(0, xr)
  <2>1. rpc' = "done"
    BY <1>4 DEF Report
  <2>2. RefineSound'
    <3>1. force_step /\ set.refinement_max_iters > 0 => FALSE
      BY <1>4
    <3>2. 0 <= IF set.method = "Classical" THEN set.refinement_max_iters ELSE set.refine_max_steps
      BY <1>2
    <3>3. QED
      BY <1>1, <1>4, <3>1, <3>2, ReportSound DEF RefineNoWorse
  <2>3. QED
    BY <1>1, <2>1, <2>2 DEF RefineInv, RefineTypes, RefinePlaces, RefineNoWorse, AtClassical, AtFgmres
<1>5. CASE /\ set.refinement_max_iters # 0
           /\ rpc' = IF set.method = "Fgmres" THEN "fgmres" ELSE "classical"
  <2>1. RefineTypes' /\ RefineNoWorse' /\ RefineSound'
    BY <1>1, <1>5, NotDone DEF RefineTypes, RefinePlaces, RefineNoWorse
  <2>2. CASE set.method = "Fgmres"
    <3>1. rpc' = "fgmres" /\ Budget' = set.refine_max_steps /\ set' = set
      BY <1>1, <1>2, <1>5, <2>2 DEF Budget
    <3>2. AtFgmres' /\ AtClassical'
      BY <1>1, <1>2, <2>2, <3>1 DEF AtFgmres, AtClassical
    <3>3. QED
      BY <2>1, <3>1, <3>2 DEF RefineInv
  <2>3. CASE set.method # "Fgmres"
    <3>1. rpc' = "classical" /\ Cap' = Cap /\ set' = set /\ iter' = 0 /\ 0 <= Cap
      BY <1>1, <1>5, <2>3, CapBounds DEF Cap, RefineTypes
    <3>2. AtFgmres' /\ AtClassical'
      BY <1>1, <1>5, <2>3, <3>1 DEF AtFgmres, AtClassical
    <3>3. QED
      BY <2>1, <3>1, <3>2 DEF RefineInv
  <2>4. QED
    BY <2>2, <2>3
<1>6. QED
  BY <1>3, <1>4, <1>5 DEF RefineBegin

\* The classical phase ends with v: reported, or handed to FGMRES with what is
\* left of the budget.
LEMMA ClassicalOverInv ==
  ASSUME RefineInv, rpc = "classical", iter < Cap, iter' = iter + 1,
         NEW v \in [RCols -> Metrics], metric_score(Worst(v)) <= metric_score(Worst(start)),
         NEW escalate, ClassicalOver(v, escalate),
         UNCHANGED <<set, start, column, used, most, inner, cycle_len>>
  PROVE  RefineInv'
<1>1. RefineTypes /\ set \in Settings /\ set.method # "Fgmres" /\ used = 0 /\ most = 0
      /\ set.refinement_max_iters # 0
  BY DEF RefineInv, AtClassical, RefineTypes
<1>2. /\ set.method \in {"Classical", "Auto"}
      /\ set.refinement_max_iters \in Nat /\ set.refine_max_steps \in Nat
      /\ Cap \in Nat /\ Cap <= set.refinement_max_iters
      /\ set.method = "Auto" => Cap <= set.refine_max_steps
  BY <1>1, SettingsTyped, CapBounds
<1>3. /\ iter \in Nat /\ iter' \in Nat /\ iter' >= 1 /\ iter' <= set.refinement_max_iters
      /\ set.method = "Auto" => iter' <= set.refine_max_steps
  BY <1>1, <1>2 DEF RefineTypes
<1>4. xr' = v
  BY DEF ClassicalOver
<1>5. CASE /\ set.method = "Auto" /\ iter' < set.refine_max_steps
           /\ rpc' = "fgmres"
  <2>1. RefineTypes' /\ RefineNoWorse' /\ RefineSound'
    BY <1>1, <1>3, <1>4, <1>5, NotDone DEF RefineTypes, RefinePlaces, RefineNoWorse
  <2>2. Budget' = set.refine_max_steps - iter' /\ set' = set
    BY DEF Budget
  <2>3. used' <= Budget' /\ most' <= Budget'
    BY <1>1, <1>2, <1>3, <1>5, <2>2
  <2>4. AtFgmres'
    BY <1>3, <1>5, <2>2, <2>3 DEF AtFgmres
  <2>5. QED
    BY <1>5, <2>1, <2>4 DEF RefineInv, AtClassical
<1>6. CASE Report(iter', v)
  <2>1. rpc' = "done"
    BY <1>6 DEF Report
  <2>2. iter' <= IF set.method = "Classical" THEN set.refinement_max_iters ELSE set.refine_max_steps
    BY <1>2, <1>3
  <2>3. RefineSound'
    <3>1. UNCHANGED <<set, start>>
      OBVIOUS
    <3>2. QED
      BY <1>3, <1>4, <1>6, <2>2, <3>1, ReportSound
  <2>4. RefineTypes' /\ RefineNoWorse'
    BY <1>1, <1>3, <1>4, <2>1 DEF RefineTypes, RefinePlaces, RefineNoWorse
  <2>5. QED
    BY <2>1, <2>3, <2>4 DEF RefineInv, AtClassical, AtFgmres
<1>7. QED
  BY <1>5, <1>6 DEF ClassicalOver

LEMMA ClassicalStepInv == ASSUME RefineInv, ClassicalStep PROVE RefineInv'
<1>1. /\ rpc = "classical" /\ iter < Cap /\ iter' = iter + 1
      /\ UNCHANGED <<set, start, column, used, most, inner, cycle_len>>
  BY DEF ClassicalStep
<1>2. /\ RefineTypes /\ RefineNoWorse /\ AtClassical /\ set \in Settings
      /\ xr \in [RCols -> Metrics] /\ start \in [RCols -> Metrics]
  BY DEF RefineInv, RefineTypes
<1>3. CASE \E escalate : ClassicalOver(xr, escalate)
  BY <1>1, <1>2, <1>3, ClassicalOverInv DEF RefineNoWorse
<1>4. CASE \E cand \in [RCols -> Metrics] :
             metric_score(Worst(cand)) < metric_score(Worst(xr)) /\ Improved(cand)
  <2>1. PICK cand \in [RCols -> Metrics] :
          metric_score(Worst(cand)) < metric_score(Worst(xr)) /\ Improved(cand)
    BY <1>4
  <2>2. metric_score(Worst(cand)) <= metric_score(Worst(start))
    <3>1. /\ metric_score(Worst(cand)) \in Nat /\ metric_score(Worst(xr)) \in Nat
          /\ metric_score(Worst(start)) \in Nat
      BY <1>2, ScoreOfWorst
    <3>2. QED
      BY <1>2, <2>1, <3>1 DEF RefineNoWorse
  <2>3. CASE \E escalate : ClassicalOver(cand, escalate)
    BY <1>1, <2>2, <2>3, ClassicalOverInv
  <2>4. CASE xr' = cand /\ rpc' = rpc /\ iter' # Cap
    <3>1. /\ iter \in Nat /\ iter' \in Nat /\ Cap \in Nat /\ Cap' = Cap /\ iter' <= Cap
      BY <1>1, <1>2, CapBounds DEF RefineTypes, Cap
    <3>2. RefineTypes' /\ RefineNoWorse'
      BY <1>1, <1>2, <2>2, <2>4, <3>1 DEF RefineTypes, RefineNoWorse
    <3>3. AtClassical' /\ AtFgmres' /\ RefineSound'
      BY <1>1, <1>2, <2>4, <3>1, NotDone DEF AtClassical, AtFgmres
    <3>4. QED
      BY <1>1, <2>4, <3>2, <3>3 DEF RefineInv
  <2>5. (\E escalate : ClassicalOver(cand, escalate)) \/ (xr' = cand /\ rpc' = rpc /\ iter' # Cap)
    BY <2>1 DEF Improved
  <2>6. QED
    BY <2>3, <2>4, <2>5
<1>5. (\E escalate : ClassicalOver(xr, escalate))
      \/ \E cand \in [RCols -> Metrics] :
           metric_score(Worst(cand)) < metric_score(Worst(xr)) /\ Improved(cand)
  BY DEF ClassicalStep, Best
<1>6. QED
  BY <1>3, <1>4, <1>5

LEMMA NoStepsInv == ASSUME RefineInv, NoSteps PROVE RefineInv'
<1>1. /\ rpc = "classical" /\ Cap = 0 /\ Report(0, xr) /\ rpc' = "done"
      /\ UNCHANGED <<set, xr, start, iter, used, most, inner, cycle_len, column>>
      /\ RefineTypes /\ RefineNoWorse /\ set \in Settings
  BY DEF RefineInv, NoSteps, Report, RefineTypes
<1>2. /\ set.refinement_max_iters \in Nat /\ set.refine_max_steps \in Nat
      /\ set.refinement_max_iters = 0 \/ (set.method = "Auto" /\ set.refine_max_steps = 0)
  BY <1>1, SettingsTyped, CapBounds
<1>3. RefineSound'
  <2>1. 0 <= IF set.method = "Classical" THEN set.refinement_max_iters ELSE set.refine_max_steps
    BY <1>2
  <2>2. /\ force_step /\ set.refinement_max_iters > 0
        /\ (set.method = "Classical" \/ (set.method = "Auto" /\ set.refine_max_steps > 0))
        => 0 >= 1
    BY <1>2
  <2>3. QED
    BY <1>1, <2>1, <2>2, ReportSound DEF RefineNoWorse
<1>4. QED
  BY <1>1, <1>3 DEF RefineInv, RefineTypes, RefinePlaces, RefineNoWorse, AtClassical, AtFgmres

\* In the FGMRES phase: the budget is what classical refinement left.
LEMMA FgmresFacts ==
  ASSUME RefineInv, rpc \in {"fgmres", "cycle", "arnoldi"}
  PROVE  /\ set \in Settings /\ set.method \in {"Fgmres", "Auto"}
         /\ set.refine_max_steps \in Nat /\ set.fgmres_restart \in Nat
         /\ iter \in Nat /\ used \in Nat /\ most \in Nat /\ inner \in Nat /\ cycle_len \in Nat
         /\ column \in 0 .. RefineColumns
         /\ Budget \in Nat /\ Budget = set.refine_max_steps - iter
         /\ used <= Budget /\ most <= Budget /\ (set.method = "Auto" => iter >= 1)
         /\ RefineTypes /\ RefineNoWorse
<1>1. RefineTypes /\ AtFgmres /\ set \in Settings /\ RefineNoWorse
  BY DEF RefineInv, RefineTypes
<1>2. /\ set.method \in {"Fgmres", "Auto"} /\ set.refine_max_steps \in Nat
      /\ set.fgmres_restart \in Nat
  BY <1>1, SettingsTyped DEF AtFgmres
<1>3. Budget = set.refine_max_steps - iter /\ iter <= set.refine_max_steps /\ iter \in Nat
  BY <1>1 DEF Budget, AtFgmres, RefineTypes
<1>4. Budget \in Nat
  BY <1>2, <1>3
<1>5. QED
  BY <1>1, <1>2, <1>3, <1>4 DEF AtFgmres, RefineTypes

\* The facts AtFgmres asks of the next state, when the settings and the classical
\* steps stay.
LEMMA FgmresGoesOn ==
  ASSUME RefineInv, rpc \in {"fgmres", "cycle", "arnoldi"}, rpc' \in {"fgmres", "cycle", "arnoldi"},
         UNCHANGED <<set, iter, start>>, xr' \in [RCols -> Metrics],
         metric_score(Worst(xr')) <= metric_score(Worst(start)),
         used' \in Nat, most' \in Nat, inner' \in Nat, cycle_len' \in Nat,
         column' \in 0 .. RefineColumns,
         used' <= Budget, most' <= Budget, rpc' # "fgmres" => column' >= 1,
         rpc' = "arnoldi" => inner' < cycle_len' /\ used' + (cycle_len' - inner') <= Budget
  PROVE  RefineInv'
<1>1. Budget' = Budget
  BY DEF Budget
<1>2. RefineTypes' /\ RefineNoWorse' /\ RefineSound'
  BY FgmresFacts, NotDone DEF RefineTypes, RefinePlaces, RefineNoWorse
<1>3. AtFgmres'
  BY <1>1 DEF RefineInv, AtFgmres
<1>4. QED
  BY <1>2, <1>3 DEF RefineInv, AtClassical

LEMMA NextColumnInv == ASSUME RefineInv, NextColumn PROVE RefineInv'
<1>1. rpc = "fgmres" /\ UNCHANGED <<set, xr, start, iter, inner, cycle_len>>
  BY DEF NextColumn
<1>2. /\ set \in Settings /\ set.method \in {"Fgmres", "Auto"}
      /\ set.refine_max_steps \in Nat
      /\ iter \in Nat /\ used \in Nat /\ most \in Nat /\ inner \in Nat /\ cycle_len \in Nat
      /\ column \in 0 .. RefineColumns
      /\ Budget \in Nat /\ Budget = set.refine_max_steps - iter
      /\ used <= Budget /\ most <= Budget /\ (set.method = "Auto" => iter >= 1)
      /\ RefineTypes /\ RefineNoWorse
  BY <1>1, FgmresFacts
<1> DEFINE m == Max({most, used})
<1>3. m \in Nat /\ m <= Budget
  <2>1. most \in Int /\ used \in Int
    BY <1>2
  <2>2. m \in {most, used}
    BY <2>1, MaxOfTwo
  <2> HIDE DEF m
  <2>3. QED
    BY <1>2, <2>2
<1>4. CASE column = RefineColumns /\ Report(iter + m, xr) /\ UNCHANGED <<column, used, most>>
  <2> HIDE DEF m
  <2>1. rpc' = "done"
    BY <1>4 DEF Report
  <2>2. iter + m <= IF set.method = "Classical" THEN set.refinement_max_iters
                    ELSE set.refine_max_steps
    BY <1>2, <1>3
  <2>3. /\ force_step /\ set.refinement_max_iters > 0
        /\ (set.method = "Classical" \/ (set.method = "Auto" /\ set.refine_max_steps > 0))
        => iter + m >= 1
    BY <1>2, <1>3
  <2>4. RefineSound'
    BY <1>1, <1>2, <1>4, <2>2, <2>3, ReportSound DEF RefineNoWorse
  <2>5. QED
    BY <1>1, <1>2, <1>4, <2>1, <2>4 DEF RefineInv, RefineTypes, RefinePlaces, RefineNoWorse,
                                       AtClassical, AtFgmres
<1>5. CASE /\ column # RefineColumns
           /\ column' = column + 1 /\ used' = 0 /\ most' = m
           /\ rpc' \in {"fgmres", "cycle"}
  <2>1. column' \in 0 .. RefineColumns /\ column' >= 1
    BY <1>2, <1>5, RefineAssumption
  <2> HIDE DEF m
  <2>2. used' \in Nat /\ used' <= Budget /\ most' \in Nat /\ most' <= Budget
    BY <1>2, <1>3, <1>5
  <2>3. xr' \in [RCols -> Metrics] /\ metric_score(Worst(xr')) <= metric_score(Worst(start))
    BY <1>1, <1>2 DEF RefineTypes, RefineNoWorse
  <2>4. UNCHANGED <<set, iter, start>> /\ inner' \in Nat /\ cycle_len' \in Nat
    BY <1>1, <1>2
  <2>5. QED
    BY <1>1, <1>5, <2>1, <2>2, <2>3, <2>4, FgmresGoesOn
<1>6. QED
  BY <1>4, <1>5 DEF NextColumn

LEMMA CycleInv == ASSUME RefineInv, Cycle PROVE RefineInv'
<1>1. /\ rpc = "cycle" /\ UNCHANGED <<set, xr, start, iter, column, used, most>>
      /\ rpc' \in {"fgmres", "arnoldi"} /\ (rpc' = "arnoldi" => used < Budget)
      /\ inner' = 0 /\ cycle_len' = Min({Max({1, set.fgmres_restart}), Budget - used})
  BY DEF Cycle
<1>2. /\ set.fgmres_restart \in Nat /\ iter \in Nat /\ used \in Nat /\ most \in Nat
      /\ column \in 0 .. RefineColumns
      /\ Budget \in Nat /\ used <= Budget /\ most <= Budget
      /\ RefineTypes /\ RefineNoWorse
  BY <1>1, FgmresFacts
<1> DEFINE r == set.fgmres_restart
           m == Max({1, r})
           left == Budget - used
<1>3. m \in Nat /\ m >= 1
  <2>1. r \in Int /\ 1 \in Int /\ r \in Nat
    BY <1>2
  <2> HIDE DEF r
  <2>2. m \in {1, r} /\ 1 <= m
    BY <2>1, MaxOfTwo
  <2> HIDE DEF m
  <2>3. QED
    BY <2>1, <2>2
<1>4. left \in Nat /\ (rpc' = "arnoldi" => left >= 1)
  BY <1>1, <1>2
<1>5. cycle_len' = Min({m, left})
  BY <1>1
<1> HIDE DEF m, r, left
<1>6. m \in Int /\ left \in Int
  BY <1>3, <1>4
<1>7. cycle_len' \in {m, left} /\ cycle_len' <= left
  BY <1>5, <1>6, MaxOfTwo
<1>8. /\ cycle_len' \in Nat
      /\ rpc' = "arnoldi" => inner' < cycle_len' /\ used' + (cycle_len' - inner') <= Budget
  BY <1>1, <1>2, <1>3, <1>4, <1>7 DEF left
<1>9. column' >= 1
  BY <1>1 DEF RefineInv, AtFgmres
<1>10. xr' \in [RCols -> Metrics] /\ metric_score(Worst(xr')) <= metric_score(Worst(start))
  BY <1>1, <1>2 DEF RefineTypes, RefineNoWorse
<1>11. QED
  BY <1>1, <1>2, <1>8, <1>9, <1>10, FgmresGoesOn

LEMMA ArnoldiInv == ASSUME RefineInv, Arnoldi PROVE RefineInv'
<1>1. /\ rpc = "arnoldi" /\ used' = used + 1 /\ inner' = inner + 1
      /\ UNCHANGED <<set, start, iter, column, most, cycle_len>>
      /\ rpc' \in {"fgmres", "cycle", "arnoldi"} /\ (rpc' = "arnoldi" => inner' # cycle_len)
      /\ xr' = xr \/ \E cand \in Metrics :
           Better(cand, xr[column]) /\ xr' = [xr EXCEPT ![column] = cand]
  BY DEF Arnoldi
<1>2. /\ iter \in Nat /\ used \in Nat /\ most \in Nat /\ inner \in Nat /\ cycle_len \in Nat
      /\ column \in 0 .. RefineColumns
      /\ Budget \in Nat /\ used <= Budget /\ most <= Budget
      /\ RefineTypes /\ RefineNoWorse
  BY <1>1, FgmresFacts
<1>3. column >= 1 /\ inner < cycle_len /\ used + (cycle_len - inner) <= Budget
  BY <1>1 DEF RefineInv, AtFgmres
<1>4. /\ used' \in Nat /\ used' <= Budget /\ inner' \in Nat
      /\ rpc' = "arnoldi" => inner' < cycle_len /\ used' + (cycle_len - inner') <= Budget
  BY <1>1, <1>2, <1>3
<1>5. /\ xr \in [RCols -> Metrics] /\ start \in [RCols -> Metrics] /\ column \in RCols
      /\ metric_score(Worst(xr)) <= metric_score(Worst(start))
  BY <1>2, <1>3 DEF RefineTypes, RefineNoWorse, RCols
<1>6. xr' \in [RCols -> Metrics] /\ metric_score(Worst(xr')) <= metric_score(Worst(start))
  <2>1. CASE xr' = xr
    BY <1>5, <2>1
  <2>2. ASSUME NEW cand \in Metrics, metric_score(cand) < metric_score(xr[column]),
               xr' = [xr EXCEPT ![column] = cand]
        PROVE  xr' \in [RCols -> Metrics] /\ metric_score(Worst(xr')) <= metric_score(Worst(start))
    <3>1. xr' \in [RCols -> Metrics]
      BY <1>5, <2>2
    <3>2. \A i \in RCols : xr[i] \in Errors /\ metric_score(xr[i]) \in Nat
      BY <1>5, MetricsAreErrors, ScoreBounds
    <3>3. metric_score(cand) \in Nat
      <4>1. cand \in Errors
        BY RefineAssumption DEF Errors
      <4>2. QED
        BY <4>1, ScoreBounds
    <3>4. \A i \in RCols : metric_score(xr'[i]) <= metric_score(xr[i])
      <4> TAKE i \in RCols
      <4>1. xr'[i] = IF i = column THEN cand ELSE xr[i]
        BY <1>5, <2>2
      <4>2. QED
        BY <2>2, <3>2, <3>3, <4>1
    <3>5. metric_score(Worst(xr')) <= metric_score(Worst(xr))
      BY <1>5, <3>1, <3>4, MetricsAreErrors, WorstMonotone
    <3>6. /\ metric_score(Worst(xr')) \in Nat /\ metric_score(Worst(xr)) \in Nat
          /\ metric_score(Worst(start)) \in Nat
      BY <1>5, <3>1, ScoreOfWorst
    <3>7. QED
      BY <1>5, <3>1, <3>5, <3>6
  <2>3. QED
    BY <1>1, <2>1, <2>2 DEF Better
<1>7. QED
  BY <1>1, <1>2, <1>3, <1>4, <1>6, FgmresGoesOn

LEMMA RefineNextInv == RefineInv /\ [RefineNext]_refineVars => RefineInv'
<1> SUFFICES ASSUME RefineInv, [RefineNext]_refineVars PROVE RefineInv'
  OBVIOUS
<1>1. CASE UNCHANGED refineVars
  <2>1. UNCHANGED <<set, rpc, xr, start, iter, column, used, most, inner, cycle_len, result>>
    BY <1>1 DEF refineVars
  <2>2. RefineTypes' /\ RefineNoWorse'
    BY <2>1 DEF RefineInv, RefineTypes, RefineNoWorse
  <2>3. AtClassical' /\ AtFgmres'
    BY <2>1 DEF RefineInv, AtClassical, AtFgmres, Cap, Budget
  <2>4. RefineSound'
    BY <2>1 DEF RefineInv, RefineSound, RefineHonest, RefineBudget, force_step
  <2>5. QED
    BY <2>1, <2>2, <2>3, <2>4 DEF RefineInv
<1>2. QED
  BY <1>1, RefineBeginInv, ClassicalStepInv, NoStepsInv, NextColumnInv, CycleInv, ArnoldiInv
     DEF RefineNext

\* What refine() returns is true of the x it leaves, which is never worse than
\* the one it was given, and its steps stay within the budget, whichever of the
\* classical steps, restarts and columns of FGMRES ended it (refine_core).
THEOREM RefineTheorem == Spec => []RefineSound
<1>1. Init => RefineInv
  BY RefineInitInv DEF Init
<1>2. RefineInv /\ [Next]_vars => RefineInv'
  <2>1. [Next]_vars => [RefineNext]_refineVars
    BY DEF Next, SolveTree, Caller, vars
  <2>2. QED
    BY <2>1, RefineNextInv
<1>3. RefineInv => RefineSound
  BY DEF RefineInv
<1>4. QED
  BY <1>1, <1>2, <1>3, PTL DEF Spec

-----------------------------------------------------------------------------
(* The tree: what is solved at each stage, and who holds what is not       *)

Sub     == UNION {ToSet(SubFronts[i]) : i \in DOMAIN SubFronts}
Wrote   == {f \in Fronts : x[f].is # "rhs"}
Solved  == {f \in Fronts : x[f].is = "solution"}

\* The updates row r should have received.
Updates(r) == {k \in Wrote : r \in Ext[k]}

Subtrees == {"forward_subtrees", "backward_subtrees"}
Tops     == {"forward_top", "backward_top"}

\* A job is under way; thread t has done its share of it.
Working    == cpc \notin {"out", "join", "destroyed"}
HasRun(t) == Working /\ share[t] # "run" /\ (t = 0 \/ seen[t] = generation)

Holds(t, f) == \E j \in DOMAIN todo[t] : todo[t][j] = f

TreeTypes ==
  /\ stage \in {Stages[i] : i \in DOMAIN Stages}
  /\ x \in [Fronts -> [upd : SUBSET (Fronts \cup {Twice}), is : {"rhs", "forward", "solution"}]]
  /\ top \in [Threads -> [TopRows -> SUBSET (Fronts \cup {Twice})]]
  /\ next \in Nat \ {0} /\ remaining \in Int /\ kids \in [TopRows -> Int]
  /\ ready \in Seq(TopRows) /\ todo \in [Threads -> Seq(Fronts)]
  /\ snap = [t \in Threads |-> snap[t]]

\* Where a thread may be in each job, and whether it has a front to run.
PlacesOf(s) ==
  IF s \in Subtrees THEN {"none", "claim", "front", "write"}
  ELSE IF s \in Tops THEN {"none", "poll", "empty", "pop", "front", "write", "processed"}
  ELSE IF s = "sum" THEN {"none", "sum"} ELSE {"none"}
Placed ==
  \A t \in Threads :
    /\ tpc[t] \in PlacesOf(stage)
    /\ tpc[t] \in {"front", "write"} => todo[t] # <<>>
    /\ tpc[t] \in {"none", "claim", "sum", "poll", "empty", "pop"} => todo[t] = <<>>
    /\ stage \in Tops => Len(todo[t]) <= 1

\* What a thread has read is still so when it writes.
SnapFresh ==
  \A t \in Threads : tpc[t] = "write" => snap[t] = [r \in RowsRead(todo[t][1]) |-> x[r]]

\* The progress from stage to stage.
Progress ==
  /\ stage = "forward_subtrees" => Solved = {} /\ Wrote \subseteq Sub /\ (~Working => Wrote = {})
  /\ stage = "sum" => Solved = {} /\ Wrote = Sub
  /\ stage = "forward_top" => Solved = {} /\ Sub \subseteq Wrote /\ (~Working => Wrote = Sub)
  /\ stage = "backward_top" =>
       Wrote = Fronts /\ Solved \subseteq TopRows /\ (~Working => Solved = {})
  /\ stage = "backward_subtrees" =>
       Wrote = Fronts /\ TopRows \subseteq Solved /\ (~Working => Solved = TopRows)
  /\ stage = "end" => Wrote = Fronts /\ Solved = Fronts

\* The updates are where the stage has them: in the rows, or in the threads'
\* buffers, whose slices are summed by the threads that are through.
Summed(r) == stage = "sum" /\ \E t \in Threads : HasRun(t) /\ r \in Slice(t)
InBuffers(r) ==
  /\ \A t \in Threads : top[t][r] \subseteq Fronts
  /\ \A t, u \in Threads : t # u => top[t][r] \cap top[u][r] = {}
  /\ UNION {top[t][r] : t \in Threads} = Updates(r)
RowInv ==
  /\ \A f \in Wrote : \A k \in Fronts : f \in Ext[k] => k \in Wrote
  /\ \A r \in Fronts :
       IF r \in TopRows /\ stage \in {"forward_subtrees", "sum"}
       THEN InBuffers(r) /\ x[r].upd = (IF Summed(r) THEN Updates(r) ELSE {})
       ELSE x[r].upd = Updates(r)

\* A thread holds the fronts it has left of a subtree it claimed; the other
\* claimed fronts are solved, and nobody else works on that subtree.
SubDone == IF stage = "forward_subtrees" THEN Wrote ELSE Solved
RestOf(t, i) ==
  /\ Len(todo[t]) <= Len(SubFronts[i])
  /\ \A j \in DOMAIN todo[t] :
       todo[t][j] = SubFronts[i][IF Forward THEN Len(SubFronts[i]) - Len(todo[t]) + j
                                            ELSE Len(todo[t]) + 1 - j]
ClaimInv ==
  /\ \A i \in DOMAIN SubFronts : \A k \in DOMAIN SubFronts[i] :
       SubFronts[i][k] \in SubDone <=>
         i < next /\ \A t \in Threads : ~Holds(t, SubFronts[i][k])
  /\ \A t \in Threads : todo[t] # <<>> => \E i \in DOMAIN SubFronts : i < next /\ RestOf(t, i)
  /\ \A i \in DOMAIN SubFronts : \A k, l \in DOMAIN SubFronts[i] : \A t, u \in Threads :
       Holds(t, SubFronts[i][k]) /\ Holds(u, SubFronts[i][l]) => t = u
  /\ \A t \in Threads : HasRun(t) => next > Len(SubFronts)

\* A top front is open when those it waits for are done and it is not: only
\* open fronts are queued or held, each once.
TopDone  == IF stage = "forward_top" THEN Wrote ELSE Solved
Prior(f) == IF stage = "forward_top" THEN ChildSet(f) ELSE {TopParent[f]} \ {NoFront}
Open(f)  == f \in TopRows \ TopDone /\ Prior(f) \subseteq TopDone
Counting == {t \in Threads : tpc[t] = "processed"}
TopInv ==
  /\ \A f \in TopRows \cap TopDone : Prior(f) \subseteq TopDone
  /\ \A i \in DOMAIN ready : Open(ready[i])
  /\ \A i, j \in DOMAIN ready : ready[i] = ready[j] => i = j
  /\ \A t \in Threads : todo[t] # <<>> =>
       Open(todo[t][1]) /\ \A i \in DOMAIN ready : ready[i] # todo[t][1]
  /\ \A t, u \in Threads : todo[t] # <<>> /\ todo[u] # <<>> /\ todo[t][1] = todo[u][1] => t = u
  /\ remaining = Cardinality(TopRows \ TopDone) + Cardinality(Counting)
  /\ \A t \in Threads : HasRun(t) => remaining = 0
  /\ stage = "forward_top" => \A p \in TopRows : kids[p] = Cardinality(ChildSet(p) \ Wrote)

JobInv ==
  /\ Working /\ stage \in Subtrees => ClaimInv
  /\ Working /\ stage \in Tops => TopInv
  /\ stage = "end" => ~Working

TreeInv == TreeTypes /\ Placed /\ SnapFresh /\ Progress /\ RowInv /\ JobInv

-----------------------------------------------------------------------------
(* The layout                                                              *)

\* Induction over Nat, for a set of numbers.
LEMMA Upwards ==
  ASSUME NEW P \in SUBSET Nat, 0 \in P, \A n \in P : n + 1 \in P
  PROVE  \A n \in Nat : n \in P
<1> DEFINE Bad == Nat \ P
<1>1. ASSUME Bad # {} PROVE FALSE
  <2>1. PICK n \in Bad : \A m \in Bad : ~(<<m, n>> \in OpToRel(<, Nat))
    BY <1>1, NatLessThanWellFounded, WFMin
  <2>2. n \in Nat /\ n \notin P /\ n # 0
    OBVIOUS
  <2>3. n - 1 \in Nat /\ n - 1 < n
    BY <2>2
  <2>4. n - 1 \notin Bad
    BY <2>1, <2>2, <2>3 DEF OpToRel
  <2>5. (n - 1) + 1 \in P
    BY <2>3, <2>4
  <2>6. QED
    BY <2>2, <2>5
<1>2. QED
  BY <1>1

\* A front is of one subtree or of the top.
LEMMA SubFacts ==
  /\ Fronts = Sub \cup TopRows /\ Sub \cap TopRows = {} /\ Sub \subseteq Fronts /\ TopRows \subseteq Fronts
  /\ NoFront \notin Fronts /\ Twice \notin Fronts
  /\ \A i \in DOMAIN SubFronts :
       /\ SubFronts[i] \in Seq(Fronts) /\ SubFronts[i] # <<>>
       /\ \A k \in DOMAIN SubFronts[i] : SubFronts[i][k] \in Sub
  /\ \A f \in Sub : \E i \in DOMAIN SubFronts : \E k \in DOMAIN SubFronts[i] : f = SubFronts[i][k]
<1>1. \A i \in DOMAIN SubFronts : SubFronts[i] \in Seq(Fronts)
  BY LayoutAssumption
<1>2. Fronts = Sub \cup TopRows
  BY DEF Fronts, Sub
<1>3. \A i \in DOMAIN SubFronts : ToSet(SubFronts[i]) \cap TopRows = {}
  BY LayoutAssumption
<1>4. Sub \cap TopRows = {}
  BY <1>3 DEF Sub
<1>5. NoFront \notin Fronts /\ Twice \notin Fronts
  BY LayoutAssumption DEF Twice
<1>6. \A i \in DOMAIN SubFronts : SubFronts[i] # <<>> /\ \A k \in DOMAIN SubFronts[i] : SubFronts[i][k] \in Sub
  BY LayoutAssumption DEF Sub, ToSet
<1>7. \A f \in Sub : \E i \in DOMAIN SubFronts : \E k \in DOMAIN SubFronts[i] : f = SubFronts[i][k]
  BY DEF Sub, ToSet
<1>8. QED
  BY <1>1, <1>2, <1>4, <1>5, <1>6, <1>7

\* The top's fronts are finitely many, each once.
LEMMA TopFacts ==
  /\ TopFronts \in Seq(TopRows) /\ Len(TopFronts) \in Nat
  /\ \A f \in TopRows : \E i \in 1 .. Len(TopFronts) : f = TopFronts[i]
  /\ IsFiniteSet(TopRows) /\ Cardinality(TopRows) = Len(TopFronts)
<1>1. TopFronts \in Seq(Fronts) /\ Len(TopFronts) \in Nat /\ DOMAIN TopFronts = 1 .. Len(TopFronts)
  BY LayoutAssumption
<1>2. /\ \A i \in 1 .. Len(TopFronts) : TopFronts[i] \in TopRows
      /\ \A f \in TopRows : \E i \in 1 .. Len(TopFronts) : f = TopFronts[i]
  BY <1>1 DEF TopRows, ToSet
<1>3. TopFronts \in [1 .. Len(TopFronts) -> TopRows]
  BY <1>1, <1>2
<1>4. TopFronts \in Seq(TopRows)
  BY <1>1, <1>3, IsASeq
<1>5. ExistsBijection(1 .. Len(TopFronts), TopRows)
  <2>1. TopFronts \in Bijection(1 .. Len(TopFronts), TopRows)
    BY <1>1, <1>2, <1>3, LayoutAssumption DEF Bijection, Injection, Surjection, IsInjective
  <2>2. QED
    BY <2>1 DEF ExistsBijection
<1>6. IsFiniteSet(1 .. Len(TopFronts)) /\ Cardinality(1 .. Len(TopFronts)) = Len(TopFronts)
  BY <1>1, FS_Interval
<1>7. IsFiniteSet(TopRows) /\ Cardinality(TopRows) = Len(TopFronts)
  BY <1>5, <1>6, FS_Bijection, FS_SameCardinalityBij
<1>8. QED
  BY <1>1, <1>2, <1>4, <1>7

\* The threads are numbered from the caller, 0.
LEMMA ThreadsFinite ==
  /\ IsFiniteSet(Threads) /\ Cardinality(Threads) \in Nat \ {0}
  /\ Threads = 0 .. Cardinality(Threads) - 1
<1> DEFINE n == Cardinality(Workers)
<1>1. n \in Nat /\ Workers = 1 .. n
  BY WorkersAssumption, FS_CardinalityType
<1> HIDE DEF n
<1>2. Threads = 0 .. n
  BY <1>1 DEF Threads
<1>3. IsFiniteSet(0 .. n) /\ Cardinality(0 .. n) = n + 1
  BY <1>1, FS_Interval
<1>4. QED
  BY <1>1, <1>2, <1>3

\* A top front updates later ones, of the top.
LEMMA ExtLater ==
  \A i \in 1 .. Len(TopFronts) : Ext[TopFronts[i]] \subseteq {TopFronts[j] : j \in i + 1 .. Len(TopFronts)}
<1> DEFINE n == Len(TopFronts)
           Later(i) == {TopFronts[j] : j \in i + 1 .. n}
           P == {m \in Nat : \A i \in 1 .. n : i > n - m => Ext[TopFronts[i]] \subseteq Later(i)}
<1>1. n \in Nat /\ DOMAIN TopFronts = 1 .. n
  BY TopFacts
<1>2. 0 \in P
  BY <1>1
<1>3. ASSUME NEW m \in P PROVE m + 1 \in P
  <2>1. SUFFICES ASSUME NEW i \in 1 .. n, i > n - (m + 1) PROVE Ext[TopFronts[i]] \subseteq Later(i)
    BY <1>1
  <2> DEFINE p == TopParent[TopFronts[i]]
  <2>2. CASE p = NoFront
    BY <1>1, <2>2, ExtAssumption
  <2>3. CASE p # NoFront
    <3>1. PICK j \in i + 1 .. n : TopFronts[j] = p
      BY <1>1, <2>3, ExtAssumption
    <3>2. Ext[TopFronts[i]] \subseteq {p} \cup Ext[p]
      BY <1>1, <2>3, ExtAssumption
    <3>3. Ext[p] \subseteq Later(j) /\ j \in 1 .. n
      BY <1>1, <2>1, <3>1
    <3>4. Later(j) \subseteq Later(i) /\ p \in Later(i)
      BY <1>1, <3>1
    <3>5. QED
      BY <3>2, <3>3, <3>4
  <2>4. QED
    BY <2>2, <2>3
<1>4. n \in P
  <2> HIDE DEF P
  <2>1. P \in SUBSET Nat
    BY DEF P
  <2>2. QED
    BY <1>1, <1>2, <1>3, <2>1, Upwards
<1>5. QED
  BY <1>1, <1>4

\* A front updates others than itself, a top front only the top.
LEMMA ExtFacts ==
  /\ \A f \in Fronts : Ext[f] \subseteq Fronts \ {f}
  /\ \A f \in TopRows : Ext[f] \subseteq TopRows
  /\ \A f \in TopRows : TopParent[f] \in TopRows \cup {NoFront} /\ TopParent[f] # f
<1>1. \A f \in TopRows : Ext[f] \subseteq TopRows \ {f}
  <2>1. SUFFICES ASSUME NEW f \in TopRows, NEW r \in Ext[f] PROVE r \in TopRows /\ r # f
    OBVIOUS
  <2>2. PICK i \in 1 .. Len(TopFronts) : f = TopFronts[i]
    BY TopFacts
  <2>3. PICK j \in i + 1 .. Len(TopFronts) : r = TopFronts[j]
    BY <2>2, ExtLater
  <2>4. j \in 1 .. Len(TopFronts) /\ j # i
    BY <2>2, <2>3, TopFacts
  <2>5. QED
    BY <2>2, <2>3, <2>4, TopFacts, LayoutAssumption
<1>2. \A f \in Sub : Ext[f] \subseteq Fronts \ {f}
  <2>1. SUFFICES ASSUME NEW i \in DOMAIN SubFronts, NEW k \in DOMAIN SubFronts[i],
                        NEW r \in Ext[SubFronts[i][k]]
                 PROVE  r \in Fronts /\ r # SubFronts[i][k]
    BY SubFacts
  <2>2. SubFronts[i] \in Seq(Fronts) /\ SubFronts[i][k] \in Sub
    BY SubFacts
  <2>3. CASE r \in TopRows
    BY <2>2, <2>3, SubFacts
  <2>4. CASE r \notin TopRows
    <3>1. PICK l \in k + 1 .. Len(SubFronts[i]) : r = SubFronts[i][l]
      BY <2>4, ExtAssumption
    <3>2. l \in DOMAIN SubFronts[i] /\ l # k
      BY <2>2, <3>1
    <3>3. QED
      BY <2>2, <3>1, <3>2, LayoutAssumption, SubFacts
  <2>5. QED
    BY <2>3, <2>4
<1>3. \A f \in TopRows : TopParent[f] # f
  <2>1. SUFFICES ASSUME NEW i \in 1 .. Len(TopFronts), TopParent[TopFronts[i]] = TopFronts[i]
                 PROVE  FALSE
    BY TopFacts
  <2>2. TopFronts[i] \in Fronts /\ TopFronts[i] # NoFront
    BY TopFacts, SubFacts
  <2>3. PICK j \in i + 1 .. Len(TopFronts) : TopFronts[j] = TopFronts[i]
    BY <2>1, <2>2, TopFacts, ExtAssumption
  <2>4. DOMAIN TopFronts = 1 .. Len(TopFronts) /\ Len(TopFronts) \in Nat
    BY TopFacts
  <2>5. i = j
    BY <2>3, <2>4, LayoutAssumption
  <2>6. QED
    BY <2>3, <2>4, <2>5
<1>4. QED
  BY <1>1, <1>2, <1>3, SubFacts, ExtAssumption

\* When the children of a top front are done, and those of every done front,
\* so are all the top fronts that update it.
LEMMA UpdatersDone ==
  ASSUME NEW D, \A p \in TopRows \cap D : ChildSet(p) \subseteq D,
         NEW f \in TopRows, ChildSet(f) \subseteq D
  PROVE  \A k \in TopRows : f \in Ext[k] => k \in D
<1> DEFINE n == Len(TopFronts)
           P == {m \in Nat : \A i \in 1 .. n : i > n - m /\ f \in Ext[TopFronts[i]] => TopFronts[i] \in D}
<1>1. n \in Nat /\ DOMAIN TopFronts = 1 .. n
  BY TopFacts
<1>2. 0 \in P
  BY <1>1
<1>3. ASSUME NEW m \in P PROVE m + 1 \in P
  <2>1. SUFFICES ASSUME NEW i \in 1 .. n, i > n - (m + 1), f \in Ext[TopFronts[i]]
                 PROVE  TopFronts[i] \in D
    BY <1>1
  <2> DEFINE p == TopParent[TopFronts[i]]
  <2>2. p # NoFront
    BY <1>1, <2>1, ExtAssumption
  <2>3. PICK j \in i + 1 .. n : TopFronts[j] = p
    BY <1>1, <2>2, ExtAssumption
  <2>4. f = p \/ f \in Ext[p]
    BY <1>1, <2>1, <2>2, ExtAssumption
  <2>5. TopFronts[i] \in ChildSet(p) /\ p \in TopRows
    BY <1>1, <2>3, TopFacts DEF ChildSet
  <2>6. CASE f = p
    BY <2>5, <2>6
  <2>7. CASE f \in Ext[p]
    <3>1. p \in D
      BY <1>1, <2>1, <2>3, <2>7
    <3>2. QED
      BY <2>5, <3>1
  <2>8. QED
    BY <2>4, <2>6, <2>7
<1>4. n \in P
  <2> HIDE DEF P
  <2>1. P \in SUBSET Nat
    BY DEF P
  <2>2. QED
    BY <1>1, <1>2, <1>3, <2>1, Upwards
<1>5. QED
  BY <1>1, <1>4, TopFacts

\* Fronts of the top can be put in their order: the fronts of S among the
\* first n of the top, for each n.
LEMMA OrderExists ==
  ASSUME NEW S \in SUBSET TopRows
  PROVE  \E s \in Seq(S) : ToSet(s) = S /\ \A i, j \in DOMAIN s : i < j => IsBefore(s[i], s[j])
<1> DEFINE n == Len(TopFronts)
           First(m) == {TopFronts[i] : i \in 1 .. m}
           Sorted(s) == \A i, j \in DOMAIN s : i < j => IsBefore(s[i], s[j])
           P == {m \in Nat : m <= n => \E s \in Seq(S) : ToSet(s) = S \cap First(m) /\ Sorted(s)}
<1>1. n \in Nat /\ DOMAIN TopFronts = 1 .. n
  BY TopFacts
<1>2. 0 \in P
  <2>1. <<>> \in Seq(S) /\ ToSet(<<>>) = {} /\ First(0) = {} /\ Sorted(<<>>)
    BY DEF ToSet
  <2>2. QED
    BY <2>1
<1>3. ASSUME NEW m \in P PROVE m + 1 \in P
  <2>1. SUFFICES ASSUME m + 1 <= n
                 PROVE  \E s \in Seq(S) : ToSet(s) = S \cap First(m + 1) /\ Sorted(s)
    OBVIOUS
  <2>2. PICK s \in Seq(S) : ToSet(s) = S \cap First(m) /\ Sorted(s)
    BY <1>1, <2>1
  <2> DEFINE f == TopFronts[m + 1]
  <2>3. First(m + 1) = First(m) \cup {f}
    BY <1>1, <2>1
  <2>4. CASE f \notin S
    BY <2>2, <2>3, <2>4
  <2>5. CASE f \in S
    <3> DEFINE e == Append(s, f)
    <3>1. /\ e \in Seq(S) /\ DOMAIN e = 1 .. Len(s) + 1 /\ e[Len(s) + 1] = f
          /\ DOMAIN s = 1 .. Len(s) /\ Len(s) \in Nat /\ \A i \in DOMAIN s : e[i] = s[i]
      BY <2>2, <2>5
    <3> HIDE DEF e
    <3>2. ToSet(e) = S \cap First(m + 1)
      <4>1. ToSet(e) = ToSet(s) \cup {f}
        BY <3>1 DEF ToSet
      <4>2. QED
        BY <2>2, <2>3, <2>5, <4>1
    <3>3. \A i \in DOMAIN s : IsBefore(s[i], f)
      <4>1. SUFFICES ASSUME NEW i \in DOMAIN s PROVE IsBefore(s[i], f)
        OBVIOUS
      <4>2. s[i] \in First(m)
        BY <2>2 DEF ToSet
      <4>3. PICK j \in 1 .. m : s[i] = TopFronts[j]
        BY <4>2
      <4>4. j < m + 1 /\ j \in DOMAIN TopFronts /\ m + 1 \in DOMAIN TopFronts
        BY <1>1, <2>1, <4>3
      <4>5. QED
        BY <4>3, <4>4 DEF IsBefore
    <3>4. Sorted(e)
      BY <2>2, <3>1, <3>3
    <3>5. QED
      BY <3>1, <3>2, <3>4
  <2>6. QED
    BY <2>4, <2>5
<1>4. n \in P
  <2> HIDE DEF P
  <2>1. P \in SUBSET Nat
    BY DEF P
  <2>2. QED
    BY <1>1, <1>2, <1>3, <2>1, Upwards
<1>5. S \cap First(n) = S
  BY TopFacts
<1>6. \E s \in Seq(S) : ToSet(s) = S \cap First(n) /\ Sorted(s)
  BY <1>1, <1>4
<1>7. QED
  <2> HIDE DEF First
  <2>1. QED
    BY <1>5, <1>6

\* InOrder(S) has each front of S once.
LEMMA OrderFacts ==
  ASSUME NEW S \in SUBSET TopRows
  PROVE  /\ InOrder(S) \in Seq(S) /\ Len(InOrder(S)) = Cardinality(S)
         /\ \A f \in S : \E i \in 1 .. Len(InOrder(S)) : InOrder(S)[i] = f
         /\ \A i, j \in 1 .. Len(InOrder(S)) : InOrder(S)[i] = InOrder(S)[j] => i = j
<1> DEFINE Sorted(s) == \A i, j \in DOMAIN s : i < j => IsBefore(s[i], s[j])
<1>1. \A a : ~IsBefore(a, a)
  BY TopFacts, LayoutAssumption DEF IsBefore
<1>2. ASSUME NEW s \in Seq(S), Sorted(s)
      PROVE  \A i, j \in 1 .. Len(s) : s[i] = s[j] => i = j
  <2>1. SUFFICES ASSUME NEW i \in 1 .. Len(s), NEW j \in 1 .. Len(s), s[i] = s[j], i # j PROVE FALSE
    OBVIOUS
  <2>2. i < j \/ j < i
    BY <2>1, <1>2, LenProperties
  <2>3. IsBefore(s[i], s[j]) \/ IsBefore(s[j], s[i])
    BY <1>2, <2>2, LenProperties
  <2>4. QED
    BY <1>1, <2>1, <2>3
<1>3. PICK s \in Seq(S) : ToSet(s) = S /\ Sorted(s)
  BY OrderExists
<1>4. Len(s) \in Nat /\ DOMAIN s = 1 .. Len(s) /\ s \in [1 .. Len(s) -> S]
  BY <1>3, LenProperties
<1>5. Len(s) = Cardinality(S)
  <2>1. s \in Bijection(1 .. Len(s), S)
    <3>1. \A f \in S : \E i \in 1 .. Len(s) : s[i] = f
      BY <1>3, <1>4 DEF ToSet
    <3>2. \A i, j \in 1 .. Len(s) : s[i] = s[j] => i = j
      BY <1>2, <1>3
    <3>3. QED
      BY <1>4, <3>1, <3>2 DEF Bijection, Injection, Surjection, IsInjective
  <2>2. ExistsBijection(1 .. Len(s), S)
    BY <2>1 DEF ExistsBijection
  <2>3. IsFiniteSet(1 .. Len(s)) /\ Cardinality(1 .. Len(s)) = Len(s)
    BY <1>4, FS_Interval
  <2>4. QED
    BY <2>2, <2>3, FS_SameCardinalityBij, FS_Bijection, TopFacts, FS_Subset
<1>6. \E o \in [1 .. Cardinality(S) -> S] : ToSet(o) = S /\ Sorted(o)
  BY <1>3, <1>4, <1>5
<1> DEFINE o == InOrder(S)
<1>7. o \in [1 .. Cardinality(S) -> S] /\ ToSet(o) = S /\ Sorted(o)
  BY <1>6 DEF InOrder
<1> HIDE DEF o
<1>8. o \in Seq(S) /\ Len(o) = Cardinality(S)
  BY <1>4, <1>5, <1>7, IsASeq
<1>9. \A f \in S : \E i \in 1 .. Len(o) : o[i] = f
  BY <1>7, <1>8 DEF ToSet
<1>10. \A i, j \in 1 .. Len(o) : o[i] = o[j] => i = j
  BY <1>2, <1>7, <1>8
<1>11. QED
  BY <1>8, <1>9, <1>10 DEF o

\* Multiplication keeps the order.
LEMMA ProductOrder ==
  ASSUME NEW n \in Nat, NEW a \in Nat, NEW c \in Nat, a <= c
  PROVE  n * a <= n * c /\ n * a \in Nat /\ n * c \in Nat
<1>1. PICK d \in Nat : c = a + d
  <2>1. c - a \in Nat /\ c = a + (c - a)
    OBVIOUS
  <2>2. QED
    BY <2>1
<1>2. n * c = n * a + n * d /\ n * d \in Nat /\ n * a \in Nat
  BY <1>1
<1>3. QED
  BY <1>2

\* Division keeps the order.
LEMMA QuotientOrder ==
  ASSUME NEW m \in Nat \ {0}, NEW a \in Nat, NEW c \in Nat, a <= c
  PROVE  a \div m <= c \div m /\ a \div m \in Nat /\ c \div m \in Nat
<1> DEFINE p == a \div m
           q == c \div m
<1>1. p \in Int /\ p * m <= a /\ q \in Int /\ q * m <= c
  OBVIOUS
<1>2. a < p * m + m /\ c < q * m + m
  OBVIOUS
<1>3. p >= 0 /\ q >= 0
  OBVIOUS
<1>4. p <= q
  <2> HIDE DEF p, q
  <2>1. SUFFICES ASSUME q + 1 <= p PROVE FALSE
    BY <1>1
  <2>2. m * (q + 1) <= m * p
    BY <1>1, <1>3, <2>1, ProductOrder
  <2>3. m * (q + 1) = q * m + m /\ m * p = p * m /\ q * m \in Int /\ p * m \in Int
    BY <1>1
  <2>4. QED
    BY <1>1, <1>2, <2>2, <2>3
<1>5. QED
  BY <1>1, <1>3, <1>4

\* The slices are a partition of the top's rows.
LEMMA SliceCover ==
  /\ \A r \in TopRows : \E t \in Threads : r \in Slice(t)
  /\ \A t, u \in Threads : t # u => Slice(t) \cap Slice(u) = {}
  /\ \A t \in Threads : Slice(t) \subseteq TopRows
<1> DEFINE n == Len(TopFronts)
           m == Cardinality(Threads)
           Lo(t) == (n * t) \div m
<1>1. n \in Nat /\ m \in Nat \ {0} /\ Threads = 0 .. m - 1 /\ DOMAIN TopFronts = 1 .. n
  BY TopFacts, ThreadsFinite
<1>2. \A t \in 0 .. m : Lo(t) \in Nat
  BY <1>1, ProductOrder, QuotientOrder
<1>3. \A t, u \in 0 .. m : t <= u => Lo(t) <= Lo(u)
  <2>1. SUFFICES ASSUME NEW t \in 0 .. m, NEW u \in 0 .. m, t <= u PROVE Lo(t) <= Lo(u)
    OBVIOUS
  <2> HIDE DEF n, m
  <2>2. n * t \in Nat /\ n * u \in Nat /\ n * t <= n * u
    BY <1>1, <2>1, ProductOrder
  <2>3. QED
    BY <1>1, <2>2, QuotientOrder
<1>4. Lo(0) = 0 /\ Lo(m) = n
  <2> HIDE DEF n, m
  <2>1. n * 0 = 0 /\ 0 \div m = 0
    BY <1>1
  <2>2. (n * m) \div m = n
    BY <1>1
  <2>3. QED
    BY <2>1, <2>2
<1>5. \A t \in Threads : Slice(t) = {TopFronts[i + 1] : i \in Lo(t) .. Lo(t + 1) - 1}
  BY DEF Slice
<1> HIDE DEF Lo, n, m
<1>6. ASSUME NEW i \in 0 .. n - 1 PROVE \E t \in Threads : i \in Lo(t) .. Lo(t + 1) - 1
  <2> DEFINE P == {t \in Nat : t <= m => Lo(t) <= i}
  <2>1. 0 \in P
    BY <1>1, <1>4, <1>6
  <2>2. m \notin P
    BY <1>1, <1>4, <1>6
  <2>3. \E t \in P : t + 1 \notin P
    <3> HIDE DEF P
    <3>1. P \in SUBSET Nat
      BY DEF P
    <3>2. QED
      BY <1>1, <2>1, <2>2, <3>1, Upwards
  <2>4. PICK t \in P : t + 1 \notin P
    BY <2>3
  <2>5. t + 1 \in Nat /\ t + 1 <= m /\ ~(Lo(t + 1) <= i) /\ Lo(t) <= i
    BY <1>1, <2>4
  <2>6. t \in Threads /\ Lo(t) \in Nat /\ Lo(t + 1) \in Nat
    BY <1>1, <1>2, <2>5
  <2>7. QED
    BY <1>6, <2>5, <2>6, <1>1
<1>7. ASSUME NEW t \in Threads, NEW u \in Threads, t # u PROVE Slice(t) \cap Slice(u) = {}
  <2>1. SUFFICES ASSUME NEW i \in Lo(t) .. Lo(t + 1) - 1, NEW j \in Lo(u) .. Lo(u + 1) - 1,
                        TopFronts[i + 1] = TopFronts[j + 1]
                 PROVE  FALSE
    BY <1>5
  <2>2. /\ t \in 0 .. m /\ t + 1 \in 0 .. m /\ u \in 0 .. m /\ u + 1 \in 0 .. m
        /\ Lo(t) \in Nat /\ Lo(t + 1) \in Nat /\ Lo(u) \in Nat /\ Lo(u + 1) \in Nat
        /\ Lo(t + 1) <= n /\ Lo(u + 1) <= n
    <3>1. t \in 0 .. m /\ t + 1 \in 0 .. m /\ u \in 0 .. m /\ u + 1 \in 0 .. m /\ m \in 0 .. m
      BY <1>1
    <3>2. QED
      BY <1>2, <1>3, <1>4, <3>1
  <2>3. i = j
    <3>1. i + 1 \in 1 .. n /\ j + 1 \in 1 .. n /\ i \in Int /\ j \in Int
      BY <1>1, <2>1, <2>2
    <3>2. i + 1 = j + 1
      BY <1>1, <2>1, <3>1, LayoutAssumption
    <3>3. QED
      BY <3>1, <3>2
  <2>4. t + 1 <= u \/ u + 1 <= t
    BY <1>1, <1>7
  <2>5. Lo(t + 1) <= Lo(u) \/ Lo(u + 1) <= Lo(t)
    BY <1>3, <2>2, <2>4
  <2>6. QED
    BY <2>1, <2>2, <2>3, <2>5
<1>8. \A r \in TopRows : \E i \in 0 .. n - 1 : r = TopFronts[i + 1]
  <2>1. SUFFICES ASSUME NEW r \in TopRows PROVE \E i \in 0 .. n - 1 : r = TopFronts[i + 1]
    OBVIOUS
  <2>2. PICK i \in 1 .. n : r = TopFronts[i]
    BY TopFacts DEF n
  <2>3. i - 1 \in 0 .. n - 1 /\ (i - 1) + 1 = i
    BY <1>1, <2>2
  <2>4. QED
    BY <2>2, <2>3
<1>9. \A t \in Threads : Slice(t) \subseteq TopRows
  <2>1. SUFFICES ASSUME NEW t \in Threads, NEW i \in Lo(t) .. Lo(t + 1) - 1 PROVE TopFronts[i + 1] \in TopRows
    BY <1>5
  <2>2. t \in 0 .. m /\ t + 1 \in 0 .. m /\ m \in 0 .. m
    BY <1>1
  <2>3. Lo(t) \in Nat /\ Lo(t + 1) \in Nat /\ Lo(t + 1) <= n
    BY <1>2, <1>3, <1>4, <2>2
  <2>4. i + 1 \in 1 .. n
    BY <1>1, <2>1, <2>3
  <2>5. QED
    BY <2>4, TopFacts DEF n
<1>10. QED
  BY <1>5, <1>6, <1>7, <1>8, <1>9

-----------------------------------------------------------------------------
(* The pool's steps and who has run                                        *)

\* A share runs only during a job.
LEMMA SharesAtWork ==
  ASSUME IInv, NEW t \in Threads, share[t] # "none"
  PROVE  Working
<1>1. CASE t = 0
  BY <1>1 DEF IInv, PoolInv, PoolPlaces, Working
<1>2. CASE t # 0
  <2>1. t \in Workers /\ wpc[t] = "share"
    BY <1>2 DEF Threads, IInv, PoolInv, PoolPlaces
  <2>2. ~stop
    BY <2>1 DEF IInv, PoolInv, PoolCounts
  <2>3. pending # 0
    BY <2>1, <2>2, ZeroMeansNone DEF IInv
  <2>4. QED
    BY <2>3 DEF IInv, PoolInv, PoolCounts, Working
<1>3. QED
  BY <1>1, <1>2

\* Between two jobs nobody is in a share; a new one nobody has run.
LEMMA StartRuns ==
  ASSUME IInv, Start
  PROVE  /\ ~Working /\ Working'
         /\ \A t \in Threads : ~HasRun(t)' /\ tpc[t] = "none"
<1>1. cpc = "out" /\ cpc' = "share" /\ generation' = generation + 1 /\ UNCHANGED seen
      /\ share' = [share EXCEPT ![0] = "run"]
  BY DEF Start, Publish
<1>2. \A w \in Workers : seen[w] = generation /\ share[w] = "none"
  BY <1>1, OutIsRunning, ZeroMeansNone DEF IInv
<1>3. share[0] = "none" /\ share'[0] = "run"
  BY <1>1, ZeroIsCaller DEF IInv, PoolInv, PoolPlaces, PoolTypes, SharePlaces
<1>4. \A t \in Threads : share[t] = "none"
  BY <1>2, <1>3 DEF Threads
<1>5. \A w \in Workers : seen'[w] # generation'
  BY <1>1, <1>2 DEF IInv, PoolInv, PoolTypes
<1>6. \A t \in Threads : ~HasRun(t)'
  BY <1>3, <1>5 DEF HasRun, Threads
<1>7. QED
  BY <1>1, <1>4, <1>6 DEF Working, IInv, SharesRun

\* The caller returns when everybody has run.
LEMMA ReturnRuns ==
  ASSUME IInv, Return
  PROVE  /\ Working /\ ~Working'
         /\ \A t \in Threads : HasRun(t) /\ tpc[t] = "none"
<1>1. cpc \in {"spin", "lock"} /\ pending = 0 /\ cpc' = "out"
  BY DEF Return, CallerSpin, CallerCheck
<1>2. ~stop
  BY <1>1 DEF IInv, PoolInv, PoolCounts
<1>3. \A w \in Workers : seen[w] = generation /\ share[w] = "none"
  BY <1>1, <1>2, ZeroMeansNone DEF IInv
<1>4. share[0] = "none"
  BY <1>1, ZeroIsCaller DEF IInv, PoolInv, PoolPlaces, PoolTypes, SharePlaces
<1>5. \A t \in Threads : share[t] = "none"
  BY <1>3, <1>4 DEF Threads
<1>6. Working /\ ~Working'
  BY <1>1 DEF Working
<1>7. \A t \in Threads : HasRun(t)
  BY <1>3, <1>5, <1>6 DEF HasRun, Threads
<1>8. QED
  BY <1>5, <1>6, <1>7 DEF IInv, SharesRun

\* Every other step of the pool leaves that as it is.
LEMMA PoolQuiet ==
  ASSUME IInv, CallerWaits \/ End \/ \E w \in Workers : Worker(w)
  PROVE  /\ UNCHANGED treeVars /\ (Working' <=> Working)
         /\ \A t \in Threads : HasRun(t)' <=> HasRun(t)
<1>1. UNCHANGED treeVars
  BY DEF CallerWaits, End, Worker
<1>2. CASE CallerWaits \/ End
  <2>1. /\ Working' <=> Working
        /\ UNCHANGED <<generation, seen>> \/ ~Working
    BY <1>2 DEF CallerWaits, End, CallerStep, CallerShareOver, CallerSpin, CallerCheck, CallerSleep,
                Destroy, Join, Working
  <2>2. \A t \in Threads : share'[t] = "run" <=> share[t] = "run"
    BY <1>2, ZeroIsCaller
    DEF CallerWaits, End, CallerStep, CallerShareOver, CallerSpin, CallerCheck, CallerSleep,
        Destroy, Join, IInv, PoolInv, PoolTypes
  <2>3. QED
    BY <1>1, <2>1, <2>2 DEF HasRun
<1>3. CASE \E w \in Workers : Worker(w)
  <2>1. PICK w \in Workers : WorkerStep(w)
    BY <1>3 DEF Worker
  <2>2. (Working' <=> Working) /\ UNCHANGED generation
    BY <2>1 DEF WorkerStep, Spin, Wait, Take, Finish, Notify, Working
  <2>3. CASE UNCHANGED <<share, seen>>
    BY <1>1, <2>2, <2>3 DEF HasRun
  <2>4. CASE Finish(w)
    <3>1. share[w] = "over" /\ share' = [share EXCEPT ![w] = "none"] /\ UNCHANGED seen
      BY <2>4 DEF Finish
    <3>2. \A t \in Threads : share'[t] = "run" <=> share[t] = "run"
      BY <3>1 DEF IInv, PoolInv, PoolTypes
    <3>3. QED
      BY <1>1, <2>2, <3>1, <3>2 DEF HasRun
  <2>5. CASE Take(w) /\ ~stop
    <3>1. wpc[w] = "take" /\ share' = [share EXCEPT ![w] = "run"] /\ seen' = [seen EXCEPT ![w] = generation]
      BY <2>5 DEF Take
    <3>2. seen[w] # generation /\ w # 0 /\ w \in Threads
      BY <3>1, ZeroIsCaller DEF IInv, PoolInv, PoolPlaces
    <3>3. share'[w] = "run" /\ \A t \in Threads \ {w} : share'[t] = share[t]
      BY <3>1, <3>2 DEF IInv, PoolInv, PoolTypes
    <3>4. \A t \in Workers \ {w} : seen'[t] = seen[t]
      BY <3>1 DEF IInv, PoolInv, PoolTypes
    <3>5. \A t \in Threads : HasRun(t)' <=> HasRun(t)
      BY <2>2, <3>2, <3>3, <3>4 DEF HasRun, Threads
    <3>6. QED
      BY <1>1, <2>2, <3>5
  <2>6. QED
    BY <2>1, <2>3, <2>4, <2>5 DEF WorkerStep, Spin, Wait, Take, Notify
<1>4. QED
  BY <1>2, <1>3

\* A step that leaves the pool alone changes nobody's run.
LEMMA ShareQuiet ==
  ASSUME UNCHANGED poolVars
  PROVE  (Working' <=> Working) /\ \A t \in Threads : HasRun(t)' <=> HasRun(t)
BY DEF poolVars, Working, HasRun

\* A thread that ends its share has run.
LEMMA OverRuns ==
  ASSUME IInv, NEW t \in Threads, share[t] = "run", Over(t)
  PROVE  /\ Working /\ Working' /\ HasRun(t)'
         /\ \A u \in Threads \ {t} : HasRun(u)' <=> HasRun(u)
<1>1. /\ UNCHANGED <<generation, seen, cpc>>
      /\ share'[t] = "over" /\ \A u \in Threads \ {t} : share'[u] = share[u]
  BY DEF Over, IInv, PoolInv, PoolTypes
<1>2. Working /\ Working'
  BY <1>1, SharesAtWork DEF Working
<1>3. t = 0 \/ seen[t] = generation
  BY DEF IInv, PoolInv, PoolPlaces, Threads
<1>4. QED
  BY <1>1, <1>2, <1>3 DEF HasRun

-----------------------------------------------------------------------------
(* The caller's steps                                                      *)

\* The stages in their order.
LEMMA StageNames ==
  /\ StageAfter("forward_subtrees") = "sum" /\ StageAfter("sum") = "forward_top"
  /\ StageAfter("forward_top") = "backward_top"
  /\ StageAfter("backward_top") = "backward_subtrees" /\ StageAfter("backward_subtrees") = "end"
  /\ {Stages[i] : i \in DOMAIN Stages} =
       {"forward_subtrees", "sum", "forward_top", "backward_top", "backward_subtrees", "end"}
<1>1. DOMAIN Stages = 1 .. 6
  BY DEF Stages
<1>2. /\ Stages[1] = "forward_subtrees" /\ Stages[2] = "sum" /\ Stages[3] = "forward_top"
      /\ Stages[4] = "backward_top" /\ Stages[5] = "backward_subtrees" /\ Stages[6] = "end"
  BY DEF Stages
<1>3. \A i \in 1 .. 6 : i = 1 \/ i = 2 \/ i = 3 \/ i = 4 \/ i = 5 \/ i = 6
  OBVIOUS
<1>4. \A s : StageAfter(s) = Stages[(CHOOSE i \in DOMAIN Stages : Stages[i] = s) + 1]
  BY DEF StageAfter
<1>5. StageAfter("forward_subtrees") = Stages[2]
  <2> DEFINE at == CHOOSE i \in DOMAIN Stages : Stages[i] = "forward_subtrees"
  <2>1. \A i \in 1 .. 6 : Stages[i] = "forward_subtrees" <=> i = 1
    BY <1>2, <1>3
  <2>2. at = 1
    BY <1>1, <2>1
  <2>3. StageAfter("forward_subtrees") = Stages[at + 1]
    BY <1>4
  <2> HIDE DEF at
  <2>4. QED
    BY <2>2, <2>3
<1>6. StageAfter("sum") = Stages[3]
  <2> DEFINE at == CHOOSE i \in DOMAIN Stages : Stages[i] = "sum"
  <2>1. \A i \in 1 .. 6 : Stages[i] = "sum" <=> i = 2
    BY <1>2, <1>3
  <2>2. at = 2
    BY <1>1, <2>1
  <2>3. StageAfter("sum") = Stages[at + 1]
    BY <1>4
  <2> HIDE DEF at
  <2>4. QED
    BY <2>2, <2>3
<1>7. StageAfter("forward_top") = Stages[4]
  <2> DEFINE at == CHOOSE i \in DOMAIN Stages : Stages[i] = "forward_top"
  <2>1. \A i \in 1 .. 6 : Stages[i] = "forward_top" <=> i = 3
    BY <1>2, <1>3
  <2>2. at = 3
    BY <1>1, <2>1
  <2>3. StageAfter("forward_top") = Stages[at + 1]
    BY <1>4
  <2> HIDE DEF at
  <2>4. QED
    BY <2>2, <2>3
<1>8. StageAfter("backward_top") = Stages[5]
  <2> DEFINE at == CHOOSE i \in DOMAIN Stages : Stages[i] = "backward_top"
  <2>1. \A i \in 1 .. 6 : Stages[i] = "backward_top" <=> i = 4
    BY <1>2, <1>3
  <2>2. at = 4
    BY <1>1, <2>1
  <2>3. StageAfter("backward_top") = Stages[at + 1]
    BY <1>4
  <2> HIDE DEF at
  <2>4. QED
    BY <2>2, <2>3
<1>9. StageAfter("backward_subtrees") = Stages[6]
  <2> DEFINE at == CHOOSE i \in DOMAIN Stages : Stages[i] = "backward_subtrees"
  <2>1. \A i \in 1 .. 6 : Stages[i] = "backward_subtrees" <=> i = 5
    BY <1>2, <1>3
  <2>2. at = 5
    BY <1>1, <2>1
  <2>3. StageAfter("backward_subtrees") = Stages[at + 1]
    BY <1>4
  <2> HIDE DEF at
  <2>4. QED
    BY <2>2, <2>3
<1> DEFINE Names == {Stages[i] : i \in DOMAIN Stages}
<1>11. \A i \in 1 .. 6 :
         Stages[i] \in {"forward_subtrees", "sum", "forward_top", "backward_top", "backward_subtrees", "end"}
  BY <1>2, <1>3
<1>12. Names \subseteq {"forward_subtrees", "sum", "forward_top", "backward_top", "backward_subtrees", "end"}
  BY <1>1, <1>11
<1>13. \A i \in 1 .. 6 : Stages[i] \in Names
  BY <1>1
<1> HIDE DEF Names
<1>14. 1 \in 1 .. 6 /\ 2 \in 1 .. 6 /\ 3 \in 1 .. 6 /\ 4 \in 1 .. 6 /\ 5 \in 1 .. 6 /\ 6 \in 1 .. 6
  OBVIOUS
<1>15. Names = {"forward_subtrees", "sum", "forward_top", "backward_top", "backward_subtrees", "end"}
  BY <1>2, <1>12, <1>13, <1>14
<1>16. QED
  BY <1>2, <1>5, <1>6, <1>7, <1>8, <1>9, <1>15 DEF Names

\* Everywhere a thread may be in no share.
LEMMA NoneAlways == \A s : "none" \in PlacesOf(s)
BY DEF PlacesOf

\* The invariant holds before the first job.
LEMMA TreeStart == Init => TreeInv
<1> SUFFICES ASSUME Init PROVE TreeInv
  OBVIOUS
<1>1. /\ stage = "forward_subtrees" /\ x = [f \in Fronts |-> [upd |-> {}, is |-> "rhs"]]
      /\ top = Zero /\ next = 1 /\ remaining = 0 /\ ready = <<>> /\ kids = [f \in TopRows |-> 0]
      /\ tpc = [t \in Threads |-> "none"] /\ todo = [t \in Threads |-> <<>>]
      /\ snap = [t \in Threads |-> <<>>] /\ cpc = "out"
  BY DEF Init, TreeInit, PoolInit
<1>9. next = 1 /\ remaining = 0 /\ kids = [f \in TopRows |-> 0]
  BY DEF Init, TreeInit
<1>2. ~Working /\ Wrote = {} /\ Solved = {}
  BY <1>1 DEF Working, Wrote, Solved
<1>3. TreeTypes
  <2>1. stage \in {Stages[i] : i \in DOMAIN Stages}
    BY <1>1, StageNames
  <2>2. x \in [Fronts -> [upd : SUBSET (Fronts \cup {Twice}), is : {"rhs", "forward", "solution"}]]
    BY <1>1
  <2>3. top \in [Threads -> [TopRows -> SUBSET (Fronts \cup {Twice})]]
    BY <1>1 DEF Zero
  <2>4. next \in Nat \ {0} /\ remaining \in Int
    BY <1>9
  <2>9. kids \in [TopRows -> Int]
    BY <1>9
  <2>7. <<>> \in Seq(TopRows) /\ <<>> \in Seq(Fronts)
    OBVIOUS
  <2>8. ready \in Seq(TopRows) /\ todo \in [Threads -> Seq(Fronts)]
    BY <1>1, <2>7
  <2>5. snap = [t \in Threads |-> snap[t]]
    BY <1>1
  <2>6. QED
    BY <2>1, <2>2, <2>3, <2>4, <2>5, <2>8, <2>9 DEF TreeTypes
<1>4. Placed /\ SnapFresh
  BY <1>1 DEF Placed, SnapFresh, PlacesOf, Subtrees, Tops
<1>5. Progress
  BY <1>1, <1>2 DEF Progress
<1>6. RowInv
  <2>1. \A r \in Fronts : Updates(r) = {} /\ x[r].upd = {}
    BY <1>1, <1>2 DEF Updates
  <2>2. \A r \in TopRows : InBuffers(r)
    BY <1>1, <2>1, SubFacts DEF InBuffers, Zero
  <2>3. QED
    BY <1>1, <1>2, <2>1, <2>2 DEF RowInv
<1>7. JobInv
  BY <1>1, <1>2 DEF JobInv
<1>8. QED
  BY <1>3, <1>4, <1>5, <1>6, <1>7 DEF TreeInv

\* The invariant is about the tree and who has run.
LEMMA TreeSame ==
  ASSUME TreeInv, UNCHANGED treeVars, Working' <=> Working,
         \A t \in Threads : HasRun(t)' <=> HasRun(t)
  PROVE  TreeInv'
<1>1. UNCHANGED <<stage, x, top, next, kids, ready, remaining, tpc, todo, snap>>
  BY DEF treeVars
<1>2. TreeTypes'
  BY <1>1 DEF TreeInv, TreeTypes
<1>3. Placed' /\ SnapFresh'
  <2>1. Placed'
    BY <1>1 DEF TreeInv, Placed
  <2>2. \A f : RowsRead(f)' = RowsRead(f)
    BY <1>1 DEF RowsRead, DirectRows, Forward, AtomicUpdates
  <2>3. SnapFresh'
    BY <1>1, <2>2 DEF TreeInv, SnapFresh
  <2>4. QED
    BY <2>1, <2>3
<1>4. Wrote' = Wrote /\ Solved' = Solved /\ \A r : Updates(r)' = Updates(r)
  BY <1>1 DEF Wrote, Solved, Updates
<1>5. Progress'
  BY <1>1, <1>4 DEF TreeInv, Progress
<1>6. RowInv'
  <2>1. \A r : (InBuffers(r)' <=> InBuffers(r)) /\ (Summed(r)' <=> Summed(r))
    BY <1>1, <1>4 DEF InBuffers, Summed
  <2>2. QED
    BY <1>1, <1>4, <2>1 DEF TreeInv, RowInv
<1>7. JobInv'
  <2>1. ClaimInv => ClaimInv'
    <3>1. SubDone' = SubDone /\ \A t, f : Holds(t, f)' <=> Holds(t, f)
      BY <1>1, <1>4 DEF SubDone, Holds
    <3>2. \A t, i : RestOf(t, i)' <=> RestOf(t, i)
      BY <1>1 DEF RestOf, Forward
    <3>3. QED
      BY <1>1, <3>1, <3>2 DEF ClaimInv
  <2>2. TopInv => TopInv'
    BY <1>1, <1>4 DEF TopInv, TopDone, Prior, Open, Counting
  <2>3. QED
    BY <1>1, <2>1, <2>2 DEF TreeInv, JobInv
<1>8. QED
  BY <1>2, <1>3, <1>5, <1>6, <1>7 DEF TreeInv

\* At the end of a job the stage's work is done: every subtree, or every
\* front of the top.
LEMMA SubtreesDone ==
  ASSUME TreeInv, Working, stage \in Subtrees, \A t \in Threads : HasRun(t) /\ tpc[t] = "none"
  PROVE  Sub \subseteq SubDone
<1>1. ClaimInv /\ \A t \in Threads : todo[t] = <<>>
  BY DEF TreeInv, JobInv, Placed
<1>2. next > Len(SubFronts) /\ next \in Nat /\ DOMAIN SubFronts = 1 .. Len(SubFronts) /\ Len(SubFronts) \in Nat
  BY <1>1, ZeroIsCaller, LayoutAssumption DEF ClaimInv, TreeInv, TreeTypes
<1>3. \A f : \A t \in Threads : ~Holds(t, f)
  BY <1>1 DEF Holds
<1>4. \A i \in DOMAIN SubFronts : \A k \in DOMAIN SubFronts[i] : SubFronts[i][k] \in SubDone
  BY <1>1, <1>2, <1>3 DEF ClaimInv
<1>5. QED
  BY <1>4, SubFacts

\* Two finite sets with no element between them.
LEMMA CardZero ==
  ASSUME NEW S, IsFiniteSet(S), NEW U, IsFiniteSet(U), Cardinality(S) + Cardinality(U) = 0
  PROVE  S = {}
BY FS_CardinalityType, FS_EmptySet

\* The threads between a node and its count are finitely many.
LEMMA CountingFinite == IsFiniteSet(Counting) /\ Cardinality(Counting) \in Nat
<1>1. Counting \subseteq Threads
  BY DEF Counting
<1>2. QED
  BY <1>1, ThreadsFinite, FS_Subset, FS_CardinalityType

\* So are the top's fronts that are not done.
LEMMA LeftFinite ==
  ASSUME NEW D
  PROVE  IsFiniteSet(TopRows \ D) /\ Cardinality(TopRows \ D) \in Nat
BY TopFacts, FS_Difference, FS_CardinalityType

\* At the end of a DAG run every front of the top is done.
LEMMA TopsDone ==
  ASSUME TreeInv, Working, stage \in Tops, \A t \in Threads : HasRun(t)
  PROVE  TopRows \subseteq TopDone
<1>1. TopInv
  BY DEF TreeInv, JobInv
<1>2. Cardinality(TopRows \ TopDone) + Cardinality(Counting) = 0
  BY <1>1, ZeroIsCaller DEF TopInv
<1>3. TopRows \ TopDone = {}
  BY <1>2, LeftFinite, CountingFinite, CardZero
<1>4. QED
  BY <1>3

\* The end of a job begins the next stage with what the job did.
LEMMA ReturnTree ==
  ASSUME IInv, TreeInv, Return
  PROVE  TreeInv'
<1>1. /\ Working /\ ~Working'
      /\ \A t \in Threads : HasRun(t) /\ tpc[t] = "none" /\ todo[t] = <<>>
  BY ReturnRuns DEF TreeInv, Placed
<1>2. UNCHANGED <<x, top, next, kids, ready, remaining, tpc, todo, snap>> /\ stage' = StageAfter(stage)
  BY DEF Return
<1>3. stage \in {"forward_subtrees", "sum", "forward_top", "backward_top", "backward_subtrees"}
  BY <1>1, StageNames DEF TreeInv, TreeTypes, JobInv
<1>4. Wrote' = Wrote /\ Solved' = Solved /\ \A r : Updates(r)' = Updates(r)
  BY <1>2 DEF Wrote, Solved, Updates
<1>5. TreeTypes'
  BY <1>2, <1>3, StageNames DEF TreeInv, TreeTypes
<1>6. Placed' /\ SnapFresh'
  <2>1. \A t \in Threads : tpc'[t] = "none" /\ todo'[t] = <<>>
    BY <1>1, <1>2
  <2>2. QED
    BY <2>1, NoneAlways DEF Placed, SnapFresh
<1>7. JobInv'
  BY <1>1 DEF JobInv
<1>8. /\ stage = "forward_subtrees" => Wrote = Sub
      /\ stage = "forward_top" => Wrote = Fronts
      /\ stage = "backward_top" => Solved = TopRows
      /\ stage = "backward_subtrees" => Solved = Fronts
  <2>1. CASE stage \in Subtrees
    BY <1>1, <2>1, SubtreesDone, SubFacts DEF Subtrees, SubDone, TreeInv, Progress, Solved
  <2>2. CASE stage \in Tops
    BY <1>1, <2>2, TopsDone, SubFacts DEF Tops, TopDone, TreeInv, Progress, Wrote
  <2>3. CASE stage = "sum"
    BY <2>3
  <2>4. QED
    BY <1>3, <2>1, <2>2, <2>3 DEF Subtrees, Tops
<1>9. Progress'
  BY <1>1, <1>2, <1>3, <1>4, <1>8, StageNames, SubFacts DEF TreeInv, Progress
<1>10. RowInv'
  <2>1. \A r : ~Summed(r)'
    BY <1>1 DEF Summed, HasRun
  <2>2. \A r : InBuffers(r)' <=> InBuffers(r)
    BY <1>2, <1>4 DEF InBuffers
  <2>3. CASE stage = "forward_subtrees"
    <3>1. \A r : ~Summed(r)
      BY <2>3 DEF Summed
    <3>2. QED
      BY <1>2, <1>4, <2>1, <2>2, <2>3, <3>1, StageNames DEF TreeInv, RowInv
  <2>4. CASE stage = "sum"
    <3>1. \A r \in TopRows : Summed(r)
      BY <1>1, <2>4, SliceCover DEF Summed
    <3>2. stage' = "forward_top"
      BY <1>2, <2>4, StageNames
    <3>3. \A r \in Fronts : x[r].upd = Updates(r)
      BY <2>4, <3>1 DEF TreeInv, RowInv
    <3>4. QED
      BY <1>2, <1>4, <3>2, <3>3 DEF TreeInv, RowInv
  <2>5. CASE stage \in {"forward_top", "backward_top", "backward_subtrees"}
    <3>1. stage' \notin {"forward_subtrees", "sum"}
      BY <1>2, <2>5, StageNames
    <3>2. QED
      BY <1>2, <1>4, <2>5, <3>1 DEF TreeInv, RowInv
  <2>6. QED
    BY <1>3, <2>3, <2>4, <2>5
<1>11. QED
  BY <1>5, <1>6, <1>7, <1>9, <1>10 DEF TreeInv

\* The lists a DAG run starts with.
LEMMA StartLists ==
  ASSUME TreeInv, Start, stage \in Tops
  PROVE  /\ \E S \in SUBSET TopRows :
              /\ ready' = InOrder(S)
              /\ S = {f \in TopRows : Prior(f) = {}}
         /\ remaining' = Cardinality(TopRows)
         /\ kids' = [f \in TopRows |-> Cardinality(ChildSet(f))]
<1> DEFINE S == {f \in TopRows : IF stage = "forward_top" THEN ChildSet(f) = {} ELSE TopParent[f] = NoFront}
<1>1. ready' = InOrder(S) /\ remaining' = Len(TopFronts) /\ kids' = [f \in TopRows |-> Len(Children(f))]
  BY DEF Start, Tops
<1>2. S = {f \in TopRows : Prior(f) = {}}
  BY DEF Prior
<1>3. \A f \in TopRows : Len(Children(f)) = Cardinality(ChildSet(f))
  <2>1. \A f \in TopRows : ChildSet(f) \in SUBSET TopRows
    BY DEF ChildSet
  <2>2. QED
    BY <2>1, OrderFacts DEF Children
<1>4. QED
  <2> HIDE DEF S
  <2>1. S \in SUBSET TopRows
    BY DEF S
  <2>2. QED
    BY <1>1, <1>2, <1>3, <2>1, TopFacts

\* A DAG run begins with the fronts that wait for nothing.
LEMMA StartTop ==
  ASSUME IInv, TreeInv, Start, stage \in Tops
  PROVE  TopInv' /\ ready' \in Seq(TopRows) /\ remaining' \in Int /\ kids' \in [TopRows -> Int]
<1>1. /\ ~Working
      /\ \A t \in Threads : ~HasRun(t)' /\ tpc[t] = "none" /\ todo[t] = <<>>
  BY StartRuns DEF TreeInv, Placed
<1>2. UNCHANGED <<stage, x, tpc, todo>>
  BY DEF Start
<1>3. TopDone' = TopDone /\ \A f : Prior(f)' = Prior(f)
  BY <1>2 DEF TopDone, Prior, Wrote, Solved
<1>4. TopDone \cap TopRows = {}
  BY <1>1, SubFacts DEF TreeInv, Progress, TopDone, Tops
<1>5. PICK S \in SUBSET TopRows : ready' = InOrder(S) /\ S = {f \in TopRows : Prior(f) = {}}
  BY StartLists
<1>6. remaining' = Cardinality(TopRows) /\ kids' = [f \in TopRows |-> Cardinality(ChildSet(f))]
  BY StartLists
<1>7. /\ ready' \in Seq(S) /\ DOMAIN ready' = 1 .. Len(ready')
      /\ \A i, j \in DOMAIN ready' : ready'[i] = ready'[j] => i = j
  <2>1. InOrder(S) \in Seq(S) /\ DOMAIN InOrder(S) = 1 .. Len(InOrder(S))
    BY <1>5, OrderFacts, LenProperties
  <2>2. \A i, j \in 1 .. Len(InOrder(S)) : InOrder(S)[i] = InOrder(S)[j] => i = j
    BY <1>5, OrderFacts
  <2>3. ready' = InOrder(S)
    BY <1>5
  <2>4. QED
    BY <2>1, <2>2, <2>3, Zenon
<1>8. \A i \in DOMAIN ready' : ready'[i] \in S
  BY <1>7
<1>9. \A f \in S : Open(f)'
  BY <1>3, <1>4, <1>5 DEF Open
<1>10. Counting' = {}
  BY <1>1, <1>2 DEF Counting
<1>11. TopRows \ TopDone' = TopRows
  BY <1>3, <1>4
<1>12. remaining' = Cardinality(TopRows \ TopDone') + Cardinality(Counting')
  <2>1. Cardinality(Counting') = 0 /\ Cardinality(TopRows) \in Nat
    BY <1>10, FS_EmptySet, TopFacts
  <2>2. QED
    BY <1>6, <1>11, <2>1
<1>13. stage = "forward_top" => \A p \in TopRows : kids'[p] = Cardinality(ChildSet(p) \ Wrote')
  <2>1. SUFFICES ASSUME stage = "forward_top", NEW p \in TopRows
                 PROVE  kids'[p] = Cardinality(ChildSet(p) \ Wrote')
    OBVIOUS
  <2>2. ChildSet(p) \ Wrote' = ChildSet(p)
    BY <1>2, <1>3, <1>4, <2>1 DEF TopDone, ChildSet
  <2>3. QED
    BY <1>6, <2>2
<1>14. TopInv'
  <2>1. \A f \in TopRows \cap TopDone' : Prior(f)' \subseteq TopDone'
    BY <1>3, <1>4
  <2>2. \A i \in DOMAIN ready' : Open(ready[i])'
    <3>1. \A f \in S : f \in TopRows \ TopDone' /\ Prior(f)' \subseteq TopDone'
      BY <1>9 DEF Open
    <3>2. QED
      BY <1>2, <1>3, <1>8, <3>1 DEF Open, Prior
  <2>3. \A t \in Threads : todo'[t] = <<>> /\ ~HasRun(t)'
    BY <1>1, <1>2
  <2>4. QED
    BY <1>2, <1>7, <1>12, <1>13, <2>1, <2>2, <2>3 DEF TopInv
<1>15. ready' \in Seq(TopRows)
  BY <1>5, <1>7
<1>16. \A f \in TopRows : Cardinality(ChildSet(f)) \in Int
  <2>1. \A f \in TopRows : ChildSet(f) \subseteq TopRows
    BY DEF ChildSet
  <2>2. QED
    BY <2>1, TopFacts, FS_Subset, FS_CardinalityType
<1>17. QED
  BY <1>6, <1>14, <1>15, <1>16, TopFacts

\* A job starts: nobody has run it.
LEMMA StartTree ==
  ASSUME IInv, TreeInv, Start
  PROVE  TreeInv'
<1>1. /\ ~Working /\ Working'
      /\ \A t \in Threads : ~HasRun(t)' /\ tpc[t] = "none" /\ todo[t] = <<>>
  BY StartRuns DEF TreeInv, Placed
<1>2. /\ UNCHANGED <<stage, x, tpc, todo, snap>> /\ next' = 1
      /\ top' = (IF stage = "forward_subtrees" THEN Zero ELSE top)
      /\ stage \notin Tops => UNCHANGED <<ready, remaining, kids>>
      /\ stage # "end"
  BY DEF Start, Tops
<1>3. /\ Wrote' = Wrote /\ Solved' = Solved /\ (\A r : Updates(r)' = Updates(r)) /\ SubDone' = SubDone
  BY <1>2 DEF Wrote, Solved, Updates, SubDone
<1>4. TreeTypes'
  <2>1. top' \in [Threads -> [TopRows -> SUBSET (Fronts \cup {Twice})]]
    BY <1>2 DEF Zero, TreeInv, TreeTypes
  <2>2. ready' \in Seq(TopRows) /\ remaining' \in Int /\ kids' \in [TopRows -> Int]
    BY <1>2, StartTop DEF TreeInv, TreeTypes
  <2>3. QED
    BY <1>2, <2>1, <2>2, SMTT(30) DEF TreeInv, TreeTypes
<1>5. Placed' /\ SnapFresh'
  <2>1. \A t \in Threads : tpc'[t] = "none" /\ todo'[t] = <<>>
    BY <1>1, <1>2
  <2>2. QED
    BY <2>1, NoneAlways DEF Placed, SnapFresh
<1>6. Progress'
  BY <1>1, <1>2, <1>3, SubFacts DEF TreeInv, Progress
<1>7. RowInv'
  <2>1. \A r : ~Summed(r)' /\ ~Summed(r)
    BY <1>1 DEF Summed, HasRun
  <2>2. CASE stage = "forward_subtrees"
    <3>1. Wrote = {} /\ \A r : Updates(r) = {}
      BY <1>1, <2>2 DEF TreeInv, Progress, Updates
    <3>2. \A r \in TopRows : InBuffers(r)'
      <4>1. \A r \in TopRows : \A t \in Threads : top'[t][r] = {}
        BY <1>2, <2>2 DEF Zero
      <4>2. QED
        BY <1>3, <3>1, <4>1 DEF InBuffers
    <3>3. QED
      BY <1>2, <1>3, <2>1, <2>2, <3>2 DEF TreeInv, RowInv
  <2>3. CASE stage # "forward_subtrees"
    <3>1. \A r : InBuffers(r)' <=> InBuffers(r)
      BY <1>2, <1>3, <2>3 DEF InBuffers
    <3>2. QED
      BY <1>2, <1>3, <2>1, <2>3, <3>1 DEF TreeInv, RowInv
  <2>4. QED
    BY <2>2, <2>3
<1>8. JobInv'
  <2>1. CASE stage \in Subtrees
    <3>1. SubDone \cap Sub = {}
      BY <1>1, <2>1, SubFacts DEF TreeInv, Progress, SubDone, Subtrees
    <3>2. \A i \in DOMAIN SubFronts : \A k \in DOMAIN SubFronts[i] : SubFronts[i][k] \notin SubDone'
      BY <1>3, <3>1, SubFacts
    <3>3. \A i \in DOMAIN SubFronts : ~(i < next')
      BY <1>2, LayoutAssumption
    <3>4. \A t \in Threads : todo'[t] = <<>> /\ ~HasRun(t)'
      BY <1>1, <1>2
    <3>5. \A t \in Threads : \A f : ~Holds(t, f)'
      BY <3>4 DEF Holds
    <3>6. ClaimInv'
      BY <3>2, <3>3, <3>4, <3>5 DEF ClaimInv
    <3>7. QED
      BY <1>2, <2>1, <3>6 DEF JobInv, Subtrees, Tops
  <2>2. CASE stage \in Tops
    BY <1>2, <2>2, StartTop DEF JobInv, Subtrees, Tops
  <2>3. CASE stage \notin Subtrees \cup Tops
    BY <1>2, <2>3 DEF JobInv, Subtrees, Tops
  <2>4. QED
    BY <2>1, <2>2, <2>3
<1>9. QED
  BY <1>4, <1>5, <1>6, <1>7, <1>8 DEF TreeInv

-----------------------------------------------------------------------------
(* The shares' steps that leave the rows alone                             *)

\* A step that writes no row keeps what is known of the rows.
LEMMA RowsKeep ==
  ASSUME TreeInv, UNCHANGED <<stage, x, top>>, Working' <=> Working,
         stage = "sum" => \A t \in Threads : HasRun(t)' <=> HasRun(t)
  PROVE  /\ Progress' /\ RowInv'
         /\ Wrote' = Wrote /\ Solved' = Solved /\ SubDone' = SubDone /\ TopDone' = TopDone
<1>1. Wrote' = Wrote /\ Solved' = Solved /\ \A r : Updates(r)' = Updates(r)
  BY DEF Wrote, Solved, Updates
<1>2. Progress'
  BY <1>1 DEF TreeInv, Progress
<1>3. \A r : (InBuffers(r)' <=> InBuffers(r)) /\ (Summed(r)' <=> Summed(r))
  BY <1>1 DEF InBuffers, Summed
<1>4. RowInv'
  BY <1>1, <1>3 DEF TreeInv, RowInv
<1>5. QED
  BY <1>1, <1>2, <1>4 DEF SubDone, TopDone

\* A step that writes no row keeps what was read fresh.
LEMMA SnapKeep ==
  ASSUME TreeInv, UNCHANGED <<stage, x, snap>>,
         \A t \in Threads : tpc'[t] = "write" => tpc[t] = "write" /\ todo'[t] = todo[t]
  PROVE  SnapFresh'
<1>1. \A f : RowsRead(f)' = RowsRead(f)
  BY DEF RowsRead, DirectRows, Forward, AtomicUpdates
<1>2. QED
  BY <1>1 DEF TreeInv, SnapFresh

\* A step that moves no front keeps the claims.
LEMMA ClaimKeep ==
  ASSUME ClaimInv, UNCHANGED <<stage, todo, next>>, SubDone' = SubDone,
         \A t \in Threads : HasRun(t)' => HasRun(t)
  PROVE  ClaimInv'
<1>1. \A t, f : Holds(t, f)' <=> Holds(t, f)
  BY DEF Holds
<1>2. \A t, i : RestOf(t, i)' <=> RestOf(t, i)
  BY DEF RestOf, Forward
<1>3. QED
  BY <1>1, <1>2 DEF ClaimInv

\* A step that moves no front of the top keeps the DAG's state.
LEMMA TopKeep ==
  ASSUME TopInv, UNCHANGED <<stage, todo, ready, remaining, kids>>, TopDone' = TopDone,
         Wrote' = Wrote, Counting' = Counting,
         \A t \in Threads : HasRun(t)' => HasRun(t) \/ remaining = 0
  PROVE  TopInv'
<1>1. \A f : Prior(f)' = Prior(f) /\ (Open(f)' <=> Open(f))
  BY DEF Prior, Open
<1>2. \A f \in TopRows \cap TopDone' : Prior(f)' \subseteq TopDone'
  BY <1>1 DEF TopInv
<1>3. \A i \in DOMAIN ready' : Open(ready[i])'
  BY <1>1 DEF TopInv, Open, Prior
<1>4. \A t \in Threads : todo'[t] # <<>> => Open(todo[t][1])' /\ \A i \in DOMAIN ready' : ready'[i] # todo'[t][1]
  BY <1>1 DEF TopInv, Open, Prior
<1>5. QED
  BY <1>2, <1>3, <1>4 DEF TopInv

\* Which stage a thread's place belongs to.
LEMMA PlaceStage ==
  ASSUME IInv, TreeInv, NEW t \in Threads, tpc[t] # "none"
  PROVE  /\ share[t] = "run" /\ Working /\ ~HasRun(t)
         /\ tpc[t] = "claim" => stage \in Subtrees
         /\ tpc[t] = "sum" => stage = "sum"
         /\ tpc[t] \in {"poll", "empty", "pop", "processed"} => stage \in Tops
         /\ tpc[t] \in {"front", "write"} => stage \in Subtrees \cup Tops
<1>1. share[t] = "run"
  BY DEF IInv, SharesRun
<1>2. Working /\ ~HasRun(t)
  BY <1>1, SharesAtWork DEF HasRun
<1>3. tpc[t] \in PlacesOf(stage)
  BY DEF TreeInv, Placed
<1>4. QED
  BY <1>1, <1>2, <1>3 DEF PlacesOf, Subtrees, Tops

\* A thread begins its share.
LEMMA BeginTree ==
  ASSUME IInv, TreeInv, NEW t \in Threads, Begin(t)
  PROVE  TreeInv'
<1>1. Working /\ stage # "end"
  BY SharesAtWork DEF Begin, TreeInv, JobInv
<1>2. (Working' <=> Working) /\ \A u \in Threads : HasRun(u)' <=> HasRun(u)
  BY ShareQuiet DEF Begin
<1>3. /\ UNCHANGED <<stage, x, top, next, kids, ready, remaining, todo, snap>>
      /\ tpc[t] = "none" /\ todo[t] = <<>>
  BY DEF Begin, TreeInv, Placed
<1>4. PICK p \in {"claim", "sum", "poll"} :
        /\ tpc' = [tpc EXCEPT ![t] = p] /\ p \in PlacesOf(stage)
  <2>1. CASE stage \in Subtrees
    BY <2>1 DEF Begin, PlacesOf, Subtrees
  <2>2. CASE stage = "sum"
    BY <2>2 DEF Begin, PlacesOf, Subtrees, Tops
  <2>3. CASE stage \in Tops
    BY <2>3 DEF Begin, PlacesOf, Subtrees, Tops
  <2>4. QED
    BY <1>1, <2>1, <2>2, <2>3, StageNames DEF TreeInv, TreeTypes, Subtrees, Tops
<1>5. tpc'[t] = p /\ \A u \in Threads \ {t} : tpc'[u] = tpc[u]
  BY <1>4 DEF IInv, SharesRun
<1>6. TreeTypes'
  BY <1>3 DEF TreeInv, TreeTypes
<1>7. Placed'
  BY <1>3, <1>4, <1>5 DEF TreeInv, Placed
<1>8. SnapFresh'
  BY <1>3, <1>4, <1>5, SnapKeep
<1>9. /\ Progress' /\ RowInv'
      /\ Wrote' = Wrote /\ Solved' = Solved /\ SubDone' = SubDone /\ TopDone' = TopDone
  BY <1>2, <1>3, RowsKeep
<1>10. JobInv'
  <2>1. Counting' = Counting
    BY <1>3, <1>4, <1>5 DEF Counting
  <2>2. ClaimInv => ClaimInv'
    BY <1>2, <1>3, <1>9, ClaimKeep
  <2>3. TopInv => TopInv'
    BY <1>2, <1>3, <1>9, <2>1, TopKeep
  <2>4. QED
    BY <1>2, <1>3, <2>2, <2>3 DEF TreeInv, JobInv
<1>11. QED
  BY <1>6, <1>7, <1>8, <1>9, <1>10 DEF TreeInv

\* A thread looks for a ready front.
LEMMA PollTree ==
  ASSUME IInv, TreeInv, NEW t \in Threads, Poll(t)
  PROVE  TreeInv'
<1>1. (Working' <=> Working) /\ \A u \in Threads : HasRun(u)' <=> HasRun(u)
  BY ShareQuiet DEF Poll
<1>2. UNCHANGED <<stage, x, top, next, kids, ready, remaining, todo, snap>> /\ tpc[t] = "poll"
  BY DEF Poll
<1>3. stage \in Tops /\ todo[t] = <<>>
  BY <1>2, PlaceStage DEF TreeInv, Placed
<1>4. PICK p \in {"empty", "pop"} : tpc' = [tpc EXCEPT ![t] = p]
  BY DEF Poll
<1>5. tpc'[t] = p /\ \A u \in Threads \ {t} : tpc'[u] = tpc[u]
  BY <1>4 DEF IInv, SharesRun
<1>6. TreeTypes'
  BY <1>2 DEF TreeInv, TreeTypes
<1>7. Placed'
  <2>1. p \in PlacesOf(stage)
    BY <1>3 DEF PlacesOf, Subtrees, Tops
  <2>2. QED
    BY <1>2, <1>3, <1>4, <1>5, <2>1 DEF TreeInv, Placed
<1>8. SnapFresh'
  BY <1>2, <1>4, <1>5, SnapKeep
<1>9. /\ Progress' /\ RowInv'
      /\ Wrote' = Wrote /\ Solved' = Solved /\ SubDone' = SubDone /\ TopDone' = TopDone
  BY <1>1, <1>2, RowsKeep
<1>10. JobInv'
  <2>1. Counting' = Counting
    BY <1>2, <1>4, <1>5 DEF Counting
  <2>2. TopInv => TopInv'
    BY <1>1, <1>2, <1>9, <2>1, TopKeep
  <2>3. QED
    BY <1>1, <1>2, <1>3, <2>2 DEF TreeInv, JobInv, Subtrees, Tops
<1>11. QED
  BY <1>6, <1>7, <1>8, <1>9, <1>10 DEF TreeInv

\* A thread that finds nothing ready and nothing remaining has run.
LEMMA EmptyTree ==
  ASSUME IInv, TreeInv, NEW t \in Threads, Empty(t)
  PROVE  TreeInv'
<1>1. UNCHANGED <<stage, x, top, next, kids, ready, remaining, todo, snap>> /\ tpc[t] = "empty"
  BY DEF Empty
<1>2. stage \in Tops /\ todo[t] = <<>> /\ share[t] = "run" /\ Working
  BY <1>1, PlaceStage DEF TreeInv, Placed
<1>3. PICK p \in {"none", "poll"} : /\ tpc' = [tpc EXCEPT ![t] = p]
                                     /\ IF remaining = 0 THEN Over(t) ELSE UNCHANGED poolVars
  BY DEF Empty
<1>4. /\ Working' <=> Working
      /\ \A u \in Threads : HasRun(u)' => HasRun(u) \/ remaining = 0
  BY <1>2, <1>3, OverRuns, ShareQuiet
<1>5. tpc'[t] = p /\ \A u \in Threads \ {t} : tpc'[u] = tpc[u]
  BY <1>3 DEF IInv, SharesRun
<1>6. TreeTypes'
  BY <1>1 DEF TreeInv, TreeTypes
<1>7. Placed'
  <2>1. p \in PlacesOf(stage)
    BY <1>2 DEF PlacesOf, Subtrees, Tops
  <2>2. QED
    BY <1>1, <1>2, <1>3, <1>5, <2>1 DEF TreeInv, Placed
<1>8. SnapFresh'
  BY <1>1, <1>3, <1>5, SnapKeep
<1>9. /\ Progress' /\ RowInv'
      /\ Wrote' = Wrote /\ Solved' = Solved /\ SubDone' = SubDone /\ TopDone' = TopDone
  BY <1>1, <1>2, <1>4, RowsKeep DEF Tops
<1>10. JobInv'
  <2>1. Counting' = Counting
    BY <1>1, <1>3, <1>5 DEF Counting
  <2>2. TopInv => TopInv'
    BY <1>1, <1>4, <1>9, <2>1, TopKeep
  <2>3. QED
    BY <1>1, <1>2, <1>4, <2>2 DEF TreeInv, JobInv, Subtrees, Tops
<1>11. QED
  BY <1>6, <1>7, <1>8, <1>9, <1>10 DEF TreeInv

\* A thread reads the rows of its front.
LEMMA ReadTree ==
  ASSUME IInv, TreeInv, NEW t \in Threads, Read(t)
  PROVE  TreeInv'
<1>1. (Working' <=> Working) /\ \A u \in Threads : HasRun(u)' <=> HasRun(u)
  BY ShareQuiet DEF Read
<1>2. /\ UNCHANGED <<stage, x, top, next, kids, ready, remaining, todo>> /\ tpc[t] = "front"
      /\ tpc' = [tpc EXCEPT ![t] = "write"]
      /\ snap' = [snap EXCEPT ![t] = [r \in RowsRead(Head(todo[t])) |-> x[r]]]
  BY DEF Read
<1>3. stage \in Subtrees \cup Tops /\ todo[t] # <<>> /\ todo[t] \in Seq(Fronts) /\ Working
  BY <1>2, PlaceStage DEF TreeInv, Placed, TreeTypes
<1>4. tpc'[t] = "write" /\ \A u \in Threads \ {t} : tpc'[u] = tpc[u]
  BY <1>2 DEF IInv, SharesRun
<1>5. TreeTypes'
  BY <1>2 DEF TreeInv, TreeTypes
<1>6. Placed'
  <2>1. "write" \in PlacesOf(stage)
    BY <1>3 DEF PlacesOf, Subtrees, Tops
  <2>2. QED
    BY <1>2, <1>3, <1>4, <2>1 DEF TreeInv, Placed
<1>7. SnapFresh'
  <2>1. \A f : RowsRead(f)' = RowsRead(f)
    BY <1>2 DEF RowsRead, DirectRows, Forward, AtomicUpdates
  <2>2. snap'[t] = [r \in RowsRead(todo[t][1]) |-> x[r]] /\ \A u \in Threads \ {t} : snap'[u] = snap[u]
    BY <1>2, <1>3 DEF TreeInv, TreeTypes
  <2>3. QED
    BY <1>2, <1>4, <2>1, <2>2 DEF TreeInv, SnapFresh
<1>8. /\ Progress' /\ RowInv'
      /\ Wrote' = Wrote /\ Solved' = Solved /\ SubDone' = SubDone /\ TopDone' = TopDone
  BY <1>1, <1>2, RowsKeep
<1>9. JobInv'
  <2>1. Counting' = Counting
    BY <1>2, <1>4 DEF Counting
  <2>2. ClaimInv => ClaimInv'
    BY <1>1, <1>2, <1>8, ClaimKeep
  <2>3. TopInv => TopInv'
    BY <1>1, <1>2, <1>8, <2>1, TopKeep
  <2>4. QED
    BY <1>1, <1>2, <2>2, <2>3 DEF TreeInv, JobInv
<1>10. QED
  BY <1>5, <1>6, <1>7, <1>8, <1>9 DEF TreeInv

\* The last ready front goes to one thread.
LEMMA PopTree ==
  ASSUME IInv, TreeInv, NEW t \in Threads, Pop(t)
  PROVE  TreeInv'
<1>1. (Working' <=> Working) /\ \A u \in Threads : HasRun(u)' <=> HasRun(u)
  BY ShareQuiet DEF Pop
<1>2. UNCHANGED <<stage, x, top, next, kids, remaining, snap>> /\ tpc[t] = "pop"
  BY DEF Pop
<1>3. stage \in Tops /\ todo[t] = <<>> /\ Working /\ TopInv
  BY <1>2, PlaceStage DEF TreeInv, Placed, JobInv
<1>4. /\ Progress' /\ RowInv'
      /\ Wrote' = Wrote /\ Solved' = Solved /\ SubDone' = SubDone /\ TopDone' = TopDone
  BY <1>1, <1>2, RowsKeep
<1>5. PICK p \in {"poll", "front"} : tpc' = [tpc EXCEPT ![t] = p]
  BY DEF Pop
<1>6. tpc'[t] = p /\ (\A u \in Threads \ {t} : tpc'[u] = tpc[u]) /\ p \in PlacesOf(stage)
  BY <1>3, <1>5 DEF IInv, SharesRun, PlacesOf, Subtrees, Tops
<1>7. Counting' = Counting
  BY <1>2, <1>5, <1>6 DEF Counting
<1>8. CASE ready = <<>>
  <2>1. p = "poll" /\ UNCHANGED <<ready, todo>>
    BY <1>5, <1>6, <1>8 DEF Pop, IInv, SharesRun
  <2>2. TreeTypes'
    BY <1>2, <2>1 DEF TreeInv, TreeTypes
  <2>3. Placed'
    BY <1>2, <1>3, <1>6, <2>1 DEF TreeInv, Placed
  <2>4. SnapFresh'
    BY <1>2, <1>6, <2>1, SnapKeep
  <2>5. TopInv'
    BY <1>1, <1>2, <1>3, <1>4, <1>7, <2>1, TopKeep
  <2>6. QED
    BY <1>1, <1>2, <1>3, <1>4, <2>2, <2>3, <2>4, <2>5 DEF TreeInv, JobInv, Subtrees, Tops
<1>9. CASE ready # <<>>
  <2> DEFINE n == Len(ready)
  <2>1. ready \in Seq(TopRows) /\ n \in Nat \ {0} /\ DOMAIN ready = 1 .. n
    BY <1>9 DEF TreeInv, TreeTypes
  <2>2. /\ p = "front" /\ todo' = [todo EXCEPT ![t] = <<ready[n]>>]
        /\ ready' = SubSeq(ready, 1, n - 1)
    BY <1>5, <1>6, <1>9 DEF Pop, IInv, SharesRun, Last, Front
  <2>3. /\ DOMAIN ready' = 1 .. n - 1 /\ ready' \in Seq(TopRows)
        /\ \A i \in 1 .. n - 1 : ready'[i] = ready[i]
    BY <2>1, <2>2, SubSeqProperties
  <2> HIDE DEF n
  <2>4. /\ todo'[t] = <<ready[n]>> /\ \A u \in Threads \ {t} : todo'[u] = todo[u]
        /\ ready[n] \in TopRows
    BY <2>1, <2>2 DEF TreeInv, TreeTypes
  <2>5. TreeTypes'
    <3>1. <<ready[n]>> \in Seq(Fronts)
      BY <2>4, SubFacts
    <3>2. todo' \in [Threads -> Seq(Fronts)]
      BY <2>2, <3>1 DEF TreeInv, TreeTypes
    <3>3. QED
      BY <1>2, <2>3, <3>2 DEF TreeInv, TreeTypes
  <2>6. Placed'
    <3>1. todo'[t] # <<>> /\ Len(todo'[t]) = 1
      BY <2>4
    <3>2. QED
      BY <1>2, <1>3, <1>6, <2>2, <2>4, <3>1 DEF TreeInv, Placed
  <2>7. SnapFresh'
    BY <1>2, <1>6, <2>2, <2>4, SnapKeep
  <2>8. \A f : Prior(f)' = Prior(f) /\ (Open(f)' <=> Open(f))
    BY <1>2, <1>4 DEF Prior, Open
  <2>9. TopInv'
    <3>1. \A f \in TopRows \cap TopDone' : Prior(f)' \subseteq TopDone'
      BY <1>3, <1>4, <2>8 DEF TopInv
    <3>2. \A i \in DOMAIN ready' : Open(ready[i])'
      <4>1. \A i \in 1 .. n - 1 : ready'[i] \in TopRows \ TopDone' /\ Prior(ready'[i])  \subseteq TopDone'
        BY <1>3, <1>4, <2>1, <2>3 DEF TopInv, Open
      <4>2. QED
        BY <1>2, <2>3, <4>1 DEF Open, Prior
    <3>3. \A i, j \in DOMAIN ready' : ready'[i] = ready'[j] => i = j
      BY <1>3, <2>1, <2>3 DEF TopInv
    <3>4. \A i \in DOMAIN ready' : ready'[i] # ready[n]
      BY <1>3, <2>1, <2>3 DEF TopInv
    <3>5. \A u \in Threads : todo'[u] # <<>> =>
            Open(todo[u][1])' /\ \A i \in DOMAIN ready' : ready'[i] # todo'[u][1]
      <4>1. SUFFICES ASSUME NEW u \in Threads, todo'[u] # <<>>
                     PROVE  Open(todo[u][1])' /\ \A i \in DOMAIN ready' : ready'[i] # todo'[u][1]
        OBVIOUS
      <4>2. CASE u = t
        <5>1. todo'[u][1] = ready[n] /\ Open(ready[n])
          BY <1>3, <2>1, <2>4, <4>2 DEF TopInv
        <5>2. QED
          BY <1>2, <1>4, <3>4, <5>1 DEF Open, Prior
      <4>3. CASE u # t
        <5>1. todo'[u] = todo[u] /\ Open(todo[u][1]) /\ \A i \in DOMAIN ready : ready[i] # todo[u][1]
          BY <1>3, <2>4, <4>1, <4>3 DEF TopInv
        <5>2. QED
          BY <1>2, <1>4, <2>1, <2>3, <5>1 DEF Open, Prior
      <4>4. QED
        BY <4>2, <4>3
    <3>6. ASSUME NEW u \in Threads, NEW v \in Threads, todo'[u] # <<>>, todo'[v] # <<>>,
                 todo'[u][1] = todo'[v][1]
          PROVE  u = v
      <4>1. \A w \in Threads \ {t} : todo'[w] # <<>> => todo'[w][1] # ready[n]
        BY <1>3, <2>1, <2>4 DEF TopInv
      <4>2. todo'[t][1] = ready[n]
        BY <2>4
      <4>3. CASE u # t /\ v # t
        BY <1>3, <2>4, <3>6, <4>3 DEF TopInv
      <4>4. QED
        BY <3>6, <4>1, <4>2, <4>3
    <3>7. remaining' = Cardinality(TopRows \ TopDone') + Cardinality(Counting')
      BY <1>2, <1>3, <1>4, <1>7 DEF TopInv
    <3>8. \A u \in Threads : HasRun(u)' => remaining' = 0
      BY <1>1, <1>2, <1>3 DEF TopInv
    <3>9. stage' = "forward_top" => \A q \in TopRows : kids'[q] = Cardinality(ChildSet(q) \ Wrote')
      BY <1>2, <1>3, <1>4 DEF TopInv
    <3>10. QED
      BY <3>1, <3>2, <3>3, <3>5, <3>6, <3>7, <3>8, <3>9 DEF TopInv
  <2>10. QED
    BY <1>1, <1>2, <1>3, <1>4, <2>5, <2>6, <2>7, <2>9 DEF TreeInv, JobInv, Subtrees, Tops
<1>10. QED
  BY <1>8, <1>9

\* A thread counts the node it processed.
LEMMA ProcessedTree ==
  ASSUME IInv, TreeInv, NEW t \in Threads, Processed(t)
  PROVE  TreeInv'
<1>1. (Working' <=> Working) /\ \A u \in Threads : HasRun(u)' <=> HasRun(u)
  BY ShareQuiet DEF Processed
<1>2. /\ UNCHANGED <<stage, x, top, next, kids, ready, todo, snap>> /\ tpc[t] = "processed"
      /\ remaining' = remaining - 1
      /\ tpc' = [tpc EXCEPT ![t] = IF todo[t] = <<>> THEN "poll" ELSE "front"]
  BY DEF Processed
<1>3. stage \in Tops /\ Working /\ TopInv
  BY <1>2, PlaceStage DEF TreeInv, JobInv
<1>4. /\ Progress' /\ RowInv'
      /\ Wrote' = Wrote /\ Solved' = Solved /\ SubDone' = SubDone /\ TopDone' = TopDone
  BY <1>1, <1>2, RowsKeep
<1>5. /\ tpc'[t] = (IF todo[t] = <<>> THEN "poll" ELSE "front")
      /\ \A u \in Threads \ {t} : tpc'[u] = tpc[u]
  BY <1>2 DEF IInv, SharesRun
<1>6. TreeTypes'
  BY <1>2 DEF TreeInv, TreeTypes
<1>7. Placed'
  <2>1. tpc'[t] \in PlacesOf(stage)
    BY <1>3, <1>5 DEF PlacesOf, Subtrees, Tops
  <2>2. QED
    BY <1>2, <1>3, <1>5, <2>1 DEF TreeInv, Placed
<1>8. SnapFresh'
  BY <1>2, <1>5, SnapKeep
<1>9. t \in Counting /\ Counting' = Counting \ {t}
  BY <1>2, <1>5 DEF Counting
<1>10. Cardinality(Counting') = Cardinality(Counting) - 1 /\ Cardinality(Counting) # 0
  BY <1>9, CountingFinite, FS_RemoveElement, FS_EmptySet
<1> DEFINE L == Cardinality(TopRows \ TopDone)
           C == Cardinality(Counting)
<1>14. remaining = L + C /\ L \in Nat /\ C \in Nat
  BY <1>3, CountingFinite, LeftFinite DEF TopInv
<1>15. Cardinality(Counting') = C - 1 /\ C # 0 /\ Cardinality(TopRows \ TopDone') = L
  BY <1>4, <1>10
<1> HIDE DEF L, C
<1>11. \A u \in Threads : ~HasRun(u)
  <2>1. remaining # 0
    BY <1>14, <1>15
  <2>2. QED
    BY <1>3, <2>1 DEF TopInv
<1>12. TopInv'
  <2>1. \A f : Prior(f)' = Prior(f) /\ (Open(f)' <=> Open(f))
    BY <1>2, <1>4 DEF Prior, Open
  <2>2. \A f \in TopRows \cap TopDone' : Prior(f)' \subseteq TopDone'
    BY <1>3, <1>4, <2>1 DEF TopInv
  <2>3. \A i \in DOMAIN ready' : Open(ready[i])'
    BY <1>2, <1>3, <1>4 DEF TopInv, Open, Prior
  <2>4. \A u \in Threads : todo'[u] # <<>> =>
          Open(todo[u][1])' /\ \A i \in DOMAIN ready' : ready'[i] # todo'[u][1]
    BY <1>2, <1>3, <1>4 DEF TopInv, Open, Prior
  <2>5. remaining' = Cardinality(TopRows \ TopDone') + Cardinality(Counting')
    BY <1>2, <1>14, <1>15
  <2>6. \A u \in Threads : ~HasRun(u)'
    BY <1>1, <1>11
  <2>7. QED
    BY <1>2, <1>3, <1>4, <2>2, <2>3, <2>4, <2>5, <2>6 DEF TopInv
<1>13. QED
  BY <1>1, <1>2, <1>3, <1>4, <1>6, <1>7, <1>8, <1>12 DEF TreeInv, JobInv, Subtrees, Tops

\* What a thread holds comes from one claimed subtree.
LEMMA HeldFrom ==
  ASSUME TreeInv, NEW t \in Threads, NEW i \in DOMAIN SubFronts, RestOf(t, i), NEW f, Holds(t, f)
  PROVE  \E k \in DOMAIN SubFronts[i] : f = SubFronts[i][k]
<1>1. todo[t] \in Seq(Fronts) /\ DOMAIN todo[t] = 1 .. Len(todo[t]) /\ Len(todo[t]) \in Nat
  BY DEF TreeInv, TreeTypes
<1>2. DOMAIN SubFronts[i] = 1 .. Len(SubFronts[i]) /\ Len(SubFronts[i]) \in Nat
  BY SubFacts
<1>3. PICK j \in 1 .. Len(todo[t]) : f = todo[t][j]
  BY <1>1 DEF Holds
<1>4. CASE Forward
  <2>1. Len(SubFronts[i]) - Len(todo[t]) + j \in 1 .. Len(SubFronts[i])
    BY <1>1, <1>2, <1>3 DEF RestOf
  <2>2. QED
    BY <1>1, <1>2, <1>3, <1>4, <2>1 DEF RestOf
<1>5. CASE ~Forward
  <2>1. Len(todo[t]) + 1 - j \in 1 .. Len(SubFronts[i])
    BY <1>1, <1>2, <1>3 DEF RestOf
  <2>2. QED
    BY <1>1, <1>2, <1>3, <1>5, <2>1 DEF RestOf
<1>6. QED
  BY <1>4, <1>5

\* A subtree is claimed by one thread.
LEMMA ClaimTree ==
  ASSUME IInv, TreeInv, NEW t \in Threads, Claim(t)
  PROVE  TreeInv'
<1>1. UNCHANGED <<stage, x, top, kids, ready, remaining, snap>> /\ next' = next + 1 /\ tpc[t] = "claim"
  BY DEF Claim
<1>2. /\ stage \in Subtrees /\ todo[t] = <<>> /\ Working /\ ClaimInv /\ share[t] = "run"
      /\ next \in Nat \ {0} /\ DOMAIN SubFronts = 1 .. Len(SubFronts) /\ Len(SubFronts) \in Nat
  BY <1>1, PlaceStage, LayoutAssumption DEF TreeInv, Placed, JobInv, TreeTypes
<1>3. CASE next > Len(SubFronts)
  <2>1. Over(t) /\ UNCHANGED todo /\ tpc' = [tpc EXCEPT ![t] = "none"]
    BY <1>2, <1>3 DEF Claim
  <2>2. (Working' <=> Working) /\ HasRun(t)' /\ \A u \in Threads \ {t} : HasRun(u)' <=> HasRun(u)
    BY <1>2, <2>1, OverRuns
  <2>3. tpc'[t] = "none" /\ \A u \in Threads \ {t} : tpc'[u] = tpc[u]
    BY <2>1 DEF IInv, SharesRun
  <2>4. TreeTypes'
    BY <1>1, <1>2, <2>1 DEF TreeInv, TreeTypes
  <2>5. Placed'
    BY <1>1, <1>2, <2>1, <2>3, NoneAlways DEF TreeInv, Placed
  <2>6. SnapFresh'
    BY <1>1, <2>1, <2>3, SnapKeep
  <2>7. Progress' /\ RowInv' /\ SubDone' = SubDone
    BY <1>1, <1>2, <2>2, RowsKeep DEF Subtrees
  <2>8. ClaimInv'
    <3>1. \A u, f : Holds(u, f)' <=> Holds(u, f)
      BY <2>1 DEF Holds
    <3>2. \A u, i : RestOf(u, i)' <=> RestOf(u, i)
      BY <1>1, <2>1 DEF RestOf, Forward
    <3>3. \A i \in DOMAIN SubFronts : i < next /\ i < next' /\ next' > Len(SubFronts)
      BY <1>1, <1>2, <1>3
    <3>4. next' > Len(SubFronts)
      BY <1>1, <1>2, <1>3
    <3>5. QED
      BY <1>2, <2>1, <2>7, <3>1, <3>2, <3>3, <3>4 DEF ClaimInv
  <2>9. QED
    BY <1>1, <1>2, <2>2, <2>4, <2>5, <2>6, <2>7, <2>8 DEF TreeInv, JobInv, Subtrees, Tops
<1>4. CASE ~(next > Len(SubFronts))
  <2> DEFINE s == SubFronts[next]
             n == Len(s)
  <2>1. next \in DOMAIN SubFronts
    BY <1>2, <1>4
  <2>2. s \in Seq(Fronts) /\ s # <<>> /\ n \in Nat \ {0} /\ DOMAIN s = 1 .. n
    BY <2>1, SubFacts
  <2>3. /\ todo' = [todo EXCEPT ![t] = IF Forward THEN s ELSE Reverse(s)]
        /\ tpc' = [tpc EXCEPT ![t] = "front"] /\ UNCHANGED poolVars
    BY <1>2, <1>4 DEF Claim
  <2>4. Reverse(s) \in Seq(Fronts) /\ Len(Reverse(s)) = n /\ \A j \in 1 .. n : Reverse(s)[j] = s[n + 1 - j]
    <3>1. Reverse(s) = [j \in 1 .. n |-> s[n - j + 1]]
      BY DEF Reverse
    <3>2. \A j \in 1 .. n : n - j + 1 \in 1 .. n /\ n - j + 1 = n + 1 - j /\ s[n - j + 1] \in Fronts
      BY <2>2
    <3> HIDE DEF n, s
    <3>3. Reverse(s) \in [1 .. n -> Fronts]
      BY <3>1, <3>2
    <3>4. QED
      BY <2>2, <3>1, <3>2, <3>3, IsASeq
  <2>5. /\ todo'[t] \in Seq(Fronts) /\ Len(todo'[t]) = n /\ todo'[t] # <<>> /\ DOMAIN todo'[t] = 1 .. n
        /\ \A j \in 1 .. n : todo'[t][j] = s[IF Forward THEN j ELSE n + 1 - j]
        /\ \A u \in Threads \ {t} : todo'[u] = todo[u]
    <3> HIDE DEF n, s
    <3>1. todo'[t] = (IF Forward THEN s ELSE Reverse(s)) /\ \A u \in Threads \ {t} : todo'[u] = todo[u]
      BY <2>3 DEF TreeInv, TreeTypes
    <3>2. CASE Forward
      BY <2>2, <3>1, <3>2 DEF n
    <3>3. CASE ~Forward
      <4>1. DOMAIN Reverse(s) = 1 .. n /\ Reverse(s) # <<>>
        BY <2>2, <2>4
      <4>2. QED
        BY <2>2, <2>4, <3>1, <3>3, <4>1
    <3>4. QED
      BY <3>2, <3>3
  <2>6. tpc'[t] = "front" /\ \A u \in Threads \ {t} : tpc'[u] = tpc[u]
    BY <2>3 DEF IInv, SharesRun
  <2>7. (Working' <=> Working) /\ \A u \in Threads : HasRun(u)' <=> HasRun(u)
    BY <2>3, ShareQuiet
  <2>8. TreeTypes'
    <3>1. todo' \in [Threads -> Seq(Fronts)]
      BY <2>3, <2>5 DEF TreeInv, TreeTypes
    <3>2. QED
      BY <1>1, <1>2, <3>1 DEF TreeInv, TreeTypes
  <2>9. Placed'
    <3>1. "front" \in PlacesOf(stage)
      BY <1>2 DEF PlacesOf, Subtrees, Tops
    <3>2. QED
      BY <1>1, <1>2, <2>5, <2>6, <3>1 DEF TreeInv, Placed, Subtrees, Tops
  <2>10. SnapFresh'
    BY <1>1, <2>5, <2>6, SnapKeep
  <2>11. Progress' /\ RowInv' /\ SubDone' = SubDone
    BY <1>1, <2>7, RowsKeep
  <2>12. ClaimInv'
    <3> HIDE DEF n
    <3>1. ASSUME NEW u \in Threads \ {t}, NEW f PROVE Holds(u, f)' <=> Holds(u, f)
      BY <2>5 DEF Holds
    <3>2. \A f : Holds(t, f)' <=> \E k \in DOMAIN s : f = s[k]
      <4>1. SUFFICES ASSUME NEW f PROVE Holds(t, f)' <=> \E k \in 1 .. n : f = s[k]
        BY <2>2
      <4>2. \A k \in 1 .. n : n + 1 - k \in 1 .. n /\ n + 1 - (n + 1 - k) = k
        BY <2>2
      <4>3. Holds(t, f)' <=> \E j \in 1 .. n : f = s[IF Forward THEN j ELSE n + 1 - j]
        <5>1. Holds(t, f)' <=> \E j \in 1 .. n : f = todo'[t][j]
          BY <2>5 DEF Holds
        <5>2. \A j \in 1 .. n : todo'[t][j] = s[IF Forward THEN j ELSE n + 1 - j]
          BY <2>5
        <5> HIDE DEF s
        <5>3. QED
          BY <5>1, <5>2
      <4> HIDE DEF s
      <4>4. QED
        BY <4>2, <4>3
    <3>3. \A i \in DOMAIN SubFronts : \A k \in DOMAIN SubFronts[i] : Holds(t, SubFronts[i][k])' <=> i = next
      BY <2>1, <3>2, LayoutAssumption
    <3>4. \A f : ~Holds(t, f)
      BY <1>2 DEF Holds
    <3>5. \A k \in DOMAIN s : \A u \in Threads \ {t} : ~Holds(u, s[k])
      <4>1. SUFFICES ASSUME NEW k \in DOMAIN s, NEW u \in Threads \ {t}, Holds(u, s[k]) PROVE FALSE
        OBVIOUS
      <4>2. todo[u] # <<>>
        BY <4>1 DEF Holds
      <4>3. PICK i \in DOMAIN SubFronts : i < next /\ RestOf(u, i)
        BY <1>2, <4>2 DEF ClaimInv
      <4>4. PICK l \in DOMAIN SubFronts[i] : s[k] = SubFronts[i][l]
        BY <4>1, <4>3, HeldFrom
      <4>5. i = next
        BY <2>1, <4>4, LayoutAssumption
      <4>6. QED
        BY <1>2, <4>3, <4>5
    <3>6. ASSUME NEW i \in DOMAIN SubFronts, NEW k \in DOMAIN SubFronts[i]
          PROVE  SubFronts[i][k] \in SubDone' <=> i < next' /\ \A u \in Threads : ~Holds(u, SubFronts[i][k])'
      <4>1. SubFronts[i][k] \in SubDone <=> i < next /\ \A u \in Threads : ~Holds(u, SubFronts[i][k])
        BY <1>2, <3>6 DEF ClaimInv
      <4>2. i < next' <=> i < next \/ i = next
        BY <1>1, <1>2, <3>6
      <4>3. CASE i = next
        BY <1>2, <2>11, <3>3, <3>6, <4>1, <4>3
      <4>4. CASE i # next
        BY <2>11, <3>1, <3>3, <3>4, <3>6, <4>1, <4>2, <4>4
      <4>5. QED
        BY <4>3, <4>4
    <3>7. ASSUME NEW u \in Threads, todo'[u] # <<>>
          PROVE  \E i \in DOMAIN SubFronts : i < next' /\ RestOf(u, i)'
      <4>1. CASE u = t
        <5>1. PICK i \in DOMAIN SubFronts : i = next
          BY <2>1
        <5>2. RestOf(t, i)'
          <6>1. Forward' <=> Forward
            BY <1>1 DEF Forward
          <6>2. Len(todo'[t]) = Len(SubFronts[i]) /\ Len(todo'[t]) \in Nat
            BY <2>2, <2>5, <5>1 DEF n
          <6>3. \A j \in 1 .. n : n - n + j = j
            BY <2>2
          <6>4. ASSUME NEW j \in DOMAIN todo'[t]
                PROVE  todo'[t][j] = SubFronts[i][IF Forward THEN Len(SubFronts[i]) - Len(todo'[t]) + j
                                                  ELSE Len(todo'[t]) + 1 - j]
            BY <2>5, <5>1, <6>2, <6>3 DEF n
          <6>5. QED
            BY <6>1, <6>2, <6>4 DEF RestOf
        <5>3. i < next'
          BY <1>1, <1>2, <5>1
        <5>4. QED
          BY <4>1, <5>2, <5>3
      <4>2. CASE u # t
        <5>1. PICK i \in DOMAIN SubFronts : i < next /\ RestOf(u, i)
          BY <1>2, <2>5, <3>7, <4>2 DEF ClaimInv
        <5>2. RestOf(u, i)'
          BY <1>1, <2>5, <4>2, <5>1 DEF RestOf, Forward
        <5>3. QED
          BY <1>1, <1>2, <5>1, <5>2
      <4>3. QED
        BY <4>1, <4>2
    <3>8. ASSUME NEW i \in DOMAIN SubFronts, NEW k \in DOMAIN SubFronts[i], NEW l \in DOMAIN SubFronts[i],
                 NEW u \in Threads, NEW v \in Threads,
                 Holds(u, SubFronts[i][k])', Holds(v, SubFronts[i][l])'
          PROVE  u = v
      <4>1. CASE i = next
        <5>1. \A w \in Threads \ {t} : ~Holds(w, SubFronts[i][k])' /\ ~Holds(w, SubFronts[i][l])'
          BY <3>1, <3>5, <3>8, <4>1
        <5>2. QED
          BY <3>8, <5>1
      <4>2. CASE i # next
        <5>1. u # t /\ v # t
          BY <3>3, <3>8, <4>2
        <5>2. Holds(u, SubFronts[i][k]) /\ Holds(v, SubFronts[i][l])
          BY <3>1, <3>8, <5>1
        <5>3. QED
          BY <1>2, <5>2 DEF ClaimInv
      <4>3. QED
        BY <4>1, <4>2
    <3>9. \A u \in Threads : HasRun(u)' => next' > Len(SubFronts)
      BY <1>1, <1>2, <2>7 DEF ClaimInv
    <3>10. QED
      BY <3>6, <3>7, <3>8, <3>9 DEF ClaimInv
  <2>13. QED
    BY <1>1, <1>2, <2>7, <2>8, <2>9, <2>10, <2>11, <2>12 DEF TreeInv, JobInv, Subtrees, Tops
<1>5. QED
  BY <1>3, <1>4

\* A thread adds the buffers of every thread to its slice of the top's rows.
LEMMA SumTree ==
  ASSUME IInv, TreeInv, NEW t \in Threads, Sum(t)
  PROVE  TreeInv'
<1>1. /\ UNCHANGED <<stage, top, next, kids, ready, remaining, todo, snap>> /\ tpc[t] = "sum"
      /\ x' = [r \in Fronts |-> IF r \in Slice(t) THEN [x[r] EXCEPT !.upd = Add(@, AllBuffers(r))]
                                ELSE x[r]]
      /\ tpc' = [tpc EXCEPT ![t] = "none"] /\ Over(t)
  BY DEF Sum
<1>2. stage = "sum" /\ todo[t] = <<>> /\ share[t] = "run" /\ Working /\ ~HasRun(t)
  BY <1>1, PlaceStage DEF TreeInv, Placed
<1>3. (Working' <=> Working) /\ HasRun(t)' /\ \A u \in Threads \ {t} : HasRun(u)' <=> HasRun(u)
  BY <1>1, <1>2, OverRuns
<1>4. tpc'[t] = "none" /\ \A u \in Threads \ {t} : tpc'[u] = tpc[u]
  BY <1>1 DEF IInv, SharesRun
<1>5. \A r \in Fronts : InBuffers(r) /\ r \in TopRows => AllBuffers(r) = Updates(r)
  BY DEF InBuffers, AllBuffers
<1>6. ASSUME NEW r \in Slice(t)
      PROVE  r \in TopRows /\ r \in Fronts /\ AllBuffers(r) = Updates(r) /\ x[r].upd = {}
  <2>1. r \in TopRows /\ r \in Fronts
    BY SliceCover, SubFacts
  <2>2. ~Summed(r)
    <3>1. \A u \in Threads : HasRun(u) => r \notin Slice(u)
      BY <1>2, SliceCover
    <3>2. QED
      BY <3>1 DEF Summed
  <2>3. InBuffers(r) /\ x[r].upd = {}
    BY <1>2, <2>1, <2>2 DEF TreeInv, RowInv
  <2>4. QED
    BY <1>5, <2>1, <2>3
<1> DEFINE Row == [upd : SUBSET (Fronts \cup {Twice}), is : {"rhs", "forward", "solution"}]
<1>7. ASSUME NEW r \in Fronts
      PROVE  /\ x'[r] \in Row /\ x'[r].is = x[r].is
             /\ x'[r].upd = IF r \in Slice(t) THEN Updates(r) ELSE x[r].upd
  <2>1. x[r] \in Row
    BY DEF TreeInv, TreeTypes
  <2>2. CASE r \in Slice(t)
    <3>1. x'[r] = [x[r] EXCEPT !.upd = Updates(r)]
      BY <1>1, <1>6, <2>2 DEF Add
    <3>2. Updates(r) \subseteq Fronts
      BY DEF Updates, Wrote
    <3>3. QED
      BY <2>1, <2>2, <3>1, <3>2
  <2>3. CASE r \notin Slice(t)
    BY <1>1, <2>1, <2>3
  <2>4. QED
    BY <2>2, <2>3
<1>8. Wrote' = Wrote /\ Solved' = Solved /\ \A r : Updates(r)' = Updates(r)
  BY <1>7 DEF Wrote, Solved, Updates
<1>9. TreeTypes'
  <2>1. x' \in [Fronts -> Row]
    BY <1>1, <1>7
  <2>2. QED
    BY <1>1, <2>1 DEF TreeInv, TreeTypes
<1>10. Placed'
  BY <1>1, <1>2, <1>4, NoneAlways DEF TreeInv, Placed
<1>11. SnapFresh'
  <2>1. \A u \in Threads : tpc[u] # "write"
    BY <1>2 DEF TreeInv, Placed, PlacesOf, Subtrees, Tops
  <2>2. QED
    BY <1>4, <2>1 DEF SnapFresh
<1>12. Progress'
  BY <1>1, <1>2, <1>8 DEF TreeInv, Progress
<1>13. RowInv'
  <2>1. \A r : Summed(r)' <=> Summed(r) \/ r \in Slice(t)
    <3>1. \A u : Slice(u)' = Slice(u)
      BY DEF Slice
    <3>2. QED
      BY <1>1, <1>2, <1>3, <3>1 DEF Summed
  <2>2. \A r : InBuffers(r)' <=> InBuffers(r)
    BY <1>1, <1>8 DEF InBuffers
  <2>3. \A f \in Wrote' : \A k \in Fronts : f \in Ext[k] => k \in Wrote'
    BY <1>8 DEF TreeInv, RowInv
  <2>4. ASSUME NEW r \in Fronts
        PROVE  IF r \in TopRows /\ stage' \in {"forward_subtrees", "sum"}
               THEN InBuffers(r)' /\ x'[r].upd = (IF Summed(r)' THEN Updates(r)' ELSE {})
               ELSE x'[r].upd = Updates(r)'
    <3>1. CASE r \in TopRows
      <4>1. InBuffers(r) /\ x[r].upd = (IF Summed(r) THEN Updates(r) ELSE {})
        BY <1>2, <3>1 DEF TreeInv, RowInv
      <4>2. QED
        BY <1>1, <1>2, <1>7, <1>8, <2>1, <2>2, <2>4, <3>1, <4>1
    <3>2. CASE r \notin TopRows
      <4>1. r \notin Slice(t) /\ x[r].upd = Updates(r)
        BY <1>2, <3>2, SliceCover DEF TreeInv, RowInv
      <4>2. QED
        BY <1>7, <1>8, <3>2, <4>1
    <3>3. QED
      BY <3>1, <3>2
  <2>5. QED
    BY <2>3, <2>4 DEF RowInv
<1>14. JobInv'
  BY <1>1, <1>2 DEF JobInv, Subtrees, Tops
<1>15. QED
  BY <1>9, <1>10, <1>11, <1>12, <1>13, <1>14 DEF TreeInv

\* When the parents of the done top fronts are done, and a front's parent is,
\* so are the rows the front updates.
LEMMA UpdatedDone ==
  ASSUME NEW D, \A c \in TopRows \cap D : {TopParent[c]} \ {NoFront} \subseteq D,
         NEW f \in TopRows, {TopParent[f]} \ {NoFront} \subseteq D
  PROVE  Ext[f] \subseteq D
<1> DEFINE n == Len(TopFronts)
           P == {m \in Nat : \A i \in 1 .. n :
                   i > n - m /\ {TopParent[TopFronts[i]]} \ {NoFront} \subseteq D => Ext[TopFronts[i]] \subseteq D}
<1>1. n \in Nat /\ DOMAIN TopFronts = 1 .. n
  BY TopFacts
<1>2. 0 \in P
  BY <1>1
<1>3. ASSUME NEW m \in P PROVE m + 1 \in P
  <2>1. SUFFICES ASSUME NEW i \in 1 .. n, i > n - (m + 1), {TopParent[TopFronts[i]]} \ {NoFront} \subseteq D
                 PROVE  Ext[TopFronts[i]] \subseteq D
    BY <1>1
  <2> DEFINE p == TopParent[TopFronts[i]]
  <2>2. CASE p = NoFront
    BY <1>1, <2>1, <2>2, ExtAssumption
  <2>3. CASE p # NoFront
    <3>1. PICK j \in i + 1 .. n : TopFronts[j] = p
      BY <1>1, <2>3, ExtAssumption
    <3>2. Ext[TopFronts[i]] \subseteq {p} \cup Ext[p]
      BY <1>1, <2>1, <2>3, ExtAssumption
    <3>3. p \in TopRows /\ p \in D
      BY <1>1, <2>1, <2>3, <3>1, TopFacts
    <3>4. {TopParent[p]} \ {NoFront} \subseteq D
      BY <3>3
    <3>5. Ext[p] \subseteq D
      BY <1>1, <2>1, <3>1, <3>4
    <3>6. QED
      BY <3>2, <3>3, <3>5
  <2>4. QED
    BY <2>2, <2>3
<1>4. n \in P
  <2> HIDE DEF P
  <2>1. P \in SUBSET Nat
    BY DEF P
  <2>2. QED
    BY <1>1, <1>2, <1>3, <2>1, Upwards
<1>5. PICK i \in 1 .. n : f = TopFronts[i]
  BY TopFacts
<1>6. QED
  BY <1>1, <1>4, <1>5

\* A sequence of one element.
LEMMA OneElement ==
  ASSUME NEW S, NEW s \in Seq(S), s # <<>>, Len(s) <= 1
  PROVE  Len(s) = 1 /\ s = <<s[1]>>
<1>1. Len(s) \in Nat \ {0}
  BY EmptySeq
<1>2. QED
  BY <1>1

\* A front held is not done; those it waits for are, and it is no row of
\* another front held.
LEMMA HeldTop ==
  ASSUME TreeInv, TopInv, stage \in Tops, NEW t \in Threads, todo[t] # <<>>
  PROVE  LET f == todo[t][1]
         IN  /\ f \in TopRows \ TopDone /\ todo[t] = <<f>>
             /\ stage = "forward_top" => \A k \in Fronts : f \in Ext[k] => k \in Wrote
             /\ stage = "backward_top" => Ext[f] \subseteq Solved
<1> DEFINE f == todo[t][1]
<1>1. todo[t] \in Seq(Fronts) /\ Len(todo[t]) = 1 /\ todo[t] = <<f>>
  <2>1. todo[t] \in Seq(Fronts) /\ Len(todo[t]) <= 1
    BY DEF TreeInv, TreeTypes, Placed
  <2>2. QED
    BY <2>1, OneElement
<1>2. Open(f) /\ f \in TopRows \ TopDone
  BY DEF TopInv, Open
<1> HIDE DEF f
<1>3. CASE stage = "forward_top"
  <2>1. \A p \in TopRows \cap Wrote : ChildSet(p) \subseteq Wrote
    BY <1>3 DEF TopInv, TopDone, Prior
  <2>2. ChildSet(f) \subseteq Wrote
    BY <1>2, <1>3 DEF Open, TopDone, Prior
  <2>3. \A k \in TopRows : f \in Ext[k] => k \in Wrote
    BY <1>2, <2>1, <2>2, UpdatersDone
  <2>4. Sub \subseteq Wrote
    BY <1>3 DEF TreeInv, Progress
  <2>5. QED
    BY <1>1, <1>2, <1>3, <2>3, <2>4, SubFacts DEF f
<1>4. CASE stage = "backward_top"
  <2>1. \A c \in TopRows \cap Solved : {TopParent[c]} \ {NoFront} \subseteq Solved
    BY <1>4 DEF TopInv, TopDone, Prior
  <2>2. {TopParent[f]} \ {NoFront} \subseteq Solved
    BY <1>2, <1>4 DEF Open, TopDone, Prior
  <2>3. Ext[f] \subseteq Solved
    BY <1>2, <2>1, <2>2, UpdatedDone
  <2>4. QED
    BY <1>1, <1>2, <1>4, <2>3 DEF f
<1>5. QED
  BY <1>3, <1>4 DEF Tops

\* What is left of a subtree is a suffix of it, or a prefix on the way back.
LEMMA HeldRange ==
  ASSUME TreeInv, NEW t \in Threads, NEW i \in DOMAIN SubFronts, RestOf(t, i)
  PROVE  LET s == SubFronts[i]  n == Len(s)  m == Len(todo[t])
         IN  /\ n \in Nat /\ m \in Nat /\ m <= n /\ DOMAIN s = 1 .. n /\ DOMAIN todo[t] = 1 .. m
             /\ todo[t] # <<>> => m >= 1
             /\ \A k \in 1 .. n : Holds(t, s[k]) <=> IF Forward THEN k > n - m ELSE k <= m
<1> DEFINE s == SubFronts[i]
           n == Len(s)
           m == Len(todo[t])
<1>1. todo[t] \in Seq(Fronts) /\ s \in Seq(Fronts)
  BY SubFacts DEF TreeInv, TreeTypes
<1>2. DOMAIN todo[t] = 1 .. m /\ m \in Nat /\ n \in Nat /\ DOMAIN s = 1 .. n /\ (todo[t] # <<>> => m >= 1)
  BY <1>1
<1>3. m <= n /\ \A j \in 1 .. m : todo[t][j] = s[IF Forward THEN n - m + j ELSE m + 1 - j]
  BY <1>2 DEF RestOf
<1> HIDE DEF n, m
<1>4. \A k, l \in 1 .. n : s[k] = s[l] => k = l
  BY <1>2, LayoutAssumption
<1> HIDE DEF s
<1>5. ASSUME NEW k \in 1 .. n PROVE Holds(t, s[k]) <=> IF Forward THEN k > n - m ELSE k <= m
  <2>1. Holds(t, s[k]) <=> \E j \in 1 .. m : todo[t][j] = s[k]
    BY <1>2 DEF Holds
  <2>2. CASE Forward
    <3>1. \A j \in 1 .. m : n - m + j \in 1 .. n
      BY <1>2, <1>3
    <3>2. \A j \in 1 .. m : todo[t][j] = s[k] <=> n - m + j = k
      BY <1>3, <1>4, <2>2, <3>1
    <3>3. (\E j \in 1 .. m : n - m + j = k) <=> k > n - m
      <4>1. k > n - m => k - (n - m) \in 1 .. m /\ n - m + (k - (n - m)) = k
        BY <1>2, <1>3
      <4>2. QED
        BY <1>2, <1>3, <4>1
    <3>4. QED
      BY <2>1, <2>2, <3>2, <3>3
  <2>3. CASE ~Forward
    <3>1. \A j \in 1 .. m : m + 1 - j \in 1 .. n
      BY <1>2, <1>3
    <3>2. \A j \in 1 .. m : todo[t][j] = s[k] <=> m + 1 - j = k
      BY <1>3, <1>4, <2>3, <3>1
    <3>3. (\E j \in 1 .. m : m + 1 - j = k) <=> k <= m
      <4>1. k <= m => m + 1 - k \in 1 .. m /\ m + 1 - (m + 1 - k) = k
        BY <1>2, <1>3
      <4>2. QED
        BY <1>2, <1>3, <4>1
    <3>4. QED
      BY <2>1, <2>3, <3>2, <3>3
  <2>4. QED
    BY <2>2, <2>3
<1>6. QED
  BY <1>2, <1>3, <1>5 DEF n, m, s

\* A front held is not done; those that update it are, or on the way back
\* the rows it updates.
LEMMA HeldSub ==
  ASSUME TreeInv, ClaimInv, stage \in Subtrees, NEW t \in Threads, todo[t] # <<>>,
         NEW i \in DOMAIN SubFronts, i < next, RestOf(t, i)
  PROVE  LET f == todo[t][1]
         IN  /\ f \in Sub \ SubDone /\ \E k \in DOMAIN SubFronts[i] : f = SubFronts[i][k]
             /\ stage = "forward_subtrees" => \A k \in Fronts : f \in Ext[k] => k \in Wrote
             /\ stage = "backward_subtrees" => Ext[f] \subseteq Solved
<1> DEFINE s == SubFronts[i]
           n == Len(s)
           m == Len(todo[t])
           p == IF Forward THEN n - m + 1 ELSE m
<1>1. /\ n \in Nat /\ m \in Nat \ {0} /\ m <= n /\ DOMAIN s = 1 .. n /\ DOMAIN todo[t] = 1 .. m
      /\ \A k \in 1 .. n : Holds(t, s[k]) <=> IF Forward THEN k > n - m ELSE k <= m
  BY HeldRange
<1>2. p \in 1 .. n /\ todo[t][1] = s[p]
  <2>1. p \in 1 .. n
    BY <1>1
  <2>2. \A j \in 1 .. m : todo[t][j] = s[IF Forward THEN n - m + j ELSE m + 1 - j]
    BY <1>1 DEF RestOf
  <2>3. 1 \in 1 .. m /\ m + 1 - 1 = m
    BY <1>1
  <2> HIDE DEF n, m, s
  <2>4. QED
    BY <2>1, <2>2, <2>3
<1> HIDE DEF n, m
<1>3. Holds(t, s[p]) /\ s[p] \in Sub
  <2>1. IF Forward THEN p > n - m ELSE p <= m
    BY <1>1
  <2>2. QED
    BY <1>1, <1>2, <2>1, SubFacts
<1>4. s[p] \notin SubDone
  BY <1>1, <1>2, <1>3 DEF ClaimInv
<1>5. ASSUME NEW k \in 1 .. n, IF Forward THEN k < p ELSE k > p
      PROVE  s[k] \in SubDone
  <2>1. ~(IF Forward THEN k > n - m ELSE k <= m)
    BY <1>1, <1>2, <1>5
  <2>2. ~Holds(t, s[k])
    BY <1>1, <2>1
  <2>3. \A u \in Threads : ~Holds(u, s[k])
    BY <1>1, <1>2, <1>3, <2>2 DEF ClaimInv
  <2>4. QED
    BY <1>1, <2>3 DEF ClaimInv
<1> HIDE DEF p
<1>6. CASE stage = "forward_subtrees"
  <2>1. SubDone = Wrote /\ Forward
    BY <1>6 DEF SubDone, Forward
  <2>2. ASSUME NEW g \in Fronts, s[p] \in Ext[g] PROVE g \in Wrote
    <3>1. g \in Sub
      BY <1>3, <2>2, SubFacts, ExtFacts
    <3>2. PICK j \in DOMAIN SubFronts : \E l \in DOMAIN SubFronts[j] : g = SubFronts[j][l]
      BY <3>1, SubFacts
    <3>3. PICK l \in DOMAIN SubFronts[j] : g = SubFronts[j][l]
      BY <3>2
    <3>4. PICK q \in l + 1 .. Len(SubFronts[j]) : s[p] = SubFronts[j][q]
      <4>1. Ext[g] \subseteq {SubFronts[j][q] : q \in l + 1 .. Len(SubFronts[j])} \cup TopRows
        BY <3>3, ExtAssumption
      <4>2. s[p] \notin TopRows
        BY <1>3, SubFacts
      <4>3. QED
        BY <2>2, <4>1, <4>2
    <3>5. DOMAIN SubFronts[j] = 1 .. Len(SubFronts[j]) /\ Len(SubFronts[j]) \in Nat
      BY SubFacts
    <3>6. q \in DOMAIN SubFronts[j]
      BY <3>3, <3>4, <3>5
    <3>7. i = j /\ p = q
      BY <1>1, <1>2, <3>4, <3>6, LayoutAssumption
    <3>8. l \in 1 .. n /\ l < p /\ g = s[l]
      BY <3>3, <3>4, <3>5, <3>7 DEF n
    <3>9. QED
      BY <1>5, <2>1, <3>8
  <2>3. QED
    BY <1>1, <1>2, <1>3, <1>4, <1>6, <2>2
<1>7. CASE stage = "backward_subtrees"
  <2>1. SubDone = Solved /\ ~Forward /\ TopRows \subseteq Solved
    BY <1>7 DEF SubDone, Forward, TreeInv, Progress
  <2>2. \A g \in {s[l] : l \in p + 1 .. n} : g \in Solved
    BY <1>1, <1>2, <1>5, <2>1
  <2>3. Ext[s[p]] \subseteq {s[l] : l \in p + 1 .. n} \cup TopRows
    BY <1>1, <1>2, ExtAssumption
  <2>4. Ext[s[p]] \subseteq Solved
    BY <2>1, <2>2, <2>3
  <2>5. QED
    BY <1>1, <1>2, <1>3, <1>4, <1>7, <2>4
<1>8. QED
  BY <1>6, <1>7 DEF Subtrees

\* The rows a forward front updates, and a row after front f wrote.
Targets(f) == IF stage = "forward_subtrees" THEN Ext[f] \ TopRows ELSE Ext[f]
NewRow(f, r) ==
  IF Forward
  THEN IF r = f THEN [x[f] EXCEPT !.is = "forward"]
       ELSE IF r \in Targets(f) THEN [x[r] EXCEPT !.upd = Add(@, {f})] ELSE x[r]
  ELSE IF r = f THEN [x[f] EXCEPT !.is = IF Ext[f] \subseteq Solved THEN "solution" ELSE "wrong"] ELSE x[r]
Rows == [upd : SUBSET (Fronts \cup {Twice}), is : {"rhs", "forward", "solution"}]

\* A front writes what its rows were when it read them: nothing changed since.
LEMMA WriteFacts ==
  ASSUME IInv, TreeInv, NEW t \in Threads, Write(t)
  PROVE  LET f == todo[t][1]
         IN  /\ share[t] = "run" /\ Working /\ tpc[t] = "write" /\ stage \in Subtrees \cup Tops
             /\ todo[t] \in Seq(Fronts) /\ todo[t] # <<>> /\ f \in Fronts /\ Head(todo[t]) = f
             /\ UNCHANGED <<poolVars, stage, next, remaining>>
             /\ snap' = [snap EXCEPT ![t] = <<>>]
             /\ DOMAIN x' = Fronts /\ x' = [r \in Fronts |-> x'[r]]
             /\ \A r \in Fronts : x'[r] = NewRow(f, r)
<1> DEFINE f == todo[t][1]
<1>1. share[t] = "run" /\ tpc[t] = "write" /\ UNCHANGED <<poolVars, stage, next, remaining>>
      /\ snap' = [snap EXCEPT ![t] = <<>>]
      /\ x' = [r \in Fronts |-> IF Forward THEN ForwardRow(t, Head(todo[t]), r)
                                ELSE BackwardRow(t, Head(todo[t]), r)]
  BY DEF Write
<1>2. Working /\ stage \in Subtrees \cup Tops
  BY <1>1, PlaceStage
<1>3. todo[t] \in Seq(Fronts) /\ todo[t] # <<>>
  BY <1>1 DEF TreeInv, TreeTypes, Placed
<1>4. Head(todo[t]) = f /\ f \in Fronts
  <2>1. Len(todo[t]) \in Nat \ {0}
    BY <1>3, EmptySeq
  <2>2. QED
    BY <1>3, <2>1
<1>5. snap[t] = [r \in RowsRead(f) |-> x[r]]
  BY <1>1 DEF TreeInv, SnapFresh
<1>6. Ext[f] \subseteq Fronts
  BY <1>4, ExtFacts
<1> HIDE DEF f
<1>7. ASSUME NEW r \in Fronts PROVE x'[r] = NewRow(f, r)
  <2>1. CASE Forward
    <3>1. x'[r] = ForwardRow(t, f, r)
      BY <1>1, <1>4, <2>1
    <3>2. \A q \in {f} \cup DirectRows(f) : snap[t][q] = x[q]
      BY <1>5, <2>1 DEF RowsRead
    <3>3. r \in DirectRows(f) \/ (r \in Ext[f] /\ AtomicUpdates) <=> r \in Targets(f)
      BY <2>1 DEF DirectRows, AtomicUpdates, Targets, Forward
    <3>4. QED
      BY <2>1, <3>1, <3>2, <3>3 DEF ForwardRow, NewRow
  <2>2. CASE ~Forward
    <3>1. x'[r] = BackwardRow(t, f, r)
      BY <1>1, <1>4, <2>2
    <3>2. \A q \in {f} \cup Ext[f] : snap[t][q] = x[q]
      BY <1>5, <2>2 DEF RowsRead
    <3>3. (\A e \in Ext[f] : snap[t][e].is = "solution") <=> Ext[f] \subseteq Solved
      BY <1>6, <3>2 DEF Solved
    <3>4. QED
      BY <2>2, <3>1, <3>2, <3>3 DEF BackwardRow, NewRow
  <2>3. QED
    BY <2>1, <2>2
<1>8. DOMAIN x' = Fronts /\ x' = [r \in Fronts |-> x'[r]]
  BY <1>1
<1>9. QED
  BY <1>1, <1>2, <1>3, <1>4, <1>7, <1>8 DEF f

\* A forward front: its row is solved, its targets have its update.
LEMMA ForwardRows ==
  ASSUME IInv, TreeInv, NEW t \in Threads, Write(t), Forward,
         todo[t][1] \notin Wrote, \A k \in Fronts : todo[t][1] \in Ext[k] => k \in Wrote
  PROVE  LET f == todo[t][1]
         IN  /\ x' \in [Fronts -> Rows] /\ Wrote' = Wrote \cup {f} /\ Solved' = Solved
             /\ \A r \in Fronts : f \notin Updates(r)
                                  /\ Updates(r)' = Updates(r) \cup IF r \in Ext[f] THEN {f} ELSE {}
             /\ \A r \in Fronts : x[r].upd = Updates(r) =>
                                    x'[r].upd = IF r \in Targets(f) THEN Updates(r) \cup {f} ELSE x[r].upd
             /\ \A r \in Fronts : r \notin Targets(f) => x'[r].upd = x[r].upd
             /\ \A r \in Fronts : r # f /\ r \notin Targets(f) => x'[r] = x[r]
             /\ \A g \in Wrote' : \A k \in Fronts : g \in Ext[k] => k \in Wrote'
<1> DEFINE f == todo[t][1]
<1>1. f \in Fronts /\ (\A r \in Fronts : x'[r] = NewRow(f, r)) /\ x' = [r \in Fronts |-> x'[r]]
  BY WriteFacts
<1>2. f \notin Wrote /\ \A k \in Fronts : f \in Ext[k] => k \in Wrote
  OBVIOUS
<1>3. x \in [Fronts -> Rows]
  BY DEF TreeInv, TreeTypes, Rows
<1>4. f \notin Targets(f) /\ Targets(f) \subseteq Ext[f] /\ f \notin Ext[f]
  BY <1>1, ExtFacts DEF Targets
<1> HIDE DEF f
<1>5. ASSUME NEW r \in Fronts
      PROVE  /\ x'[r] \in Rows
             /\ x'[r].is = IF r = f THEN "forward" ELSE x[r].is
             /\ x'[r].upd = IF r \in Targets(f) THEN Add(x[r].upd, {f}) ELSE x[r].upd
             /\ r # f /\ r \notin Targets(f) => x'[r] = x[r]
  <2>1. x[r] \in Rows /\ x[f] \in Rows
    BY <1>1, <1>3
  <2>2. CASE r = f
    <3>1. x'[r] = [x[f] EXCEPT !.is = "forward"]
      BY <1>1, <2>2 DEF NewRow
    <3>2. QED
      BY <1>4, <2>1, <2>2, <3>1 DEF Rows
  <2>3. CASE r # f /\ r \in Targets(f)
    <3>1. x'[r] = [x[r] EXCEPT !.upd = Add(x[r].upd, {f})]
      BY <1>1, <2>3 DEF NewRow
    <3>2. Add(x[r].upd, {f}) \in SUBSET (Fronts \cup {Twice})
      BY <1>1, <2>1 DEF Add, Rows
    <3>3. QED
      BY <2>1, <2>3, <3>1, <3>2 DEF Rows
  <2>4. CASE r # f /\ r \notin Targets(f)
    BY <1>1, <2>1, <2>4 DEF NewRow
  <2>5. QED
    BY <2>2, <2>3, <2>4
<1>6. x' \in [Fronts -> Rows]
  BY <1>1, <1>5
<1>7. Wrote' = Wrote \cup {f} /\ Solved' = Solved
  <2>1. x[f].is # "solution"
    BY <1>1, <1>2 DEF Wrote
  <2>2. QED
    BY <1>1, <1>5, <2>1 DEF Wrote, Solved
<1>8. \A r \in Fronts : f \notin Updates(r) /\ Updates(r)' = Updates(r) \cup IF r \in Ext[f] THEN {f} ELSE {}
  BY <1>2, <1>7 DEF Updates
<1>9. \A r \in Fronts : x[r].upd = Updates(r) =>
                          x'[r].upd = IF r \in Targets(f) THEN Updates(r) \cup {f} ELSE x[r].upd
  <2>1. \A r \in Fronts : Updates(r) \cap {f} = {}
    BY <1>8
  <2>2. QED
    BY <1>5, <2>1 DEF Add
<1>10. \A g \in Wrote' : \A k \in Fronts : g \in Ext[k] => k \in Wrote'
  BY <1>2, <1>7 DEF TreeInv, RowInv
<1>11. QED
  BY <1>5, <1>6, <1>7, <1>8, <1>9, <1>10 DEF f

\* A backward front: its row is final.
LEMMA BackwardRows ==
  ASSUME IInv, TreeInv, NEW t \in Threads, Write(t), ~Forward,
         todo[t][1] \in Wrote, Ext[todo[t][1]] \subseteq Solved
  PROVE  LET f == todo[t][1]
         IN  /\ x' \in [Fronts -> Rows] /\ Wrote' = Wrote /\ Solved' = Solved \cup {f}
             /\ \A r \in Fronts : Updates(r)' = Updates(r) /\ x'[r].upd = x[r].upd
             /\ \A r \in Fronts : r # f => x'[r] = x[r]
<1> DEFINE f == todo[t][1]
<1>1. f \in Fronts /\ (\A r \in Fronts : x'[r] = NewRow(f, r)) /\ x' = [r \in Fronts |-> x'[r]]
  BY WriteFacts
<1>2. f \in Wrote /\ Ext[f] \subseteq Solved
  OBVIOUS
<1>3. x \in [Fronts -> Rows]
  BY DEF TreeInv, TreeTypes, Rows
<1> HIDE DEF f
<1>4. ASSUME NEW r \in Fronts
      PROVE  /\ x'[r] \in Rows /\ x'[r].upd = x[r].upd /\ (r # f => x'[r] = x[r])
             /\ x'[r].is = IF r = f THEN "solution" ELSE x[r].is
  <2>1. x[r] \in Rows /\ x[f] \in Rows
    BY <1>1, <1>3
  <2>2. x'[r] = IF r = f THEN [x[f] EXCEPT !.is = "solution"] ELSE x[r]
    BY <1>1, <1>2 DEF NewRow
  <2>3. QED
    BY <2>1, <2>2 DEF Rows
<1>5. x' \in [Fronts -> Rows]
  BY <1>1, <1>4
<1>6. Wrote' = Wrote /\ Solved' = Solved \cup {f}
  BY <1>1, <1>2, <1>4 DEF Wrote, Solved
<1>7. \A r \in Fronts : Updates(r)' = Updates(r)
  BY <1>6 DEF Updates
<1>8. QED
  BY <1>4, <1>5, <1>6, <1>7 DEF f

\* The rows of a subtree's fronts, other than the top's, are its own.
LEMMA SubRows ==
  /\ \A i \in DOMAIN SubFronts : \A k \in DOMAIN SubFronts[i] :
       Ext[SubFronts[i][k]] \ TopRows \subseteq ToSet(SubFronts[i])
  /\ \A i, j \in DOMAIN SubFronts : i # j => ToSet(SubFronts[i]) \cap ToSet(SubFronts[j]) = {}
<1>1. \A i \in DOMAIN SubFronts : ToSet(SubFronts[i]) = {SubFronts[i][k] : k \in DOMAIN SubFronts[i]}
  BY DEF ToSet
<1>2. \A i, j \in DOMAIN SubFronts : i # j => ToSet(SubFronts[i]) \cap ToSet(SubFronts[j]) = {}
  BY <1>1, LayoutAssumption
<1>3. ASSUME NEW i \in DOMAIN SubFronts, NEW k \in DOMAIN SubFronts[i]
      PROVE  Ext[SubFronts[i][k]] \ TopRows \subseteq ToSet(SubFronts[i])
  <2>1. DOMAIN SubFronts[i] = 1 .. Len(SubFronts[i]) /\ Len(SubFronts[i]) \in Nat
    BY SubFacts
  <2>2. \A l \in k + 1 .. Len(SubFronts[i]) : l \in DOMAIN SubFronts[i]
    BY <2>1
  <2>3. Ext[SubFronts[i][k]] \subseteq {SubFronts[i][l] : l \in k + 1 .. Len(SubFronts[i])} \cup TopRows
    BY ExtAssumption
  <2>4. QED
    BY <1>1, <2>2, <2>3
<1>4. QED
  BY <1>2, <1>3

\* What the other threads have read is not written.
LEMMA WriteSnap ==
  ASSUME IInv, TreeInv, NEW t \in Threads, Write(t), tpc'[t] # "write",
         \A u \in Threads \ {t} : tpc'[u] = tpc[u] /\ todo'[u] = todo[u],
         \A u \in Threads \ {t} : tpc[u] = "write" =>
           RowsRead(todo[u][1]) \subseteq Fronts /\ \A r \in RowsRead(todo[u][1]) : x'[r] = x[r]
  PROVE  SnapFresh'
<1>1. \A f : RowsRead(f)' = RowsRead(f)
  BY DEF Write, RowsRead, DirectRows, Forward, AtomicUpdates
<1>2. \A u \in Threads \ {t} : snap'[u] = snap[u]
  BY DEF Write, TreeInv, TreeTypes
<1>3. ASSUME NEW u \in Threads, tpc'[u] = "write"
      PROVE  snap'[u] = [r \in RowsRead(todo[u][1])' |-> x'[r]]
  <2>1. u # t /\ tpc[u] = "write" /\ todo'[u] = todo[u] /\ snap'[u] = snap[u]
    BY <1>2, <1>3
  <2>2. snap[u] = [r \in RowsRead(todo[u][1]) |-> x[r]]
    BY <2>1 DEF TreeInv, SnapFresh
  <2>3. \A r \in RowsRead(todo[u][1]) : x'[r] = x[r]
    BY <2>1
  <2>4. snap'[u] = [r \in RowsRead(todo[u][1]) |-> x'[r]]
    BY <2>1, <2>2, <2>3
  <2>5. QED
    BY <1>1, <2>1, <2>4
<1>4. QED
  BY <1>3 DEF SnapFresh

\* A thread that wrote a front of its subtree goes to the next one.
LEMMA WriteClaims ==
  ASSUME IInv, TreeInv, NEW t \in Threads, Write(t), stage \in Subtrees,
         SubDone' = SubDone \cup {todo[t][1]}
  PROVE  ClaimInv'
<1> DEFINE f == todo[t][1]
           m == Len(todo[t])
<1>1. /\ todo[t] \in Seq(Fronts) /\ todo[t] # <<>> /\ Working /\ UNCHANGED <<poolVars, stage, next>>
      /\ todo' = [todo EXCEPT ![t] = Tail(@)]
  BY WriteFacts DEF Write, Subtrees
<1>2. ClaimInv
  BY <1>1 DEF TreeInv, JobInv
<1>3. PICK i \in DOMAIN SubFronts : i < next /\ RestOf(t, i)
  BY <1>1, <1>2 DEF ClaimInv
<1> DEFINE s == SubFronts[i]
           n == Len(s)
<1>4. /\ n \in Nat /\ m \in Nat \ {0} /\ m <= n /\ DOMAIN s = 1 .. n /\ DOMAIN todo[t] = 1 .. m
      /\ \A j \in 1 .. m : todo[t][j] = s[IF Forward THEN n - m + j ELSE m + 1 - j]
      /\ \A k \in 1 .. n : Holds(t, s[k]) <=> IF Forward THEN k > n - m ELSE k <= m
  <2>1. /\ n \in Nat /\ m \in Nat /\ m <= n /\ DOMAIN s = 1 .. n /\ DOMAIN todo[t] = 1 .. m /\ m >= 1
        /\ \A k \in 1 .. n : Holds(t, s[k]) <=> IF Forward THEN k > n - m ELSE k <= m
    BY <1>1, <1>3, HeldRange
  <2>2. \A j \in 1 .. m : todo[t][j] = s[IF Forward THEN n - m + j ELSE m + 1 - j]
    BY <1>3, <2>1 DEF RestOf
  <2> HIDE DEF n, m, s
  <2>3. QED
    BY <2>1, <2>2
<1>5. /\ todo'[t] = Tail(todo[t]) /\ Len(todo'[t]) = m - 1 /\ DOMAIN todo'[t] = 1 .. m - 1
      /\ \A j \in 1 .. m - 1 : todo'[t][j] = todo[t][j + 1]
      /\ \A u \in Threads \ {t} : todo'[u] = todo[u]
  <2>1. todo'[t] = Tail(todo[t]) /\ \A u \in Threads \ {t} : todo'[u] = todo[u]
    BY <1>1 DEF TreeInv, TreeTypes
  <2>2. /\ Tail(todo[t]) \in Seq(Fronts) /\ Len(Tail(todo[t])) = m - 1
        /\ \A j \in 1 .. m - 1 : Tail(todo[t])[j] = todo[t][j + 1]
    BY <1>1, HeadTailProperties
  <2>3. DOMAIN Tail(todo[t]) = 1 .. m - 1
    BY <2>2
  <2> HIDE DEF n, m, s
  <2>4. QED
    BY <2>1, <2>2, <2>3
<1> HIDE DEF n, m, s
<1>6. Forward' <=> Forward
  BY <1>1 DEF Forward
<1>7. RestOf(t, i)'
  <2>1. m - 1 \in Nat /\ m - 1 <= n
    BY <1>4
  <2>2. ASSUME NEW j \in 1 .. m - 1
        PROVE  todo'[t][j] = s[IF Forward THEN n - (m - 1) + j ELSE (m - 1) + 1 - j]
    <3>1. j + 1 \in 1 .. m /\ n - m + (j + 1) = n - (m - 1) + j /\ m + 1 - (j + 1) = (m - 1) + 1 - j
      BY <1>4, <2>2
    <3>2. QED
      BY <1>4, <1>5, <3>1
  <2>3. QED
    BY <1>5, <1>6, <2>1, <2>2 DEF RestOf, n, s
<1>8. PICK p \in 1 .. n : f = s[p] /\ p = IF Forward THEN n - m + 1 ELSE m
  <2>1. 1 \in 1 .. m /\ m + 1 - 1 = m /\ n - m + 1 \in 1 .. n /\ m \in 1 .. n
    BY <1>4
  <2>2. QED
    BY <1>4, <2>1
<1> HIDE DEF f
<1>9. \A g : Holds(t, g)' <=> Holds(t, g) /\ g # f
  <2>1. \A g : Holds(t, g) <=> \E j \in 1 .. m : todo[t][j] = g
    BY <1>4 DEF Holds
  <2>2. \A g : Holds(t, g)' <=> \E j \in 1 .. m - 1 : todo[t][j + 1] = g
    BY <1>5 DEF Holds
  <2>3. ASSUME NEW g, Holds(t, g)' PROVE Holds(t, g) /\ g # f
    <3>1. PICK j \in 1 .. m - 1 : todo[t][j + 1] = g
      BY <2>2, <2>3
    <3>2. j + 1 \in 1 .. m /\ j + 1 # 1 /\ 1 \in 1 .. m
      BY <1>4, <3>1
    <3>3. todo[t][j + 1] # todo[t][1]
      <4>1. /\ n - m + (j + 1) \in 1 .. n /\ n - m + 1 \in 1 .. n /\ m + 1 - (j + 1) \in 1 .. n
            /\ m + 1 - 1 \in 1 .. n /\ n - m + (j + 1) # n - m + 1 /\ m + 1 - (j + 1) # m + 1 - 1
        BY <1>4, <3>2
      <4>2. \A k, l \in 1 .. n : s[k] = s[l] => k = l
        <5>1. \A k, l \in DOMAIN SubFronts[i] : SubFronts[i][k] = SubFronts[i][l] => k = l
          BY LayoutAssumption
        <5>2. QED
          BY <1>4, <5>1 DEF s
      <4>3. CASE Forward
        <5>1. todo[t][j + 1] = s[n - m + (j + 1)] /\ todo[t][1] = s[n - m + 1]
          BY <1>4, <3>2, <4>3
        <5>2. QED
          BY <4>1, <4>2, <5>1
      <4>4. CASE ~Forward
        <5>1. todo[t][j + 1] = s[m + 1 - (j + 1)] /\ todo[t][1] = s[m + 1 - 1]
          BY <1>4, <3>2, <4>4
        <5>2. QED
          BY <4>1, <4>2, <5>1
      <4>5. QED
        BY <4>3, <4>4
    <3>4. QED
      BY <2>1, <3>1, <3>2, <3>3 DEF f
  <2>4. ASSUME NEW g, Holds(t, g), g # f PROVE Holds(t, g)'
    <3>1. PICK j \in 1 .. m : todo[t][j] = g
      BY <2>1, <2>4
    <3>2. j # 1
      BY <2>4, <3>1 DEF f
    <3>3. j - 1 \in 1 .. m - 1 /\ (j - 1) + 1 = j
      BY <1>4, <3>1, <3>2
    <3>4. QED
      BY <2>2, <3>1, <3>3
  <2>5. QED
    BY <2>3, <2>4
<1>10. \A u \in Threads \ {t} : \A g : Holds(u, g)' <=> Holds(u, g)
  BY <1>5 DEF Holds
<1>11. Holds(t, f)
  <2>1. 1 \in DOMAIN todo[t]
    BY <1>4
  <2>2. QED
    BY <2>1 DEF Holds, f
<1>12. ASSUME NEW j \in DOMAIN SubFronts, NEW k \in DOMAIN SubFronts[j]
       PROVE  SubFronts[j][k] \in SubDone' <=> j < next' /\ \A u \in Threads : ~Holds(u, SubFronts[j][k])'
  <2>1. SubFronts[j][k] \in SubDone <=> j < next /\ \A u \in Threads : ~Holds(u, SubFronts[j][k])
    BY <1>2, <1>12 DEF ClaimInv
  <2>2. SubFronts[j][k] \in SubDone' <=> SubFronts[j][k] \in SubDone \/ SubFronts[j][k] = f
    BY DEF f
  <2>3. CASE SubFronts[j][k] = f
    <3>1. j = i
      BY <1>4, <1>8, <1>12, <2>3, LayoutAssumption DEF s
    <3>2. \A u \in Threads \ {t} : ~Holds(u, f)
      BY <1>2, <1>4, <1>8, <1>11 DEF ClaimInv, s
    <3>3. QED
      BY <1>1, <1>3, <1>9, <1>10, <2>2, <2>3, <3>1, <3>2
  <2>4. CASE SubFronts[j][k] # f
    BY <1>1, <1>9, <1>10, <2>1, <2>2, <2>4
  <2>5. QED
    BY <2>3, <2>4
<1>13. ASSUME NEW u \in Threads, todo'[u] # <<>>
       PROVE  \E j \in DOMAIN SubFronts : j < next' /\ RestOf(u, j)'
  <2>1. CASE u = t
    BY <1>1, <1>3, <1>7, <2>1
  <2>2. CASE u # t
    <3>1. PICK j \in DOMAIN SubFronts : j < next /\ RestOf(u, j)
      BY <1>2, <1>5, <1>13, <2>2 DEF ClaimInv
    <3>2. RestOf(u, j)'
      BY <1>5, <1>6, <2>2, <3>1 DEF RestOf
    <3>3. QED
      BY <1>1, <3>1, <3>2
  <2>3. QED
    BY <2>1, <2>2
<1>14. \A u \in Threads : \A g : Holds(u, g)' => Holds(u, g)
  BY <1>9, <1>10
<1>15. \A j \in DOMAIN SubFronts : \A k, l \in DOMAIN SubFronts[j] : \A u, v \in Threads :
         Holds(u, SubFronts[j][k])' /\ Holds(v, SubFronts[j][l])' => u = v
  BY <1>2, <1>14 DEF ClaimInv
<1>16. \A u \in Threads : HasRun(u)' => next' > Len(SubFronts)
  BY <1>1, <1>2, ShareQuiet DEF ClaimInv
<1>17. QED
  BY <1>12, <1>13, <1>15, <1>16 DEF ClaimInv

\* Where the thread is after a front of a subtree.
LEMMA WriteSubPlaces ==
  ASSUME IInv, TreeInv, NEW t \in Threads, Write(t), stage \in Subtrees, x' \in [Fronts -> Rows]
  PROVE  /\ TreeTypes' /\ Placed' /\ tpc'[t] # "write"
         /\ \A u \in Threads \ {t} : tpc'[u] = tpc[u] /\ todo'[u] = todo[u]
<1> DEFINE f == todo[t][1]
           m == Len(todo[t])
<1>1. /\ todo[t] \in Seq(Fronts) /\ todo[t] # <<>> /\ f \in Fronts /\ Head(todo[t]) = f
      /\ UNCHANGED <<poolVars, stage, next, remaining>> /\ snap' = [snap EXCEPT ![t] = <<>>]
  BY WriteFacts
<1>2. /\ todo' = [todo EXCEPT ![t] = Tail(@)]
      /\ tpc' = [tpc EXCEPT ![t] = IF m = 1 THEN "claim" ELSE "front"]
      /\ UNCHANGED <<kids, ready>>
      /\ top' = IF stage # "forward_subtrees" THEN top
                ELSE [top EXCEPT ![t] = [r \in TopRows |-> IF r \in Ext[f] THEN Add(@[r], {f}) ELSE @[r]]]
  BY <1>1 DEF Write, Subtrees
<1>3. m \in Nat \ {0}
  BY <1>1, EmptySeq
<1>4. Tail(todo[t]) \in Seq(Fronts) /\ Len(Tail(todo[t])) = m - 1
  BY <1>1, HeadTailProperties
<1>5. todo'[t] = Tail(todo[t]) /\ \A u \in Threads \ {t} : todo'[u] = todo[u]
  BY <1>2 DEF TreeInv, TreeTypes
<1>6. (m = 1 <=> todo'[t] = <<>>)
  <2>1. m = 1 => todo'[t] = <<>>
    <3>1. todo'[t] \in Seq(Fronts) /\ Len(todo'[t]) = m - 1
      BY <1>4, <1>5
    <3>2. todo'[t] # <<>> => Len(todo'[t]) \in Nat \ {0}
      BY <3>1, EmptySeq
    <3>3. QED
      BY <3>1, <3>2
  <2>2. todo'[t] = <<>> => Len(todo'[t]) = 0
    OBVIOUS
  <2>3. QED
    BY <1>3, <1>4, <1>5, <2>1, <2>2
<1> HIDE DEF m
<1>7. tpc'[t] = (IF m = 1 THEN "claim" ELSE "front") /\ \A u \in Threads \ {t} : tpc'[u] = tpc[u]
  BY <1>2 DEF IInv, SharesRun
<1>8. TreeTypes'
  <2>1. todo' \in [Threads -> Seq(Fronts)]
    BY <1>2, <1>4 DEF TreeInv, TreeTypes
  <2>2. top' \in [Threads -> [TopRows -> SUBSET (Fronts \cup {Twice})]]
    <3>1. CASE stage # "forward_subtrees"
      BY <1>2, <3>1 DEF TreeInv, TreeTypes
    <3>2. CASE stage = "forward_subtrees"
      <4>1. top \in [Threads -> [TopRows -> SUBSET (Fronts \cup {Twice})]]
        BY DEF TreeInv, TreeTypes
      <4> HIDE DEF f
      <4>2. [r \in TopRows |-> IF r \in Ext[f] THEN Add(top[t][r], {f}) ELSE top[t][r]]
              \in [TopRows -> SUBSET (Fronts \cup {Twice})]
        BY <1>1, <4>1 DEF Add
      <4>3. QED
        BY <1>2, <3>2, <4>1, <4>2
    <3>3. QED
      BY <3>1, <3>2
  <2>3. snap' = [u \in Threads |-> snap'[u]]
    BY <1>1 DEF TreeInv, TreeTypes
  <2>4. QED
    BY <1>1, <1>2, <2>1, <2>2, <2>3 DEF TreeInv, TreeTypes, Rows
<1>9. Placed'
  <2>1. {"claim", "front"} \subseteq PlacesOf(stage) /\ stage \notin Tops
    BY DEF PlacesOf, Subtrees, Tops
  <2>2. QED
    BY <1>1, <1>5, <1>6, <1>7, <2>1 DEF TreeInv, Placed
<1>10. QED
  BY <1>5, <1>7, <1>8, <1>9

\* Another thread's front is of another subtree.
LEMMA OtherSubtree ==
  ASSUME TreeInv, ClaimInv, stage \in Subtrees, NEW t \in Threads, todo[t] # <<>>,
         NEW u \in Threads \ {t}, todo[u] # <<>>
  PROVE  \E i, j \in DOMAIN SubFronts :
           /\ i # j /\ i < next /\ RestOf(t, i) /\ j < next /\ RestOf(u, j)
           /\ todo[t][1] \in ToSet(SubFronts[i]) /\ todo[u][1] \in ToSet(SubFronts[j])
<1>1. PICK i \in DOMAIN SubFronts : i < next /\ RestOf(t, i)
  BY DEF ClaimInv
<1>2. PICK j \in DOMAIN SubFronts : j < next /\ RestOf(u, j)
  BY DEF ClaimInv
<1>3. Holds(t, todo[t][1]) /\ Holds(u, todo[u][1])
  <2>1. /\ todo[t] \in Seq(Fronts) /\ Len(todo[t]) \in Nat \ {0}
        /\ todo[u] \in Seq(Fronts) /\ Len(todo[u]) \in Nat \ {0}
    BY EmptySeq DEF TreeInv, TreeTypes
  <2>2. 1 \in DOMAIN todo[t] /\ 1 \in DOMAIN todo[u]
    BY <2>1
  <2>3. QED
    BY <2>2 DEF Holds
<1>4. PICK k \in DOMAIN SubFronts[i] : todo[t][1] = SubFronts[i][k]
  BY <1>1, <1>3, HeldFrom
<1>5. PICK l \in DOMAIN SubFronts[j] : todo[u][1] = SubFronts[j][l]
  BY <1>2, <1>3, HeldFrom
<1>6. i # j
  BY <1>3, <1>4, <1>5 DEF ClaimInv
<1>7. QED
  BY <1>1, <1>2, <1>4, <1>5, <1>6 DEF ToSet

\* A front of a subtree, forward: the top's rows go to the thread's buffer.
LEMMA WriteForwardSub ==
  ASSUME IInv, TreeInv, NEW t \in Threads, Write(t), stage = "forward_subtrees"
  PROVE  TreeInv'
<1> DEFINE f == todo[t][1]
<1>1. /\ Working /\ todo[t] # <<>> /\ f \in Fronts /\ tpc[t] = "write"
      /\ UNCHANGED <<poolVars, stage, next, remaining>> /\ Head(todo[t]) = f
  BY WriteFacts
<1>2. ClaimInv /\ stage \in Subtrees /\ stage \notin Tops /\ Forward /\ SubDone = Wrote
  BY <1>1 DEF TreeInv, JobInv, Subtrees, Tops, Forward, SubDone
<1>3. PICK i \in DOMAIN SubFronts : i < next /\ RestOf(t, i)
  BY <1>1, <1>2 DEF ClaimInv
<1>4. f \in Sub \ Wrote /\ \A k \in Fronts : f \in Ext[k] => k \in Wrote
  BY <1>1, <1>2, <1>3, HeldSub
<1>5. /\ x' \in [Fronts -> Rows] /\ Wrote' = Wrote \cup {f} /\ Solved' = Solved
      /\ \A r \in Fronts : f \notin Updates(r) /\ Updates(r)' = Updates(r) \cup IF r \in Ext[f] THEN {f} ELSE {}
      /\ \A r \in Fronts : x[r].upd = Updates(r) =>
                             x'[r].upd = IF r \in Targets(f) THEN Updates(r) \cup {f} ELSE x[r].upd
      /\ \A r \in Fronts : r \notin Targets(f) => x'[r].upd = x[r].upd
      /\ \A r \in Fronts : r # f /\ r \notin Targets(f) => x'[r] = x[r]
      /\ \A g \in Wrote' : \A k \in Fronts : g \in Ext[k] => k \in Wrote'
  BY <1>2, <1>4, ForwardRows
<1>6. Targets(f) = Ext[f] \ TopRows
  BY DEF Targets
<1>7. /\ TreeTypes' /\ Placed' /\ tpc'[t] # "write"
      /\ \A u \in Threads \ {t} : tpc'[u] = tpc[u] /\ todo'[u] = todo[u]
  BY <1>2, <1>5, WriteSubPlaces
<1>8. top' = [top EXCEPT ![t] = [r \in TopRows |-> IF r \in Ext[f] THEN Add(@[r], {f}) ELSE @[r]]]
  BY <1>1 DEF Write
<1> HIDE DEF f
<1>9. SnapFresh'
  <2>1. ASSUME NEW u \in Threads \ {t}, tpc[u] = "write"
        PROVE  RowsRead(todo[u][1]) \subseteq Fronts /\ \A r \in RowsRead(todo[u][1]) : x'[r] = x[r]
    <3> DEFINE g == todo[u][1]
    <3>1. todo[u] # <<>>
      BY <2>1 DEF TreeInv, Placed
    <3>2. PICK j, k \in DOMAIN SubFronts :
            j # k /\ f \in ToSet(SubFronts[j]) /\ g \in ToSet(SubFronts[k])
      BY <1>1, <1>2, <3>1, OtherSubtree DEF f
    <3> HIDE DEF g
    <3>3. ASSUME NEW q \in DOMAIN SubFronts, NEW h \in ToSet(SubFronts[q])
          PROVE  h \in Sub /\ Ext[h] \ TopRows \subseteq ToSet(SubFronts[q])
      <4>1. PICK l \in DOMAIN SubFronts[q] : h = SubFronts[q][l]
        BY DEF ToSet
      <4>2. QED
        BY <4>1, SubRows, SubFacts
    <3>4. RowsRead(g) = {g} \cup (Ext[g] \ TopRows)
      BY <1>2 DEF RowsRead, DirectRows, AtomicUpdates
    <3>5. RowsRead(g) \subseteq ToSet(SubFronts[k]) /\ {f} \cup Targets(f) \subseteq ToSet(SubFronts[j])
      BY <1>6, <3>2, <3>3, <3>4
    <3>6. RowsRead(g) \subseteq Fronts
      <4>1. g \in Fronts
        BY <3>2, <3>3, SubFacts
      <4>2. QED
        BY <3>4, <4>1, ExtFacts
    <3>7. QED
      BY <1>5, <3>2, <3>5, <3>6, SubRows DEF g
  <2>2. QED
    BY <1>7, <2>1, WriteSnap
<1>10. Progress'
  BY <1>1, <1>4, <1>5, ShareQuiet DEF TreeInv, Progress
<1>11. RowInv'
  <2>1. ASSUME NEW r \in TopRows PROVE InBuffers(r)' /\ x'[r].upd = {}
    <3>1. r \in Fronts /\ r # f /\ r \notin Targets(f)
      BY <1>4, <1>6, SubFacts
    <3>2. InBuffers(r) /\ x[r].upd = {}
      BY <1>2, <3>1 DEF TreeInv, RowInv, Summed
    <3>3. x'[r].upd = {}
      BY <1>5, <3>1, <3>2
    <3>4. \A u \in Threads : f \notin top[u][r]
      BY <1>5, <3>1, <3>2 DEF InBuffers
    <3>5. /\ top'[t][r] = top[t][r] \cup (IF r \in Ext[f] THEN {f} ELSE {})
          /\ \A u \in Threads \ {t} : top'[u][r] = top[u][r]
      <4>1. top'[t][r] = IF r \in Ext[f] THEN Add(top[t][r], {f}) ELSE top[t][r]
        BY <1>8 DEF TreeInv, TreeTypes
      <4>2. \A u \in Threads \ {t} : top'[u] = top[u]
        BY <1>8 DEF TreeInv, TreeTypes
      <4>3. top[t][r] \cap {f} = {}
        BY <3>4
      <4>4. QED
        BY <4>1, <4>2, <4>3 DEF Add
    <3>6. Updates(r)' = Updates(r) \cup IF r \in Ext[f] THEN {f} ELSE {}
      BY <1>5, <3>1
    <3>7. \A u \in Threads : top'[u][r] \subseteq Fronts
      BY <1>1, <3>2, <3>5 DEF InBuffers
    <3>8. \A u, v \in Threads : u # v => top'[u][r] \cap top'[v][r] = {}
      BY <3>2, <3>4, <3>5 DEF InBuffers
    <3>9. UNION {top'[u][r] : u \in Threads} = Updates(r)'
      BY <3>2, <3>5, <3>6 DEF InBuffers
    <3>10. QED
      BY <3>3, <3>7, <3>8, <3>9 DEF InBuffers
  <2>2. ASSUME NEW r \in Fronts \ TopRows PROVE x'[r].upd = Updates(r)'
    <3>1. x[r].upd = Updates(r)
      BY DEF TreeInv, RowInv
    <3>2. x'[r].upd = IF r \in Ext[f] THEN Updates(r) \cup {f} ELSE Updates(r)
      BY <1>5, <1>6, <3>1
    <3>3. Updates(r)' = Updates(r) \cup IF r \in Ext[f] THEN {f} ELSE {}
      BY <1>5
    <3>4. QED
      BY <3>2, <3>3
  <2>3. \A r : ~Summed(r)'
    BY <1>1 DEF Summed
  <2>4. QED
    BY <1>1, <1>5, <2>1, <2>2, <2>3 DEF RowInv
<1>12. ClaimInv'
  <2>1. SubDone' = SubDone \cup {f}
    BY <1>1, <1>2, <1>5 DEF SubDone
  <2>2. QED
    BY <1>2, <2>1, WriteClaims DEF f
<1>13. QED
  BY <1>1, <1>2, <1>7, <1>9, <1>10, <1>11, <1>12 DEF TreeInv, JobInv

\* A front of a subtree, backward.
LEMMA WriteBackwardSub ==
  ASSUME IInv, TreeInv, NEW t \in Threads, Write(t), stage = "backward_subtrees"
  PROVE  TreeInv'
<1> DEFINE f == todo[t][1]
<1>1. /\ Working /\ todo[t] # <<>> /\ f \in Fronts /\ tpc[t] = "write"
      /\ UNCHANGED <<poolVars, stage, next, remaining>> /\ Head(todo[t]) = f
  BY WriteFacts
<1>2. ClaimInv /\ stage \in Subtrees /\ stage \notin Tops /\ ~Forward /\ SubDone = Solved /\ Wrote = Fronts
  BY <1>1 DEF TreeInv, JobInv, Subtrees, Tops, Forward, SubDone, Progress
<1>3. PICK i \in DOMAIN SubFronts : i < next /\ RestOf(t, i)
  BY <1>1, <1>2 DEF ClaimInv
<1>4. f \in Sub \ Solved /\ Ext[f] \subseteq Solved
  BY <1>1, <1>2, <1>3, HeldSub
<1>5. /\ x' \in [Fronts -> Rows] /\ Wrote' = Wrote /\ Solved' = Solved \cup {f}
      /\ \A r \in Fronts : Updates(r)' = Updates(r) /\ x'[r].upd = x[r].upd
      /\ \A r \in Fronts : r # f => x'[r] = x[r]
  BY <1>1, <1>2, <1>4, BackwardRows
<1>6. /\ TreeTypes' /\ Placed' /\ tpc'[t] # "write"
      /\ \A u \in Threads \ {t} : tpc'[u] = tpc[u] /\ todo'[u] = todo[u]
  BY <1>2, <1>5, WriteSubPlaces
<1> HIDE DEF f
<1>7. SnapFresh'
  <2>1. ASSUME NEW u \in Threads \ {t}, tpc[u] = "write"
        PROVE  RowsRead(todo[u][1]) \subseteq Fronts /\ \A r \in RowsRead(todo[u][1]) : x'[r] = x[r]
    <3> DEFINE g == todo[u][1]
    <3>1. todo[u] # <<>>
      BY <2>1 DEF TreeInv, Placed
    <3>2. PICK j, k \in DOMAIN SubFronts :
            j # k /\ k < next /\ RestOf(u, k) /\ f \in ToSet(SubFronts[j]) /\ g \in ToSet(SubFronts[k])
      BY <1>1, <1>2, <3>1, OtherSubtree DEF f
    <3>3. g \in Fronts /\ Ext[g] \subseteq Solved
      BY <1>2, <3>1, <3>2, HeldSub, SubFacts
    <3> HIDE DEF g
    <3>4. g # f
      BY <3>2, SubRows
    <3>5. RowsRead(g) = {g} \cup Ext[g]
      BY <1>2 DEF RowsRead
    <3>6. RowsRead(g) \subseteq Fronts /\ f \notin RowsRead(g)
      BY <1>4, <3>3, <3>4, <3>5, ExtFacts
    <3>7. QED
      BY <1>5, <3>6 DEF g
  <2>2. QED
    BY <1>6, <2>1, WriteSnap
<1>8. Progress'
  BY <1>1, <1>2, <1>4, <1>5, ShareQuiet DEF TreeInv, Progress
<1>9. RowInv'
  <2>1. \A r \in Fronts : x[r].upd = Updates(r)
    BY DEF TreeInv, RowInv
  <2>2. QED
    BY <1>1, <1>2, <1>5, <2>1, ExtFacts DEF RowInv
<1>10. ClaimInv'
  <2>1. SubDone' = SubDone \cup {f}
    BY <1>1, <1>2, <1>5 DEF SubDone
  <2>2. QED
    BY <1>2, <2>1, WriteClaims DEF f
<1>11. QED
  BY <1>1, <1>2, <1>6, <1>7, <1>8, <1>9, <1>10 DEF TreeInv, JobInv

\* Where the thread is after a front of the top.
LEMMA WriteTopPlaces ==
  ASSUME IInv, TreeInv, NEW t \in Threads, Write(t), stage \in Tops, x' \in [Fronts -> Rows],
         kids' \in [TopRows -> Int], ready' \in Seq(TopRows),
         todo'[t] = <<>> \/ \E c \in TopRows : todo'[t] = <<c>>
  PROVE  /\ TreeTypes' /\ Placed' /\ tpc'[t] = "processed" /\ tpc[t] = "write"
         /\ \A u \in Threads \ {t} : tpc'[u] = tpc[u] /\ todo'[u] = todo[u]
         /\ Counting' = Counting \cup {t} /\ t \notin Counting
<1>1. UNCHANGED <<poolVars, stage, next, remaining>> /\ snap' = [snap EXCEPT ![t] = <<>>] /\ tpc[t] = "write"
  BY WriteFacts
<1>2. /\ \E s : todo' = [todo EXCEPT ![t] = s]
      /\ tpc' = [tpc EXCEPT ![t] = "processed"] /\ UNCHANGED top
  BY DEF Write, Tops
<1>3. \A u \in Threads \ {t} : todo'[u] = todo[u]
  BY <1>2 DEF TreeInv, TreeTypes
<1>4. tpc'[t] = "processed" /\ \A u \in Threads \ {t} : tpc'[u] = tpc[u]
  BY <1>2 DEF IInv, SharesRun
<1>5. todo'[t] \in Seq(Fronts) /\ Len(todo'[t]) <= 1
  <2>1. CASE todo'[t] = <<>>
    BY <2>1, EmptySeq
  <2>2. ASSUME NEW c \in TopRows, todo'[t] = <<c>> PROVE todo'[t] \in Seq(Fronts) /\ Len(todo'[t]) <= 1
    <3>1. c \in Fronts
      BY SubFacts
    <3>2. QED
      BY <2>2, <3>1
  <2>3. QED
    BY <2>1, <2>2
<1>6. TreeTypes'
  <2>1. todo' \in [Threads -> Seq(Fronts)]
    BY <1>2, <1>5 DEF TreeInv, TreeTypes
  <2>2. snap' = [u \in Threads |-> snap'[u]]
    BY <1>1 DEF TreeInv, TreeTypes
  <2>3. QED
    BY <1>1, <1>2, <2>1, <2>2 DEF TreeInv, TreeTypes, Rows
<1>7. Placed'
  <2>1. "processed" \in PlacesOf(stage)
    BY DEF PlacesOf, Subtrees, Tops
  <2>2. QED
    BY <1>1, <1>3, <1>4, <1>5, <2>1 DEF TreeInv, Placed
<1>8. Counting' = Counting \cup {t} /\ t \notin Counting
  BY <1>1, <1>4 DEF Counting
<1>9. QED
  BY <1>1, <1>3, <1>4, <1>6, <1>7, <1>8

\* A front done in the top lets the fronts of N be run: R goes to the list,
\* the thread keeps at most one.
LEMMA TopStep ==
  ASSUME IInv, TreeInv, NEW t \in Threads, Write(t), stage \in Tops,
         TopDone' = TopDone \cup {todo[t][1]},
         Counting' = Counting \cup {t}, t \notin Counting,
         \A u \in Threads \ {t} : todo'[u] = todo[u],
         NEW N \in SUBSET TopRows, \A c \in N : ~Open(c) /\ Open(c)',
         NEW R \in Seq(N), ready' = ready \o R,
         \A i, j \in DOMAIN R : R[i] = R[j] => i = j,
         todo'[t] = <<>> \/ \E c \in N : todo'[t] = <<c>> /\ \A i \in DOMAIN R : R[i] # c,
         stage = "forward_top" => \A p \in TopRows : kids'[p] = Cardinality(ChildSet(p) \ Wrote')
  PROVE  TopInv'
<1> DEFINE f == todo[t][1]
           n == Len(ready)
           k == Len(R)
<1>1. UNCHANGED <<poolVars, stage, next, remaining>> /\ Working /\ todo[t] # <<>>
  BY WriteFacts
<1>2. TopInv
  BY <1>1 DEF TreeInv, JobInv
<1>3. Open(f) /\ f \in TopRows \ TopDone /\ \A i \in DOMAIN ready : ready[i] # f
  BY <1>1, <1>2 DEF TopInv, Open
<1>4. \A u \in Threads \ {t} : todo[u] # <<>> => todo[u][1] # f
  BY <1>1, <1>2 DEF TopInv
<1> HIDE DEF f
<1>5. \A g : Prior(g)' = Prior(g)
  BY <1>1 DEF Prior
<1>6. TopDone' = TopDone \cup {f}
  BY DEF f
<1>7. \A g : Open(g) /\ g # f => Open(g)'
  BY <1>5, <1>6 DEF Open
<1>8. \A g \in TopRows \cap TopDone' : Prior(g)' \subseteq TopDone'
  BY <1>2, <1>3, <1>5, <1>6 DEF TopInv, Open
<1>9. /\ DOMAIN ready = 1 .. n /\ n \in Nat /\ DOMAIN R = 1 .. k /\ k \in Nat
      /\ ready \in Seq(TopRows) /\ R \in Seq(TopRows)
  BY DEF TreeInv, TreeTypes
<1>10. /\ DOMAIN ready' = 1 .. n + k
       /\ \A i \in 1 .. n + k : ready'[i] = IF i <= n THEN ready[i] ELSE R[i - n]
  BY <1>9, ConcatProperties
<1> HIDE DEF n, k
<1>11. ASSUME NEW i \in 1 .. n + k
       PROVE  \/ i \in 1 .. n /\ ready'[i] = ready[i] /\ Open(ready[i]) /\ ready[i] # f
              \/ i - n \in 1 .. k /\ ready'[i] = R[i - n] /\ R[i - n] \in N
  <2>1. CASE i <= n
    <3>1. i \in 1 .. n /\ ready'[i] = ready[i]
      BY <1>9, <1>10, <2>1
    <3>2. Open(ready[i]) /\ ready[i] # f
      BY <1>2, <1>3, <1>9, <3>1 DEF TopInv
    <3>3. QED
      BY <3>1, <3>2
  <2>2. CASE ~(i <= n)
    <3>1. i - n \in 1 .. k /\ ready'[i] = R[i - n]
      BY <1>9, <1>10, <2>2
    <3>2. R[i - n] \in N
      <4>1. \A j \in DOMAIN R : R[j] \in N
        OBVIOUS
      <4>2. QED
        BY <1>9, <3>1, <4>1
    <3>3. QED
      BY <3>1, <3>2
  <2>3. QED
    BY <2>1, <2>2
<1>12. \A i \in DOMAIN ready' : Open(ready[i])'
  <2>1. SUFFICES ASSUME NEW i \in 1 .. n + k PROVE Open(ready[i])'
    BY <1>10
  <2>2. \A g : g = ready'[i] => Open(g)'
    BY <1>7, <1>11
  <2>3. QED
    BY <2>2
<1>13. \A i, j \in DOMAIN ready' : ready'[i] = ready'[j] => i = j
  <2>1. SUFFICES ASSUME NEW i \in 1 .. n + k, NEW j \in 1 .. n + k, ready'[i] = ready'[j] PROVE i = j
    BY <1>10
  <2>2. CASE i \in 1 .. n /\ ready'[i] = ready[i] /\ Open(ready[i])
    <3>1. j \in 1 .. n /\ ready'[j] = ready[j]
      BY <1>11, <2>1, <2>2
    <3>2. QED
      BY <1>2, <1>9, <2>1, <2>2, <3>1 DEF TopInv
  <2>3. CASE i - n \in 1 .. k /\ ready'[i] = R[i - n] /\ R[i - n] \in N
    <3>1. j - n \in 1 .. k /\ ready'[j] = R[j - n]
      BY <1>11, <2>1, <2>3
    <3>2. i - n = j - n
      BY <1>9, <2>1, <2>3, <3>1
    <3>3. QED
      BY <1>9, <3>2
  <2>4. QED
    BY <1>11, <2>2, <2>3
<1>14. ASSUME NEW u \in Threads, todo'[u] # <<>>
       PROVE  /\ \A g : g = todo'[u][1] => Open(g)'
              /\ \A i \in DOMAIN ready' : ready'[i] # todo'[u][1]
              /\ u = t => todo'[u][1] \in N
              /\ u # t => Open(todo'[u][1])
  <2>1. CASE u = t
    <3>1. PICK c \in N : todo'[t] = <<c>> /\ \A i \in DOMAIN R : R[i] # c
      BY <1>14, <2>1
    <3>2. ASSUME NEW i \in 1 .. n + k PROVE ready'[i] # c
      <4>1. \/ ready'[i] = ready[i] /\ Open(ready[i])
            \/ i - n \in 1 .. k /\ ready'[i] = R[i - n]
        BY <1>11, <3>2
      <4>2. ~Open(c)
        OBVIOUS
      <4>3. i - n \in 1 .. k => R[i - n] # c
        BY <1>9, <3>1
      <4>4. QED
        BY <4>1, <4>2, <4>3
    <3>3. todo'[t][1] = c
      BY <3>1
    <3>4. QED
      BY <1>10, <2>1, <3>1, <3>2, <3>3
  <2>2. CASE u # t
    <3> DEFINE g == todo[u][1]
    <3>1. todo'[u] = todo[u] /\ todo[u] # <<>>
      BY <1>14, <2>2
    <3>2. Open(g) /\ g # f /\ \A i \in DOMAIN ready : ready[i] # g
      BY <1>2, <1>4, <2>2, <3>1 DEF TopInv
    <3> HIDE DEF g
    <3>3. \A i \in 1 .. n + k : ready'[i] # g
      BY <1>9, <1>11, <3>2
    <3>4. QED
      BY <1>7, <1>10, <2>2, <3>1, <3>2, <3>3 DEF g
  <2>3. QED
    BY <2>1, <2>2
<1>15. \A u \in Threads : todo'[u] # <<>> =>
         Open(todo[u][1])' /\ \A i \in DOMAIN ready' : ready'[i] # todo'[u][1]
  BY <1>14
<1>16. ASSUME NEW u \in Threads, NEW v \in Threads, todo'[u] # <<>>, todo'[v] # <<>>, todo'[u][1] = todo'[v][1]
       PROVE  u = v
  <2>1. CASE u # t /\ v # t
    BY <1>2, <1>16, <2>1 DEF TopInv
  <2>2. CASE u = t \/ v = t
    BY <1>14, <1>16, <2>2
  <2>3. QED
    BY <2>1, <2>2
<1>17. remaining' = Cardinality(TopRows \ TopDone') + Cardinality(Counting')
  <2> DEFINE L == TopRows \ TopDone
             C == Counting
  <2>1. IsFiniteSet(L) /\ Cardinality(L) \in Nat /\ IsFiniteSet(C) /\ Cardinality(C) \in Nat
    BY LeftFinite, CountingFinite
  <2>2. TopRows \ TopDone' = L \ {f} /\ f \in L /\ Counting' = C \cup {t} /\ t \notin C
    BY <1>3, <1>6
  <2>3. remaining = Cardinality(L) + Cardinality(C)
    BY <1>2 DEF TopInv
  <2> HIDE DEF L, C
  <2>4. Cardinality(L \ {f}) = Cardinality(L) - 1
    BY <2>1, <2>2, FS_RemoveElement
  <2>5. Cardinality(C \cup {t}) = Cardinality(C) + 1
    BY <2>1, <2>2, FS_AddElement
  <2>6. Cardinality(TopRows \ TopDone') = Cardinality(L) - 1
    BY <2>2, <2>4, Zenon
  <2>7. Cardinality(Counting') = Cardinality(C) + 1
    BY <2>2, <2>5, Zenon
  <2>8. QED
    BY <1>1, <2>1, <2>3, <2>6, <2>7
<1>18. \A u \in Threads : HasRun(u)' => remaining' = 0
  BY <1>1, <1>2, ShareQuiet DEF TopInv
<1>19. QED
  BY <1>1, <1>8, <1>12, <1>13, <1>15, <1>16, <1>17, <1>18 DEF TopInv

\* What the other threads have read in the top is not written.
LEMMA WriteTopSnap ==
  ASSUME IInv, TreeInv, TopInv, NEW t \in Threads, todo[t] # <<>>, stage \in Tops,
         NEW u \in Threads \ {t}, tpc[u] = "write"
  PROVE  LET f == todo[t][1]  g == todo[u][1]
         IN  /\ g # f /\ RowsRead(g) \subseteq Fronts
             /\ stage = "forward_top" => RowsRead(g) = {g} /\ g \notin Ext[f]
             /\ stage = "backward_top" => f \notin RowsRead(g)
<1> DEFINE f == todo[t][1]
           g == todo[u][1]
<1>1. todo[u] # <<>>
  BY DEF TreeInv, Placed
<1>2. g # f
  BY <1>1 DEF TopInv
<1>3. /\ g \in TopRows /\ f \in TopRows \ TopDone
      /\ stage = "forward_top" => \A k \in Fronts : g \in Ext[k] => k \in Wrote
      /\ stage = "backward_top" => Ext[g] \subseteq Solved
  BY <1>1, HeldTop
<1> HIDE DEF f, g
<1>4. g \in Fronts /\ f \in Fronts /\ Ext[g] \subseteq Fronts
  BY <1>3, SubFacts, ExtFacts
<1>5. CASE stage = "forward_top"
  <2>1. RowsRead(g) = {g}
    BY <1>5 DEF RowsRead, DirectRows, AtomicUpdates, Forward
  <2>2. g \notin Ext[f]
    BY <1>3, <1>4, <1>5 DEF TopDone
  <2>3. QED
    BY <1>2, <1>4, <1>5, <2>1, <2>2 DEF f, g
<1>6. CASE stage = "backward_top"
  <2>1. RowsRead(g) = {g} \cup Ext[g]
    BY <1>6 DEF RowsRead, Forward
  <2>2. f \notin Solved
    BY <1>3, <1>6 DEF TopDone
  <2>3. QED
    BY <1>2, <1>3, <1>4, <1>6, <2>1, <2>2 DEF f, g
<1>7. QED
  BY <1>5, <1>6 DEF Tops

\* The children of a front, and the parent of each.
LEMMA ChildSetFacts ==
  /\ \A p : ChildSet(p) \subseteq TopRows /\ IsFiniteSet(ChildSet(p))
  /\ \A f \in TopRows : \A p : f \in ChildSet(p) <=> p = TopParent[f]
<1>1. \A p : ChildSet(p) \subseteq TopRows
  BY DEF ChildSet
<1>2. \A p : IsFiniteSet(ChildSet(p))
  BY <1>1, TopFacts, FS_Subset
<1>3. QED
  BY <1>1, <1>2 DEF ChildSet

\* The only element of a set.
LEMMA OneLeft ==
  ASSUME NEW S, IsFiniteSet(S), Cardinality(S) = 1, NEW e \in S
  PROVE  S = {e}
<1>1. Cardinality(S \ {e}) = 0 /\ IsFiniteSet(S \ {e})
  BY FS_RemoveElement
<1>2. S \ {e} = {}
  BY <1>1, FS_EmptySet
<1>3. QED
  BY <1>2

\* A front of the top, forward: the last child runs the parent.
LEMMA WriteForwardTop ==
  ASSUME IInv, TreeInv, NEW t \in Threads, Write(t), stage = "forward_top"
  PROVE  TreeInv'
<1> DEFINE f == todo[t][1]
           p == TopParent[f]
<1>1. /\ Working /\ todo[t] # <<>> /\ f \in Fronts /\ tpc[t] = "write" /\ Head(todo[t]) = f
      /\ UNCHANGED <<poolVars, stage, next, remaining>>
  BY WriteFacts
<1>2. TopInv /\ stage \in Tops /\ stage \notin Subtrees /\ Forward /\ TopDone = Wrote
  BY <1>1 DEF TreeInv, JobInv, Subtrees, Tops, Forward, TopDone
<1>3. f \in TopRows \ Wrote /\ \A k \in Fronts : f \in Ext[k] => k \in Wrote
  BY <1>1, <1>2, HeldTop
<1>4. /\ x' \in [Fronts -> Rows] /\ Wrote' = Wrote \cup {f} /\ Solved' = Solved
      /\ \A r \in Fronts : f \notin Updates(r) /\ Updates(r)' = Updates(r) \cup IF r \in Ext[f] THEN {f} ELSE {}
      /\ \A r \in Fronts : x[r].upd = Updates(r) =>
                             x'[r].upd = IF r \in Targets(f) THEN Updates(r) \cup {f} ELSE x[r].upd
      /\ \A r \in Fronts : r # f /\ r \notin Targets(f) => x'[r] = x[r]
      /\ \A g \in Wrote' : \A k \in Fronts : g \in Ext[k] => k \in Wrote'
  BY <1>2, <1>3, ForwardRows
<1>5. /\ kids' = (IF p = NoFront THEN kids ELSE [kids EXCEPT ![p] = @ - 1])
      /\ todo' = [todo EXCEPT ![t] = IF p # NoFront /\ LastChild(p) THEN <<p>> ELSE <<>>]
      /\ UNCHANGED ready
  BY <1>1, <1>2, <1>3 DEF Write, Subtrees
<1>6. p \in TopRows \cup {NoFront} /\ p # f
  BY <1>3, ExtFacts
<1>7. /\ todo'[t] = IF p # NoFront /\ kids[p] = 1 THEN <<p>> ELSE <<>>
      /\ \A u \in Threads \ {t} : todo'[u] = todo[u]
  BY <1>5 DEF TreeInv, TreeTypes, LastChild
<1>8. Targets(f) = Ext[f]
  BY <1>2 DEF Targets, Subtrees
<1> DEFINE N == IF p # NoFront /\ kids[p] = 1 THEN {p} ELSE {}
<1> HIDE DEF f, p
<1>9. \A q \in TopRows : kids[q] = Cardinality(ChildSet(q) \ Wrote)
  BY <1>2 DEF TopInv
<1>10. kids' \in [TopRows -> Int] /\ ready' \in Seq(TopRows)
  BY <1>5, <1>6 DEF TreeInv, TreeTypes
<1>11. /\ TreeTypes' /\ Placed' /\ tpc'[t] = "processed"
       /\ \A u \in Threads \ {t} : tpc'[u] = tpc[u]
       /\ Counting' = Counting \cup {t} /\ t \notin Counting
  <2>1. todo'[t] = <<>> \/ \E c \in TopRows : todo'[t] = <<c>>
    BY <1>6, <1>7
  <2>2. QED
    BY <1>2, <1>4, <1>10, <2>1, WriteTopPlaces
<1>12. \A q \in TopRows : kids'[q] = Cardinality(ChildSet(q) \ Wrote')
  <2>1. ASSUME NEW q \in TopRows, q # p PROVE kids'[q] = Cardinality(ChildSet(q) \ Wrote')
    <3>1. f \notin ChildSet(q)
      BY <1>3, <2>1, ChildSetFacts DEF p
    <3>2. ChildSet(q) \ Wrote' = ChildSet(q) \ Wrote
      BY <1>4, <3>1
    <3>3. kids'[q] = kids[q]
      BY <1>5, <2>1 DEF TreeInv, TreeTypes
    <3>4. QED
      BY <1>9, <3>2, <3>3
  <2>2. ASSUME p \in TopRows PROVE kids'[p] = Cardinality(ChildSet(p) \ Wrote')
    <3> DEFINE L == ChildSet(p) \ Wrote
    <3>1. f \in L /\ IsFiniteSet(L)
      BY <1>3, ChildSetFacts, FS_Difference DEF p
    <3>2. ChildSet(p) \ Wrote' = L \ {f}
      BY <1>4
    <3>3. kids[p] = Cardinality(L)
      BY <1>9, <2>2
    <3> HIDE DEF L
    <3>4. Cardinality(L \ {f}) = Cardinality(L) - 1
      BY <3>1, FS_RemoveElement
    <3>5. p # NoFront
      BY <2>2, SubFacts
    <3>6. kids'[p] = kids[p] - 1
      BY <1>5, <2>2, <3>5 DEF TreeInv, TreeTypes
    <3>7. QED
      BY <3>2, <3>3, <3>4, <3>6
  <2>3. QED
    BY <2>1, <2>2
<1>13. TopInv'
  <2>1. N \in SUBSET TopRows
    BY <1>6
  <2>2. ASSUME NEW c \in N PROVE ~Open(c) /\ Open(c)'
    <3>1. c = p /\ p \in TopRows /\ kids[p] = 1
      BY <1>6, <2>2
    <3>2. f \in ChildSet(p) \ Wrote
      BY <1>3, ChildSetFacts DEF p
    <3>3. ChildSet(p) \ Wrote = {f}
      <4>1. IsFiniteSet(ChildSet(p) \ Wrote) /\ Cardinality(ChildSet(p) \ Wrote) = 1
        BY <1>9, <3>1, ChildSetFacts, FS_Difference
      <4>2. QED
        BY <3>2, <4>1, OneLeft
    <3>4. ~Open(p)
      BY <1>2, <3>2 DEF Open, Prior
    <3>5. p \notin Wrote
      BY <1>2, <3>1, <3>2 DEF TopInv, Prior
    <3>6. (\A g : Prior(g)' = ChildSet(g)) /\ TopDone' = Wrote'
      BY <1>1 DEF Prior, TopDone
    <3>7. c \in TopRows \ TopDone' /\ ChildSet(c) \subseteq TopDone'
      BY <1>4, <1>6, <3>1, <3>3, <3>5, <3>6
    <3>8. Open(c)'
      BY <3>6, <3>7 DEF Open
    <3>9. QED
      BY <3>1, <3>4, <3>8
  <2>3. <<>> \in Seq(N) /\ ready' = ready \o <<>>
    BY <1>5, ConcatEmptySeq, EmptySeq DEF TreeInv, TreeTypes
  <2>4. todo'[t] = <<>> \/ \E c \in N : todo'[t] = <<c>> /\ \A i \in DOMAIN <<>> : <<>>[i] # c
    BY <1>7
  <2>5. TopDone' = TopDone \cup {f}
    BY <1>1, <1>2, <1>4 DEF TopDone
  <2>6. \A i, j \in DOMAIN <<>> : <<>>[i] = <<>>[j] => i = j
    OBVIOUS
  <2> HIDE DEF N
  <2>7. QED
    BY <1>2, <1>7, <1>11, <1>12, <2>1, <2>2, <2>3, <2>4, <2>5, <2>6, TopStep DEF f
<1>14. SnapFresh'
  <2>1. ASSUME NEW u \in Threads \ {t}, tpc[u] = "write"
        PROVE  RowsRead(todo[u][1]) \subseteq Fronts /\ \A r \in RowsRead(todo[u][1]) : x'[r] = x[r]
    <3>1. /\ todo[u][1] # f /\ RowsRead(todo[u][1]) \subseteq Fronts
          /\ RowsRead(todo[u][1]) = {todo[u][1]} /\ todo[u][1] \notin Ext[f]
      BY <1>1, <1>2, <2>1, WriteTopSnap DEF f
    <3>2. QED
      BY <1>4, <1>8, <3>1
  <2>2. tpc'[t] # "write"
    BY <1>11
  <2>3. QED
    BY <1>7, <1>11, <2>1, <2>2, WriteSnap
<1>15. Progress'
  BY <1>1, <1>3, <1>4, ShareQuiet DEF TreeInv, Progress
<1>16. RowInv'
  <2>1. \A r \in Fronts : x[r].upd = Updates(r)
    BY <1>2 DEF TreeInv, RowInv, Tops
  <2>2. ASSUME NEW r \in Fronts PROVE x'[r].upd = Updates(r)'
    <3>1. x'[r].upd = IF r \in Ext[f] THEN Updates(r) \cup {f} ELSE Updates(r)
      BY <1>4, <1>8, <2>1
    <3>2. Updates(r)' = Updates(r) \cup IF r \in Ext[f] THEN {f} ELSE {}
      BY <1>4
    <3>3. QED
      BY <3>1, <3>2
  <2>3. QED
    BY <1>1, <1>4, <2>2 DEF RowInv
<1>17. QED
  BY <1>1, <1>2, <1>11, <1>13, <1>14, <1>15, <1>16 DEF TreeInv, JobInv

\* A front of the top, backward: its children are released, one kept.
LEMMA WriteBackwardTop ==
  ASSUME IInv, TreeInv, NEW t \in Threads, Write(t), stage = "backward_top"
  PROVE  TreeInv'
<1> DEFINE f == todo[t][1]
           C == Children(f)
<1>1. /\ Working /\ todo[t] # <<>> /\ f \in Fronts /\ tpc[t] = "write" /\ Head(todo[t]) = f
      /\ UNCHANGED <<poolVars, stage, next, remaining>>
  BY WriteFacts
<1>2. TopInv /\ stage \in Tops /\ stage \notin Subtrees /\ ~Forward /\ TopDone = Solved /\ Wrote = Fronts
  BY <1>1 DEF TreeInv, JobInv, Subtrees, Tops, Forward, TopDone, Progress
<1>3. f \in TopRows \ Solved /\ Ext[f] \subseteq Solved
  BY <1>1, <1>2, HeldTop
<1>4. /\ x' \in [Fronts -> Rows] /\ Wrote' = Wrote /\ Solved' = Solved \cup {f}
      /\ \A r \in Fronts : Updates(r)' = Updates(r) /\ x'[r].upd = x[r].upd
      /\ \A r \in Fronts : r # f => x'[r] = x[r]
  BY <1>1, <1>2, <1>3, BackwardRows
<1>5. /\ ready' = ready \o OtherChildren(f) /\ todo' = [todo EXCEPT ![t] = FirstChild(f)]
      /\ UNCHANGED kids
  BY <1>1, <1>2 DEF Write, Subtrees
<1>6. todo'[t] = FirstChild(f) /\ \A u \in Threads \ {t} : todo'[u] = todo[u]
  BY <1>5 DEF TreeInv, TreeTypes
<1> HIDE DEF f
<1> DEFINE N == ChildSet(f)
           R == OtherChildren(f)
<1>7. N \in SUBSET TopRows
  BY ChildSetFacts
<1>8. /\ C \in Seq(N) /\ Len(C) = Cardinality(N)
      /\ \A i, j \in 1 .. Len(C) : C[i] = C[j] => i = j
  BY <1>7, OrderFacts DEF Children
<1> HIDE DEF C
<1>9. /\ R \in Seq(N) /\ \A i, j \in DOMAIN R : R[i] = R[j] => i = j
      /\ todo'[t] = <<>> \/ \E c \in N : todo'[t] = <<c>> /\ \A i \in DOMAIN R : R[i] # c
  <2>1. CASE C = <<>>
    <3>1. R = <<>> /\ todo'[t] = <<>>
      BY <1>6, <2>1 DEF OtherChildren, FirstChild, C
    <3>2. R \in Seq(N)
      BY <3>1, EmptySeq
    <3>3. DOMAIN R = {}
      BY <3>1
    <3> HIDE DEF R
    <3>4. QED
      BY <3>1, <3>2, <3>3
  <2>2. CASE C # <<>>
    <3>1. R = Tail(C) /\ todo'[t] = <<Head(C)>>
      BY <1>6, <2>2 DEF OtherChildren, FirstChild, C
    <3>2. Len(C) \in Nat \ {0}
      BY <1>8, <2>2, EmptySeq
    <3>3. /\ Tail(C) \in Seq(N) /\ Len(Tail(C)) = Len(C) - 1 /\ Head(C) \in N
          /\ \A i \in 1 .. Len(Tail(C)) : Tail(C)[i] = C[i + 1]
      BY <1>8, <2>2, HeadTailProperties
    <3>4. Head(C) = C[1] /\ DOMAIN Tail(C) = 1 .. Len(C) - 1
      BY <1>8, <2>2, <3>2, <3>3
    <3>5. \A i \in 1 .. Len(C) - 1 : i + 1 \in 1 .. Len(C) /\ 1 \in 1 .. Len(C) /\ i + 1 # 1
      BY <3>2
    <3>6. \A i \in 1 .. Len(C) - 1 : Tail(C)[i] # Head(C)
      BY <1>8, <3>3, <3>4, <3>5
    <3>7. \A i, j \in 1 .. Len(C) - 1 : Tail(C)[i] = Tail(C)[j] => i = j
      <4>1. SUFFICES ASSUME NEW i \in 1 .. Len(C) - 1, NEW j \in 1 .. Len(C) - 1, Tail(C)[i] = Tail(C)[j]
                     PROVE  i = j
        OBVIOUS
      <4>2. i + 1 = j + 1
        BY <1>8, <3>3, <3>5, <4>1
      <4>3. QED
        BY <4>2
    <3> HIDE DEF R, N
    <3>8. QED
      BY <3>1, <3>3, <3>4, <3>6, <3>7
  <2>3. QED
    BY <2>1, <2>2
<1>10. kids' \in [TopRows -> Int] /\ ready' \in Seq(TopRows)
  <2>1. ready \in Seq(TopRows) /\ R \in Seq(TopRows)
    BY <1>7, <1>9 DEF TreeInv, TreeTypes
  <2> HIDE DEF R
  <2>2. ready \o R \in Seq(TopRows)
    BY <2>1, ConcatProperties
  <2>3. QED
    BY <1>5, <2>2 DEF TreeInv, TreeTypes, R
<1>11. /\ TreeTypes' /\ Placed' /\ tpc'[t] = "processed"
       /\ \A u \in Threads \ {t} : tpc'[u] = tpc[u]
       /\ Counting' = Counting \cup {t} /\ t \notin Counting
  <2>1. todo'[t] = <<>> \/ \E c \in TopRows : todo'[t] = <<c>>
    BY <1>7, <1>9
  <2>2. QED
    BY <1>2, <1>4, <1>10, <2>1, WriteTopPlaces
<1>12. ASSUME NEW c \in N PROVE ~Open(c) /\ Open(c)'
  <2>1. c \in TopRows /\ TopParent[c] = f /\ c # f /\ f # NoFront
    BY <1>3, <1>7, <1>12, ChildSetFacts, ExtFacts, SubFacts
  <2>2. Prior(c) = {f} /\ Prior(c)' = {f}
    BY <1>1, <1>2, <2>1 DEF Prior, Subtrees
  <2>3. ~Open(c)
    BY <1>2, <1>3, <2>2 DEF Open
  <2>4. c \notin Solved
    BY <1>2, <1>3, <2>1, <2>2 DEF TopInv
  <2>5. TopDone' = Solved \cup {f}
    BY <1>1, <1>4 DEF TopDone
  <2>6. \A g : g = c => Open(g)'
    BY <2>1, <2>2, <2>4, <2>5 DEF Open, Prior
  <2>7. QED
    BY <2>3, <2>6
<1>13. TopInv'
  <2>1. TopDone' = TopDone \cup {f}
    BY <1>1, <1>2, <1>4 DEF TopDone
  <2>2. ready' = ready \o R
    BY <1>5
  <2>3. stage # "forward_top"
    OBVIOUS
  <2> HIDE DEF N, R
  <2>4. QED
    BY <1>2, <1>6, <1>7, <1>9, <1>11, <1>12, <2>1, <2>2, <2>3, TopStep DEF f
<1>14. SnapFresh'
  <2>1. ASSUME NEW u \in Threads \ {t}, tpc[u] = "write"
        PROVE  RowsRead(todo[u][1]) \subseteq Fronts /\ \A r \in RowsRead(todo[u][1]) : x'[r] = x[r]
    <3>1. RowsRead(todo[u][1]) \subseteq Fronts /\ f \notin RowsRead(todo[u][1])
      BY <1>1, <1>2, <2>1, WriteTopSnap DEF f
    <3>2. QED
      BY <1>4, <3>1
  <2>2. tpc'[t] # "write"
    BY <1>11
  <2>3. QED
    BY <1>6, <1>11, <2>1, <2>2, WriteSnap
<1>15. Progress'
  BY <1>1, <1>2, <1>3, <1>4, ShareQuiet DEF TreeInv, Progress
<1>16. RowInv'
  <2>1. \A r \in Fronts : x[r].upd = Updates(r)
    BY <1>2 DEF TreeInv, RowInv, Tops
  <2>2. QED
    BY <1>1, <1>2, <1>4, <2>1, ExtFacts DEF RowInv
<1>17. QED
  BY <1>1, <1>2, <1>11, <1>13, <1>14, <1>15, <1>16 DEF TreeInv, JobInv

\* Every step keeps the invariant.
LEMMA TreeNext == IInv /\ TreeInv /\ [Next]_vars => TreeInv'
<1> SUFFICES ASSUME IInv, TreeInv, [Next]_vars PROVE TreeInv'
  OBVIOUS
<1>1. CASE UNCHANGED <<poolVars, treeVars>>
  BY <1>1, TreeSame, ShareQuiet
<1>2. CASE Start
  BY <1>2, StartTree
<1>3. CASE Return
  BY <1>3, ReturnTree
<1>4. CASE CallerWaits \/ End \/ \E w \in Workers : Worker(w)
  BY <1>4, PoolQuiet, TreeSame
<1>5. ASSUME NEW t \in Threads, Write(t) PROVE TreeInv'
  <2>1. stage \in Subtrees \cup Tops
    BY <1>5, WriteFacts
  <2>2. QED
    BY <1>5, <2>1, WriteForwardSub, WriteBackwardSub, WriteForwardTop, WriteBackwardTop DEF Subtrees, Tops
<1>6. ASSUME NEW t \in Threads, ShareStep(t) PROVE TreeInv'
  BY <1>5, <1>6, BeginTree, ClaimTree, SumTree, PollTree, EmptyTree, PopTree, ProcessedTree, ReadTree
     DEF ShareStep
<1>7. CASE \E c \in Callers : Caller(c)
  BY <1>1, <1>7 DEF Caller
<1>8. QED
  BY <1>1, <1>2, <1>3, <1>4, <1>6, <1>7 DEF Next, SolveTree, vars, solveVars

\* The invariant is enough.
LEMMA TreeInvSolves == TreeInv => SolvesTree
<1> SUFFICES ASSUME TreeInv PROVE SolvesTree
  OBVIOUS
<1>1. ASSUME NEW f \in Fronts, x[f].is # "rhs" PROVE x[f].upd = {k \in Fronts : f \in Ext[k]}
  <2>1. f \in Wrote
    BY <1>1 DEF Wrote
  <2>2. Updates(f) = {k \in Fronts : f \in Ext[k]}
    BY <2>1 DEF TreeInv, RowInv, Updates, Wrote
  <2>3. f \in TopRows => stage \notin {"forward_subtrees", "sum"}
    BY <2>1, SubFacts DEF TreeInv, Progress
  <2>4. QED
    BY <2>2, <2>3 DEF TreeInv, RowInv
<1>2. ASSUME NEW f \in Fronts PROVE x[f].is # "wrong"
  BY DEF TreeInv, TreeTypes
<1>3. ASSUME NEW f \in Fronts, stage = "end" PROVE x[f].is = "solution"
  BY <1>3 DEF TreeInv, Progress, Solved
<1>4. QED
  BY <1>1, <1>2, <1>3 DEF SolvesTree

\* The parallel triangular solves compute the serial ones' answer
\* (solve_forward, solve_backward, run_dag): for every tree, split and number
\* of threads, each front solves its pivot row with exactly its updates, on
\* the way back from final rows, and at the end every row is the solution.
THEOREM SolvesTreeTheorem == Spec => []SolvesTree
<1>1. Init => IInv /\ TreeInv
  BY InitInv, TreeStart
<1>2. IInv /\ TreeInv /\ [Next]_vars => IInv' /\ TreeInv'
  BY NextInv, TreeNext
<1>3. TreeInv => SolvesTree
  BY TreeInvSolves
<1>4. QED
  BY <1>1, <1>2, <1>3, PTL DEF Spec

=============================================================================
