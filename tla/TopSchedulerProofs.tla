------------------------- MODULE TopSchedulerProofs -------------------------
(***************************************************************************)
(* Proofs about TopScheduler, for every tree, number of workers and number *)
(* of BLAS threads: the thread budget is conserved, at most one node is    *)
(* handed out after a stop, and what is handed out is sound: helpers       *)
(* within the share of the node they help, each node once and after its    *)
(* children, and no work left while every worker sleeps.                   *)
(***************************************************************************)
EXTENDS TopScheduler, FiniteSetTheorems, SequenceTheorems, TLAPS

\* Between the two steps of a critical section the worker holds the lock;
\* what it is about to take is there, and the threads its node returned are
\* still free when it goes on to the parent.
LockInv ==
  \A w \in Workers :
    /\ pc[w] \in {"checking", "taking", "linking"} => mtx = w
    /\ pc[w] = "taking" => Takeable(ready, free, offers)
    /\ pc[w] = "linking" => free >= 1

\* A worker holds threads exactly while it runs a node.
InRun == {"run", "tiles", "joining", "ended", "failed", "stopping"}

ShareInv ==
  \A w \in Workers :
    /\ pc[w] \in InRun => share[w] >= 1
    /\ pc[w] \notin InRun => share[w] = 0
    /\ pc[w] \in InRun \cup {"linking"} => node[w] \in Nodes

\* A worker past the load of stopped_ is the one that can be handed a node
\* after the store; once it has been, no other is past it.
LateInv ==
  /\ ~stopped => late = 0
  /\ late <= 1
  /\ late = 1 => \A w \in Workers : pc[w] \notin {"taking", "linking"}

IInv == TypeOK /\ LockInv /\ ShareInv /\ BudgetConserved /\ LateInv

-----------------------------------------------------------------------------
(* Lemmas about the operators                                              *)

\* A share is at least one thread and at most the free ones.
LEMMA ShareBounds ==
  ASSUME NEW fr \in Nat, fr >= 1, NEW n \in Nat
  PROVE  ShareOf(fr, n) \in 1..fr
<1> DEFINE d == fr \div (n + 1)
<1>1. d \in Int /\ d * (n + 1) <= fr
  OBVIOUS
<1>2. d >= 0
  OBVIOUS
<1>3. d <= d * (n + 1)
  <2>1. d * (n + 1) = d * n + d
    BY <1>1
  <2>2. d * n >= 0
    BY <1>1, <1>2
  <2> HIDE DEF d
  <2>3. QED
    BY <1>1, <2>1, <2>2
<1>4. d <= fr
  <2> HIDE DEF d
  <2> QED BY <1>1, <1>3
<1>5. QED
  <2>1. ShareOf(fr, n) = IF d > 1 THEN d ELSE 1
    BY DEF ShareOf
  <2> HIDE DEF d
  <2>2. QED
    BY <1>1, <1>2, <1>4, <2>1

\* What taking, changing and removing elements leaves of a list.
LEMMA ListTypes ==
  ASSUME NEW S, NEW s \in Seq(S)
  PROVE  /\ Len(s) \in Nat
         /\ Len(s) > 0 => s[Len(s)] \in S /\ AllButLast(s) \in Seq(S)
         /\ \A e \in S : Append(s, e) \in Seq(S)
         /\ Len(s) > 0 => \A e \in S : [s EXCEPT ![Len(s)] = e] \in Seq(S)
         /\ \A i \in DOMAIN s : Without(s, i) \in Seq(S)
<1>1. Len(s) \in Nat
  OBVIOUS
<1>2. Len(s) > 0 => s[Len(s)] \in S /\ AllButLast(s) \in Seq(S)
  BY DEF AllButLast
<1>3. /\ \A e \in S : Append(s, e) \in Seq(S)
      /\ Len(s) > 0 => \A e \in S : [s EXCEPT ![Len(s)] = e] \in Seq(S)
  <2>1. \A e \in S : Append(s, e) \in Seq(S)
    OBVIOUS
  <2>2. ASSUME Len(s) > 0, NEW e \in S PROVE [s EXCEPT ![Len(s)] = e] \in Seq(S)
    <3>1. Len(s) \in 1..Len(s)
      BY <2>2
    <3>2. QED
      BY <2>2, <3>1, ExceptSeq
  <2>3. QED
    BY <2>1, <2>2
<1>4. ASSUME NEW i \in DOMAIN s PROVE Without(s, i) \in Seq(S)
  <2>1. i \in 1..Len(s)
    OBVIOUS
  <2>2. SubSeq(s, 1, i - 1) \in Seq(S)
    BY <2>1, SubSeqProperties
  <2>3. SubSeq(s, i + 1, Len(s)) \in Seq(S)
    BY <2>1, SubSeqProperties
  <2>4. QED
    BY <2>2, <2>3 DEF Without
<1>5. QED
  BY <1>1, <1>2, <1>3, <1>4

\* What publish() copies has the mirror's type.
LEMMA PublishedType ==
  ASSUME NEW r \in Seq(Nodes), NEW f \in Nat, NEW m \in Int,
         NEW o \in Seq([job : Workers, slots : Nat \ {0}])
  PROVE  Published(r, f, o, m) \in [ready : Nat, free : Nat, offers : Nat, remaining : Int]
BY DEF Published

\* The threads held when one worker's share changes from none to k.
LEMMA HeldAdd ==
  ASSUME NEW sh \in [Workers -> 0..Threads], NEW w \in Workers, sh[w] = 0,
         NEW k \in 0..Threads
  PROVE  /\ IsFiniteSet(Held(sh))
         /\ IsFiniteSet(Held([sh EXCEPT ![w] = k]))
         /\ Cardinality(Held([sh EXCEPT ![w] = k])) = Cardinality(Held(sh)) + k
<1> DEFINE new == [sh EXCEPT ![w] = k]
           A   == {w} \X (1..k)
<1>1. IsFiniteSet(1..Threads) /\ IsFiniteSet(1..k) /\ Cardinality(1..k) = k
  <2>1. 1 \in Int /\ Threads \in Int /\ k \in Int /\ k >= 0
    BY ThreadsAssumption
  <2>2. IsFiniteSet(1..Threads)
    BY <2>1, FS_Interval
  <2>3. IsFiniteSet(1..k) /\ Cardinality(1..k) = IF 1 > k THEN 0 ELSE k - 1 + 1
    BY <2>1, FS_Interval
  <2>4. QED
    BY <2>1, <2>2, <2>3
<1>2. IsFiniteSet(Workers \X (1..Threads))
  BY <1>1, WorkersAssumption, FS_Product
<1>3. IsFiniteSet(Held(sh)) /\ IsFiniteSet(Held(new))
  <2>1. Held(sh) \in SUBSET (Workers \X (1..Threads))
    BY DEF Held
  <2>2. Held(new) \in SUBSET (Workers \X (1..Threads))
    BY DEF Held
  <2>3. QED
    BY <1>2, <2>1, <2>2, FS_Subset
<1>4. IsFiniteSet(A) /\ Cardinality(A) = k
  <2>1. IsFiniteSet({w}) /\ Cardinality({w}) = 1
    BY FS_Singleton
  <2>2. IsFiniteSet(A) /\ Cardinality(A) = Cardinality({w}) * Cardinality(1..k)
    BY <1>1, <2>1, FS_Product
  <2>3. QED
    BY <1>1, <2>1, <2>2
<1>5. Held(new) = Held(sh) \cup A
  BY ThreadsAssumption DEF Held
<1>6. Held(sh) \cap A = {}
  BY ThreadsAssumption DEF Held
<1>7. Cardinality(Held(sh)) \in Nat
  BY <1>3, FS_CardinalityType
<1>8. Cardinality(Held(sh) \cap A) = 0
  BY <1>6, FS_EmptySet
<1>9. Cardinality(Held(new)) = Cardinality(Held(sh)) + Cardinality(A) - Cardinality(Held(sh) \cap A)
  <2>1. Cardinality(Held(sh) \cup A) =
          Cardinality(Held(sh)) + Cardinality(A) - Cardinality(Held(sh) \cap A)
    BY <1>3, <1>4, FS_Union
  <2>2. QED
    BY <1>5, <2>1
<1>10. QED
  <2> HIDE DEF new, A
  <2>1. Cardinality(Held(new)) = Cardinality(Held(sh)) + k
    BY <1>4, <1>7, <1>8, <1>9
  <2>2. QED
    BY <1>3, <2>1 DEF new

\* The threads held when one worker returns its share.
LEMMA HeldRemove ==
  ASSUME NEW sh \in [Workers -> 0..Threads], NEW w \in Workers
  PROVE  /\ Cardinality(Held([sh EXCEPT ![w] = 0])) \in Nat
         /\ Cardinality(Held([sh EXCEPT ![w] = 0])) = Cardinality(Held(sh)) - sh[w]
<1> DEFINE old == [sh EXCEPT ![w] = 0]
<1>1. old \in [Workers -> 0..Threads] /\ old[w] = 0 /\ sh[w] \in 0..Threads
  BY ThreadsAssumption
<1>2. sh = [old EXCEPT ![w] = sh[w]]
  BY <1>1
<1> HIDE DEF old
<1>3. /\ IsFiniteSet(Held(old))
      /\ Cardinality(Held([old EXCEPT ![w] = sh[w]])) = Cardinality(Held(old)) + sh[w]
  BY <1>1, HeldAdd
<1>4. Cardinality(Held(sh)) = Cardinality(Held(old)) + sh[w]
  BY <1>2, <1>3
<1>5. Cardinality(Held(old)) \in Nat
  BY <1>3, FS_CardinalityType
<1>6. QED
  BY <1>1, <1>4, <1>5 DEF old

-----------------------------------------------------------------------------
(* The steps that change neither the budget nor the lists                  *)

\* The initial states satisfy the inductive invariant.
LEMMA InitInv == Init => IInv
<1> SUFFICES ASSUME Init PROVE IInv
  OBVIOUS
<1>1. free = Threads /\ share = [w \in Workers |-> 0] /\ Threads \in Nat /\ Threads >= 1
  BY ThreadsAssumption DEF Init
<1>2. ready \in Seq(Nodes)
  <2>1. Leaves \subseteq Nodes /\ IsFiniteSet(Leaves)
    BY NodesAssumption, FS_Subset DEF Leaves
  <2>2. Cardinality(Leaves) \in Nat
    BY <2>1, FS_CardinalityType
  <2>3. QED
    BY <2>1, <2>2 DEF Init
<1>3. pending \in [Nodes -> Int]
  <2>1. \A p \in Nodes : Cardinality(Children(p)) \in Nat
    <3> TAKE p \in Nodes
    <3>1. Children(p) \subseteq Nodes
      BY DEF Children
    <3>2. QED
      BY <3>1, NodesAssumption, FS_Subset, FS_CardinalityType
  <2>2. QED
    BY <2>1 DEF Init
<1>4. Cardinality(Nodes) \in Nat
  BY NodesAssumption, FS_CardinalityType
<1>5. offers \in Seq([job : Workers, slots : Nat \ {0}]) /\ completed \in Seq(Nodes \X Workers)
  BY DEF Init
<1>6. mirror \in [ready : Nat, free : Nat, offers : Nat, remaining : Int]
  <2>1. mirror = Published(ready, free, offers, remaining) /\ remaining \in Int /\ free \in Nat
    BY <1>1, <1>4 DEF Init
  <2>2. QED
    BY <1>2, <1>5, <2>1, PublishedType
<1>7. TypeOK
  <2>1. 0 \in 0..TileJobs /\ 0 \in 0..Threads /\ free \in 0..Threads
    BY <1>1, BoundsAssumption
  <2>2. /\ remaining \in Int /\ stopped \in BOOLEAN /\ mtx \in Workers \cup {NoWorker}
        /\ sleepers \subseteq Workers /\ waiting \subseteq Workers /\ late \in Nat
    <3>1. remaining \in Int
      BY <1>4 DEF Init
    <3>2. stopped \in BOOLEAN
      BY Zenon DEF Init
    <3>3. mtx = NoWorker /\ sleepers = {} /\ waiting = {} /\ late = 0
      BY DEF Init
    <3>4. QED
      BY <3>1, <3>2, <3>3
  <2>3. /\ pc \in [Workers -> {"spin"}] /\ node \in [Workers -> {NoNode}]
        /\ share \in [Workers -> 0..Threads] /\ tile \in [Workers -> {"none"}]
        /\ jobs \in [Workers -> 0..TileJobs] /\ helpers \in [Workers -> Int]
        /\ helping \in [Workers -> {NoWorker}]
    BY <2>1 DEF Init
  <2>4. QED
    BY <1>2, <1>3, <1>5, <1>6, <2>1, <2>2, <2>3 DEF TypeOK
<1>8. BudgetConserved
  <2>1. HeldThreads = {}
    BY <1>1 DEF HeldThreads, Held
  <2>2. QED
    BY <1>1, <2>1, FS_EmptySet DEF BudgetConserved
<1>9. LockInv /\ ShareInv /\ LateInv
  BY DEF Init, LockInv, ShareInv, LateInv, InRun
<1>10. QED
  BY <1>7, <1>8, <1>9 DEF IInv

\* A step that leaves the scheduler's state, the budget and the fronts alone
\* keeps the invariant when it keeps the lock's and the pc's parts.
LEMMA SameBudget ==
  ASSUME IInv, UNCHANGED share, UNCHANGED free
  PROVE  BudgetConserved'
BY DEF IInv, BudgetConserved, HeldThreads

\* Taking the lock.
LEMMA LockStep == ASSUME IInv, NEW w \in Workers, Lock(w) PROVE IInv'
<1> USE DEF Lock, Unlocked, Goto, sched, cvars, front, help
<1>1. TypeOK'
  BY DEF IInv, TypeOK
<1>2. LockInv'
  BY WorkersAssumption DEF IInv, TypeOK, LockInv
<1>3. ShareInv'
  BY DEF IInv, TypeOK, ShareInv, InRun
<1>4. BudgetConserved'
  BY SameBudget
<1>5. LateInv'
  BY DEF IInv, TypeOK, LateInv, LockInv
<1>6. QED
  BY <1>1, <1>2, <1>3, <1>4, <1>5 DEF IInv

\* A spurious wake-up.
LEMMA SpuriousStep == ASSUME IInv, NEW w \in Workers, SpuriousWake(w) PROVE IInv'
<1> USE DEF SpuriousWake, Goto, sched, cvars, front, help
<1>1. TypeOK'
  BY DEF IInv, TypeOK
<1>2. LockInv'
  BY WorkersAssumption DEF IInv, TypeOK, LockInv
<1>3. ShareInv'
  BY DEF IInv, TypeOK, ShareInv, InRun
<1>4. BudgetConserved'
  BY SameBudget
<1>5. LateInv'
  BY DEF IInv, TypeOK, LateInv, LockInv
<1>6. QED
  BY <1>1, <1>2, <1>3, <1>4, <1>5 DEF IInv

\* Going to sleep.
LEMMA SleepStep == ASSUME IInv, NEW w \in Workers, Sleep(w) PROVE IInv'
<1> USE DEF Sleep, Goto, sched, cvars, front, help
<1>1. TypeOK'
  BY DEF IInv, TypeOK
<1>2. LockInv'
  BY WorkersAssumption DEF IInv, TypeOK, LockInv
<1>3. ShareInv'
  BY DEF IInv, TypeOK, ShareInv, InRun
<1>4. BudgetConserved'
  BY SameBudget
<1>5. LateInv'
  BY DEF IInv, TypeOK, LateInv, LockInv
<1>6. QED
  BY <1>1, <1>2, <1>3, <1>4, <1>5 DEF IInv

\* work() returns.
LEMMA ReturnStep == ASSUME IInv, NEW w \in Workers, Return(w) PROVE IInv'
<1> USE DEF Return, Goto, sched, cvars, front, help
<1>1. TypeOK'
  BY DEF IInv, TypeOK
<1>2. LockInv'
  BY WorkersAssumption DEF IInv, TypeOK, LockInv
<1>3. ShareInv'
  BY DEF IInv, TypeOK, ShareInv, InRun
<1>4. BudgetConserved'
  BY SameBudget
<1>5. LateInv'
  BY DEF IInv, TypeOK, LateInv, LockInv
<1>6. QED
  BY <1>1, <1>2, <1>3, <1>4, <1>5 DEF IInv

\* The worker is let through to take something.
LEMMA CheckedStep == ASSUME IInv, NEW w \in Workers, Checked(w) PROVE IInv'
<1> USE DEF Checked, Runnable, MayTake, Goto, sched, cvars, front, help
<1>1. TypeOK'
  BY DEF IInv, TypeOK
<1>2. LockInv'
  BY WorkersAssumption DEF IInv, TypeOK, LockInv
<1>3. ShareInv'
  BY DEF IInv, TypeOK, ShareInv, InRun
<1>4. BudgetConserved'
  BY SameBudget
<1>5. LateInv'
  BY DEF IInv, TypeOK, LateInv, LockInv
<1>6. QED
  BY <1>1, <1>2, <1>3, <1>4, <1>5 DEF IInv

\* The tile graph is done.
LEMMA TilesDoneStep == ASSUME IInv, NEW w \in Workers, TilesDone(w) PROVE IInv'
<1> USE DEF TilesDone, Goto, sched, cvars, front, help
<1>1. TypeOK'
  BY DEF IInv, TypeOK
<1>2. LockInv'
  BY WorkersAssumption DEF IInv, TypeOK, LockInv
<1>3. ShareInv'
  BY DEF IInv, TypeOK, ShareInv, InRun
<1>4. BudgetConserved'
  BY SameBudget
<1>5. LateInv'
  BY DEF IInv, TypeOK, LateInv, LockInv
<1>6. QED
  BY <1>1, <1>2, <1>3, <1>4, <1>5 DEF IInv

\* The owner leaves its tile job.
LEMMA JoinStep == ASSUME IInv, NEW w \in Workers, Join(w) PROVE IInv'
<1> USE DEF Join, Goto, sched, cvars, front, help
<1>1. TypeOK'
  BY DEF IInv, TypeOK
<1>2. LockInv'
  BY WorkersAssumption DEF IInv, TypeOK, LockInv
<1>3. ShareInv'
  BY DEF IInv, TypeOK, ShareInv, InRun
<1>4. BudgetConserved'
  BY SameBudget
<1>5. LateInv'
  BY DEF IInv, TypeOK, LateInv, LockInv
<1>6. QED
  BY <1>1, <1>2, <1>3, <1>4, <1>5 DEF IInv

\* A helper leaves a tile job.
LEMMA HelpEndStep == ASSUME IInv, NEW w \in Workers, HelpEnd(w) PROVE IInv'
<1> USE DEF HelpEnd, Goto, sched, cvars, front, help
<1>1. TypeOK'
  <2>1. helpers' \in [Workers -> Int] /\ helping' \in [Workers -> Workers \cup {NoWorker}]
    <3>1. /\ helpers \in [Workers -> Int]
          /\ helping \in [Workers -> Workers \cup {NoWorker}]
      BY DEF IInv, TypeOK
    <3>2. CASE helping[w] \in Workers
      <4>1. helpers[helping[w]] - 1 \in Int
        BY <3>1, <3>2
      <4>2. QED
        BY <3>1, <3>2, <4>1
    <3>3. CASE helping[w] \notin Workers
      <4>1. helpers' = helpers
        BY <3>1, <3>3
      <4>2. QED
        BY <3>1, <4>1
    <3>4. QED
      BY <3>2, <3>3
  <2>2. /\ pc' = [pc EXCEPT ![w] = "spin"]
        /\ UNCHANGED <<pending, ready, offers, completed, free, remaining, stopped, mirror, mtx,
                       sleepers, waiting, node, share, tile, jobs, late>>
    OBVIOUS
  <2> HIDE DEF HelpEnd
  <2>3. QED
    BY <2>1, <2>2 DEF IInv, TypeOK
<1>2. LockInv'
  BY WorkersAssumption DEF IInv, TypeOK, LockInv
<1>3. ShareInv'
  BY DEF IInv, TypeOK, ShareInv, InRun
<1>4. BudgetConserved'
  BY SameBudget
<1>5. LateInv'
  BY DEF IInv, TypeOK, LateInv, LockInv
<1>6. QED
  BY <1>1, <1>2, <1>3, <1>4, <1>5 DEF IInv

\* The front ends or fails.
LEMMA RunEndStep == ASSUME IInv, NEW w \in Workers, RunEnd(w) PROVE IInv'
<1> USE DEF RunEnd, Goto, sched, cvars, front, help
<1>1. TypeOK'
  BY DEF IInv, TypeOK
<1>2. LockInv'
  BY WorkersAssumption, SMTT(30) DEF IInv, TypeOK, LockInv
<1>3. ShareInv'
  BY DEF IInv, TypeOK, ShareInv, InRun
<1>4. BudgetConserved'
  BY SameBudget
<1>5. LateInv'
  BY DEF IInv, TypeOK, LateInv, LockInv
<1>6. QED
  BY <1>1, <1>2, <1>3, <1>4, <1>5 DEF IInv

\* The store of stopped_.
LEMMA StopStoreStep == ASSUME IInv, NEW w \in Workers, StopStore(w) PROVE IInv'
<1> USE DEF StopStore, Goto, sched, cvars, front, help
<1>1. TypeOK'
  BY DEF IInv, TypeOK
<1>2. LockInv'
  BY WorkersAssumption DEF IInv, TypeOK, LockInv
<1>3. ShareInv'
  BY DEF IInv, TypeOK, ShareInv, InRun
<1>4. BudgetConserved'
  BY SameBudget
<1>5. LateInv'
  BY DEF IInv, TypeOK, LateInv, LockInv
<1>6. QED
  BY <1>1, <1>2, <1>3, <1>4, <1>5 DEF IInv

-----------------------------------------------------------------------------
(* The steps that change the lists or the budget                           *)

\* A wake-up adds no sleeper.
LEMMA WakeOneShrinks ==
  ASSUME NEW r, NEW f, NEW o, WakeOne(r, f, o)
  PROVE  waiting' \subseteq waiting
BY DEF WakeOne

\* What the lists, the budget and the mirror have in common in every step.
LEMMA SharedTypes ==
  ASSUME TypeOK
  PROVE  /\ ready \in Seq(Nodes) /\ Len(ready) \in Nat
         /\ offers \in Seq([job : Workers, slots : Nat \ {0}]) /\ Len(offers) \in Nat
         /\ free \in Nat /\ free \in 0..Threads /\ Threads \in Nat /\ remaining \in Int
         /\ share \in [Workers -> 0..Threads]
<1>1. Threads \in Nat
  BY ThreadsAssumption
<1>2. free \in Nat
  BY <1>1 DEF TypeOK
<1>3. QED
  BY <1>1, <1>2 DEF TypeOK

\* A node leaves the list with its share of the free threads.
LEMMA TakeNodeStep == ASSUME IInv, NEW w \in Workers, TakeNode(w) PROVE IInv'
<1> DEFINE rest == AllButLast(ready)
           k    == ShareOf(free, Len(rest))
<1>1. /\ pc[w] = "taking" /\ Len(ready) > 0 /\ free > 0
      /\ ready' = rest /\ free' = free - k
      /\ share' = [share EXCEPT ![w] = k]
      /\ node' = [node EXCEPT ![w] = ready[Len(ready)]]
      /\ mirror' = Published(rest, free', offers, remaining)
      /\ WakeOne(rest, free', offers)
      /\ jobs' = [jobs EXCEPT ![w] = TileJobs]
      /\ late' = IF stopped THEN late + 1 ELSE late
      /\ mtx' = NoWorker
      /\ pc' = [pc EXCEPT ![w] = "run"]
      /\ UNCHANGED <<pending, offers, completed, remaining, stopped, sleepers, spurious, tile,
                     helpers, helping>>
  BY DEF TakeNode, Goto, CountLate, help
<1>2. rest \in Seq(Nodes) /\ Len(rest) \in Nat /\ ready[Len(ready)] \in Nodes
  BY <1>1, SharedTypes DEF IInv, AllButLast
<1>3. k \in 1..free /\ free \in 0..Threads /\ Threads \in Nat
  <2>1. free \in Nat /\ free >= 1 /\ free \in 0..Threads /\ Threads \in Nat
    BY <1>1, SharedTypes DEF IInv
  <2> HIDE DEF rest
  <2>2. QED
    BY <1>2, <2>1, ShareBounds
<1> HIDE DEF rest, k
<1>4. k \in 0..Threads /\ free' \in 0..Threads /\ free' \in Nat
  BY <1>1, <1>3
<1>5. waiting' \subseteq Workers
  BY <1>1, WakeOneShrinks DEF IInv, TypeOK
<1>6. TypeOK'
  <2>1. mirror' \in [ready : Nat, free : Nat, offers : Nat, remaining : Int]
    BY <1>1, <1>2, <1>4, SharedTypes, PublishedType DEF IInv
  <2>2. late' \in Nat
    BY <1>1 DEF IInv, TypeOK
  <2>3. /\ jobs' \in [Workers -> 0..TileJobs] /\ share' \in [Workers -> 0..Threads]
        /\ node' \in [Workers -> Nodes \cup {NoNode}]
    <3>1. /\ jobs' = [jobs EXCEPT ![w] = TileJobs] /\ share' = [share EXCEPT ![w] = k]
          /\ node' = [node EXCEPT ![w] = ready[Len(ready)]]
      BY <1>1
    <3>2. TileJobs \in 0..TileJobs
      BY BoundsAssumption
    <3>3. jobs' \in [Workers -> 0..TileJobs]
      BY <3>1, <3>2 DEF IInv, TypeOK
    <3>4. share' \in [Workers -> 0..Threads]
      BY <1>4, <3>1 DEF IInv, TypeOK
    <3>5. node' \in [Workers -> Nodes \cup {NoNode}]
      BY <1>2, <3>1 DEF IInv, TypeOK
    <3>6. QED
      BY <3>3, <3>4, <3>5
  <2>4. /\ pc' \in [Workers -> {"spin", "checking", "asleep", "taking", "returned", "run", "tiles",
                               "joining", "help", "ended", "failed", "stopping", "linking"}]
        /\ ready' \in Seq(Nodes) /\ mtx' \in Workers \cup {NoWorker}
    <3>1. pc' = [pc EXCEPT ![w] = "run"] /\ ready' = rest /\ mtx' = NoWorker
      BY <1>1
    <3>2. QED
      BY <1>2, <3>1 DEF IInv, TypeOK
  <2>5. /\ pending' = pending /\ offers' = offers /\ completed' = completed
        /\ remaining' = remaining /\ stopped' = stopped /\ sleepers' = sleepers
        /\ tile' = tile /\ helpers' = helpers /\ helping' = helping /\ spurious' = spurious
    BY <1>1
  <2>6. QED
    BY <1>4, <1>5, <2>1, <2>2, <2>3, <2>4, <2>5 DEF IInv, TypeOK
<1>7. LockInv'
  BY <1>1, WorkersAssumption DEF IInv, TypeOK, LockInv
<1>8. ShareInv'
  BY <1>1, <1>2, <1>3 DEF IInv, TypeOK, ShareInv, InRun
<1>9. BudgetConserved'
  <2>1. share \in [Workers -> 0..Threads] /\ share[w] = 0
    BY <1>1 DEF IInv, TypeOK, ShareInv, InRun
  <2>2. Cardinality(Held([share EXCEPT ![w] = k])) = Cardinality(Held(share)) + k
    BY <2>1, <1>4, HeldAdd
  <2>3. Cardinality(Held(share)) \in Nat
    BY <2>1, <1>4, HeldAdd, FS_CardinalityType
  <2>4. HeldThreads' = Held([share EXCEPT ![w] = k])
    BY <1>1 DEF HeldThreads, Held
  <2>5. QED
    BY <1>1, <1>3, <2>2, <2>3, <2>4 DEF IInv, BudgetConserved, HeldThreads
<1>10. LateInv'
  <2>1. \A v \in Workers : v # w => pc'[v] = pc[v] /\ pc[v] \notin {"taking", "linking"}
    BY <1>1 DEF IInv, TypeOK, LockInv
  <2>2. pc'[w] = "run"
    BY <1>1 DEF IInv, TypeOK
  <2>3. late = 0
    BY <1>1 DEF IInv, LateInv, TypeOK
  <2>4. QED
    BY <1>1, <2>1, <2>2, <2>3 DEF LateInv
<1>11. QED
  BY <1>6, <1>7, <1>8, <1>9, <1>10 DEF IInv

\* A place of the newest offer is taken.
LEMMA TakeOfferStep == ASSUME IInv, NEW w \in Workers, TakeOffer(w) PROVE IInv'
<1> DEFINE o    == offers[Len(offers)]
           left == IF o.slots = 1 THEN AllButLast(offers)
                   ELSE [offers EXCEPT ![Len(offers)].slots = @ - 1]
<1>1. /\ pc[w] = "taking" /\ ~(Len(ready) > 0 /\ free > 0)
      /\ offers' = left
      /\ helpers' = [helpers EXCEPT ![o.job] = @ + 1]
      /\ helping' = [helping EXCEPT ![w] = o.job]
      /\ mirror' = Published(ready, free, left, remaining)
      /\ WakeOne(ready, free, left)
      /\ mtx' = NoWorker
      /\ pc' = [pc EXCEPT ![w] = "help"]
      /\ UNCHANGED <<pending, ready, completed, free, remaining, stopped, late, sleepers, spurious,
                     node, share, tile, jobs>>
  BY DEF TakeOffer, Goto, front
<1>2. Len(offers) > 0
  BY <1>1 DEF IInv, LockInv, Takeable
<1>3. o \in [job : Workers, slots : Nat \ {0}]
  BY <1>2, SharedTypes, ListTypes DEF IInv
<1>4. left \in Seq([job : Workers, slots : Nat \ {0}])
  <2>1. CASE o.slots = 1
    BY <2>1, <1>2, SharedTypes, ListTypes DEF IInv
  <2>2. CASE o.slots # 1
    <3>1. [o EXCEPT !.slots = @ - 1] \in [job : Workers, slots : Nat \ {0}]
      BY <1>3, <2>2
    <3>2. [offers EXCEPT ![Len(offers)] = [o EXCEPT !.slots = @ - 1]]
            \in Seq([job : Workers, slots : Nat \ {0}])
      <4> DEFINE e == [o EXCEPT !.slots = @ - 1]
      <4> HIDE DEF e, o
      <4>1. [offers EXCEPT ![Len(offers)] = e] \in Seq([job : Workers, slots : Nat \ {0}])
        BY <3>1, <1>2, SharedTypes, ListTypes DEF IInv, e
      <4>2. QED
        BY <4>1 DEF e
    <3>3. left = [offers EXCEPT ![Len(offers)] = [o EXCEPT !.slots = @ - 1]]
      BY <2>2
    <3>4. QED
      BY <3>2, <3>3
  <2>3. QED
    BY <2>1, <2>2
<1> HIDE DEF o, left
<1>5. waiting' \subseteq Workers
  BY <1>1, WakeOneShrinks DEF IInv, TypeOK
<1>6. TypeOK'
  <2>1. mirror' \in [ready : Nat, free : Nat, offers : Nat, remaining : Int]
    BY <1>1, <1>4, SharedTypes, PublishedType DEF IInv
  <2>2. /\ helpers' \in [Workers -> Int]
        /\ helping' \in [Workers -> Workers \cup {NoWorker}]
    <3>1. o.job \in Workers
      BY <1>3
    <3>2. /\ helpers' = [helpers EXCEPT ![o.job] = @ + 1]
          /\ helping' = [helping EXCEPT ![w] = o.job]
      BY <1>1
    <3>3. helpers' \in [Workers -> Int]
      <4>1. helpers \in [Workers -> Int]
        BY DEF IInv, TypeOK
      <4> HIDE DEF IInv
      <4>2. helpers[o.job] + 1 \in Int
        BY <3>1, <4>1
      <4>3. QED
        BY <3>1, <3>2, <4>1, <4>2
    <3>4. helping' \in [Workers -> Workers \cup {NoWorker}]
      BY <3>1, <3>2 DEF IInv, TypeOK
    <3>5. QED
      BY <3>3, <3>4
  <2>3. /\ offers' \in Seq([job : Workers, slots : Nat \ {0}])
        /\ mtx' \in Workers \cup {NoWorker}
    BY <1>1, <1>4
  <2>4. pc' \in [Workers -> {"spin", "checking", "asleep", "taking", "returned", "run", "tiles",
                            "joining", "help", "ended", "failed", "stopping", "linking"}]
    <3>1. pc' = [pc EXCEPT ![w] = "help"]
      BY <1>1
    <3>2. QED
      BY <3>1 DEF IInv, TypeOK
  <2>5. /\ pending' = pending /\ ready' = ready /\ completed' = completed /\ free' = free
        /\ remaining' = remaining /\ stopped' = stopped /\ sleepers' = sleepers
        /\ node' = node /\ share' = share /\ tile' = tile /\ jobs' = jobs /\ late' = late
    BY <1>1 DEF front
  <2>6. QED
    BY <1>5, <2>1, <2>2, <2>3, <2>4, <2>5 DEF IInv, TypeOK
<1>7. LockInv'
  BY <1>1, WorkersAssumption DEF IInv, TypeOK, LockInv
<1>8. ShareInv'
  BY <1>1 DEF IInv, TypeOK, ShareInv, InRun
<1>9. BudgetConserved'
  BY <1>1, SameBudget
<1>10. LateInv'
  BY <1>1 DEF IInv, TypeOK, LateInv
<1>11. QED
  BY <1>6, <1>7, <1>8, <1>9, <1>10 DEF IInv

\* A front offers its spare places.
LEMMA OfferStep == ASSUME IInv, NEW w \in Workers, Offer(w) PROVE IInv'
<1> DEFINE new == [job |-> w, slots |-> share[w] - 1]
<1>1. /\ pc[w] = "run" /\ jobs[w] > 0 /\ share[w] > 1 /\ mtx = NoWorker
      /\ offers' = Append(offers, new)
      /\ mirror' = Published(ready, free, offers', remaining)
      /\ WakeOne(ready, free, offers')
      /\ jobs' = [jobs EXCEPT ![w] = @ - 1]
      /\ tile' = [tile EXCEPT ![w] = "open"]
      /\ pc' = [pc EXCEPT ![w] = "tiles"]
      /\ UNCHANGED <<pending, ready, completed, free, remaining, stopped, late, mtx, sleepers,
                     spurious, node, share, helpers, helping>>
  BY DEF Offer, Unlocked, Goto, help
<1>2. new \in [job : Workers, slots : Nat \ {0}]
  BY <1>1, SharedTypes DEF IInv
<1> HIDE DEF new
<1>3. offers' \in Seq([job : Workers, slots : Nat \ {0}])
  BY <1>1, <1>2, SharedTypes DEF IInv
<1>4. waiting' \subseteq Workers
  BY <1>1, WakeOneShrinks DEF IInv, TypeOK
<1>5. TypeOK'
  <2>1. mirror' \in [ready : Nat, free : Nat, offers : Nat, remaining : Int]
    BY <1>1, <1>3, SharedTypes, PublishedType DEF IInv
  <2>2. jobs' \in [Workers -> 0..TileJobs]
    BY <1>1, BoundsAssumption, SMTT(30) DEF IInv, TypeOK
  <2>3. QED
    BY <1>1, <1>3, <1>4, <2>1, <2>2 DEF IInv, TypeOK
<1>6. LockInv'
  BY <1>1, WorkersAssumption DEF IInv, TypeOK, LockInv
<1>7. ShareInv'
  BY <1>1 DEF IInv, TypeOK, ShareInv, InRun
<1>8. BudgetConserved'
  BY <1>1, SameBudget
<1>9. LateInv'
  BY <1>1 DEF IInv, TypeOK, LateInv
<1>10. QED
  BY <1>5, <1>6, <1>7, <1>8, <1>9 DEF IInv

\* The places left are withdrawn.
LEMMA WithdrawStep == ASSUME IInv, NEW w \in Workers, Withdraw(w) PROVE IInv'
<1>1. /\ pc[w] = "tiles" /\ mtx = NoWorker
      /\ mirror' = Published(ready, free, offers', remaining)
      /\ pc' = [pc EXCEPT ![w] = "joining"]
      /\ UNCHANGED <<pending, ready, completed, free, remaining, stopped, late, mtx, sleepers,
                     spurious, waiting, node, share, tile, jobs, helpers, helping>>
  BY DEF Withdraw, Unlocked, Goto, cvars, front, help
<1>2. offers' \in Seq([job : Workers, slots : Nat \ {0}])
  <2>1. CASE UNCHANGED offers
    BY <2>1, SharedTypes DEF IInv
  <2>2. ASSUME NEW i \in DOMAIN offers, offers' = Without(offers, i)
        PROVE  offers' \in Seq([job : Workers, slots : Nat \ {0}])
    <3>1. Without(offers, i) \in Seq([job : Workers, slots : Nat \ {0}])
      BY SharedTypes, ListTypes DEF IInv
    <3>2. QED
      BY <2>2, <3>1
  <2>3. QED
    BY <2>1, <2>2 DEF Withdraw
<1>3. TypeOK'
  <2>1. mirror' \in [ready : Nat, free : Nat, offers : Nat, remaining : Int]
    BY <1>1, <1>2, SharedTypes, PublishedType DEF IInv
  <2>2. QED
    BY <1>1, <1>2, <2>1 DEF IInv, TypeOK
<1>4. LockInv'
  BY <1>1, WorkersAssumption DEF IInv, TypeOK, LockInv
<1>5. ShareInv'
  BY <1>1 DEF IInv, TypeOK, ShareInv, InRun
<1>6. BudgetConserved'
  BY <1>1, SameBudget
<1>7. LateInv'
  BY <1>1 DEF IInv, TypeOK, LateInv
<1>8. QED
  BY <1>3, <1>4, <1>5, <1>6, <1>7 DEF IInv

-----------------------------------------------------------------------------
(* finish()                                                                *)

\* The threads of an ended node go back to the budget.
LEMMA ReturnThreads ==
  ASSUME IInv, NEW w \in Workers,
         free' = Returned(w), share' = [share EXCEPT ![w] = 0]
  PROVE  /\ BudgetConserved'
         /\ free' \in 0..Threads /\ free' \in Nat
         /\ share' \in [Workers -> 0..Threads]
         /\ share[w] >= 1 => free' >= 1
<1>1. share \in [Workers -> 0..Threads] /\ share[w] \in 0..Threads /\ free \in Nat /\ Threads \in Nat
  BY SharedTypes DEF IInv
<1>2. /\ Cardinality(Held([share EXCEPT ![w] = 0])) \in Nat
      /\ Cardinality(Held([share EXCEPT ![w] = 0])) = Cardinality(Held(share)) - share[w]
  BY <1>1, HeldRemove
<1>3. HeldThreads' = Held([share EXCEPT ![w] = 0])
  BY DEF HeldThreads, Held
<1>4. Cardinality(Held(share)) \in Int
  <2>1. Cardinality(Held([share EXCEPT ![w] = 0])) + share[w] \in Int
    BY <1>1, <1>2
  <2>2. free + Cardinality(Held(share)) = Threads
    BY DEF IInv, BudgetConserved, HeldThreads
  <2>3. IsFiniteSet(Held(share))
    <3>1. IsFiniteSet(Workers \X (1..Threads))
      <4>1. 1 \in Int /\ Threads \in Int
        BY <1>1
      <4>2. IsFiniteSet(1..Threads)
        BY <4>1, FS_Interval
      <4>3. QED
        BY <4>2, WorkersAssumption, FS_Product
    <3>2. Held(share) \in SUBSET (Workers \X (1..Threads))
      BY DEF Held
    <3>3. QED
      BY <3>1, <3>2, FS_Subset
  <2>4. QED
    BY <2>3, FS_CardinalityType
<1>5. free' + Cardinality(HeldThreads') = Threads
  BY <1>1, <1>2, <1>3, <1>4 DEF IInv, BudgetConserved, HeldThreads, Returned
<1>6. free' \in Nat
  BY <1>1 DEF Returned
<1>7. QED
  BY <1>1, <1>2, <1>3, <1>5, <1>6 DEF BudgetConserved, Returned

\* The end of a failed node.
LEMMA FinishFailedStep == ASSUME IInv, NEW w \in Workers, FinishFailed(w) PROVE IInv'
<1>1. /\ pc[w] = "stopping" /\ mtx = NoWorker
      /\ free' = Returned(w)
      /\ mirror' = Published(ready, free', offers, remaining)
      /\ waiting' = {}
      /\ share' = [share EXCEPT ![w] = 0]
      /\ node' = [node EXCEPT ![w] = NoNode]
      /\ pc' = [pc EXCEPT ![w] = "spin"]
      /\ UNCHANGED <<pending, ready, offers, completed, remaining, stopped, late, mtx, sleepers,
                     spurious, tile, jobs, helpers, helping>>
  BY DEF FinishFailed, Unlocked, NotifyAll, Idle, Goto, help
<1>2. /\ BudgetConserved' /\ free' \in 0..Threads /\ free' \in Nat
      /\ share' \in [Workers -> 0..Threads]
  BY <1>1, ReturnThreads
<1>3. TypeOK'
  <2>1. mirror' \in [ready : Nat, free : Nat, offers : Nat, remaining : Int]
    BY <1>1, <1>2, SharedTypes, PublishedType DEF IInv
  <2>2. QED
    BY <1>1, <1>2, <2>1 DEF IInv, TypeOK
<1>4. LockInv'
  BY <1>1, WorkersAssumption DEF IInv, TypeOK, LockInv
<1>5. ShareInv'
  BY <1>1 DEF IInv, TypeOK, ShareInv, InRun
<1>6. LateInv'
  BY <1>1 DEF IInv, TypeOK, LateInv
<1>7. QED
  BY <1>2, <1>3, <1>4, <1>5, <1>6 DEF IInv

\* The record of a completed node, up to the load of stopped_.
LEMMA FinishRecordStep == ASSUME IInv, NEW w \in Workers, FinishRecord(w) PROVE IInv'
<1>1. /\ pc[w] = "ended" /\ mtx = NoWorker
      /\ free' = Returned(w)
      /\ completed' = Append(completed, <<node[w], w>>)
      /\ remaining' = remaining - 1
      /\ share' = [share EXCEPT ![w] = 0]
      /\ UNCHANGED <<pending, ready, offers, stopped, late, sleepers, spurious, tile, jobs,
                     helpers, helping>>
  BY DEF FinishRecord, Unlocked, Idle, help
<1>2. /\ waiting' \subseteq waiting
      /\ mirror' = Published(ready, free', offers, remaining') \/ mirror' = mirror
      /\ \/ mtx' = NoWorker /\ node' = [node EXCEPT ![w] = NoNode] /\ pc' = [pc EXCEPT ![w] = "spin"]
         \/ ~stopped /\ mtx' = w /\ node' = node /\ pc' = [pc EXCEPT ![w] = "linking"]
  BY <1>1 DEF FinishRecord, Idle, Goto, NotifyAll
<1>3. share[w] >= 1 /\ node[w] \in Nodes
  BY <1>1 DEF IInv, ShareInv, InRun
<1>4. /\ BudgetConserved' /\ free' \in 0..Threads /\ free' \in Nat /\ free' >= 1
      /\ share' \in [Workers -> 0..Threads]
  BY <1>1, <1>3, ReturnThreads
<1>5. TypeOK'
  <2>1. mirror' \in [ready : Nat, free : Nat, offers : Nat, remaining : Int]
    <3>1. remaining' \in Int
      BY <1>1, SharedTypes DEF IInv
    <3>2. Published(ready, free', offers, remaining')
            \in [ready : Nat, free : Nat, offers : Nat, remaining : Int]
      BY <1>4, <3>1, SharedTypes, PublishedType DEF IInv
    <3>3. QED
      BY <1>2, <3>2 DEF IInv, TypeOK
  <2>2. completed' \in Seq(Nodes \X Workers)
    BY <1>1, <1>3 DEF IInv, TypeOK
  <2>3. /\ pc' \in [Workers -> {"spin", "checking", "asleep", "taking", "returned", "run", "tiles",
                                 "joining", "help", "ended", "failed", "stopping", "linking"}]
        /\ node' \in [Workers -> Nodes \cup {NoNode}] /\ mtx' \in Workers \cup {NoWorker}
        /\ waiting' \subseteq Workers
    BY <1>2 DEF IInv, TypeOK
  <2>4. remaining' \in Int
    BY <1>1, SharedTypes DEF IInv
  <2>5. QED
    BY <1>1, <1>4, <2>1, <2>2, <2>3, <2>4 DEF IInv, TypeOK
<1>6. LockInv'
  BY <1>1, <1>2, <1>4, WorkersAssumption, SMTT(30) DEF IInv, TypeOK, LockInv
<1>7. ShareInv'
  BY <1>1, <1>2, <1>3, SMTT(30) DEF IInv, TypeOK, ShareInv, InRun
<1>8. LateInv'
  BY <1>1, <1>2, SMTT(30) DEF IInv, TypeOK, LateInv
<1>9. QED
  BY <1>4, <1>5, <1>6, <1>7, <1>8 DEF IInv

\* The parent's last child goes on with the parent, or the worker is idle.
LEMMA FinishLinkStep == ASSUME IInv, NEW w \in Workers, FinishLink(w) PROVE IInv'
<1> DEFINE p == Parent[node[w]]
           k == ShareOf(free, Len(ready))
           GoesOn == /\ p # NoNode
                     /\ free' = free - k /\ share' = [share EXCEPT ![w] = k]
                     /\ node' = [node EXCEPT ![w] = p] /\ jobs' = [jobs EXCEPT ![w] = TileJobs]
                     /\ late' = (IF stopped THEN late + 1 ELSE late)
                     /\ pc' = [pc EXCEPT ![w] = "run"]
           IsIdle == /\ free' = free /\ share' = [share EXCEPT ![w] = 0]
                     /\ node' = [node EXCEPT ![w] = NoNode] /\ UNCHANGED <<jobs, late>>
                     /\ pc' = [pc EXCEPT ![w] = "spin"]
<1>1. /\ pc[w] = "linking" /\ mtx = w
      /\ pending' = (IF p = NoNode THEN pending ELSE [pending EXCEPT ![p] = @ - 1])
      /\ mirror' = Published(ready, free', offers, remaining)
      /\ WakeOne(ready, free', offers)
      /\ mtx' = NoWorker
      /\ UNCHANGED <<ready, offers, completed, remaining, stopped, sleepers, spurious, tile,
                     helpers, helping>>
  BY DEF FinishLink, help, IInv, LockInv
<1>2. GoesOn \/ IsIdle
  BY DEF FinishLink, Idle, Goto, CountLate
<1>3. /\ node[w] \in Nodes /\ p \in Nodes \cup {NoNode}
      /\ share \in [Workers -> 0..Threads] /\ share[w] = 0
  BY <1>1, ParentAssumption DEF IInv, TypeOK, ShareInv, InRun
<1>4. k \in 1..free /\ free \in 0..Threads /\ Threads \in Nat
  <2>1. free \in Nat /\ free >= 1 /\ free \in 0..Threads /\ Threads \in Nat /\ Len(ready) \in Nat
    BY <1>1, SharedTypes DEF IInv, LockInv
  <2>2. QED
    BY <2>1, ShareBounds
<1> HIDE DEF p, k
<1>5. k \in 0..Threads /\ free' \in 0..Threads /\ free' \in Nat
  BY <1>2, <1>4
<1>6. waiting' \subseteq Workers
  BY <1>1, WakeOneShrinks DEF IInv, TypeOK
<1>7. TypeOK'
  <2>1. mirror' \in [ready : Nat, free : Nat, offers : Nat, remaining : Int]
    BY <1>1, <1>5, SharedTypes, PublishedType DEF IInv
  <2>2. pending' \in [Nodes -> Int]
    BY <1>1, <1>3 DEF IInv, TypeOK
  <2>3. /\ share' \in [Workers -> 0..Threads] /\ jobs' \in [Workers -> 0..TileJobs]
        /\ node' \in [Workers -> Nodes \cup {NoNode}]
    <3>1. CASE GoesOn
      <4>1. TileJobs \in 0..TileJobs /\ p \in Nodes \cup {NoNode}
        BY <1>3, BoundsAssumption
      <4>2. share' = [share EXCEPT ![w] = k] /\ share' \in [Workers -> 0..Threads]
        BY <3>1, <1>3, <1>5
      <4>3. jobs' = [jobs EXCEPT ![w] = TileJobs] /\ node' = [node EXCEPT ![w] = p]
        BY <3>1
      <4>4. jobs' \in [Workers -> 0..TileJobs]
        BY <4>1, <4>3 DEF IInv, TypeOK
      <4>5. node' \in [Workers -> Nodes \cup {NoNode}]
        BY <4>1, <4>3 DEF IInv, TypeOK
      <4>6. QED
        BY <4>2, <4>4, <4>5
    <3>2. CASE IsIdle
      BY <3>2, <1>3, <1>4 DEF IInv, TypeOK
    <3>3. QED
      BY <1>2, <3>1, <3>2
  <2>4. /\ late' \in Nat
        /\ pc' \in [Workers -> {"spin", "checking", "asleep", "taking", "returned", "run", "tiles",
                                 "joining", "help", "ended", "failed", "stopping", "linking"}]
    <3>1. CASE GoesOn
      BY <3>1 DEF IInv, TypeOK
    <3>2. CASE IsIdle
      BY <3>2 DEF IInv, TypeOK
    <3>3. QED
      BY <1>2, <3>1, <3>2
  <2>5. QED
    BY <1>1, <1>5, <1>6, <2>1, <2>2, <2>3, <2>4 DEF IInv, TypeOK
<1>8. LockInv'
  BY <1>1, <1>2, WorkersAssumption, SMTT(30) DEF IInv, TypeOK, LockInv
<1>9. ShareInv'
  <2>1. CASE GoesOn
    BY <2>1, <1>3, <1>4 DEF IInv, TypeOK, ShareInv, InRun
  <2>2. CASE IsIdle
    BY <2>2, <1>3 DEF IInv, TypeOK, ShareInv, InRun
  <2>3. QED
    BY <1>2, <2>1, <2>2
<1>10. BudgetConserved'
  <2>1. \A j \in 0..Threads : /\ Cardinality(Held([share EXCEPT ![w] = j])) = Cardinality(Held(share)) + j
                             /\ Cardinality(Held(share)) \in Nat
    BY <1>3, HeldAdd, FS_CardinalityType
  <2>2. HeldThreads' = Held(share')
    BY DEF HeldThreads, Held
  <2>3. CASE free' = free - k /\ share' = [share EXCEPT ![w] = k]
    <3>1. Cardinality(HeldThreads') = Cardinality(Held(share)) + k /\ Cardinality(Held(share)) \in Nat
      BY <1>5, <2>1, <2>2, <2>3
    <3>2. QED
      BY <1>4, <2>3, <3>1 DEF IInv, BudgetConserved, HeldThreads
  <2>4. CASE free' = free /\ share' = [share EXCEPT ![w] = 0]
    <3>1. 0 \in 0..Threads
      BY <1>4
    <3>2. Cardinality(HeldThreads') = Cardinality(Held(share)) + 0 /\ Cardinality(Held(share)) \in Nat
      BY <2>1, <2>2, <2>4, <3>1
    <3>3. QED
      BY <2>4, <3>2 DEF IInv, BudgetConserved, HeldThreads
  <2>5. QED
    BY <1>2, <2>3, <2>4
<1>11. LateInv'
  <2>1. \A v \in Workers : v # w => pc'[v] = pc[v] /\ pc[v] \notin {"taking", "linking"}
    BY <1>1, <1>2 DEF IInv, TypeOK, LockInv
  <2>2. pc'[w] \in {"run", "spin"}
    BY <1>2 DEF IInv, TypeOK
  <2>3. late = 0
    BY <1>1 DEF IInv, LateInv, TypeOK
  <2>4. QED
    BY <1>1, <1>2, <2>1, <2>2, <2>3 DEF LateInv
<1>12. QED
  BY <1>7, <1>8, <1>9, <1>10, <1>11 DEF IInv

-----------------------------------------------------------------------------
(* The theorems                                                            *)

\* Every step preserves the inductive invariant.
LEMMA NextInv == IInv /\ [Next]_vars => IInv'
<1> SUFFICES ASSUME IInv, [Next]_vars PROVE IInv'
  OBVIOUS
<1>1. CASE UNCHANGED vars
  BY <1>1 DEF vars, sched, cvars, front, help, IInv, TypeOK, LockInv, ShareInv, BudgetConserved,
              HeldThreads, LateInv
<1>2. ASSUME NEW w \in Workers, Step(w) PROVE IInv'
  BY <1>2, LockStep, SleepStep, ReturnStep, CheckedStep, TakeNodeStep, TakeOfferStep, OfferStep,
     TilesDoneStep, WithdrawStep, JoinStep, HelpEndStep, RunEndStep, StopStoreStep,
     FinishFailedStep, FinishRecordStep, FinishLinkStep DEF Step
<1>3. ASSUME NEW w \in Workers, SpuriousWake(w) PROVE IInv'
  BY <1>3, SpuriousStep
<1>4. QED
  BY <1>1, <1>2, <1>3 DEF Next, Finished

\* Every reachable state satisfies the inductive invariant.
THEOREM Inductive == Spec => []IInv
BY InitInv, NextInv, PTL DEF Spec

\* Every variable keeps its type: shares and free threads stay within the
\* budget, offers have places left, workers and nodes stay in their ranges.
THEOREM TypeCorrect == Spec => []TypeOK
<1>1. IInv => TypeOK
  BY DEF IInv
<1>2. QED
  BY <1>1, Inductive, PTL

\* The running nodes' threads and the free ones add up to the budget, on
\* success, on failure and after a stop.
THEOREM BudgetTheorem == Spec => []BudgetConserved
<1>1. IInv => BudgetConserved
  BY DEF IInv
<1>2. QED
  BY <1>1, Inductive, PTL

\* At most one node is handed out after the store of stopped_.
THEOREM LateTheorem == Spec => []AtMostOneLate
<1>1. IInv => AtMostOneLate
  BY DEF IInv, LateInv, AtMostOneLate
<1>2. QED
  BY <1>1, Inductive, PTL

-----------------------------------------------------------------------------
(* What the scheduler hands out                                            *)

HelpersOf(w) == {h \in Workers : helping[h] = w}

\* A front has one offer at most, while its tiles run; its places left and
\* the workers that took one stay below the front's share.
HelpInv ==
  /\ \A w \in Workers : tile[w] # "none" <=> pc[w] \in {"tiles", "joining"}
  /\ \A h \in Workers : helping[h] # NoWorker <=> pc[h] = "help"
  /\ \A w \in Workers : helpers[w] = Cardinality(HelpersOf(w))
  /\ \A w \in Workers : helpers[w] > 0 => tile[w] # "none" /\ helpers[w] < share[w]
  /\ \A i \in DOMAIN offers :
       pc[offers[i].job] = "tiles" /\ offers[i].slots + helpers[offers[i].job] < share[offers[i].job]
  /\ \A i, j \in DOMAIN offers : i # j => offers[i].job # offers[j].job

\* The children of p that have not been counted off: not completed, or in the
\* middle of finish().
Uncounted(p) ==
  {c \in Children(p) : c \notin Completed \/ \E w \in Workers : pc[w] = "linking" /\ node[w] = c}

\* Where a node is: in the list, at a worker, completed; and what pending_
\* tells of its children.
PlaceInv ==
  /\ \A i, j \in DOMAIN ready : i # j => ready[i] # ready[j]
  /\ \A i \in DOMAIN ready :
       ready[i] \in Leaves \ Completed /\ \A w \in Workers : pc[w] \in InRun => node[w] # ready[i]
  /\ \A w \in Workers : pc[w] \in InRun =>
       /\ node[w] \notin Completed /\ Children(node[w]) \subseteq Completed /\ pending[node[w]] = 0
       /\ \A v \in Workers : v # w /\ pc[v] \in InRun => node[v] # node[w]
  /\ \A w \in Workers : pc[w] = "linking" => node[w] \in Completed
  /\ \A n \in Completed : Children(n) \subseteq Completed /\ pending[n] = 0
  /\ \A n \in Leaves : pending[n] = 0

CountInv == \A p \in Nodes : pending[p] >= Cardinality(Uncounted(p))

ListInv ==
  /\ \A i, j \in DOMAIN completed :
       /\ i # j => completed[i][1] # completed[j][1]
       /\ Parent[completed[i][1]] = completed[j][1] => i < j
  /\ remaining = Cardinality(Nodes) - Len(completed)

\* Outside the second half of finish(), what there is to take is published
\* and, if anyone sleeps, announced.
Linking == \E w \in Workers : pc[w] = "linking"

WakeInv ==
  /\ \A w \in waiting : pc[w] = "asleep"
  /\ remaining = 0 => waiting = {}
  /\ \A w \in Workers : pc[w] = "stopping" => stopped
  /\ ~stopped /\ ~Linking => mirror = Published(ready, free, offers, remaining)
  /\ ~stopped /\ ~Linking /\ Takeable(ready, free, offers) /\ waiting # {} =>
       \E w \in Workers : Looking(w)

DInv == HelpInv /\ PlaceInv /\ CountInv /\ ListInv /\ WakeInv

-----------------------------------------------------------------------------
(* The helpers                                                             *)

LEMMA HelpersCount ==
  \A w \in Workers : IsFiniteSet(HelpersOf(w)) /\ Cardinality(HelpersOf(w)) \in Nat
<1> TAKE w \in Workers
<1>1. HelpersOf(w) \in SUBSET Workers
  BY DEF HelpersOf
<1>2. QED
  BY <1>1, WorkersAssumption, FS_Subset, FS_CardinalityType

\* The state in the types its steps need.
LEMMA HelpTypes ==
  ASSUME IInv
  PROVE  /\ pc \in [Workers -> {"spin", "checking", "asleep", "taking", "returned", "run", "tiles",
                                "joining", "help", "ended", "failed", "stopping", "linking"}]
         /\ share \in [Workers -> Nat] /\ tile \in [Workers -> {"none", "open", "done"}]
         /\ helpers \in [Workers -> Int] /\ helping \in [Workers -> Workers \cup {NoWorker}]
         /\ offers \in Seq([job : Workers, slots : Nat \ {0}]) /\ NoWorker \notin Workers
BY WorkersAssumption, ThreadsAssumption DEF IInv, TypeOK

LEMMA Elements ==
  ASSUME NEW S, NEW s \in Seq(S)
  PROVE  DOMAIN s = 1..Len(s) /\ Len(s) \in Nat /\ \A i \in DOMAIN s : s[i] \in S
OBVIOUS

LEMMA OfferRecords ==
  ASSUME IInv, NEW i \in DOMAIN offers
  PROVE  offers[i] \in [job : Workers, slots : Nat \ {0}]
<1>1. offers \in Seq([job : Workers, slots : Nat \ {0}])
  BY HelpTypes
<1>2. QED
  BY <1>1, Elements

LEMMA OfferTypes ==
  ASSUME IInv
  PROVE  \A i \in DOMAIN offers : offers[i].job \in Workers /\ offers[i].slots \in Nat \ {0}
<1> TAKE i \in DOMAIN offers
<1>1. offers[i] \in [job : Workers, slots : Nat \ {0}]
  BY OfferRecords
<1>2. QED
  BY <1>1

LEMMA HelpInit == Init => HelpInv
<1> SUFFICES ASSUME Init PROVE HelpInv
  OBVIOUS
<1>1. \A w \in Workers : HelpersOf(w) = {}
  BY WorkersAssumption DEF Init, HelpersOf
<1>2. \A w \in Workers : helpers[w] = 0 /\ Cardinality(HelpersOf(w)) = 0
  BY <1>1, FS_EmptySet DEF Init
<1>3. offers = <<>>
  BY DEF Init
<1>4. \A w \in Workers : tile[w] = "none" /\ helping[w] = NoWorker /\ pc[w] = "spin"
  BY DEF Init
<1>5. QED
  BY <1>2, <1>3, <1>4 DEF HelpInv

LEMMA HelpAt ==
  ASSUME IInv, HelpInv, NEW w \in Workers
  PROVE  /\ helpers[w] \in Nat /\ share[w] \in Nat
         /\ pc[w] \notin {"tiles", "joining"} => tile[w] = "none" /\ helpers[w] = 0
         /\ \A i \in DOMAIN offers : pc[w] # "tiles" => offers[i].job # w
<1>1. helpers[w] \in Nat
  BY HelpersCount DEF HelpInv
<1>2. share[w] \in Nat
  BY HelpTypes
<1>3. tile[w] = "none" => helpers[w] = 0
  <2>1. helpers[w] > 0 => tile[w] # "none"
    BY DEF HelpInv
  <2>2. QED
    BY <1>1, <2>1
<1>4. QED
  BY <1>1, <1>2, <1>3 DEF HelpInv

\* Steps of a worker that is no owner of tiles and no helper, before and after.
LEMMA HelpQuiet ==
  ASSUME IInv, HelpInv, NEW w \in Workers, UNCHANGED <<offers, tile, help>>,
         pc[w] \notin {"tiles", "joining", "help"}, pc'[w] \notin {"tiles", "joining", "help"},
         \A v \in Workers \ {w} : pc'[v] = pc[v] /\ share'[v] = share[v]
  PROVE  HelpInv'
<1> USE HelpTypes DEF HelpInv, help
<1>1. \A v \in Workers : HelpersOf(v)' = HelpersOf(v)
  BY DEF HelpersOf
<1>2. helpers[w] <= 0 /\ tile[w] = "none"
  BY HelpersCount
<1>3. \A i \in DOMAIN offers : offers[i].job \in Workers \ {w}
  BY OfferTypes
<1>4. (\A v \in Workers : helpers[v] > 0 => tile[v] # "none" /\ helpers[v] < share[v])'
  BY <1>2
<1>5. (\A i \in DOMAIN offers :
         pc[offers[i].job] = "tiles" /\ offers[i].slots + helpers[offers[i].job] < share[offers[i].job])'
  BY <1>3
<1>6. QED
  BY <1>1, <1>2, <1>4, <1>5

\* The tile job of the owner: opened by the offer, done, joined.
LEMMA HelpOffer == ASSUME IInv, HelpInv, NEW w \in Workers, Offer(w) PROVE HelpInv'
<1>3. /\ DOMAIN offers' = DOMAIN offers \cup {Len(offers) + 1} /\ Len(offers) + 1 \notin DOMAIN offers
      /\ offers'[Len(offers) + 1] = [job |-> w, slots |-> share[w] - 1]
      /\ \A i \in DOMAIN offers : offers'[i] = offers[i]
  <2> DEFINE o == [job |-> w, slots |-> share[w] - 1]
  <2>1. offers' = Append(offers, o) /\ share[w] > 1
    BY DEF Offer
  <2>2. o \in [job : Workers, slots : Nat \ {0}]
    BY <2>1, HelpTypes
  <2>3. offers \in Seq([job : Workers, slots : Nat \ {0}])
    BY HelpTypes
  <2> HIDE DEF o
  <2>4. DOMAIN offers = 1..Len(offers) /\ Len(offers) \in Nat
    BY <2>3, Elements
  <2>5. QED
    BY <2>1, <2>2, <2>3, <2>4 DEF o
<1> USE HelpTypes DEF HelpInv, help, Offer, Goto
<1>1. \A v \in Workers : HelpersOf(v)' = HelpersOf(v)
  BY DEF HelpersOf
<1>2. helpers[w] = 0 /\ tile[w] = "none" /\ share[w] > 1
  BY HelpAt
<1>4. \A i \in DOMAIN offers : offers[i].job \in Workers \ {w}
  BY OfferTypes
<1>5. (\A v \in Workers : helpers[v] > 0 => tile[v] # "none" /\ helpers[v] < share[v])'
  BY <1>2
<1>6. (\A i \in DOMAIN offers :
         pc[offers[i].job] = "tiles" /\ offers[i].slots + helpers[offers[i].job] < share[offers[i].job])'
  BY <1>2, <1>3, <1>4, SMTT(30)
<1>7. (\A i, j \in DOMAIN offers : i # j => offers[i].job # offers[j].job)'
  <2>1. offers'[Len(offers) + 1].job = w
    BY <1>3
  <2>2. \A i \in DOMAIN offers : offers'[i].job = offers[i].job /\ offers'[i].job # w
    BY <1>3, <1>4
  <2>3. \A i, j \in DOMAIN offers : i # j => offers[i].job # offers[j].job
    OBVIOUS
  <2> HIDE DEF HelpInv, help, Offer, Goto
  <2>4. QED
    BY <1>3, <2>1, <2>2, <2>3, SMTT(30)
<1>8. (\A v \in Workers : tile[v] # "none" <=> pc[v] \in {"tiles", "joining"})'
  BY <1>2
<1>9. (\A h \in Workers : helping[h] # NoWorker <=> pc[h] = "help")'
  BY <1>2
<1>10. (\A v \in Workers : helpers[v] = Cardinality(HelpersOf(v)))'
  BY <1>1, <1>2
<1> HIDE DEF help, Offer, Goto
<1>11. QED
  BY <1>5, <1>6, <1>7, <1>8, <1>9, <1>10

LEMMA HelpTilesDone == ASSUME IInv, HelpInv, NEW w \in Workers, TilesDone(w) PROVE HelpInv'
<1> USE HelpTypes DEF HelpInv, help, front, sched, cvars, TilesDone
<1>1. \A v \in Workers : HelpersOf(v)' = HelpersOf(v)
  BY DEF HelpersOf
<1>2. QED
  BY <1>1

LEMMA HelpJoin == ASSUME IInv, HelpInv, NEW w \in Workers, Join(w) PROVE HelpInv'
<1> USE HelpTypes DEF HelpInv, help, front, sched, cvars, Join, Goto
<1>1. \A v \in Workers : HelpersOf(v)' = HelpersOf(v)
  BY DEF HelpersOf
<1>2. \A i \in DOMAIN offers : offers[i].job \in Workers \ {w}
  BY OfferTypes
<1>3. QED
  BY <1>1, <1>2

\* The elements Without leaves, at the places they had.
LEMMA WithoutAt ==
  ASSUME NEW S, NEW s \in Seq(S), NEW i \in DOMAIN s
  PROVE  /\ DOMAIN Without(s, i) = 1 .. Len(s) - 1
         /\ \A j \in DOMAIN Without(s, i) : Without(s, i)[j] = IF j < i THEN s[j] ELSE s[j + 1]
<1> DEFINE a == SubSeq(s, 1, i - 1)
           z == SubSeq(s, i + 1, Len(s))
<1>1. i \in 1..Len(s) /\ Len(s) \in Nat
  OBVIOUS
<1>2. a \in Seq(S) /\ Len(a) = i - 1 /\ \A j \in 1..(i - 1) : a[j] = s[j]
  BY <1>1, SubSeqProperties
<1>3. z \in Seq(S) /\ Len(z) = Len(s) - i /\ \A j \in 1..(Len(s) - i) : z[j] = s[i + j]
  BY <1>1, SubSeqProperties
<1> HIDE DEF a, z
<1>4. /\ DOMAIN (a \o z) = 1 .. Len(s) - 1
      /\ \A j \in 1 .. Len(s) - 1 : (a \o z)[j] = IF j < i THEN s[j] ELSE s[j + 1]
  BY <1>1, <1>2, <1>3, SMTT(30)
<1>5. Without(s, i) = a \o z
  BY DEF Without, a, z
<1>6. QED
  BY <1>4, <1>5

LEMMA WithoutKeeps ==
  ASSUME NEW S, NEW s \in Seq(S), NEW i \in DOMAIN s
  PROVE  \A j \in DOMAIN Without(s, i) : \E m \in DOMAIN s \ {i} :
           Without(s, i)[j] = s[m] /\ m = IF j < i THEN j ELSE j + 1
<1>1. DOMAIN s = 1..Len(s) /\ Len(s) \in Nat
  OBVIOUS
<1>2. /\ DOMAIN Without(s, i) = 1 .. Len(s) - 1
      /\ \A j \in DOMAIN Without(s, i) : Without(s, i)[j] = IF j < i THEN s[j] ELSE s[j + 1]
  BY WithoutAt
<1>3. QED
  BY <1>1, <1>2

\* A list of one offer per job, and what is left of it without its k-th.
OneGone(k) ==
  (\A i, j \in DOMAIN offers : i # j => offers[i].job # offers[j].job) =>
    LET left == Without(offers, k)
    IN  /\ \A i \in DOMAIN left :
             left[i].job # offers[k].job /\ \E m \in DOMAIN offers : left[i] = offers[m]
        /\ \A i, j \in DOMAIN left : i # j => left[i].job # left[j].job

LEMMA FirstGone ==
  ASSUME IInv, NEW k \in DOMAIN offers
  PROVE  OneGone(k)
<1> SUFFICES ASSUME \A i, j \in DOMAIN offers : i # j => offers[i].job # offers[j].job
             PROVE  OneGone(k)
  BY DEF OneGone
<1> DEFINE left == Without(offers, k)
<1>1. DOMAIN offers \subseteq Int /\ DOMAIN left \subseteq Int /\ k \in Int
  <2>1. DOMAIN offers = 1..Len(offers) /\ DOMAIN left = 1 .. Len(offers) - 1
    BY HelpTypes, Elements, WithoutAt
  <2>2. QED
    BY <2>1
<1>2. \A j \in DOMAIN left : \E m \in DOMAIN offers \ {k} :
        left[j] = offers[m] /\ m = IF j < k THEN j ELSE j + 1
  BY HelpTypes, WithoutKeeps
<1> HIDE DEF left
<1>3. \A i, j \in DOMAIN left : i # j => left[i].job # left[j].job
  <2> SUFFICES ASSUME NEW i \in DOMAIN left, NEW j \in DOMAIN left, i # j
               PROVE  left[i].job # left[j].job
    OBVIOUS
  <2>1. PICK m \in DOMAIN offers \ {k} : left[i] = offers[m] /\ m = IF i < k THEN i ELSE i + 1
    BY <1>2
  <2>2. PICK n \in DOMAIN offers \ {k} : left[j] = offers[n] /\ n = IF j < k THEN j ELSE j + 1
    BY <1>2
  <2>3. m # n
    BY <1>1, <2>1, <2>2
  <2>4. QED
    BY <2>1, <2>2, <2>3
<1>4. \A i \in DOMAIN left : 
        left[i].job # offers[k].job /\ \E m \in DOMAIN offers : left[i] = offers[m]
  BY <1>2
<1>5. QED
  BY <1>3, <1>4 DEF left, OneGone

LEMMA HelpWithdraw == ASSUME IInv, HelpInv, NEW w \in Workers, Withdraw(w) PROVE HelpInv'
<1> USE HelpTypes DEF HelpInv, help, front, cvars, Withdraw, Goto
<1>1. \A v \in Workers : HelpersOf(v)' = HelpersOf(v)
  BY DEF HelpersOf
<1>2. /\ \A i \in DOMAIN offers' : offers'[i].job # w /\ \E k \in DOMAIN offers : offers'[i] = offers[k]
      /\ \A i, j \in DOMAIN offers' : i # j => offers'[i].job # offers'[j].job
  <2>1. CASE (\A i \in DOMAIN offers : offers[i].job # w) /\ UNCHANGED offers
    BY <2>1
  <2>2. ASSUME NEW k \in DOMAIN offers, offers[k].job = w, offers' = Without(offers, k)
        PROVE  <1>2
    <3>1. \A i, j \in DOMAIN offers : i # j => offers[i].job # offers[j].job
      OBVIOUS
    <3> HIDE DEF HelpInv, help, front, cvars, Withdraw, Goto
    <3>2. OneGone(k)
      BY FirstGone
    <3>3. QED
      BY <2>2, <3>1, <3>2 DEF OneGone
  <2>3. QED
    BY <2>1, <2>2
<1>3. (\A i \in DOMAIN offers :
         pc[offers[i].job] = "tiles" /\ offers[i].slots + helpers[offers[i].job] < share[offers[i].job])'
  <2> SUFFICES ASSUME NEW i \in DOMAIN offers'
               PROVE  /\ pc'[offers'[i].job] = "tiles"
                      /\ offers'[i].slots + helpers[offers'[i].job] < share[offers'[i].job]
    OBVIOUS
  <2>1. PICK m \in DOMAIN offers : offers'[i] = offers[m] /\ offers[m].job # w
    <3> HIDE DEF HelpInv, help, front, cvars, Withdraw, Goto
    <3> QED
      BY <1>2, SMTT(30)
  <2>2. offers[m].job \in Workers
    BY OfferTypes
  <2>3. QED
    BY <2>1, <2>2
<1>4. QED
  BY <1>1, <1>2, <1>3

\* The helpers of a job when a worker begins or ends helping it.
LEMMA HelpersChange ==
  ASSUME IInv, NEW w \in Workers, NEW j \in Workers
  PROVE  /\ helping[w] = NoWorker /\ helping' = [helping EXCEPT ![w] = j] =>
              /\ Cardinality(HelpersOf(j)') = Cardinality(HelpersOf(j)) + 1
              /\ \A v \in Workers \ {j} : HelpersOf(v)' = HelpersOf(v)
         /\ helping[w] = j /\ helping' = [helping EXCEPT ![w] = NoWorker] =>
              /\ Cardinality(HelpersOf(j)') = Cardinality(HelpersOf(j)) - 1
              /\ \A v \in Workers \ {j} : HelpersOf(v)' = HelpersOf(v)
<1>1. helping \in [Workers -> Workers \cup {NoWorker}] /\ NoWorker \notin Workers
  BY HelpTypes
<1>2. IsFiniteSet(HelpersOf(j))
  BY HelpersCount
<1>3. ASSUME helping[w] = NoWorker, helping' = [helping EXCEPT ![w] = j]
      PROVE  /\ Cardinality(HelpersOf(j)') = Cardinality(HelpersOf(j)) + 1
             /\ \A v \in Workers \ {j} : HelpersOf(v)' = HelpersOf(v)
  <2>1. HelpersOf(j)' = HelpersOf(j) \cup {w} /\ w \notin HelpersOf(j)
    BY <1>1, <1>3 DEF HelpersOf
  <2>2. Cardinality(HelpersOf(j) \cup {w}) = Cardinality(HelpersOf(j)) + 1
    BY <1>2, <2>1, FS_AddElement
  <2>3. \A v \in Workers \ {j} : HelpersOf(v)' = HelpersOf(v)
    BY <1>1, <1>3 DEF HelpersOf
  <2>4. QED
    BY <2>1, <2>2, <2>3
<1>4. ASSUME helping[w] = j, helping' = [helping EXCEPT ![w] = NoWorker]
      PROVE  /\ Cardinality(HelpersOf(j)') = Cardinality(HelpersOf(j)) - 1
             /\ \A v \in Workers \ {j} : HelpersOf(v)' = HelpersOf(v)
  <2>1. HelpersOf(j)' = HelpersOf(j) \ {w} /\ w \in HelpersOf(j)
    BY <1>1, <1>4 DEF HelpersOf
  <2>2. Cardinality(HelpersOf(j) \ {w}) = Cardinality(HelpersOf(j)) - 1
    BY <1>2, <2>1, FS_RemoveElement
  <2>3. \A v \in Workers \ {j} : HelpersOf(v)' = HelpersOf(v)
    BY <1>1, <1>4 DEF HelpersOf
  <2>4. QED
    BY <2>1, <2>2, <2>3
<1>5. QED
  BY <1>3, <1>4

LEMMA FrontOf ==
  ASSUME NEW S, NEW s \in Seq(S), Len(s) > 0
  PROVE  /\ DOMAIN SubSeq(s, 1, Len(s) - 1) = 1 .. Len(s) - 1
         /\ \A i \in 1 .. Len(s) - 1 : SubSeq(s, 1, Len(s) - 1)[i] = s[i]
<1>1. Len(s) \in Nat
  OBVIOUS
<1>2. QED
  BY <1>1, SubSeqProperties

\* A place of the last offer is taken: one place less, one helper more.
LEMMA PlaceTaken ==
  ASSUME IInv, NEW w \in Workers, TakeOffer(w)
  PROVE  LET n == Len(offers) IN
         /\ n \in DOMAIN offers
         /\ DOMAIN offers' \subseteq DOMAIN offers
         /\ \A i \in DOMAIN offers' :
              /\ offers'[i].job = offers[i].job
              /\ offers'[i].slots = IF i = n THEN offers[i].slots - 1 ELSE offers[i].slots
<1>1. Len(offers) > 0 /\ Len(offers) \in Nat /\ DOMAIN offers = 1..Len(offers)
  <2>1. Takeable(ready, free, offers)
    BY DEF TakeOffer, IInv, LockInv
  <2>2. Len(offers) \in Nat /\ DOMAIN offers = 1..Len(offers)
    BY HelpTypes, Elements
  <2>3. QED
    BY <2>1, <2>2 DEF TakeOffer, Takeable
<1>2. Len(offers) \in DOMAIN offers
  BY <1>1
<1>3. offers[Len(offers)].slots \in Nat \ {0}
  BY <1>2, OfferTypes
<1>4. CASE offers[Len(offers)].slots = 1
  <2>1. offers' = AllButLast(offers)
    BY <1>4 DEF TakeOffer
  <2>2. DOMAIN offers' = 1 .. Len(offers) - 1 /\ \A i \in DOMAIN offers' : offers'[i] = offers[i]
    <3>1. offers \in Seq([job : Workers, slots : Nat \ {0}])
      BY HelpTypes
    <3>2. QED
      BY <1>1, <2>1, <3>1, FrontOf DEF AllButLast
  <2>3. QED
    BY <1>1, <1>2, <2>2
<1>5. CASE offers[Len(offers)].slots # 1
  <2>1. offers' = [offers EXCEPT ![Len(offers)].slots = @ - 1]
    BY <1>5 DEF TakeOffer
  <2>2. DOMAIN offers' = DOMAIN offers /\ \A i \in DOMAIN offers' :
          offers'[i] = IF i = Len(offers) THEN [offers[i] EXCEPT !.slots = @ - 1] ELSE offers[i]
    <3> DEFINE e == [offers[Len(offers)] EXCEPT !.slots = @ - 1]
    <3>1. offers' = [offers EXCEPT ![Len(offers)] = e]
      BY <2>1
    <3> HIDE DEF e
    <3>2. offers = [i \in DOMAIN offers |-> offers[i]]
      BY HelpTypes
    <3>3. offers' = [i \in DOMAIN offers |-> IF i = Len(offers) THEN e ELSE offers[i]]
      BY <1>2, <3>1, <3>2
    <3>4. DOMAIN offers' = DOMAIN offers
          /\ \A i \in DOMAIN offers' : offers'[i] = IF i = Len(offers) THEN e ELSE offers[i]
      BY <3>3
    <3>5. QED
      BY <3>4 DEF e
  <2>3. \A i \in DOMAIN offers : offers[i] \in [job : Workers, slots : Nat \ {0}]
    BY OfferRecords
  <2>4. \A o \in [job : Workers, slots : Nat \ {0}] :
          [o EXCEPT !.slots = @ - 1].job = o.job /\ [o EXCEPT !.slots = @ - 1].slots = o.slots - 1
    <3> TAKE o \in [job : Workers, slots : Nat \ {0}]
    <3>1. DOMAIN o = {"job", "slots"}
      OBVIOUS
    <3>2. QED
      BY <3>1, Zenon
  <2>5. ASSUME NEW i \in DOMAIN offers'
        PROVE  /\ offers'[i].job = offers[i].job
               /\ offers'[i].slots = IF i = Len(offers) THEN offers[i].slots - 1 ELSE offers[i].slots
    <3>1. i \in DOMAIN offers /\ offers[i] \in [job : Workers, slots : Nat \ {0}]
      BY <2>2, <2>3
    <3>2. CASE i = Len(offers)
      BY <2>2, <2>4, <3>1, <3>2
    <3>3. CASE i # Len(offers)
      BY <2>2, <3>3
    <3>4. QED
      BY <3>2, <3>3
  <2>6. QED
    BY <1>2, <2>2, <2>5
<1>6. QED
  BY <1>2, <1>4, <1>5

LEMMA HelpTakeOffer == ASSUME IInv, HelpInv, NEW w \in Workers, TakeOffer(w) PROVE HelpInv'
<1> DEFINE n == Len(offers)
<1>1. /\ n \in DOMAIN offers /\ DOMAIN offers' \subseteq DOMAIN offers
      /\ \A i \in DOMAIN offers' :
           /\ offers'[i].job = offers[i].job
           /\ offers'[i].slots = IF i = n THEN offers[i].slots - 1 ELSE offers[i].slots
  BY PlaceTaken
<1>0. PICK j \in Workers : j = offers[n].job
  BY <1>1, OfferTypes
<1>2. j \in Workers /\ offers[n].slots \in Nat \ {0} /\ pc[j] = "tiles"
  BY <1>0, <1>1, OfferTypes DEF HelpInv
<1>3. /\ helpers' = [helpers EXCEPT ![j] = @ + 1] /\ helping' = [helping EXCEPT ![w] = j]
      /\ pc[w] = "taking" /\ pc' = [pc EXCEPT ![w] = "help"] /\ UNCHANGED <<share, tile>>
  BY <1>0 DEF TakeOffer, Goto, front
<1>4. helping[w] = NoWorker
  BY <1>3 DEF HelpInv
<1>5. /\ Cardinality(HelpersOf(j)') = Cardinality(HelpersOf(j)) + 1
      /\ \A v \in Workers \ {j} : HelpersOf(v)' = HelpersOf(v)
  BY <1>2, <1>3, <1>4, HelpersChange
<1>6. \A v \in Workers : helpers'[v] = IF v = j THEN helpers[v] + 1 ELSE helpers[v]
  BY <1>2, <1>3, HelpTypes
<1>7. \A v \in Workers : pc'[v] = IF v = w THEN "help" ELSE pc[v]
  BY <1>3, HelpTypes
<1>8. \A h \in Workers : helping'[h] = IF h = w THEN j ELSE helping[h]
  BY <1>3, HelpTypes
<1>9. \A v \in Workers : helpers[v] \in Nat /\ share[v] \in Nat
  BY HelpAt
<1> HIDE DEF n
<1>10. \A v \in Workers : tile'[v] # "none" <=> pc'[v] \in {"tiles", "joining"}
  BY <1>3, <1>7 DEF HelpInv
<1>11. \A h \in Workers : helping'[h] # NoWorker <=> pc'[h] = "help"
  <2>1. \A h \in Workers : helping[h] # NoWorker <=> pc[h] = "help"
    BY DEF HelpInv
  <2>2. j # NoWorker
    BY <1>2, HelpTypes
  <2>3. QED
    BY <1>7, <1>8, <2>1, <2>2
<1>12. \A v \in Workers : helpers'[v] = Cardinality(HelpersOf(v)')
  <2>1. \A v \in Workers : helpers[v] = Cardinality(HelpersOf(v))
    BY DEF HelpInv
  <2>2. helpers'[j] = Cardinality(HelpersOf(j)')
    BY <1>2, <1>5, <1>6, <2>1
  <2>3. \A v \in Workers \ {j} : helpers'[v] = Cardinality(HelpersOf(v)')
    <3>1. ASSUME NEW v \in Workers \ {j} PROVE helpers'[v] = Cardinality(HelpersOf(v)')
      <4>1. helpers'[v] = helpers[v] /\ HelpersOf(v)' = HelpersOf(v)
        BY <1>5, <1>6
      <4>2. QED
        BY <2>1, <4>1
    <3>2. QED
      BY <3>1
  <2>4. QED
    BY <2>2, <2>3
<1>13. /\ n \in DOMAIN offers /\ pc[j] = "tiles" /\ offers[n].job = j
       /\ offers[n].slots + helpers[j] < share[j]
  BY <1>0, <1>1, <1>2 DEF HelpInv
<1>14. \A v \in Workers : helpers'[v] > 0 => tile'[v] # "none" /\ helpers'[v] < share'[v]
  BY <1>2, <1>3, <1>6, <1>9, <1>13 DEF HelpInv
<1>15. \A i \in DOMAIN offers' :
         pc'[offers'[i].job] = "tiles" /\ offers'[i].slots + helpers'[offers'[i].job] < share'[offers'[i].job]
  <2> SUFFICES ASSUME NEW i \in DOMAIN offers'
               PROVE  /\ pc'[offers'[i].job] = "tiles"
                      /\ offers'[i].slots + helpers'[offers'[i].job] < share'[offers'[i].job]
    OBVIOUS
  <2>1. /\ i \in DOMAIN offers /\ offers[i].job \in Workers /\ offers[i].slots \in Nat
        /\ pc[offers[i].job] = "tiles" /\ offers[i].slots + helpers[offers[i].job] < share[offers[i].job]
    BY <1>1, OfferTypes DEF HelpInv
  <2>2. i # n => offers[i].job # j
    BY <1>1, <1>13, <2>1 DEF HelpInv
  <2>3. pc'[offers'[i].job] = "tiles"
    BY <1>1, <1>3, <1>7, <2>1
  <2>4. CASE i = n
    BY <1>1, <1>3, <1>6, <1>9, <1>13, <2>1, <2>3, <2>4
  <2>5. CASE i # n
    BY <1>1, <1>3, <1>6, <1>9, <2>1, <2>2, <2>3, <2>5
  <2>6. QED
    BY <2>4, <2>5
<1>16. \A i, k \in DOMAIN offers' : i # k => offers'[i].job # offers'[k].job
  BY <1>1 DEF HelpInv
<1>17. QED
  BY <1>10, <1>11, <1>12, <1>14, <1>15, <1>16 DEF HelpInv

LEMMA HelpHelpEnd == ASSUME IInv, HelpInv, NEW w \in Workers, HelpEnd(w) PROVE HelpInv'
<1>0. PICK j \in Workers : j = helping[w]
  <2>1. helping[w] # NoWorker
    BY DEF HelpEnd, HelpInv
  <2>2. QED
    BY <2>1, HelpTypes
<1>1. /\ helpers' = [helpers EXCEPT ![j] = @ - 1] /\ helping' = [helping EXCEPT ![w] = NoWorker]
      /\ pc[w] = "help" /\ pc' = [pc EXCEPT ![w] = "spin"] /\ UNCHANGED <<share, tile, offers>>
  BY <1>0 DEF HelpEnd, Goto, front, sched
<1>3. /\ Cardinality(HelpersOf(j)') = Cardinality(HelpersOf(j)) - 1
      /\ \A v \in Workers \ {j} : HelpersOf(v)' = HelpersOf(v)
  BY <1>0, <1>1, HelpersChange
<1>4. \A v \in Workers : helpers'[v] = IF v = j THEN helpers[v] - 1 ELSE helpers[v]
  BY <1>0, <1>1, HelpTypes
<1>5. \A v \in Workers : pc'[v] = IF v = w THEN "spin" ELSE pc[v]
  BY <1>1, HelpTypes
<1>6. \A h \in Workers : helping'[h] = IF h = w THEN NoWorker ELSE helping[h]
  BY <1>1, HelpTypes
<1>7. \A v \in Workers : helpers[v] \in Nat /\ share[v] \in Nat
  BY HelpAt
<1>8. /\ \A v \in Workers : tile'[v] # "none" <=> pc'[v] \in {"tiles", "joining"}
      /\ \A h \in Workers : helping'[h] # NoWorker <=> pc'[h] = "help"
  BY <1>1, <1>5, <1>6 DEF HelpInv
<1>9. \A v \in Workers : helpers'[v] = Cardinality(HelpersOf(v)')
  BY <1>3, <1>4 DEF HelpInv
<1>10. \A v \in Workers : helpers'[v] > 0 => tile'[v] # "none" /\ helpers'[v] < share'[v]
  BY <1>1, <1>4, <1>7 DEF HelpInv
<1>11. \A i \in DOMAIN offers' :
         pc'[offers'[i].job] = "tiles" /\ offers'[i].slots + helpers'[offers'[i].job] < share'[offers'[i].job]
  <2> SUFFICES ASSUME NEW i \in DOMAIN offers
               PROVE  /\ pc'[offers[i].job] = "tiles"
                      /\ offers[i].slots + helpers'[offers[i].job] < share[offers[i].job]
    BY <1>1
  <2>1. /\ offers[i].job \in Workers /\ offers[i].slots \in Nat
        /\ pc[offers[i].job] = "tiles" /\ offers[i].slots + helpers[offers[i].job] < share[offers[i].job]
    BY OfferTypes DEF HelpInv
  <2>2. QED
    BY <1>1, <1>4, <1>5, <1>7, <2>1
<1>12. \A i, k \in DOMAIN offers' : i # k => offers'[i].job # offers'[k].job
  BY <1>1 DEF HelpInv
<1>13. QED
  BY <1>8, <1>9, <1>10, <1>11, <1>12 DEF HelpInv

LEMMA HelpNext == ASSUME IInv, HelpInv, [Next]_vars PROVE HelpInv'
<1>1. CASE UNCHANGED vars
  BY <1>1 DEF vars, sched, front, help, HelpInv, HelpersOf
<1>2. ASSUME NEW w \in Workers, SpuriousWake(w) PROVE HelpInv'
  BY <1>2 DEF SpuriousWake, sched, front, help, HelpInv, HelpersOf
<1>3. ASSUME NEW w \in Workers, Step(w) PROVE HelpInv'
  <2> USE HelpTypes DEF sched, cvars, front, help, Goto, Idle
  <2>1. CASE Lock(w) \/ Sleep(w) \/ Return(w) \/ Checked(w)
    BY <2>1, HelpQuiet DEF Lock, Sleep, Return, Checked
  <2>2. CASE TakeNode(w)
    BY <2>2, HelpQuiet DEF TakeNode
  <2>3. CASE RunEnd(w)
    BY <2>3, HelpQuiet DEF RunEnd
  <2>4. CASE StopStore(w) \/ FinishFailed(w)
    BY <2>4, HelpQuiet DEF StopStore, FinishFailed
  <2>5. CASE FinishRecord(w)
    BY <2>5, HelpQuiet DEF FinishRecord
  <2>6. CASE FinishLink(w)
    BY <2>6, HelpQuiet DEF FinishLink
  <2>7. QED
    BY <1>3, <2>1, <2>2, <2>3, <2>4, <2>5, <2>6, HelpTakeOffer, HelpOffer, HelpTilesDone,
       HelpWithdraw, HelpJoin, HelpHelpEnd DEF Step
<1>4. QED
  BY <1>1, <1>2, <1>3 DEF Next, Finished

-----------------------------------------------------------------------------
(* The nodes                                                               *)

LEMMA PlaceTypes ==
  ASSUME IInv
  PROVE  /\ pc \in [Workers -> {"spin", "checking", "asleep", "taking", "returned", "run", "tiles",
                                "joining", "help", "ended", "failed", "stopping", "linking"}]
         /\ node \in [Workers -> Nodes \cup {NoNode}] /\ pending \in [Nodes -> Int]
         /\ ready \in Seq(Nodes) /\ completed \in Seq(Nodes \X Workers) /\ Completed \subseteq Nodes
<1>1. completed \in Seq(Nodes \X Workers)
  BY DEF IInv, TypeOK
<1>2. \A i \in DOMAIN completed : completed[i] \in Nodes \X Workers
  BY <1>1, Elements
<1>3. Completed \subseteq Nodes
  BY <1>2 DEF Completed
<1>4. QED
  BY <1>1, <1>3 DEF IInv, TypeOK

LEMMA UncountedFinite ==
  \A p \in Nodes : IsFiniteSet(Uncounted(p)) /\ Cardinality(Uncounted(p)) \in Nat
<1> TAKE p \in Nodes
<1>1. Uncounted(p) \in SUBSET Nodes
  BY DEF Uncounted, Children
<1>2. QED
  BY <1>1, NodesAssumption, FS_Subset, FS_CardinalityType

LEMMA PlaceInit == Init => PlaceInv /\ CountInv /\ ListInv
<1> SUFFICES ASSUME Init PROVE PlaceInv /\ CountInv /\ ListInv
  OBVIOUS
<1>1. Completed = {} /\ completed = <<>>
  BY DEF Init, Completed
<1>2. Leaves \subseteq Nodes /\ IsFiniteSet(Leaves) /\ Cardinality(Leaves) \in Nat
  BY NodesAssumption, FS_Subset, FS_CardinalityType DEF Leaves
<1>3. DOMAIN ready = 1..Cardinality(Leaves) /\ \A i \in DOMAIN ready : ready[i] \in Leaves
  BY <1>2 DEF Init
<1>4. \A i, j \in DOMAIN ready : i # j => ready[i] # ready[j]
  <2> SUFFICES ASSUME NEW i \in DOMAIN ready, NEW j \in DOMAIN ready, i # j PROVE ready[i] # ready[j]
    OBVIOUS
  <2>1. i \in Int /\ j \in Int /\ ready[i] \in Nat /\ ready[j] \in Nat
    <3>1. DOMAIN ready \subseteq Int
      BY <1>2, <1>3
    <3>2. Leaves \subseteq Nat
      BY <1>2, NodesAssumption
    <3>3. QED
      BY <1>3, <3>1, <3>2
  <2>2. \A a, b \in DOMAIN ready : a < b => ready[a] < ready[b]
    BY DEF Init
  <2>3. i < j \/ j < i
    BY <2>1
  <2>4. ready[i] < ready[j] \/ ready[j] < ready[i]
    BY <2>2, <2>3
  <2>5. QED
    BY <2>1, <2>4
<1>5. \A w \in Workers : pc[w] = "spin"
  BY DEF Init
<1>6. \A n \in Leaves : pending[n] = 0
  BY <1>2, FS_EmptySet DEF Init, Leaves
<1>7. PlaceInv
  BY <1>1, <1>3, <1>4, <1>5, <1>6 DEF PlaceInv, InRun
<1>8. CountInv
  <2>1. \A p \in Nodes : Uncounted(p) = Children(p) /\ pending[p] = Cardinality(Children(p))
    BY <1>1, <1>5 DEF Init, Uncounted
  <2>2. \A p \in Nodes : Cardinality(Children(p)) \in Nat
    BY <2>1, UncountedFinite
  <2>3. QED
    BY <2>1, <2>2 DEF CountInv
<1>9. ListInv
  <2>1. Cardinality(Nodes) \in Nat
    BY NodesAssumption, FS_CardinalityType
  <2>2. QED
    BY <1>1, <2>1 DEF Init, ListInv
<1>10. QED
  BY <1>7, <1>8, <1>9

\* Fewer children left to count, as many pending.
LEMMA CountFewer ==
  ASSUME CountInv, IInv, IInv', UNCHANGED pending, \A p \in Nodes : Uncounted(p)' \subseteq Uncounted(p)
  PROVE  CountInv'
<1> SUFFICES ASSUME NEW p \in Nodes PROVE pending[p] >= Cardinality(Uncounted(p)')
  BY DEF CountInv
<1>1. Cardinality(Uncounted(p)') <= Cardinality(Uncounted(p)) /\ Cardinality(Uncounted(p)') \in Nat
  <2>1. Uncounted(p)' \in SUBSET Uncounted(p)
    OBVIOUS
  <2>2. QED
    BY <2>1, UncountedFinite, FS_Subset, FS_CardinalityType
<1>2. pending[p] \in Int /\ pending[p] >= Cardinality(Uncounted(p)) /\ Cardinality(Uncounted(p)) \in Nat
  BY PlaceTypes, UncountedFinite DEF CountInv
<1>3. QED
  BY <1>1, <1>2

\* Steps that hand out no node and complete none.
LEMMA PlaceQuiet ==
  ASSUME IInv, IInv', PlaceInv, CountInv, ListInv, UNCHANGED <<ready, completed, pending, remaining>>,
         \A v \in Workers :
           /\ pc'[v] \in InRun => pc[v] \in InRun /\ node'[v] = node[v]
           /\ pc'[v] = "linking" => pc[v] = "linking" /\ node'[v] = node[v]
  PROVE  PlaceInv' /\ CountInv' /\ ListInv'
<1>1. Completed' = Completed
  BY DEF Completed
<1>2. PlaceInv'
  BY <1>1 DEF PlaceInv
<1>3. \A p \in Nodes : Uncounted(p)' \subseteq Uncounted(p)
  BY <1>1 DEF Uncounted
<1>4. CountInv'
  BY <1>3, CountFewer
<1>5. ListInv'
  BY DEF ListInv
<1>6. QED
  BY <1>2, <1>4, <1>5

\* The last node of the list is handed out.
LEMMA PlaceTakeNode ==
  ASSUME IInv, IInv', PlaceInv, CountInv, ListInv, NEW w \in Workers, TakeNode(w)
  PROVE  PlaceInv' /\ CountInv' /\ ListInv'
<1> DEFINE n == Len(ready)
<1>1. /\ ready' = AllButLast(ready) /\ node' = [node EXCEPT ![w] = ready[n]] /\ Len(ready) > 0
      /\ pc' = [pc EXCEPT ![w] = "run"] /\ UNCHANGED <<completed, pending, remaining>>
  BY DEF TakeNode, Goto
<1>2. DOMAIN ready = 1..n /\ n \in Nat /\ ready \in Seq(Nodes) /\ n \in DOMAIN ready
  BY <1>1, PlaceTypes, Elements
<1>3. /\ DOMAIN ready' \subseteq DOMAIN ready /\ n \notin DOMAIN ready'
      /\ \A i \in DOMAIN ready' : ready'[i] = ready[i]
  BY <1>1, <1>2, FrontOf DEF AllButLast
<1>4. PICK x \in Leaves : x = ready[n]
  BY <1>2 DEF PlaceInv
<1>5. /\ x \notin Completed /\ Children(x) = {} /\ pending[x] = 0
      /\ \A v \in Workers : pc[v] \in InRun => node[v] # x
      /\ \A i \in DOMAIN ready' : ready'[i] # x
  BY <1>2, <1>3, <1>4 DEF PlaceInv, Leaves
<1>6. Completed' = Completed
  BY <1>1 DEF Completed
<1>7. \A v \in Workers : /\ pc'[v] = IF v = w THEN "run" ELSE pc[v]
                         /\ node'[v] = IF v = w THEN x ELSE node[v]
  BY <1>1, <1>4, PlaceTypes
<1> HIDE DEF n
<1>8. PlaceInv'
  <2>1. \A i, j \in DOMAIN ready' : i # j => ready'[i] # ready'[j]
    BY <1>3 DEF PlaceInv
  <2>2. \A i \in DOMAIN ready' :
          ready'[i] \in Leaves \ Completed' /\ \A v \in Workers : pc'[v] \in InRun => node'[v] # ready'[i]
    BY <1>3, <1>5, <1>6, <1>7 DEF PlaceInv
  <2>3. \A v \in Workers : pc'[v] \in InRun =>
          /\ node'[v] \notin Completed' /\ Children(node'[v]) \subseteq Completed' /\ pending'[node'[v]] = 0
          /\ \A u \in Workers : u # v /\ pc'[u] \in InRun => node'[u] # node'[v]
    BY <1>1, <1>5, <1>6, <1>7 DEF PlaceInv
  <2>4. \A v \in Workers : pc'[v] = "linking" => node'[v] \in Completed'
    BY <1>6, <1>7 DEF PlaceInv
  <2>5. /\ \A m \in Completed' : Children(m) \subseteq Completed' /\ pending'[m] = 0
        /\ \A m \in Leaves : pending'[m] = 0
    BY <1>1, <1>6 DEF PlaceInv
  <2>6. QED
    BY <2>1, <2>2, <2>3, <2>4, <2>5 DEF PlaceInv
<1>9. \A p \in Nodes : Uncounted(p)' \subseteq Uncounted(p)
  BY <1>6, <1>7 DEF Uncounted
<1>10. CountInv'
  BY <1>1, <1>9, CountFewer
<1>11. ListInv'
  BY <1>1 DEF ListInv
<1>12. QED
  BY <1>8, <1>10, <1>11

\* What is recorded when a node is completed.
LEMMA RecordAppends ==
  ASSUME IInv, NEW w \in Workers, NEW x \in Nodes, completed' = Append(completed, <<x, w>>)
  PROVE  /\ Completed' = Completed \cup {x}
         /\ Len(completed) \in Nat /\ Len(completed') = Len(completed) + 1
         /\ DOMAIN completed = 1..Len(completed) /\ DOMAIN completed' = 1..(Len(completed) + 1)
         /\ \A i \in DOMAIN completed : completed'[i] = completed[i] /\ completed[i][1] \in Completed
         /\ completed'[Len(completed) + 1][1] = x
<1>1. completed \in Seq(Nodes \X Workers)
  BY PlaceTypes
<1>2. /\ Len(completed) \in Nat /\ Len(completed') = Len(completed) + 1
      /\ DOMAIN completed = 1..Len(completed) /\ DOMAIN completed' = 1..(Len(completed) + 1)
      /\ \A i \in DOMAIN completed : completed'[i] = completed[i]
      /\ completed'[Len(completed) + 1] = <<x, w>>
  BY <1>1
<1>3. DOMAIN completed' = DOMAIN completed \cup {Len(completed) + 1}
  BY <1>2
<1>4. Completed' = Completed \cup {x}
  BY <1>2, <1>3 DEF Completed
<1>5. QED
  BY <1>2, <1>4 DEF Completed

\* A node is completed; it is counted off next, unless the run has ended or
\* stopped.
LEMMA PlaceFinishRecord ==
  ASSUME IInv, IInv', PlaceInv, CountInv, ListInv, NEW w \in Workers, FinishRecord(w)
  PROVE  PlaceInv' /\ CountInv' /\ ListInv'
<1>1. /\ pc[w] = "ended" /\ completed' = Append(completed, <<node[w], w>>)
      /\ remaining' = remaining - 1 /\ UNCHANGED <<pending, ready>>
  BY DEF FinishRecord
<1>2. \/ pc' = [pc EXCEPT ![w] = "spin"] /\ node' = [node EXCEPT ![w] = NoNode]
      \/ pc' = [pc EXCEPT ![w] = "linking"] /\ node' = node
  BY DEF FinishRecord, Idle, Goto
<1>3. PICK x \in Nodes : x = node[w]
  BY <1>1 DEF IInv, ShareInv, InRun
<1>4. /\ x \notin Completed /\ Children(x) \subseteq Completed /\ pending[x] = 0
      /\ \A v \in Workers : v # w /\ pc[v] \in InRun => node[v] # x
      /\ \A i \in DOMAIN ready : ready[i] # x
  BY <1>1, <1>3 DEF PlaceInv, InRun
<1>5. /\ Completed' = Completed \cup {x}
      /\ Len(completed) \in Nat /\ Len(completed') = Len(completed) + 1
      /\ DOMAIN completed = 1..Len(completed) /\ DOMAIN completed' = 1..(Len(completed) + 1)
      /\ \A i \in DOMAIN completed : completed'[i] = completed[i] /\ completed[i][1] \in Completed
      /\ completed'[Len(completed) + 1][1] = x
  BY <1>1, <1>3, RecordAppends
<1>6. \A v \in Workers : /\ v # w => pc'[v] = pc[v] /\ node'[v] = node[v]
                         /\ pc'[w] \in {"spin", "linking"} /\ (pc'[w] = "linking" => node'[w] = x)
  BY <1>2, <1>3, PlaceTypes
<1>7. PlaceInv'
  <2>1. \A i, j \in DOMAIN ready' : i # j => ready'[i] # ready'[j]
    BY <1>1 DEF PlaceInv
  <2>2. \A i \in DOMAIN ready' :
          ready'[i] \in Leaves \ Completed' /\ \A v \in Workers : pc'[v] \in InRun => node'[v] # ready'[i]
    BY <1>1, <1>4, <1>5, <1>6 DEF PlaceInv, InRun
  <2>3. \A v \in Workers : pc'[v] \in InRun =>
          /\ node'[v] \notin Completed' /\ Children(node'[v]) \subseteq Completed' /\ pending'[node'[v]] = 0
          /\ \A u \in Workers : u # v /\ pc'[u] \in InRun => node'[u] # node'[v]
    <3>1. \A v \in Workers : pc'[v] \in InRun => v # w /\ pc[v] \in InRun /\ node'[v] = node[v]
      BY <1>6 DEF InRun
    <3>2. QED
      BY <1>1, <1>4, <1>5, <3>1 DEF PlaceInv
  <2>4. \A v \in Workers : pc'[v] = "linking" => node'[v] \in Completed'
    BY <1>5, <1>6 DEF PlaceInv
  <2>5. /\ \A m \in Completed' : Children(m) \subseteq Completed' /\ pending'[m] = 0
        /\ \A m \in Leaves : pending'[m] = 0
    BY <1>1, <1>4, <1>5 DEF PlaceInv
  <2>6. QED
    BY <2>1, <2>2, <2>3, <2>4, <2>5 DEF PlaceInv
<1>8. \A p \in Nodes : Uncounted(p)' \subseteq Uncounted(p)
  BY <1>1, <1>4, <1>5, <1>6 DEF Uncounted
<1>9. CountInv'
  BY <1>1, <1>8, CountFewer
<1>10. ListInv'
  <2>1. x \notin Children(x)
    BY <1>4
  <2>2. \A j \in DOMAIN completed : Parent[x] = completed[j][1] => x \in Children(completed[j][1])
    BY <1>3 DEF Children
  <2>3. \A j \in DOMAIN completed : completed[j][1] # x /\ Children(completed[j][1]) \subseteq Completed
    BY <1>4, <1>5 DEF PlaceInv
  <2>4. \A i, j \in DOMAIN completed' :
          /\ i # j => completed'[i][1] # completed'[j][1]
          /\ Parent[completed'[i][1]] = completed'[j][1] => i < j
    <3> SUFFICES ASSUME NEW i \in DOMAIN completed', NEW j \in DOMAIN completed'
                 PROVE  /\ i # j => completed'[i][1] # completed'[j][1]
                        /\ Parent[completed'[i][1]] = completed'[j][1] => i < j
      OBVIOUS
    <3>1. /\ i \in DOMAIN completed \/ i = Len(completed) + 1
          /\ j \in DOMAIN completed \/ j = Len(completed) + 1
          /\ \A k \in DOMAIN completed : k \in Int /\ k < Len(completed) + 1
      BY <1>5
    <3>2. CASE i \in DOMAIN completed /\ j \in DOMAIN completed
      BY <1>5, <3>2 DEF ListInv
    <3>3. CASE i \in DOMAIN completed /\ j = Len(completed) + 1
      BY <1>5, <2>3, <3>1, <3>3
    <3>4. CASE i = Len(completed) + 1 /\ j \in DOMAIN completed
      <4>1. Parent[x] # completed[j][1]
        BY <1>4, <2>2, <2>3, <3>4
      <4>2. QED
        BY <1>5, <2>3, <3>1, <3>4, <4>1
    <3>5. CASE i = Len(completed) + 1 /\ j = Len(completed) + 1
      <4>1. Parent[x] # x
        BY <1>3, <2>1 DEF Children
      <4>2. QED
        BY <1>5, <3>5, <4>1
    <3>6. QED
      BY <3>1, <3>2, <3>3, <3>4, <3>5
  <2>5. remaining' = Cardinality(Nodes) - Len(completed')
    <3>1. Cardinality(Nodes) \in Nat
      BY NodesAssumption, FS_CardinalityType
    <3>2. QED
      BY <1>1, <1>5, <3>1 DEF ListInv
  <2>6. QED
    BY <2>4, <2>5 DEF ListInv
<1>11. QED
  BY <1>7, <1>9, <1>10

\* The node is counted off: its parent is handed out with the last of its
\* children, and only then.
LEMMA PlaceFinishLink ==
  ASSUME IInv, IInv', PlaceInv, CountInv, ListInv, NEW w \in Workers, FinishLink(w)
  PROVE  PlaceInv' /\ CountInv' /\ ListInv'
<1>1. /\ pc[w] = "linking" /\ UNCHANGED <<ready, completed, remaining>>
      /\ Completed' = Completed
  BY DEF FinishLink, Completed
<1>2. PICK x \in Nodes : x = node[w]
  BY <1>1 DEF IInv, ShareInv
<1>3. PICK p \in Nodes \cup {NoNode} : p = Parent[x]
  BY ParentAssumption
<1>4. /\ pending' = IF p = NoNode THEN pending ELSE [pending EXCEPT ![p] = @ - 1]
      /\ \/ /\ p # NoNode /\ pending[p] = 1
            /\ node' = [node EXCEPT ![w] = p] /\ pc' = [pc EXCEPT ![w] = "run"]
         \/ /\ ~(p # NoNode /\ pending[p] = 1)
            /\ node' = [node EXCEPT ![w] = NoNode] /\ pc' = [pc EXCEPT ![w] = "spin"]
  BY <1>2, <1>3 DEF FinishLink, LastChild, Idle, Goto
<1>5. \A v \in Workers : /\ v # w => pc'[v] = pc[v] /\ node'[v] = node[v] /\ pc[v] # "linking"
                         /\ pc'[w] \in {"run", "spin"}
                         /\ pc'[w] = "run" => node'[w] = p /\ p # NoNode /\ pending[p] = 1
  BY <1>1, <1>4, PlaceTypes DEF IInv, LockInv
<1>6. x \in Completed
  BY <1>1, <1>2 DEF PlaceInv
<1>7. /\ \A q \in Nodes : x \in Children(q) <=> q = p
      /\ \A q \in Nodes : Uncounted(q)' = Uncounted(q) \ {x}
      /\ p # NoNode => x \in Uncounted(p)
  <2>1. \A q \in Nodes : x \in Children(q) <=> q = p
    BY <1>3 DEF Children
  <2>2. \A v \in Workers : pc'[v] # "linking"
    BY <1>5
  <2>3. \A q \in Nodes : Uncounted(q)' = {c \in Children(q) : c \notin Completed}
    BY <1>1, <2>2 DEF Uncounted
  <2>4. \A q \in Nodes : Uncounted(q) = {c \in Children(q) : c \notin Completed \/ c = x}
    BY <1>1, <1>2, <1>5 DEF Uncounted
  <2>5. QED
    BY <1>6, <2>1, <2>3, <2>4
<1>8. \A q \in Nodes : /\ IsFiniteSet(Uncounted(q)) /\ Cardinality(Uncounted(q)) \in Nat
                       /\ pending[q] \in Int /\ pending[q] >= Cardinality(Uncounted(q))
  BY UncountedFinite, PlaceTypes DEF CountInv
<1>9. \A q \in Nodes : Cardinality(Uncounted(q)') =
        IF q = p THEN Cardinality(Uncounted(q)) - 1 ELSE Cardinality(Uncounted(q))
  <2> TAKE q \in Nodes
  <2>1. CASE q = p
    <3>1. Cardinality(Uncounted(q) \ {x}) = Cardinality(Uncounted(q)) - 1
      <4>1. x \in Uncounted(q) /\ IsFiniteSet(Uncounted(q))
        BY <1>7, <1>8, <2>1, NodesAssumption DEF NoNode
      <4>2. QED
        BY <4>1, FS_RemoveElement
    <3>2. QED
      BY <1>7, <2>1, <3>1
  <2>2. CASE q # p
    <3>1. Uncounted(q)' = Uncounted(q)
      BY <1>7, <2>2 DEF Uncounted
    <3>2. QED
      BY <2>2, <3>1
  <2>3. QED
    BY <2>1, <2>2
<1>10. NoNode \notin Nodes
  BY NodesAssumption DEF NoNode
<1>11. CountInv'
  <2>1. \A q \in Nodes : pending'[q] = IF q = p THEN pending[q] - 1 ELSE pending[q]
    BY <1>4, <1>10, PlaceTypes
  <2>2. \A q \in Nodes : pending'[q] >= Cardinality(Uncounted(q)')
    BY <1>8, <1>9, <2>1
  <2>3. QED
    BY <2>2 DEF CountInv
<1>12. p # NoNode =>
         /\ pending[p] >= 1 /\ p \notin Completed /\ p \notin Leaves
         /\ \A v \in Workers : pc[v] \in InRun => node[v] # p
         /\ \A i \in DOMAIN ready : ready[i] # p
  <2> SUFFICES ASSUME p \in Nodes
               PROVE  /\ pending[p] >= 1 /\ p \notin Completed /\ p \notin Leaves
                      /\ \A v \in Workers : pc[v] \in InRun => node[v] # p
                      /\ \A i \in DOMAIN ready : ready[i] # p
    OBVIOUS
  <2>1. Cardinality(Uncounted(p)) # 0
    BY <1>7, <1>8, <1>10, FS_EmptySet
  <2>2. pending[p] >= 1
    BY <1>8, <2>1
  <2>3. p \notin Leaves
    BY <1>7 DEF Leaves
  <2>4. QED
    BY <2>2, <2>3 DEF PlaceInv
<1>13. p # NoNode /\ pending[p] = 1 => Children(p) \subseteq Completed
  <2> SUFFICES ASSUME p \in Nodes, pending[p] = 1 PROVE Children(p) \subseteq Completed
    BY <1>10
  <2>1. Cardinality(Uncounted(p)') = 0
    <3>1. Cardinality(Uncounted(p)') \in Nat
      BY <1>7, <1>8, FS_RemoveElement, FS_CardinalityType, ZenonT(30)
    <3>2. QED
      BY <1>8, <1>9, <3>1
  <2>2. Uncounted(p)' = {}
    BY <1>7, <1>8, <2>1, FS_RemoveElement, FS_EmptySet
  <2>3. QED
    BY <1>1, <2>2 DEF Uncounted
<1>14. PlaceInv'
  <2>0. \A q \in Nodes : pending'[q] = IF q = p THEN pending[q] - 1 ELSE pending[q]
    BY <1>4, <1>10, PlaceTypes
  <2>1. \A i, j \in DOMAIN ready' : i # j => ready'[i] # ready'[j]
    BY <1>1 DEF PlaceInv
  <2>2. \A i \in DOMAIN ready' :
          ready'[i] \in Leaves \ Completed' /\ \A v \in Workers : pc'[v] \in InRun => node'[v] # ready'[i]
    BY <1>1, <1>5, <1>12 DEF PlaceInv, InRun
  <2>3. \A v \in Workers : pc'[v] \in InRun =>
          /\ node'[v] \notin Completed' /\ Children(node'[v]) \subseteq Completed' /\ pending'[node'[v]] = 0
          /\ \A u \in Workers : u # v /\ pc'[u] \in InRun => node'[u] # node'[v]
    <3> SUFFICES ASSUME NEW v \in Workers, pc'[v] \in InRun
                 PROVE  /\ node'[v] \notin Completed' /\ Children(node'[v]) \subseteq Completed'
                        /\ pending'[node'[v]] = 0
                        /\ \A u \in Workers : u # v /\ pc'[u] \in InRun => node'[u] # node'[v]
      OBVIOUS
    <3>1. CASE v = w
      <4>1. node'[v] = p /\ p \in Nodes /\ pending[p] = 1
        BY <1>5, <3>1 DEF InRun
      <4>2. pending'[p] = 0
        BY <2>0, <4>1
      <4>3. QED
        BY <1>1, <1>5, <1>10, <1>12, <1>13, <3>1, <4>1, <4>2
    <3>2. CASE v # w
      <4>1. node'[v] = node[v] /\ pc[v] \in InRun /\ node[v] \in Nodes
        BY <1>5, <3>2 DEF IInv, ShareInv
      <4>2. /\ node[v] \notin Completed /\ Children(node[v]) \subseteq Completed /\ pending[node[v]] = 0
            /\ \A u \in Workers : u # v /\ pc[u] \in InRun => node[u] # node[v]
        BY <4>1 DEF PlaceInv
      <4>3. node[v] # p
        BY <1>10, <1>12, <4>1
      <4>4. pending'[node[v]] = 0
        BY <2>0, <4>1, <4>2, <4>3
      <4>5. \A u \in Workers : u # v /\ pc'[u] \in InRun => node'[u] # node[v]
        BY <1>5, <4>2, <4>3 DEF InRun
      <4>6. QED
        BY <1>1, <4>1, <4>2, <4>4, <4>5
    <3>3. QED
      BY <3>1, <3>2
  <2>4. \A v \in Workers : pc'[v] = "linking" => node'[v] \in Completed'
    BY <1>5
  <2>5. /\ \A m \in Completed' : Children(m) \subseteq Completed' /\ pending'[m] = 0
        /\ \A m \in Leaves : pending'[m] = 0
    <3>1. Completed \subseteq Nodes /\ Leaves \subseteq Nodes
      BY PlaceTypes DEF Leaves
    <3>2. \A m \in Completed \cup Leaves : m # p \/ p = NoNode
      BY <1>12
    <3>3. QED
      BY <1>1, <1>10, <2>0, <3>1, <3>2 DEF PlaceInv
  <2>6. QED
    BY <2>1, <2>2, <2>3, <2>4, <2>5 DEF PlaceInv
<1>15. ListInv'
  BY <1>1 DEF ListInv
<1>16. QED
  BY <1>11, <1>14, <1>15

LEMMA PlaceNext ==
  ASSUME IInv, IInv', PlaceInv, CountInv, ListInv, [Next]_vars
  PROVE  PlaceInv' /\ CountInv' /\ ListInv'
<1>1. CASE UNCHANGED vars
  BY <1>1, PlaceQuiet DEF vars, sched, front
<1>2. ASSUME NEW w \in Workers, SpuriousWake(w) PROVE PlaceInv' /\ CountInv' /\ ListInv'
  BY <1>2, PlaceQuiet DEF SpuriousWake, sched, front
<1>3. ASSUME NEW w \in Workers, Step(w) PROVE PlaceInv' /\ CountInv' /\ ListInv'
  <2> USE PlaceTypes DEF sched, cvars, front, help, Goto, Idle, InRun
  <2>1. CASE Lock(w) \/ Sleep(w) \/ Return(w) \/ Checked(w)
    BY <2>1, PlaceQuiet DEF Lock, Sleep, Return, Checked
  <2>2. CASE TakeOffer(w) \/ Offer(w) \/ Withdraw(w)
    BY <2>2, PlaceQuiet DEF TakeOffer, Offer, Withdraw
  <2>3. CASE TilesDone(w) \/ Join(w) \/ HelpEnd(w)
    BY <2>3, PlaceQuiet DEF TilesDone, Join, HelpEnd
  <2>4. CASE RunEnd(w) \/ StopStore(w) \/ FinishFailed(w)
    BY <2>4, PlaceQuiet DEF RunEnd, StopStore, FinishFailed
  <2>5. QED
    BY <1>3, <2>1, <2>2, <2>3, <2>4, PlaceTakeNode, PlaceFinishRecord, PlaceFinishLink DEF Step
<1>4. QED
  BY <1>1, <1>2, <1>3 DEF Next, Finished

-----------------------------------------------------------------------------
(* The announcement of work                                                *)

LEMMA WakeInit == Init => WakeInv
BY DEF Init, WakeInv, Linking

\* What wake_one_if_runnable() leaves: no sleeper, nothing to take, or one
\* that was woken.
LEMMA Announced ==
  ASSUME IInv, WakeInv, UNCHANGED stopped,
         \A v \in waiting : pc'[v] = "asleep",
         NEW r, NEW f, NEW o, WakeOne(r, f, o), ready' = r, free' = f, offers' = o
  PROVE  /\ waiting' \subseteq waiting
         /\ Takeable(ready', free', offers') /\ waiting' # {} => \E w \in Workers : Looking(w)'
<1>1. waiting' \subseteq waiting /\ waiting \subseteq Workers
  BY DEF WakeOne, IInv, TypeOK
<1>2. CASE Takeable(r, f, o) /\ waiting # {}
  <2>1. PICK v \in waiting : waiting' = waiting \ {v}
    BY <1>2 DEF WakeOne
  <2>2. Looking(v)'
    BY <2>1 DEF Looking
  <2>3. QED
    BY <1>1, <2>2
<1>3. CASE ~(Takeable(r, f, o) /\ waiting # {})
  BY <1>1, <1>3
<1>4. QED
  BY <1>2, <1>3

\* Steps that wake nobody and leave no more to take, by a worker that stays
\* on its way to work or never was.
LEMMA WakeQuiet ==
  ASSUME IInv, WakeInv, NEW w \in Workers, UNCHANGED <<stopped, remaining>>,
         UNCHANGED <<ready, free, waiting>>,
         \/ offers' = offers /\ mirror' = mirror
         \/ mirror' = Published(ready', free', offers', remaining'),
         Len(offers') > 0 => Len(offers) > 0,
         w \notin waiting,
         \A v \in Workers \ {w} : pc'[v] = pc[v],
         pc'[w] # "linking" /\ pc[w] # "linking" /\ pc'[w] # "stopping",
         Looking(w) => Looking(w)'
  PROVE  WakeInv'
<1>1. \A v \in Workers : Looking(v) => Looking(v)'
  BY DEF Looking
<1>2. Linking' <=> Linking
  BY DEF Linking
<1>3. Takeable(ready', free', offers') => Takeable(ready, free, offers)
  BY DEF Takeable
<1>4. waiting \subseteq Workers
  BY DEF IInv, TypeOK
<1>5. QED
  BY <1>1, <1>2, <1>3, <1>4 DEF WakeInv

LEMMA WakeStep == ASSUME IInv, IInv', WakeInv, NEW w \in Workers, Step(w) PROVE WakeInv'
<1> USE PlaceTypes
<1>1. waiting \subseteq Workers /\ \A v \in waiting : pc[v] = "asleep"
  BY DEF IInv, TypeOK, WakeInv
<1>2. CASE Lock(w)
  BY <1>1, <1>2, WakeQuiet DEF Lock, Goto, sched, Looking
<1>3. CASE Sleep(w)
  <2>1. ~Takeable(ready, free, offers) /\ remaining # 0 /\ UNCHANGED sched
    BY <1>3 DEF Sleep, Runnable
  <2>2. waiting' = waiting \cup {w} /\ pc[w] = "checking" /\ pc' = [pc EXCEPT ![w] = "asleep"]
    BY <1>3 DEF Sleep, Goto
  <2>3. Linking' <=> Linking
    BY <2>2 DEF Linking
  <2>4. QED
    BY <1>1, <2>1, <2>2, <2>3 DEF WakeInv, sched
<1>4. CASE Return(w)
  <2>1. /\ stopped \/ waiting = {}
        /\ pc[w] = "checking" /\ pc' = [pc EXCEPT ![w] = "returned"] /\ UNCHANGED <<sched, waiting>>
    BY <1>4 DEF Return, Goto, WakeInv
  <2>2. Linking' <=> Linking
    BY <2>1 DEF Linking
  <2>3. QED
    BY <1>1, <2>1, <2>2 DEF WakeInv, sched
<1>5. CASE Checked(w)
  BY <1>1, <1>5, WakeQuiet DEF Checked, Goto, sched, Looking
<1>6. CASE TakeNode(w) \/ TakeOffer(w) \/ Offer(w) \/ FinishLink(w)
  <2>1. /\ pc[w] # "asleep" /\ pc'[w] \notin {"linking", "stopping"}
        /\ \A v \in Workers \ {w} : pc'[v] = pc[v]
        /\ UNCHANGED <<stopped, remaining>>
        /\ mirror' = Published(ready', free', offers', remaining')
        /\ WakeOne(ready', free', offers')
    <3>1. CASE TakeNode(w)
      BY <3>1 DEF TakeNode, Goto
    <3>2. CASE TakeOffer(w)
      BY <3>2 DEF TakeOffer, Goto
    <3>3. CASE Offer(w)
      BY <3>3 DEF Offer, Goto
    <3>4. CASE FinishLink(w)
      BY <3>4 DEF FinishLink, Goto, Idle
    <3>5. QED
      BY <1>6, <3>1, <3>2, <3>3, <3>4
  <2>2. /\ waiting' \subseteq waiting
        /\ Takeable(ready', free', offers') /\ waiting' # {} => \E v \in Workers : Looking(v)'
    BY <1>1, <2>1, Announced
  <2>3. QED
    BY <1>1, <2>1, <2>2 DEF WakeInv
<1>7. CASE Withdraw(w)
  <2>1. /\ pc[w] = "tiles" /\ pc' = [pc EXCEPT ![w] = "joining"]
        /\ UNCHANGED <<stopped, remaining, ready, free, waiting>>
        /\ mirror' = Published(ready', free', offers', remaining')
    BY <1>7 DEF Withdraw, Goto, cvars
  <2>2. Len(offers') > 0 => Len(offers) > 0
    <3>1. CASE UNCHANGED offers
      BY <3>1
    <3>2. ASSUME NEW i \in DOMAIN offers PROVE Len(offers) > 0
      BY <3>2, HelpTypes, Elements
    <3>3. QED
      BY <1>7, <3>1, <3>2 DEF Withdraw
  <2>3. QED
    BY <1>1, <2>1, <2>2, WakeQuiet DEF Looking
<1>8. CASE TilesDone(w)
  <2>1. UNCHANGED <<sched, waiting, pc>>
    BY <1>8 DEF TilesDone, cvars
  <2>2. QED
    BY <2>1 DEF WakeInv, sched, Linking, Looking
<1>9. CASE Join(w) \/ HelpEnd(w)
  BY <1>1, <1>9, WakeQuiet DEF Join, HelpEnd, Goto, sched, cvars, Looking
<1>10. CASE RunEnd(w)
  BY <1>1, <1>10, WakeQuiet DEF RunEnd, sched, cvars, Looking
<1>11. CASE StopStore(w)
  BY <1>1, <1>11 DEF StopStore, WakeInv, Goto, cvars
<1>12. CASE FinishFailed(w)
  <2>1. waiting' = {} /\ stopped' /\ pc' = [pc EXCEPT ![w] = "spin"]
    BY <1>12 DEF FinishFailed, NotifyAll, Idle, Goto, WakeInv
  <2>2. QED
    BY <2>1 DEF WakeInv
<1>13. CASE FinishRecord(w)
  <2>1. /\ pc[w] = "ended" /\ UNCHANGED <<stopped, ready, offers>>
        /\ \A v \in Workers \ {w} : pc'[v] = pc[v]
        /\ pc'[w] \in {"spin", "linking"}
    BY <1>13 DEF FinishRecord, Idle, Goto
  <2>2. \/ /\ waiting' = {} /\ mirror' = Published(ready', free', offers', remaining')
        \/ remaining' # 0 /\ stopped /\ waiting' = waiting
        \/ remaining' # 0 /\ pc'[w] = "linking" /\ waiting' = waiting
    BY <1>13 DEF FinishRecord, NotifyAll, Goto
  <2>3. pc'[w] = "linking" => Linking'
    BY DEF Linking
  <2>4. QED
    BY <1>1, <2>1, <2>2, <2>3 DEF WakeInv
<1>14. QED
  BY <1>2, <1>3, <1>4, <1>5, <1>6, <1>7, <1>8, <1>9, <1>10, <1>11, <1>12, <1>13 DEF Step

LEMMA WakeNext == ASSUME IInv, IInv', WakeInv, [Next]_vars PROVE WakeInv'
<1>1. CASE UNCHANGED vars
  BY <1>1 DEF vars, sched, cvars, WakeInv, Linking, Looking
<1>2. ASSUME NEW w \in Workers, SpuriousWake(w) PROVE WakeInv'
  <2>1. UNCHANGED <<sched, pc>> /\ waiting' = waiting \ {w} /\ w \in waiting
    BY <1>2 DEF SpuriousWake
  <2>2. Looking(w)'
    BY <2>1 DEF Looking, WakeInv
  <2>3. QED
    BY <2>1, <2>2 DEF WakeInv, sched, Linking
<1>3. QED
  BY <1>1, <1>2, WakeStep DEF Next, Finished

-----------------------------------------------------------------------------

LEMMA DispatchInit == Init => DInv
BY HelpInit, PlaceInit, WakeInit DEF DInv

LEMMA DispatchNext == IInv /\ IInv' /\ DInv /\ [Next]_vars => DInv'
BY HelpNext, PlaceNext, WakeNext DEF DInv

LEMMA DispatchFollows == IInv /\ DInv => DispatchSound
<1> SUFFICES ASSUME IInv, DInv PROVE DispatchSound
  OBVIOUS
<1>1. HelpersWithinShare
  BY DEF DInv, HelpInv, HelpersWithinShare, HelpersOf
<1>2. \A w \in Running : w \in Workers /\ pc[w] \in InRun
  BY DEF Running, IInv, ShareInv
<1>3. Topological
  <2>1. \A p \in Nodes : pending[p] >= 0
    BY UncountedFinite, PlaceTypes DEF DInv, CountInv
  <2>2. \A w \in Running :
          /\ Children(node[w]) \subseteq Completed /\ node[w] \notin Completed
          /\ \A v \in Running \ {w} : node[v] # node[w]
    BY <1>2 DEF DInv, PlaceInv
  <2>3. QED
    BY <2>1, <2>2 DEF DInv, ListInv, Topological
<1>4. NoLostWork
  <2>1. Unlocked => ~Linking
    BY WorkersAssumption DEF Unlocked, Linking, IInv, LockInv
  <2>2. QED
    BY <2>1 DEF NoLostWork, DInv, WakeInv
<1>5. QED
  BY <1>1, <1>3, <1>4 DEF DispatchSound

\* What the scheduler hands out is sound (top_scheduler.cpp): helpers within
\* the share of the node they help, and none in a job whose owner left it;
\* each node once and after its children, in a topological order of
\* completion; no work published while every worker sleeps.
THEOREM DispatchTheorem == Spec => []DispatchSound
<1>1. Spec => []DInv
  BY Inductive, DispatchInit, DispatchNext, PTL DEF Spec
<1>2. IInv /\ DInv => DispatchSound
  BY DispatchFollows
<1>3. QED
  BY <1>1, <1>2, Inductive, PTL

=============================================================================
