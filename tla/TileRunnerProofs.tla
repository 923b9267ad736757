-------------------------- MODULE TileRunnerProofs --------------------------
(***************************************************************************)
(* Proofs about TileRunner: for every grid of a front and any helpers, a   *)
(* schedule of its tasks is equivalent to the serial sweep, nobody sleeps  *)
(* over a ready task, and no helper outlives the job.                      *)
(*                                                                         *)
(* The runner is generic over the graph it is given (TileDag), so the      *)
(* proof is too: the first part proves its invariant from what the graph   *)
(* promises (GraphSound, OrderSound, RoomSound); the others prove that the *)
(* two graphs of AptpTiles keep these promises.                            *)
(***************************************************************************)
EXTENDS TileRunner, FiniteSetTheorems, SequenceTheorems, TLAPS

-----------------------------------------------------------------------------
(* What a graph promises the runner                                        *)

Preds(g, t) == {s \in Tasks(g) : t \in ToSet(SuccessorsOf[g][s])}

\* A set of tasks with all that must end before them.
Closed(g, D) == \A t \in D : Preds(g, t) \subseteq D

\* s ends before t begins, by the counts.
Before(g, s, t) ==
  \A D \in SUBSET Tasks(g) : Closed(g, D) /\ Preds(g, t) \subseteq D => s \in D

\* The counts are those of the predecessors, each released once, and the
\* tasks given to run() as ready have none.
GraphSound(g) ==
  /\ Tasks(g) \subseteq Nat /\ IsFiniteSet(Tasks(g))
  /\ \A t \in Tasks(g) : /\ SuccessorsOf[g][t] \in Seq(Tasks(g))
                         /\ IsInjective(SuccessorsOf[g][t])
  /\ \A t \in Tasks(g) : Pending(g)[t] = Cardinality(Preds(g, t))
  /\ Roots(g) \in Seq(Tasks(g)) /\ IsInjective(Roots(g))
  /\ \A r \in ToSet(Roots(g)) : Preds(g, r) = {}
  /\ UrgentTasks[g] \subseteq Tasks(g) /\ OtherTasks[g] = Tasks(g) \ UrgentTasks[g]

\* Of two conflicting tasks one comes first in the serial sweep, and ends
\* before the other begins.
OrderSound(g) ==
  \A t \in Tasks(g) : \A s \in Conflicts[g][t] :
    /\ PlaceOf[g][s] \in Int /\ PlaceOf[g][t] \in Int
    /\ \/ PlaceOf[g][s] < PlaceOf[g][t] /\ Before(g, s, t)
       \/ PlaceOf[g][t] < PlaceOf[g][s] /\ Before(g, t, s)

GraphsSound == \A g \in Graphs : GraphSound(g)

\* The ready queues have room for all tasks.
RoomSound(g) == Cardinality(Tasks(g)) = IF g = 1 THEN MainRoom ELSE TrailRoom

-----------------------------------------------------------------------------
(* The invariant of the runner                                             *)

Ready   == ToSet(hi) \cup ToSet(lo)
Inside  == {h \in Helpers : pc[h] # "idle"}
Working == {"enter", "choosing", "asleep", "executing"}

\* What each variable may be.
ShapeInv ==
  /\ graph \in 0..2 /\ own \in BOOLEAN
  /\ helpers \in Nat /\ slots \in Nat
  /\ mtx \in Threads \cup {NoThread} /\ waiting \subseteq Threads
  /\ DOMAIN pc = Threads /\ DOMAIN task = Threads
  /\ pc[Caller] \in Working \cup {"between", "withdrawing", "joining", "joinwait", "ended"}
  /\ \A h \in Helpers : pc[h] \in Working \cup {"idle", "leaving"}

\* Who chooses has the lock, and only who waits is in the condition variable.
LockInv ==
  /\ \A t \in Threads : pc[t] = "choosing" <=> mtx = t
  /\ \A t \in waiting : pc[t] \in {"asleep", "joinwait"}

\* The helpers counted are those inside, and a place left can be taken only
\* while the caller is in the job.
JobInv ==
  /\ pc[Caller] \in {"between", "ended"} => Inside = {}
  /\ pc[Caller] \in {"between", "ended", "joining", "joinwait"} => slots = 0
  /\ helpers = Cardinality(Inside)
  /\ helpers + slots <= Cardinality(Helpers)
  /\ graph = 0 => pc[Caller] = "between" /\ hi = <<>> /\ lo = <<>>

\* A task is in one place: not released yet, ready, at one thread, or finished;
\* what was released has all its predecessors finished.
QueueInv ==
  graph > 0 =>
    /\ DOMAIN pending = Tasks(graph)
    /\ \A s \in Tasks(graph) : pending[s] = Cardinality(Preds(graph, s) \ finished)
    /\ hi \in Seq(Tasks(graph)) /\ lo \in Seq(Tasks(graph))
    /\ IsInjective(hi) /\ IsInjective(lo) /\ ToSet(hi) \cap ToSet(lo) = {}
    /\ finished \subseteq Tasks(graph) /\ done = Cardinality(finished)
    /\ Ready \cap finished = {}
    /\ \A s \in finished \cup Ready : Preds(graph, s) \subseteq finished

ExecInv ==
  graph > 0 =>
    /\ \A t \in Executing : task[t] \in Tasks(graph) \ (finished \cup Ready)
    /\ \A t, u \in Executing : task[t] = task[u] => t = u
    /\ \A t \in Executing : Preds(graph, task[t]) \subseteq finished

\* The caller leaves work() when all tasks have finished.
EndInv == graph > 0 /\ pc[Caller] \notin Working => finished = Tasks(graph)

\* While someone waits, the only task ready is the one that the holder of the
\* lock is about to take.
WakeInv == waiting # {} => Len(hi) + Len(lo) <= IF Unlocked THEN 0 ELSE 1

RunnerInv == ShapeInv /\ LockInv /\ JobInv /\ QueueInv /\ ExecInv /\ EndInv /\ WakeInv

-----------------------------------------------------------------------------
(* Sequences                                                               *)

\* Induction over Nat, for a set of numbers.
LEMMA Upwards ==
  ASSUME NEW P \in SUBSET Nat, 0 \in P, \A n \in P : n + 1 \in P
  PROVE  \A n \in Nat : n \in P
<1> DEFINE Bad == Nat \ P
<1>1. ASSUME Bad # {} PROVE FALSE
  <2>1. PICK n \in Bad : \A m \in Bad : ~(<<m, n>> \in OpToRel(<, Nat))
    BY <1>1, NatLessThanWellFounded, WFMin
  <2>2. n \in Nat /\ n \notin P
    OBVIOUS
  <2>6. n # 0
    BY <2>2
  <2>7. n - 1 \in Nat /\ n - 1 < n
    BY <2>2, <2>6
  <2>3. n - 1 \notin Bad
    BY <2>1, <2>2, <2>7 DEF OpToRel
  <2>4. (n - 1) + 1 \in P
    BY <2>3, <2>7
  <2>8. (n - 1) + 1 = n
    BY <2>2
  <2>5. QED
    BY <2>2, <2>4, <2>8
<1>2. QED
  BY <1>1

\* Chosen's prefixes exist, and what they are.
LEMMA ChosenProperties ==
  ASSUME NEW T, NEW s \in Seq(T), NEW S
  PROVE  /\ Chosen(s, S) \in Seq(T)
         /\ ToSet(Chosen(s, S)) = ToSet(s) \cap S
         /\ IsInjective(s) => IsInjective(Chosen(s, S))
         /\ Len(Chosen(s, S)) <= Len(s)
<1> DEFINE L == Len(s)
           Step(f, n) == IF n = 0 THEN <<>> ELSE IF s[n] \in S THEN Append(f[n - 1], s[n])
                         ELSE f[n - 1]
           pick == CHOOSE f : f = [n \in 0..L |-> Step(f, n)]
<1>1. L \in Nat /\ DOMAIN s = 1..L /\ \A n \in 1..L : s[n] \in T
  BY LenProperties, ElementOfSeq
<1>2. Chosen(s, S) = pick[L]
  BY DEF Chosen
<1> HIDE DEF L
<1> DEFINE Has(m) == \E f : f = [n \in 0..m |-> Step(f, n)]
<1>3. Has(0)
  <2>1. [n \in 0..0 |-> <<>>] = [n \in 0..0 |-> Step([k \in 0..0 |-> <<>>], n)]
    OBVIOUS
  <2>2. QED
    BY <2>1
<1>4. ASSUME NEW m \in Nat, Has(m) PROVE Has(m + 1)
  <2>1. PICK f : f = [n \in 0..m |-> Step(f, n)]
    BY <1>4
  <2> DEFINE h == [n \in 0..(m + 1) |-> IF n <= m THEN f[n] ELSE Step(f, n)]
  <2>2. \A n \in 0..m : h[n] = f[n]
    OBVIOUS
  <2>3. \A n \in 0..(m + 1) : h[n] = Step(h, n)
    <3>1. TAKE n \in 0..(m + 1)
    <3>2. CASE n = 0
      BY <2>1, <3>2
    <3>3. CASE n # 0
      <4>1. n - 1 \in 0..m /\ h[n - 1] = f[n - 1]
        BY <2>2, <3>3
      <4>2. Step(h, n) = Step(f, n)
        BY <4>1
      <4>3. h[n] = Step(f, n)
        <5>1. CASE n <= m
          <6>1. n \in 0..m /\ h[n] = f[n]
            BY <5>1
          <6>2. f[n] = Step(f, n)
            BY <2>1, <6>1
          <6>3. QED
            BY <6>1, <6>2
        <5>2. CASE ~(n <= m)
          BY <5>2
        <5>3. QED
          BY <5>1, <5>2
      <4>4. QED
        BY <4>2, <4>3
    <3>4. QED
      BY <3>2, <3>3
  <2>4. h = [n \in 0..(m + 1) |-> Step(h, n)]
    <3> DEFINE k == [n \in 0..(m + 1) |-> Step(h, n)]
    <3>1. DOMAIN h = 0..(m + 1) /\ DOMAIN k = 0..(m + 1)
      OBVIOUS
    <3>2. \A n \in 0..(m + 1) : k[n] = Step(h, n)
      OBVIOUS
    <3>3. h = [n \in 0..(m + 1) |-> h[n]] /\ k = [n \in 0..(m + 1) |-> k[n]]
      OBVIOUS
    <3>4. \A n \in 0..(m + 1) : h[n] = k[n]
      BY <2>3, <3>2
    <3> HIDE DEF h, k
    <3>5. h = k
      BY <3>3, <3>4
    <3>6. QED
      BY <3>5 DEF k
  <2>5. QED
    BY <2>4
<1>5. Has(L)
  <2> DEFINE P == {m \in Nat : Has(m)}
  <2>1. \A m \in Nat : m \in P
    <3> HIDE DEF Has
    <3>1. 0 \in P /\ \A m \in P : m + 1 \in P
      BY <1>3, <1>4
    <3> HIDE DEF P
    <3>2. P \in SUBSET Nat
      BY DEF P
    <3>3. QED
      BY <3>1, <3>2, Upwards
  <2>2. QED
    BY <1>1, <2>1
<1>6. pick = [n \in 0..L |-> Step(pick, n)]
  BY <1>5
<1> HIDE DEF pick
<1>7. \A n \in 0..L : pick[n] = Step(pick, n)
  BY <1>6
<1> DEFINE Good(n) == /\ pick[n] \in Seq(T) /\ Len(pick[n]) <= n
                      /\ ToSet(pick[n]) = {s[k] : k \in 1..n} \cap S
                      /\ IsInjective(s) => IsInjective(pick[n])
<1>8. Good(0)
  <2>1. pick[0] = <<>>
    BY <1>1, <1>7
  <2>2. QED
    BY <2>1 DEF ToSet, IsInjective
<1>9. ASSUME NEW n \in Nat, n + 1 <= L, Good(n) PROVE Good(n + 1)
  <2>1. n \in 0..L /\ n + 1 \in 0..L /\ n + 1 \in 1..L
    BY <1>1, <1>9
  <2>2. pick[n + 1] = IF s[n + 1] \in S THEN Append(pick[n], s[n + 1]) ELSE pick[n]
    BY <1>7, <2>1
  <2>3. {s[k] : k \in 1..(n + 1)} = {s[k] : k \in 1..n} \cup {s[n + 1]}
    BY <2>1
  <2>4. CASE s[n + 1] \notin S
    BY <1>9, <2>2, <2>3, <2>4
  <2>5. CASE s[n + 1] \in S
    <3> DEFINE p == pick[n]
               q == Append(p, s[n + 1])
    <3>1. p \in Seq(T) /\ s[n + 1] \in T /\ Len(p) \in Nat /\ Len(p) <= n
      BY <1>1, <1>9, <2>1, LenProperties
    <3>2. pick[n + 1] = q
      BY <2>2, <2>5
    <3> HIDE DEF p, q
    <3>3. /\ q \in Seq(T) /\ Len(q) = Len(p) + 1
          /\ \A k \in 1..Len(p) : q[k] = p[k]
          /\ q[Len(p) + 1] = s[n + 1]
      BY <3>1, AppendProperties DEF q
    <3>4. DOMAIN q = 1..(Len(p) + 1) /\ DOMAIN p = 1..Len(p)
      BY <3>1, <3>3, LenProperties
    <3>5. ToSet(q) = ToSet(p) \cup {s[n + 1]}
      BY <3>1, <3>3, <3>4, SMTT(30) DEF ToSet
    <3>6. ToSet(p) = {s[k] : k \in 1..n} \cap S
      BY <1>9 DEF p
    <3>7. ASSUME IsInjective(s) PROVE IsInjective(q)
      <4>1. s[n + 1] \notin {s[k] : k \in 1..n}
        BY <1>1, <2>1, <3>7 DEF IsInjective
      <4>2. \A k \in 1..Len(p) : p[k] # s[n + 1]
        BY <3>4, <3>6, <4>1 DEF ToSet
      <4>3. IsInjective(p)
        BY <1>9, <3>7 DEF p
      <4>4. QED
        BY <3>1, <3>3, <3>4, <4>2, <4>3 DEF IsInjective
    <3>8. QED
      BY <2>3, <2>5, <3>1, <3>2, <3>3, <3>5, <3>6, <3>7
  <2>6. QED
    BY <2>4, <2>5
<1>10. Good(L)
  <2> DEFINE P == {n \in Nat : n <= L => Good(n)}
  <2>1. \A n \in Nat : n \in P
    <3> HIDE DEF Good
    <3>1. 0 \in P
      BY <1>8
    <3>2. \A n \in P : n + 1 \in P
      BY <1>1, <1>9
    <3> HIDE DEF P
    <3>3. P \in SUBSET Nat
      BY DEF P
    <3>4. QED
      BY <3>1, <3>2, <3>3, Upwards
  <2>2. L \in P
    BY <1>1, <2>1
  <2> HIDE DEF Good
  <2>3. QED
    BY <2>2
<1>11. ToSet(s) = {s[k] : k \in 1..L}
  BY <1>1 DEF ToSet
<1>12. QED
  BY <1>1, <1>2, <1>10, <1>11 DEF L

LEMMA ConcatMembers ==
  ASSUME NEW T, NEW a \in Seq(T), NEW b \in Seq(T)
  PROVE  /\ a \o b \in Seq(T) /\ ToSet(a \o b) = ToSet(a) \cup ToSet(b)
         /\ Len(a \o b) = Len(a) + Len(b)
         /\ IsInjective(a) /\ IsInjective(b) /\ ToSet(a) \cap ToSet(b) = {} => IsInjective(a \o b)
<1> DEFINE c == a \o b
<1>1. /\ c \in Seq(T) /\ Len(c) = Len(a) + Len(b) /\ Len(a) \in Nat /\ Len(b) \in Nat
      /\ \A k \in 1..Len(c) : c[k] = IF k <= Len(a) THEN a[k] ELSE b[k - Len(a)]
  BY ConcatProperties, LenProperties
<1>2. DOMAIN a = 1..Len(a) /\ DOMAIN b = 1..Len(b) /\ DOMAIN c = 1..(Len(a) + Len(b))
  BY <1>1, LenProperties
<1> HIDE DEF c
<1>3. ToSet(c) \subseteq ToSet(a) \cup ToSet(b)
  <2>1. SUFFICES ASSUME NEW k \in 1..(Len(a) + Len(b)) PROVE c[k] \in ToSet(a) \cup ToSet(b)
    BY <1>2 DEF ToSet
  <2>2. CASE k <= Len(a)
    BY <1>1, <1>2, <2>2 DEF ToSet
  <2>3. CASE ~(k <= Len(a))
    <3>1. k - Len(a) \in 1..Len(b) /\ c[k] = b[k - Len(a)]
      BY <1>1, <1>2, <2>3
    <3>2. QED
      BY <1>2, <3>1 DEF ToSet
  <2>4. QED
    BY <2>2, <2>3
<1>4. ToSet(a) \subseteq ToSet(c)
  BY <1>1, <1>2 DEF ToSet
<1>5. ToSet(b) \subseteq ToSet(c)
  <2>1. SUFFICES ASSUME NEW k \in 1..Len(b) PROVE b[k] \in ToSet(c)
    BY <1>2 DEF ToSet
  <2> DEFINE j == Len(a) + k
  <2>2. j \in 1..(Len(a) + Len(b)) /\ ~(j <= Len(a)) /\ j - Len(a) = k
    BY <1>1
  <2> HIDE DEF j
  <2>3. c[j] = b[j - Len(a)]
    BY <1>1, <2>2
  <2>4. QED
    BY <1>2, <2>2, <2>3 DEF ToSet
<1>6. ASSUME IsInjective(a), IsInjective(b), ToSet(a) \cap ToSet(b) = {} PROVE IsInjective(c)
  <2>1. SUFFICES ASSUME NEW j \in 1..(Len(a) + Len(b)), NEW k \in 1..(Len(a) + Len(b)),
                        c[j] = c[k]
                 PROVE  j = k
    BY <1>2 DEF IsInjective
  <2>2. CASE j <= Len(a) /\ k <= Len(a)
    BY <1>1, <1>2, <1>6, <2>1, <2>2 DEF IsInjective
  <2>3. CASE j <= Len(a) /\ ~(k <= Len(a))
    <3>1. a[j] = b[k - Len(a)] /\ j \in DOMAIN a /\ k - Len(a) \in DOMAIN b
      BY <1>1, <1>2, <2>1, <2>3
    <3>2. QED
      BY <1>6, <3>1 DEF ToSet
  <2>4. CASE ~(j <= Len(a)) /\ k <= Len(a)
    <3>1. a[k] = b[j - Len(a)] /\ k \in DOMAIN a /\ j - Len(a) \in DOMAIN b
      BY <1>1, <1>2, <2>1, <2>4
    <3>2. QED
      BY <1>6, <3>1 DEF ToSet
  <2>5. CASE ~(j <= Len(a)) /\ ~(k <= Len(a))
    <3>1. /\ b[j - Len(a)] = b[k - Len(a)] /\ k - Len(a) \in DOMAIN b
          /\ j - Len(a) \in DOMAIN b
      BY <1>1, <1>2, <2>1, <2>5
    <3>2. j - Len(a) = k - Len(a)
      BY <1>6, <3>1 DEF IsInjective
    <3>3. QED
      BY <1>1, <3>2
  <2>6. QED
    BY <2>2, <2>3, <2>4, <2>5
<1>7. QED
  BY <1>1, <1>3, <1>4, <1>5, <1>6 DEF c

LEMMA DistinctLength ==
  ASSUME NEW T, NEW s \in Seq(T), IsInjective(s)
  PROVE  IsFiniteSet(ToSet(s)) /\ Cardinality(ToSet(s)) = Len(s)
<1>1. Len(s) \in Nat /\ DOMAIN s = 1..Len(s) /\ s = [k \in 1..Len(s) |-> s[k]]
  BY LenProperties
<1>2. s \in [1..Len(s) -> ToSet(s)]
  BY <1>1 DEF ToSet
<1>3. s \in Bijection(1..Len(s), ToSet(s))
  BY <1>1, <1>2 DEF ToSet, IsInjective, Bijection, Injection, Surjection
<1>4. ExistsBijection(1..Len(s), ToSet(s))
  BY <1>3 DEF ExistsBijection
<1> DEFINE n == Len(s)
<1>7. n \in Nat
  BY <1>1
<1> HIDE DEF n
<1>8. IsFiniteSet(1..n) /\ Cardinality(1..n) = IF 1 > n THEN 0 ELSE n - 1 + 1
  BY <1>7, FS_Interval
<1>9. Cardinality(1..n) = n
  BY <1>7, <1>8
<1>5. IsFiniteSet(1..Len(s)) /\ Cardinality(1..Len(s)) = Len(s)
  BY <1>8, <1>9 DEF n
<1>6. QED
  BY <1>4, <1>5, FS_Bijection

-----------------------------------------------------------------------------
(* Every step keeps the invariant                                          *)

LEMMA ThreadFacts ==
  /\ Caller \in Threads /\ Helpers \subseteq Threads /\ IsFiniteSet(Helpers)
  /\ Cardinality(Helpers) \in Nat /\ nthreads = Cardinality(Helpers) + 1
  /\ \A t \in Threads : t # NoThread /\ (t = Caller \/ t \in Helpers)
  /\ Caller \notin Helpers
<1>1. IsFiniteSet(Helpers) /\ Caller \notin Helpers /\ NoThread \notin Threads
  BY ThreadsAssumption
<1>2. Cardinality(Helpers) \in Nat
  BY <1>1, FS_CardinalityType
<1>3. Cardinality(Helpers \cup {Caller}) = Cardinality(Helpers) + 1
  BY <1>1, FS_AddElement
<1>4. Threads = Helpers \cup {Caller}
  BY DEF Threads
<1>5. QED
  BY <1>1, <1>2, <1>3, <1>4 DEF nthreads

LEMMA InitRunner ==
  ASSUME Init PROVE RunnerInv
<1>1. Inside = {}
  BY ThreadFacts DEF Init, Inside
<1>2. Cardinality(Inside) = 0
  BY <1>1, FS_EmptySet
<1>3. ShapeInv
  BY ThreadFacts DEF Init, ShapeInv, Working
<1>4. LockInv
  BY ThreadFacts DEF Init, LockInv
<1>5. JobInv
  BY <1>1, <1>2, ThreadFacts DEF Init, JobInv
<1>6. QueueInv /\ ExecInv /\ EndInv
  BY DEF Init, QueueInv, ExecInv, EndInv
<1>7. WakeInv
  BY DEF Init, WakeInv
<1>8. QED
  BY <1>3, <1>4, <1>5, <1>6, <1>7 DEF RunnerInv

\* A step that runs no task leaves what is said of the tasks as it was.
LEMMA TasksStill ==
  ASSUME RunnerInv, UNCHANGED <<queue, graph, task>>,
         Executing' = Executing,
         pc[Caller] \in Working /\ pc'[Caller] \notin Working => graph > 0 /\ finished = Tasks(graph)
  PROVE  QueueInv' /\ ExecInv' /\ EndInv'
<1>1. /\ pending' = pending /\ hi' = hi /\ lo' = lo /\ done' = done /\ finished' = finished
      /\ graph' = graph /\ task' = task
  BY DEF queue
<1>2. QueueInv'
  BY <1>1 DEF RunnerInv, QueueInv, Ready
<1>3. ExecInv'
  <2> DEFINE E == Executing
             F == Executing'
  <2>1. E = F
    OBVIOUS
  <2>2. graph > 0 => /\ \A t \in E : task[t] \in Tasks(graph) \ (finished \cup Ready)
                     /\ \A t, u \in E : task[t] = task[u] => t = u
                     /\ \A t \in E : Preds(graph, task[t]) \subseteq finished
    BY DEF RunnerInv, ExecInv
  <2>3. Ready' = Ready
    BY <1>1 DEF Ready
  <2> HIDE DEF E, F
  <2>4. graph' > 0 => /\ \A t \in F : task'[t] \in Tasks(graph') \ (finished' \cup Ready')
                      /\ \A t, u \in F : task'[t] = task'[u] => t = u
                      /\ \A t \in F : Preds(graph', task'[t]) \subseteq finished'
    BY <1>1, <2>1, <2>2, <2>3
  <2>5. QED
    BY <2>4 DEF ExecInv, F
<1>4. EndInv'
  BY <1>1 DEF RunnerInv, EndInv
<1>5. QED
  BY <1>2, <1>3, <1>4

\* The helpers inside after a step of one thread that neither joins nor ends.
LEMMA SameInside ==
  ASSUME NEW t \in Threads, NEW l, RunnerInv, Goto(t, l), l # "idle", t \in Helpers => pc[t] # "idle"
  PROVE  Inside' = Inside
BY ThreadFacts DEF RunnerInv, ShapeInv, Goto, Inside

LEMMA LockKeeps ==
  ASSUME NEW t \in Threads, RunnerInv, Lock(t) PROVE RunnerInv'
<1>1. /\ pc[t] \in {"enter", "asleep"} /\ (pc[t] = "asleep" => t \notin waiting)
      /\ mtx = NoThread /\ mtx' = t /\ pc' = [pc EXCEPT ![t] = "choosing"]
      /\ UNCHANGED <<queue, run, waiting, task>>
  BY DEF Lock, Goto, Unlocked
<1>2. /\ hi' = hi /\ lo' = lo /\ graph' = graph /\ own' = own /\ slots' = slots
      /\ helpers' = helpers /\ waiting' = waiting /\ task' = task
  BY <1>1 DEF queue, run
<1>3. ShapeInv'
  BY <1>1, <1>2, ThreadFacts DEF RunnerInv, ShapeInv, Working
<1>4. LockInv'
  BY <1>1, <1>2, ThreadFacts DEF RunnerInv, ShapeInv, LockInv
<1>5. JobInv'
  <2>1. Inside' = Inside
    BY <1>1, SameInside, ThreadFacts DEF Goto
  <2>2. pc'[Caller] = pc[Caller] \/ (t = Caller /\ pc'[Caller] = "choosing")
    BY <1>1, ThreadFacts DEF RunnerInv, ShapeInv
  <2>3. t = Caller => pc[Caller] \in {"enter", "asleep"}
    BY <1>1
  <2>4. QED
    BY <1>2, <2>1, <2>2, <2>3 DEF RunnerInv, JobInv
<1>6. QueueInv' /\ ExecInv' /\ EndInv'
  <2>1. Executing' = Executing
    BY <1>1, ThreadFacts DEF RunnerInv, ShapeInv, Executing
  <2>2. pc'[Caller] \notin Working => pc[Caller] \notin Working
    BY <1>1, ThreadFacts DEF RunnerInv, ShapeInv, Working
  <2>3. QED
    BY <1>1, <1>2, <2>1, <2>2, TasksStill
<1>7. WakeInv'
  BY <1>1, <1>2, ThreadFacts DEF RunnerInv, WakeInv, Unlocked
<1>8. QED
  BY <1>3, <1>4, <1>5, <1>6, <1>7 DEF RunnerInv
LEMMA WaitKeeps ==
  ASSUME NEW t \in Threads, RunnerInv, Wait(t) PROVE RunnerInv'
<1>1. /\ pc[t] = "choosing" /\ hi = <<>> /\ lo = <<>>
      /\ mtx' = NoThread /\ pc' = [pc EXCEPT ![t] = "asleep"]
      /\ waiting' = waiting \cup {t}
      /\ UNCHANGED <<queue, run, task>>
  BY DEF Wait, Goto, HasReady
<1>2. /\ hi' = hi /\ lo' = lo /\ graph' = graph /\ own' = own /\ slots' = slots
      /\ helpers' = helpers /\ task' = task
  BY <1>1 DEF queue, run
<1>3. ShapeInv'
  BY <1>1, <1>2, ThreadFacts DEF RunnerInv, ShapeInv, Working
<1>4. LockInv'
  BY <1>1, <1>2, ThreadFacts DEF RunnerInv, ShapeInv, LockInv
<1>5. JobInv'
  <2>1. Inside' = Inside
    BY <1>1, SameInside, ThreadFacts DEF Goto
  <2>2. pc'[Caller] = pc[Caller] \/ (t = Caller /\ pc'[Caller] = "asleep")
    BY <1>1, ThreadFacts DEF RunnerInv, ShapeInv
  <2>3. t = Caller => pc[Caller] = "choosing"
    BY <1>1
  <2>4. QED
    BY <1>2, <2>1, <2>2, <2>3 DEF RunnerInv, JobInv
<1>6. QueueInv' /\ ExecInv' /\ EndInv'
  <2>1. Executing' = Executing
    BY <1>1, ThreadFacts DEF RunnerInv, ShapeInv, Executing
  <2>2. pc'[Caller] \notin Working => pc[Caller] \notin Working
    BY <1>1, ThreadFacts DEF RunnerInv, ShapeInv, Working
  <2>3. QED
    BY <1>1, <1>2, <2>1, <2>2, TasksStill
<1>7. WakeInv'
  <2>1. Len(hi') = 0 /\ Len(lo') = 0
    BY <1>1, <1>2
  <2>2. QED
    BY <2>1 DEF WakeInv
<1>8. QED
  BY <1>3, <1>4, <1>5, <1>6, <1>7 DEF RunnerInv

\* Nothing is ready and all tasks are counted done: they have all finished.
LEMMA AllFinished ==
  ASSUME GraphsSound, RunnerInv, graph > 0, done = Total PROVE finished = Tasks(graph)
<1>1. graph \in Graphs
  BY DEF RunnerInv, ShapeInv, Graphs
<1>2. IsFiniteSet(Tasks(graph))
  BY <1>1 DEF GraphsSound, GraphSound
<1>3. finished \subseteq Tasks(graph) /\ Cardinality(finished) = Cardinality(Tasks(graph))
  BY DEF RunnerInv, QueueInv, Total
<1>4. QED
  BY <1>2, <1>3, FS_Subset

LEMMA LeaveKeeps ==
  ASSUME GraphsSound, NEW t \in Threads, RunnerInv, Leave(t) PROVE RunnerInv'
<1> DEFINE l == IF t = Caller THEN "withdrawing" ELSE "leaving"
<1>1. /\ pc[t] = "choosing" /\ hi = <<>> /\ lo = <<>> /\ done = Total
      /\ mtx' = NoThread /\ pc' = [pc EXCEPT ![t] = l]
      /\ UNCHANGED <<queue, run, waiting, task>>
  BY DEF Leave, Goto, HasReady
<1>2. /\ hi' = hi /\ lo' = lo /\ graph' = graph /\ own' = own /\ slots' = slots
      /\ helpers' = helpers /\ task' = task /\ waiting' = waiting
  BY <1>1 DEF queue, run
<1>3. ShapeInv'
  BY <1>1, <1>2, ThreadFacts DEF RunnerInv, ShapeInv, Working
<1>4. LockInv'
  BY <1>1, <1>2, ThreadFacts DEF RunnerInv, ShapeInv, LockInv
<1>5. JobInv'
  <2>1. Inside' = Inside
    BY <1>1, SameInside, ThreadFacts DEF Goto
  <2>2. pc'[Caller] = pc[Caller] \/ (t = Caller /\ pc'[Caller] = "withdrawing")
    BY <1>1, ThreadFacts DEF RunnerInv, ShapeInv
  <2>3. t = Caller => pc[Caller] = "choosing"
    BY <1>1
  <2>4. QED
    BY <1>2, <2>1, <2>2, <2>3 DEF RunnerInv, JobInv
<1>6. QueueInv' /\ ExecInv' /\ EndInv'
  <2>1. Executing' = Executing
    BY <1>1, ThreadFacts DEF RunnerInv, ShapeInv, Executing
  <2>2. pc'[Caller] \notin Working /\ pc[Caller] \in Working => t = Caller
    BY <1>1, ThreadFacts DEF RunnerInv, ShapeInv, Working
  <2>3. t = Caller => graph > 0
    BY <1>1 DEF RunnerInv, JobInv, ShapeInv
  <2>4. graph > 0 => finished = Tasks(graph)
    BY <1>1, AllFinished
  <2>5. QED
    BY <1>1, <1>2, <2>1, <2>2, <2>3, <2>4, TasksStill
<1>7. WakeInv'
  <2>1. Len(hi') = 0 /\ Len(lo') = 0
    BY <1>1, <1>2
  <2>2. QED
    BY <2>1 DEF WakeInv
<1>8. QED
  BY <1>3, <1>4, <1>5, <1>6, <1>7 DEF RunnerInv

LEMMA AddHelperKeeps ==
  ASSUME NEW h \in Helpers, RunnerInv, AddHelper(h) PROVE RunnerInv'
<1>1. /\ pc[h] = "idle" /\ slots > 0 /\ mtx = NoThread
      /\ slots' = slots - 1 /\ helpers' = helpers + 1 /\ pc' = [pc EXCEPT ![h] = "enter"]
      /\ UNCHANGED <<queue, graph, own, mtx, waiting, task>>
  BY DEF AddHelper, Goto, Unlocked
<1>2. /\ hi' = hi /\ lo' = lo /\ graph' = graph /\ own' = own
      /\ task' = task /\ waiting' = waiting /\ mtx' = mtx
  BY <1>1 DEF queue
<1>3. ShapeInv'
  BY <1>1, <1>2, ThreadFacts DEF RunnerInv, ShapeInv, Working
<1>4. LockInv'
  BY <1>1, <1>2, ThreadFacts DEF RunnerInv, ShapeInv, LockInv
<1>5. JobInv'
  <2>1. Inside' = Inside \cup {h} /\ h \notin Inside /\ Inside \subseteq Helpers
    BY <1>1, ThreadFacts DEF RunnerInv, ShapeInv, Inside
  <2>2. Cardinality(Inside') = Cardinality(Inside) + 1
    BY <2>1, ThreadFacts, FS_Subset, FS_AddElement
  <2>3. pc'[Caller] = pc[Caller]
    BY <1>1, ThreadFacts DEF RunnerInv, ShapeInv
  <2>4. pc[Caller] \notin {"between", "ended", "joining", "joinwait"}
    BY <1>1 DEF RunnerInv, JobInv
  <2>5. helpers' + slots' = helpers + slots
    BY <1>1 DEF RunnerInv, ShapeInv
  <2>6. QED
    BY <1>1, <1>2, <2>2, <2>3, <2>4, <2>5 DEF RunnerInv, JobInv
<1>6. QueueInv' /\ ExecInv' /\ EndInv'
  <2>1. Executing' = Executing
    BY <1>1, ThreadFacts DEF RunnerInv, ShapeInv, Executing
  <2>2. pc'[Caller] = pc[Caller]
    BY <1>1, ThreadFacts DEF RunnerInv, ShapeInv
  <2>3. QED
    BY <1>1, <1>2, <2>1, <2>2, TasksStill
<1>7. WakeInv'
  BY <1>1, <1>2 DEF RunnerInv, WakeInv, Unlocked
<1>8. QED
  BY <1>3, <1>4, <1>5, <1>6, <1>7 DEF RunnerInv

LEMMA HelpEndKeeps ==
  ASSUME NEW h \in Helpers, RunnerInv, HelpEnd(h) PROVE RunnerInv'
<1>1. /\ pc[h] = "leaving" /\ mtx = NoThread /\ waiting' = {}
      /\ helpers' = helpers - 1 /\ pc' = [pc EXCEPT ![h] = "idle"]
      /\ UNCHANGED <<queue, graph, own, slots, mtx, task>>
  BY DEF HelpEnd, LeaveNotify, Goto, Unlocked
<1>2. /\ hi' = hi /\ lo' = lo /\ graph' = graph /\ own' = own
      /\ task' = task /\ slots' = slots /\ mtx' = mtx
  BY <1>1 DEF queue
<1>9. Inside' = Inside \ {h} /\ h \in Inside /\ Inside \subseteq Helpers
  BY <1>1, ThreadFacts DEF RunnerInv, ShapeInv, Inside
<1>10. IsFiniteSet(Inside)
  BY <1>9, ThreadFacts, FS_Subset
<1>11. Cardinality(Inside') = Cardinality(Inside) - 1 /\ Cardinality(Inside') \in Nat
  <2>1. IsFiniteSet(Inside')
    BY <1>9, <1>10, FS_RemoveElement
  <2>2. QED
    BY <1>9, <1>10, <2>1, FS_RemoveElement, FS_CardinalityType
<1>3. ShapeInv'
  BY <1>1, <1>2, <1>11, ThreadFacts DEF RunnerInv, ShapeInv, JobInv, Working
<1>4. LockInv'
  BY <1>1, <1>2, ThreadFacts DEF RunnerInv, ShapeInv, LockInv
<1>5. JobInv'
  <2>3. pc'[Caller] = pc[Caller]
    BY <1>1, ThreadFacts DEF RunnerInv, ShapeInv
  <2>4. pc[Caller] \in {"between", "ended"} => Inside' = {}
    BY <1>9 DEF RunnerInv, JobInv
  <2>5. helpers' + slots' <= helpers + slots /\ helpers \in Nat /\ slots \in Nat
        /\ helpers' = Cardinality(Inside')
    BY <1>1, <1>2, <1>11 DEF RunnerInv, ShapeInv, JobInv
  <2>7. helpers' + slots' <= Cardinality(Helpers)
    BY <1>1, <1>2, <2>5, ThreadFacts DEF RunnerInv, JobInv
  <2>6. QED
    BY <1>2, <2>3, <2>4, <2>5, <2>7 DEF RunnerInv, JobInv
<1>6. QueueInv' /\ ExecInv' /\ EndInv'
  <2>1. Executing' = Executing
    BY <1>1, ThreadFacts DEF RunnerInv, ShapeInv, Executing
  <2>2. pc'[Caller] = pc[Caller]
    BY <1>1, ThreadFacts DEF RunnerInv, ShapeInv
  <2>3. QED
    BY <1>1, <1>2, <2>1, <2>2, TasksStill
<1>7. WakeInv'
  BY <1>1 DEF WakeInv
<1>8. QED
  BY <1>3, <1>4, <1>5, <1>6, <1>7 DEF RunnerInv
\* When all have finished nothing is ready.
LEMMA NoneReady ==
  ASSUME RunnerInv, graph > 0, finished = Tasks(graph)
  PROVE  hi = <<>> /\ lo = <<>> /\ Executing = {}
<1>1. /\ hi \in Seq(Tasks(graph)) /\ lo \in Seq(Tasks(graph)) /\ Ready \cap finished = {}
      /\ \A t \in Executing : task[t] \in Tasks(graph) \ finished
  BY DEF RunnerInv, QueueInv, ExecInv
<1>2. ToSet(hi) = {} /\ ToSet(lo) = {}
  <2>1. /\ DOMAIN hi = 1..Len(hi) /\ \A k \in 1..Len(hi) : hi[k] \in Tasks(graph)
        /\ DOMAIN lo = 1..Len(lo) /\ \A k \in 1..Len(lo) : lo[k] \in Tasks(graph)
    BY <1>1, LenProperties, ElementOfSeq
  <2>2. Ready \subseteq Tasks(graph)
    BY <2>1 DEF Ready, ToSet
  <2>3. QED
    BY <1>1, <2>2 DEF Ready
<1>3. DOMAIN hi = {} /\ DOMAIN lo = {}
  BY <1>2 DEF ToSet
<1>4. Len(hi) = 0 /\ Len(lo) = 0
  BY <1>1, <1>3, LenProperties
<1>5. QED
  BY <1>1, <1>4, EmptySeq

LEMMA CallerKeeps ==
  ASSUME RunnerInv, Withdraw \/ JoinWait \/ Join \/ FrontDone PROVE RunnerInv'
<1>1. /\ pc[Caller] \in {"withdrawing", "joining", "joinwait", "between"}
      /\ \E l \in {"joining", "joinwait", "between", "ended"} : pc' = [pc EXCEPT ![Caller] = l]
      /\ slots' \in {0, slots} /\ waiting' \in {waiting, waiting \cup {Caller}}
      /\ UNCHANGED <<queue, graph, own, helpers, mtx, task>>
  BY DEF Withdraw, JoinWait, Join, FrontDone, Goto, run, Joining
<1>2. /\ hi' = hi /\ lo' = lo /\ graph' = graph /\ own' = own /\ mtx' = mtx
      /\ helpers' = helpers /\ task' = task
  BY <1>1 DEF queue
<1>3. /\ pc'[Caller] \in {"joining", "joinwait", "between", "ended"}
      /\ \A t \in Helpers : pc'[t] = pc[t]
      /\ DOMAIN pc' = Threads
  BY <1>1, ThreadFacts DEF RunnerInv, ShapeInv
<1>4. ShapeInv'
  BY <1>1, <1>2, <1>3, ThreadFacts DEF RunnerInv, ShapeInv
<1>5. /\ pc'[Caller] = "between" => pc[Caller] \in {"joining", "joinwait"} /\ helpers = 0
      /\ pc'[Caller] = "ended" => pc[Caller] = "between"
      /\ pc'[Caller] = "joinwait" => pc[Caller] \in {"joining", "joinwait"} /\ mtx = NoThread
      /\ pc[Caller] = "withdrawing" => slots' = 0
      /\ graph > 0
      /\ slots' = slots \/ slots' = 0
      /\ pc[Caller] = "joinwait" => Caller \notin waiting
      /\ waiting' = waiting \/ pc'[Caller] = "joinwait"
  <2>1. CASE Withdraw
    BY <1>1, <1>3, <2>1, ThreadFacts DEF Withdraw, RunnerInv, ShapeInv, JobInv, Goto
  <2>2. CASE JoinWait
    BY <1>1, <1>3, <2>2, ThreadFacts DEF JoinWait, Joining, Unlocked, RunnerInv, ShapeInv, JobInv, Goto, run
  <2>3. CASE Join
    BY <1>1, <1>3, <2>3, ThreadFacts DEF Join, Joining, Alone, RunnerInv, ShapeInv, JobInv, Goto, run
  <2>4. CASE FrontDone
    BY <1>1, <1>3, <2>4, ThreadFacts DEF FrontDone, RunnerInv, ShapeInv, JobInv, Goto, run
  <2>5. QED
    BY <2>1, <2>2, <2>3, <2>4
<1>6. LockInv'
  <2>1. \A t \in Threads : pc'[t] = "choosing" <=> mtx' = t
    BY <1>1, <1>2, <1>3, ThreadFacts DEF RunnerInv, LockInv
  <2>2. Caller \in waiting' => pc'[Caller] = "joinwait"
    BY <1>1, <1>5 DEF RunnerInv, LockInv
  <2>3. \A t \in waiting' : t # Caller => t \in waiting /\ t \in Helpers
    BY <1>1, ThreadFacts DEF RunnerInv, ShapeInv
  <2>4. \A t \in waiting' : pc'[t] \in {"asleep", "joinwait"}
    BY <1>3, <2>2, <2>3 DEF RunnerInv, LockInv
  <2>5. QED
    BY <2>1, <2>4 DEF LockInv
<1>7. JobInv'
  <2>1. Inside' = Inside
    BY <1>3 DEF Inside
  <2>2. IsFiniteSet(Inside) /\ (helpers = 0 => Inside = {})
    BY ThreadFacts, FS_Subset, FS_EmptySet DEF RunnerInv, JobInv, Inside
  <2>3. pc'[Caller] \in {"between", "ended"} => Inside' = {}
    BY <1>5, <2>1, <2>2 DEF RunnerInv, JobInv
  <2>4. slots' = 0
    BY <1>1, <1>5 DEF RunnerInv, JobInv
  <2>5. helpers' + slots' <= Cardinality(Helpers)
    BY <1>2, <2>4, ThreadFacts DEF RunnerInv, JobInv, ShapeInv
  <2>6. QED
    BY <1>2, <1>5, <2>1, <2>3, <2>4, <2>5 DEF RunnerInv, JobInv, ShapeInv
<1>8. QueueInv' /\ ExecInv' /\ EndInv'
  <2>1. Executing' = Executing
    BY <1>1, <1>3, ThreadFacts DEF Executing
  <2>2. pc[Caller] \notin Working
    BY <1>1 DEF Working
  <2>3. QED
    BY <1>1, <2>1, <2>2, TasksStill
<1>9. WakeInv'
  <2>1. finished = Tasks(graph)
    BY <1>1, <1>5 DEF RunnerInv, EndInv, Working
  <2>2. hi' = <<>> /\ lo' = <<>>
    BY <1>2, <1>5, <2>1, NoneReady
  <2>3. Len(hi') = 0 /\ Len(lo') = 0
    BY <2>2
  <2>4. QED
    BY <2>3 DEF WakeInv
<1>10. QED
  BY <1>4, <1>6, <1>7, <1>8, <1>9 DEF RunnerInv

\* Taking the last of a stack or the head of a queue leaves the others.
LEMMA TakeOne ==
  ASSUME NEW T, NEW s \in Seq(T), s # <<>>, IsInjective(s)
  PROVE  /\ Front(s) \in Seq(T) /\ IsInjective(Front(s)) /\ Len(Front(s)) = Len(s) - 1
         /\ Last(s) \in ToSet(s) /\ ToSet(Front(s)) = ToSet(s) \ {Last(s)}
         /\ Tail(s) \in Seq(T) /\ IsInjective(Tail(s)) /\ Len(Tail(s)) = Len(s) - 1
         /\ Head(s) \in ToSet(s) /\ ToSet(Tail(s)) = ToSet(s) \ {Head(s)}
<1> DEFINE L == Len(s)
           f == Front(s)
           r == Tail(s)
<1>1. L \in Nat /\ L # 0 /\ DOMAIN s = 1..L /\ \A k \in 1..L : s[k] \in T
  BY LenProperties, EmptySeq, ElementOfSeq
<1>2. f \in Seq(T) /\ Len(f) = L - 1 /\ \A k \in 1..(L - 1) : f[k] = s[k]
  <2>1. 1 \in 1..(L + 1) /\ L - 1 \in 0..L
    BY <1>1
  <2>2. f = SubSeq(s, 1, L - 1)
    BY DEF Front
  <2>3. QED
    BY <1>1, <2>1, <2>2, SubSeqProperties
<1>3. r \in Seq(T) /\ Len(r) = L - 1 /\ \A k \in 1..(L - 1) : r[k] = s[k + 1]
  BY <1>1, HeadTailProperties
<1>4. Last(s) = s[L] /\ Head(s) = s[1]
  BY DEF Last
<1> HIDE DEF L, f, r
<1>5. DOMAIN f = 1..(L - 1) /\ DOMAIN r = 1..(L - 1)
  BY <1>2, <1>3, LenProperties
<1>6. \A j, k \in 1..L : s[j] = s[k] => j = k
  BY <1>1 DEF IsInjective
<1>7. IsInjective(f) /\ ToSet(f) = ToSet(s) \ {s[L]}
  <2>1. IsInjective(f)
    BY <1>1, <1>2, <1>5, <1>6 DEF IsInjective
  <2>2. ToSet(f) \subseteq ToSet(s) \ {s[L]}
    BY <1>1, <1>2, <1>5, <1>6 DEF ToSet
  <2>3. ToSet(s) \ {s[L]} \subseteq ToSet(f)
    <3>1. \A k \in 1..L : k = L \/ k \in 1..(L - 1)
      BY <1>1
    <3>2. QED
      BY <1>1, <1>2, <1>5, <3>1 DEF ToSet
  <2>4. QED
    BY <2>1, <2>2, <2>3
<1>8. IsInjective(r) /\ ToSet(r) = ToSet(s) \ {s[1]}
  <2>1. IsInjective(r)
    <3>1. SUFFICES ASSUME NEW j \in 1..(L - 1), NEW k \in 1..(L - 1), r[j] = r[k] PROVE j = k
      BY <1>5 DEF IsInjective
    <3>2. j + 1 \in 1..L /\ k + 1 \in 1..L /\ s[j + 1] = s[k + 1]
      BY <1>1, <1>3, <3>1
    <3>3. j + 1 = k + 1
      BY <1>6, <3>2
    <3>4. QED
      BY <1>1, <3>3
  <2>2. ToSet(r) \subseteq ToSet(s) \ {s[1]}
    <3>1. SUFFICES ASSUME NEW k \in 1..(L - 1) PROVE r[k] \in ToSet(s) /\ r[k] # s[1]
      BY <1>5 DEF ToSet
    <3>2. k + 1 \in 1..L /\ 1 \in 1..L /\ k + 1 # 1 /\ r[k] = s[k + 1]
      BY <1>1, <1>3, <3>1
    <3>3. QED
      BY <1>1, <1>6, <3>2 DEF ToSet
  <2>3. ToSet(s) \ {s[1]} \subseteq ToSet(r)
    <3>1. SUFFICES ASSUME NEW k \in 1..L, k # 1 PROVE s[k] \in ToSet(r)
      BY <1>1 DEF ToSet
    <3> DEFINE j == k - 1
    <3>2. j \in 1..(L - 1) /\ j + 1 = k
      BY <1>1, <3>1
    <3> HIDE DEF j
    <3>3. r[j] = s[k]
      BY <1>3, <3>2
    <3>4. QED
      BY <1>5, <3>2, <3>3 DEF ToSet
  <2>4. QED
    BY <2>1, <2>2, <2>3
<1>9. s[L] \in ToSet(s) /\ s[1] \in ToSet(s)
  BY <1>1 DEF ToSet
<1>10. QED
  BY <1>2, <1>3, <1>4, <1>7, <1>8, <1>9 DEF L, f, r
LEMMA TakeKeeps ==
  ASSUME NEW t \in Threads, RunnerInv, Take(t) PROVE RunnerInv'
<1> DEFINE q == task'[t]
<1>1. /\ pc[t] = "choosing" /\ mtx' = NoThread /\ pc' = [pc EXCEPT ![t] = "executing"]
      /\ UNCHANGED <<pending, done, finished, run, waiting>>
      /\ hi # <<>> \/ lo # <<>>
      /\ \/ /\ hi # <<>> /\ task' = [task EXCEPT ![t] = Last(hi)] /\ hi' = Front(hi) /\ lo' = lo
         \/ /\ lo # <<>> /\ task' = [task EXCEPT ![t] = Head(lo)] /\ lo' = Tail(lo) /\ hi' = hi
  BY DEF Take, Goto
<1>2. /\ pending' = pending /\ done' = done /\ finished' = finished
      /\ graph' = graph /\ own' = own /\ slots' = slots /\ helpers' = helpers /\ waiting' = waiting
  BY <1>1 DEF run
<1>3. graph > 0
  BY <1>1 DEF RunnerInv, ShapeInv, JobInv
<1>4. mtx = t /\ t # NoThread /\ t \notin Executing
  BY <1>1, ThreadFacts DEF RunnerInv, LockInv, Executing
<1>5. /\ hi \in Seq(Tasks(graph)) /\ lo \in Seq(Tasks(graph)) /\ IsInjective(hi) /\ IsInjective(lo)
      /\ ToSet(hi) \cap ToSet(lo) = {} /\ Ready \cap finished = {}
      /\ \A s \in finished \cup Ready : Preds(graph, s) \subseteq finished
  BY <1>3 DEF RunnerInv, QueueInv
<1>6. Len(hi) \in Nat /\ Len(lo) \in Nat
  BY <1>5, LenProperties
<1>7. /\ hi' \in Seq(Tasks(graph)) /\ lo' \in Seq(Tasks(graph)) /\ IsInjective(hi') /\ IsInjective(lo')
      /\ ToSet(hi') \cap ToSet(lo') = {} /\ Ready' = Ready \ {q} /\ q \in Ready
      /\ task' = [task EXCEPT ![t] = q] /\ Len(hi') + Len(lo') = Len(hi) + Len(lo) - 1
  <2>1. CASE hi # <<>> /\ task' = [task EXCEPT ![t] = Last(hi)] /\ hi' = Front(hi) /\ lo' = lo
    <3>1. q = Last(hi)
      BY <2>1 DEF RunnerInv, ShapeInv
    <3>2. /\ hi' \in Seq(Tasks(graph)) /\ IsInjective(hi') /\ Len(hi') = Len(hi) - 1
          /\ q \in ToSet(hi) /\ ToSet(hi') = ToSet(hi) \ {q}
      BY <1>5, <2>1, <3>1, TakeOne
    <3>3. Ready' = Ready \ {q} /\ q \in Ready
      BY <1>5, <2>1, <3>2 DEF Ready
    <3>4. task' = [task EXCEPT ![t] = q]
      BY <2>1, <3>1
    <3>5. Len(hi') + Len(lo') = Len(hi) + Len(lo) - 1
      BY <1>6, <2>1, <3>2
    <3> HIDE DEF q
    <3>6. ToSet(hi') \cap ToSet(lo') = {}
      BY <1>5, <2>1, <3>2
    <3>7. QED
      BY <1>5, <2>1, <3>2, <3>3, <3>4, <3>5, <3>6
  <2>2. CASE lo # <<>> /\ task' = [task EXCEPT ![t] = Head(lo)] /\ lo' = Tail(lo) /\ hi' = hi
    <3>1. q = Head(lo)
      BY <2>2 DEF RunnerInv, ShapeInv
    <3>2. /\ lo' \in Seq(Tasks(graph)) /\ IsInjective(lo') /\ Len(lo') = Len(lo) - 1
          /\ q \in ToSet(lo) /\ ToSet(lo') = ToSet(lo) \ {q}
      BY <1>5, <2>2, <3>1, TakeOne
    <3>3. Ready' = Ready \ {q} /\ q \in Ready
      BY <1>5, <2>2, <3>2 DEF Ready
    <3>4. task' = [task EXCEPT ![t] = q]
      BY <2>2, <3>1
    <3>5. Len(hi') + Len(lo') = Len(hi) + Len(lo) - 1
      BY <1>6, <2>2, <3>2
    <3> HIDE DEF q
    <3>6. ToSet(hi') \cap ToSet(lo') = {}
      BY <1>5, <2>2, <3>2
    <3>7. QED
      BY <1>5, <2>2, <3>2, <3>3, <3>4, <3>5, <3>6
  <2>3. QED
    BY <1>1, <2>1, <2>2
<1> HIDE DEF q
<1>8. q \in Tasks(graph)
  BY <1>5, <1>7, ElementOfSeq, LenProperties DEF Ready, ToSet
<1>9. ShapeInv'
  BY <1>1, <1>2, <1>7, ThreadFacts DEF RunnerInv, ShapeInv, Working
<1>10. LockInv'
  BY <1>1, <1>2, <1>4, ThreadFacts DEF RunnerInv, ShapeInv, LockInv
<1>11. JobInv'
  <2>1. Inside' = Inside
    BY <1>1, SameInside, ThreadFacts DEF Goto
  <2>2. pc'[Caller] = pc[Caller] \/ (t = Caller /\ pc'[Caller] = "executing")
    BY <1>1, ThreadFacts DEF RunnerInv, ShapeInv
  <2>3. t = Caller => pc[Caller] = "choosing"
    BY <1>1
  <2>4. QED
    BY <1>2, <1>3, <2>1, <2>2, <2>3 DEF RunnerInv, JobInv, ShapeInv
<1>12. QueueInv'
  BY <1>2, <1>3, <1>5, <1>7 DEF RunnerInv, QueueInv
<1>13. ExecInv'
  <2>1. Executing' = Executing \cup {t}
    BY <1>1, ThreadFacts DEF RunnerInv, ShapeInv, Executing
  <2>2. task'[t] = q /\ \A u \in Executing : task'[u] = task[u] /\ u # t
    BY <1>4, <1>7 DEF RunnerInv, ShapeInv, Executing
  <2>3. /\ \A u \in Executing : task[u] \in Tasks(graph) \ (finished \cup Ready)
        /\ \A u, v \in Executing : task[u] = task[v] => u = v
        /\ \A u \in Executing : Preds(graph, task[u]) \subseteq finished
    BY <1>3 DEF RunnerInv, ExecInv
  <2>4. q \notin finished /\ Preds(graph, q) \subseteq finished
    BY <1>5, <1>7
  <2>5. \A u \in Executing' : task'[u] \in Tasks(graph) \ (finished \cup Ready')
    BY <1>7, <1>8, <2>1, <2>2, <2>3, <2>4
  <2>6. \A u, v \in Executing' : task'[u] = task'[v] => u = v
    BY <1>7, <2>1, <2>2, <2>3
  <2>7. \A u \in Executing' : Preds(graph, task'[u]) \subseteq finished
    BY <2>1, <2>2, <2>3, <2>4
  <2>8. QED
    BY <1>2, <2>5, <2>6, <2>7 DEF ExecInv
<1>14. EndInv'
  <2>1. pc'[Caller] = pc[Caller] \/ pc'[Caller] = "executing"
    BY <1>1, ThreadFacts DEF RunnerInv, ShapeInv
  <2>2. QED
    BY <1>2, <2>1 DEF RunnerInv, EndInv, Working
<1>15. WakeInv'
  <2>1. ASSUME waiting' # {} PROVE Len(hi') + Len(lo') <= 0
    <3>1. Len(hi) + Len(lo) <= 1
      BY <1>2, <1>4, <2>1 DEF RunnerInv, WakeInv, Unlocked
    <3>2. QED
      BY <1>6, <1>7, <3>1
  <2>2. Unlocked'
    BY <1>1 DEF Unlocked
  <2>3. QED
    BY <2>1, <2>2 DEF WakeInv
<1>16. QED
  BY <1>9, <1>10, <1>11, <1>12, <1>13, <1>14, <1>15 DEF RunnerInv

\* The two queues of a sequence of ready tasks, urgent ones and others.
LEMMA SplitReady ==
  ASSUME GraphsSound, NEW g \in Graphs, NEW r \in Seq(Tasks(g)), IsInjective(r)
  PROVE  LET u == Chosen(r, UrgentTasks[g])
             o == Chosen(r, OtherTasks[g])
         IN  /\ u \in Seq(Tasks(g)) /\ o \in Seq(Tasks(g)) /\ IsInjective(u) /\ IsInjective(o)
             /\ ToSet(u) \cap ToSet(o) = {} /\ ToSet(u) \cup ToSet(o) = ToSet(r)
             /\ Len(u) + Len(o) = Len(r)
<1> DEFINE u == Chosen(r, UrgentTasks[g])
           o == Chosen(r, OtherTasks[g])
<1>1. /\ u \in Seq(Tasks(g)) /\ ToSet(u) = ToSet(r) \cap UrgentTasks[g] /\ IsInjective(u)
      /\ o \in Seq(Tasks(g)) /\ ToSet(o) = ToSet(r) \cap OtherTasks[g] /\ IsInjective(o)
  BY ChosenProperties
<1>2. ToSet(r) \subseteq Tasks(g)
  BY ElementOfSeq, LenProperties DEF ToSet
<1>3. UrgentTasks[g] \subseteq Tasks(g) /\ OtherTasks[g] = Tasks(g) \ UrgentTasks[g]
  BY DEF GraphsSound, GraphSound
<1> HIDE DEF u, o
<1>4. ToSet(u) \cap ToSet(o) = {} /\ ToSet(u) \cup ToSet(o) = ToSet(r)
  BY <1>1, <1>2, <1>3
<1>5. /\ IsFiniteSet(ToSet(u)) /\ Cardinality(ToSet(u)) = Len(u)
      /\ IsFiniteSet(ToSet(o)) /\ Cardinality(ToSet(o)) = Len(o)
      /\ Cardinality(ToSet(r)) = Len(r)
  BY <1>1, DistinctLength
<1>6. Cardinality(ToSet(u) \cup ToSet(o)) = Len(u) + Len(o) - Cardinality(ToSet(u) \cap ToSet(o))
  BY <1>5, FS_Union
<1>7. Cardinality(ToSet(u) \cap ToSet(o)) = 0
  BY <1>4, FS_EmptySet
<1>8. Len(u) \in Nat /\ Len(o) \in Nat
  BY <1>1, LenProperties
<1>9. Len(u) + Len(o) = Len(r)
  <2>1. Cardinality(ToSet(u) \cup ToSet(o)) = Len(r)
    BY <1>4, <1>5
  <2>2. Len(r) = Len(u) + Len(o) - 0
    BY <1>6, <1>7, <2>1
  <2>3. QED
    BY <1>8, <2>2
<1>10. QED
  BY <1>1, <1>4, <1>9 DEF u, o

LEMMA StartKeeps ==
  ASSUME GraphsSound, RunnerInv, Start PROVE RunnerInv'
<1> DEFINE g == graph + 1
<1>1. /\ pc[Caller] = "between" /\ graph < 2 /\ graph' = g /\ pending' = Pending(g)
      /\ hi' = Chosen(Roots(g), UrgentTasks[g]) /\ lo' = Chosen(Roots(g), OtherTasks[g])
      /\ done' = 0 /\ finished' = {} /\ UNCHANGED <<own, mtx, waiting, task>>
  BY DEF Start
<1>2. IF own THEN helpers' = nthreads - 1 /\ slots' = 0 /\ pc' = [t \in Threads |-> "enter"]
      ELSE slots' = nthreads - 1 /\ pc' = [pc EXCEPT ![Caller] = "enter"] /\ helpers' = helpers
  BY DEF Start, Goto
<1>3. g \in Graphs /\ g \in 0..2 /\ g > 0
  BY <1>1 DEF RunnerInv, ShapeInv, Graphs
<1> HIDE DEF g
<1>4. /\ \A h \in Helpers : pc[h] = "idle"
      /\ helpers = 0 /\ slots = 0
  BY <1>1, FS_EmptySet DEF RunnerInv, JobInv, Inside
<1>5. waiting = {} /\ mtx = NoThread
  <2>1. \A t \in Threads : pc[t] \notin {"asleep", "joinwait", "choosing"}
    BY <1>1, <1>4, ThreadFacts
  <2>2. QED
    BY <2>1 DEF RunnerInv, LockInv, ShapeInv
<1>6. /\ DOMAIN pc' = Threads /\ pc'[Caller] = "enter"
      /\ \A h \in Helpers : pc'[h] = IF own THEN "enter" ELSE "idle"
  BY <1>2, <1>4, ThreadFacts DEF RunnerInv, ShapeInv
<1>7. nthreads - 1 = Cardinality(Helpers) /\ nthreads - 1 \in Nat
  BY ThreadFacts
<1>8. ShapeInv'
  BY <1>1, <1>2, <1>3, <1>4, <1>6, <1>7, ThreadFacts DEF RunnerInv, ShapeInv, Working
<1>9. LockInv'
  <2>1. \A t \in Threads : pc'[t] # "choosing"
    BY <1>6, ThreadFacts
  <2>2. QED
    BY <1>1, <1>5, <2>1, ThreadFacts DEF LockInv
<1>10. JobInv'
  <2>1. CASE own
    <3>1. Inside' = Helpers
      BY <1>6, <2>1 DEF Inside
    <3>2. QED
      BY <1>1, <1>2, <1>3, <1>6, <1>7, <2>1, <3>1 DEF JobInv
  <2>2. CASE ~own
    <3>1. Inside' = {}
      BY <1>6, <2>2 DEF Inside
    <3>2. Cardinality(Inside') = 0
      BY <3>1, FS_EmptySet
    <3>3. QED
      BY <1>1, <1>2, <1>3, <1>4, <1>6, <1>7, <2>2, <3>2 DEF JobInv
  <2>3. QED
    BY <2>1, <2>2
<1>11. QueueInv'
  <2>1. /\ Roots(g) \in Seq(Tasks(g)) /\ IsInjective(Roots(g))
        /\ \A r \in ToSet(Roots(g)) : Preds(g, r) = {}
        /\ \A s \in Tasks(g) : Pending(g)[s] = Cardinality(Preds(g, s))
    BY <1>3 DEF GraphsSound, GraphSound
  <2>2. /\ hi' \in Seq(Tasks(g)) /\ lo' \in Seq(Tasks(g)) /\ IsInjective(hi') /\ IsInjective(lo')
        /\ ToSet(hi') \cap ToSet(lo') = {} /\ ToSet(hi') \cup ToSet(lo') = ToSet(Roots(g))
    BY <1>1, <1>3, <2>1, SplitReady
  <2>3. Ready' = ToSet(Roots(g))
    BY <2>2 DEF Ready
  <2>4. DOMAIN pending' = Tasks(g)
    BY <1>1 DEF Pending
  <2>5. \A s \in Tasks(g) : pending'[s] = Cardinality(Preds(g, s) \ finished')
    <3>1. \A s \in Tasks(g) : Preds(g, s) \ finished' = Preds(g, s)
      BY <1>1
    <3>2. QED
      BY <1>1, <2>1, <3>1
  <2>6. done' = Cardinality(finished')
    BY <1>1, FS_EmptySet
  <2>7. \A s \in finished' \cup Ready' : Preds(g, s) \subseteq finished'
    BY <1>1, <2>1, <2>3
  <2>8. QED
    BY <1>1, <2>2, <2>4, <2>5, <2>6, <2>7 DEF QueueInv
<1>12. ExecInv' /\ EndInv'
  <2>1. Executing' = {}
    <3>1. \A t \in Threads : pc'[t] # "executing"
      BY <1>6, ThreadFacts
    <3>2. QED
      BY <3>1 DEF Executing
  <2>2. QED
    BY <1>6, <2>1 DEF ExecInv, EndInv, Working
<1>13. WakeInv'
  BY <1>1, <1>5 DEF WakeInv
<1>14. QED
  BY <1>8, <1>9, <1>10, <1>11, <1>12, <1>13 DEF RunnerInv
LEMMA FinishKeeps ==
  ASSUME GraphsSound, NEW t \in Threads, RunnerInv, Finish(t) PROVE RunnerInv'
<1> DEFINE q     == task[t]
           succ  == SuccessorsOf[graph][q]
           left  == [s \in DOMAIN pending |-> IF s \in ToSet(succ) THEN pending[s] - 1 ELSE pending[s]]
           zero  == {s \in DOMAIN pending : left[s] = 0}
           ready == Chosen(succ, zero)
           u     == Chosen(ready, UrgentTasks[graph])
           o     == Chosen(ready, OtherTasks[graph])
<1>1. /\ pc[t] = "executing" /\ mtx = NoThread /\ pending' = left /\ hi' = hi \o u /\ lo' = lo \o o
      /\ waiting' = IF done + 1 = Total \/ WorthWaking(Len(ready)) THEN {} ELSE waiting
      /\ done' = done + 1 /\ finished' = finished \cup {q}
      /\ task' = [task EXCEPT ![t] = NoTask] /\ mtx' = t /\ pc' = [pc EXCEPT ![t] = "choosing"]
      /\ UNCHANGED run
  BY DEF Finish, Goto, Unlocked
<1> HIDE DEF u, o, ready, zero, left
<1>2. graph' = graph /\ own' = own /\ slots' = slots /\ helpers' = helpers
  BY <1>1 DEF run
<1>3. graph > 0 /\ graph \in Graphs
  <2>1. graph \in 0..2
    BY DEF RunnerInv, ShapeInv
  <2>2. ASSUME graph = 0 PROVE FALSE
    <3>1. pc[Caller] = "between" /\ Inside = {}
      BY <2>2 DEF RunnerInv, JobInv
    <3>2. pc[t] \in {"between", "idle"}
      BY <3>1, ThreadFacts DEF Inside
    <3>3. QED
      BY <1>1, <3>2
  <2>3. QED
    BY <2>1, <2>2 DEF Graphs
<1>4. t \in Executing
  BY <1>1 DEF Executing
<1>5. /\ DOMAIN pending = Tasks(graph)
      /\ \A s \in Tasks(graph) : pending[s] = Cardinality(Preds(graph, s) \ finished)
      /\ hi \in Seq(Tasks(graph)) /\ lo \in Seq(Tasks(graph)) /\ IsInjective(hi) /\ IsInjective(lo)
      /\ ToSet(hi) \cap ToSet(lo) = {} /\ Ready \cap finished = {}
      /\ finished \subseteq Tasks(graph) /\ done = Cardinality(finished)
      /\ \A s \in finished \cup Ready : Preds(graph, s) \subseteq finished
  BY <1>3 DEF RunnerInv, QueueInv
<1>6. /\ \A v \in Executing : task[v] \in Tasks(graph) \ (finished \cup Ready)
      /\ \A v, w \in Executing : task[v] = task[w] => v = w
      /\ \A v \in Executing : Preds(graph, task[v]) \subseteq finished
  BY <1>3 DEF RunnerInv, ExecInv
<1>7. q \in Tasks(graph) /\ q \notin finished /\ q \notin Ready /\ Preds(graph, q) \subseteq finished
  BY <1>4, <1>6
<1>8. /\ succ \in Seq(Tasks(graph)) /\ IsInjective(succ) /\ IsFiniteSet(Tasks(graph))
      /\ Tasks(graph) \subseteq Nat
  <2>1. GraphSound(graph)
    BY <1>3 DEF GraphsSound
  <2> HIDE DEF q
  <2>2. QED
    BY <1>7, <2>1 DEF GraphSound
<1>9. \A s \in Tasks(graph) : s \in ToSet(succ) <=> q \in Preds(graph, s)
  BY <1>7 DEF Preds
<1> HIDE DEF succ, q
<1>10. \A s \in Tasks(graph) : /\ IsFiniteSet(Preds(graph, s) \ finished)
                              /\ IsFiniteSet(Preds(graph, s) \ finished')
                              /\ left[s] = Cardinality(Preds(graph, s) \ finished')
  <2>1. SUFFICES ASSUME NEW s \in Tasks(graph)
                 PROVE  /\ IsFiniteSet(Preds(graph, s) \ finished)
                        /\ IsFiniteSet(Preds(graph, s) \ finished')
                        /\ left[s] = Cardinality(Preds(graph, s) \ finished')
    OBVIOUS
  <2> DEFINE A == Preds(graph, s) \ finished
             B == Preds(graph, s) \ finished'
  <2>2. A \subseteq Tasks(graph) /\ B = A \ {q} /\ B \subseteq Tasks(graph)
    BY <1>1 DEF Preds
  <2>3. IsFiniteSet(A) /\ IsFiniteSet(B)
    BY <1>8, <2>2, FS_Subset
  <2>4. q \in A <=> s \in ToSet(succ)
    BY <1>7, <1>9, <2>1
  <2>5. pending[s] = Cardinality(A)
    BY <1>5, <2>1
  <2>6. left[s] = IF s \in ToSet(succ) THEN pending[s] - 1 ELSE pending[s]
    BY <1>5, <2>1 DEF left
  <2> HIDE DEF A, B
  <2>7. Cardinality(B) = IF q \in A THEN Cardinality(A) - 1 ELSE Cardinality(A)
    BY <2>2, <2>3, FS_RemoveElement
  <2>8. left[s] = Cardinality(B)
    BY <2>4, <2>5, <2>6, <2>7
  <2>9. QED
    BY <2>3, <2>8 DEF A, B
<1>11. /\ ready \in Seq(Tasks(graph)) /\ IsInjective(ready) /\ ToSet(ready) = ToSet(succ) \cap zero
  BY <1>8, ChosenProperties DEF ready
<1>12. \A s \in ToSet(ready) : /\ s \in Tasks(graph) /\ Preds(graph, s) \subseteq finished'
                              /\ q \in Preds(graph, s)
  <2>1. SUFFICES ASSUME NEW s \in ToSet(ready)
                 PROVE  s \in Tasks(graph) /\ Preds(graph, s) \subseteq finished' /\ q \in Preds(graph, s)
    OBVIOUS
  <2>2. s \in ToSet(succ) /\ s \in Tasks(graph) /\ left[s] = 0
    BY <1>5, <1>11 DEF zero
  <2>3. Preds(graph, s) \ finished' = {}
    BY <1>10, <2>2, FS_EmptySet
  <2>4. QED
    BY <1>9, <2>2, <2>3
<1>13. \A s \in ToSet(ready) : s \notin finished /\ s \notin Ready /\ \A v \in Executing : s # task[v]
  BY <1>5, <1>6, <1>7, <1>12
<1>14. /\ u \in Seq(Tasks(graph)) /\ o \in Seq(Tasks(graph)) /\ IsInjective(u) /\ IsInjective(o)
       /\ ToSet(u) \cap ToSet(o) = {} /\ ToSet(u) \cup ToSet(o) = ToSet(ready)
       /\ Len(u) + Len(o) = Len(ready)
  BY <1>3, <1>11, SplitReady DEF u, o
<1>15. ToSet(hi) \cap ToSet(ready) = {} /\ ToSet(lo) \cap ToSet(ready) = {}
  BY <1>13 DEF Ready
<1>16. /\ hi' \in Seq(Tasks(graph)) /\ lo' \in Seq(Tasks(graph)) /\ IsInjective(hi') /\ IsInjective(lo')
       /\ ToSet(hi') = ToSet(hi) \cup ToSet(u) /\ ToSet(lo') = ToSet(lo) \cup ToSet(o)
       /\ Len(hi') = Len(hi) + Len(u) /\ Len(lo') = Len(lo) + Len(o)
  <2>1. ToSet(hi) \cap ToSet(u) = {} /\ ToSet(lo) \cap ToSet(o) = {}
    BY <1>14, <1>15
  <2>2. /\ hi \o u \in Seq(Tasks(graph)) /\ IsInjective(hi \o u)
        /\ ToSet(hi \o u) = ToSet(hi) \cup ToSet(u) /\ Len(hi \o u) = Len(hi) + Len(u)
    BY <1>5, <1>14, <2>1, ConcatMembers
  <2>3. /\ lo \o o \in Seq(Tasks(graph)) /\ IsInjective(lo \o o)
        /\ ToSet(lo \o o) = ToSet(lo) \cup ToSet(o) /\ Len(lo \o o) = Len(lo) + Len(o)
    BY <1>5, <1>14, <2>1, ConcatMembers
  <2>4. QED
    BY <1>1, <2>2, <2>3
<1>17. Ready' = Ready \cup ToSet(ready) /\ ToSet(hi') \cap ToSet(lo') = {}
  BY <1>5, <1>14, <1>15, <1>16 DEF Ready
<1>18. finished' \subseteq Tasks(graph) /\ done' = Cardinality(finished')
  <2>1. IsFiniteSet(finished)
    BY <1>5, <1>8, FS_Subset
  <2>2. QED
    BY <1>1, <1>5, <1>7, <2>1, FS_AddElement
<1>19. QueueInv'
  <2>1. DOMAIN pending' = Tasks(graph)
    BY <1>1, <1>5 DEF left
  <2>2. \A s \in Tasks(graph) : pending'[s] = Cardinality(Preds(graph, s) \ finished')
    BY <1>1, <1>10
  <2>3. Ready' \cap finished' = {}
    <3>1. q \notin ToSet(ready)
      BY <1>4, <1>13 DEF q
    <3>2. QED
      BY <1>1, <1>5, <1>7, <1>13, <1>17, <3>1
  <2>4. \A s \in finished' \cup Ready' : Preds(graph, s) \subseteq finished'
    BY <1>1, <1>5, <1>7, <1>12, <1>17
  <2>5. QED
    BY <1>2, <1>16, <1>17, <1>18, <2>1, <2>2, <2>3, <2>4 DEF QueueInv
<1>20. ExecInv'
  <2>1. Executing' = Executing \ {t}
    BY <1>1, ThreadFacts DEF RunnerInv, ShapeInv, Executing
  <2>2. \A v \in Executing' : v \in Executing /\ task'[v] = task[v] /\ task[v] # q
    BY <1>1, <1>4, <1>6, <2>1 DEF RunnerInv, ShapeInv, Executing, q
  <2>3. \A v \in Executing' : task'[v] \in Tasks(graph) \ (finished' \cup Ready')
    BY <1>1, <1>6, <1>13, <1>17, <2>2
  <2>4. \A v, w \in Executing' : task'[v] = task'[w] => v = w
    BY <1>6, <2>2
  <2>5. \A v \in Executing' : Preds(graph, task'[v]) \subseteq finished'
    BY <1>1, <1>6, <2>2
  <2>6. QED
    BY <1>2, <2>3, <2>4, <2>5 DEF ExecInv
<1>21. EndInv'
  <2>1. pc'[Caller] = pc[Caller] \/ pc'[Caller] = "choosing"
    BY <1>1, ThreadFacts DEF RunnerInv, ShapeInv
  <2>2. QED
    BY <1>1, <1>2, <1>18, <2>1 DEF RunnerInv, EndInv, Working
<1>22. ShapeInv'
  <2>1. waiting' \subseteq Threads
    BY <1>1 DEF RunnerInv, ShapeInv
  <2>2. QED
    BY <1>1, <1>2, <2>1, ThreadFacts DEF RunnerInv, ShapeInv, Working
<1>23. LockInv'
  <2>1. waiting' \subseteq waiting
    BY <1>1
  <2>2. t \notin waiting
    BY <1>1 DEF RunnerInv, LockInv
  <2>3. \A v \in Threads : pc'[v] = IF v = t THEN "choosing" ELSE pc[v]
    BY <1>1 DEF RunnerInv, ShapeInv
  <2>4. \A v \in waiting' : pc'[v] \in {"asleep", "joinwait"}
    BY <2>1, <2>2, <2>3 DEF RunnerInv, LockInv, ShapeInv
  <2>5. \A v \in Threads : pc'[v] = "choosing" <=> mtx' = v
    BY <1>1, <2>3, ThreadFacts DEF RunnerInv, LockInv
  <2>6. QED
    BY <2>4, <2>5 DEF LockInv
<1>24. JobInv'
  <2>1. Inside' = Inside
    BY <1>1, SameInside, ThreadFacts DEF Goto
  <2>2. pc'[Caller] = pc[Caller] \/ pc'[Caller] = "choosing"
    BY <1>1, ThreadFacts DEF RunnerInv, ShapeInv
  <2>3. QED
    BY <1>2, <1>3, <2>1, <2>2 DEF RunnerInv, JobInv, Graphs
<1>25. WakeInv'
  <2>1. ASSUME waiting' # {} PROVE Len(hi') + Len(lo') <= 1
    <3>1. ~(Len(ready) > 1) /\ waiting # {}
      BY <1>1, <2>1 DEF WorthWaking
    <3>2. Len(hi) + Len(lo) <= 0
      BY <1>1, <3>1 DEF RunnerInv, WakeInv, Unlocked
    <3>3. /\ Len(hi) \in Nat /\ Len(lo) \in Nat /\ Len(u) \in Nat /\ Len(o) \in Nat
          /\ Len(ready) \in Nat
      BY <1>5, <1>11, <1>14, LenProperties
    <3>4. Len(hi') + Len(lo') = (Len(hi) + Len(lo)) + Len(ready)
      BY <1>14, <1>16, <3>3, SMTT(30)
    <3>5. QED
      BY <3>1, <3>2, <3>3, <3>4
  <2>2. ~Unlocked'
    BY <1>1, ThreadFacts DEF Unlocked
  <2>3. QED
    BY <2>1, <2>2 DEF WakeInv
<1>26. QED
  BY <1>19, <1>20, <1>21, <1>22, <1>23, <1>24, <1>25 DEF RunnerInv
LEMMA RunnerInductive ==
  ASSUME GraphsSound, RunnerInv, [Next]_vars PROVE RunnerInv'
<1>1. ASSUME NEW t \in Threads, Work(t) PROVE RunnerInv'
  BY <1>1, LockKeeps, WaitKeeps, LeaveKeeps, TakeKeeps, FinishKeeps DEF Work
<1>2. CASE UNCHANGED vars
  <2>1. /\ UNCHANGED <<queue, graph, task>>
        /\ pending' = pending /\ hi' = hi /\ lo' = lo /\ done' = done /\ finished' = finished
        /\ graph' = graph /\ own' = own /\ slots' = slots /\ helpers' = helpers /\ mtx' = mtx
        /\ waiting' = waiting /\ pc' = pc /\ task' = task
    BY <1>2 DEF vars, queue, run
  <2>2. Executing' = Executing /\ Inside' = Inside
    BY <2>1 DEF Executing, Inside
  <2>3. QueueInv' /\ ExecInv' /\ EndInv'
    BY <2>1, <2>2, TasksStill
  <2>4. ShapeInv' /\ LockInv' /\ JobInv' /\ WakeInv'
    BY <2>1, <2>2 DEF RunnerInv, ShapeInv, LockInv, JobInv, WakeInv, Unlocked
  <2>5. QED
    BY <2>3, <2>4 DEF RunnerInv
<1>3. CASE Finished
  BY <1>2, <1>3 DEF Finished
<1>4. QED
  BY <1>1, <1>2, <1>3, StartKeeps, CallerKeeps, AddHelperKeeps, HelpEndKeeps DEF Next

-----------------------------------------------------------------------------
(* What the invariant says of the runner                                   *)

LEMMA InvHelpers ==
  ASSUME GraphsSound, \A g \in Graphs : RoomSound(g), RunnerInv PROVE HelpersSound
<1>1. NoSleepingOverWork
  <2>1. SUFFICES ASSUME Unlocked, waiting # {} PROVE ~HasReady
    BY DEF NoSleepingOverWork
  <2>2. Len(hi) + Len(lo) <= 0
    BY <2>1 DEF RunnerInv, WakeInv
  <2>3. CASE graph = 0
    BY <2>3 DEF RunnerInv, JobInv, HasReady
  <2>4. CASE graph # 0
    <3>1. hi \in Seq(Tasks(graph)) /\ lo \in Seq(Tasks(graph))
      BY <2>4 DEF RunnerInv, QueueInv, ShapeInv
    <3>2. Len(hi) \in Nat /\ Len(lo) \in Nat
      BY <3>1, LenProperties
    <3>3. Len(hi) = 0 /\ Len(lo) = 0
      BY <2>2, <3>2
    <3>4. QED
      BY <3>1, <3>3, EmptySeq DEF HasReady
  <2>5. QED
    BY <2>3, <2>4
<1>2. NoStrayHelper
  <2>1. pc[Caller] \in {"between", "ended"} => \A h \in Helpers : pc[h] = "idle"
    BY DEF RunnerInv, JobInv, Inside
  <2>2. Joining => slots = 0
    BY DEF Joining, RunnerInv, JobInv
  <2>3. helpers = Cardinality({h \in Helpers : pc[h] # "idle"})
    BY DEF RunnerInv, JobInv, Inside
  <2>4. helpers + slots <= nthreads - 1
    BY ThreadFacts DEF RunnerInv, JobInv
  <2>5. QED
    BY <2>1, <2>2, <2>3, <2>4 DEF NoStrayHelper
<1>3. QueuesFit
  <2>1. CASE graph = 0
    <3>1. Tasks(graph) = TrailTasks /\ IsFiniteSet(Tasks(2)) /\ Tasks(2) = TrailTasks
      BY <2>1 DEF Tasks, GraphsSound, GraphSound, Graphs
    <3>2. Total \in Nat
      BY <3>1, FS_CardinalityType DEF Total
    <3>3. Len(hi) = 0 /\ Len(lo) = 0
      BY <2>1 DEF RunnerInv, JobInv
    <3>4. QED
      BY <2>1, <3>2, <3>3 DEF QueuesFit
  <2>2. CASE graph # 0
    <3>1. graph \in Graphs /\ graph > 0
      BY <2>2 DEF RunnerInv, ShapeInv, Graphs
    <3>2. /\ hi \in Seq(Tasks(graph)) /\ lo \in Seq(Tasks(graph)) /\ IsInjective(hi) /\ IsInjective(lo)
          /\ ToSet(hi) \cap ToSet(lo) = {}
      BY <3>1 DEF RunnerInv, QueueInv
    <3>3. /\ IsFiniteSet(ToSet(hi)) /\ Cardinality(ToSet(hi)) = Len(hi) /\ Len(hi) \in Nat
          /\ IsFiniteSet(ToSet(lo)) /\ Cardinality(ToSet(lo)) = Len(lo) /\ Len(lo) \in Nat
      BY <3>2, DistinctLength, LenProperties
    <3>4. Cardinality(ToSet(hi) \cup ToSet(lo)) = Len(hi) + Len(lo) - 0
      <4>1. Cardinality(ToSet(hi) \cap ToSet(lo)) = 0
        BY <3>2, FS_EmptySet
      <4>2. QED
        BY <3>3, <4>1, FS_Union
    <3>5. ToSet(hi) \cup ToSet(lo) \subseteq Tasks(graph) /\ IsFiniteSet(Tasks(graph))
      <4>1. IsFiniteSet(Tasks(graph))
        BY <3>1 DEF GraphsSound, GraphSound
      <4>2. QED
        BY <3>2, <4>1, ElementOfSeq, LenProperties DEF ToSet
    <3>6. Cardinality(ToSet(hi) \cup ToSet(lo)) <= Total
      BY <3>5, FS_Subset DEF Total
    <3>7. Len(hi) + Len(lo) <= Total
      BY <3>3, <3>4, <3>6
    <3>8. Total = IF graph = 1 THEN MainRoom ELSE TrailRoom
      BY <3>1 DEF RoomSound, Total
    <3>9. QED
      BY <3>7, <3>8 DEF QueuesFit
  <2>3. QED
    BY <2>1, <2>2
<1>4. QED
  BY <1>1, <1>2, <1>3 DEF HelpersSound

LEMMA InvSerial ==
  ASSUME GraphsSound, \A g \in Graphs : OrderSound(g), RunnerInv PROVE SerialEquivalent
<1>1. pc[Caller] \in {"between", "joining", "joinwait", "ended"} /\ graph > 0 => finished = Tasks(graph)
  BY DEF RunnerInv, EndInv, Working
<1>2. ASSUME NEW t \in Executing
      PROVE  /\ task[t] \notin finished
             /\ \A s \in Conflicts[graph][task[t]] :
                  IF PlaceOf[graph][s] < PlaceOf[graph][task[t]] THEN s \in finished
                  ELSE s \notin finished /\ \A u \in Executing : task[u] # s
  <2>1. graph > 0 /\ graph \in Graphs
    <3>1. graph \in 0..2
      BY DEF RunnerInv, ShapeInv
    <3>2. ASSUME graph = 0 PROVE FALSE
      <4>1. pc[Caller] = "between" /\ Inside = {}
        BY <3>2 DEF RunnerInv, JobInv
      <4>2. pc[t] \in {"between", "idle"}
        BY <1>2, <4>1, ThreadFacts DEF Inside, Executing
      <4>3. QED
        BY <1>2, <4>2 DEF Executing
    <3>3. QED
      BY <3>1, <3>2 DEF Graphs
  <2>2. /\ \A u \in Executing : task[u] \in Tasks(graph) \ (finished \cup Ready)
        /\ \A u \in Executing : Preds(graph, task[u]) \subseteq finished
        /\ finished \in SUBSET Tasks(graph) /\ Closed(graph, finished)
    BY <2>1 DEF RunnerInv, ExecInv, QueueInv, Closed
  <2>3. ASSUME NEW s \in Conflicts[graph][task[t]]
        PROVE  IF PlaceOf[graph][s] < PlaceOf[graph][task[t]] THEN s \in finished
               ELSE s \notin finished /\ \A u \in Executing : task[u] # s
    <3>1. \/ PlaceOf[graph][s] < PlaceOf[graph][task[t]] /\ Before(graph, s, task[t])
          \/ PlaceOf[graph][task[t]] < PlaceOf[graph][s] /\ Before(graph, task[t], s)
      BY <1>2, <2>1, <2>2, <2>3 DEF OrderSound
    <3>2. Before(graph, s, task[t]) => s \in finished
      BY <1>2, <2>2 DEF Before
    <3>3. ASSUME Before(graph, task[t], s) PROVE s \notin finished /\ \A u \in Executing : task[u] # s
      <4>1. task[t] \notin finished
        BY <1>2, <2>2
      <4>2. ~(Preds(graph, s) \subseteq finished)
        BY <2>2, <3>3, <4>1 DEF Before
      <4>3. QED
        BY <2>2, <4>2 DEF Closed
    <3>4. PlaceOf[graph][s] \in Int /\ PlaceOf[graph][task[t]] \in Int
      BY <1>2, <2>1, <2>2, <2>3 DEF OrderSound
    <3>5. QED
      BY <3>1, <3>2, <3>3, <3>4
  <2>4. QED
    BY <1>2, <2>2, <2>3
<1>3. QED
  BY <1>1, <1>2 DEF SerialEquivalent

-----------------------------------------------------------------------------
(* The grid: how tri numbers its tiles                                     *)

LEMMA GridFacts ==
  /\ K \in Nat /\ K >= 1 /\ NR \in Nat /\ K <= NR /\ NR >= 1
  /\ K * NR \in Nat /\ baseA = 2 * K /\ baseU = baseA + K * NR
  /\ baseA \in Nat /\ baseU \in Nat /\ KT = NR - K /\ KT \in Nat
<1>1. K \in Nat /\ K >= 1 /\ NR \in Nat /\ K <= NR
  BY GridAssumption
<1>2. K * NR \in Nat
  BY <1>1
<1>3. QED
  BY <1>1, <1>2 DEF baseA, baseU, KT

LEMMA TriStep ==
  /\ tri(0) = 0 /\ TU = tri(K)
  /\ \A j \in Nat : tri(j) \in Int /\ tri(j + 1) = tri(j) + (NR - j)
<1>1. ASSUME NEW j \in Nat PROVE tri(j) \in Int /\ tri(j + 1) = tri(j) + (NR - j)
  <2> DEFINE h == (j * (j - 1)) \div 2
  <2>1. ((j + 1) * j) \div 2 = h + j /\ h \in Int
    OBVIOUS
  <2>2. (j + 1) * NR = j * NR + NR /\ j * NR \in Int
    BY GridFacts
  <2>3. tri(j) = j * NR - h
    BY DEF tri
  <2>4. tri(j + 1) = (j + 1) * NR - ((j + 1) * j) \div 2
    <3>1. (j + 1) - 1 = j
      OBVIOUS
    <3>2. QED
      BY <3>1 DEF tri
  <2> HIDE DEF h
  <2>5. QED
    BY <2>1, <2>2, <2>3, <2>4, GridFacts
<1>2. tri(0) = 0
  BY GridFacts DEF tri
<1>3. TU = tri(K)
  BY DEF TU, tri
<1>4. QED
  BY <1>1, <1>2, <1>3

\* A block column's run of tiles ends before the next one's begins.
LEMMA TriMonotone ==
  \A a, b \in 0..K : /\ tri(a) \in Nat
                     /\ a < b => tri(a) + (NR - a) <= tri(b)
<1> DEFINE P == {b \in Nat : b <= K => /\ tri(b) \in Nat
                                       /\ \A a \in 0..b : a < b => tri(a) + (NR - a) <= tri(b)}
<1>1. 0 \in P
  BY TriStep
<1>2. ASSUME NEW b \in P PROVE b + 1 \in P
  <2>1. SUFFICES ASSUME b + 1 <= K
                 PROVE  /\ tri(b + 1) \in Nat
                        /\ \A a \in 0..(b + 1) : a < b + 1 => tri(a) + (NR - a) <= tri(b + 1)
    BY <1>2
  <2>2. /\ b \in Nat /\ b <= K /\ tri(b) \in Nat
        /\ \A a \in 0..b : a < b => tri(a) + (NR - a) <= tri(b)
    BY <1>2, <2>1, GridFacts
  <2>3. tri(b + 1) = tri(b) + (NR - b) /\ NR - b \in Nat
    BY <2>1, <2>2, TriStep, GridFacts
  <2>4. tri(b) <= tri(b + 1) /\ tri(b + 1) \in Nat
    BY <2>2, <2>3
  <2>5. ASSUME NEW a \in 0..(b + 1), a < b + 1 PROVE tri(a) + (NR - a) <= tri(b + 1)
    <3>1. CASE a = b
      BY <2>3, <2>4, <3>1
    <3>2. CASE a # b
      <4>1. a \in 0..b /\ a < b
        BY <2>2, <2>5, <3>2
      <4>2. tri(a) + (NR - a) <= tri(b) /\ tri(a) \in Int
        BY <2>2, <4>1, TriStep
      <4>3. QED
        BY <2>2, <2>4, <4>2, GridFacts
    <3>3. QED
      BY <3>1, <3>2
  <2>6. QED
    BY <2>4, <2>5
<1>3. \A b \in Nat : b \in P
  <2> HIDE DEF P
  <2>1. P \in SUBSET Nat
    BY DEF P
  <2>2. QED
    BY <1>1, <1>2, <2>1, Upwards
<1>4. QED
  <2>1. SUFFICES ASSUME NEW a \in 0..K, NEW b \in 0..K
                 PROVE  tri(a) \in Nat /\ (a < b => tri(a) + (NR - a) <= tri(b))
    OBVIOUS
  <2>2. a \in P /\ b \in P /\ a <= K /\ b <= K
    BY <1>3, <2>1, GridFacts
  <2>3. QED
    BY <2>1, <2>2

LEMMA TUFacts == TU \in Nat /\ TU >= 1 /\ \A j \in 0..K : tri(j) <= TU
<1>1. tri(0) + (NR - 0) <= tri(K) /\ tri(K) \in Nat
  BY TriMonotone, GridFacts
<1>2. \A j \in 0..K : tri(j) <= tri(K)
  <2>1. SUFFICES ASSUME NEW j \in 0..K, j # K PROVE tri(j) <= tri(K)
    BY <1>1
  <2>2. tri(j) + (NR - j) <= tri(K) /\ tri(j) \in Nat /\ NR - j \in Nat
    BY <2>1, TriMonotone, GridFacts
  <2>3. QED
    BY <1>1, <2>2
<1>3. QED
  BY <1>1, <1>2, TriStep, GridFacts

Off(i, j) == tri(j) + (i - j)

LEMMA TileOffset ==
  ASSUME NEW j \in 0..(K - 1), NEW i \in j..(NR - 1)
  PROVE  Off(i, j) \in 0..(TU - 1) /\ tri(j) <= Off(i, j) /\ Off(i, j) < tri(j + 1)
<1>1. j \in 0..K /\ j + 1 \in 0..K /\ j \in Nat /\ tri(j) \in Nat /\ tri(j + 1) <= TU
  BY GridFacts, TriMonotone, TUFacts
<1>2. tri(j + 1) = tri(j) + (NR - j) /\ i - j \in Nat /\ i - j < NR - j
  BY <1>1, TriStep, GridFacts
<1>3. tri(j + 1) \in Int
  BY <1>1, <1>2, GridFacts
<1>4. QED
  BY <1>1, <1>2, <1>3, TUFacts, GridFacts DEF Off

LEMMA TileUnique ==
  ASSUME NEW j \in 0..(K - 1), NEW i \in j..(NR - 1),
         NEW b \in 0..(K - 1), NEW a \in b..(NR - 1), Off(i, j) = Off(a, b)
  PROVE  i = a /\ j = b
<1>1. ASSUME NEW x \in 0..(K - 1), NEW y \in 0..(K - 1), x < y,
             NEW p \in x..(NR - 1), NEW q \in y..(NR - 1) PROVE Off(p, x) < Off(q, y)
  <2>1. x \in 0..K /\ y \in 0..K /\ x \in Nat
    BY GridFacts
  <2>2. /\ tri(x) + (NR - x) <= tri(y) /\ tri(x) \in Nat /\ tri(y) \in Nat
    BY <1>1, <2>1, TriMonotone
  <2>3. tri(y) <= Off(q, y) /\ Off(q, y) \in Int /\ p - x < NR - x /\ p - x \in Int
    BY TileOffset, TUFacts, GridFacts
  <2>4. QED
    BY <2>2, <2>3, GridFacts DEF Off
<1>2. Off(i, j) \in Int /\ Off(a, b) \in Int
  BY TileOffset, TUFacts
<1>3. ~(j < b) /\ ~(b < j)
  BY <1>1, <1>2
<1>4. j = b
  BY <1>3
<1>5. tri(j) \in Int /\ tri(j) + (i - j) = tri(j) + (a - j)
  <2>1. j \in Nat
    OBVIOUS
  <2>2. QED
    BY <1>4, <2>1, TriStep DEF Off
<1>6. QED
  BY <1>4, <1>5

LEMMA TileFound ==
  ASSUME NEW o \in 0..(TU - 1)
  PROVE  \E j \in 0..(K - 1) : \E i \in j..(NR - 1) : o = Off(i, j)
<1> DEFINE P == {m \in Nat : m <= K /\ o < tri(m) => \E j \in 0..(K - 1) : \E i \in j..(NR - 1) : o = Off(i, j)}
<1>1. 0 \in P
  BY TriStep
<1>2. ASSUME NEW m \in P PROVE m + 1 \in P
  <2>1. SUFFICES ASSUME m + 1 <= K, o < tri(m + 1)
                 PROVE  \E j \in 0..(K - 1) : \E i \in j..(NR - 1) : o = Off(i, j)
    BY <1>2
  <2>2. CASE o < tri(m)
    BY <1>2, <2>1, <2>2, GridFacts
  <2>3. CASE ~(o < tri(m))
    <3>1. m \in 0..(K - 1) /\ m \in Nat
      BY <2>1, GridFacts
    <3>2. tri(m) \in Int /\ tri(m + 1) = tri(m) + (NR - m)
      BY <3>1, TriStep
    <3> DEFINE i == m + (o - tri(m))
    <3>3. i \in m..(NR - 1) /\ o = tri(m) + (i - m)
      BY <2>1, <2>3, <3>1, <3>2, GridFacts, TUFacts
    <3> HIDE DEF i
    <3>4. QED
      BY <3>1, <3>3 DEF Off
  <2>4. QED
    BY <2>2, <2>3
<1>3. \A m \in Nat : m \in P
  <2> HIDE DEF P
  <2>1. P \in SUBSET Nat
    BY DEF P
  <2>2. QED
    BY <1>1, <1>2, <2>1, Upwards
<1>4. K \in P /\ o < tri(K)
  BY <1>3, TriStep, TUFacts, GridFacts
<1>5. QED
  BY <1>4, GridFacts

\* Quotient and remainder of a number written in a base.
LEMMA Digits ==
  ASSUME NEW b \in Nat, b >= 1, NEW k \in Nat, NEW r \in 0..(b - 1)
  PROVE  (k * b + r) % b = r /\ (k * b + r) \div b = k
OBVIOUS

\* Larger leading digit, larger number.
LEMMA DigitsOrder ==
  ASSUME NEW b \in Nat, NEW k \in Nat, NEW m \in Nat, k < m, NEW r \in 0..(b - 1)
  PROVE  k * b + r < m * b /\ k * b + r \in Nat /\ m * b \in Nat
<1>1. k * b \in Nat /\ m * b \in Nat /\ (k + 1) * b = k * b + b
  OBVIOUS
<1>2. (m - (k + 1)) * b >= 0
  BY m - (k + 1) \in Nat
<1>3. (m - (k + 1)) * b = m * b - (k + 1) * b
  OBVIOUS
<1>4. QED
  BY <1>1, <1>2, <1>3

-----------------------------------------------------------------------------
(* Task ids and what execute() decodes them to                             *)

\* The ranges of the four kinds of tasks.
LEMMA IdRanges ==
  /\ \A k \in 0..(K - 1) : idF(k) \in 0..(K - 1) /\ idR(k) \in K..(2 * K - 1)
  /\ \A k \in 0..(K - 1) : \A i \in 0..(NR - 1) :
       idA(i, k) \in baseA..(baseU - 1) /\ (idA(i, k) - baseA) \div NR = k
       /\ idA(i, k) - baseA = k * NR + i
  /\ \A k \in Nat : \A j \in 0..(K - 1) : \A i \in j..(NR - 1) :
       idU(i, j, k) \in Nat /\ idU(i, j, k) >= baseU
       /\ (idU(i, j, k) - baseU) % TU = Off(i, j) /\ (idU(i, j, k) - baseU) \div TU = k
<1>1. ASSUME NEW k \in 0..(K - 1) PROVE idF(k) \in 0..(K - 1) /\ idR(k) \in K..(2 * K - 1)
  BY GridFacts DEF idF, idR
<1>2. ASSUME NEW k \in 0..(K - 1), NEW i \in 0..(NR - 1)
      PROVE  idA(i, k) \in baseA..(baseU - 1) /\ (idA(i, k) - baseA) \div NR = k
             /\ idA(i, k) - baseA = k * NR + i
  <2>1. k \in Nat /\ k < K
    BY GridFacts
  <2>2. k * NR + i < K * NR /\ k * NR + i \in Nat /\ k * NR \in Nat
    BY <2>1, DigitsOrder, GridFacts
  <2>3. (k * NR + i) \div NR = k
    BY <2>1, Digits, GridFacts
  <2> DEFINE x == k * NR
             t == idA(i, k)
  <2>4. t = baseA + x + i /\ x \in Nat /\ x + i < K * NR /\ (x + i) \div NR = k
    BY <2>2, <2>3 DEF idA
  <2> HIDE DEF x, t
  <2>5. t - baseA = x + i /\ t \in baseA..(baseU - 1)
    BY <2>4, GridFacts
  <2>6. (t - baseA) \div NR = k
    BY <2>4, <2>5
  <2>7. QED
    BY <2>5, <2>6 DEF t, x
<1>3. ASSUME NEW k \in Nat, NEW j \in 0..(K - 1), NEW i \in j..(NR - 1)
      PROVE  idU(i, j, k) \in Nat /\ idU(i, j, k) >= baseU
             /\ (idU(i, j, k) - baseU) % TU = Off(i, j) /\ (idU(i, j, k) - baseU) \div TU = k
  <2> DEFINE x == k * TU
             r == Off(i, j)
  <2>1. r \in 0..(TU - 1) /\ x \in Nat
    BY TileOffset, TUFacts
  <2>2. (x + r) % TU = r /\ (x + r) \div TU = k
    BY <2>1, Digits, TUFacts
  <2>3. idU(i, j, k) = baseU + x + r
    <3>1. tri(j) \in Int
      BY TriStep
    <3>2. baseU + x + (tri(j) + (i - j)) = baseU + x + tri(j) + (i - j)
      BY <2>1, <3>1, GridFacts
    <3>3. QED
      BY <3>2 DEF idU, Off
  <2> DEFINE t == idU(i, j, k)
  <2>4. t = baseU + x + r
    BY <2>3
  <2> HIDE DEF x, r, t
  <2>5. t - baseU = x + r /\ t \in Nat /\ t >= baseU
    BY <2>1, <2>4, GridFacts, TUFacts
  <2>6. (t - baseU) % TU = r /\ (t - baseU) \div TU = k
    BY <2>2, <2>5
  <2>7. QED
    BY <2>5, <2>6 DEF t, r
<1>4. QED
  BY <1>1, <1>2, <1>3

LEMMA DecodeTile ==
  ASSUME NEW k \in Nat, NEW j \in 0..(K - 1), NEW i \in j..(NR - 1)
  PROVE  UTile(idU(i, j, k)) = <<i, j>> /\ UCol(idU(i, j, k)) = k
<1> DEFINE t == idU(i, j, k)
<1>1. (t - baseU) % TU = Off(i, j) /\ (t - baseU) \div TU = k
  BY IdRanges
<1> HIDE DEF t
<1> DEFINE Is(c) == c \in Tiles /\ tri(c[2]) + (c[1] - c[2]) = (t - baseU) % TU
<1>2. Is(<<i, j>>)
  BY <1>1, GridFacts DEF Tiles, Off
<1>3. ASSUME NEW c, Is(c) PROVE c = <<i, j>>
  <2>1. /\ c \in (0..(NR - 1)) \X (0..(K - 1)) /\ c[1] >= c[2]
        /\ tri(c[2]) + (c[1] - c[2]) = Off(i, j)
    BY <1>1, <1>3 DEF Tiles
  <2>2. PICK a \in 0..(NR - 1), b \in 0..(K - 1) : c = <<a, b>>
    BY <2>1
  <2>3. a >= b /\ Off(a, b) = Off(i, j)
    BY <2>1, <2>2 DEF Off
  <2>4. a \in b..(NR - 1)
    BY <2>2, <2>3, GridFacts
  <2>5. i = a /\ j = b
    BY <2>2, <2>3, <2>4, TileUnique
  <2>6. QED
    BY <2>2, <2>5
<1>4. UTile(t) = CHOOSE c : Is(c)
  BY DEF UTile
<1>5. UTile(t) = <<i, j>>
  <2> HIDE DEF Is
  <2>1. QED
    BY <1>2, <1>3, <1>4
<1>6. QED
  BY <1>1, <1>5 DEF UCol, t

LEMMA DecodeIds ==
  /\ \A k \in 0..(K - 1) : Decode(idF(k)) = [op |-> "Factor", i |-> k, j |-> k, k |-> k]
  /\ \A k \in 0..(K - 1) : Decode(idR(k)) = [op |-> "Finish", i |-> k, j |-> k, k |-> k]
  /\ \A k \in 0..(K - 1) : \A i \in 0..(NR - 1) :
       Decode(idA(i, k)) = [op |-> "ApplyN", i |-> i, j |-> k, k |-> k]
  /\ \A k \in 0..(K - 1) : \A j \in 0..(K - 1) : \A i \in j..(NR - 1) :
       Decode(idU(i, j, k)) = [op |-> "Update", i |-> i, j |-> j, k |-> k]
<1>1. ASSUME NEW k \in 0..(K - 1)
      PROVE  Decode(idF(k)) = [op |-> "Factor", i |-> k, j |-> k, k |-> k]
  <2>1. idF(k) = k /\ k < K
    BY GridFacts DEF idF
  <2>2. k \notin K..(2 * K - 1) /\ k \notin baseA..(baseU - 1)
    BY <2>1, GridFacts
  <2>3. QED
    BY <2>1, <2>2 DEF Decode
<1>2. ASSUME NEW k \in 0..(K - 1)
      PROVE  Decode(idR(k)) = [op |-> "Finish", i |-> k, j |-> k, k |-> k]
  <2> DEFINE t == idR(k)
  <2>1. t = K + k /\ t \in K..(2 * K - 1) /\ ~(t < K) /\ t \notin baseA..(baseU - 1) /\ t - K = k
    BY GridFacts DEF idR
  <2> HIDE DEF t
  <2>2. QED
    BY <2>1 DEF Decode, t
<1>3. ASSUME NEW k \in 0..(K - 1), NEW i \in 0..(NR - 1)
      PROVE  Decode(idA(i, k)) = [op |-> "ApplyN", i |-> i, j |-> k, k |-> k]
  <2> DEFINE t == idA(i, k)
             x == k * NR
  <2>1. /\ t \in baseA..(baseU - 1) /\ (t - baseA) \div NR = k /\ t - baseA = x + i
        /\ x \in Nat
    BY IdRanges, GridFacts
  <2>2. ~(t < K) /\ t \notin K..(2 * K - 1)
    BY <2>1, GridFacts
  <2>3. (x + i) - x = i
    BY <2>1, GridFacts
  <2>4. (t - baseA) - ((t - baseA) \div NR) * NR = i
    BY <2>1, <2>3
  <2> HIDE DEF t, x
  <2>5. QED
    BY <2>1, <2>2, <2>4 DEF Decode, t
<1>4. ASSUME NEW k \in 0..(K - 1), NEW j \in 0..(K - 1), NEW i \in j..(NR - 1)
      PROVE  Decode(idU(i, j, k)) = [op |-> "Update", i |-> i, j |-> j, k |-> k]
  <2> DEFINE t == idU(i, j, k)
  <2>1. t \in Nat /\ t >= baseU
    BY IdRanges, GridFacts
  <2>2. UTile(t) = <<i, j>> /\ UCol(t) = k
    BY DecodeTile, GridFacts
  <2> HIDE DEF t
  <2>3. ~(t < K) /\ t \notin K..(2 * K - 1) /\ t \notin baseA..(baseU - 1)
    BY <2>1, GridFacts
  <2>4. QED
    BY <2>2, <2>3 DEF Decode, t
<1>5. QED
  BY <1>1, <1>2, <1>3, <1>4

\* The joined prefixes of a sequence of sequences.
Joined(s) == CHOOSE f : f = [i \in 1..Len(s) |-> IF i = 1 THEN s[i] ELSE f[i - 1] \o s[i]]

LEMMA JoinedSteps ==
  ASSUME NEW n \in Nat \ {0}, NEW s, Len(s) = n
  PROVE  \A i \in 1..n : Joined(s)[i] = IF i = 1 THEN s[i] ELSE Joined(s)[i - 1] \o s[i]
<1> DEFINE Step(f, i) == IF i = 1 THEN s[i] ELSE f[i - 1] \o s[i]
           flat == Joined(s)
           Has(m) == \E f : f = [i \in 1..m |-> Step(f, i)]
<1>2. Has(0)
  <2> DEFINE e == [i \in 1..0 |-> 0]
             g == [i \in 1..0 |-> Step(e, i)]
  <2>1. DOMAIN e = {} /\ DOMAIN g = {}
    OBVIOUS
  <2>2. e = [i \in 1..0 |-> e[i]] /\ g = [i \in 1..0 |-> g[i]]
    OBVIOUS
  <2>3. \A i \in 1..0 : e[i] = g[i]
    OBVIOUS
  <2> HIDE DEF e, g
  <2>4. e = g
    BY <2>2, <2>3
  <2>5. QED
    BY <2>4 DEF g
<1>3. ASSUME NEW m \in Nat, Has(m) PROVE Has(m + 1)
  <2>1. PICK f : f = [i \in 1..m |-> Step(f, i)]
    BY <1>3, Zenon
  <2> DEFINE h == [i \in 1..(m + 1) |-> IF i <= m THEN f[i] ELSE Step(f, i)]
  <2>2. \A i \in 1..m : h[i] = f[i] /\ f[i] = Step(f, i)
    <3>1. \A i \in 1..m : h[i] = f[i]
      OBVIOUS
    <3>2. \A i \in 1..m : f[i] = Step(f, i)
      BY <2>1, Zenon
    <3>3. QED
      BY <3>1, <3>2, Zenon
  <2>3. \A i \in 1..(m + 1) : h[i] = Step(h, i)
    <3>1. SUFFICES ASSUME NEW i \in 1..(m + 1) PROVE h[i] = Step(h, i)
      OBVIOUS
    <3>2. h[i] = Step(f, i)
      <4>1. CASE i <= m
        <5>1. i \in 1..m /\ h[i] = f[i]
          BY <4>1
        <5> HIDE DEF h
        <5>2. QED
          BY <2>2, <5>1, Zenon
      <4>2. CASE ~(i <= m)
        BY <4>2
      <4>3. QED
        BY <4>1, <4>2
    <3>3. Step(h, i) = Step(f, i)
      <4>1. CASE i = 1
        BY <4>1
      <4>2. CASE i # 1
        <5>1. i - 1 \in 1..m
          BY <4>2
        <5>2. h[i - 1] = f[i - 1]
          BY <2>2, <5>1
        <5>3. QED
          BY <5>2
      <4>3. QED
        BY <4>1, <4>2
    <3>4. QED
      BY <3>2, <3>3
  <2>4. h = [i \in 1..(m + 1) |-> Step(h, i)]
    <3> DEFINE k == [i \in 1..(m + 1) |-> Step(h, i)]
    <3>1. \A i \in 1..(m + 1) : k[i] = Step(h, i)
      OBVIOUS
    <3>2. h = [i \in 1..(m + 1) |-> h[i]] /\ k = [i \in 1..(m + 1) |-> k[i]]
      OBVIOUS
    <3>3. \A i \in 1..(m + 1) : h[i] = k[i]
      BY <2>3, <3>1
    <3> HIDE DEF h, k
    <3>4. h = k
      BY <3>2, <3>3
    <3>5. QED
      BY <3>4 DEF k
  <2>5. QED
    BY <2>4
<1>4. Has(n)
  <2> DEFINE P == {m \in Nat : Has(m)}
  <2>1. \A m \in Nat : m \in P
    <3> HIDE DEF Has
    <3>1. 0 \in P /\ \A m \in P : m + 1 \in P
      BY <1>2, <1>3
    <3> HIDE DEF P
    <3>2. P \in SUBSET Nat
      BY DEF P
    <3>3. QED
      BY <3>1, <3>2, Upwards
  <2>2. QED
    BY <2>1
<1>5. flat = [i \in 1..n |-> Step(flat, i)]
  BY <1>4 DEF Joined
<1> HIDE DEF flat
<1>6. \A i \in 1..n : flat[i] = Step(flat, i)
  BY <1>5, Zenon
<1>7. QED
  BY <1>6, Zenon DEF flat

LEMMA FlattenJoined ==
  ASSUME NEW n \in Nat \ {0}, NEW s, Len(s) = n
  PROVE  FlattenSeq(s) = Joined(s)[n]
BY DEF FlattenSeq, Joined

\* Runs of consecutive numbers, each from where the one before it ends, are
\* one run when joined.
LEMMA FlattenRuns ==
  ASSUME NEW n \in Nat, NEW b \in [0..n -> Int], \A x \in 1..n : b[x - 1] <= b[x]
  PROVE  FlattenSeq([x \in 1..n |-> [y \in 1..(b[x] - b[x - 1]) |-> b[x - 1] + y - 1]])
           = [y \in 1..(b[n] - b[0]) |-> b[0] + y - 1]
<1> DEFINE r    == [x \in 1..n |-> [y \in 1..(b[x] - b[x - 1]) |-> b[x - 1] + y - 1]]
           Run(m) == [y \in 1..(b[m] - b[0]) |-> b[0] + y - 1]
<1>1. \A x \in 0..n : b[x] \in Int
  OBVIOUS
<1>2. ASSUME NEW x \in 1..n
      PROVE  /\ r[x] \in Seq(Int) /\ Len(r[x]) = b[x] - b[x - 1] /\ b[x] - b[x - 1] \in Nat
             /\ \A y \in 1..(b[x] - b[x - 1]) : r[x][y] = b[x - 1] + y - 1
  <2> DEFINE first == b[x - 1]
             c  == b[x] - b[x - 1]
             q  == [y \in 1..c |-> first + y - 1]
  <2>1. x - 1 \in 0..n /\ x \in 0..n /\ first \in Int /\ c \in Nat
    BY <1>1
  <2>2. r[x] = q
    OBVIOUS
  <2> HIDE DEF first, c, r
  <2>3. q \in [1..c -> Int]
    BY <2>1
  <2>4. q \in Seq(Int) /\ Len(q) = c /\ \A y \in 1..c : q[y] = first + y - 1
    BY <2>1, <2>3, IsASeq, LenProperties
  <2>5. QED
    BY <2>1, <2>2, <2>4 DEF first, c
<1>3. Len(r) = n /\ r \in Seq(Seq(Int))
  <2>1. \A x \in 1..n : r[x] \in Seq(Int)
    BY <1>2
  <2>2. r \in [1..n -> Seq(Int)]
    <3>1. r = [x \in 1..n |-> r[x]]
      OBVIOUS
    <3> HIDE DEF r
    <3>2. QED
      BY <2>1, <3>1
  <2> HIDE DEF r
  <2>3. QED
    BY <2>2, IsASeq, LenProperties
<1>4. CASE n = 0
  <2>1. Len(r) = 0 /\ FlattenSeq(r) = r
    BY <1>3, <1>4 DEF FlattenSeq
  <2>2. b[n] - b[0] = 0
    BY <1>1, <1>4
  <2>3. r = <<>> /\ Run(n) = <<>>
    BY <1>4, <2>2
  <2>4. QED
    BY <2>1, <2>3
<1>5. CASE n # 0
  <2> DEFINE flat == Joined(r)
  <2>1. n \in Nat \ {0} /\ Len(r) = n
    BY <1>3, <1>5
  <2>2. FlattenSeq(r) = flat[n]
    <3> HIDE DEF r
    <3>1. QED
      BY <2>1, FlattenJoined
  <2>3. \A i \in 1..n : flat[i] = IF i = 1 THEN r[i] ELSE flat[i - 1] \o r[i]
    <3> HIDE DEF r
    <3>1. QED
      BY <2>1, JoinedSteps, Zenon
  <2> HIDE DEF r, flat
  <2> DEFINE Good(m) == b[0] <= b[m] /\ flat[m] = Run(m)
  <2>7. Good(1)
    <3>1. 1 \in 1..n /\ 1 - 1 = 0
      BY <1>5
    <3>2. r[1] = Run(1)
      BY <3>1 DEF r
    <3>3. b[0] <= b[1]
      BY <3>1
    <3>4. flat[1] = r[1]
      BY <2>3, <3>1, Zenon
    <3>5. QED
      BY <3>2, <3>3, <3>4
  <2>8. ASSUME NEW m \in Nat, m >= 1, m + 1 <= n, Good(m) PROVE Good(m + 1)
    <3> DEFINE c == b[m] - b[0]
               d == b[m + 1] - b[m]
               p == flat[m]
               q == r[m + 1]
               s == flat[m + 1]
               o == b[0]
    <3>1. m \in 0..n /\ m + 1 \in 1..n /\ m + 1 \in 0..n /\ (m + 1) - 1 = m /\ 0 \in 0..n
      BY <2>8
    <3>2. o \in Int /\ b[m] \in Int /\ b[m + 1] \in Int /\ b[m] <= b[m + 1] /\ o <= b[m]
      BY <1>1, <2>8, <3>1
    <3>3. s = p \o q
      <4>1. m + 1 \in 1..n /\ m + 1 # 1
        BY <2>8
      <4>2. flat[m + 1] = flat[(m + 1) - 1] \o r[m + 1]
        BY <2>3, <4>1, Zenon
      <4>3. QED
        BY <3>1, <4>2, Zenon
    <3>4. q \in Seq(Int) /\ Len(q) = d /\ d \in Nat /\ \A y \in 1..d : q[y] = b[m] + y - 1
      BY <1>2, <3>1
    <3>5. c \in Nat /\ p = [y \in 1..c |-> o + y - 1]
      BY <2>8, <3>2
    <3> DEFINE bm == b[m]
    <3>6. bm = o + c /\ b[m + 1] - o = c + d
      BY <3>2
    <3>7. \A y \in 1..d : q[y] = bm + y - 1
      BY <3>4
    <3> HIDE DEF c, d, p, q, s, o, bm
    <3>8. p \in Seq(Int) /\ Len(p) = c /\ \A y \in 1..c : p[y] = o + y - 1
      <4>1. o \in Int
        BY <3>2
      <4>2. p \in [1..c -> Int]
        BY <3>5, <4>1
      <4>3. QED
        BY <3>5, <4>2, IsASeq, LenProperties
    <3>9. /\ s \in Seq(Int) /\ Len(s) = c + d
          /\ \A y \in 1..(c + d) : s[y] = IF y <= c THEN p[y] ELSE q[y - c]
      BY <3>3, <3>4, <3>8, ConcatProperties, SMTT(30)
    <3>10. \A y \in 1..(c + d) : s[y] = o + y - 1
      <4>1. SUFFICES ASSUME NEW y \in 1..(c + d) PROVE s[y] = o + y - 1
        OBVIOUS
      <4>2. CASE y <= c
        <5>1. y \in 1..c
          BY <3>4, <3>5, <4>2
        <5>2. QED
          BY <3>8, <3>9, <4>2, <5>1
      <4>3. CASE ~(y <= c)
        <5> DEFINE z == y - c
        <5>1. z \in 1..d
          BY <3>4, <3>5, <4>3
        <5>2. s[y] = q[z]
          BY <3>9, <4>3
        <5> HIDE DEF z
        <5>3. q[z] = bm + z - 1
          BY <3>7, <5>1
        <5>4. bm + z - 1 = o + y - 1
          <6>1. z = y - c
            BY DEF z
          <6>2. QED
            BY <3>2, <3>4, <3>5, <3>6, <6>1
        <5>5. QED
          BY <5>2, <5>3, <5>4
      <4>4. QED
        BY <4>2, <4>3
    <3>11. s = [y \in 1..(c + d) |-> o + y - 1]
      <4>1. s = [y \in 1..(c + d) |-> s[y]]
        BY <3>9, LenProperties
      <4>2. QED
        BY <3>10, <4>1
    <3>12. s = Run(m + 1)
      BY <3>6, <3>11 DEF o
    <3>13. b[0] <= b[m + 1]
      BY <3>2 DEF o
    <3>14. QED
      BY <3>12, <3>13 DEF s
  <2>9. Good(n)
    <3> DEFINE P == {m \in Nat : m >= 1 /\ m <= n => Good(m)}
    <3>1. \A m \in Nat : m \in P
      <4> HIDE DEF Good
      <4>1. 0 \in P
        OBVIOUS
      <4>2. ASSUME NEW m \in P PROVE m + 1 \in P
        <5>1. m \in Nat
          OBVIOUS
        <5>2. CASE m = 0
          BY <2>7, <5>2
        <5>3. CASE m # 0
          BY <2>8, <5>1, <5>3
        <5>4. QED
          BY <5>2, <5>3
      <4> HIDE DEF P
      <4>3. P \in SUBSET Nat
        BY DEF P
      <4>4. QED
        BY <4>1, <4>2, <4>3, Upwards
    <3>2. n \in P
      BY <3>1
    <3> HIDE DEF Good
    <3>3. QED
      BY <1>5, <3>2
  <2>10. QED
    BY <2>2, <2>9 DEF r
<1>6. QED
  BY <1>4, <1>5

-----------------------------------------------------------------------------
(* The tasks of the main graph as records                                  *)

\* What a task of the main graph is.
IsF(t, k)       == k \in 0..(K - 1) /\ t = idF(k) /\ Decode(t) = [op |-> "Factor", i |-> k, j |-> k, k |-> k]
IsR(t, k)       == k \in 0..(K - 1) /\ t = idR(k) /\ Decode(t) = [op |-> "Finish", i |-> k, j |-> k, k |-> k]
IsA(t, i, k)    == /\ k \in 0..(K - 1) /\ i \in (k + 1)..(NR - 1) /\ t = idA(i, k)
                   /\ Decode(t) = [op |-> "ApplyN", i |-> i, j |-> k, k |-> k]
IsU(t, i, j, k) == /\ k \in 0..(K - 1) /\ j \in (k + 1)..(K - 1) /\ i \in j..(NR - 1)
                   /\ t = idU(i, j, k) /\ Decode(t) = [op |-> "Update", i |-> i, j |-> j, k |-> k]

LEMMA MainMembers ==
  /\ \A k \in 0..(K - 1) : idF(k) \in MainTasks /\ IsF(idF(k), k)
  /\ \A k \in 0..(K - 1) : idR(k) \in MainTasks /\ IsR(idR(k), k)
  /\ \A k \in 0..(K - 1) : \A i \in (k + 1)..(NR - 1) :
       idA(i, k) \in MainTasks /\ IsA(idA(i, k), i, k)
  /\ \A k \in 0..(K - 1) : \A j \in (k + 1)..(K - 1) : \A i \in j..(NR - 1) :
       idU(i, j, k) \in MainTasks /\ IsU(idU(i, j, k), i, j, k)
<1>1. ASSUME NEW k \in 0..(K - 1) PROVE idF(k) \in MainTasks /\ IsF(idF(k), k)
  BY DecodeIds DEF MainTasks, IsF
<1>2. ASSUME NEW k \in 0..(K - 1) PROVE idR(k) \in MainTasks /\ IsR(idR(k), k)
  BY DecodeIds DEF MainTasks, IsR
<1>3. ASSUME NEW k \in 0..(K - 1), NEW i \in (k + 1)..(NR - 1)
      PROVE  idA(i, k) \in MainTasks /\ IsA(idA(i, k), i, k)
  <2>1. i \in 0..(NR - 1) /\ i > k
    BY GridFacts
  <2> DEFINE S == {y \in (0..NR-1) \X (0..K-1) : y[1] > y[2]}
             x == <<i, k>>
  <2>2. x \in S /\ idA(x[1], x[2]) = idA(i, k)
    BY <2>1
  <2>3. idA(i, k) \in {idA(y[1], y[2]) : y \in S}
    BY <2>2
  <2>4. idA(i, k) \in MainTasks
    BY <2>3 DEF MainTasks
  <2>5. QED
    BY <2>1, <2>4, DecodeIds DEF IsA
<1>4. ASSUME NEW k \in 0..(K - 1), NEW j \in (k + 1)..(K - 1), NEW i \in j..(NR - 1)
      PROVE  idU(i, j, k) \in MainTasks /\ IsU(idU(i, j, k), i, j, k)
  <2>1. j \in 0..(K - 1) /\ i \in 0..(NR - 1) /\ i >= j /\ j > k
    BY GridFacts
  <2> DEFINE S == {y \in (0..NR-1) \X (0..K-1) \X (0..K-1) : y[1] >= y[2] /\ y[2] > y[3]}
             x == <<i, j, k>>
  <2>2. x \in S /\ idU(x[1], x[2], x[3]) = idU(i, j, k)
    BY <2>1
  <2>3. idU(i, j, k) \in {idU(y[1], y[2], y[3]) : y \in S}
    BY <2>2
  <2>4. idU(i, j, k) \in MainTasks
    BY <2>3 DEF MainTasks
  <2>5. QED
    BY <2>1, <2>4, DecodeIds DEF IsU
<1>5. QED
  BY <1>1, <1>2, <1>3, <1>4

LEMMA MainCases ==
  ASSUME NEW t \in MainTasks
  PROVE  \/ \E k : IsF(t, k)
         \/ \E k : IsR(t, k)
         \/ \E i, k : IsA(t, i, k)
         \/ \E i, j, k : IsU(t, i, j, k)
<1>1. CASE t \in {idF(k) : k \in 0..K-1}
  BY <1>1, MainMembers
<1>2. CASE t \in {idR(k) : k \in 0..K-1}
  BY <1>2, MainMembers
<1>3. CASE t \in {idA(x[1], x[2]) : x \in {y \in (0..NR-1) \X (0..K-1) : y[1] > y[2]}}
  <2>1. PICK i \in 0..(NR - 1), k \in 0..(K - 1) : i > k /\ t = idA(i, k)
    BY <1>3
  <2>2. i \in (k + 1)..(NR - 1)
    BY <2>1, GridFacts
  <2>3. IsA(t, i, k)
    BY <2>1, <2>2, MainMembers
  <2>4. QED
    BY <2>3
<1>4. CASE t \in {idU(x[1], x[2], x[3]) :
                    x \in {y \in (0..NR-1) \X (0..K-1) \X (0..K-1) : y[1] >= y[2] /\ y[2] > y[3]}}
  <2>1. PICK i \in 0..(NR - 1), j \in 0..(K - 1), k \in 0..(K - 1) :
               i >= j /\ j > k /\ t = idU(i, j, k)
    BY <1>4
  <2>2. j \in (k + 1)..(K - 1) /\ i \in j..(NR - 1)
    BY <2>1, GridFacts
  <2>3. IsU(t, i, j, k)
    BY <2>1, <2>2, MainMembers
  <2>4. QED
    BY <2>3
<1>5. QED
  BY <1>1, <1>2, <1>3, <1>4 DEF MainTasks

-----------------------------------------------------------------------------
(* Intervals of ids                                                        *)

AIds(k) == idA(k + 1, k)..idA(NR - 1, k)
UIds(k) == (baseU + k * TU + tri(k + 1))..(baseU + (k + 1) * TU - 1)

LEMMA IdAStep ==
  ASSUME NEW k \in 0..(K - 1)
  PROVE  /\ \A i \in 0..NR : idA(i, k) \in Int /\ idA(i, k) = idA(0, k) + i
<1>1. k * NR \in Int
  BY GridFacts
<1> DEFINE x == k * NR
<1>2. x \in Int
  BY <1>1
<1>3. \A i : idA(i, k) = baseA + x + i
  BY DEF idA
<1> HIDE DEF x
<1>4. QED
  BY <1>2, <1>3, GridFacts

LEMMA AIdsMembers ==
  ASSUME NEW k \in 0..(K - 1)
  PROVE  /\ \A i \in (k + 1)..(NR - 1) : idA(i, k) \in AIds(k)
         /\ \A t \in AIds(k) : \E i \in (k + 1)..(NR - 1) : t = idA(i, k)
<1> DEFINE a == idA(0, k)
<1>1. a \in Int
  BY IdAStep, GridFacts
<1>2. \A i \in 0..NR : idA(i, k) = a + i
  BY IdAStep
<1>3. AIds(k) = (a + k + 1)..(a + NR - 1)
  <2>1. k + 1 \in 0..NR /\ NR - 1 \in 0..NR
    BY GridFacts
  <2>2. idA(k + 1, k) = a + (k + 1) /\ idA(NR - 1, k) = a + (NR - 1)
    BY <1>2, <2>1
  <2> HIDE DEF a
  <2>3. QED
    BY <1>1, <2>2, GridFacts DEF AIds
<1> HIDE DEF a
<1>4. ASSUME NEW i \in (k + 1)..(NR - 1) PROVE idA(i, k) \in AIds(k)
  <2>1. i \in 0..NR /\ idA(i, k) = a + i
    BY <1>2, GridFacts
  <2>2. QED
    BY <1>1, <1>3, <2>1, GridFacts
<1>5. ASSUME NEW t \in AIds(k) PROVE \E i \in (k + 1)..(NR - 1) : t = idA(i, k)
  <2> DEFINE i == t - a
  <2>1. i \in (k + 1)..(NR - 1) /\ t = a + i
    BY <1>1, <1>3, GridFacts
  <2> HIDE DEF i
  <2>2. i \in 0..NR
    BY <2>1, GridFacts
  <2>3. QED
    BY <1>2, <2>1, <2>2
<1>6. QED
  BY <1>4, <1>5

LEMMA UIdsMembers ==
  ASSUME NEW k \in 0..(K - 1)
  PROVE  /\ \A j \in (k + 1)..(K - 1) : \A i \in j..(NR - 1) : idU(i, j, k) \in UIds(k)
         /\ \A t \in UIds(k) : \E j \in (k + 1)..(K - 1) : \E i \in j..(NR - 1) : t = idU(i, j, k)
<1> DEFINE x == k * TU
           v == tri(k + 1)
<1>1. x \in Nat /\ v \in Nat /\ (k + 1) * TU = x + TU /\ TU \in Nat /\ baseU \in Nat
  BY GridFacts, TUFacts, TriMonotone
<1>2. UIds(k) = (baseU + x + v)..(baseU + x + TU - 1)
  BY <1>1 DEF UIds
<1>3. \A i, j : idU(i, j, k) = baseU + x + tri(j) + (i - j)
  BY DEF idU
<1> HIDE DEF x
<1>4. ASSUME NEW j \in 0..(K - 1), NEW i \in j..(NR - 1)
      PROVE  /\ idU(i, j, k) = baseU + x + Off(i, j) /\ Off(i, j) \in 0..(TU - 1)
             /\ tri(j) <= Off(i, j) /\ Off(i, j) < tri(j + 1) /\ tri(j) \in Nat /\ tri(j + 1) \in Nat
  <2>1. j \in Nat /\ j \in 0..K /\ j + 1 \in 0..K /\ i - j \in Int
    BY GridFacts
  <2>2. tri(j) \in Nat /\ tri(j + 1) \in Nat
    BY <2>1, TriMonotone
  <2>3. Off(i, j) \in 0..(TU - 1) /\ tri(j) <= Off(i, j) /\ Off(i, j) < tri(j + 1)
    BY TileOffset
  <2>4. idU(i, j, k) = baseU + x + Off(i, j)
    BY <1>1, <1>3, <2>1, <2>2 DEF Off
  <2>5. QED
    BY <2>2, <2>3, <2>4
<1>5. ASSUME NEW j \in (k + 1)..(K - 1), NEW i \in j..(NR - 1) PROVE idU(i, j, k) \in UIds(k)
  <2>1. j \in 0..(K - 1) /\ i \in j..(NR - 1)
    BY GridFacts
  <2>2. /\ idU(i, j, k) = baseU + x + Off(i, j) /\ Off(i, j) \in 0..(TU - 1)
        /\ tri(j) <= Off(i, j) /\ tri(j) \in Nat
    BY <1>4, <2>1
  <2>3. v <= tri(j)
    <3>1. k + 1 \in 0..K /\ j \in 0..K /\ (k + 1 = j \/ k + 1 < j)
      BY GridFacts
    <3>2. k + 1 < j => v + (NR - (k + 1)) <= tri(j)
      BY <3>1, TriMonotone
    <3>3. QED
      BY <1>1, <2>2, <3>1, <3>2, GridFacts
  <2> HIDE DEF v
  <2>4. QED
    BY <1>1, <1>2, <2>2, <2>3
<1>6. ASSUME NEW t \in UIds(k)
      PROVE  \E j \in (k + 1)..(K - 1) : \E i \in j..(NR - 1) : t = idU(i, j, k)
  <2> DEFINE o == t - (baseU + x)
  <2>1. o \in 0..(TU - 1) /\ o >= v /\ t = baseU + x + o
    <3> HIDE DEF v
    <3>1. QED
      BY <1>1, <1>2
  <2> HIDE DEF o
  <2>2. PICK j \in 0..(K - 1) : \E i \in j..(NR - 1) : o = Off(i, j)
    BY <2>1, TileFound
  <2>7. PICK i \in j..(NR - 1) : o = Off(i, j)
    BY <2>2
  <2>3. t = idU(i, j, k) /\ o < tri(j + 1) /\ tri(j + 1) \in Nat
    BY <1>4, <2>1, <2>7
  <2>4. ~(j < k + 1)
    <3>1. SUFFICES ASSUME j < k + 1 PROVE FALSE
      OBVIOUS
    <3>2. j + 1 \in 0..K /\ k + 1 \in 0..K /\ (j + 1 = k + 1 \/ j + 1 < k + 1)
      BY <3>1, GridFacts
    <3>3. j + 1 < k + 1 => tri(j + 1) + (NR - (j + 1)) <= v
      BY <3>2, TriMonotone
    <3>4. tri(j + 1) <= v
      BY <1>1, <2>3, <3>2, <3>3, GridFacts
    <3> HIDE DEF v
    <3>5. QED
      BY <1>1, <2>1, <2>3, <3>4
  <2>5. j \in (k + 1)..(K - 1)
    BY <2>4, GridFacts
  <2>6. QED
    BY <2>3, <2>5
<1>7. QED
  BY <1>5, <1>6

\* A run of consecutive numbers as a sequence.
LEMMA RunMembers ==
  ASSUME NEW a \in Int, NEW n \in Nat
  PROVE  LET r == [x \in 1..n |-> a + x - 1]
         IN  /\ r \in Seq(Int) /\ Len(r) = n /\ IsInjective(r)
             /\ ToSet(r) = a..(a + n - 1)
<1> DEFINE r == [x \in 1..n |-> a + x - 1]
<1>1. r \in [1..n -> Int]
  OBVIOUS
<1>2. r \in Seq(Int) /\ Len(r) = n
  BY <1>1, IsASeq, LenProperties
<1>3. DOMAIN r = 1..n /\ \A x \in 1..n : r[x] = a + x - 1
  OBVIOUS
<1> HIDE DEF r
<1>4. IsInjective(r)
  BY <1>3 DEF IsInjective
<1>5. ToSet(r) = a..(a + n - 1)
  <2>1. \A x \in 1..n : r[x] \in a..(a + n - 1)
    BY <1>3
  <2>2. ASSUME NEW y \in a..(a + n - 1) PROVE \E x \in 1..n : y = r[x]
    <3>1. (y - a) + 1 \in 1..n /\ y = a + ((y - a) + 1) - 1
      OBVIOUS
    <3>2. QED
      BY <1>3, <3>1
  <2>3. QED
    BY <1>3, <2>1, <2>2 DEF ToSet
<1>6. QED
  BY <1>2, <1>4, <1>5 DEF r

\* One more element at the end.
LEMMA AddedMember ==
  ASSUME NEW T, NEW q \in Seq(T), NEW e \in T, IsInjective(q), e \notin ToSet(q)
  PROVE  /\ q \o <<e>> \in Seq(T) /\ IsInjective(q \o <<e>>)
         /\ ToSet(q \o <<e>>) = ToSet(q) \cup {e}
<1> DEFINE w == <<e>>
<1>1. w \in Seq(T) /\ ToSet(w) = {e} /\ IsInjective(w)
  BY DEF ToSet, IsInjective
<1> HIDE DEF w
<1>2. ToSet(q) \cap ToSet(w) = {}
  BY <1>1
<1>3. q \o w \in Seq(T) /\ ToSet(q \o w) = ToSet(q) \cup ToSet(w)
  BY <1>1, ConcatMembers
<1>4. IsInjective(q \o w)
  BY <1>1, <1>2, ConcatMembers
<1>5. q \o w \in Seq(T) /\ IsInjective(q \o w) /\ ToSet(q \o w) = ToSet(q) \cup {e}
  BY <1>1, <1>3, <1>4
<1>6. QED
  BY <1>5 DEF w

LEMMA SeqOfMembers ==
  ASSUME NEW T, NEW q \in Seq(T), NEW M, ToSet(q) \subseteq M
  PROVE  q \in Seq(M)
<1>1. Len(q) \in Nat /\ DOMAIN q = 1..Len(q) /\ q = [x \in 1..Len(q) |-> q[x]]
  BY LenProperties
<1>2. \A x \in 1..Len(q) : q[x] \in M
  BY <1>1 DEF ToSet
<1>3. q \in [1..Len(q) -> M]
  BY <1>1, <1>2
<1>4. QED
  BY <1>1, <1>3, IsASeq

-----------------------------------------------------------------------------
(* The successors of each kind of task                                     *)

LEMMA SuccOfFactor ==
  ASSUME NEW s, NEW k, IsF(s, k)
  PROVE  LET q == MainSuccessors(s)
         IN  q \in Seq(MainTasks) /\ IsInjective(q) /\ ToSet(q) = AIds(k) \cup {idR(k)}
<1> DEFINE n == NR - 1 - k
           a == idA(k + 1, k)
           r == [x \in 1..n |-> idA(k + x, k)]
<1>1. k \in 0..(K - 1) /\ n \in Nat
  BY GridFacts DEF IsF
<1>2. MainSuccessors(s) = r \o <<idR(k)>>
  <2>1. Decode(s).op = "Factor" /\ Decode(s).k = k
    BY DEF IsF
  <2>2. MainSuccessors(s) = [x \in 1..(NR - 1 - Decode(s).k) |-> idA(Decode(s).k + x, Decode(s).k)]
                              \o <<idR(Decode(s).k)>>
    BY <2>1, Zenon DEF MainSuccessors
  <2>3. QED
    BY <2>1, <2>2, Zenon
<1>3. a \in Int /\ \A x \in 1..n : idA(k + x, k) = a + x - 1
  <2>1. idA(k + 1, k) = idA(0, k) + (k + 1) /\ idA(0, k) \in Int
    BY <1>1, IdAStep, GridFacts
  <2>2. ASSUME NEW x \in 1..n PROVE idA(k + x, k) = idA(0, k) + (k + x)
    <3>1. k + x \in 0..NR
      BY <1>1, GridFacts
    <3>2. QED
      BY <1>1, <3>1, IdAStep
  <2>3. QED
    BY <1>1, <2>1, <2>2
<1>4. r = [x \in 1..n |-> a + x - 1]
  BY <1>3
<1>5. idA(NR - 1, k) = a + n - 1
  <2>1. NR - 1 \in 0..NR /\ k + 1 \in 0..NR
    BY <1>1, GridFacts
  <2>2. idA(NR - 1, k) = idA(0, k) + (NR - 1) /\ idA(k + 1, k) = idA(0, k) + (k + 1)
        /\ idA(0, k) \in Int
    BY <1>1, <2>1, IdAStep, GridFacts
  <2>3. QED
    BY <1>1, <2>2, GridFacts
<1>6. AIds(k) = a..(a + n - 1)
  BY <1>5 DEF AIds
<1> HIDE DEF n, a, r
<1>7. r \in Seq(Int) /\ IsInjective(r) /\ ToSet(r) = AIds(k)
  BY <1>1, <1>3, <1>4, <1>6, RunMembers
<1>8. AIds(k) \subseteq MainTasks /\ idR(k) \in MainTasks
  BY <1>1, AIdsMembers, MainMembers
<1>9. idR(k) \notin AIds(k)
  <2>1. SUFFICES ASSUME NEW i \in (k + 1)..(NR - 1), idR(k) = idA(i, k) PROVE FALSE
    BY <1>1, AIdsMembers
  <2>2. IsR(idR(k), k) /\ IsA(idA(i, k), i, k)
    BY <1>1, MainMembers
  <2>3. QED
    BY <2>1, <2>2 DEF IsR, IsA
<1>10. r \in Seq(MainTasks)
  BY <1>7, <1>8, SeqOfMembers
<1>11. QED
  BY <1>2, <1>7, <1>8, <1>9, <1>10, AddedMember

LEMMA SuccOfApply ==
  ASSUME NEW s, NEW i, NEW k, IsA(s, i, k)
  PROVE  LET q == MainSuccessors(s)
         IN  q \in Seq(MainTasks) /\ IsInjective(q) /\ ToSet(q) = {idR(k)}
<1>1. MainSuccessors(s) = <<idR(k)>>
  BY DEF MainSuccessors, IsA
<1>2. idR(k) \in MainTasks
  BY MainMembers DEF IsA
<1> DEFINE e == idR(k)
<1> HIDE DEF e
<1>3. <<e>> \in Seq(MainTasks) /\ ToSet(<<e>>) = {e} /\ IsInjective(<<e>>)
  BY <1>2 DEF ToSet, IsInjective, e
<1>4. QED
  BY <1>1, <1>3 DEF e

LEMMA SuccOfUpdate ==
  ASSUME NEW s, NEW i, NEW j, NEW k, IsU(s, i, j, k)
  PROVE  LET q == MainSuccessors(s)
         IN  /\ q \in Seq(MainTasks) /\ IsInjective(q)
             /\ ToSet(q) = {IF j = k + 1 THEN idF(k + 1) ELSE idU(i, j, k + 1)}
<1> DEFINE e == IF j = k + 1 THEN idF(k + 1) ELSE idU(i, j, k + 1)
<1>1. MainSuccessors(s) = <<e>>
  BY DEF MainSuccessors, IsU
<1>2. e \in MainTasks
  <2>1. k \in 0..(K - 1) /\ j \in (k + 1)..(K - 1) /\ i \in j..(NR - 1) /\ k + 1 \in 0..(K - 1)
    BY GridFacts DEF IsU
  <2>2. CASE j = k + 1
    BY <2>1, <2>2, MainMembers
  <2>3. CASE j # k + 1
    <3>1. j \in ((k + 1) + 1)..(K - 1)
      BY <2>1, <2>3, GridFacts
    <3>2. QED
      BY <2>1, <2>3, <3>1, MainMembers
  <2>4. QED
    BY <2>2, <2>3
<1> HIDE DEF e
<1>3. <<e>> \in Seq(MainTasks) /\ ToSet(<<e>>) = {e} /\ IsInjective(<<e>>)
  BY <1>2 DEF ToSet, IsInjective
<1>4. QED
  BY <1>1, <1>3 DEF e

LEMMA SuccOfFinish ==
  ASSUME NEW s, NEW k, IsR(s, k)
  PROVE  LET q == MainSuccessors(s)
         IN  /\ q \in Seq(MainTasks) /\ IsInjective(q)
             /\ ToSet(q) = UIds(k) \cup (IF k + 1 < K THEN {idF(k + 1)} ELSE {})
<1> DEFINE n == K - 1 - k
           column(j) == [x \in 1..(NR - j) |-> idU(j + x - 1, j, k)]
           c == [x \in 1..n |-> column(k + x)]
           f == FlattenSeq(c)
           o == baseU + k * TU
           b == [x \in 0..n |-> o + tri(k + 1 + x)]
           d == [x \in 1..n |-> [y \in 1..(b[x] - b[x - 1]) |-> b[x - 1] + y - 1]]
<1>1. k \in 0..(K - 1) /\ n \in Nat /\ o \in Int /\ k \in Nat
  BY GridFacts, TUFacts DEF IsR
<1>2. MainSuccessors(s) = f \o (IF k + 1 < K THEN <<idF(k + 1)>> ELSE <<>>)
  BY DEF MainSuccessors, IsR
<1>3. \A i, j : idU(i, j, k) = o + tri(j) + (i - j)
  BY DEF idU
<1>4. o + tri(k + 1) = baseU + k * TU + tri(k + 1)
  OBVIOUS
<1>5. UIds(k) = (o + tri(k + 1))..(o + TU - 1)
  <2>1. (k + 1) * TU = k * TU + TU /\ k * TU \in Int /\ baseU \in Int /\ TU \in Int
    BY <1>1, TUFacts, GridFacts
  <2>2. baseU + (k + 1) * TU - 1 = o + TU - 1
    BY <2>1
  <2>3. QED
    BY <2>2 DEF UIds
<1> HIDE DEF o
<1>6. /\ b \in [0..n -> Int]
      /\ \A x \in 0..n : b[x] = o + tri(k + 1 + x) /\ tri(k + 1 + x) \in Nat
  <2>1. ASSUME NEW x \in 0..n PROVE tri(k + 1 + x) \in Nat
    <3>1. k + 1 + x \in 0..K
      BY <1>1, GridFacts
    <3>2. QED
      BY <3>1, TriMonotone
  <2>2. QED
    BY <1>1, <2>1
<1> HIDE DEF b
<1>7. ASSUME NEW x \in 1..n
      PROVE  /\ b[x] - b[x - 1] = NR - (k + x) /\ b[x - 1] <= b[x] /\ NR - (k + x) \in Nat
             /\ b[x - 1] = o + tri(k + x) /\ tri(k + x) \in Nat /\ k + x \in 0..K
  <2>1. x \in 0..n /\ x - 1 \in 0..n /\ k + 1 + (x - 1) = k + x /\ k + 1 + x = (k + x) + 1
        /\ k + x \in Nat /\ NR - (k + x) \in Nat /\ k + x \in 0..K
    BY <1>1, GridFacts
  <2>2. b[x - 1] = o + tri(k + x) /\ b[x] = o + tri((k + x) + 1) /\ tri(k + x) \in Nat
    BY <1>6, <2>1
  <2>3. tri((k + x) + 1) = tri(k + x) + (NR - (k + x))
    BY <2>1, TriStep
  <2>4. QED
    BY <1>1, <2>1, <2>2, <2>3
<1>8. c = d
  <2>1. ASSUME NEW x \in 1..n
        PROVE  column(k + x) = [y \in 1..(b[x] - b[x - 1]) |-> b[x - 1] + y - 1]
    <3> DEFINE j == k + x
    <3>1. j \in Int /\ NR - j = b[x] - b[x - 1] /\ b[x - 1] = o + tri(j) /\ tri(j) \in Int
      BY <1>7
    <3> HIDE DEF j
    <3>2. ASSUME NEW y \in 1..(NR - j) PROVE idU(j + y - 1, j, k) = b[x - 1] + y - 1
      <4>1. idU(j + y - 1, j, k) = o + tri(j) + ((j + y - 1) - j)
        BY <1>3
      <4>2. QED
        BY <1>1, <3>1, <4>1
    <3>3. column(j) = [y \in 1..(b[x] - b[x - 1]) |-> b[x - 1] + y - 1]
      BY <3>1, <3>2
    <3>4. QED
      BY <3>3 DEF j
  <2>2. QED
    BY <2>1
<1>9. FlattenSeq(d) = [y \in 1..(b[n] - b[0]) |-> b[0] + y - 1]
  <2>1. \A x \in 1..n : b[x - 1] <= b[x]
    BY <1>7
  <2> HIDE DEF n
  <2>2. QED
    BY <1>1, <1>6, <2>1, FlattenRuns
<1> DEFINE a == o + tri(k + 1)
           m == TU - tri(k + 1)
<1>10. a \in Int /\ m \in Nat /\ b[0] = a /\ b[n] - b[0] = m /\ a + m - 1 = o + TU - 1
  <2>1. 0 \in 0..n /\ n \in 0..n /\ k + 1 + 0 = k + 1 /\ k + 1 + n = K /\ k + 1 \in 0..K
    BY <1>1, GridFacts
  <2>2. b[0] = o + tri(k + 1) /\ b[n] = o + tri(K) /\ tri(k + 1) \in Nat /\ tri(K) = TU
    BY <1>6, <2>1, TriStep
  <2>3. tri(k + 1) <= TU /\ TU \in Nat
    BY <2>1, TUFacts
  <2>4. QED
    BY <1>1, <2>2, <2>3
<1>11. f = [y \in 1..m |-> a + y - 1]
  BY <1>8, <1>9, <1>10
<1>12. UIds(k) = a..(a + m - 1)
  BY <1>5, <1>10
<1> HIDE DEF f, a, m, n
<1>13. f \in Seq(Int) /\ IsInjective(f) /\ ToSet(f) = UIds(k)
  BY <1>10, <1>11, <1>12, RunMembers
<1>14. UIds(k) \subseteq MainTasks
  BY <1>1, UIdsMembers, MainMembers
<1>15. f \in Seq(MainTasks)
  BY <1>13, <1>14, SeqOfMembers
<1>16. CASE k + 1 < K
  <2>1. k + 1 \in 0..(K - 1)
    BY <1>1, <1>16, GridFacts
  <2>2. idF(k + 1) \notin UIds(k)
    <3>1. SUFFICES ASSUME NEW j \in (k + 1)..(K - 1), NEW i \in j..(NR - 1),
                          idF(k + 1) = idU(i, j, k)
                   PROVE  FALSE
      BY <1>1, UIdsMembers
    <3>2. IsF(idF(k + 1), k + 1) /\ IsU(idU(i, j, k), i, j, k)
      BY <1>1, <2>1, MainMembers
    <3>3. QED
      BY <3>1, <3>2 DEF IsF, IsU
  <2>3. idF(k + 1) \in MainTasks
    BY <2>1, MainMembers
  <2>4. QED
    BY <1>2, <1>13, <1>15, <1>16, <2>2, <2>3, AddedMember
<1>17. CASE ~(k + 1 < K)
  <2>1. MainSuccessors(s) = f \o <<>> /\ f \o <<>> = f
    BY <1>2, <1>15, <1>17
  <2>2. QED
    BY <1>13, <1>15, <1>17, <2>1
<1>18. QED
  BY <1>16, <1>17

-----------------------------------------------------------------------------
(* Which task of the main graph releases which                             *)

LEMMA KindOfOp ==
  ASSUME NEW t \in MainTasks
  PROVE  LET d == Decode(t)
         IN  /\ d.op \in {"Factor", "Finish", "ApplyN", "Update"}
             /\ d.op = "Factor" => IsF(t, d.k)
             /\ d.op = "Finish" => IsR(t, d.k)
             /\ d.op = "ApplyN" => IsA(t, d.i, d.k)
             /\ d.op = "Update" => IsU(t, d.i, d.j, d.k)
<1>1. ASSUME NEW k, IsF(t, k) PROVE Decode(t).op = "Factor" /\ Decode(t).k = k
  BY <1>1 DEF IsF
<1>2. ASSUME NEW k, IsR(t, k) PROVE Decode(t).op = "Finish" /\ Decode(t).k = k
  BY <1>2 DEF IsR
<1>3. ASSUME NEW i, NEW k, IsA(t, i, k)
      PROVE  Decode(t).op = "ApplyN" /\ Decode(t).i = i /\ Decode(t).k = k
  BY <1>3 DEF IsA
<1>4. ASSUME NEW i, NEW j, NEW k, IsU(t, i, j, k)
      PROVE  Decode(t).op = "Update" /\ Decode(t).i = i /\ Decode(t).j = j /\ Decode(t).k = k
  BY <1>4 DEF IsU
<1>5. QED
  BY <1>1, <1>2, <1>3, <1>4, MainCases

\* The successors by what the two tasks do.
EdgeRel(d, e) ==
  \/ d.op = "Factor" /\ e.op \in {"ApplyN", "Finish"} /\ e.k = d.k
  \/ d.op = "ApplyN" /\ e.op = "Finish" /\ e.k = d.k
  \/ d.op = "Finish" /\ e.op = "Update" /\ e.k = d.k
  \/ d.op = "Finish" /\ e.op = "Factor" /\ e.k = d.k + 1
  \/ d.op = "Update" /\ d.j = d.k + 1 /\ e.op = "Factor" /\ e.k = d.k + 1
  \/ d.op = "Update" /\ d.j # d.k + 1 /\ e.op = "Update" /\ e.k = d.k + 1 /\ e.i = d.i /\ e.j = d.j

LEMMA MainEdges ==
  ASSUME NEW s \in MainTasks, NEW t \in MainTasks
  PROVE  t \in ToSet(MainSuccessors(s)) <=> EdgeRel(Decode(s), Decode(t))
<1> DEFINE d == Decode(s)
           e == Decode(t)
<1>1. CASE d.op = "Factor"
  <2>1. IsF(s, d.k) /\ d.k \in 0..(K - 1)
    BY <1>1, KindOfOp DEF IsF
  <2>2. t \in ToSet(MainSuccessors(s)) <=> t \in AIds(d.k) \/ t = idR(d.k)
    BY <2>1, SuccOfFactor
  <2>3. t \in AIds(d.k) => e.op = "ApplyN" /\ e.k = d.k
    <3>1. ASSUME NEW i \in (d.k + 1)..(NR - 1), t = idA(i, d.k) PROVE e.op = "ApplyN" /\ e.k = d.k
      <4>1. IsA(t, i, d.k)
        BY <2>1, <3>1, MainMembers
      <4>2. QED
        BY <4>1 DEF IsA
    <3>2. QED
      BY <2>1, <3>1, AIdsMembers
  <2>4. t = idR(d.k) => e.op = "Finish" /\ e.k = d.k
    BY <2>1, MainMembers DEF IsR
  <2>5. e.op = "ApplyN" /\ e.k = d.k => t \in AIds(d.k)
    BY <2>1, AIdsMembers, KindOfOp DEF IsA
  <2>6. e.op = "Finish" /\ e.k = d.k => t = idR(d.k)
    BY KindOfOp DEF IsR
  <2> HIDE DEF d, e
  <2>7. QED
    BY <1>1, <2>2, <2>3, <2>4, <2>5, <2>6 DEF EdgeRel, d, e
<1>2. CASE d.op = "ApplyN"
  <2>1. IsA(s, d.i, d.k) /\ d.k \in 0..(K - 1)
    BY <1>2, KindOfOp DEF IsA
  <2>2. t \in ToSet(MainSuccessors(s)) <=> t = idR(d.k)
    BY <2>1, SuccOfApply
  <2>3. t = idR(d.k) => e.op = "Finish" /\ e.k = d.k
    BY <2>1, MainMembers DEF IsR
  <2>4. e.op = "Finish" /\ e.k = d.k => t = idR(d.k)
    BY KindOfOp DEF IsR
  <2> HIDE DEF d, e
  <2>5. QED
    BY <1>2, <2>2, <2>3, <2>4 DEF EdgeRel, d, e
<1>3. CASE d.op = "Finish"
  <2>1. IsR(s, d.k) /\ d.k \in 0..(K - 1)
    BY <1>3, KindOfOp DEF IsR
  <2>2. t \in ToSet(MainSuccessors(s)) <=> t \in UIds(d.k) \/ (d.k + 1 < K /\ t = idF(d.k + 1))
    BY <2>1, SuccOfFinish
  <2>3. t \in UIds(d.k) => e.op = "Update" /\ e.k = d.k
    <3>1. ASSUME NEW j \in (d.k + 1)..(K - 1), NEW i \in j..(NR - 1), t = idU(i, j, d.k)
          PROVE  e.op = "Update" /\ e.k = d.k
      <4>1. IsU(t, i, j, d.k)
        BY <2>1, <3>1, MainMembers
      <4>2. QED
        BY <4>1 DEF IsU
    <3>2. QED
      BY <2>1, <3>1, UIdsMembers
  <2>4. d.k + 1 < K /\ t = idF(d.k + 1) => e.op = "Factor" /\ e.k = d.k + 1
    <3>1. SUFFICES ASSUME d.k + 1 < K, t = idF(d.k + 1) PROVE e.op = "Factor" /\ e.k = d.k + 1
      OBVIOUS
    <3>2. d.k + 1 \in 0..(K - 1)
      BY <2>1, <3>1, GridFacts
    <3>3. QED
      BY <3>1, <3>2, MainMembers DEF IsF
  <2>5. e.op = "Update" /\ e.k = d.k => t \in UIds(d.k)
    BY <2>1, UIdsMembers, KindOfOp DEF IsU
  <2>6. e.op = "Factor" /\ e.k = d.k + 1 => t = idF(d.k + 1) /\ d.k + 1 < K
    <3>1. SUFFICES ASSUME e.op = "Factor", e.k = d.k + 1 PROVE t = idF(d.k + 1) /\ d.k + 1 < K
      OBVIOUS
    <3>2. IsF(t, e.k)
      BY <3>1, KindOfOp
    <3>3. t = idF(e.k) /\ e.k \in 0..(K - 1)
      BY <3>2 DEF IsF
    <3> HIDE DEF d, e
    <3>4. QED
      BY <3>1, <3>3, GridFacts
  <2> HIDE DEF d, e
  <2>7. QED
    BY <1>3, <2>2, <2>3, <2>4, <2>5, <2>6 DEF EdgeRel, d, e
<1>4. CASE d.op = "Update"
  <2>1. /\ IsU(s, d.i, d.j, d.k) /\ d.k \in 0..(K - 1) /\ d.j \in (d.k + 1)..(K - 1)
        /\ d.i \in d.j..(NR - 1)
    BY <1>4, KindOfOp DEF IsU
  <2>2. t \in ToSet(MainSuccessors(s))
          <=> t = IF d.j = d.k + 1 THEN idF(d.k + 1) ELSE idU(d.i, d.j, d.k + 1)
    BY <2>1, SuccOfUpdate
  <2>3. d.k + 1 \in 0..(K - 1)
    <3> HIDE DEF d
    <3>1. QED
      BY <2>1, GridFacts
  <2>4. t = idF(d.k + 1) => e.op = "Factor" /\ e.k = d.k + 1
    BY <2>3, MainMembers DEF IsF
  <2>5. e.op = "Factor" /\ e.k = d.k + 1 => t = idF(d.k + 1)
    BY KindOfOp DEF IsF
  <2>6. d.j # d.k + 1 /\ t = idU(d.i, d.j, d.k + 1)
          => e.op = "Update" /\ e.k = d.k + 1 /\ e.i = d.i /\ e.j = d.j
    <3>1. SUFFICES ASSUME d.j # d.k + 1, t = idU(d.i, d.j, d.k + 1)
                   PROVE  e.op = "Update" /\ e.k = d.k + 1 /\ e.i = d.i /\ e.j = d.j
      OBVIOUS
    <3>2. d.j \in ((d.k + 1) + 1)..(K - 1)
      <4> HIDE DEF d
      <4>1. QED
        BY <2>1, <2>3, <3>1, GridFacts
    <3>3. IsU(t, d.i, d.j, d.k + 1)
      BY <2>1, <2>3, <3>1, <3>2, MainMembers
    <3>4. QED
      BY <3>3 DEF IsU
  <2>7. e.op = "Update" /\ e.k = d.k + 1 /\ e.i = d.i /\ e.j = d.j => t = idU(d.i, d.j, d.k + 1)
    BY KindOfOp DEF IsU
  <2> HIDE DEF d, e
  <2>8. QED
    BY <1>4, <2>2, <2>4, <2>5, <2>6, <2>7 DEF EdgeRel, d, e
<1>5. QED
  BY <1>1, <1>2, <1>3, <1>4, KindOfOp

LEMMA MainPreds ==
  ASSUME NEW t \in MainTasks
  PROVE  Preds(1, t) = {s \in MainTasks : EdgeRel(Decode(s), Decode(t))}
<1>1. Tasks(1) = MainTasks
  BY DEF Tasks
<1>2. \A s \in MainTasks : SuccessorsOf[1][s] = MainSuccessors(s)
  BY <1>1 DEF SuccessorsOf, Successors, Graphs
<1>3. QED
  BY <1>1, <1>2, MainEdges DEF Preds

-----------------------------------------------------------------------------
(* The counts of the main graph are those of the predecessors              *)

\* A run of tasks and one more.
LEMMA RunAndOne ==
  ASSUME NEW a \in Int, NEW n \in Nat, NEW x, x \notin a..(a + n - 1)
  PROVE  Cardinality({x} \cup a..(a + n - 1)) = n + 1
<1> DEFINE b == a + n - 1
<1>1. b \in Int /\ (IF a > b THEN 0 ELSE b - a + 1) = n
  OBVIOUS
<1> HIDE DEF b
<1>2. IsFiniteSet(a..b) /\ Cardinality(a..b) = n
  BY <1>1, FS_Interval
<1>3. Cardinality((a..b) \cup {x}) = n + 1
  BY <1>2, FS_AddElement DEF b
<1>4. (a..b) \cup {x} = {x} \cup (a..b)
  OBVIOUS
<1>5. QED
  BY <1>3, <1>4 DEF b

LEMMA CountOfFactor ==
  ASSUME NEW t \in MainTasks, NEW k, IsF(t, k)
  PROVE  Cardinality(Preds(1, t)) = IF k = 0 THEN 0 ELSE 1 + (NR - k)
<1>1. k \in 0..(K - 1) /\ Decode(t).op = "Factor" /\ Decode(t).k = k
  BY DEF IsF
<1>2. \A s \in MainTasks : s \in Preds(1, t) <=>
        LET d == Decode(s)
        IN  \/ d.op = "Finish" /\ k = d.k + 1
            \/ d.op = "Update" /\ d.j = d.k + 1 /\ k = d.k + 1
  BY <1>1, MainPreds DEF EdgeRel
<1>3. Preds(1, t) \subseteq MainTasks
  BY MainPreds
<1>4. CASE k = 0
  <2>1. ASSUME NEW s \in Preds(1, t) PROVE FALSE
    <3>1. s \in MainTasks /\ Decode(s).op \in {"Finish", "Update"} /\ 0 = Decode(s).k + 1
      BY <1>2, <1>3, <1>4
    <3>2. Decode(s).k \in 0..(K - 1)
      BY <3>1, KindOfOp DEF IsR, IsU
    <3>3. QED
      BY <3>1, <3>2
  <2>2. Preds(1, t) = {}
    BY <2>1
  <2>3. QED
    BY <1>4, <2>2, FS_EmptySet
<1>5. CASE k # 0
  <2> DEFINE m == k - 1
             a == idU(k, k, m)
             n == NR - k
             x == idR(m)
  <2>1. m \in 0..(K - 1) /\ k = m + 1 /\ k \in (m + 1)..(K - 1) /\ n \in Nat /\ k \in k..(NR - 1)
    BY <1>1, <1>5, GridFacts
  <2>2. a \in Int
    BY <2>1, IdRanges, GridFacts
  <2>3. \A i \in Int : idU(i, k, m) = a + (i - k)
    <3> DEFINE y == m * TU
    <3>1. y \in Int /\ tri(k) \in Int /\ k \in Int /\ baseU \in Int
      BY <2>1, TriStep, TUFacts, GridFacts
    <3>2. \A i : idU(i, k, m) = baseU + y + tri(k) + (i - k)
      BY DEF idU
    <3> HIDE DEF y
    <3>3. QED
      BY <3>1, <3>2
  <2> HIDE DEF m, a
  <2>4. ASSUME NEW s, s \in Preds(1, t) PROVE s = x \/ s \in a..(a + n - 1)
    <3>1. s \in MainTasks
      BY <1>3, <2>4
    <3>2. CASE Decode(s).op = "Finish" /\ k = Decode(s).k + 1
      <4>1. IsR(s, Decode(s).k)
        BY <3>1, <3>2, KindOfOp
      <4>2. s = idR(Decode(s).k) /\ Decode(s).k \in 0..(K - 1)
        BY <4>1 DEF IsR
      <4>3. Decode(s).k = m
        BY <2>1, <3>2, <4>2
      <4>4. QED
        BY <4>2, <4>3
    <3>3. CASE Decode(s).op = "Update" /\ Decode(s).j = Decode(s).k + 1 /\ k = Decode(s).k + 1
      <4> DEFINE i == Decode(s).i
      <4>1. IsU(s, Decode(s).i, Decode(s).j, Decode(s).k)
        BY <3>1, <3>3, KindOfOp
      <4>2. Decode(s).k \in 0..(K - 1) /\ s = idU(i, k, Decode(s).k) /\ i \in k..(NR - 1)
        BY <3>3, <4>1 DEF IsU
      <4>3. Decode(s).k = m
        BY <2>1, <3>3, <4>2
      <4>4. s = idU(i, k, m)
        BY <4>2, <4>3
      <4> HIDE DEF i
      <4>5. s = a + (i - k)
        BY <2>1, <2>3, <4>2, <4>4
      <4>6. QED
        BY <2>1, <2>2, <4>2, <4>5, GridFacts
    <3>4. QED
      BY <1>2, <2>4, <3>1, <3>2, <3>3
  <2>5. x \in Preds(1, t)
    <3>1. x \in MainTasks /\ IsR(x, m)
      BY <2>1, MainMembers
    <3>2. QED
      BY <1>2, <2>1, <3>1 DEF IsR
  <2>6. ASSUME NEW s \in a..(a + n - 1) PROVE s \in Preds(1, t) /\ s # x
    <3> DEFINE i == (s - a) + k
    <3>1. i \in k..(NR - 1) /\ s = a + (i - k) /\ i \in Int
      BY <1>1, <2>1, <2>2, GridFacts
    <3> HIDE DEF i
    <3>2. s = idU(i, k, m)
      BY <2>3, <3>1
    <3>3. s \in MainTasks /\ IsU(s, i, k, m)
      BY <2>1, <3>1, <3>2, MainMembers
    <3>4. s \in Preds(1, t)
      BY <1>2, <2>1, <3>3 DEF IsU
    <3>5. IsR(x, m)
      BY <2>1, MainMembers
    <3>6. QED
      BY <3>3, <3>4, <3>5 DEF IsR, IsU
  <2>7. Preds(1, t) = {x} \cup a..(a + n - 1) /\ x \notin a..(a + n - 1)
    BY <2>4, <2>5, <2>6
  <2>8. n \in Nat
    BY <2>1
  <2> HIDE DEF n, x
  <2>9. Cardinality(Preds(1, t)) = n + 1
    BY <2>2, <2>7, <2>8, RunAndOne
  <2>10. QED
    BY <1>5, <2>8, <2>9 DEF n
<1>6. QED
  BY <1>4, <1>5

LEMMA CountOfFinish ==
  ASSUME NEW t \in MainTasks, NEW k, IsR(t, k)
  PROVE  Cardinality(Preds(1, t)) = 1 + (NR - 1 - k)
<1>1. k \in 0..(K - 1) /\ Decode(t).op = "Finish" /\ Decode(t).k = k
  BY DEF IsR
<1>2. \A s \in MainTasks : s \in Preds(1, t) <=>
        Decode(s).op \in {"Factor", "ApplyN"} /\ Decode(s).k = k
  BY <1>1, MainPreds DEF EdgeRel
<1>3. Preds(1, t) \subseteq MainTasks
  BY MainPreds
<1> DEFINE a == idA(k + 1, k)
           n == NR - 1 - k
           x == idF(k)
<1>4. a \in Int /\ n \in Nat /\ idA(NR - 1, k) = a + n - 1
  <2>1. NR - 1 \in 0..NR /\ k + 1 \in 0..NR /\ n \in Nat
    BY <1>1, GridFacts
  <2>2. idA(NR - 1, k) = idA(0, k) + (NR - 1) /\ idA(k + 1, k) = idA(0, k) + (k + 1)
        /\ idA(0, k) \in Int
    BY <1>1, <2>1, IdAStep, GridFacts
  <2>3. QED
    BY <1>1, <2>1, <2>2, GridFacts
<1>5. AIds(k) = a..(a + n - 1)
  BY <1>4 DEF AIds
<1> HIDE DEF a, n, x
<1>6. \A s \in Preds(1, t) : s = x \/ s \in AIds(k)
  <2>1. SUFFICES ASSUME NEW s \in Preds(1, t) PROVE s = x \/ s \in AIds(k)
    OBVIOUS
  <2>2. s \in MainTasks /\ Decode(s).op \in {"Factor", "ApplyN"} /\ Decode(s).k = k
    BY <1>2, <1>3
  <2>3. Decode(s).op = "Factor" => s = x
    BY <2>2, KindOfOp DEF IsF, x
  <2>4. Decode(s).op = "ApplyN" => s \in AIds(k)
    BY <1>1, <2>2, KindOfOp, AIdsMembers DEF IsA
  <2>5. QED
    BY <2>2, <2>3, <2>4
<1>7. x \in Preds(1, t)
  <2>1. x \in MainTasks /\ IsF(x, k)
    BY <1>1, MainMembers DEF x
  <2>2. QED
    BY <1>2, <2>1 DEF IsF
<1>8. ASSUME NEW s \in AIds(k) PROVE s \in Preds(1, t) /\ s # x
  <2>1. PICK i \in (k + 1)..(NR - 1) : s = idA(i, k)
    BY <1>1, AIdsMembers
  <2>2. s \in MainTasks /\ IsA(s, i, k) /\ IsF(x, k)
    BY <1>1, <2>1, MainMembers DEF x
  <2>3. s \in Preds(1, t)
    BY <1>2, <2>2 DEF IsA
  <2>4. QED
    BY <2>2, <2>3 DEF IsA, IsF
<1>9. Preds(1, t) = {x} \cup a..(a + n - 1) /\ x \notin a..(a + n - 1)
  BY <1>5, <1>6, <1>7, <1>8
<1>10. Cardinality(Preds(1, t)) = n + 1
  BY <1>4, <1>9, RunAndOne
<1>11. QED
  BY <1>4, <1>10 DEF n

LEMMA CountOfApply ==
  ASSUME NEW t \in MainTasks, NEW i, NEW k, IsA(t, i, k)
  PROVE  Cardinality(Preds(1, t)) = 1
<1>1. k \in 0..(K - 1) /\ Decode(t).op = "ApplyN" /\ Decode(t).k = k
  BY DEF IsA
<1>2. \A s \in MainTasks : s \in Preds(1, t) <=> Decode(s).op = "Factor" /\ Decode(s).k = k
  BY <1>1, MainPreds DEF EdgeRel
<1>3. Preds(1, t) \subseteq MainTasks
  BY MainPreds
<1>4. \A s \in Preds(1, t) : s = idF(k)
  BY <1>2, <1>3, KindOfOp DEF IsF
<1>5. idF(k) \in Preds(1, t)
  <2>1. idF(k) \in MainTasks /\ IsF(idF(k), k)
    BY <1>1, MainMembers
  <2>2. QED
    BY <1>2, <2>1 DEF IsF
<1>6. Preds(1, t) = {idF(k)}
  BY <1>4, <1>5
<1>7. QED
  BY <1>6, FS_Singleton

LEMMA CountOfUpdate ==
  ASSUME NEW t \in MainTasks, NEW i, NEW j, NEW k, IsU(t, i, j, k)
  PROVE  Cardinality(Preds(1, t)) = IF k = 0 THEN 1 ELSE 2
<1>1. /\ k \in 0..(K - 1) /\ j \in (k + 1)..(K - 1) /\ i \in j..(NR - 1)
      /\ Decode(t) = [op |-> "Update", i |-> i, j |-> j, k |-> k]
  BY DEF IsU
<1>2. \A s \in MainTasks : s \in Preds(1, t) <=>
        LET d == Decode(s)
        IN  \/ d.op = "Finish" /\ d.k = k
            \/ d.op = "Update" /\ d.j # d.k + 1 /\ k = d.k + 1 /\ d.i = i /\ d.j = j
  BY <1>1, MainPreds DEF EdgeRel
<1>3. Preds(1, t) \subseteq MainTasks
  BY MainPreds
<1> DEFINE x == idR(k)
<1>4. x \in Preds(1, t) /\ IsR(x, k)
  <2>1. x \in MainTasks /\ IsR(x, k)
    BY <1>1, MainMembers
  <2>2. QED
    BY <1>2, <2>1 DEF IsR
<1> HIDE DEF x
<1>5. ASSUME NEW s \in Preds(1, t), s # x
      PROVE  k # 0 /\ s = idU(i, j, k - 1)
  <2>1. s \in MainTasks
    BY <1>3
  <2>2. ~(Decode(s).op = "Finish" /\ Decode(s).k = k)
    BY <1>5, <2>1, KindOfOp DEF IsR, x
  <2>3. Decode(s).op = "Update" /\ k = Decode(s).k + 1 /\ Decode(s).i = i /\ Decode(s).j = j
    BY <1>2, <2>1, <2>2
  <2>4. s = idU(i, j, Decode(s).k) /\ Decode(s).k \in 0..(K - 1)
    BY <2>1, <2>3, KindOfOp DEF IsU
  <2>5. Decode(s).k = k - 1 /\ k # 0
    BY <1>1, <2>3, <2>4
  <2>6. QED
    BY <2>4, <2>5
<1>6. CASE k = 0
  <2>1. Preds(1, t) = {x}
    BY <1>4, <1>5, <1>6
  <2>2. QED
    BY <1>6, <2>1, FS_Singleton
<1>7. CASE k # 0
  <2> DEFINE y == idU(i, j, k - 1)
  <2>1. k - 1 \in 0..(K - 1) /\ j \in ((k - 1) + 1)..(K - 1) /\ k = (k - 1) + 1 /\ j # k
    BY <1>1, <1>7, GridFacts
  <2>2. y \in MainTasks /\ IsU(y, i, j, k - 1)
    BY <1>1, <2>1, MainMembers
  <2>3. y \in Preds(1, t)
    BY <1>2, <2>1, <2>2 DEF IsU
  <2>4. y # x
    BY <1>4, <2>2 DEF IsR, IsU
  <2>5. Preds(1, t) = {x} \cup {y}
    BY <1>4, <1>5, <2>3
  <2> HIDE DEF y
  <2>6. IsFiniteSet({x}) /\ Cardinality({x}) = 1 /\ y \notin {x}
    BY <2>4, FS_Singleton
  <2>7. Cardinality({x} \cup {y}) = 1 + 1
    BY <2>6, FS_AddElement
  <2>8. QED
    BY <1>7, <2>5, <2>7
<1>8. QED
  BY <1>6, <1>7

LEMMA MainCounts ==
  ASSUME NEW t \in MainTasks
  PROVE  MainPending(t) = Cardinality(Preds(1, t))
<1> DEFINE d == Decode(t)
<1>1. CASE d.op = "Factor"
  BY <1>1, KindOfOp, CountOfFactor DEF MainPending
<1>2. CASE d.op = "Finish"
  BY <1>2, KindOfOp, CountOfFinish DEF MainPending
<1>3. CASE d.op = "ApplyN"
  BY <1>3, KindOfOp, CountOfApply DEF MainPending
<1>4. CASE d.op = "Update"
  BY <1>4, KindOfOp, CountOfUpdate DEF MainPending
<1>5. QED
  BY <1>1, <1>2, <1>3, <1>4, KindOfOp

-----------------------------------------------------------------------------
(* The number of tasks of the main graph                                   *)

\* MainRoom's sum over the block columns.
LEMMA RoomSteps ==
  \E f : /\ MainRoom = f[K] /\ f[0] = 2 * K
         /\ \A m \in 0..(K - 1) : f[m + 1] = f[m] + (NR - (m + 1)) + (TU - tri(m + 1))
<1> DEFINE Step(f, n) == IF n = 0 THEN 2 * K ELSE f[n - 1] + (NR - n) + (TU - tri(n))
           upTo == CHOOSE f : f = [n \in 0..K |-> Step(f, n)]
           Has(m) == \E f : f = [n \in 0..m |-> Step(f, n)]
<1>1. MainRoom = upTo[K]
  BY DEF MainRoom
<1>2. Has(0)
  <2>1. [n \in 0..0 |-> 2 * K] = [n \in 0..0 |-> Step([k \in 0..0 |-> 2 * K], n)]
    OBVIOUS
  <2>2. QED
    BY <2>1
<1>3. ASSUME NEW m \in Nat, Has(m) PROVE Has(m + 1)
  <2>1. PICK f : f = [n \in 0..m |-> Step(f, n)]
    BY <1>3
  <2> DEFINE h == [n \in 0..(m + 1) |-> IF n <= m THEN f[n] ELSE Step(f, n)]
  <2>2. \A n \in 0..m : h[n] = f[n]
    OBVIOUS
  <2>3. \A n \in 0..(m + 1) : h[n] = Step(h, n)
    <3>1. TAKE n \in 0..(m + 1)
    <3>2. CASE n = 0
      BY <2>1, <3>2
    <3>3. CASE n # 0
      <4>1. n - 1 \in 0..m /\ h[n - 1] = f[n - 1]
        BY <2>2, <3>3
      <4>2. Step(h, n) = Step(f, n)
        BY <4>1
      <4>3. h[n] = Step(f, n)
        <5>1. CASE n <= m
          <6>1. n \in 0..m /\ h[n] = f[n]
            BY <5>1
          <6>2. f[n] = Step(f, n)
            BY <2>1, <6>1
          <6>3. QED
            BY <6>1, <6>2
        <5>2. CASE ~(n <= m)
          BY <5>2
        <5>3. QED
          BY <5>1, <5>2
      <4>4. QED
        BY <4>2, <4>3
    <3>4. QED
      BY <3>2, <3>3
  <2>4. h = [n \in 0..(m + 1) |-> Step(h, n)]
    <3> DEFINE k == [n \in 0..(m + 1) |-> Step(h, n)]
    <3>1. \A n \in 0..(m + 1) : k[n] = Step(h, n)
      OBVIOUS
    <3>2. h = [n \in 0..(m + 1) |-> h[n]] /\ k = [n \in 0..(m + 1) |-> k[n]]
      OBVIOUS
    <3>3. \A n \in 0..(m + 1) : h[n] = k[n]
      BY <2>3, <3>1
    <3> HIDE DEF h, k
    <3>4. h = k
      BY <3>2, <3>3
    <3>5. QED
      BY <3>4 DEF k
  <2>5. QED
    BY <2>4
<1>4. Has(K)
  <2> DEFINE P == {m \in Nat : Has(m)}
  <2>1. \A m \in Nat : m \in P
    <3> HIDE DEF Has
    <3>1. 0 \in P /\ \A m \in P : m + 1 \in P
      BY <1>2, <1>3
    <3> HIDE DEF P
    <3>2. P \in SUBSET Nat
      BY DEF P
    <3>3. QED
      BY <3>1, <3>2, Upwards
  <2>2. QED
    BY <2>1, GridFacts
<1>5. upTo = [n \in 0..K |-> Step(upTo, n)]
  BY <1>4
<1> HIDE DEF upTo
<1>6. \A n \in 0..K : upTo[n] = Step(upTo, n)
  BY <1>5
<1>7. upTo[0] = 2 * K
  BY <1>6, GridFacts
<1>8. ASSUME NEW m \in 0..(K - 1) PROVE upTo[m + 1] = upTo[m] + (NR - (m + 1)) + (TU - tri(m + 1))
  <2>1. m + 1 \in 0..K /\ m + 1 # 0 /\ (m + 1) - 1 = m
    BY GridFacts
  <2>2. QED
    BY <1>6, <2>1
<1>9. QED
  BY <1>1, <1>7, <1>8, Zenon

LEMMA FirstIds ==
  ASSUME NEW t \in 0..(2 * K - 1)
  PROVE  t \in MainTasks /\ Decode(t).op \in {"Factor", "Finish"}
<1>1. CASE t < K
  <2>1. t \in 0..(K - 1) /\ t = idF(t)
    BY <1>1, GridFacts DEF idF
  <2>2. t \in MainTasks /\ IsF(t, t)
    BY <2>1, MainMembers
  <2>3. QED
    BY <2>2 DEF IsF
<1>2. CASE ~(t < K)
  <2>1. t - K \in 0..(K - 1) /\ t = idR(t - K)
    BY <1>2, GridFacts DEF idR
  <2>2. t \in MainTasks /\ IsR(t, t - K)
    BY <2>1, MainMembers
  <2>3. QED
    BY <2>2 DEF IsR
<1>3. QED
  BY <1>1, <1>2

\* The tasks of the Factors and Finishes and of the block columns before m.
TasksUpTo(m) == 0..(2 * K - 1) \cup UNION {AIds(k) \cup UIds(k) : k \in 0..(m - 1)}

LEMMA AllColumns == TasksUpTo(K) = MainTasks
<1>1. ASSUME NEW t \in MainTasks PROVE t \in TasksUpTo(K)
  <2>1. ASSUME NEW k, IsF(t, k) \/ IsR(t, k) PROVE t \in 0..(2 * K - 1)
    BY <2>1, GridFacts DEF IsF, IsR, idF, idR
  <2>2. ASSUME NEW i, NEW k, IsA(t, i, k) PROVE k \in 0..(K - 1) /\ t \in AIds(k)
    BY <2>2, AIdsMembers DEF IsA
  <2>3. ASSUME NEW i, NEW j, NEW k, IsU(t, i, j, k) PROVE k \in 0..(K - 1) /\ t \in UIds(k)
    BY <2>3, UIdsMembers DEF IsU
  <2>4. QED
    BY <2>1, <2>2, <2>3, MainCases DEF TasksUpTo
<1>2. ASSUME NEW t \in TasksUpTo(K) PROVE t \in MainTasks
  <2>1. CASE t \in 0..(2 * K - 1)
    BY <2>1, FirstIds
  <2>2. CASE t \in UNION {AIds(k) \cup UIds(k) : k \in 0..(K - 1)}
    <3>1. PICK k \in 0..(K - 1) : t \in AIds(k) \/ t \in UIds(k)
      BY <2>2
    <3>2. CASE t \in AIds(k)
      BY <3>2, AIdsMembers, MainMembers
    <3>3. CASE t \in UIds(k)
      BY <3>3, UIdsMembers, MainMembers
    <3>4. QED
      BY <3>1, <3>2, <3>3
  <2>3. QED
    BY <1>2, <2>1, <2>2 DEF TasksUpTo
<1>3. QED
  BY <1>1, <1>2

\* What the ids of a block column are.
LEMMA ColumnKinds ==
  ASSUME NEW k \in 0..(K - 1)
  PROVE  /\ \A t \in AIds(k) : Decode(t).op = "ApplyN" /\ Decode(t).k = k
         /\ \A t \in UIds(k) : Decode(t).op = "Update" /\ Decode(t).k = k
<1>1. ASSUME NEW t \in AIds(k) PROVE Decode(t).op = "ApplyN" /\ Decode(t).k = k
  <2>1. PICK i \in (k + 1)..(NR - 1) : t = idA(i, k)
    BY AIdsMembers
  <2>2. IsA(t, i, k)
    BY <2>1, MainMembers
  <2>3. QED
    BY <2>2 DEF IsA
<1>2. ASSUME NEW t \in UIds(k) PROVE Decode(t).op = "Update" /\ Decode(t).k = k
  <2>1. PICK j \in (k + 1)..(K - 1) : \E i \in j..(NR - 1) : t = idU(i, j, k)
    BY UIdsMembers
  <2>2. PICK i \in j..(NR - 1) : t = idU(i, j, k)
    BY <2>1
  <2>3. IsU(t, i, j, k)
    BY <2>2, MainMembers
  <2>4. QED
    BY <2>3 DEF IsU
<1>3. QED
  BY <1>1, <1>2

LEMMA ColumnSizes ==
  ASSUME NEW k \in 0..(K - 1)
  PROVE  /\ IsFiniteSet(AIds(k)) /\ Cardinality(AIds(k)) = NR - (k + 1)
         /\ IsFiniteSet(UIds(k)) /\ Cardinality(UIds(k)) = TU - tri(k + 1)
         /\ NR - (k + 1) \in Nat /\ TU - tri(k + 1) \in Nat
<1>1. IsFiniteSet(AIds(k)) /\ Cardinality(AIds(k)) = NR - (k + 1) /\ NR - (k + 1) \in Nat
  <2> DEFINE a == idA(k + 1, k)
             b == idA(NR - 1, k)
  <2>1. NR - 1 \in 0..NR /\ k + 1 \in 0..NR /\ NR - (k + 1) \in Nat
    BY GridFacts
  <2>2. b = idA(0, k) + (NR - 1) /\ a = idA(0, k) + (k + 1) /\ idA(0, k) \in Int
    BY <2>1, IdAStep, GridFacts
  <2>3. AIds(k) = a..b
    BY DEF AIds
  <2> HIDE DEF a, b
  <2>4. a \in Int /\ b \in Int /\ (IF a > b THEN 0 ELSE b - a + 1) = NR - (k + 1)
    BY <2>1, <2>2, GridFacts
  <2>5. QED
    BY <2>1, <2>3, <2>4, FS_Interval
<1>2. IsFiniteSet(UIds(k)) /\ Cardinality(UIds(k)) = TU - tri(k + 1) /\ TU - tri(k + 1) \in Nat
  <2> DEFINE x == k * TU
             v == tri(k + 1)
             a == baseU + x + v
             b == baseU + x + TU - 1
  <2>1. k + 1 \in 0..K
    BY GridFacts
  <2>2. x \in Nat /\ v \in Nat /\ v <= TU /\ (k + 1) * TU = x + TU /\ TU \in Nat /\ baseU \in Nat
    BY <2>1, GridFacts, TUFacts, TriMonotone
  <2>3. UIds(k) = a..b
    BY <2>2 DEF UIds
  <2> HIDE DEF x, v
  <2>4. a \in Int /\ b \in Int /\ (IF a > b THEN 0 ELSE b - a + 1) = TU - v /\ TU - v \in Nat
    BY <2>2
  <2> HIDE DEF a, b
  <2>5. IsFiniteSet(UIds(k)) /\ Cardinality(UIds(k)) = TU - v
    BY <2>3, <2>4, FS_Interval
  <2>6. QED
    BY <2>4, <2>5 DEF v
<1>3. QED
  BY <1>1, <1>2

\* ldlt_aptp.cpp counts what it makes: MainRoom is the number of tasks.
LEMMA MainRoomSound == IsFiniteSet(MainTasks) /\ Cardinality(MainTasks) = MainRoom
<1>1. PICK f : /\ MainRoom = f[K] /\ f[0] = 2 * K
               /\ \A m \in 0..(K - 1) : f[m + 1] = f[m] + (NR - (m + 1)) + (TU - tri(m + 1))
  BY RoomSteps, Zenon
<1> DEFINE Good(m) == IsFiniteSet(TasksUpTo(m)) /\ Cardinality(TasksUpTo(m)) = f[m] /\ f[m] \in Nat
<1>2. Good(0)
  <2>1. TasksUpTo(0) = 0..(2 * K - 1)
    BY DEF TasksUpTo
  <2> DEFINE b == 2 * K - 1
  <2>2. b \in Int /\ (IF 0 > b THEN 0 ELSE b - 0 + 1) = 2 * K /\ 2 * K \in Nat
    BY GridFacts
  <2> HIDE DEF b
  <2>3. IsFiniteSet(0..b) /\ Cardinality(0..b) = 2 * K
    <3>1. 0 \in Int
      OBVIOUS
    <3>2. IsFiniteSet(0..b) /\ Cardinality(0..b) = IF 0 > b THEN 0 ELSE b - 0 + 1
      BY <2>2, <3>1, FS_Interval
    <3>3. QED
      BY <2>2, <3>2
  <2>4. QED
    BY <1>1, <2>1, <2>2, <2>3 DEF b
<1>3. ASSUME NEW m \in 0..(K - 1), Good(m) PROVE Good(m + 1)
  <2> DEFINE old == TasksUpTo(m)
             a == AIds(m)
             u == UIds(m)
  <2>1. TasksUpTo(m + 1) = (old \cup a) \cup u
    <3>1. 0..((m + 1) - 1) = 0..(m - 1) \cup {m}
      OBVIOUS
    <3>2. QED
      BY <3>1 DEF TasksUpTo
  <2>2. \A t \in old : Decode(t).op \in {"Factor", "Finish"} \/ Decode(t).k \in 0..(m - 1)
    <3>1. SUFFICES ASSUME NEW t \in old
                   PROVE  Decode(t).op \in {"Factor", "Finish"} \/ Decode(t).k \in 0..(m - 1)
      OBVIOUS
    <3>2. CASE t \in 0..(2 * K - 1)
      BY <3>2, FirstIds
    <3>3. CASE t \in UNION {AIds(k) \cup UIds(k) : k \in 0..(m - 1)}
      <4>1. PICK k \in 0..(m - 1) : t \in AIds(k) \/ t \in UIds(k)
        BY <3>3
      <4>2. k \in 0..(K - 1)
        BY GridFacts
      <4>3. QED
        BY <4>1, <4>2, ColumnKinds
    <3>4. QED
      BY <3>2, <3>3 DEF TasksUpTo
  <2>3. /\ \A t \in a : Decode(t).op = "ApplyN" /\ Decode(t).k = m
        /\ \A t \in u : Decode(t).op = "Update" /\ Decode(t).k = m
    BY ColumnKinds
  <2>4. m \notin 0..(m - 1)
    OBVIOUS
  <2>5. /\ IsFiniteSet(a) /\ Cardinality(a) = NR - (m + 1)
        /\ IsFiniteSet(u) /\ Cardinality(u) = TU - tri(m + 1)
        /\ NR - (m + 1) \in Nat /\ TU - tri(m + 1) \in Nat
    BY ColumnSizes
  <2>6. /\ IsFiniteSet(old) /\ Cardinality(old) = f[m] /\ f[m] \in Nat
    BY <1>3
  <2>7. f[m + 1] = f[m] + (NR - (m + 1)) + (TU - tri(m + 1))
    BY <1>1
  <2> HIDE DEF old, a, u
  <2>8. old \cap a = {} /\ (old \cup a) \cap u = {}
    BY <2>2, <2>3, <2>4
  <2>9. IsFiniteSet(old \cup a) /\ Cardinality(old \cup a) = f[m] + (NR - (m + 1))
    <3>1. Cardinality(old \cap a) = 0
      BY <2>8, FS_EmptySet
    <3>2. /\ IsFiniteSet(old \cup a)
          /\ Cardinality(old \cup a) = Cardinality(old) + Cardinality(a) - Cardinality(old \cap a)
      BY <2>5, <2>6, FS_Union
    <3>3. QED
      BY <2>5, <2>6, <3>1, <3>2
  <2>10. /\ IsFiniteSet((old \cup a) \cup u)
         /\ Cardinality((old \cup a) \cup u) = f[m] + (NR - (m + 1)) + (TU - tri(m + 1))
    <3>1. Cardinality((old \cup a) \cap u) = 0
      BY <2>8, FS_EmptySet
    <3> DEFINE c == old \cup a
    <3>2. IsFiniteSet(c)
      BY <2>9
    <3> HIDE DEF c
    <3>3. /\ IsFiniteSet(c \cup u)
          /\ Cardinality(c \cup u) = Cardinality(c) + Cardinality(u) - Cardinality(c \cap u)
      BY <2>5, <3>2, FS_Union
    <3>4. Cardinality(c) = f[m] + (NR - (m + 1)) /\ Cardinality(c \cap u) = 0
      BY <2>9, <3>1 DEF c
    <3>5. Cardinality(c \cup u) = f[m] + (NR - (m + 1)) + (TU - tri(m + 1))
      BY <2>5, <2>6, <3>3, <3>4
    <3>6. QED
      BY <3>3, <3>5 DEF c
  <2>11. QED
    BY <2>1, <2>5, <2>6, <2>7, <2>10
<1>4. Good(K)
  <2> DEFINE P == {m \in Nat : m <= K => Good(m)}
  <2>1. \A m \in Nat : m \in P
    <3> HIDE DEF Good
    <3>1. 0 \in P
      BY <1>2
    <3>2. ASSUME NEW m \in P PROVE m + 1 \in P
      <4>1. m \in Nat /\ (m <= K => Good(m)) /\ (m + 1 <= K => m \in 0..(K - 1) /\ m <= K)
        BY GridFacts
      <4>2. QED
        BY <1>3, <4>1
    <3> HIDE DEF P
    <3>3. P \in SUBSET Nat
      BY DEF P
    <3>4. QED
      BY <3>1, <3>2, <3>3, Upwards
  <2>2. K \in P /\ K <= K
    BY <2>1, GridFacts
  <2> HIDE DEF Good
  <2>3. QED
    BY <2>2
<1>5. QED
  BY <1>1, <1>4, AllColumns

LEMMA MainSound == GraphSound(1)
<1>1. Tasks(1) = MainTasks /\ 1 \in Graphs
  BY DEF Tasks, Graphs
<1>2. MainTasks \subseteq Nat /\ IsFiniteSet(MainTasks)
  <2>1. ASSUME NEW t \in MainTasks PROVE t \in Nat
    <3>1. ASSUME NEW k, IsF(t, k) \/ IsR(t, k) PROVE t \in Nat
      BY <3>1, GridFacts DEF IsF, IsR, idF, idR
    <3>2. ASSUME NEW i, NEW k, IsA(t, i, k) PROVE t \in Nat
      <4>1. k \in 0..(K - 1) /\ i \in 0..(NR - 1) /\ t = idA(i, k)
        BY <3>2, GridFacts DEF IsA
      <4>2. QED
        BY <4>1, IdRanges, GridFacts
    <3>3. ASSUME NEW i, NEW j, NEW k, IsU(t, i, j, k) PROVE t \in Nat
      <4>1. k \in Nat /\ j \in 0..(K - 1) /\ i \in j..(NR - 1) /\ t = idU(i, j, k)
        BY <3>3, GridFacts DEF IsU
      <4>2. QED
        BY <4>1, IdRanges
    <3>4. QED
      BY <3>1, <3>2, <3>3, MainCases
  <2>2. QED
    BY <2>1, MainRoomSound
<1>3. ASSUME NEW t \in MainTasks
      PROVE  SuccessorsOf[1][t] \in Seq(MainTasks) /\ IsInjective(SuccessorsOf[1][t])
  <2>1. SuccessorsOf[1][t] = MainSuccessors(t)
    BY <1>1 DEF SuccessorsOf, Successors
  <2>2. ASSUME NEW k, IsF(t, k)
        PROVE  MainSuccessors(t) \in Seq(MainTasks) /\ IsInjective(MainSuccessors(t))
    BY <2>2, SuccOfFactor
  <2>3. ASSUME NEW k, IsR(t, k)
        PROVE  MainSuccessors(t) \in Seq(MainTasks) /\ IsInjective(MainSuccessors(t))
    BY <2>3, SuccOfFinish
  <2>4. ASSUME NEW i, NEW k, IsA(t, i, k)
        PROVE  MainSuccessors(t) \in Seq(MainTasks) /\ IsInjective(MainSuccessors(t))
    BY <2>4, SuccOfApply
  <2>5. ASSUME NEW i, NEW j, NEW k, IsU(t, i, j, k)
        PROVE  MainSuccessors(t) \in Seq(MainTasks) /\ IsInjective(MainSuccessors(t))
    BY <2>5, SuccOfUpdate
  <2>6. QED
    BY <2>1, <2>2, <2>3, <2>4, <2>5, MainCases
<1>4. \A t \in MainTasks : Pending(1)[t] = Cardinality(Preds(1, t))
  BY <1>1, MainCounts DEF Pending
<1> DEFINE e == idF(0)
<1>5. /\ Roots(1) = <<e>> /\ e \in MainTasks /\ IsF(e, 0)
  BY MainMembers, GridFacts DEF Roots
<1>6. Preds(1, e) = {}
  <2>1. SUFFICES ASSUME NEW s \in MainTasks, EdgeRel(Decode(s), Decode(e)) PROVE FALSE
    BY <1>5, MainPreds
  <2>2. Decode(e).op = "Factor" /\ Decode(e).k = 0
    BY <1>5 DEF IsF
  <2>3. Decode(s).op \in {"Finish", "Update"} /\ 0 = Decode(s).k + 1
    BY <2>1, <2>2 DEF EdgeRel
  <2>4. Decode(s).k \in 0..(K - 1)
    BY <2>3, KindOfOp DEF IsR, IsU
  <2>5. QED
    BY <2>3, <2>4
<1> HIDE DEF e
<1>7. Roots(1) \in Seq(MainTasks) /\ IsInjective(Roots(1)) /\ \A r \in ToSet(Roots(1)) : Preds(1, r) = {}
  BY <1>5, <1>6 DEF ToSet, IsInjective
<1>8. UrgentTasks[1] \subseteq Tasks(1) /\ OtherTasks[1] = Tasks(1) \ UrgentTasks[1]
  BY <1>1 DEF UrgentTasks, OtherTasks
<1>9. QED
  BY <1>1, <1>2, <1>3, <1>4, <1>7, <1>8 DEF GraphSound

-----------------------------------------------------------------------------
(* The order the counts give the tasks of the main graph                   *)

LEMMA BeforeEdge ==
  ASSUME NEW g, NEW t, NEW s \in Preds(g, t)
  PROVE  Before(g, s, t)
BY DEF Before

LEMMA BeforeTrans ==
  ASSUME NEW g, NEW s, NEW t, NEW u, Before(g, s, u), Before(g, u, t)
  PROVE  Before(g, s, t)
<1>1. SUFFICES ASSUME NEW D \in SUBSET Tasks(g), Closed(g, D), Preds(g, t) \subseteq D
               PROVE  s \in D
  BY DEF Before
<1>2. u \in D
  BY <1>1 DEF Before
<1>3. Preds(g, u) \subseteq D
  BY <1>1, <1>2 DEF Closed
<1>4. QED
  BY <1>1, <1>3 DEF Before

\* The same task or an earlier one.
UpTo(s, t) == s = t \/ Before(1, s, t)

LEMMA UpToTrans ==
  ASSUME NEW s, NEW t, NEW u
  PROVE  /\ UpTo(s, u) /\ Before(1, u, t) => Before(1, s, t)
         /\ Before(1, s, u) /\ UpTo(u, t) => Before(1, s, t)
         /\ UpTo(s, u) /\ UpTo(u, t) => UpTo(s, t)
BY BeforeTrans DEF UpTo

LEMMA MainEdgeBefore ==
  ASSUME NEW s \in MainTasks, NEW t \in MainTasks, EdgeRel(Decode(s), Decode(t))
  PROVE  Before(1, s, t)
BY MainPreds, BeforeEdge

LEMMA SpineSteps ==
  ASSUME NEW k \in 0..(K - 1)
  PROVE  /\ Before(1, idF(k), idR(k))
         /\ k + 1 < K => Before(1, idR(k), idF(k + 1))
<1>1. idF(k) \in MainTasks /\ IsF(idF(k), k) /\ idR(k) \in MainTasks /\ IsR(idR(k), k)
  BY MainMembers
<1>2. EdgeRel(Decode(idF(k)), Decode(idR(k)))
  BY <1>1 DEF EdgeRel, IsF, IsR
<1>3. ASSUME k + 1 < K PROVE Before(1, idR(k), idF(k + 1))
  <2>1. k + 1 \in 0..(K - 1)
    BY <1>3, GridFacts
  <2>2. idF(k + 1) \in MainTasks /\ IsF(idF(k + 1), k + 1)
    BY <2>1, MainMembers
  <2>3. EdgeRel(Decode(idR(k)), Decode(idF(k + 1)))
    BY <1>1, <2>2 DEF EdgeRel, IsF, IsR
  <2>4. QED
    BY <1>1, <2>2, <2>3, MainEdgeBefore
<1>4. QED
  BY <1>1, <1>2, <1>3, MainEdgeBefore

\* A Finish comes before the Factors of later block columns.
LEMMA SpineBefore ==
  ASSUME NEW k \in 0..(K - 1), NEW n \in 0..(K - 1), k < n
  PROVE  Before(1, idR(k), idF(n))
<1> DEFINE P == {m \in Nat : k < m /\ m < K => Before(1, idR(k), idF(m))}
<1>1. 0 \in P
  OBVIOUS
<1>2. ASSUME NEW m \in P PROVE m + 1 \in P
  <2>1. SUFFICES ASSUME k < m + 1, m + 1 < K PROVE Before(1, idR(k), idF(m + 1))
    BY <1>2
  <2>2. m \in 0..(K - 1) /\ m \in Nat
    BY <2>1, GridFacts
  <2>3. Before(1, idF(m), idR(m)) /\ Before(1, idR(m), idF(m + 1))
    BY <2>1, <2>2, SpineSteps
  <2>4. CASE k = m
    BY <2>3, <2>4
  <2>5. CASE k # m
    <3>1. Before(1, idR(k), idF(m))
      BY <1>2, <2>1, <2>2, <2>5, GridFacts
    <3>2. Before(1, idR(k), idR(m))
      BY <2>3, <3>1, BeforeTrans
    <3>3. QED
      BY <2>3, <3>2, BeforeTrans
  <2>6. QED
    BY <2>4, <2>5
<1>3. P \in SUBSET Nat
  OBVIOUS
<1> HIDE DEF P
<1>4. \A m \in Nat : m \in P
  BY <1>1, <1>2, <1>3, Upwards
<1>5. n \in Nat /\ k < n /\ n < K
  BY GridFacts
<1>6. QED
  BY <1>4, <1>5 DEF P

Spine(t) == t \in MainTasks /\ Decode(t).op # "Update"

\* Factor, ApplyN and Finish of a block column lie between its Factor and
\* its Finish.
LEMMA SpineEnds ==
  ASSUME NEW t, Spine(t)
  PROVE  /\ Decode(t).k \in 0..(K - 1)
         /\ UpTo(idF(Decode(t).k), t) /\ UpTo(t, idR(Decode(t).k))
<1> DEFINE k == Decode(t).k
<1>1. t \in MainTasks /\ k \in 0..(K - 1)
  BY KindOfOp DEF Spine, IsF, IsR, IsA
<1>2. idF(k) \in MainTasks /\ IsF(idF(k), k) /\ idR(k) \in MainTasks /\ IsR(idR(k), k)
  BY <1>1, MainMembers
<1>3. Decode(t).op = "Factor" => t = idF(k)
  BY <1>1, KindOfOp DEF IsF
<1>4. Decode(t).op = "Finish" => t = idR(k)
  BY <1>1, KindOfOp DEF IsR
<1>5. Before(1, idF(k), idR(k))
  BY <1>1, SpineSteps
<1>6. ASSUME Decode(t).op = "ApplyN" PROVE Before(1, idF(k), t) /\ Before(1, t, idR(k))
  <2>1. EdgeRel(Decode(idF(k)), Decode(t)) /\ EdgeRel(Decode(t), Decode(idR(k)))
    BY <1>2, <1>6 DEF EdgeRel, IsF, IsR
  <2>2. QED
    BY <1>1, <1>2, <2>1, MainEdgeBefore
<1>7. Decode(t).op \in {"Factor", "Finish", "ApplyN"}
  BY <1>1, KindOfOp DEF Spine
<1>8. QED
  BY <1>1, <1>3, <1>4, <1>5, <1>6, <1>7 DEF UpTo

LEMMA SpineOrder ==
  ASSUME NEW s, NEW t, Spine(s), Spine(t), Decode(s).k < Decode(t).k
  PROVE  Before(1, s, t)
<1>1. /\ Decode(s).k \in 0..(K - 1) /\ Decode(t).k \in 0..(K - 1)
      /\ UpTo(s, idR(Decode(s).k)) /\ UpTo(idF(Decode(t).k), t)
  BY SpineEnds
<1>2. Before(1, idR(Decode(s).k), idF(Decode(t).k))
  BY <1>1, SpineBefore
<1>3. QED
  BY <1>1, <1>2, UpToTrans

\* The updates of a tile come one after the other, by their block columns, and
\* before the tile's own block column.
LEMMA TileOrder ==
  ASSUME NEW s, NEW i, NEW j, NEW k, IsU(s, i, j, k)
  PROVE  \A n \in (k + 1)..(j - 1) : Before(1, s, idU(i, j, n))
<1>1. /\ k \in 0..(K - 1) /\ j \in (k + 1)..(K - 1) /\ i \in j..(NR - 1) /\ s = idU(i, j, k)
      /\ s \in MainTasks
  BY MainMembers DEF IsU
<1> DEFINE P == {m \in Nat : k < m /\ m < j => Before(1, s, idU(i, j, m))}
<1>2. \A m \in k..(j - 1) : /\ m \in 0..(K - 1) /\ j \in (m + 1)..(K - 1)
                            /\ idU(i, j, m) \in MainTasks /\ IsU(idU(i, j, m), i, j, m)
  <2>1. SUFFICES ASSUME NEW m \in k..(j - 1)
                 PROVE  /\ m \in 0..(K - 1) /\ j \in (m + 1)..(K - 1)
                        /\ idU(i, j, m) \in MainTasks /\ IsU(idU(i, j, m), i, j, m)
    OBVIOUS
  <2>2. m \in 0..(K - 1) /\ j \in (m + 1)..(K - 1)
    BY <1>1, GridFacts
  <2>3. QED
    BY <1>1, <2>2, MainMembers
<1>3. ASSUME NEW m \in k..(j - 2) PROVE Before(1, idU(i, j, m), idU(i, j, m + 1))
  <2>1. m \in k..(j - 1) /\ m + 1 \in k..(j - 1) /\ j # m + 1
    BY <1>1, GridFacts
  <2>2. /\ idU(i, j, m) \in MainTasks /\ IsU(idU(i, j, m), i, j, m)
        /\ idU(i, j, m + 1) \in MainTasks /\ IsU(idU(i, j, m + 1), i, j, m + 1)
    BY <1>2, <2>1
  <2>3. EdgeRel(Decode(idU(i, j, m)), Decode(idU(i, j, m + 1)))
    BY <2>1, <2>2 DEF EdgeRel, IsU
  <2>4. QED
    BY <2>2, <2>3, MainEdgeBefore
<1>4. 0 \in P
  BY <1>1
<1>5. ASSUME NEW m \in P PROVE m + 1 \in P
  <2>1. SUFFICES ASSUME k < m + 1, m + 1 < j PROVE Before(1, s, idU(i, j, m + 1))
    BY <1>5
  <2>2. m \in k..(j - 2)
    BY <1>1, <2>1
  <2>3. Before(1, idU(i, j, m), idU(i, j, m + 1))
    BY <1>3, <2>2
  <2>4. CASE k = m
    BY <1>1, <2>3, <2>4
  <2>5. CASE k # m
    <3>1. Before(1, s, idU(i, j, m))
      BY <1>1, <1>5, <2>2, <2>5
    <3>2. QED
      BY <2>3, <3>1, BeforeTrans
  <2>6. QED
    BY <2>4, <2>5
<1>6. P \in SUBSET Nat
  OBVIOUS
<1> HIDE DEF P
<1>7. \A m \in Nat : m \in P
  BY <1>4, <1>5, <1>6, Upwards
<1>8. QED
  BY <1>1, <1>7 DEF P

LEMMA UpdateFactor ==
  ASSUME NEW s, NEW i, NEW j, NEW k, IsU(s, i, j, k)
  PROVE  Before(1, s, idF(j))
<1>1. /\ k \in 0..(K - 1) /\ j \in (k + 1)..(K - 1) /\ i \in j..(NR - 1) /\ s = idU(i, j, k)
  BY DEF IsU
<1> DEFINE m == j - 1
           u == idU(i, j, m)
<1>2. m \in 0..(K - 1) /\ j \in (m + 1)..(K - 1) /\ j = m + 1 /\ j \in 0..(K - 1)
  BY <1>1, GridFacts
<1>3. u \in MainTasks /\ IsU(u, i, j, m) /\ idF(j) \in MainTasks /\ IsF(idF(j), j)
  BY <1>1, <1>2, MainMembers
<1>4. EdgeRel(Decode(u), Decode(idF(j)))
  BY <1>2, <1>3 DEF EdgeRel, IsU, IsF
<1>5. Before(1, u, idF(j))
  BY <1>3, <1>4, MainEdgeBefore
<1>6. CASE k = m
  BY <1>1, <1>5, <1>6
<1>7. CASE k # m
  <2>1. m \in (k + 1)..(j - 1)
    BY <1>1, <1>7, GridFacts
  <2>2. Before(1, s, u)
    BY <2>1, TileOrder
  <2>3. QED
    BY <1>5, <2>2, BeforeTrans
<1>8. QED
  BY <1>6, <1>7

LEMMA FinishUpdate ==
  ASSUME NEW t, NEW i, NEW j, NEW k, IsU(t, i, j, k)
  PROVE  Before(1, idR(k), t)
<1>1. t \in MainTasks /\ idR(k) \in MainTasks /\ IsR(idR(k), k)
  BY MainMembers DEF IsU
<1>2. EdgeRel(Decode(idR(k)), Decode(t))
  BY <1>1 DEF EdgeRel, IsR, IsU
<1>3. QED
  BY <1>1, <1>2, MainEdgeBefore

\* An update and the tasks of a block column: after those of its own and of
\* earlier ones, before those of its tile's and of later ones.
LEMMA UpdateSpine ==
  ASSUME NEW s, NEW i, NEW j, NEW k, IsU(s, i, j, k), NEW t, Spine(t)
  PROVE  /\ Decode(t).k <= k => Before(1, t, s)
         /\ Decode(t).k >= j => Before(1, s, t)
<1> DEFINE m == Decode(t).k
<1>1. k \in 0..(K - 1) /\ j \in (k + 1)..(K - 1) /\ j \in 0..(K - 1)
  BY GridFacts DEF IsU
<1>2. m \in 0..(K - 1) /\ UpTo(idF(m), t) /\ UpTo(t, idR(m))
  BY SpineEnds
<1>3. Before(1, idR(k), s) /\ Before(1, s, idF(j))
  BY FinishUpdate, UpdateFactor
<1> HIDE DEF m
<1>4. ASSUME NEW a \in 0..(K - 1), NEW b \in 0..(K - 1), a <= b
      PROVE  UpTo(idR(a), idR(b)) /\ UpTo(idF(a), idF(b))
  <2>1. CASE a = b
    BY <2>1 DEF UpTo
  <2>2. CASE a # b
    <3>1. Before(1, idR(a), idF(b))
      BY <1>4, <2>2, SpineBefore, GridFacts
    <3>2. Before(1, idF(b), idR(b)) /\ Before(1, idF(a), idR(a))
      BY SpineSteps
    <3>3. QED
      BY <3>1, <3>2, BeforeTrans DEF UpTo
  <2>3. QED
    BY <2>1, <2>2
<1>5. m <= k => Before(1, t, s)
  BY <1>1, <1>2, <1>3, <1>4, UpToTrans
<1>6. m >= j => Before(1, s, t)
  <2>1. m >= j => UpTo(idF(j), idF(m))
    BY <1>1, <1>2, <1>4, GridFacts
  <2>2. QED
    BY <1>2, <1>3, <2>1, UpToTrans
<1>7. QED
  BY <1>5, <1>6 DEF m

-----------------------------------------------------------------------------
(* Conflicts of the main graph                                             *)

LEMMA UpdateTouches ==
  ASSUME NEW t, NEW i, NEW j, NEW k, IsU(t, i, j, k)
  PROVE  /\ \A x \in Writes(1, t) : (x[1] \in {"L", "Q"} /\ x[2] = i /\ x[3] = j)
         /\ \A x \in Reads(1, t) : \/ x[1] = "nel" /\ x[2] = k
                                   \/ (x[1] = "L" /\ x[2] = i /\ x[3] = k) \/ (x[1] = "W" /\ x[2] = k /\ x[3] = j)
<1>1. Decode(t).op = "Update" /\ Decode(t).i = i /\ Decode(t).j = j /\ Decode(t).k = k
  BY DEF IsU
<1>2. Writes(1, t) = Both(i, j)
  BY <1>1 DEF Writes, MainWrites
<1>3. Reads(1, t) = {<<"nel", k>>, <<"L", i, k>>, <<"W", k, j>>}
  BY <1>1 DEF Reads, MainReads
<1>4. QED
  BY <1>2, <1>3 DEF Both

LEMMA ApplyTouches ==
  ASSUME NEW t, NEW i, NEW k, IsA(t, i, k)
  PROVE  /\ \A x \in Writes(1, t) : (x[1] \in {"L", "Q"} /\ x[2] = i /\ x[3] = k) \/ (x[1] = "tfail" /\ x[2] = i)
         /\ \A x \in Reads(1, t) : x[1] \in {"ne_t", "lt", "tags"}
<1>1. Decode(t).op = "ApplyN" /\ Decode(t).i = i /\ Decode(t).k = k
  BY DEF IsA
<1>2. Writes(1, t) = Both(i, k) \cup {<<"tfail", i>>}
  BY <1>1 DEF Writes, MainWrites
<1>3. Reads(1, t) = {<<"ne_t", k>>, <<"lt">>, <<"tags", k>>}
  BY <1>1 DEF Reads, MainReads
<1>4. QED
  BY <1>2, <1>3 DEF Both

LEMMA FactorTouches ==
  ASSUME NEW t, NEW k, IsF(t, k)
  PROVE  /\ \A x \in Writes(1, t) :
              \/ x[1] \in {"scratch", "bk", "lt", "lpc", "tags", "ne_t"}
              \/ (x[1] = "W" /\ x[2] = k /\ x[3] = k)
              \/ x[1] \in {"L", "Q"} /\ (x[2] = k \/ x[3] = k)
         /\ Reads(1, t) = {}
<1>1. Decode(t).op = "Factor" /\ Decode(t).k = k
  BY DEF IsF
<1>2. Reads(1, t) = {}
  BY <1>1 DEF Reads, MainReads
<1> DEFINE single    == {<<"scratch">>, <<"bk">>, <<"lt">>, <<"lpc">>, <<"tags", k>>, <<"ne_t", k>>}
           diagonal == {<<"W", k, k>>}
           column == UNION {Both(i, k) : i \in Rows(k)}
           row    == UNION {Both(k, j) : j \in 0..k}
<1>3. Writes(1, t) = single \cup diagonal \cup column \cup row
  <2>1. Writes(1, t) = {<<"scratch">>, <<"bk">>, <<"lt">>, <<"lpc">>, <<"tags", k>>, <<"ne_t", k>>, <<"W", k, k>>}
                         \cup column \cup row
    BY <1>1 DEF Writes, MainWrites
  <2> HIDE DEF column, row
  <2>2. QED
    BY <2>1
<1>4. \A x \in column : x[1] \in {"L", "Q"} /\ x[3] = k
  BY DEF Both
<1>5. \A x \in row : x[1] \in {"L", "Q"} /\ x[2] = k
  BY DEF Both
<1>6. \A x \in single : x[1] \in {"scratch", "bk", "lt", "lpc", "tags", "ne_t"}
  OBVIOUS
<1>8. \A x \in diagonal : x[1] = "W" /\ x[2] = k /\ x[3] = k
  OBVIOUS
<1> HIDE DEF single, diagonal, column, row
<1>7. QED
  BY <1>2, <1>3, <1>4, <1>5, <1>6, <1>8

LEMMA FinishTouches ==
  ASSUME NEW t, NEW k, IsR(t, k)
  PROVE  /\ \A x \in Writes(1, t) :
              \/ x[1] \in {"scratch", "bk", "tags", "failed"}
              \/ x[1] = "nel" /\ x[2] = k
              \/ x[1] = "Q" /\ x[3] \in 0..k
              \/ x[1] = "W" /\ x[2] = k
         /\ \A x \in Reads(1, t) :
              x[1] \in {"ne_t", "lt", "lpc", "tfail"} \/ (x[1] = "L" /\ x[3] = k)
<1>1. Decode(t).op = "Finish" /\ Decode(t).k = k
  BY DEF IsR
<1> DEFINE shared == {<<"scratch">>, <<"bk">>, <<"failed">>}
           single    == {<<"tags", k>>, <<"nel", k>>}
           failed == {<<"Q", c[1], c[2]>> : c \in {x \in Tiles : x[2] <= k}}
           row    == {<<"W", k, j>> : j \in k..K-1}
           below  == {<<"tfail", i>> : i \in Rows(k + 1)}
           column == {<<"L", i, k>> : i \in Rows(k)}
           used   == {<<"ne_t", k>>, <<"lt">>, <<"lpc">>}
<1>2. Writes(1, t) = shared \cup single \cup failed \cup row
  <2>1. Writes(1, t) = {<<"scratch">>, <<"bk">>, <<"tags", k>>, <<"nel", k>>, <<"failed">>}
                         \cup failed \cup row
    BY <1>1 DEF Writes, MainWrites
  <2> HIDE DEF failed, row
  <2>2. QED
    BY <2>1
<1>3. Reads(1, t) = used \cup below \cup column
  BY <1>1 DEF Reads, MainReads
<1>4. \A x \in failed : x[1] = "Q" /\ x[3] \in 0..k
  <2>1. \A c \in Tiles : c[2] \in 0..(K - 1)
    BY DEF Tiles
  <2>2. k \in Int
    BY DEF IsR
  <2>3. \A c \in {x \in Tiles : x[2] <= k} : c[2] \in 0..k
    BY <2>1, <2>2
  <2>4. QED
    BY <2>3
<1>5. \A x \in row : x[1] = "W" /\ x[2] = k
  OBVIOUS
<1>6. (\A x \in shared : x[1] \in {"scratch", "bk", "failed"})
      /\ (\A x \in single : x[1] \in {"tags"} \/ (x[1] = "nel" /\ x[2] = k))
  OBVIOUS
<1>7. (\A x \in below : x[1] = "tfail") /\ (\A x \in column : x[1] = "L" /\ x[3] = k)
  OBVIOUS
<1>8. \A x \in used : x[1] \in {"ne_t", "lt", "lpc"}
  OBVIOUS
<1> HIDE DEF shared, single, failed, row, below, column, used
<1>9. QED
  BY <1>2, <1>3, <1>4, <1>5, <1>6, <1>7, <1>8

\* An update does not meet a block column between its single and its tile's.
LEMMA UpdateAlone ==
  ASSUME NEW s, NEW i, NEW j, NEW k, IsU(s, i, j, k),
         NEW t, Spine(t), k < Decode(t).k, Decode(t).k < j
  PROVE  ~Conflicting(1, s, t) /\ ~Conflicting(1, t, s)
<1> DEFINE m == Decode(t).k
           WS == Writes(1, s)
           RS == Reads(1, s)
           WT == Writes(1, t)
           RT == Reads(1, t)
<1>1. /\ k \in Int /\ j \in Int /\ i \in Int /\ j <= i /\ m \in Int /\ k < m /\ m < j
      /\ t \in MainTasks
  BY SpineEnds DEF IsU, Spine
<1>2. /\ \A x \in WS : x[1] \in {"L", "Q"} /\ x[2] = i /\ x[3] = j
      /\ \A x \in RS : \/ x[1] = "nel" /\ x[2] = k
                       \/ x[1] = "L" /\ x[2] = i /\ x[3] = k
                       \/ x[1] = "W" /\ x[2] = k /\ x[3] = j
  BY UpdateTouches
<1>3. WT \cap WS = {} /\ WT \cap RS = {} /\ WS \cap RT = {}
  <2>1. CASE Decode(t).op = "Factor"
    <3>1. IsF(t, m)
      BY <1>1, <2>1, KindOfOp
    <3>2. /\ \A x \in WT : \/ x[1] \in {"scratch", "bk", "lt", "lpc", "tags", "ne_t"}
                           \/ x[1] = "W" /\ x[2] = m
                           \/ x[1] \in {"L", "Q"} /\ (x[2] = m \/ x[3] = m)
          /\ RT = {}
      BY <3>1, FactorTouches
    <3> HIDE DEF m, WS, RS, WT, RT
    <3>3. QED
      BY <1>1, <1>2, <3>2
  <2>2. CASE Decode(t).op = "ApplyN"
    <3>1. IsA(t, Decode(t).i, m)
      BY <1>1, <2>2, KindOfOp
    <3>2. /\ \A x \in WT : (x[1] \in {"L", "Q"} /\ x[3] = m) \/ x[1] = "tfail"
          /\ \A x \in RT : x[1] \in {"ne_t", "lt", "tags"}
      BY <3>1, ApplyTouches
    <3> HIDE DEF m, WS, RS, WT, RT
    <3>3. QED
      BY <1>1, <1>2, <3>2
  <2>3. CASE Decode(t).op = "Finish"
    <3>1. IsR(t, m)
      BY <1>1, <2>3, KindOfOp
    <3>2. /\ \A x \in WT : \/ x[1] \in {"scratch", "bk", "tags", "failed"}
                           \/ x[1] = "nel" /\ x[2] = m
                           \/ x[1] = "Q" /\ x[3] \in 0..m
                           \/ x[1] = "W" /\ x[2] = m
          /\ \A x \in RT : x[1] \in {"ne_t", "lt", "lpc", "tfail"} \/ (x[1] = "L" /\ x[3] = m)
      BY <3>1, FinishTouches
    <3> HIDE DEF m, WS, RS, WT, RT
    <3>3. WT \cap WS = {}
      BY <1>1, <1>2, <3>2
    <3>4. WT \cap RS = {}
      BY <1>1, <1>2, <3>2
    <3>5. WS \cap RT = {}
      BY <1>1, <1>2, <3>2
    <3>6. QED
      BY <3>3, <3>4, <3>5
  <2>4. QED
    BY <1>1, <2>1, <2>2, <2>3, KindOfOp DEF Spine
<1> HIDE DEF WS, RS, WT, RT
<1>4. QED
  BY <1>3 DEF Conflicting, WS, RS, WT, RT

\* The ApplyNs of a block column have rows of their own.
LEMMA AppliesApart ==
  ASSUME NEW s, NEW i, NEW t, NEW a, NEW k, IsA(s, i, k), IsA(t, a, k), i # a
  PROVE  ~Conflicting(1, s, t)
<1> DEFINE WS == Writes(1, s)
           RS == Reads(1, s)
           WT == Writes(1, t)
           RT == Reads(1, t)
<1>1. /\ \A x \in WS : x[1] \in {"L", "Q", "tfail"} /\ x[2] = i
      /\ \A x \in RS : x[1] \in {"ne_t", "lt", "tags"}
  BY ApplyTouches
<1>2. /\ \A x \in WT : x[1] \in {"L", "Q", "tfail"} /\ x[2] = a
      /\ \A x \in RT : x[1] \in {"ne_t", "lt", "tags"}
  BY ApplyTouches
<1> HIDE DEF WS, RS, WT, RT
<1>3. WS \cap WT = {} /\ WS \cap RT = {} /\ WT \cap RS = {}
  BY <1>1, <1>2
<1>4. QED
  BY <1>3 DEF Conflicting, WS, RS, WT, RT

\* Of two updates that meet, one is of an earlier block column, and changes
\* the tile the other changes or reads.
LEMMA UpdatesMeet ==
  ASSUME NEW s, NEW i, NEW j, NEW k, IsU(s, i, j, k),
         NEW t, NEW a, NEW b, NEW c, IsU(t, a, b, c),
         Conflicting(1, s, t), k <= c
  PROVE  i = a /\ (j = b \/ j = c)
<1> DEFINE WS == Writes(1, s)
           RS == Reads(1, s)
           WT == Writes(1, t)
           RT == Reads(1, t)
<1>1. /\ k \in Int /\ c \in Int /\ b \in Int /\ c < b
  BY DEF IsU
<1>2. /\ \A x \in WS : x[1] \in {"L", "Q"} /\ x[2] = i /\ x[3] = j
      /\ \A x \in RS : \/ x[1] = "nel" /\ x[2] = k
                       \/ x[1] = "L" /\ x[2] = i /\ x[3] = k
                       \/ x[1] = "W" /\ x[2] = k /\ x[3] = j
  BY UpdateTouches
<1>3. /\ \A x \in WT : x[1] \in {"L", "Q"} /\ x[2] = a /\ x[3] = b
      /\ \A x \in RT : \/ x[1] = "nel" /\ x[2] = c
                       \/ x[1] = "L" /\ x[2] = a /\ x[3] = c
                       \/ x[1] = "W" /\ x[2] = c /\ x[3] = b
  BY UpdateTouches
<1>4. WS \cap WT # {} \/ WS \cap RT # {} \/ WT \cap RS # {}
  BY DEF Conflicting
<1> HIDE DEF WS, RS, WT, RT
<1>5. CASE WS \cap WT # {}
  BY <1>2, <1>3, <1>5
<1>6. CASE WS \cap RT # {}
  BY <1>2, <1>3, <1>6
<1>7. CASE WT \cap RS # {}
  BY <1>1, <1>2, <1>3, <1>7
<1>8. QED
  BY <1>4, <1>5, <1>6, <1>7

-----------------------------------------------------------------------------
(* Conflicting tasks of the main graph are ordered                         *)

LEMMA MainPlaces ==
  ASSUME NEW t \in MainTasks
  PROVE  /\ Decode(t).k \in 0..(K - 1)
         /\ PlaceOf[1][t] \in Int
         /\ Decode(t).op = "Factor" => PlaceOf[1][t] = 4 * Decode(t).k
         /\ Decode(t).op = "ApplyN" => PlaceOf[1][t] = 4 * Decode(t).k + 1
         /\ Decode(t).op = "Finish" => PlaceOf[1][t] = 4 * Decode(t).k + 2
         /\ Decode(t).op = "Update" => PlaceOf[1][t] = 4 * Decode(t).k + 3
<1>1. PlaceOf[1][t] = Place(1, t)
  BY DEF PlaceOf, Graphs, Tasks
<1> DEFINE d == Decode(t)
           r == CASE d.op = "Factor" -> 0 [] d.op = "ApplyN" -> 1 [] d.op = "Finish" -> 2 [] OTHER -> 3
<1>2. Place(1, t) = 4 * d.k + r
  BY DEF Place
<1>3. d.op \in {"Factor", "Finish", "ApplyN", "Update"} /\ d.k \in 0..(K - 1)
  BY KindOfOp DEF IsF, IsR, IsA, IsU
<1> HIDE DEF d
<1>4. /\ d.op = "Factor" => r = 0
      /\ d.op = "ApplyN" => r = 1
      /\ d.op = "Finish" => r = 2
      /\ d.op = "Update" => r = 3
  OBVIOUS
<1> HIDE DEF r
<1>5. d.k \in Int
  BY <1>3
<1>6. QED
  BY <1>1, <1>2, <1>3, <1>4, <1>5 DEF d

\* s comes first in the serial sweep, and ends before t begins.
Ordered(s, t) == PlaceOf[1][s] < PlaceOf[1][t] /\ Before(1, s, t)

LEMMA ConflictsMeet ==
  ASSUME NEW g, NEW s, NEW t, Conflicting(g, s, t)
  PROVE  Conflicting(g, t, s)
BY DEF Conflicting

LEMMA SameColumn ==
  ASSUME NEW s, NEW t, Spine(s), Spine(t), s # t, Conflicting(1, s, t),
         Decode(s).k = Decode(t).k
  PROVE  Ordered(s, t) \/ Ordered(t, s)
<1> DEFINE d == Decode(s)
           e == Decode(t)
<1>1. /\ s \in MainTasks /\ t \in MainTasks /\ d.k = e.k
      /\ d.op \in {"Factor", "ApplyN", "Finish"} /\ e.op \in {"Factor", "ApplyN", "Finish"}
  BY KindOfOp DEF Spine
<1>2. d.k \in Int
  BY <1>1, MainPlaces
<1>3. ~(d.op = "Factor" /\ e.op = "Factor") /\ ~(d.op = "Finish" /\ e.op = "Finish")
  BY <1>1, KindOfOp DEF IsF, IsR
<1>4. ~(d.op = "ApplyN" /\ e.op = "ApplyN")
  <2>1. SUFFICES ASSUME d.op = "ApplyN", e.op = "ApplyN" PROVE FALSE
    OBVIOUS
  <2>2. IsA(s, d.i, d.k) /\ IsA(t, e.i, d.k)
    BY <1>1, <2>1, KindOfOp
  <2>3. s = idA(d.i, d.k) /\ t = idA(e.i, d.k)
    BY <2>2 DEF IsA
  <2>4. d.i # e.i
    BY <2>3
  <2>5. QED
    BY <2>2, <2>4, AppliesApart
<1>5. ASSUME EdgeRel(d, e) PROVE Before(1, s, t)
  BY <1>1, <1>5, MainEdgeBefore
<1>6. ASSUME EdgeRel(e, d) PROVE Before(1, t, s)
  BY <1>1, <1>6, MainEdgeBefore
<1>7. /\ d.op = "Factor" => PlaceOf[1][s] = 4 * d.k
      /\ d.op = "ApplyN" => PlaceOf[1][s] = 4 * d.k + 1
      /\ d.op = "Finish" => PlaceOf[1][s] = 4 * d.k + 2
  BY <1>1, MainPlaces
<1>8. /\ e.op = "Factor" => PlaceOf[1][t] = 4 * d.k
      /\ e.op = "ApplyN" => PlaceOf[1][t] = 4 * d.k + 1
      /\ e.op = "Finish" => PlaceOf[1][t] = 4 * d.k + 2
  BY <1>1, MainPlaces
<1> HIDE DEF d, e
<1>9. /\ d.op = "Factor" /\ e.op # "Factor" => EdgeRel(d, e)
      /\ d.op = "ApplyN" /\ e.op = "Finish" => EdgeRel(d, e)
      /\ e.op = "Factor" /\ d.op # "Factor" => EdgeRel(e, d)
      /\ e.op = "ApplyN" /\ d.op = "Finish" => EdgeRel(e, d)
  BY <1>1 DEF EdgeRel
<1>10. CASE d.op = "Factor" /\ e.op # "Factor"
  BY <1>1, <1>2, <1>5, <1>7, <1>8, <1>9, <1>10 DEF Ordered
<1>11. CASE d.op = "ApplyN" /\ e.op = "Finish"
  BY <1>1, <1>2, <1>5, <1>7, <1>8, <1>9, <1>11 DEF Ordered
<1>12. CASE e.op = "Factor" /\ d.op # "Factor"
  BY <1>1, <1>2, <1>6, <1>7, <1>8, <1>9, <1>12 DEF Ordered
<1>13. CASE e.op = "ApplyN" /\ d.op = "Finish"
  BY <1>1, <1>2, <1>6, <1>7, <1>8, <1>9, <1>13 DEF Ordered
<1>14. QED
  BY <1>1, <1>3, <1>4, <1>10, <1>11, <1>12, <1>13

LEMMA SpinePair ==
  ASSUME NEW s, NEW t, Spine(s), Spine(t), s # t, Conflicting(1, s, t)
  PROVE  Ordered(s, t) \/ Ordered(t, s)
<1>1. ASSUME NEW x, NEW y, Spine(x), Spine(y), Decode(x).k < Decode(y).k
      PROVE  Ordered(x, y)
  <2>1. x \in MainTasks /\ y \in MainTasks
        /\ Decode(x).op \in {"Factor", "ApplyN", "Finish"}
        /\ Decode(y).op \in {"Factor", "ApplyN", "Finish"}
    BY <1>1, KindOfOp DEF Spine
  <2>2. Before(1, x, y)
    BY <1>1, SpineOrder
  <2>3. /\ PlaceOf[1][x] \in (4 * Decode(x).k)..(4 * Decode(x).k + 2)
        /\ PlaceOf[1][y] \in (4 * Decode(y).k)..(4 * Decode(y).k + 2)
        /\ Decode(x).k \in Int /\ Decode(y).k \in Int
    <3>1. ASSUME NEW u \in MainTasks, Decode(u).op \in {"Factor", "ApplyN", "Finish"}
          PROVE  PlaceOf[1][u] \in (4 * Decode(u).k)..(4 * Decode(u).k + 2) /\ Decode(u).k \in Int
      BY <3>1, MainPlaces
    <3>2. QED
      BY <2>1, <3>1
  <2>4. QED
    BY <1>1, <2>2, <2>3 DEF Ordered
<1>2. Decode(s).k \in Int /\ Decode(t).k \in Int
  BY MainPlaces DEF Spine
<1>3. CASE Decode(s).k = Decode(t).k
  BY <1>3, SameColumn
<1>4. QED
  BY <1>1, <1>2, <1>3

LEMMA UpdateAndSpine ==
  ASSUME NEW s \in MainTasks, Decode(s).op = "Update", NEW t, Spine(t), Conflicting(1, s, t)
  PROVE  Ordered(s, t) \/ Ordered(t, s)
<1> DEFINE i == Decode(s).i
           j == Decode(s).j
           k == Decode(s).k
           m == Decode(t).k
<1>1. IsU(s, i, j, k)
  BY KindOfOp
<1>2. k \in Int /\ j \in Int /\ k < j /\ PlaceOf[1][s] = 4 * k + 3
  BY <1>1, MainPlaces DEF IsU
<1>3. m \in Int /\ PlaceOf[1][t] \in (4 * m)..(4 * m + 2)
  BY KindOfOp, MainPlaces DEF Spine
<1>4. m <= k \/ m >= j
  <2>1. SUFFICES ASSUME k < m, m < j PROVE FALSE
    BY <1>2, <1>3
  <2>2. QED
    BY <1>1, <2>1, UpdateAlone
<1>5. /\ m <= k => Before(1, t, s)
      /\ m >= j => Before(1, s, t)
  BY <1>1, UpdateSpine
<1> HIDE DEF i, j, k, m
<1>6. QED
  BY <1>2, <1>3, <1>4, <1>5 DEF Ordered

LEMMA UpdatePair ==
  ASSUME NEW s \in MainTasks, Decode(s).op = "Update",
         NEW t \in MainTasks, Decode(t).op = "Update",
         s # t, Conflicting(1, s, t), Decode(s).k <= Decode(t).k
  PROVE  Ordered(s, t)
<1> DEFINE i == Decode(s).i
           j == Decode(s).j
           k == Decode(s).k
           a == Decode(t).i
           b == Decode(t).j
           c == Decode(t).k
<1>1. IsU(s, i, j, k) /\ IsU(t, a, b, c) /\ k <= c
  BY KindOfOp
<1>2. i = a /\ (j = b \/ j = c)
  BY <1>1, UpdatesMeet
<1>3. PlaceOf[1][s] = 4 * k + 3 /\ PlaceOf[1][t] = 4 * c + 3
  BY MainPlaces
<1> HIDE DEF i, j, k, a, b, c
<1>4. /\ k \in 0..(K - 1) /\ j \in (k + 1)..(K - 1) /\ s = idU(i, j, k)
      /\ c \in 0..(K - 1) /\ b \in (c + 1)..(K - 1) /\ t = idU(a, b, c)
  BY <1>1 DEF IsU
<1>5. k \in Int /\ c \in Int /\ j \in Int /\ k < j
  BY <1>4
<1>6. CASE j = b
  <2>1. k # c
    BY <1>2, <1>4, <1>6
  <2>2. c \in (k + 1)..(j - 1)
    BY <1>1, <1>4, <1>5, <1>6, <2>1
  <2>3. Before(1, s, idU(i, j, c))
    BY <1>1, <2>2, TileOrder
  <2>4. Before(1, s, t)
    BY <1>2, <1>4, <1>6, <2>3
  <2>5. QED
    BY <1>1, <1>3, <1>5, <2>1, <2>4 DEF Ordered
<1>7. CASE j = c
  <2>1. Before(1, s, idF(c)) /\ Before(1, idF(c), idR(c)) /\ Before(1, idR(c), t)
    BY <1>1, <1>4, <1>7, UpdateFactor, SpineSteps, FinishUpdate
  <2>2. Before(1, s, t)
    BY <2>1, BeforeTrans
  <2>3. QED
    BY <1>3, <1>5, <1>7, <2>2 DEF Ordered
<1>8. QED
  BY <1>2, <1>6, <1>7

LEMMA MainOrderSound == OrderSound(1)
<1>1. SUFFICES ASSUME NEW t \in MainTasks, NEW s \in Conflicts[1][t]
               PROVE  /\ PlaceOf[1][s] \in Int /\ PlaceOf[1][t] \in Int
                      /\ Ordered(s, t) \/ Ordered(t, s)
  BY DEF OrderSound, Ordered, Tasks
<1>2. s \in MainTasks /\ s # t /\ Conflicting(1, s, t)
  BY <1>1 DEF Conflicts, Graphs, Tasks
<1>3. PlaceOf[1][s] \in Int /\ PlaceOf[1][t] \in Int
  BY <1>2, MainPlaces
<1>4. Conflicting(1, t, s)
  BY <1>2, ConflictsMeet
<1>5. CASE Decode(s).op # "Update" /\ Decode(t).op # "Update"
  BY <1>2, <1>3, <1>5, SpinePair DEF Spine
<1>6. CASE Decode(s).op = "Update" /\ Decode(t).op # "Update"
  <2>1. Spine(t)
    BY <1>6 DEF Spine
  <2>2. Ordered(s, t) \/ Ordered(t, s)
    BY <1>2, <1>6, <2>1, UpdateAndSpine
  <2>3. QED
    BY <1>3, <2>2
<1>7. CASE Decode(s).op # "Update" /\ Decode(t).op = "Update"
  <2>1. Spine(s)
    BY <1>2, <1>7 DEF Spine
  <2>2. Ordered(s, t) \/ Ordered(t, s)
    BY <1>4, <1>7, <2>1, UpdateAndSpine
  <2>3. QED
    BY <1>3, <2>2
<1>8. CASE Decode(s).op = "Update" /\ Decode(t).op = "Update"
  <2>1. Decode(s).k \in Int /\ Decode(t).k \in Int
    BY <1>2, MainPlaces
  <2>2. CASE Decode(s).k <= Decode(t).k
    BY <1>2, <1>3, <1>8, <2>2, UpdatePair
  <2>3. CASE Decode(t).k <= Decode(s).k
    BY <1>2, <1>3, <1>4, <1>8, <2>3, UpdatePair
  <2>4. QED
    BY <2>1, <2>2, <2>3
<1>9. QED
  BY <1>5, <1>6, <1>7, <1>8

-----------------------------------------------------------------------------
(* The trailing graph: each FormW is followed by the tiles of its column   *)

\* The tiles of a column.
ColumnIds(j) == (KT + j * KT + j)..(KT + j * KT + (KT - 1))

LEMMA TileIds ==
  ASSUME NEW j \in 0..(KT - 1), NEW i \in j..(KT - 1)
  PROVE  LET t == KT + j * KT + i
         IN  /\ t \in TrailTasks /\ t \in Nat /\ t >= KT
             /\ (t - KT) % KT = i /\ (t - KT) \div KT = j
<1> DEFINE n == KT
           c == j * n
           t == n + c + i
<1>1. n \in Nat /\ n >= 1 /\ j \in Nat /\ i \in 0..(n - 1) /\ c \in Nat
  BY GridFacts
<1>2. (c + i) % n = i /\ (c + i) \div n = j
  <2> HIDE DEF n
  <2>1. QED
    BY <1>1, Digits
<1>3. t \in TrailTasks
  <2> DEFINE S == {y \in (0..KT-1) \X (0..KT-1) : y[1] >= y[2]}
             x == <<i, j>>
  <2>1. x \in S /\ t = KT + x[2] * KT + x[1]
    BY <1>1
  <2>2. t \in {KT + y[2] * KT + y[1] : y \in S}
    BY <2>1
  <2>3. QED
    BY <2>2 DEF TrailTasks
<1> HIDE DEF c, n
<1>4. t - n = c + i /\ t \in Nat /\ t >= n
  BY <1>1
<1>5. QED
  BY <1>2, <1>3, <1>4 DEF c, n

LEMMA ColumnMembers ==
  ASSUME NEW j \in 0..(KT - 1), NEW t
  PROVE  t \in ColumnIds(j) <=> \E i \in j..(KT - 1) : t = KT + j * KT + i
<1> DEFINE n == KT
           c == j * n
<1>1. n \in Nat /\ j \in Nat /\ c \in Nat
  BY GridFacts
<1>2. ColumnIds(j) = (n + c + j)..(n + c + (n - 1))
  BY DEF ColumnIds
<1>3. ASSUME t \in (n + c + j)..(n + c + (n - 1)) PROVE \E i \in j..(n - 1) : t = n + c + i
  <2> HIDE DEF n, c
  <2>1. t - (n + c) \in j..(n - 1) /\ t = n + c + (t - (n + c))
    BY <1>1, <1>3
  <2>2. QED
    BY <2>1
<1>4. ASSUME NEW i \in j..(n - 1), t = n + c + i PROVE t \in (n + c + j)..(n + c + (n - 1))
  <2> HIDE DEF n, c
  <2>1. QED
    BY <1>1, <1>4
<1>5. QED
  BY <1>2, <1>3, <1>4

LEMMA TrailCases ==
  ASSUME NEW t \in TrailTasks
  PROVE  t \in 0..(KT - 1) \/ \E j \in 0..(KT - 1) : t \in ColumnIds(j)
<1>1. CASE t \in {KT + y[2] * KT + y[1] : y \in {z \in (0..KT-1) \X (0..KT-1) : z[1] >= z[2]}}
  <2>1. PICK i \in 0..(KT - 1), j \in 0..(KT - 1) : i >= j /\ t = KT + j * KT + i
    BY <1>1
  <2>2. i \in j..(KT - 1)
    BY <2>1
  <2>3. QED
    BY <2>1, <2>2, ColumnMembers
<1>2. QED
  BY <1>1 DEF TrailTasks

\* What a tile's id tells.
LEMMA ColumnIdFacts ==
  ASSUME NEW j \in 0..(KT - 1), NEW t \in ColumnIds(j)
  PROVE  /\ t \in TrailTasks /\ t \in Nat /\ t >= KT /\ ~(t < KT)
         /\ (t - KT) \div KT = j /\ (t - KT) % KT \in j..(KT - 1)
         /\ t = KT + j * KT + ((t - KT) % KT)
<1>1. PICK i \in j..(KT - 1) : t = KT + j * KT + i
  BY ColumnMembers
<1>2. t \in TrailTasks /\ t \in Nat /\ t >= KT /\ (t - KT) % KT = i /\ (t - KT) \div KT = j
  BY <1>1, TileIds
<1>3. ~(t < KT)
  BY <1>2, GridFacts
<1>4. QED
  BY <1>1, <1>2, <1>3

LEMMA FormFacts ==
  ASSUME NEW t \in 0..(KT - 1)
  PROVE  t \in TrailTasks /\ t \in Nat /\ t < KT
BY GridFacts DEF TrailTasks

LEMMA SuccOfForm ==
  ASSUME NEW t \in TrailTasks
  PROVE  /\ TrailSuccessors(t) \in Seq(TrailTasks) /\ IsInjective(TrailSuccessors(t))
         /\ t \in 0..(KT - 1) => ToSet(TrailSuccessors(t)) = ColumnIds(t)
         /\ t \notin 0..(KT - 1) => ToSet(TrailSuccessors(t)) = {}
<1>1. CASE t \in 0..(KT - 1)
  <2> DEFINE n == KT
             a == n + t * n + t
             len == n - t
             r == [x \in 1..len |-> a + x - 1]
  <2>1. n \in Nat /\ t \in Nat /\ t * n \in Nat /\ len \in Nat /\ a \in Int /\ ~(t >= n)
    BY <1>1, GridFacts
  <2>2. TrailSuccessors(t) = r
    BY <2>1 DEF TrailSuccessors
  <2>3. ColumnIds(t) = a..(a + len - 1)
    <3> DEFINE c == t * n
    <3>1. ColumnIds(t) = (n + c + t)..(n + c + (n - 1)) /\ a = n + c + t
      BY DEF ColumnIds
    <3> HIDE DEF n, c, a
    <3>2. c \in Nat
      BY <2>1 DEF c
    <3>3. a + len - 1 = n + c + (n - 1)
      BY <2>1, <3>1, <3>2
    <3>4. QED
      BY <3>1, <3>3
  <2> HIDE DEF n, a, len
  <2>4. r \in Seq(Int) /\ IsInjective(r) /\ ToSet(r) = a..(a + len - 1)
    BY <2>1, RunMembers
  <2> HIDE DEF r
  <2>5. ToSet(r) \subseteq TrailTasks
    BY <1>1, <2>3, <2>4, ColumnIdFacts
  <2>6. r \in Seq(TrailTasks)
    BY <2>4, <2>5, SeqOfMembers
  <2>7. QED
    BY <1>1, <2>2, <2>3, <2>4, <2>6
<1>2. CASE t \notin 0..(KT - 1)
  <2>1. PICK j \in 0..(KT - 1) : t \in ColumnIds(j)
    BY <1>2, TrailCases
  <2>2. TrailSuccessors(t) = <<>>
    BY <2>1, ColumnIdFacts DEF TrailSuccessors
  <2>3. QED
    BY <1>2, <2>2 DEF ToSet, IsInjective
<1>3. QED
  BY <1>1, <1>2

LEMMA TrailPreds ==
  /\ \A t \in 0..(KT - 1) : Preds(2, t) = {}
  /\ \A j \in 0..(KT - 1) : \A t \in ColumnIds(j) : Preds(2, t) = {j}
<1>1. Tasks(2) = TrailTasks /\ \A s \in TrailTasks : SuccessorsOf[2][s] = TrailSuccessors(s)
  BY DEF Tasks, SuccessorsOf, Successors, Graphs
<1>2. ASSUME NEW s \in TrailTasks, NEW t, t \in ToSet(TrailSuccessors(s))
      PROVE  s \in 0..(KT - 1) /\ t \in ColumnIds(s)
  BY <1>2, SuccOfForm
<1>3. ASSUME NEW t \in 0..(KT - 1), NEW s \in Preds(2, t) PROVE FALSE
  <2>1. s \in 0..(KT - 1) /\ t \in ColumnIds(s)
    BY <1>1, <1>2, <1>3 DEF Preds
  <2>2. QED
    BY <2>1, ColumnIdFacts, FormFacts
<1>4. ASSUME NEW j \in 0..(KT - 1), NEW t \in ColumnIds(j) PROVE Preds(2, t) = {j}
  <2>1. ASSUME NEW s \in Preds(2, t) PROVE s = j
    <3>1. s \in 0..(KT - 1) /\ t \in ColumnIds(s)
      BY <1>1, <1>2, <2>1 DEF Preds
    <3>2. QED
      BY <3>1, ColumnIdFacts
  <2>2. j \in Preds(2, t)
    <3>1. j \in TrailTasks /\ ToSet(TrailSuccessors(j)) = ColumnIds(j)
      BY FormFacts, SuccOfForm
    <3>2. QED
      BY <1>1, <3>1 DEF Preds
  <2>3. QED
    BY <2>1, <2>2
<1>5. QED
  BY <1>3, <1>4

-----------------------------------------------------------------------------
(* The number of tasks of the trailing graph                               *)

\* The FormWs, and the tiles of the columns before m.
TrailUpTo(m) == 0..(KT - 1) \cup UNION {ColumnIds(j) : j \in 0..(m - 1)}

LEMMA AllTrailing == TrailUpTo(KT) = TrailTasks
<1>1. ASSUME NEW t \in TrailTasks PROVE t \in TrailUpTo(KT)
  BY TrailCases DEF TrailUpTo
<1>2. ASSUME NEW t \in TrailUpTo(KT) PROVE t \in TrailTasks
  <2>1. CASE t \in 0..(KT - 1)
    BY <2>1, FormFacts
  <2>2. CASE t \in UNION {ColumnIds(j) : j \in 0..(KT - 1)}
    BY <2>2, ColumnIdFacts
  <2>3. QED
    BY <1>2, <2>1, <2>2 DEF TrailUpTo
<1>3. QED
  BY <1>1, <1>2

LEMMA TrailColumnSize ==
  ASSUME NEW j \in 0..(KT - 1)
  PROVE  /\ IsFiniteSet(ColumnIds(j)) /\ Cardinality(ColumnIds(j)) = KT - j
         /\ KT - j \in Nat
<1> DEFINE n == KT
           c == j * n
           a == n + c + j
           b == n + c + (n - 1)
<1>1. n \in Nat /\ j \in Nat /\ c \in Nat /\ n - j \in Nat /\ j < n
  BY GridFacts
<1>2. ColumnIds(j) = a..b
  BY DEF ColumnIds
<1> HIDE DEF n, c
<1>3. a \in Int /\ b \in Int /\ (IF a > b THEN 0 ELSE b - a + 1) = n - j
  BY <1>1
<1> HIDE DEF a, b
<1>4. IsFiniteSet(a..b) /\ Cardinality(a..b) = IF a > b THEN 0 ELSE b - a + 1
  BY <1>3, FS_Interval
<1>5. QED
  BY <1>1, <1>2, <1>3, <1>4 DEF n

\* tile_tasks.cpp counts what it makes: TrailRoom is the number of tasks.
LEMMA TrailRoomSound == IsFiniteSet(TrailTasks) /\ Cardinality(TrailTasks) = TrailRoom
<1> DEFINE n == KT
           Good(m) == /\ IsFiniteSet(TrailUpTo(m)) /\ Cardinality(TrailUpTo(m)) \in Nat
                      /\ 2 * Cardinality(TrailUpTo(m)) = 2 * n + 2 * (m * n) - m * (m - 1)
<1>1. n \in Nat
  BY GridFacts
<1>2. Good(0)
  <2>1. TrailUpTo(0) = 0..(n - 1)
    BY DEF TrailUpTo
  <2> DEFINE b == n - 1
  <2>2. b \in Int /\ 0 \in Int
    BY <1>1
  <2> HIDE DEF b
  <2>3. IsFiniteSet(0..b) /\ Cardinality(0..b) = IF 0 > b THEN 0 ELSE b - 0 + 1
    BY <2>2, FS_Interval
  <2> HIDE DEF n
  <2>4. (IF 0 > b THEN 0 ELSE b - 0 + 1) = n
    BY <1>1 DEF b
  <2>5. Cardinality(TrailUpTo(0)) = n /\ IsFiniteSet(TrailUpTo(0))
    BY <2>1, <2>3, <2>4 DEF b
  <2>6. 0 * n = 0 /\ 0 * (0 - 1) = 0
    BY <1>1
  <2>7. QED
    BY <1>1, <2>5, <2>6
<1>3. ASSUME NEW m \in 0..(n - 1), Good(m) PROVE Good(m + 1)
  <2> DEFINE old == TrailUpTo(m)
             u == ColumnIds(m)
  <2>1. TrailUpTo(m + 1) = old \cup u
    <3>1. 0..((m + 1) - 1) = 0..(m - 1) \cup {m}
      BY <1>1
    <3>2. QED
      BY <3>1 DEF TrailUpTo
  <2>2. old \cap u = {}
    <3>1. SUFFICES ASSUME NEW t \in u, t \in old PROVE FALSE
      OBVIOUS
    <3>2. ~(t < KT) /\ (t - KT) \div KT = m
      BY ColumnIdFacts
    <3>3. t \notin 0..(KT - 1)
      BY <3>2, FormFacts
    <3>4. PICK j \in 0..(m - 1) : t \in ColumnIds(j)
      BY <3>1, <3>3 DEF TrailUpTo
    <3>5. j \in 0..(KT - 1) /\ j # m
      BY <1>1
    <3>6. QED
      BY <3>2, <3>4, <3>5, ColumnIdFacts
  <2>3. IsFiniteSet(u) /\ Cardinality(u) = n - m /\ n - m \in Nat
    BY TrailColumnSize
  <2>4. /\ IsFiniteSet(old) /\ Cardinality(old) \in Nat
        /\ 2 * Cardinality(old) = 2 * n + 2 * (m * n) - m * (m - 1)
    BY <1>3
  <2> HIDE DEF old, u
  <2>5. /\ IsFiniteSet(old \cup u)
        /\ Cardinality(old \cup u) = Cardinality(old) + Cardinality(u) - Cardinality(old \cap u)
    BY <2>3, <2>4, FS_Union
  <2>6. Cardinality(old \cap u) = 0
    BY <2>2, FS_EmptySet
  <2> DEFINE p == Cardinality(old)
             q == m * n
             z == m * (m - 1)
  <2>7. (m + 1) * n = q + n /\ (m + 1) * ((m + 1) - 1) = z + 2 * m /\ q \in Int /\ z \in Int /\ m \in Int
    BY <1>1
  <2>8. Cardinality(old \cup u) = p + (n - m)
    <3> HIDE DEF n
    <3>1. QED
      BY <2>3, <2>4, <2>5, <2>6
  <2>9. 2 * p = 2 * n + 2 * q - z /\ p \in Nat
    BY <2>4
  <2> HIDE DEF p, q, z, n
  <2>10. 2 * (p + (n - m)) = 2 * n + 2 * (q + n) - (z + 2 * m) /\ p + (n - m) \in Nat
    BY <1>1, <2>3, <2>7, <2>9
  <2>11. QED
    BY <2>1, <2>5, <2>7, <2>8, <2>10
<1>4. Good(n)
  <2> DEFINE P == {m \in Nat : m <= n => Good(m)}
  <2>1. \A m \in Nat : m \in P
    <3> HIDE DEF Good
    <3>1. 0 \in P
      BY <1>2
    <3>2. ASSUME NEW m \in P PROVE m + 1 \in P
      <4>1. m \in Nat /\ (m <= n => Good(m)) /\ (m + 1 <= n => m \in 0..(n - 1) /\ m <= n)
        BY <1>1
      <4>2. QED
        BY <1>3, <4>1
    <3> HIDE DEF P
    <3>3. P \in SUBSET Nat
      BY DEF P
    <3>4. QED
      BY <3>1, <3>2, <3>3, Upwards
  <2>2. n \in P /\ n <= n
    BY <1>1, <2>1
  <2> HIDE DEF Good
  <2>3. QED
    BY <2>2
<1>5. IsFiniteSet(TrailTasks) /\ Cardinality(TrailTasks) \in Nat
      /\ 2 * Cardinality(TrailTasks) = 2 * n + 2 * (n * n) - n * (n - 1)
  BY <1>4, AllTrailing
<1> DEFINE c == Cardinality(TrailTasks)
           q == n * n
<1>6. TrailRoom = n + (n * (n + 1)) \div 2
  BY DEF TrailRoom
<1>7. n * (n + 1) = q + n /\ n * (n - 1) = q - n /\ q \in Int
  BY <1>1
<1>8. 2 * c = 2 * n + 2 * q - (q - n) /\ c \in Nat
  BY <1>5, <1>7
<1> HIDE DEF c, q, n
<1>9. q + n = 2 * (c - n) /\ c - n \in Int
  BY <1>1, <1>7, <1>8
<1>10. (q + n) \div 2 = c - n
  BY <1>9
<1>11. c = TrailRoom
  BY <1>1, <1>6, <1>7, <1>8, <1>10
<1>12. QED
  BY <1>5, <1>11 DEF c

LEMMA TrailSound == GraphSound(2)
<1>1. Tasks(2) = TrailTasks /\ 2 \in Graphs
  BY DEF Tasks, Graphs
<1>2. TrailTasks \subseteq Nat /\ IsFiniteSet(TrailTasks)
  BY TrailRoomSound, TrailCases, ColumnIdFacts, FormFacts
<1>3. ASSUME NEW t \in TrailTasks
      PROVE  SuccessorsOf[2][t] \in Seq(TrailTasks) /\ IsInjective(SuccessorsOf[2][t])
  BY <1>1, SuccOfForm DEF SuccessorsOf, Successors
<1>4. ASSUME NEW t \in TrailTasks PROVE Pending(2)[t] = Cardinality(Preds(2, t))
  <2>1. Pending(2)[t] = IF t < KT THEN 0 ELSE 1
    BY <1>1 DEF Pending, TrailPending
  <2>2. CASE t \in 0..(KT - 1)
    BY <2>1, <2>2, TrailPreds, FormFacts, FS_EmptySet
  <2>3. CASE \E j \in 0..(KT - 1) : t \in ColumnIds(j)
    <3>1. PICK j \in 0..(KT - 1) : t \in ColumnIds(j)
      BY <2>3
    <3>2. Preds(2, t) = {j} /\ ~(t < KT)
      BY <3>1, TrailPreds, ColumnIdFacts
    <3>3. Cardinality({j}) = 1
      BY FS_Singleton
    <3>4. QED
      BY <2>1, <3>2, <3>3
  <2>4. QED
    BY <2>2, <2>3, TrailCases
<1>5. /\ Roots(2) \in Seq(TrailTasks) /\ IsInjective(Roots(2))
      /\ \A r \in ToSet(Roots(2)) : Preds(2, r) = {}
  <2> DEFINE n == IF KT - 1 < 0 THEN 0 ELSE (KT - 1) - 0 + 1
             q == [x \in 1..n |-> 0 + x - 1]
  <2>1. n \in Nat /\ 0 + n - 1 = KT - 1
    BY GridFacts
  <2>2. Roots(2) = q
    BY DEF Roots, Seq0
  <2> HIDE DEF n
  <2>3. q \in Seq(Int) /\ IsInjective(q) /\ ToSet(q) = 0..(0 + n - 1)
    BY <2>1, RunMembers
  <2> HIDE DEF q
  <2>4. ToSet(q) \subseteq TrailTasks
    BY <2>1, <2>3, FormFacts
  <2>5. q \in Seq(TrailTasks)
    BY <2>3, <2>4, SeqOfMembers
  <2>6. QED
    BY <2>1, <2>2, <2>3, <2>5, TrailPreds
<1>6. UrgentTasks[2] \subseteq Tasks(2) /\ OtherTasks[2] = Tasks(2) \ UrgentTasks[2]
  BY <1>1 DEF UrgentTasks, OtherTasks
<1>7. QED
  BY <1>1, <1>2, <1>3, <1>4, <1>5, <1>6 DEF GraphSound

\* A task reads only the rows and the W its column's FormW wrote.
LEMMA TrailOrderSound == OrderSound(2)
<1>1. Tasks(2) = TrailTasks /\ 2 \in Graphs
  BY DEF Tasks, Graphs
<1>2. \A t \in TrailTasks : PlaceOf[2][t] = IF t < KT THEN 0 ELSE 1
  BY <1>1 DEF PlaceOf, Place
<1>3. \A t \in 0..(KT - 1) : Writes(2, t) = {<<"W", t>>} /\ Reads(2, t) = {<<"rows", t>>}
  BY FormFacts DEF Writes, Reads, TrailWrites, TrailReads
<1>4. ASSUME NEW j \in 0..(KT - 1), NEW t \in ColumnIds(j)
      PROVE  /\ Writes(2, t) = {<<"C", (t - KT) % KT, j>>}
             /\ Reads(2, t) = {<<"rows", (t - KT) % KT>>, <<"W", j>>}
  <2>1. ~(t < KT) /\ (t - KT) \div KT = j
    BY <1>4, ColumnIdFacts
  <2>2. QED
    BY <2>1 DEF Writes, Reads, TrailWrites, TrailReads
<1>5. ASSUME NEW s \in 0..(KT - 1), NEW j \in 0..(KT - 1), NEW t \in ColumnIds(j),
             Conflicting(2, s, t)
      PROVE  PlaceOf[2][s] < PlaceOf[2][t] /\ Before(2, s, t)
  <2>1. s = j
    BY <1>3, <1>4, <1>5 DEF Conflicting
  <2>2. s \in Preds(2, t)
    BY <1>5, <2>1, TrailPreds
  <2>3. PlaceOf[2][s] = 0 /\ PlaceOf[2][t] = 1
    BY <1>2, <1>5, FormFacts, ColumnIdFacts
  <2>4. QED
    BY <2>2, <2>3, BeforeEdge
<1>6. ASSUME NEW s \in 0..(KT - 1), NEW t \in 0..(KT - 1), s # t PROVE ~Conflicting(2, s, t)
  BY <1>3, <1>6 DEF Conflicting
<1>7. ASSUME NEW a \in 0..(KT - 1), NEW s \in ColumnIds(a),
             NEW b \in 0..(KT - 1), NEW t \in ColumnIds(b), s # t
      PROVE  ~Conflicting(2, s, t)
  <2> DEFINE i == (s - KT) % KT
             c == (t - KT) % KT
  <2>1. s = KT + a * KT + i /\ t = KT + b * KT + c
    BY <1>7, ColumnIdFacts
  <2>2. /\ Writes(2, s) = {<<"C", i, a>>} /\ Reads(2, s) = {<<"rows", i>>, <<"W", a>>}
        /\ Writes(2, t) = {<<"C", c, b>>} /\ Reads(2, t) = {<<"rows", c>>, <<"W", b>>}
    BY <1>4, <1>7
  <2> HIDE DEF i, c
  <2>3. ~(i = c /\ a = b)
    BY <1>7, <2>1
  <2>4. QED
    BY <2>2, <2>3 DEF Conflicting
<1>8. SUFFICES ASSUME NEW t \in TrailTasks, NEW s \in Conflicts[2][t]
               PROVE  /\ PlaceOf[2][s] \in Int /\ PlaceOf[2][t] \in Int
                      /\ \/ PlaceOf[2][s] < PlaceOf[2][t] /\ Before(2, s, t)
                         \/ PlaceOf[2][t] < PlaceOf[2][s] /\ Before(2, t, s)
  BY <1>1 DEF OrderSound
<1>9. s \in TrailTasks /\ s # t /\ Conflicting(2, s, t) /\ Conflicting(2, t, s)
  BY <1>1, <1>8, ConflictsMeet DEF Conflicts
<1>10. PlaceOf[2][s] \in Int /\ PlaceOf[2][t] \in Int
  BY <1>2, <1>9
<1>11. \/ s \in 0..(KT - 1) /\ t \in 0..(KT - 1)
       \/ s \in 0..(KT - 1) /\ \E j \in 0..(KT - 1) : t \in ColumnIds(j)
       \/ t \in 0..(KT - 1) /\ \E j \in 0..(KT - 1) : s \in ColumnIds(j)
       \/ \E a \in 0..(KT - 1) : \E b \in 0..(KT - 1) : s \in ColumnIds(a) /\ t \in ColumnIds(b)
  BY <1>9, TrailCases
<1>12. QED
  BY <1>5, <1>6, <1>7, <1>9, <1>10, <1>11

-----------------------------------------------------------------------------
(* The two graphs keep their promises, and the runner's follow             *)

LEMMA BothGraphs ==
  GraphsSound /\ \A g \in Graphs : OrderSound(g) /\ RoomSound(g)
<1>1. GraphSound(1) /\ GraphSound(2) /\ OrderSound(1) /\ OrderSound(2)
  BY MainSound, TrailSound, MainOrderSound, TrailOrderSound
<1>2. RoomSound(1)
  BY MainRoomSound DEF RoomSound, Tasks
<1>3. RoomSound(2)
  BY TrailRoomSound DEF RoomSound, Tasks
<1>4. QED
  BY <1>1, <1>2, <1>3 DEF GraphsSound, Graphs

LEMMA RunnerInvHolds == Spec => []RunnerInv
<1>1. Init => RunnerInv
  BY BothGraphs, InitRunner
<1>2. RunnerInv /\ [Next]_vars => RunnerInv'
  BY BothGraphs, RunnerInductive
<1>3. QED
  BY <1>1, <1>2, PTL DEF Spec

\* Of every grid: nobody sleeps while a task is ready, no helper is left in
\* the job when run() ends, and the ready queues never outgrow the tasks the
\* code counts (TileRunner::work, help, run).
THEOREM HelpersTheorem == Spec => []HelpersSound
<1>1. RunnerInv => HelpersSound
  BY BothGraphs, InvHelpers
<1>2. QED
  BY <1>1, RunnerInvHolds, PTL

\* Of every grid: whoever joins and in whatever order tasks end, each task
\* runs after the conflicting ones that the serial sweep does before it, and
\* before the others (AptpTiles, TrailingTiles and TileRunner).
THEOREM SerialTheorem == Spec => []SerialEquivalent
<1>1. RunnerInv => SerialEquivalent
  BY BothGraphs, InvSerial
<1>2. QED
  BY <1>1, RunnerInvHolds, PTL

=============================================================================
