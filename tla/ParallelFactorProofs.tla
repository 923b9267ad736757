------------------------ MODULE ParallelFactorProofs ------------------------
(***************************************************************************)
(* Proofs about ParallelFactor, for every tree, numbering, works, pivots,  *)
(* number of threads and interleaving: the gate decides in postorder, a    *)
(* factorization with one reason to fail at most returns the serial        *)
(* engine's status, no front is factored twice or before its children, and *)
(* the status is a cause; the plan's partitions share out the fronts.      *)
(*                                                                         *)
(* The first sections prove the invariant of a run (ParInv) from a plan    *)
(* that shares out the fronts (PlanFits); those on the plan, from the sums *)
(* over sets on, prove that plan_tree returns no other.                    *)
(***************************************************************************)
EXTENDS ParallelFactor, FiniteSetTheorems, WellFoundedInduction, TLAPS

-----------------------------------------------------------------------------
(* The invariant                                                           *)

Subs      == 0..(NSub - 1)
RangeOf(i) == Lo(i)..Hi(i)

\* The subtrees a thread has claimed or fetched.
Given == claimed \cup {i \in Subs : dealt <= i /\ i < next}

Busy(t) == pc[t] \in {"poll", "front", "store", "add", "walk", "compute", "count"}

\* The fronts a thread has still to do of what it has taken.
Ahead(t) == IF ~Busy(t) THEN {} ELSE IF phase = 1 THEN at[t]..last[t] ELSE {at[t]}

\* The fronts nobody has taken.
Later == (Top \ taken) \cup {f \in Fronts : \E i \in Subs \ Given : f \in RangeOf(i)}

Fresh(f) == factored[f] = 0 /\ f \notin added

\* The fronts whose work and negative pivots have been counted.
Counted == {f \in Fronts : /\ factored[f] = 1 /\ f \notin scn.broken
                           /\ \A t \in Threads : ~(pc[t] = "count" /\ at[t] = f)}

\* The sum of f over a set of fronts.
SumOver(f, S) == SumUpTo([g \in Fronts |-> IF g \in S THEN f[g] ELSE 0], N)

ShapeInv ==
  /\ scn \in Scenarios
  /\ works \in [Fronts -> Int] /\ added \subseteq Fronts /\ sees \in [Threads -> SUBSET Fronts]
  /\ cursor \in 1..(N + 1) /\ verdict \in {"open", "go", "stop"}
  /\ failed \in {"Success", "WorkLimitExceeded", "InertiaExceeded", "IllegalValue"}
  /\ claimed \subseteq 0..(dealt - 1) /\ next \in Nat /\ dealt <= next
  /\ pc \in [Threads -> Labels] /\ at \in [Threads -> Int] /\ last \in [Threads -> Int]
  /\ back \in [Threads -> {"next", "over"}] /\ scan \in [Threads -> Nat]
  /\ taken \subseteq Top /\ factored \in [Fronts -> Nat] /\ phase \in 0..3

\* Every front has one owner at most, and is done after its children.
OwnInv ==
  /\ \A t \in Threads : Busy(t) => at[t] \in Ahead(t)
  /\ \A t \in Threads : Ahead(t) \subseteq Fronts \ Later
  /\ \A t, u \in Threads : t # u => Ahead(t) \cap Ahead(u) = {}
  /\ \A t \in Threads : \A f \in Ahead(t) :
       /\ f # at[t] => Fresh(f)
       /\ \A c \in ChildrenOf(f) : factored[c] = 1 \/ c \in Ahead(t)
  /\ \A f \in Later : Fresh(f)
  /\ \A f \in Fronts : /\ factored[f] \in {0, 1}
                       /\ factored[f] = 1 => \A c \in ChildrenOf(f) : factored[c] = 1
                       /\ Running => factored[f] = 1 \/ f \in Later \/ \E t \in Threads : f \in Ahead(t)

\* What a thread knows of its front.
AtFront(t) ==
  /\ pc[t] \in {"poll", "front", "store"} => Fresh(at[t])
  /\ pc[t] = "add" => Fresh(at[t]) /\ works[at[t]] = scn.work[at[t]]
  /\ pc[t] \in {"walk", "compute"} => factored[at[t]] = 0
  /\ pc[t] \in {"store", "add", "walk"} => WorkArmed
  /\ pc[t] = "walk" \/ (pc[t] = "compute" /\ WorkArmed /\ verdict = "open") => at[t] \in added
  /\ pc[t] = "count" => factored[at[t]] = 1 /\ at[t] \notin scn.broken

AtInv == \A t \in Threads : AtFront(t)

\* A crossing whose fronts have all reported has a walker that sees them.
GateInv ==
  /\ \A f \in Fronts : works[f] \in {-1, scn.work[f]}
  /\ \A f \in added : works[f] = scn.work[f]
  /\ total = SumOver(scn.work, added)
  /\ \A f \in 1..(cursor - 1) : works[f] = scn.work[f] /\ (verdict = "open" => ~Crosses(scn.work, f))
  /\ verdict # "open" => \E f \in Fronts : Crosses(scn.work, f) /\ verdict = Decision(scn.work, Free, f)
  /\ verdict = "stop" => ~Running /\ WorkArmed
  /\ verdict = "open" =>
       \A f \in Fronts : Crosses(scn.work, f) /\ 1..f \subseteq added =>
         \E t \in Threads : pc[t] = "walk" /\ 1..f \subseteq sees[t]
  /\ WorkArmed /\ verdict = "open" => \A f \in Fronts : factored[f] = 1 => f \in added

\* What stops the run is a cause; while it runs, nothing counted is one.
SumInv ==
  /\ failed \in {"Success"} \cup Causes
  /\ workDone = IF WorkArmed THEN SumOver(scn.work, Counted) ELSE 0
  /\ negatives = IF Armed THEN SumOver(scn.neg, Counted) ELSE 0
  /\ Running => /\ workDone <= WorkCap /\ negatives <= NegLimit
                /\ \A f \in scn.broken : factored[f] = 0

\* The deal: what a thread that leaves a loop has seen done.
DealInv ==
  /\ phase = 0 => /\ \A t \in Threads : ~Busy(t) /\ pc[t] = "own"
                  /\ taken = {} /\ Given = {} /\ failed = "Success" /\ added = {} /\ verdict = "open"
  /\ phase = 1 => /\ \A t \in Threads : Busy(t) \/ pc[t] \in {"own", "next", "over", "joined"}
                  /\ taken = {}
  /\ phase = 2 => /\ \A t \in Threads : pc[t] # "poll" /\ (Busy(t) \/ pc[t] \in {"top", "topend", "out"})
                  /\ Given = Subs
                  /\ Running /\ (\E t \in Threads : pc[t] = "out") =>
                       taken = Top /\ \A t \in Threads : pc[t] \in {"top", "out"}
  /\ phase = 3 => (\A t \in Threads : ~Busy(t)) /\ (Running => Later = {})
  /\ \A t \in Threads : \A i \in 0..(scan[t] - 1) : i < dealt => i \in claimed
  /\ Running => \A t \in Threads :
       /\ pc[t] \in {"over", "joined"} \/ (Busy(t) /\ back[t] = "over") => NSub <= next
       /\ pc[t] = "joined" => dealt <= scan[t]

\* The run of the threads.
ParInv == ShapeInv /\ OwnInv /\ AtInv /\ GateInv /\ SumInv /\ DealInv

\* The run of the serial engine.
SerInv ==
  /\ scn \in Scenarios /\ added = {} /\ verdict = "open"
  /\ \/ phase = 0 /\ failed = "Success" /\ factored = [f \in Fronts |-> 0]
     \/ phase = 3 /\ failed = SerialStatus /\ factored = [f \in Fronts |-> IF SerialRuns(f) THEN 1 ELSE 0]

\* Either, on a plan that fits.
RunInv == PlanFits /\ IF plan.threads > 1 THEN ParInv ELSE SerInv

-----------------------------------------------------------------------------
(* Sums                                                                    *)

\* Induction over Nat, for a set of numbers.
LEMMA Upwards ==
  ASSUME NEW P \in SUBSET Nat, 0 \in P, \A n \in P : n + 1 \in P
  PROVE  \A n \in Nat : n \in P
<1> DEFINE Bad == Nat \ P
<1>1. ASSUME Bad # {} PROVE FALSE
  <2>1. PICK n \in Bad : \A m \in Bad : ~(<<m, n>> \in OpToRel(<, Nat))
    BY <1>1, NatLessThanWellFounded, WFMin
  <2>2. n \in Nat /\ n \notin P
    OBVIOUS
  <2>6. n # 0
    BY <2>2
  <2>7. n - 1 \in Nat /\ n - 1 < n
    BY <2>2, <2>6
  <2>3. n - 1 \notin Bad
    BY <2>1, <2>2, <2>7 DEF OpToRel
  <2>4. (n - 1) + 1 \in P
    BY <2>3, <2>7
  <2>8. (n - 1) + 1 = n
    BY <2>2
  <2>5. QED
    BY <2>2, <2>4, <2>8
<1>2. QED
  BY <1>1


\* The prefix sums of a function exist.
LEMMA SumsExist ==
  ASSUME NEW f, NEW i \in Nat
  PROVE  \E h : /\ SumUpTo(f, i) = h[i] /\ h[0] = 0
                /\ \A k \in 1..i : h[k] = h[k - 1] + f[k]
<1> DEFINE At0(h, k) == IF k = 0 THEN 0 ELSE h[k - 1] + f[k]
           upTo == CHOOSE h : h = [k \in 0..i |-> At0(h, k)]
           Has(m) == \E h : h = [k \in 0..m |-> At0(h, k)]
<1>1. SumUpTo(f, i) = upTo[i]
  BY DEF SumUpTo
<1>2. Has(0)
  <2>1. [k \in 0..0 |-> 0] = [k \in 0..0 |-> At0([j \in 0..0 |-> 0], k)]
    OBVIOUS
  <2>2. QED
    BY <2>1
<1>3. ASSUME NEW m \in Nat, Has(m) PROVE Has(m + 1)
  <2>1. PICK h : h = [k \in 0..m |-> At0(h, k)]
    BY <1>3
  <2> DEFINE g == [k \in 0..(m + 1) |-> IF k <= m THEN h[k] ELSE At0(h, k)]
  <2>2. \A k \in 0..m : g[k] = h[k]
    OBVIOUS
  <2>3. \A k \in 0..(m + 1) : g[k] = At0(g, k)
    <3>1. TAKE k \in 0..(m + 1)
    <3>2. CASE k = 0
      BY <2>1, <3>2
    <3>3. CASE k # 0
      <4>1. k - 1 \in 0..m /\ g[k - 1] = h[k - 1]
        BY <2>2, <3>3
      <4>2. At0(g, k) = At0(h, k)
        BY <4>1
      <4>3. g[k] = At0(h, k)
        <5>1. CASE k <= m
          <6>1. k \in 0..m /\ g[k] = h[k]
            BY <5>1
          <6>2. h[k] = At0(h, k)
            BY <2>1, <6>1
          <6>3. QED
            BY <6>1, <6>2
        <5>2. CASE ~(k <= m)
          BY <5>2
        <5>3. QED
          BY <5>1, <5>2
      <4>4. QED
        BY <4>2, <4>3
    <3>4. QED
      BY <3>2, <3>3
  <2>4. g = [k \in 0..(m + 1) |-> At0(g, k)]
    <3> DEFINE e == [k \in 0..(m + 1) |-> At0(g, k)]
    <3>1. \A k \in 0..(m + 1) : e[k] = At0(g, k)
      OBVIOUS
    <3>2. g = [k \in 0..(m + 1) |-> g[k]] /\ e = [k \in 0..(m + 1) |-> e[k]]
      OBVIOUS
    <3>3. \A k \in 0..(m + 1) : g[k] = e[k]
      BY <2>3, <3>1
    <3> HIDE DEF g, e
    <3>4. g = e
      BY <3>2, <3>3
    <3>5. QED
      BY <3>4 DEF e
  <2>5. QED
    BY <2>4
<1>4. Has(i)
  <2> DEFINE P == {m \in Nat : Has(m)}
  <2>1. \A m \in Nat : m \in P
    <3> HIDE DEF Has
    <3>1. 0 \in P /\ \A m \in P : m + 1 \in P
      BY <1>2, <1>3
    <3> HIDE DEF P
    <3>2. P \in SUBSET Nat
      BY DEF P
    <3>3. QED
      BY <3>1, <3>2, Upwards
  <2>2. QED
    BY <2>1
<1>5. upTo = [k \in 0..i |-> At0(upTo, k)]
  BY <1>4
<1> HIDE DEF upTo
<1>6. \A k \in 0..i : upTo[k] = At0(upTo, k)
  BY <1>5
<1>7. upTo[0] = 0
  BY <1>6
<1>8. \A k \in 1..i : upTo[k] = upTo[k - 1] + f[k]
  <2>1. \A k \in 1..i : k \in 0..i /\ k # 0
    OBVIOUS
  <2>2. QED
    BY <1>6, <2>1
<1>9. QED
  BY <1>1, <1>7, <1>8

\* Two functions that agree up to i have the same sum.
LEMMA SumAgrees ==
  ASSUME NEW f, NEW g, NEW i \in Nat, \A k \in 1..i : f[k] = g[k]
  PROVE  SumUpTo(f, i) = SumUpTo(g, i)
<1>1. PICK x : /\ SumUpTo(f, i) = x[i] /\ x[0] = 0 /\ \A k \in 1..i : x[k] = x[k - 1] + f[k]
  BY SumsExist
<1>2. PICK y : /\ SumUpTo(g, i) = y[i] /\ y[0] = 0 /\ \A k \in 1..i : y[k] = y[k - 1] + g[k]
  BY SumsExist
<1> DEFINE P == {k \in Nat : k <= i => x[k] = y[k]}
<1>3. 0 \in P
  BY <1>1, <1>2
<1>4. ASSUME NEW n \in P PROVE n + 1 \in P
  <2> SUFFICES ASSUME n + 1 <= i PROVE x[n + 1] = y[n + 1]
    BY <1>4
  <2>1. n + 1 \in 1..i /\ (n + 1) - 1 = n /\ x[n] = y[n]
    BY <1>4
  <2>2. x[n + 1] = x[n] + f[n + 1] /\ y[n + 1] = y[n] + g[n + 1]
    BY <1>1, <1>2, <2>1
  <2>3. QED
    BY <2>1, <2>2
<1> HIDE DEF P
<1>5. \A n \in Nat : n \in P
  <2>1. P \in SUBSET Nat
    BY DEF P
  <2>2. QED
    BY <1>3, <1>4, <2>1, Upwards
<1>6. x[i] = y[i]
  BY <1>5 DEF P
<1>7. QED
  BY <1>1, <1>2, <1>6

LEMMA SumZero == ASSUME NEW f PROVE SumUpTo(f, 0) = 0
<1>1. PICK x : SumUpTo(f, 0) = x[0] /\ x[0] = 0
  BY SumsExist
<1>2. QED
  BY <1>1

\* One more term.
LEMMA SumStep ==
  ASSUME NEW f, NEW i \in Nat, i # 0
  PROVE  SumUpTo(f, i) = SumUpTo(f, i - 1) + f[i]
<1>1. PICK x : /\ SumUpTo(f, i) = x[i] /\ x[0] = 0 /\ \A k \in 1..i : x[k] = x[k - 1] + f[k]
  BY SumsExist
<1>2. i - 1 \in Nat
  OBVIOUS
<1>3. PICK y : /\ SumUpTo(f, i - 1) = y[i - 1] /\ y[0] = 0
               /\ \A k \in 1..(i - 1) : y[k] = y[k - 1] + f[k]
  BY <1>2, SumsExist
<1> DEFINE P == {k \in Nat : k <= i - 1 => x[k] = y[k]}
<1>4. 0 \in P
  BY <1>1, <1>3
<1>5. ASSUME NEW n \in P PROVE n + 1 \in P
  <2> SUFFICES ASSUME n + 1 <= i - 1 PROVE x[n + 1] = y[n + 1]
    BY <1>5
  <2>1. n + 1 \in 1..i /\ n + 1 \in 1..(i - 1) /\ (n + 1) - 1 = n /\ x[n] = y[n]
    BY <1>5
  <2>2. x[n + 1] = x[n] + f[n + 1] /\ y[n + 1] = y[n] + f[n + 1]
    BY <1>1, <1>3, <2>1
  <2>3. QED
    BY <2>1, <2>2
<1> HIDE DEF P
<1>6. \A n \in Nat : n \in P
  <2>1. P \in SUBSET Nat
    BY DEF P
  <2>2. QED
    BY <1>4, <1>5, <2>1, Upwards
<1>7. x[i - 1] = y[i - 1]
  BY <1>2, <1>6 DEF P
<1>8. x[i] = x[i - 1] + f[i]
  <2>1. i \in 1..i
    OBVIOUS
  <2>2. QED
    BY <1>1, <2>1
<1>9. QED
  BY <1>1, <1>3, <1>7, <1>8

LEMMA SumTyped ==
  ASSUME NEW f \in [Fronts -> Nat], NEW i \in 0..N
  PROVE  SumUpTo(f, i) \in Nat
<1> DEFINE P == {k \in Nat : k <= N => SumUpTo(f, k) \in Nat}
<1>1. 0 \in P
  BY SumZero
<1>2. ASSUME NEW n \in P PROVE n + 1 \in P
  <2> SUFFICES ASSUME n + 1 <= N PROVE SumUpTo(f, n + 1) \in Nat
    BY <1>2
  <2>1. n + 1 \in Nat /\ n + 1 # 0 /\ (n + 1) - 1 = n /\ n + 1 \in Fronts
    BY <1>2, FrontsAssumption DEF Fronts
  <2>2. SumUpTo(f, n) \in Nat
    BY <1>2, <2>1, FrontsAssumption
  <2>3. SumUpTo(f, n + 1) = SumUpTo(f, n) + f[n + 1]
    BY <2>1, SumStep
  <2>4. QED
    BY <2>1, <2>2, <2>3
<1> HIDE DEF P
<1>3. P \in SUBSET Nat
  BY DEF P
<1>4. i \in P
  BY <1>1, <1>2, <1>3, FrontsAssumption, Upwards
<1>5. QED
  BY <1>4, FrontsAssumption DEF P

\* More terms, a greater sum.
LEMMA SumGrows ==
  ASSUME NEW f \in [Fronts -> Nat], NEW i \in 0..N, NEW j \in 0..N, i <= j
  PROVE  SumUpTo(f, i) <= SumUpTo(f, j)
<1> DEFINE P == {k \in Nat : i <= k /\ k <= N => SumUpTo(f, i) <= SumUpTo(f, k)}
<1>1. 0 \in P
  BY SumTyped, SumZero, FrontsAssumption
<1>2. ASSUME NEW n \in P PROVE n + 1 \in P
  <2> SUFFICES ASSUME i <= n + 1, n + 1 <= N PROVE SumUpTo(f, i) <= SumUpTo(f, n + 1)
    BY <1>2
  <2>1. n + 1 \in Nat /\ n + 1 # 0 /\ (n + 1) - 1 = n /\ n + 1 \in Fronts /\ n \in 0..N
    BY <1>2, FrontsAssumption DEF Fronts
  <2>2. SumUpTo(f, n) \in Nat /\ SumUpTo(f, i) \in Nat /\ f[n + 1] \in Nat
    BY <2>1, SumTyped
  <2>3. SumUpTo(f, n + 1) = SumUpTo(f, n) + f[n + 1]
    BY <2>1, SumStep
  <2>4. CASE i = n + 1
    BY <2>2, <2>4
  <2>5. CASE i <= n
    <3>1. SumUpTo(f, i) <= SumUpTo(f, n)
      BY <1>2, <2>1, <2>5
    <3>2. QED
      BY <2>2, <2>3, <3>1
  <2>6. QED
    BY <2>4, <2>5, <2>1
<1> HIDE DEF P
<1>3. P \in SUBSET Nat
  BY DEF P
<1>4. j \in P
  BY <1>1, <1>2, <1>3, FrontsAssumption, Upwards
<1>5. QED
  BY <1>4, FrontsAssumption DEF P

\* Greater terms, a greater sum.
LEMMA SumAtMost ==
  ASSUME NEW f \in [Fronts -> Nat], NEW g \in [Fronts -> Nat], \A k \in Fronts : f[k] <= g[k]
  PROVE  SumUpTo(f, N) <= SumUpTo(g, N)
<1> DEFINE P == {k \in Nat : k <= N => SumUpTo(f, k) <= SumUpTo(g, k)}
<1>1. 0 \in P
  BY SumZero
<1>2. ASSUME NEW n \in P PROVE n + 1 \in P
  <2> SUFFICES ASSUME n + 1 <= N PROVE SumUpTo(f, n + 1) <= SumUpTo(g, n + 1)
    BY <1>2
  <2>1. n + 1 \in Nat /\ n + 1 # 0 /\ (n + 1) - 1 = n /\ n + 1 \in Fronts /\ n \in 0..N
    BY <1>2, FrontsAssumption DEF Fronts
  <2>2. /\ SumUpTo(f, n) \in Nat /\ SumUpTo(g, n) \in Nat
        /\ f[n + 1] \in Nat /\ g[n + 1] \in Nat /\ f[n + 1] <= g[n + 1]
    BY <2>1, SumTyped
  <2>3. SumUpTo(f, n + 1) = SumUpTo(f, n) + f[n + 1] /\ SumUpTo(g, n + 1) = SumUpTo(g, n) + g[n + 1]
    BY <2>1, SumStep
  <2>4. SumUpTo(f, n) <= SumUpTo(g, n)
    BY <1>2, <2>1
  <2>5. QED
    BY <2>2, <2>3, <2>4
<1> HIDE DEF P
<1>3. P \in SUBSET Nat
  BY DEF P
<1>4. N \in P
  BY <1>1, <1>2, <1>3, FrontsAssumption, Upwards
<1>5. QED
  BY <1>4, FrontsAssumption DEF P

\* One term greater by d.
LEMMA SumMore ==
  ASSUME NEW f \in [Fronts -> Nat], NEW g \in [Fronts -> Nat], NEW x \in Fronts, NEW d \in Nat,
         g[x] = f[x] + d, \A k \in Fronts \ {x} : g[k] = f[k]
  PROVE  SumUpTo(g, N) = SumUpTo(f, N) + d
<1> DEFINE P == {k \in Nat : k <= N => SumUpTo(g, k) = SumUpTo(f, k) + (IF x <= k THEN d ELSE 0)}
<1>1. 0 \in P
  BY SumZero DEF Fronts
<1>2. ASSUME NEW n \in P PROVE n + 1 \in P
  <2> SUFFICES ASSUME n + 1 <= N
               PROVE  SumUpTo(g, n + 1) = SumUpTo(f, n + 1) + (IF x <= n + 1 THEN d ELSE 0)
    BY <1>2
  <2>1. n + 1 \in Nat /\ n + 1 # 0 /\ (n + 1) - 1 = n /\ n + 1 \in Fronts /\ n \in 0..N /\ n \in Nat
    BY <1>2, FrontsAssumption DEF Fronts
  <2>2. /\ SumUpTo(f, n) \in Nat /\ SumUpTo(g, n) \in Nat
        /\ f[n + 1] \in Nat /\ g[n + 1] \in Nat
    BY <2>1, SumTyped
  <2>3. SumUpTo(f, n + 1) = SumUpTo(f, n) + f[n + 1] /\ SumUpTo(g, n + 1) = SumUpTo(g, n) + g[n + 1]
    BY <2>1, SumStep
  <2>4. SumUpTo(g, n) = SumUpTo(f, n) + (IF x <= n THEN d ELSE 0)
    BY <1>2, <2>1
  <2>5. x \in Nat /\ (x = n + 1 => g[n + 1] = f[n + 1] + d) /\ (x # n + 1 => g[n + 1] = f[n + 1])
    BY <2>1 DEF Fronts
  <2>6. QED
    BY <2>1, <2>2, <2>3, <2>4, <2>5
<1> HIDE DEF P
<1>3. P \in SUBSET Nat
  BY DEF P
<1>4. N \in P
  BY <1>1, <1>2, <1>3, FrontsAssumption, Upwards
<1>5. QED
  BY <1>4, FrontsAssumption DEF P, Fronts

Part(f, S) == [g \in Fronts |-> IF g \in S THEN f[g] ELSE 0]

LEMMA OverTyped ==
  ASSUME NEW f \in [Fronts -> Nat], NEW S
  PROVE  /\ SumOver(f, S) \in Nat /\ SumOver(f, S) = SumUpTo(Part(f, S), N)
         /\ Part(f, S) \in [Fronts -> Nat]
<1>1. Part(f, S) \in [Fronts -> Nat]
  BY DEF Part
<1>2. N \in 0..N
  BY FrontsAssumption
<1>3. SumOver(f, S) = SumUpTo(Part(f, S), N)
  BY DEF SumOver, Part
<1>4. QED
  BY <1>1, <1>2, <1>3, SumTyped

LEMMA OverAdds ==
  ASSUME NEW f \in [Fronts -> Nat], NEW S, NEW x \in Fronts, x \notin S
  PROVE  SumOver(f, S \cup {x}) = SumOver(f, S) + f[x]
<1> DEFINE a == Part(f, S)
           b == Part(f, S \cup {x})
<1>1. a \in [Fronts -> Nat] /\ b \in [Fronts -> Nat]
  BY OverTyped
<1>2. b[x] = a[x] + f[x] /\ f[x] \in Nat
  BY DEF Part
<1>3. \A k \in Fronts \ {x} : b[k] = a[k]
  BY DEF Part
<1> HIDE DEF a, b
<1>4. SumUpTo(b, N) = SumUpTo(a, N) + f[x]
  BY <1>1, <1>2, <1>3, SumMore
<1>5. QED
  BY <1>4, OverTyped DEF a, b

LEMMA OverAtMost ==
  ASSUME NEW f \in [Fronts -> Nat], NEW S, NEW T, S \subseteq T
  PROVE  SumOver(f, S) <= SumOver(f, T)
<1> DEFINE a == Part(f, S)
           b == Part(f, T)
<1>1. a \in [Fronts -> Nat] /\ b \in [Fronts -> Nat]
  BY OverTyped
<1>2. \A k \in Fronts : a[k] <= b[k]
  BY DEF Part
<1> HIDE DEF a, b
<1>3. SumUpTo(a, N) <= SumUpTo(b, N)
  BY <1>1, <1>2, SumAtMost
<1>4. QED
  BY <1>3, OverTyped DEF a, b

LEMMA OverAll ==
  ASSUME NEW f \in [Fronts -> Nat], NEW S, Fronts \subseteq S
  PROVE  SumOver(f, S) = SumUpTo(f, N)
<1> DEFINE a == Part(f, S)
<1>1. \A k \in 1..N : a[k] = f[k]
  BY DEF Part, Fronts
<1> HIDE DEF a
<1>2. SumUpTo(a, N) = SumUpTo(f, N)
  BY <1>1, SumAgrees, FrontsAssumption
<1>3. QED
  BY <1>2, OverTyped DEF a

LEMMA OverNone ==
  ASSUME NEW f \in [Fronts -> Nat]
  PROVE  SumOver(f, {}) = 0
<1> DEFINE a == Part(f, {})
           P == {k \in Nat : k <= N => SumUpTo(a, k) = 0}
<1>1. \A k \in Fronts : a[k] = 0
  BY DEF Part
<1> HIDE DEF a
<1>2. 0 \in P
  BY SumZero
<1>3. ASSUME NEW n \in P PROVE n + 1 \in P
  <2> SUFFICES ASSUME n + 1 <= N PROVE SumUpTo(a, n + 1) = 0
    BY <1>3
  <2>1. n + 1 \in Nat /\ n + 1 # 0 /\ (n + 1) - 1 = n /\ n + 1 \in Fronts
    BY <1>3, FrontsAssumption DEF Fronts
  <2>2. SumUpTo(a, n + 1) = SumUpTo(a, n) + a[n + 1]
    BY <2>1, SumStep
  <2>3. SumUpTo(a, n) = 0
    BY <1>3, <2>1, FrontsAssumption
  <2>4. QED
    BY <1>1, <2>1, <2>2, <2>3
<1> HIDE DEF P
<1>4. P \in SUBSET Nat
  BY DEF P
<1>5. N \in P
  BY <1>2, <1>3, <1>4, FrontsAssumption, Upwards
<1>6. SumUpTo(a, N) = 0
  BY <1>5, FrontsAssumption DEF P
<1>7. QED
  BY <1>6, OverTyped DEF a

\* The sum over a set is at least that of a prefix in it.
LEMMA OverPrefix ==
  ASSUME NEW f \in [Fronts -> Nat], NEW S, NEW i \in Fronts, 1..i \subseteq S
  PROVE  SumUpTo(f, i) <= SumOver(f, S)
<1> DEFINE a == Part(f, S)
<1>1. i \in Nat /\ i \in 0..N /\ N \in 0..N /\ i <= N
  BY FrontsAssumption DEF Fronts
<1>2. \A k \in 1..i : a[k] = f[k]
  BY <1>1 DEF Part, Fronts
<1>3. a \in [Fronts -> Nat]
  BY OverTyped
<1> HIDE DEF a
<1>4. SumUpTo(a, i) = SumUpTo(f, i)
  BY <1>1, <1>2, SumAgrees
<1>5. SumUpTo(a, i) <= SumUpTo(a, N)
  BY <1>1, <1>3, SumGrows
<1>6. QED
  BY <1>4, <1>5, OverTyped DEF a

\* The work is crossed at one front.
LEMMA CrossesOnce ==
  ASSUME NEW f \in [Fronts -> Nat], NEW i \in Fronts, NEW j \in Fronts, Crosses(f, i), Crosses(f, j)
  PROVE  i = j
<1>1. ASSUME NEW x \in Fronts, NEW y \in Fronts, Crosses(f, x), Crosses(f, y) PROVE ~(x < y)
  <2>1. x \in 0..N /\ y - 1 \in 0..N /\ x \in Int /\ y \in Int
    BY FrontsAssumption DEF Fronts
  <2> SUFFICES ASSUME x < y PROVE FALSE
    OBVIOUS
  <2>2. SumUpTo(f, x) <= SumUpTo(f, y - 1)
    BY <2>1, SumGrows
  <2>3. SumUpTo(f, x) \in Nat /\ SumUpTo(f, y - 1) \in Nat /\ At \in Nat
    BY <2>1, SumTyped, GateAssumption
  <2>4. QED
    BY <1>1, <2>2, <2>3 DEF Crosses
<1>2. ~(i < j) /\ ~(j < i) /\ i \in Int /\ j \in Int
  BY <1>1 DEF Fronts
<1>3. QED
  BY <1>2

\* Works that agree up to a front decide the same there.
LEMMA GateAgrees ==
  ASSUME NEW f, NEW g, NEW i \in Fronts, \A k \in 1..i : f[k] = g[k]
  PROVE  /\ Crosses(f, i) <=> Crosses(g, i)
         /\ \A free : Decision(f, free, i) = Decision(g, free, i)
<1>1. i \in Nat /\ i - 1 \in Nat
  BY DEF Fronts
<1>2. SumUpTo(f, i) = SumUpTo(g, i)
  BY <1>1, SumAgrees
<1>3. \A k \in 1..(i - 1) : f[k] = g[k]
  BY <1>1
<1>4. SumUpTo(f, i - 1) = SumUpTo(g, i - 1)
  BY <1>1, <1>3, SumAgrees
<1>5. QED
  BY <1>2, <1>4 DEF Crosses, Decision

-----------------------------------------------------------------------------
(* What the scenario and the plan give                                     *)

Par == plan.threads > 1

LEMMA ScenarioFacts ==
  ASSUME scn \in Scenarios
  PROVE  /\ scn.work \in [Fronts -> Nat] /\ scn.neg \in [Fronts -> Nat] /\ scn.broken \subseteq Fronts
         /\ ~(WorkArmed /\ Armed)
         /\ \A f \in Fronts : \A c \in ChildrenOf(f) : c \in Fronts /\ c < f
<1>1. /\ scn.view.work \in [Fronts -> Nat] /\ scn.view.parent \in [Fronts -> 0..N]
      /\ \A f \in Fronts : scn.view.parent[f] = 0 \/ scn.view.parent[f] > f
      /\ scn.work \in [Fronts -> Nat] /\ scn.neg \in [Fronts -> Nat] /\ scn.broken \subseteq Fronts
  BY ScenariosAssumption
<1>2. ASSUME NEW f \in Fronts, NEW c \in ChildrenOf(f) PROVE c \in Fronts /\ c < f
  <2>1. c \in DOMAIN scn.view.work /\ scn.view.parent[c] = f
    BY <1>2 DEF ChildrenOf, KidsOf
  <2>2. c \in Fronts /\ f # 0
    <3>1. DOMAIN scn.view.work = Fronts
      BY <1>1
    <3>2. QED
      BY <1>2, <2>1, <3>1, FrontsAssumption DEF Fronts
  <2>3. f > c /\ f \in Int /\ c \in Int
    BY <1>1, <1>2, <2>1, <2>2, FrontsAssumption DEF Fronts
  <2>4. QED
    BY <2>2, <2>3
<1>3. ~(WorkArmed /\ Armed)
  BY DEF WorkArmed, Armed
<1>4. QED
  BY <1>1, <1>2, <1>3

LEMMA PlanFacts ==
  ASSUME Par, PlanFits
  PROVE  /\ NSub \in Nat /\ dealt \in Nat /\ dealt <= NSub
         /\ \A i \in Subs : Lo(i) \in Fronts /\ Hi(i) \in Fronts /\ Lo(i) <= Hi(i)
         /\ \A i \in Subs : RangeOf(i) \subseteq Fronts \ Top
         /\ \A i, j \in Subs : i # j => RangeOf(i) \cap RangeOf(j) = {}
         /\ \A i \in Subs : \A f \in RangeOf(i) : ChildrenOf(f) \subseteq RangeOf(i)
         /\ Top \subseteq Fronts
         /\ \A f \in Fronts : f \in Top \/ \E i \in Subs : f \in RangeOf(i)
<1>1. /\ plan.ranges \in Seq(Fronts \X Fronts)
      /\ \A i \in DOMAIN plan.ranges : plan.ranges[i][1] <= plan.ranges[i][2]
      /\ Shares(plan) /\ WholeSubtrees(plan)
  BY DEF Par, PlanFits
<1>2. NSub \in Nat /\ DOMAIN plan.ranges = 1..NSub
  BY <1>1 DEF NSub
<1>3. Cardinality(Threads) \in Nat
  BY ThreadsAssumption, FS_CardinalityType
<1>4. dealt \in Nat /\ dealt <= NSub
  BY <1>2, <1>3 DEF dealt
<1>5. ASSUME NEW i \in Subs
      PROVE  /\ i + 1 \in DOMAIN plan.ranges /\ RangeOf(i) = Interval(plan.ranges[i + 1])
             /\ Lo(i) \in Fronts /\ Hi(i) \in Fronts /\ Lo(i) <= Hi(i)
  <2>1. i + 1 \in DOMAIN plan.ranges
    BY <1>2, <1>5 DEF Subs
  <2>2. plan.ranges[i + 1] \in Fronts \X Fronts
    BY <1>1, <2>1
  <2>3. QED
    BY <1>1, <2>1, <2>2 DEF RangeOf, Interval, Lo, Hi
<1>6. ASSUME NEW i \in Subs PROVE RangeOf(i) \subseteq Fronts \ Top
  <2>1. RangeOf(i) \subseteq FrontsOf(plan)
    BY <1>5, <1>6 DEF FrontsOf
  <2>2. QED
    BY <1>1, <2>1 DEF Shares, Top
<1>7. ASSUME NEW i \in Subs, NEW j \in Subs, i # j PROVE RangeOf(i) \cap RangeOf(j) = {}
  <2>1. i + 1 # j + 1
    BY <1>7 DEF Subs
  <2>2. QED
    BY <1>1, <1>5, <2>1 DEF Shares
<1>8. ASSUME NEW i \in Subs, NEW f \in RangeOf(i) PROVE ChildrenOf(f) \subseteq RangeOf(i)
  BY <1>1, <1>5 DEF WholeSubtrees
<1>9. Top \subseteq Fronts
  BY <1>1 DEF Shares, Top
<1>10. ASSUME NEW f \in Fronts, f \notin Top PROVE \E i \in Subs : f \in RangeOf(i)
  <2>1. f \in FrontsOf(plan)
    BY <1>1, <1>10 DEF Shares, Top
  <2>2. PICK k \in DOMAIN plan.ranges : f \in Interval(plan.ranges[k])
    BY <2>1 DEF FrontsOf
  <2>3. k - 1 \in Subs /\ (k - 1) + 1 = k
    BY <1>2, <2>2 DEF Subs
  <2>4. f \in RangeOf(k - 1)
    BY <1>5, <2>2, <2>3
  <2>5. QED
    BY <2>3, <2>4
<1>11. QED
  BY <1>2, <1>4, <1>5, <1>6, <1>7, <1>8, <1>9, <1>10

-----------------------------------------------------------------------------
(* A step of a thread                                                      *)

\* A step of t leaves the other threads where they are.
Moves(t) ==
  /\ t \in Threads
  /\ \A u \in Threads \ {t} : /\ pc'[u] = pc[u] /\ at'[u] = at[u] /\ last'[u] = last[u]
                              /\ back'[u] = back[u] /\ scan'[u] = scan[u]
  /\ UNCHANGED <<scn, plan, phase>>

LEMMA StepMoves ==
  ASSUME ShapeInv, NEW t \in Threads, Step(t)
  PROVE  Moves(t)
<1> USE DEF ShapeInv, Moves, inputs, gate, outcomes, dealing, Goto, RunTask, Fail
<1>1. CASE Own(t)
  BY <1>1 DEF Own
<1>2. CASE NextTask(t)
  BY <1>2 DEF NextTask
<1>3. CASE TakeOver(t)
  BY <1>3 DEF TakeOver
<1>4. CASE Poll(t)
  BY <1>4 DEF Poll
<1>5. CASE WorkCheck(t)
  BY <1>5 DEF WorkCheck
<1>6. CASE ReachStore(t)
  BY <1>6 DEF ReachStore
<1>7. CASE ReachAdd(t)
  BY <1>7 DEF ReachAdd
<1>8. CASE ReachWalk(t)
  BY <1>8 DEF ReachWalk
<1>9. CASE Compute(t)
  BY <1>9 DEF Compute
<1>10. CASE Count(t)
  BY <1>10 DEF Count
<1>11. CASE TakeTop(t)
  BY <1>11 DEF TakeTop
<1>12. CASE TopEnd(t)
  BY <1>12 DEF TopEnd
<1>13. CASE LeaveTop(t)
  BY <1>13 DEF LeaveTop
<1>14. QED
  BY <1>1, <1>2, <1>3, <1>4, <1>5, <1>6, <1>7, <1>8, <1>9, <1>10, <1>11, <1>12, <1>13 DEF Step

LEMMA OthersStay ==
  ASSUME NEW t, Moves(t), NEW u \in Threads \ {t}
  PROVE  /\ Busy(u)' <=> Busy(u)
         /\ Ahead(u)' = Ahead(u)
BY DEF Moves, Busy, Ahead

-----------------------------------------------------------------------------
(* The ranges of the variables                                             *)

LEMMA ShapeStep ==
  ASSUME Par, PlanFits, ShapeInv, AtInv, OwnInv, NEW t \in Threads, Step(t)
  PROVE  ShapeInv'
<1>1. /\ NSub \in Nat /\ dealt \in Nat /\ dealt <= NSub
      /\ \A i \in Subs : Lo(i) \in Int /\ Hi(i) \in Int
  BY PlanFacts DEF Fronts
<1>2. t \in Nat
  BY ThreadsAssumption
<1>3. /\ NSub' = NSub /\ dealt' = dealt /\ Top' = Top /\ Fronts' = Fronts /\ Threads' = Threads
      /\ scn' = scn /\ phase' = phase /\ Labels' = Labels
  <2>1. scn' = scn /\ plan' = plan /\ phase' = phase
    BY StepMoves DEF Moves
  <2>2. QED
    BY <2>1 DEF NSub, dealt, Top, Labels, Fronts
<1>4. Busy(t) => at[t] \in Fronts
  BY DEF OwnInv
<1>5. ASSUME NEW i \in Subs, NEW l \in {"next", "over"}, RunTask(t, i, l)
      PROVE  /\ pc' \in [Threads -> Labels] /\ at' \in [Threads -> Int] /\ last' \in [Threads -> Int]
             /\ back' \in [Threads -> {"next", "over"}]
  BY <1>1, <1>5 DEF RunTask, Goto, ShapeInv, Labels
<1>6. ASSUME NEW l \in Labels, Goto(t, l) PROVE pc' \in [Threads -> Labels]
  BY <1>6 DEF Goto, ShapeInv
<1>7. back[t] \in Labels /\ back[t] \in {"next", "over"}
  BY DEF ShapeInv, Labels
<1>8. ASSUME NEW e \in {"WorkLimitExceeded", "InertiaExceeded", "IllegalValue"}, Fail(t, e)
      PROVE  /\ pc' \in [Threads -> Labels]
             /\ failed' \in {"Success", "WorkLimitExceeded", "InertiaExceeded", "IllegalValue"}
  BY <1>6, <1>7, <1>8 DEF Fail, Labels
<1> USE DEF inputs, gate, outcomes, dealing
<1>9. CASE Own(t)
  <2>1. CASE /\ t < dealt /\ t \notin claimed
             /\ claimed' = Claimed(t)
             /\ RunTask(t, t, "next")
             /\ UNCHANGED <<next, scan>>
    <3>1. t \in Subs /\ t \in 0..(dealt - 1)
      BY <1>1, <1>2, <2>1 DEF Subs
    <3>2. QED
      BY <1>3, <1>5, <1>9, <2>1, <3>1 DEF Own, ShapeInv, Claimed
  <2>2. CASE Goto(t, "next") /\ UNCHANGED <<dealing, at>>
    BY <1>3, <1>6, <1>9, <2>2 DEF Own, ShapeInv, Labels
  <2>3. QED
    BY <1>9, <2>1, <2>2 DEF Own
<1>10. CASE NextTask(t)
  <2>1. CASE next' = next + 1 /\ next < NSub /\ RunTask(t, next, "next") /\ UNCHANGED <<claimed, scan>>
    <3>1. next \in Subs /\ next + 1 \in Nat /\ dealt <= next + 1
      BY <1>1, <2>1 DEF Subs, ShapeInv
    <3>2. QED
      BY <1>3, <1>5, <1>10, <2>1, <3>1 DEF NextTask, ShapeInv
  <2>2. CASE next' = next + 1 /\ Goto(t, "over") /\ UNCHANGED <<claimed, last, back, scan, at>>
    <3>1. next + 1 \in Nat /\ dealt <= next + 1
      BY <1>1 DEF ShapeInv
    <3>2. QED
      BY <1>3, <1>6, <1>10, <2>2, <3>1 DEF NextTask, ShapeInv, Labels
  <2>3. CASE Goto(t, "over") /\ UNCHANGED <<dealing, at>>
    BY <1>3, <1>6, <1>10, <2>3 DEF NextTask, ShapeInv, Labels
  <2>4. QED
    BY <1>10, <2>1, <2>2, <2>3 DEF NextTask
<1>11. CASE TakeOver(t)
  <2>1. scan[t] \in Nat
    BY DEF ShapeInv
  <2>2. CASE /\ MoreDealt(scan[t]) /\ scan' = [scan EXCEPT ![t] = @ + 1]
             /\ scan[t] \notin claimed /\ claimed' = Claimed(scan[t]) /\ RunTask(t, scan[t], "over")
    <3>1. scan[t] \in Subs /\ scan[t] \in 0..(dealt - 1)
      BY <1>1, <2>1, <2>2 DEF Subs, MoreDealt
    <3>2. scan' \in [Threads -> Nat]
      BY <2>1, <2>2 DEF ShapeInv
    <3>3. QED
      BY <1>3, <1>5, <1>11, <2>2, <3>1, <3>2 DEF TakeOver, ShapeInv, Claimed
  <2>3. CASE /\ scan' = [scan EXCEPT ![t] = @ + 1]
             /\ UNCHANGED <<claimed, at, last, back, pc>>
    <3>1. scan' \in [Threads -> Nat]
      BY <2>1, <2>3 DEF ShapeInv
    <3>2. QED
      BY <1>3, <1>11, <2>3, <3>1 DEF TakeOver, ShapeInv
  <2>4. CASE Goto(t, "joined") /\ UNCHANGED <<claimed, scan, at, last, back>>
    BY <1>3, <1>6, <1>11, <2>4 DEF TakeOver, ShapeInv, Labels
  <2>5. QED
    BY <1>11, <2>2, <2>3, <2>4 DEF TakeOver
<1>12. CASE Poll(t)
  <2>1. pc' \in [Threads -> Labels]
    BY <1>6, <1>7, <1>12 DEF Poll, Labels
  <2>2. QED
    BY <1>3, <1>12, <2>1 DEF Poll, ShapeInv
<1>13. CASE WorkCheck(t)
  <2>1. pc' \in [Threads -> Labels]
        /\ failed' \in {"Success", "WorkLimitExceeded", "InertiaExceeded", "IllegalValue"}
    <3>1. failed \in {"Success", "WorkLimitExceeded", "InertiaExceeded", "IllegalValue"}
      BY DEF ShapeInv
    <3>2. QED
      BY <1>6, <1>8, <1>13, <3>1 DEF WorkCheck, Labels
  <2>2. QED
    BY <1>3, <1>13, <2>1 DEF WorkCheck, ShapeInv
<1>14. CASE ReachStore(t)
  <2>1. at[t] \in Fronts /\ scn.work[at[t]] \in Int
    BY <1>4, <1>14, ScenarioFacts DEF ReachStore, Busy, ShapeInv
  <2>2. pc' \in [Threads -> Labels]
    BY <1>6, <1>14 DEF ReachStore, Labels
  <2>3. works' \in [Fronts -> Int]
    BY <1>14, <2>1 DEF ReachStore, StoreWork, ShapeInv
  <2>4. QED
    BY <1>3, <1>14, <2>2, <2>3 DEF ReachStore, StoreWork, ShapeInv
<1>15. CASE ReachAdd(t)
  <2>1. at[t] \in Fronts
    BY <1>4, <1>15 DEF ReachAdd, Busy
  <2>2. pc' \in [Threads -> Labels]
    BY <1>6, <1>15 DEF ReachAdd, Labels
  <2>3. added' \subseteq Fronts /\ sees' \in [Threads -> SUBSET Fronts]
    BY <1>15, <2>1 DEF ReachAdd, AddWork, ShapeInv, Published
  <2>4. QED
    BY <1>3, <1>15, <2>2, <2>3 DEF ReachAdd, AddWork, ShapeInv
<1>16. CASE ReachWalk(t)
  <2>1. /\ pc' \in [Threads -> Labels]
        /\ failed' \in {"Success", "WorkLimitExceeded", "InertiaExceeded", "IllegalValue"}
    <3>1. failed \in {"Success", "WorkLimitExceeded", "InertiaExceeded", "IllegalValue"}
      BY DEF ShapeInv
    <3>2. QED
      BY <1>6, <1>8, <1>16, <3>1 DEF ReachWalk, Labels
  <2>2. cursor' \in 1..(N + 1) /\ verdict' \in {"open", "go", "stop"}
    <3>1. cursor \in 1..(N + 1) /\ verdict \in {"open", "go", "stop"}
      BY DEF ShapeInv
    <3>2. CASE Walk(t, Free)
      BY <3>1, <3>2, FrontsAssumption DEF Walk, Decision
    <3>3. CASE NoWalk
      BY <3>1, <3>3 DEF NoWalk
    <3>4. QED
      BY <1>16, <3>2, <3>3 DEF ReachWalk
  <2>3. UNCHANGED <<works, total, added, sees>>
    BY <1>16 DEF ReachWalk, Walk, NoWalk
  <2>4. QED
    BY <1>3, <1>16, <2>1, <2>2, <2>3 DEF ReachWalk, ShapeInv
<1>17. CASE Compute(t)
  <2>1. /\ pc' \in [Threads -> Labels]
        /\ failed' \in {"Success", "WorkLimitExceeded", "InertiaExceeded", "IllegalValue"}
    <3>1. failed \in {"Success", "WorkLimitExceeded", "InertiaExceeded", "IllegalValue"}
      BY DEF ShapeInv
    <3>2. QED
      BY <1>6, <1>8, <1>17, <3>1 DEF Compute, Labels
  <2>2. factored' \in [Fronts -> Nat]
    <3>1. factored \in [Fronts -> Nat] /\ at[t] \in Fronts
      BY <1>4, <1>17 DEF Compute, ShapeInv, Busy
    <3>2. factored' = [factored EXCEPT ![at[t]] = factored[at[t]] + 1]
      BY <1>17 DEF Compute
    <3>3. factored[at[t]] + 1 \in Nat
      BY <3>1
    <3>4. QED
      BY <3>1, <3>2, <3>3
  <2>3. QED
    BY <1>3, <1>17, <2>1, <2>2 DEF Compute, ShapeInv
<1>18. CASE Count(t)
  <2>1. failed' \in {"Success", "WorkLimitExceeded", "InertiaExceeded", "IllegalValue"}
    <3>1. failed \in {"Success", "WorkLimitExceeded", "InertiaExceeded", "IllegalValue"}
      BY DEF ShapeInv
    <3>2. QED
      BY <1>18, <3>1 DEF Count, Raise
  <2>2. pc' \in [Threads -> Labels] /\ at' \in [Threads -> Int]
    <3>1. at \in [Threads -> Int]
      BY DEF ShapeInv
    <3>2. QED
      BY <1>6, <1>7, <1>18, <3>1 DEF Count, Labels
  <2>3. QED
    BY <1>3, <1>18, <2>1, <2>2 DEF Count, ShapeInv
<1>19. CASE TakeTop(t)
  <2>1. PICK f \in Top \ taken : /\ taken' = taken \cup {f} /\ at' = [at EXCEPT ![t] = f]
                                 /\ Goto(t, IF Running THEN "front" ELSE "out")
    BY <1>19 DEF TakeTop
  <2>2. f \in Int
    BY <2>1, PlanFacts DEF Fronts
  <2>3. pc' \in [Threads -> Labels] /\ at' \in [Threads -> Int]
    BY <1>6, <2>1, <2>2 DEF ShapeInv, Labels
  <2>4. QED
    BY <1>3, <1>19, <2>1, <2>3 DEF TakeTop, ShapeInv
<1>20. CASE TopEnd(t) \/ LeaveTop(t)
  <2>1. pc' \in [Threads -> Labels]
    BY <1>6, <1>20 DEF TopEnd, LeaveTop, Labels
  <2>2. QED
    BY <1>3, <1>20, <2>1 DEF TopEnd, LeaveTop, ShapeInv
<1>21. QED
  BY <1>9, <1>10, <1>11, <1>12, <1>13, <1>14, <1>15, <1>16, <1>17, <1>18, <1>19, <1>20 DEF Step

-----------------------------------------------------------------------------
(* Who owns a front                                                        *)

LEMMA ChildrenStay ==
  ASSUME UNCHANGED scn
  PROVE  /\ Fronts' = Fronts /\ Free' = Free /\ WorkArmed' = WorkArmed /\ Armed' = Armed
         /\ \A f : ChildrenOf(f)' = ChildrenOf(f)
BY DEF Fronts, Free, WorkArmed, Armed, ChildrenOf, KidsOf

\* t works on its front, and owns no more fronts than before.
LEMMA OwnWorking ==
  ASSUME ShapeInv, OwnInv, NEW t, Moves(t), Busy(t), Later' = Later,
         Later \subseteq Fronts,
         Ahead(t)' \subseteq Ahead(t),
         Busy(t)' => at'[t] \in Ahead(t)',
         \A f \in Fronts \ {at[t]} : factored'[f] = factored[f] /\ (f \in added' => f \in added),
         \/ factored'[at[t]] = factored[at[t]]
         \/ factored'[at[t]] = 1 /\ \A c \in ChildrenOf(at[t]) : factored[c] = 1,
         \A f \in Ahead(t)' : f # at'[t] => f # at[t],
         Ahead(t)' = {} \/ \A f \in Ahead(t) \ Ahead(t)' : factored'[f] = 1,
         Running' => Running /\ \A f \in Ahead(t) \ Ahead(t)' : factored'[f] = 1
  PROVE  OwnInv'
<1> DEFINE a == at[t]
<1>1. UNCHANGED <<scn, plan, phase>> /\ t \in Threads
  BY DEF Moves
<1>2. Fronts' = Fronts /\ Threads' = Threads /\ \A f : ChildrenOf(f)' = ChildrenOf(f)
  BY <1>1, ChildrenStay
<1>3. \A u \in Threads \ {t} : (Busy(u)' <=> Busy(u)) /\ Ahead(u)' = Ahead(u) /\ at'[u] = at[u]
  BY OthersStay DEF Moves
<1>4. a \in Ahead(t) /\ Ahead(t) \subseteq Fronts \ Later
  BY <1>1 DEF OwnInv
<1>5. \A u \in Threads \ {t} : Ahead(u) \cap Ahead(t) = {}
  BY <1>1 DEF OwnInv
<1>6. \A f \in Fronts : factored[f] \in {0, 1} /\ factored'[f] \in {0, 1}
                        /\ (factored[f] = 1 => factored'[f] = 1)
  <2>1. \A f \in Fronts : factored[f] \in {0, 1}
    BY DEF OwnInv
  <2>2. factored'[a] \in {0, 1} /\ (factored[a] = 1 => factored'[a] = 1)
    BY <1>4, <2>1
  <2>3. QED
    BY <2>1, <2>2
<1>7. \A f \in Fronts \ {a} : Fresh(f) => Fresh(f)'
  BY DEF Fresh
<1>8. \A u \in Threads : Busy(u)' => at'[u] \in Ahead(u)'
  BY <1>3 DEF OwnInv
<1>9. \A u \in Threads : Ahead(u)' \subseteq Fronts' \ Later'
  BY <1>2, <1>3, <1>4 DEF OwnInv
<1>10. \A u, v \in Threads : u # v => Ahead(u)' \cap Ahead(v)' = {}
  <2> SUFFICES ASSUME NEW u \in Threads, NEW v \in Threads, u # v PROVE Ahead(u)' \cap Ahead(v)' = {}
    OBVIOUS
  <2>1. Ahead(u)' \subseteq Ahead(u) /\ Ahead(v)' \subseteq Ahead(v)
    BY <1>3
  <2>2. Ahead(u) \cap Ahead(v) = {}
    BY DEF OwnInv
  <2>3. QED
    BY <2>1, <2>2
<1>11. ASSUME NEW u \in Threads, NEW f \in Ahead(u)'
       PROVE  /\ f # at'[u] => Fresh(f)'
              /\ \A c \in ChildrenOf(f)' : factored'[c] = 1 \/ c \in Ahead(u)'
  <2>1. f \in Ahead(u) /\ f \in Fronts
    BY <1>2, <1>3, <1>9, <1>11
  <2>2. \A c \in ChildrenOf(f) : c \in Fronts /\ (factored[c] = 1 \/ c \in Ahead(u))
    BY <2>1, ScenarioFacts DEF OwnInv, ShapeInv
  <2>3. f # at[u] => Fresh(f)
    BY <2>1 DEF OwnInv
  <2>4. CASE u = t
    <3>1. f # at'[u] => Fresh(f)'
      BY <1>7, <1>11, <2>1, <2>3, <2>4
    <3>2. \A c \in Ahead(t) \ Ahead(t)' : factored'[c] = 1
      BY <1>11, <2>4
    <3>3. QED
      BY <1>2, <1>6, <2>2, <2>4, <3>1, <3>2
  <2>5. CASE u # t
    <3>1. f # a /\ at'[u] = at[u] /\ Ahead(u)' = Ahead(u)
      BY <1>3, <1>4, <1>5, <2>1, <2>5
    <3>2. QED
      BY <1>2, <1>6, <1>7, <2>1, <2>2, <2>3, <3>1
  <2>6. QED
    BY <2>4, <2>5
<1>12. \A f \in Later' : Fresh(f)'
  <2> SUFFICES ASSUME NEW f \in Later PROVE Fresh(f)'
    OBVIOUS
  <2>1. f # a /\ f \in Fronts
    BY <1>4
  <2>2. QED
    BY <1>7, <2>1 DEF OwnInv
<1>13. ASSUME NEW f \in Fronts
       PROVE  /\ factored'[f] = 1 => \A c \in ChildrenOf(f)' : factored'[c] = 1
              /\ Running' => factored'[f] = 1 \/ f \in Later' \/ \E u \in Threads : f \in Ahead(u)'
  <2>1. \A c \in ChildrenOf(f) : c \in Fronts
    BY ScenarioFacts DEF ShapeInv
  <2>2. factored'[f] = 1 => \A c \in ChildrenOf(f) : factored[c] = 1
    <3>1. factored[f] = 1 => \A c \in ChildrenOf(f) : factored[c] = 1
      BY DEF OwnInv
    <3>2. CASE f = a
      BY <3>1, <3>2
    <3>3. CASE f # a
      BY <3>1, <3>3
    <3>4. QED
      BY <3>2, <3>3
  <2>3. Running' => factored'[f] = 1 \/ f \in Later' \/ \E u \in Threads : f \in Ahead(u)'
    <3> SUFFICES ASSUME Running' PROVE factored'[f] = 1 \/ f \in Later' \/ \E u \in Threads : f \in Ahead(u)'
      OBVIOUS
    <3>1. factored[f] = 1 \/ f \in Later \/ \E u \in Threads : f \in Ahead(u)
      BY DEF OwnInv
    <3>2. ASSUME NEW u \in Threads, f \in Ahead(u) PROVE factored'[f] = 1 \/ f \in Ahead(u)'
      <4>1. CASE u = t
        BY <3>2, <4>1
      <4>2. CASE u # t
        BY <1>3, <3>2, <4>2
      <4>3. QED
        BY <4>1, <4>2
    <3>3. QED
      BY <1>6, <3>1, <3>2
  <2>4. QED
    BY <1>2, <1>6, <2>1, <2>2, <2>3
<1>14. QED
  BY <1>2, <1>6, <1>8, <1>9, <1>10, <1>11, <1>12, <1>13 DEF OwnInv

\* Nobody begins or ends a front.
LEMMA OwnResting ==
  ASSUME ShapeInv, OwnInv, UNCHANGED <<scn, factored, added>>,
         \A u \in Threads : Ahead(u)' = Ahead(u) /\ (Busy(u)' => Busy(u) /\ at'[u] = at[u]),
         \A u \in Threads : Busy(u) => at'[u] = at[u],
         Later' \subseteq Later,
         Running' => Running /\ Later' = Later
  PROVE  OwnInv'
<1>1. Fronts' = Fronts /\ Threads' = Threads /\ \A f : ChildrenOf(f)' = ChildrenOf(f)
  BY ChildrenStay
<1>2. \A f : Fresh(f)' <=> Fresh(f)
  BY DEF Fresh
<1>3. \A u \in Threads : Busy(u)' => at'[u] \in Ahead(u)'
  BY DEF OwnInv
<1>4. \A u \in Threads : Ahead(u)' \subseteq Fronts' \ Later'
  BY <1>1 DEF OwnInv
<1>5. \A u, v \in Threads : u # v => Ahead(u)' \cap Ahead(v)' = {}
  BY DEF OwnInv
<1>6. ASSUME NEW u \in Threads, NEW f \in Ahead(u)'
      PROVE  /\ f # at'[u] => Fresh(f)'
             /\ \A c \in ChildrenOf(f)' : factored'[c] = 1 \/ c \in Ahead(u)'
  <2>1. f \in Ahead(u) /\ Busy(u)
    BY <1>6 DEF Ahead
  <2>2. QED
    BY <1>1, <1>2, <2>1 DEF OwnInv
<1>7. \A f \in Later' : Fresh(f)'
  BY <1>2 DEF OwnInv
<1>8. \A f \in Fronts : /\ factored'[f] \in {0, 1}
                        /\ factored'[f] = 1 => \A c \in ChildrenOf(f)' : factored'[c] = 1
                        /\ Running' => factored'[f] = 1 \/ f \in Later' \/ \E u \in Threads : f \in Ahead(u)'
  BY <1>1 DEF OwnInv
<1>9. QED
  BY <1>1, <1>3, <1>4, <1>5, <1>6, <1>7, <1>8 DEF OwnInv

\* t, which has nothing to do, takes the fronts ahead of it.
LEMMA OwnTaking ==
  ASSUME ShapeInv, OwnInv, NEW t, Moves(t), ~Busy(t), UNCHANGED <<factored, added, failed>>,
         Later \subseteq Fronts,
         Ahead(t)' \subseteq Later, Later' = Later \ Ahead(t)', at'[t] \in Ahead(t)',
         \A f \in Ahead(t)' : \A c \in ChildrenOf(f) : factored[c] = 1 \/ c \in Ahead(t)'
  PROVE  OwnInv'
<1>1. UNCHANGED <<scn, plan, phase>> /\ t \in Threads
  BY DEF Moves
<1>2. Fronts' = Fronts /\ Threads' = Threads /\ (\A f : ChildrenOf(f)' = ChildrenOf(f)) /\ (Running' <=> Running)
  BY <1>1, ChildrenStay DEF Running
<1>3. \A u \in Threads \ {t} : (Busy(u)' <=> Busy(u)) /\ Ahead(u)' = Ahead(u) /\ at'[u] = at[u]
  BY OthersStay DEF Moves
<1>4. Ahead(t) = {}
  BY DEF Ahead
<1>5. \A f : Fresh(f)' <=> Fresh(f)
  BY DEF Fresh
<1>6. Later \subseteq Fronts
  OBVIOUS
<1>7. \A u \in Threads : Busy(u)' => at'[u] \in Ahead(u)'
  BY <1>3 DEF OwnInv
<1>8. \A u \in Threads : Ahead(u)' \subseteq Fronts' \ Later'
  <2> SUFFICES ASSUME NEW u \in Threads PROVE Ahead(u)' \subseteq Fronts \ Later'
    BY <1>2
  <2>1. CASE u = t
    BY <1>6, <2>1
  <2>2. CASE u # t
    BY <1>3, <2>2 DEF OwnInv
  <2>3. QED
    BY <2>1, <2>2
<1>9. \A u, v \in Threads : u # v => Ahead(u)' \cap Ahead(v)' = {}
  <2>1. \A u \in Threads \ {t} : Ahead(u) \cap Later = {}
    BY DEF OwnInv
  <2>2. \A u \in Threads \ {t} : Ahead(u)' \cap Ahead(t)' = {}
    BY <1>3, <2>1
  <2>3. \A u, v \in Threads \ {t} : u # v => Ahead(u)' \cap Ahead(v)' = {}
    BY <1>3 DEF OwnInv
  <2>4. QED
    BY <2>2, <2>3
<1>10. ASSUME NEW u \in Threads, NEW f \in Ahead(u)'
       PROVE  /\ f # at'[u] => Fresh(f)'
              /\ \A c \in ChildrenOf(f)' : factored'[c] = 1 \/ c \in Ahead(u)'
  <2>1. CASE u = t
    BY <1>2, <1>5, <1>10, <2>1 DEF OwnInv
  <2>2. CASE u # t
    BY <1>2, <1>3, <1>5, <1>10, <2>2 DEF OwnInv
  <2>3. QED
    BY <2>1, <2>2
<1>11. \A f \in Later' : Fresh(f)'
  BY <1>5 DEF OwnInv
<1>12. \A f \in Fronts : /\ factored'[f] \in {0, 1}
                         /\ factored'[f] = 1 => \A c \in ChildrenOf(f)' : factored'[c] = 1
  BY <1>2 DEF OwnInv
<1>13. ASSUME NEW f \in Fronts, Running'
       PROVE  factored'[f] = 1 \/ f \in Later' \/ \E u \in Threads : f \in Ahead(u)'
  <2>1. factored[f] = 1 \/ f \in Later \/ \E u \in Threads : f \in Ahead(u)
    BY <1>2, <1>13 DEF OwnInv
  <2>2. ASSUME NEW u \in Threads, f \in Ahead(u) PROVE f \in Ahead(u)'
    BY <1>3, <1>4, <2>2
  <2>3. QED
    BY <1>1, <2>1, <2>2
<1>14. QED
  BY <1>2, <1>7, <1>8, <1>9, <1>10, <1>11, <1>12, <1>13 DEF OwnInv

LEMMA LaterFronts == ASSUME Par, PlanFits PROVE Later \subseteq Fronts
BY PlanFacts DEF Later

LEMMA GivenStays ==
  ASSUME UNCHANGED <<plan, claimed, next, taken>>
  PROVE  /\ Given' = Given /\ Later' = Later /\ Subs' = Subs /\ Top' = Top
         /\ NSub' = NSub /\ dealt' = dealt
<1>1. NSub' = NSub /\ dealt' = dealt /\ Top' = Top /\ Fronts' = Fronts
  BY DEF NSub, dealt, Top, Fronts
<1>2. \A i : RangeOf(i)' = RangeOf(i)
  BY DEF RangeOf, Lo, Hi
<1>3. Subs' = Subs /\ Given' = Given
  BY <1>1 DEF Subs, Given
<1>4. QED
  BY <1>1, <1>2, <1>3 DEF Later

\* A subtree is given to a thread.
LEMMA GivesOne ==
  ASSUME Par, PlanFits, UNCHANGED <<plan, taken>>, NEW i \in Subs \ Given, Given' = Given \cup {i}
  PROVE  RangeOf(i) \subseteq Later /\ Later' = Later \ RangeOf(i)
<1>1. NSub' = NSub /\ Top' = Top /\ Fronts' = Fronts /\ \A j : RangeOf(j)' = RangeOf(j)
  BY DEF NSub, Top, Fronts, RangeOf, Lo, Hi
<1>2. Subs' = Subs
  BY <1>1 DEF Subs
<1>3. RangeOf(i) \subseteq Fronts \ Top
  BY PlanFacts
<1>4. \A j \in Subs : j # i => RangeOf(i) \cap RangeOf(j) = {}
  BY PlanFacts
<1>5. RangeOf(i) \subseteq Later
  BY <1>3 DEF Later
<1>6. Later' = (Top \ taken) \cup {f \in Fronts : \E j \in (Subs \ Given) \ {i} : f \in RangeOf(j)}
  BY <1>1, <1>2 DEF Later
<1>7. Later' \subseteq Later \ RangeOf(i)
  BY <1>3, <1>4, <1>6 DEF Later
<1>8. Later \ RangeOf(i) \subseteq Later'
  BY <1>6 DEF Later
<1>9. QED
  BY <1>5, <1>7, <1>8

LEMMA PhaseOf ==
  ASSUME DealInv, phase \in {1, 2}, NEW t \in Threads
  PROVE  /\ pc[t] \in {"own", "next", "over", "poll", "joined"} => phase = 1
         /\ pc[t] \in {"top", "topend", "out"} => phase = 2
BY DEF DealInv, Busy

LEMMA RestsAll ==
  ASSUME NEW t, Moves(t), ~Busy(t), ~Busy(t)'
  PROVE  /\ \A u \in Threads : Ahead(u)' = Ahead(u) /\ (Busy(u)' => Busy(u) /\ at'[u] = at[u])
         /\ \A u \in Threads : Busy(u) => at'[u] = at[u]
<1>1. Ahead(t)' = {} /\ Ahead(t) = {}
  BY DEF Ahead
<1>2. \A u \in Threads \ {t} : (Busy(u)' <=> Busy(u)) /\ Ahead(u)' = Ahead(u) /\ at'[u] = at[u]
  BY OthersStay DEF Moves
<1>3. QED
  BY <1>1, <1>2

LEMMA WorksOn ==
  ASSUME NEW t, Moves(t), Busy(t), Busy(t)', at'[t] = at[t], last'[t] = last[t]
  PROVE  Ahead(t)' = Ahead(t)
BY DEF Moves, Ahead

\* run_task(i).
LEMMA OwnRunTask ==
  ASSUME Par, PlanFits, ShapeInv, OwnInv, NEW t, Moves(t), ~Busy(t), phase = 1,
         UNCHANGED <<taken, factored, added, failed>>,
         NEW i \in Subs \ Given, Given' = Given \cup {i}, NEW l, RunTask(t, i, l)
  PROVE  OwnInv' /\ Ahead(t)' = RangeOf(i) /\ at'[t] = Lo(i) /\ Lo(i) \in Later
<1>1. t \in Threads /\ UNCHANGED <<plan, phase>>
  BY DEF Moves
<1>2. RangeOf(i) \subseteq Later /\ Later' = Later \ RangeOf(i)
  BY <1>1, GivesOne
<1>3. at'[t] = Lo(i) /\ last'[t] = Hi(i) /\ pc'[t] = "poll"
  BY <1>1 DEF RunTask, Goto, ShapeInv
<1>4. Ahead(t)' = RangeOf(i)
  BY <1>1, <1>3 DEF Ahead, Busy, RangeOf, Lo, Hi
<1>5. Lo(i) \in RangeOf(i)
  BY PlanFacts DEF RangeOf, Fronts
<1>6. \A f \in RangeOf(i) : ChildrenOf(f) \subseteq RangeOf(i)
  BY PlanFacts
<1>7. OwnInv'
  BY <1>2, <1>3, <1>4, <1>5, <1>6, LaterFronts, OwnTaking
<1>8. QED
  BY <1>2, <1>3, <1>4, <1>5, <1>7

\* The three ways to a subtree give one that nobody has been given.
LEMMA GivesOwn ==
  ASSUME Par, PlanFits, ShapeInv, NEW t \in Threads, UNCHANGED <<plan, next>>,
         t < dealt, t \notin claimed, claimed' = Claimed(t)
  PROVE  t \in Subs \ Given /\ Given' = Given \cup {t}
<1>1. t \in Nat /\ dealt \in Nat /\ NSub \in Nat /\ dealt <= NSub
  BY PlanFacts, ThreadsAssumption
<1>2. Subs' = Subs /\ dealt' = dealt
  BY DEF Subs, NSub, dealt
<1>3. Given = claimed \cup {i \in Subs : dealt <= i /\ i < next}
  BY DEF Given
<1>4. Given' = (claimed \cup {t}) \cup {i \in Subs : dealt <= i /\ i < next}
  BY <1>2 DEF Given, Claimed
<1>5. t \in Subs /\ ~(dealt <= t)
  BY <1>1 DEF Subs
<1>6. QED
  BY <1>3, <1>4, <1>5

LEMMA GivesNext ==
  ASSUME Par, PlanFits, ShapeInv, UNCHANGED <<plan, claimed>>, next' = next + 1
  PROVE  /\ next < NSub => next \in Subs \ Given /\ Given' = Given \cup {next}
         /\ next >= NSub => Given' = Given
<1>1. dealt \in Nat /\ NSub \in Nat /\ dealt <= NSub /\ next \in Nat /\ dealt <= next
      /\ claimed \subseteq 0..(dealt - 1)
  BY PlanFacts DEF ShapeInv
<1>2. Subs' = Subs /\ dealt' = dealt
  BY DEF Subs, NSub, dealt
<1> DEFINE Fetched(n) == {i \in Subs : dealt <= i /\ i < n}
<1>3. Given = claimed \cup Fetched(next) /\ Given' = claimed \cup Fetched(next + 1)
  BY <1>2 DEF Given
<1>4. ASSUME next < NSub PROVE next \in Subs \ Given /\ Given' = Given \cup {next}
  <2>1. next \in Subs /\ next \notin claimed /\ next \notin Fetched(next)
    BY <1>1, <1>4 DEF Subs
  <2>2. \A i \in Subs : dealt <= i /\ i < next + 1 <=> (dealt <= i /\ i < next) \/ i = next
    BY <1>1 DEF Subs
  <2>3. Fetched(next + 1) = Fetched(next) \cup {next}
    BY <2>1, <2>2
  <2>4. QED
    BY <1>3, <2>1, <2>3
<1>5. ASSUME next >= NSub PROVE Given' = Given
  <2>1. \A i \in Subs : i < next + 1 <=> i < next
    BY <1>1, <1>5 DEF Subs
  <2>2. Fetched(next + 1) = Fetched(next)
    BY <2>1
  <2>3. QED
    BY <1>3, <2>2
<1>6. QED
  BY <1>4, <1>5

LEMMA GivesTakenOver ==
  ASSUME Par, PlanFits, ShapeInv, NEW t \in Threads, UNCHANGED <<plan, next>>,
         MoreDealt(scan[t]), scan[t] \notin claimed, claimed' = Claimed(scan[t])
  PROVE  scan[t] \in Subs \ Given /\ Given' = Given \cup {scan[t]}
<1>1. scan[t] \in Nat /\ dealt \in Nat /\ NSub \in Nat /\ dealt <= NSub
  BY PlanFacts DEF ShapeInv
<1>2. Subs' = Subs /\ dealt' = dealt
  BY DEF Subs, NSub, dealt
<1>3. Given = claimed \cup {i \in Subs : dealt <= i /\ i < next}
  BY DEF Given
<1>4. Given' = (claimed \cup {scan[t]}) \cup {i \in Subs : dealt <= i /\ i < next}
  BY <1>2 DEF Given, Claimed
<1>5. scan[t] \in Subs /\ ~(dealt <= scan[t])
  BY <1>1 DEF Subs, MoreDealt
<1>6. QED
  BY <1>3, <1>4, <1>5

LEMMA OwnStep ==
  ASSUME Par, PlanFits, ShapeInv, OwnInv, AtInv, DealInv, phase \in {1, 2}, NEW t \in Threads, Step(t)
  PROVE  OwnInv'
<1>1. Moves(t)
  BY StepMoves
<1>2. UNCHANGED <<scn, plan, phase>> /\ pc[t] \in Labels /\ pc \in [Threads -> Labels]
  BY <1>1 DEF Moves, ShapeInv
<1>3. Later \subseteq Fronts
  BY LaterFronts
<1>4. Busy(t) => at[t] \in Ahead(t) /\ at[t] \in Fronts
  BY DEF OwnInv
<1>5. back[t] \in {"next", "over"} /\ at \in [Threads -> Int] /\ last \in [Threads -> Int]
  BY DEF ShapeInv
<1>6. phase = 1 \/ phase = 2
  OBVIOUS
\* It goes on with its front.
<1>7. ASSUME Busy(t), Busy(t)', UNCHANGED <<at, last, claimed, next, taken, added, factored>>,
             Running' => Running
      PROVE  OwnInv'
  <2>1. Ahead(t)' = Ahead(t)
    BY <1>1, <1>7, WorksOn
  <2>2. Later' = Later
    BY <1>2, <1>7, GivenStays
  <2>3. QED
    BY <1>1, <1>3, <1>4, <1>7, <2>1, <2>2, OwnWorking
\* It leaves its subtree or the scheduler before the end of the front.
<1>8. ASSUME Busy(t), ~Busy(t)', UNCHANGED <<at, claimed, next, taken, added>>, ~Running',
             \A f \in Fronts \ {at[t]} : factored'[f] = factored[f],
             \/ factored'[at[t]] = factored[at[t]]
             \/ factored'[at[t]] = 1 /\ \A c \in ChildrenOf(at[t]) : factored[c] = 1
      PROVE  OwnInv'
  <2>1. Ahead(t)' = {}
    BY <1>8 DEF Ahead
  <2>2. Later' = Later
    BY <1>2, <1>8, GivenStays
  <2>3. QED
    BY <1>1, <1>3, <1>4, <1>8, <2>1, <2>2, OwnWorking
\* It has no front.
<1>9. ASSUME ~Busy(t), ~Busy(t)', UNCHANGED <<added, factored, failed>>, Later' = Later PROVE OwnInv'
  <2>1. Running' <=> Running
    BY <1>9 DEF Running
  <2>2. QED
    BY <1>1, <1>2, <1>9, <2>1, RestsAll, OwnResting
<1> USE DEF inputs, gate, outcomes, dealing
<1>10. CASE Own(t)
  <2>1. ~Busy(t) /\ phase = 1 /\ UNCHANGED <<added, factored, failed, taken>>
    BY <1>10, PhaseOf DEF Own, Busy
  <2>2. CASE t < dealt /\ t \notin claimed /\ claimed' = Claimed(t) /\ RunTask(t, t, "next") /\ UNCHANGED <<next, scan>>
    BY <1>1, <1>2, <2>1, <2>2, GivesOwn, OwnRunTask
  <2>3. CASE Goto(t, "next") /\ UNCHANGED <<dealing, at>>
    <3>1. ~Busy(t)'
      BY <1>2, <2>3 DEF Goto, Busy
    <3>2. QED
      BY <1>2, <1>9, <2>1, <2>3, <3>1, GivenStays
  <2>4. QED
    BY <1>10, <2>2, <2>3 DEF Own
<1>11. CASE NextTask(t)
  <2>1. ~Busy(t) /\ phase = 1 /\ UNCHANGED <<added, factored, failed, taken>>
    BY <1>11, PhaseOf DEF NextTask, Busy
  <2>2. CASE next' = next + 1 /\ next < NSub /\ RunTask(t, next, "next") /\ UNCHANGED <<claimed, scan>>
    BY <1>1, <1>2, <2>1, <2>2, GivesNext, OwnRunTask
  <2>3. CASE next' = next + 1 /\ ~(next < NSub) /\ Goto(t, "over") /\ UNCHANGED <<claimed, last, back, scan, at>>
    <3>1. ~Busy(t)'
      BY <1>2, <2>3 DEF Goto, Busy
    <3>2. next >= NSub
      BY <2>3, PlanFacts DEF ShapeInv
    <3>3. Given' = Given
      BY <1>2, <2>3, <3>2, GivesNext
    <3>4. Later' = Later
      <4>1. Top' = Top /\ Fronts' = Fronts /\ Subs' = Subs /\ \A i : RangeOf(i)' = RangeOf(i)
        BY <1>2 DEF Top, Fronts, Subs, NSub, RangeOf, Lo, Hi
      <4>2. QED
        BY <2>1, <3>3, <4>1 DEF Later
    <3>5. QED
      BY <1>9, <2>1, <3>1, <3>4
  <2>4. CASE Goto(t, "over") /\ UNCHANGED <<dealing, at>>
    <3>1. ~Busy(t)'
      BY <1>2, <2>4 DEF Goto, Busy
    <3>2. QED
      BY <1>2, <1>9, <2>1, <2>4, <3>1, GivenStays
  <2>5. QED
    BY <1>11, <2>2, <2>3, <2>4 DEF NextTask
<1>12. CASE TakeOver(t)
  <2>1. ~Busy(t) /\ phase = 1 /\ UNCHANGED <<added, factored, failed, taken, next>>
    BY <1>12, PhaseOf DEF TakeOver, Busy
  <2>2. CASE MoreDealt(scan[t]) /\ scan[t] \notin claimed /\ claimed' = Claimed(scan[t]) /\ RunTask(t, scan[t], "over")
    BY <1>1, <1>2, <2>1, <2>2, GivesTakenOver, OwnRunTask
  <2>3. CASE UNCHANGED <<claimed, at, last, back, pc>>
    <3>1. ~Busy(t)'
      BY <2>1, <2>3 DEF Busy
    <3>2. QED
      BY <1>2, <1>9, <2>1, <2>3, <3>1, GivenStays
  <2>4. CASE Goto(t, "joined") /\ UNCHANGED <<claimed, scan, at, last, back>>
    <3>1. ~Busy(t)'
      BY <1>2, <2>4 DEF Goto, Busy
    <3>2. QED
      BY <1>2, <1>9, <2>1, <2>4, <3>1, GivenStays
  <2>5. QED
    BY <1>12, <2>2, <2>3, <2>4 DEF TakeOver
<1>13. CASE Poll(t)
  <2>1. Busy(t) /\ UNCHANGED <<at, last, claimed, next, taken, added, factored, failed>>
    BY <1>13 DEF Poll, Busy
  <2>2. (Running' <=> Running)
    BY <2>1 DEF Running
  <2>3. CASE Goto(t, "front")
    BY <1>2, <1>7, <2>1, <2>2, <2>3 DEF Goto, Busy
  <2>4. CASE ~Running /\ Goto(t, back[t])
    <3>1. ~Busy(t)'
      BY <1>2, <1>5, <2>4 DEF Goto, Busy
    <3>2. QED
      BY <1>8, <2>1, <2>2, <2>4, <3>1
  <2>5. QED
    BY <1>13, <2>3, <2>4 DEF Poll
\* A failure's target is no front.
<1>14. ASSUME NEW e, e # "Success", Fail(t, e) PROVE ~Busy(t)' /\ ~Running'
  BY <1>2, <1>5, <1>14 DEF Fail, Goto, Busy, Running
<1>15. CASE WorkCheck(t)
  <2>1. Busy(t) /\ UNCHANGED <<at, last, claimed, next, taken, added, factored>>
    BY <1>15 DEF WorkCheck, Busy
  <2>2. CASE Fail(t, "WorkLimitExceeded")
    BY <1>8, <1>14, <2>1, <2>2
  <2>3. CASE (Goto(t, "store") \/ Goto(t, "compute")) /\ UNCHANGED failed
    BY <1>2, <1>7, <2>1, <2>3 DEF Goto, Busy, Running
  <2>4. QED
    BY <1>15, <2>2, <2>3 DEF WorkCheck
<1>16. CASE ReachStore(t)
  BY <1>2, <1>7, <1>16 DEF ReachStore, StoreWork, Goto, Busy, Running
<1>17. CASE ReachAdd(t)
  <2>1. /\ Busy(t) /\ Busy(t)' /\ UNCHANGED <<at, last, claimed, next, taken, factored, failed>>
        /\ added' = added \cup {at[t]}
    BY <1>2, <1>17 DEF ReachAdd, AddWork, Goto, Busy
  <2>2. Ahead(t)' = Ahead(t)
    BY <1>1, <2>1, WorksOn
  <2>3. Later' = Later
    BY <1>2, <2>1, GivenStays
  <2>4. Running' <=> Running
    BY <2>1 DEF Running
  <2>5. \A f \in Fronts \ {at[t]} : factored'[f] = factored[f] /\ (f \in added' => f \in added)
    BY <2>1
  <2>6. factored'[at[t]] = factored[at[t]] /\ at'[t] \in Ahead(t)' /\ at'[t] = at[t]
    BY <1>4, <2>1, <2>2
  <2>7. QED
    BY <1>1, <1>3, <2>1, <2>2, <2>3, <2>4, <2>5, <2>6, OwnWorking
<1>18. CASE ReachWalk(t)
  <2>1. Busy(t) /\ UNCHANGED <<at, last, claimed, next, taken, added, factored>>
    BY <1>18 DEF ReachWalk, Walk, NoWalk, Busy
  <2>2. CASE Fail(t, "WorkLimitExceeded")
    BY <1>8, <1>14, <2>1, <2>2
  <2>3. CASE Goto(t, "compute") /\ UNCHANGED failed
    BY <1>2, <1>7, <2>1, <2>3 DEF Goto, Busy, Running
  <2>4. QED
    BY <1>18, <2>2, <2>3 DEF ReachWalk
<1>19. CASE Compute(t)
  <2>1. /\ Busy(t) /\ UNCHANGED <<at, last, claimed, next, taken, added>> /\ at[t] \in Fronts /\ at[t] \in Ahead(t)
        /\ factored' = [factored EXCEPT ![at[t]] = factored[at[t]] + 1]
    BY <1>4, <1>19 DEF Compute, Busy
  <2>2. factored[at[t]] = 0 /\ factored \in [Fronts -> Nat]
    BY <1>19 DEF Compute, AtInv, AtFront, ShapeInv
  <2>3. factored'[at[t]] = 1 /\ \A f \in Fronts \ {at[t]} : factored'[f] = factored[f]
    BY <2>1, <2>2
  <2>4. \A c \in ChildrenOf(at[t]) : factored[c] = 1
    <3>1. TAKE c \in ChildrenOf(at[t])
    <3>2. c \in Fronts /\ c < at[t]
      BY <2>1, ScenarioFacts DEF ShapeInv
    <3>3. c \notin Ahead(t)
      BY <2>1, <3>2, <1>5 DEF Ahead, Fronts
    <3>4. QED
      BY <2>1, <3>3 DEF OwnInv
  <2>5. CASE Fail(t, "IllegalValue")
    BY <1>8, <1>14, <2>1, <2>3, <2>4, <2>5
  <2>6. CASE Goto(t, "count") /\ UNCHANGED failed
    <3>1. Busy(t)'
      BY <1>2, <2>6 DEF Goto, Busy
    <3>2. Ahead(t)' = Ahead(t)
      BY <1>1, <2>1, <3>1, WorksOn
    <3>3. Later' = Later
      BY <1>2, <2>1, GivenStays
    <3>4. Running' <=> Running
      BY <2>6 DEF Running
    <3>5. QED
      BY <1>1, <1>3, <2>1, <2>3, <2>4, <3>1, <3>2, <3>3, <3>4, OwnWorking
  <2>7. QED
    BY <1>19, <2>5, <2>6 DEF Compute
<1>20. CASE Count(t)
  <2>1. /\ Busy(t) /\ UNCHANGED <<last, claimed, next, taken, added, factored>> /\ at[t] \in Ahead(t)
        /\ at[t] \in Fronts /\ factored[at[t]] = 1
    BY <1>4, <1>20 DEF Count, Busy, AtInv, AtFront
  <2>2. Later' = Later
    BY <1>2, <2>1, GivenStays
  <2>3. Running' => Running
    BY <1>20 DEF Count, Raise, Running
  <2>4. CASE phase = 1 /\ at[t] < last[t] /\ at' = [at EXCEPT ![t] = at[t] + 1] /\ Goto(t, "poll")
    <3>1. Busy(t)' /\ at'[t] = at[t] + 1 /\ last'[t] = last[t]
      BY <1>2, <1>5, <2>1, <2>4 DEF Goto, Busy
    <3>2. Ahead(t) = at[t]..last[t] /\ Ahead(t)' = (at[t] + 1)..last[t]
      BY <1>2, <2>1, <2>4, <3>1 DEF Ahead
    <3>3. at[t] \in Int /\ last[t] \in Int
      BY <1>5
    <3> DEFINE a == at[t]
    <3>4. Ahead(t)' \subseteq Ahead(t) /\ at'[t] \in Ahead(t)' /\ a \notin Ahead(t)'
          /\ \A f \in Ahead(t) \ Ahead(t)' : f = a
      BY <2>4, <3>1, <3>2, <3>3
    <3>5. QED
      BY <1>1, <1>3, <2>1, <2>2, <2>3, <3>4, OwnWorking
  <2>5. CASE /\ phase = 2 \/ ~(at[t] < last[t])
             /\ Goto(t, "topend") \/ Goto(t, back[t])
             /\ UNCHANGED at
    <3>1. ~Busy(t)' /\ Ahead(t)' = {}
      BY <1>2, <1>5, <2>5 DEF Goto, Busy, Ahead
    <3>2. Ahead(t) \subseteq {at[t]}
      BY <1>5, <1>6, <2>5 DEF Ahead
    <3>3. QED
      BY <1>1, <1>3, <2>1, <2>2, <2>3, <3>1, <3>2, OwnWorking
  <2>6. QED
    BY <1>6, <1>20, <2>4, <2>5 DEF Count
<1>21. CASE TakeTop(t)
  <2>1. ~Busy(t) /\ phase = 2 /\ UNCHANGED <<added, factored, failed, claimed, next>>
    BY <1>21, PhaseOf DEF TakeTop, Busy
  <2>2. PICK f \in Top \ taken : /\ TopReady(f) /\ taken' = taken \cup {f} /\ at' = [at EXCEPT ![t] = f]
                                 /\ Goto(t, IF Running THEN "front" ELSE "out")
    BY <1>21 DEF TakeTop
  <2>3. Later' = Later \ {f} /\ f \in Later /\ f \in Fronts
    <3>1. Top' = Top /\ Fronts' = Fronts /\ Given' = Given /\ Subs' = Subs /\ \A i : RangeOf(i)' = RangeOf(i)
      BY <1>2, <2>1 DEF Top, Fronts, Given, Subs, NSub, dealt, RangeOf, Lo, Hi
    <3>2. \A i \in Subs : f \notin RangeOf(i)
      BY <2>2, PlanFacts
    <3>3. f \in Fronts
      BY <2>2, PlanFacts
    <3>4. QED
      BY <2>2, <3>1, <3>2, <3>3 DEF Later
  <2>4. CASE Running
    <3>1. at'[t] = f /\ Busy(t)' /\ Ahead(t)' = {f}
      BY <1>2, <1>5, <2>1, <2>2, <2>4 DEF Goto, Busy, Ahead
    <3>2. \A c \in ChildrenOf(f) : factored[c] = 1
      <4>1. TAKE c \in ChildrenOf(f)
      <4>2. c \in Fronts /\ factored[c] > 0
        BY <2>2, <2>3, ScenarioFacts DEF TopReady, ShapeInv
      <4>3. factored[c] \in {0, 1}
        BY <4>2 DEF OwnInv
      <4>4. QED
        BY <4>2, <4>3
    <3>3. QED
      BY <1>1, <1>3, <2>1, <2>3, <3>1, <3>2, OwnTaking
  <2>5. CASE ~Running
    <3>1. ~Busy(t)'
      BY <1>2, <2>2, <2>5 DEF Goto, Busy
    <3>2. ~Running'
      BY <2>1, <2>5 DEF Running
    <3>3. QED
      BY <1>1, <1>2, <2>1, <2>3, <3>1, <3>2, RestsAll, OwnResting
  <2>6. QED
    BY <2>4, <2>5
<1>22. CASE TopEnd(t) \/ LeaveTop(t)
  <2>1. ~Busy(t) /\ ~Busy(t)' /\ UNCHANGED <<added, factored, failed, claimed, next, taken>>
    BY <1>2, <1>22 DEF TopEnd, LeaveTop, Goto, Busy
  <2>2. QED
    BY <1>2, <1>9, <2>1, GivenStays
<1>23. QED
  BY <1>10, <1>11, <1>12, <1>13, <1>15, <1>16, <1>17, <1>18, <1>19, <1>20, <1>21, <1>22 DEF Step

-----------------------------------------------------------------------------
(* What a thread knows of its front                                        *)

\* The others' fronts are not t's.
LEMMA AtOthers ==
  ASSUME OwnInv, AtInv, NEW t, Moves(t), NEW u \in Threads \ {t}, Busy(t) \/ UNCHANGED <<works, added, factored>>,
         \A f \in Fronts \ {at[t]} : /\ works'[f] = works[f] /\ factored'[f] = factored[f]
                                     /\ f \in added' <=> f \in added,
         verdict' = "open" => verdict = "open"
  PROVE  AtFront(u)'
<1>1. /\ t \in Threads /\ UNCHANGED <<scn, phase>> /\ pc'[u] = pc[u] /\ at'[u] = at[u] /\ AtFront(u)
      /\ (WorkArmed' <=> WorkArmed)
  BY ChildrenStay DEF Moves, AtInv
<1>2. CASE Busy(u)
  <2>1. at[u] \in Fronts /\ at[u] \in Ahead(u)
    BY <1>2 DEF OwnInv
  <2>2. CASE Busy(t)
    <3>1. at[t] \in Ahead(t) /\ Ahead(t) \cap Ahead(u) = {}
      BY <1>1, <2>2 DEF OwnInv
    <3>2. at[u] # at[t]
      BY <2>1, <3>1
    <3>3. /\ works'[at[u]] = works[at[u]] /\ factored'[at[u]] = factored[at[u]]
          /\ at[u] \in added' <=> at[u] \in added
      BY <2>1, <3>2
    <3>4. QED
      BY <1>1, <3>3 DEF AtFront, Fresh
  <2>3. CASE UNCHANGED <<works, added, factored>>
    BY <1>1, <2>3 DEF AtFront, Fresh
  <2>4. QED
    BY <2>2, <2>3
<1>3. CASE ~Busy(u)
  BY <1>1, <1>3 DEF AtFront, Busy
<1>4. QED
  BY <1>2, <1>3

LEMMA AtStep ==
  ASSUME Par, PlanFits, ShapeInv, OwnInv, AtInv, DealInv, phase \in {1, 2}, NEW t \in Threads, Step(t)
  PROVE  AtInv'
<1>1. Moves(t)
  BY StepMoves
<1>2. /\ UNCHANGED <<scn, plan, phase>> /\ pc \in [Threads -> Labels] /\ (WorkArmed' <=> WorkArmed)
      /\ AtFront(t) /\ Threads' = Threads
  BY <1>1, ChildrenStay DEF Moves, ShapeInv, AtInv
<1>3. Busy(t) => at[t] \in Ahead(t) /\ at[t] \in Fronts
  BY DEF OwnInv
<1>4. back[t] \in {"next", "over"} /\ at \in [Threads -> Int]
  BY DEF ShapeInv
<1>5. phase = 1 \/ phase = 2
  OBVIOUS
\* Only what is known of its own front has to be shown.
<1>6. ASSUME AtFront(t)',
             Busy(t) \/ UNCHANGED <<works, added, factored>>,
             \A f \in Fronts \ {at[t]} : /\ works'[f] = works[f] /\ factored'[f] = factored[f]
                                         /\ f \in added' <=> f \in added,
             verdict' = "open" => verdict = "open"
      PROVE  AtInv'
  BY <1>1, <1>2, <1>6, AtOthers DEF AtInv
<1>7. ASSUME ~Busy(t)' PROVE AtFront(t)'
  BY <1>7 DEF AtFront, Busy
<1> USE DEF inputs, gate, outcomes, dealing
\* It takes a subtree.
<1>8. ASSUME ~Busy(t), phase = 1, UNCHANGED <<works, added, factored, verdict, taken, failed>>,
             NEW i \in Subs \ Given, Given' = Given \cup {i}, NEW l, RunTask(t, i, l)
      PROVE  AtInv'
  <2>1. at'[t] \in Later /\ pc'[t] = "poll"
    BY <1>1, <1>2, <1>8, OwnRunTask DEF RunTask, Goto
  <2>2. AtFront(t)'
    BY <1>8, <2>1 DEF AtFront, Fresh, OwnInv
  <2>3. QED
    BY <1>6, <1>8, <2>2
<1>9. CASE Own(t)
  <2>1. ~Busy(t) /\ phase = 1 /\ UNCHANGED <<works, added, factored, verdict, taken, failed>>
    BY <1>9, PhaseOf DEF Own, Busy
  <2>2. CASE t < dealt /\ t \notin claimed /\ claimed' = Claimed(t) /\ RunTask(t, t, "next") /\ UNCHANGED <<next, scan>>
    BY <1>1, <1>2, <1>8, <2>1, <2>2, GivesOwn
  <2>3. CASE Goto(t, "next")
    <3>1. ~Busy(t)'
      BY <1>2, <2>3 DEF Goto, Busy
    <3>2. QED
      BY <1>6, <1>7, <2>1, <3>1
  <2>4. QED
    BY <1>9, <2>2, <2>3 DEF Own
<1>10. CASE NextTask(t)
  <2>1. ~Busy(t) /\ phase = 1 /\ UNCHANGED <<works, added, factored, verdict, taken, failed>>
    BY <1>10, PhaseOf DEF NextTask, Busy
  <2>2. CASE next' = next + 1 /\ next < NSub /\ RunTask(t, next, "next") /\ UNCHANGED <<claimed, scan>>
    BY <1>1, <1>2, <1>8, <2>1, <2>2, GivesNext
  <2>3. CASE Goto(t, "over")
    <3>1. ~Busy(t)'
      BY <1>2, <2>3 DEF Goto, Busy
    <3>2. QED
      BY <1>6, <1>7, <2>1, <3>1
  <2>4. QED
    BY <1>10, <2>2, <2>3 DEF NextTask
<1>11. CASE TakeOver(t)
  <2>1. ~Busy(t) /\ phase = 1 /\ UNCHANGED <<works, added, factored, verdict, taken, failed, next>>
    BY <1>11, PhaseOf DEF TakeOver, Busy
  <2>2. CASE MoreDealt(scan[t]) /\ scan[t] \notin claimed /\ claimed' = Claimed(scan[t]) /\ RunTask(t, scan[t], "over")
    BY <1>1, <1>2, <1>8, <2>1, <2>2, GivesTakenOver
  <2>3. CASE UNCHANGED pc \/ Goto(t, "joined")
    <3>1. ~Busy(t)'
      BY <1>2, <2>1, <2>3 DEF Goto, Busy
    <3>2. QED
      BY <1>6, <1>7, <2>1, <3>1
  <2>4. QED
    BY <1>11, <2>2, <2>3 DEF TakeOver
<1>12. CASE Poll(t)
  <2>1. UNCHANGED <<at, works, added, factored, verdict>>
    BY <1>12 DEF Poll
  <2>2. AtFront(t)'
    BY <1>2, <1>4, <1>12, <2>1 DEF Poll, Goto, AtFront, Fresh
  <2>3. QED
    BY <1>6, <2>1, <2>2
<1>13. CASE WorkCheck(t)
  <2>1. UNCHANGED <<at, works, added, factored, verdict>>
    BY <1>13 DEF WorkCheck
  <2>2. AtFront(t)'
    BY <1>2, <1>4, <1>13, <2>1 DEF WorkCheck, Fail, Goto, AtFront, Fresh
  <2>3. QED
    BY <1>6, <2>1, <2>2
<1>14. CASE ReachStore(t)
  <2>1. /\ UNCHANGED <<at, added, factored, verdict>> /\ works' = [works EXCEPT ![at[t]] = scn.work[at[t]]]
        /\ Busy(t) /\ pc'[t] = "add" /\ works \in [Fronts -> Int]
    BY <1>2, <1>14 DEF ReachStore, StoreWork, Busy, Goto, ShapeInv
  <2>2. works'[at[t]] = scn.work[at[t]]
    BY <1>3, <2>1
  <2>3. AtFront(t)'
    BY <1>2, <1>14, <2>1, <2>2 DEF ReachStore, AtFront, Fresh
  <2>4. QED
    BY <1>6, <2>1, <2>3
<1>15. CASE ReachAdd(t)
  <2>1. UNCHANGED <<at, works, factored, verdict>> /\ Busy(t) /\ added' = added \cup {at[t]}
        /\ pc'[t] \in {"walk", "compute"}
    BY <1>2, <1>15 DEF ReachAdd, AddWork, Goto, Busy
  <2>2. AtFront(t)'
    BY <1>2, <1>15, <2>1 DEF ReachAdd, AtFront, Fresh
  <2>3. QED
    BY <1>6, <2>1, <2>2
<1>16. CASE ReachWalk(t)
  <2>1. UNCHANGED <<at, works, added, factored>> /\ (verdict' = "open" => verdict = "open")
    BY <1>16 DEF ReachWalk, Walk, NoWalk
  <2>2. AtFront(t)'
    BY <1>2, <1>4, <1>16, <2>1 DEF ReachWalk, Fail, Goto, AtFront, Fresh
  <2>3. QED
    BY <1>6, <2>1, <2>2
<1>17. CASE Compute(t)
  <2>1. UNCHANGED <<at, works, added, verdict>> /\ Busy(t) /\ factored' = [factored EXCEPT ![at[t]] = factored[at[t]] + 1]
    BY <1>17 DEF Compute, Busy
  <2>2. factored[at[t]] = 0 /\ factored \in [Fronts -> Nat]
    BY <1>2, <1>17 DEF Compute, AtFront, ShapeInv
  <2>3. factored'[at[t]] = 1 /\ \A f \in Fronts \ {at[t]} : factored'[f] = factored[f]
    BY <1>3, <2>1, <2>2
  <2>4. AtFront(t)'
    BY <1>2, <1>4, <1>17, <2>1, <2>3 DEF Compute, Fail, Goto, AtFront
  <2>5. QED
    BY <1>6, <2>1, <2>3, <2>4
<1>18. CASE Count(t)
  <2>1. UNCHANGED <<works, added, factored, verdict>> /\ Busy(t)
    BY <1>18 DEF Count, Busy
  <2>2. CASE phase = 1 /\ at[t] < last[t] /\ at' = [at EXCEPT ![t] = at[t] + 1] /\ Goto(t, "poll")
    <3>1. pc'[t] = "poll" /\ at'[t] = at[t] + 1
      BY <1>2, <1>4, <2>2 DEF Goto
    <3>2. at[t] + 1 \in Ahead(t) /\ at[t] + 1 # at[t]
      <4>1. Ahead(t) = at[t]..last[t] /\ at[t] \in Int /\ last[t] \in Int
        BY <1>4, <2>1, <2>2 DEF Ahead, ShapeInv
      <4>2. QED
        BY <2>2, <4>1
    <3>3. Fresh(at[t] + 1)
      BY <3>2 DEF OwnInv
    <3>4. QED
      BY <1>6, <2>1, <3>1, <3>3 DEF AtFront, Fresh
  <2>3. CASE Goto(t, "topend") \/ Goto(t, back[t])
    <3>1. ~Busy(t)'
      BY <1>2, <1>4, <2>3 DEF Goto, Busy
    <3>2. QED
      BY <1>6, <1>7, <2>1, <3>1
  <2>4. QED
    BY <1>5, <1>18, <2>2, <2>3 DEF Count
<1>19. CASE TakeTop(t)
  <2>1. UNCHANGED <<works, added, factored, verdict, failed>>
    BY <1>19 DEF TakeTop
  <2>2. PICK f \in Top \ taken : at' = [at EXCEPT ![t] = f] /\ Goto(t, IF Running THEN "front" ELSE "out")
    BY <1>19 DEF TakeTop
  <2>3. at'[t] = f /\ f \in Later /\ Fresh(f)
    BY <1>4, <2>2 DEF Later, OwnInv
  <2>4. pc'[t] \in {"front", "out"}
    BY <1>2, <2>2 DEF Goto
  <2>5. AtFront(t)'
    BY <2>1, <2>3, <2>4 DEF AtFront, Fresh
  <2>6. QED
    BY <1>6, <2>1, <2>5
<1>20. CASE TopEnd(t) \/ LeaveTop(t)
  <2>1. ~Busy(t)' /\ UNCHANGED <<works, added, factored, verdict>>
    BY <1>2, <1>20 DEF TopEnd, LeaveTop, Goto, Busy
  <2>2. QED
    BY <1>6, <1>7, <2>1
<1>21. QED
  BY <1>9, <1>10, <1>11, <1>12, <1>13, <1>14, <1>15, <1>16, <1>17, <1>18, <1>19, <1>20 DEF Step

-----------------------------------------------------------------------------
(* The gate                                                                *)

\* The gate is left alone.
LEMMA GateFrame ==
  ASSUME GateInv, UNCHANGED <<scn, gate>>, Running' => Running,
         \A u \in Threads : pc[u] = "walk" => pc'[u] = "walk",
         WorkArmed /\ verdict = "open" => \A f \in Fronts : factored'[f] = 1 => f \in added
  PROVE  GateInv'
<1>1. /\ Fronts' = Fronts /\ Threads' = Threads /\ Free' = Free /\ (WorkArmed' <=> WorkArmed)
      /\ SumOver(scn.work, added)' = SumOver(scn.work, added)
      /\ \A f : /\ Crosses(scn.work, f)' <=> Crosses(scn.work, f)
                /\ Decision(scn.work, Free, f)' = Decision(scn.work, Free, f)
  BY ChildrenStay DEF gate, SumOver, SumUpTo, Crosses, Decision, Free, Fronts
<1>2. UNCHANGED <<works, total, added, sees, cursor, verdict>>
  BY DEF gate
<1> HIDE DEF gate
<1>3. /\ \A f \in Fronts : works'[f] \in {-1, scn'.work[f]}
      /\ \A f \in added' : works'[f] = scn'.work[f]
      /\ total' = SumOver(scn.work, added)'
  BY <1>1, <1>2 DEF GateInv
<1>4. \A f \in 1..(cursor' - 1) :
        works'[f] = scn'.work[f] /\ (verdict' = "open" => ~Crosses(scn.work, f)')
  BY <1>1, <1>2 DEF GateInv
<1>5. verdict' # "open" =>
        \E f \in Fronts' : Crosses(scn.work, f)' /\ verdict' = Decision(scn.work, Free, f)'
  BY <1>1, <1>2 DEF GateInv
<1>6. verdict' = "stop" => ~Running' /\ WorkArmed'
  BY <1>1, <1>2 DEF GateInv
<1>7. verdict' = "open" =>
        \A f \in Fronts' : Crosses(scn.work, f)' /\ 1..f \subseteq added' =>
           \E u \in Threads : pc'[u] = "walk" /\ 1..f \subseteq sees'[u]
  BY <1>1, <1>2 DEF GateInv
<1>8. WorkArmed' /\ verdict' = "open" => \A f \in Fronts' : factored'[f] = 1 => f \in added'
  BY <1>1, <1>2
<1>9. QED
  BY <1>1, <1>3, <1>4, <1>5, <1>6, <1>7, <1>8 DEF GateInv

LEMMA GateStore ==
  ASSUME Par, PlanFits, ShapeInv, OwnInv, AtInv, GateInv, NEW t \in Threads, ReachStore(t)
  PROVE  GateInv'
<1> DEFINE a == at[t]
<1>1. /\ UNCHANGED <<scn, total, added, sees, cursor, verdict, failed, factored>>
      /\ works' = [works EXCEPT ![a] = scn.work[a]] /\ works \in [Fronts -> Int]
      /\ pc'[t] = "add" /\ pc[t] = "store" /\ \A u \in Threads \ {t} : pc'[u] = pc[u]
  BY DEF ReachStore, StoreWork, Goto, inputs, outcomes, ShapeInv
<1>2. a \in Fronts
  BY <1>1 DEF OwnInv, Busy
<1>3. /\ Fronts' = Fronts /\ Threads' = Threads /\ Free' = Free /\ (WorkArmed' <=> WorkArmed)
      /\ (Running' <=> Running)
      /\ SumOver(scn.work, added)' = SumOver(scn.work, added)
      /\ \A f : /\ Crosses(scn.work, f)' <=> Crosses(scn.work, f)
                /\ Decision(scn.work, Free, f)' = Decision(scn.work, Free, f)
  BY <1>1, ChildrenStay DEF SumOver, SumUpTo, Crosses, Decision, Free, Fronts, Running
<1> HIDE DEF a
<1>4. /\ works'[a] = scn.work[a] /\ \A f \in Fronts \ {a} : works'[f] = works[f]
      /\ \A f \in 1..(cursor - 1) : f \in Fronts
      /\ added \subseteq Fronts
  BY <1>1, <1>2, FrontsAssumption DEF ShapeInv, Fronts
<1>5. \A f \in Fronts : works'[f] \in {-1, scn'.work[f]}
  BY <1>1, <1>4 DEF GateInv
<1>6. \A f \in added' : works'[f] = scn'.work[f]
  BY <1>1, <1>4 DEF GateInv
<1>7. \A f \in 1..(cursor' - 1) :
        works'[f] = scn'.work[f] /\ (verdict' = "open" => ~Crosses(scn.work, f)')
  BY <1>1, <1>3, <1>4 DEF GateInv
<1>8. verdict' = "open" =>
        \A f \in Fronts' : Crosses(scn.work, f)' /\ 1..f \subseteq added' =>
           \E u \in Threads : pc'[u] = "walk" /\ 1..f \subseteq sees'[u]
  BY <1>1, <1>3 DEF GateInv
<1>9. /\ total' = SumOver(scn.work, added)'
      /\ verdict' # "open" =>
           \E f \in Fronts' : Crosses(scn.work, f)' /\ verdict' = Decision(scn.work, Free, f)'
      /\ verdict' = "stop" => ~Running' /\ WorkArmed'
      /\ WorkArmed' /\ verdict' = "open" => \A f \in Fronts' : factored'[f] = 1 => f \in added'
  BY <1>1, <1>3 DEF GateInv
<1>10. QED
  BY <1>3, <1>5, <1>6, <1>7, <1>8, <1>9 DEF GateInv

\* The addition that completes a crossing sends its thread to the walk.
LEMMA GateAdd ==
  ASSUME Par, PlanFits, ShapeInv, OwnInv, AtInv, GateInv, NEW t \in Threads, ReachAdd(t)
  PROVE  GateInv'
<1> DEFINE a == at[t]
<1>1. /\ UNCHANGED <<scn, works, cursor, verdict, failed, factored>>
      /\ total' = total + works[a] /\ added' = added \cup {a}
      /\ sees' = [sees EXCEPT ![t] = added'] /\ sees \in [Threads -> SUBSET Fronts]
      /\ pc[t] = "add" /\ \A u \in Threads \ {t} : pc'[u] = pc[u]
      /\ pc'[t] = IF total' > At THEN "walk" ELSE "compute"
  BY DEF ReachAdd, AddWork, Goto, inputs, outcomes, ShapeInv, Published, MayHaveCrossed
<1>2. a \in Fronts /\ a \notin added /\ works[a] = scn.work[a]
  BY <1>1 DEF OwnInv, Busy, AtInv, AtFront, Fresh
<1>3. /\ Fronts' = Fronts /\ Threads' = Threads /\ Free' = Free /\ (WorkArmed' <=> WorkArmed)
      /\ (Running' <=> Running)
      /\ \A f : /\ Crosses(scn.work, f)' <=> Crosses(scn.work, f)
                /\ Decision(scn.work, Free, f)' = Decision(scn.work, Free, f)
  BY <1>1, ChildrenStay DEF SumUpTo, Crosses, Decision, Free, Fronts, Running
<1>4. scn.work \in [Fronts -> Nat]
  BY ScenarioFacts DEF ShapeInv
<1>5. SumOver(scn.work, added)' = SumOver(scn.work, added \cup {a})
  BY <1>1 DEF SumOver, SumUpTo, Fronts
<1> HIDE DEF a
<1>6. total' = SumOver(scn.work, added \cup {a})
  BY <1>1, <1>2, <1>4, OverAdds DEF GateInv
<1>7. ASSUME verdict = "open", NEW f \in Fronts, Crosses(scn.work, f), 1..f \subseteq added \cup {a}
      PROVE  \E u \in Threads : pc'[u] = "walk" /\ 1..f \subseteq sees'[u]
  <2>1. CASE 1..f \subseteq added
    <3>1. PICK u \in Threads : pc[u] = "walk" /\ 1..f \subseteq sees[u]
      BY <1>7, <2>1 DEF GateInv
    <3>2. u # t
      BY <1>1, <3>1
    <3>3. QED
      BY <1>1, <3>1, <3>2
  <2>2. CASE ~(1..f \subseteq added)
    <3>1. SumUpTo(scn.work, f) <= SumOver(scn.work, added \cup {a})
      BY <1>4, <1>7, OverPrefix
    <3>2. SumUpTo(scn.work, f) > At
      BY <1>7 DEF Crosses
    <3>3. SumUpTo(scn.work, f) \in Nat /\ SumOver(scn.work, added \cup {a}) \in Nat /\ At \in Nat
      BY <1>4, SumTyped, OverTyped, GateAssumption, FrontsAssumption, SMTT(30) DEF Fronts
    <3>4. total' > At
      BY <1>6, <3>1, <3>2, <3>3
    <3>5. pc'[t] = "walk" /\ sees'[t] = added \cup {a}
      BY <1>1, <3>4
    <3>6. QED
      BY <1>7, <3>5
  <2>3. QED
    BY <2>1, <2>2
<1>8. /\ \A f \in Fronts : works'[f] \in {-1, scn'.work[f]}
      /\ \A f \in added' : works'[f] = scn'.work[f]
  BY <1>1, <1>2 DEF GateInv
<1>9. \A f \in 1..(cursor' - 1) :
        works'[f] = scn'.work[f] /\ (verdict' = "open" => ~Crosses(scn.work, f)')
  BY <1>1, <1>3 DEF GateInv
<1>10. verdict' # "open" =>
        \E f \in Fronts' : Crosses(scn.work, f)' /\ verdict' = Decision(scn.work, Free, f)'
  BY <1>1, <1>3 DEF GateInv
<1>11. /\ verdict' = "stop" => ~Running' /\ WorkArmed'
       /\ WorkArmed' /\ verdict' = "open" => \A f \in Fronts' : factored'[f] = 1 => f \in added'
  BY <1>1, <1>3 DEF GateInv
<1>12. verdict' = "open" =>
        \A f \in Fronts' : Crosses(scn.work, f)' /\ 1..f \subseteq added' =>
           \E u \in Threads : pc'[u] = "walk" /\ 1..f \subseteq sees'[u]
  BY <1>1, <1>3, <1>7
<1>13. QED
  BY <1>3, <1>5, <1>6, <1>8, <1>9, <1>10, <1>11, <1>12 DEF GateInv

\* What the walk passes is as in the finished factorization.
LEMMA WalkPasses ==
  ASSUME ShapeInv, GateInv, NEW m \in cursor..(N + 1), \A f \in cursor..(m - 1) : works[f] >= 0
  PROVE  /\ \A f \in 1..(m - 1) : f \in Fronts /\ works[f] = scn.work[f]
         /\ \A f \in 1..(m - 1) : /\ Crosses(works, f) <=> Crosses(scn.work, f)
                                  /\ \A free : Decision(works, free, f) = Decision(scn.work, free, f)
<1>1. cursor \in 1..(N + 1) /\ N \in Nat /\ m \in Nat /\ m <= N + 1
  BY FrontsAssumption DEF ShapeInv
<1>2. ASSUME NEW f \in 1..(m - 1) PROVE f \in Fronts /\ works[f] = scn.work[f]
  <2>1. f \in Fronts /\ f \in Nat
    BY <1>1, <1>2 DEF Fronts
  <2>2. CASE f \in 1..(cursor - 1)
    BY <2>1, <2>2 DEF GateInv
  <2>3. CASE f \in cursor..(m - 1)
    <3>1. works[f] \in {-1, scn.work[f]} /\ works[f] >= 0
      BY <2>1, <2>3 DEF GateInv
    <3>2. QED
      BY <2>1, <3>1
  <2>4. QED
    BY <1>1, <1>2, <2>2, <2>3
<1>3. ASSUME NEW f \in 1..(m - 1)
      PROVE  /\ Crosses(works, f) <=> Crosses(scn.work, f)
             /\ \A free : Decision(works, free, f) = Decision(scn.work, free, f)
  <2>1. f \in Fronts /\ \A k \in 1..f : works[k] = scn.work[k]
    BY <1>1, <1>2
  <2>2. QED
    BY <2>1, GateAgrees
<1>4. QED
  BY <1>2, <1>3

LEMMA GateWalk ==
  ASSUME Par, PlanFits, ShapeInv, OwnInv, AtInv, GateInv, NEW t \in Threads, ReachWalk(t)
  PROVE  GateInv'
<1>1. /\ UNCHANGED <<scn, works, total, added, sees, factored>>
      /\ pc[t] = "walk" /\ \A u \in Threads \ {t} : pc'[u] = pc[u]
      /\ verdict' = "stop" => failed' = "WorkLimitExceeded"
      /\ verdict' # "stop" => failed' = failed
  BY DEF ReachWalk, Walk, NoWalk, Goto, Fail, inputs, ShapeInv, gate
<1>2. /\ Fronts' = Fronts /\ Threads' = Threads /\ Free' = Free /\ (WorkArmed' <=> WorkArmed)
      /\ SumOver(scn.work, added)' = SumOver(scn.work, added)
      /\ \A f : /\ Crosses(scn.work, f)' <=> Crosses(scn.work, f)
                /\ Decision(scn.work, Free, f)' = Decision(scn.work, Free, f)
  BY <1>1, ChildrenStay DEF SumOver, SumUpTo, Crosses, Decision, Free, Fronts
<1>3. WorkArmed
  BY <1>1 DEF AtInv, AtFront
<1>4. /\ \A f \in Fronts' : works'[f] \in {-1, scn'.work[f]}
      /\ \A f \in added' : works'[f] = scn'.work[f]
      /\ total' = SumOver(scn.work, added)'
  BY <1>1, <1>2 DEF GateInv
<1>5. verdict' = "stop" => ~Running' /\ WorkArmed'
  BY <1>1, <1>2, <1>3 DEF Running
<1>6. verdict' = "open" => verdict = "open"
  BY DEF ReachWalk, Walk, NoWalk, gate
<1>7. WorkArmed' /\ verdict' = "open" => \A f \in Fronts' : factored'[f] = 1 => f \in added'
  BY <1>1, <1>2, <1>6 DEF GateInv
<1>8. cursor \in 1..(N + 1) /\ N \in Nat
  BY FrontsAssumption DEF ShapeInv
\* The rest, of the walk and of the lock that finds nothing to do.
<1> DEFINE Rest == /\ \A f \in 1..(cursor' - 1) : works[f] = scn.work[f] /\ (verdict' = "open" => ~Crosses(scn.work, f))
                   /\ verdict' # "open" => \E f \in Fronts : Crosses(scn.work, f) /\ verdict' = Decision(scn.work, Free, f)
                   /\ verdict' = "open" =>
                        \A f \in Fronts : Crosses(scn.work, f) /\ 1..f \subseteq added =>
                           \E u \in Threads : pc'[u] = "walk" /\ 1..f \subseteq sees[u]
<1>9. ASSUME NoWalk PROVE Rest
  <2>1. UNCHANGED <<cursor, verdict>> /\ (verdict # "open" \/ cursor > N)
    BY <1>9 DEF NoWalk, gate
  <2>2. ASSUME verdict = "open", NEW f \in Fronts PROVE ~Crosses(scn.work, f)
    <3>1. f \in 1..(cursor - 1)
      BY <1>8, <2>1, <2>2 DEF Fronts
    <3>2. QED
      BY <2>2, <3>1 DEF GateInv
  <2>3. QED
    BY <2>1, <2>2 DEF GateInv
<1>10. ASSUME Walk(t, Free) PROVE Rest
  <2>1. PICK m \in cursor..(N + 1) :
          /\ \A f \in cursor..(m - 1) : works[f] >= 0
          /\ \A f \in (cursor..(m - 1)) \ {m - 1} : ~DecidedAt(f)
          /\ cursor' = m
          /\ \/ /\ m > cursor /\ DecidedAt(m - 1)
                /\ verdict' = Decision(works, Free, m - 1)
             \/ /\ ~(m > cursor /\ DecidedAt(m - 1))
                /\ m = N + 1 \/ m \notin sees[t]
                /\ UNCHANGED verdict
    BY <1>10 DEF Walk
  <2>2. verdict = "open" /\ m \in Nat /\ m <= N + 1 /\ cursor <= m
    BY <1>8, <1>10 DEF Walk
  <2>3. \A f \in 1..(m - 1) : f \in Fronts /\ works[f] = scn.work[f]
    BY <2>1, WalkPasses
  <2>4. \A f \in 1..(m - 1) : /\ Crosses(works, f) <=> Crosses(scn.work, f)
                              /\ \A free : Decision(works, free, f) = Decision(scn.work, free, f)
    BY <2>1, WalkPasses
  <2>5. ASSUME m > cursor /\ DecidedAt(m - 1) /\ verdict' = Decision(works, Free, m - 1) PROVE Rest
    <3>1. m - 1 \in 1..(m - 1) /\ m - 1 \in Fronts
      BY <1>8, <2>2, <2>3, <2>5
    <3>2. Crosses(scn.work, m - 1) /\ verdict' = Decision(scn.work, Free, m - 1)
      BY <2>4, <2>5, <3>1 DEF DecidedAt
    <3>3. verdict' # "open"
      BY <3>2 DEF Decision
    <3>4. QED
      BY <2>1, <2>3, <3>1, <3>2, <3>3
  <2>6. ASSUME /\ ~(m > cursor /\ DecidedAt(m - 1))
               /\ m = N + 1 \/ m \notin sees[t]
               /\ UNCHANGED verdict
        PROVE  Rest
    <3>1. ASSUME NEW f \in 1..(m - 1) PROVE ~Crosses(scn.work, f)
      <4>1. CASE f \in 1..(cursor - 1)
        BY <2>2, <4>1 DEF GateInv
      <4>2. CASE f \in cursor..(m - 1)
        <5>1. ~DecidedAt(f)
          <6>1. CASE f = m - 1
            <7>1. m > cursor
              BY <1>8, <2>2, <4>2, <6>1
            <7>2. QED
              BY <2>6, <6>1, <7>1
          <6>2. CASE f # m - 1
            BY <2>1, <4>2, <6>2
          <6>3. QED
            BY <6>1, <6>2
        <5>2. QED
          BY <2>4, <3>1, <5>1 DEF DecidedAt
      <4>3. QED
        BY <1>8, <2>2, <3>1, <4>1, <4>2
    <3>2. ASSUME NEW f \in Fronts, Crosses(scn.work, f), 1..f \subseteq added
          PROVE  \E u \in Threads : pc'[u] = "walk" /\ 1..f \subseteq sees[u]
      <4>1. f \notin 1..(m - 1) /\ f \in Nat /\ f >= 1 /\ f <= N
        BY <3>1, <3>2, <1>8 DEF Fronts
      <4>2. m \in 1..f /\ m # N + 1
        BY <1>8, <2>2, <4>1
      <4>3. m \notin sees[t]
        BY <2>6, <4>2
      <4>4. PICK u \in Threads : pc[u] = "walk" /\ 1..f \subseteq sees[u]
        BY <2>2, <3>2 DEF GateInv
      <4>5. u # t
        BY <4>2, <4>3, <4>4
      <4>6. QED
        BY <1>1, <4>4, <4>5
    <3>3. QED
      BY <2>1, <2>2, <2>3, <2>6, <3>1, <3>2
  <2>7. QED
    BY <2>1, <2>5, <2>6
<1>11. Rest
  BY <1>9, <1>10 DEF ReachWalk
<1>12. QED
  BY <1>1, <1>2, <1>4, <1>5, <1>7, <1>11 DEF GateInv

LEMMA GateStep ==
  ASSUME Par, PlanFits, ShapeInv, OwnInv, AtInv, GateInv, DealInv, phase \in {1, 2}, NEW t \in Threads, Step(t)
  PROVE  GateInv'
<1>1. Moves(t)
  BY StepMoves
<1>2. UNCHANGED <<scn, plan, phase>> /\ pc \in [Threads -> Labels] /\ AtFront(t)
  BY <1>1 DEF Moves, ShapeInv, AtInv
<1>3. ASSUME UNCHANGED gate, Running' => Running, pc[t] # "walk",
             WorkArmed /\ verdict = "open" => \A f \in Fronts : factored'[f] = 1 => f \in added
      PROVE  GateInv'
  <2>1. \A u \in Threads : pc[u] = "walk" => pc'[u] = "walk"
    BY <1>1, <1>3 DEF Moves
  <2>2. QED
    BY <1>2, <1>3, <2>1, GateFrame
<1>4. ASSUME UNCHANGED <<gate, factored>>, Running' => Running, pc[t] # "walk" PROVE GateInv'
  BY <1>3, <1>4 DEF GateInv
<1>5. CASE Own(t) \/ NextTask(t) \/ TakeOver(t) \/ Poll(t) \/ TakeTop(t) \/ TopEnd(t) \/ LeaveTop(t)
  <2>1. UNCHANGED <<gate, factored, failed>> /\ pc[t] # "walk"
    BY <1>5 DEF Own, NextTask, TakeOver, Poll, TakeTop, TopEnd, LeaveTop, outcomes
  <2>2. QED
    BY <1>4, <2>1 DEF Running
<1>6. CASE WorkCheck(t)
  <2>1. UNCHANGED <<gate, factored>> /\ pc[t] # "walk" /\ failed' \in {failed, "WorkLimitExceeded"}
    BY <1>6 DEF WorkCheck, Fail
  <2>2. QED
    BY <1>4, <2>1 DEF Running
<1>7. CASE Count(t)
  <2>1. UNCHANGED <<gate, factored>> /\ pc[t] # "walk"
        /\ failed' \in {failed, "WorkLimitExceeded", "InertiaExceeded"}
    BY <1>7 DEF Count, Raise, outcomes
  <2>2. QED
    BY <1>4, <2>1 DEF Running
<1>8. CASE Compute(t)
  <2>1. /\ UNCHANGED gate /\ pc[t] = "compute" /\ failed' \in {failed, "IllegalValue"}
        /\ factored' = [factored EXCEPT ![at[t]] = factored[at[t]] + 1] /\ factored \in [Fronts -> Nat]
    BY <1>8 DEF Compute, Fail, ShapeInv
  <2>2. at[t] \in Fronts
    BY <2>1 DEF OwnInv, Busy
  <2>3. ASSUME WorkArmed, verdict = "open", NEW f \in Fronts, factored'[f] = 1 PROVE f \in added
    <3>1. at[t] \in added
      BY <1>2, <2>1, <2>3 DEF AtFront
    <3>2. CASE f # at[t]
      BY <2>1, <2>3, <3>2 DEF GateInv
    <3>3. QED
      BY <3>1, <3>2
  <2>4. QED
    BY <1>3, <2>1, <2>3 DEF Running
<1>9. QED
  BY <1>5, <1>6, <1>7, <1>8, GateStore, GateAdd, GateWalk DEF Step

-----------------------------------------------------------------------------
(* The counts                                                              *)

LEMMA CausesStay == ASSUME UNCHANGED scn PROVE Causes' = Causes /\ (GateStops' <=> GateStops)
<1>1. GateStops' <=> GateStops
  BY DEF GateStops, Crosses, Decision, Free, SumUpTo, Fronts
<1>2. QED
  BY <1>1 DEF Causes, SumUpTo, WorkArmed, Armed, Fronts

\* A step that counts nothing.
LEMMA SumFrame ==
  ASSUME ShapeInv, SumInv, UNCHANGED <<scn, workDone, negatives>>, Counted' = Counted,
         failed' \in {failed} \cup Causes,
         Running' => \A f \in scn.broken : factored'[f] = 0
  PROVE  SumInv'
<1>1. /\ Causes' = Causes /\ Fronts' = Fronts /\ WorkArmed' = WorkArmed /\ Armed' = Armed
  BY CausesStay, ChildrenStay
<1>2. /\ SumOver(scn.work, Counted)' = SumOver(scn.work, Counted)
      /\ SumOver(scn.neg, Counted)' = SumOver(scn.neg, Counted)
  BY <1>1 DEF SumOver, SumUpTo
<1>3. "Success" \notin Causes
  BY DEF Causes
<1>4. Running' => Running
  BY <1>3 DEF Running
<1>5. failed' \in {"Success"} \cup Causes'
  BY <1>1 DEF SumInv
<1>6. /\ workDone' = (IF WorkArmed THEN SumOver(scn.work, Counted) ELSE 0)'
      /\ negatives' = (IF Armed THEN SumOver(scn.neg, Counted) ELSE 0)'
  BY <1>1, <1>2 DEF SumInv
<1>7. Running' => /\ workDone' <= WorkCap /\ negatives' <= NegLimit
                  /\ \A f \in scn'.broken : factored'[f] = 0
  BY <1>4 DEF SumInv
<1>8. QED
  BY <1>5, <1>6, <1>7 DEF SumInv

LEMMA CountedStays ==
  ASSUME NEW t, Moves(t), UNCHANGED factored, pc[t] # "count", pc'[t] # "count"
  PROVE  Counted' = Counted
<1>1. \A u \in Threads : pc'[u] = "count" <=> pc[u] = "count"
  BY DEF Moves
<1>2. \A u \in Threads : pc[u] = "count" => at'[u] = at[u]
  BY DEF Moves
<1>3. Fronts' = Fronts /\ Threads' = Threads /\ scn' = scn
  BY DEF Moves, Fronts
<1>4. QED
  BY <1>1, <1>2, <1>3 DEF Counted

LEMMA CountedComputes ==
  ASSUME Par, PlanFits, ShapeInv, OwnInv, AtInv, NEW t \in Threads, Compute(t)
  PROVE  Counted' = Counted
<1> DEFINE a == at[t]
<1>1. Moves(t)
  BY StepMoves DEF Step
<1>2. /\ pc[t] = "compute" /\ at'[t] = a /\ (pc'[t] = "count" <=> a \notin scn.broken)
      /\ factored' = [factored EXCEPT ![a] = factored[a] + 1] /\ factored \in [Fronts -> Nat]
      /\ UNCHANGED scn
  BY DEF Compute, Fail, Goto, ShapeInv, inputs
<1>3. a \in Fronts /\ factored[a] = 0
  BY <1>2 DEF OwnInv, Busy, AtInv, AtFront
<1>4. \A u \in Threads \ {t} : pc'[u] = pc[u] /\ at'[u] = at[u]
  BY <1>1 DEF Moves
<1>5. Fronts' = Fronts /\ Threads' = Threads
  BY DEF Fronts
<1>6. factored'[a] = 1 /\ \A f \in Fronts \ {a} : factored'[f] = factored[f]
  BY <1>2, <1>3
<1> HIDE DEF a
<1>7. a \notin Counted /\ a \notin Counted'
  BY <1>2, <1>3 DEF Counted, a
<1>8. ASSUME NEW f \in Fronts, f # a PROVE f \in Counted' <=> f \in Counted
  <2>1. \A u \in Threads : pc'[u] = "count" /\ at'[u] = f <=> pc[u] = "count" /\ at[u] = f
    BY <1>2, <1>4, <1>8 DEF a
  <2>2. QED
    BY <1>2, <1>5, <1>6, <1>8, <2>1 DEF Counted
<1>9. Counted \subseteq Fronts /\ Counted' \subseteq Fronts
  BY <1>5 DEF Counted
<1>10. QED
  BY <1>7, <1>8, <1>9

LEMMA CountedCounts ==
  ASSUME Par, PlanFits, ShapeInv, OwnInv, AtInv, NEW t \in Threads, Count(t)
  PROVE  at[t] \in Fronts \ Counted /\ Counted' = Counted \cup {at[t]}
<1> DEFINE a == at[t]
<1>1. Moves(t)
  BY StepMoves DEF Step
<1>2. pc[t] = "count" /\ pc'[t] # "count" /\ UNCHANGED <<scn, factored>>
  BY DEF Count, Goto, ShapeInv, inputs
<1>3. a \in Fronts /\ a \in Ahead(t) /\ factored[a] = 1 /\ a \notin scn.broken
  BY <1>2 DEF OwnInv, Busy, AtInv, AtFront
<1>4. \A u \in Threads \ {t} : pc'[u] = pc[u] /\ at'[u] = at[u]
  BY <1>1 DEF Moves
<1>5. Fronts' = Fronts /\ Threads' = Threads
  BY DEF Fronts
<1>6. ASSUME NEW u \in Threads, pc'[u] = "count" PROVE at'[u] # a
  <2>1. u # t /\ pc[u] = "count" /\ at'[u] = at[u]
    BY <1>2, <1>4, <1>6
  <2>2. at[u] \in Ahead(u) /\ Ahead(u) \cap Ahead(t) = {}
    BY <2>1 DEF OwnInv, Busy
  <2>3. QED
    BY <1>3, <2>1, <2>2
<1> HIDE DEF a
<1>7. a \notin Counted /\ a \in Counted'
  BY <1>2, <1>3, <1>5, <1>6 DEF Counted, a
<1>8. ASSUME NEW f \in Fronts, f # a PROVE f \in Counted' <=> f \in Counted
  <2>1. \A u \in Threads : pc'[u] = "count" /\ at'[u] = f <=> pc[u] = "count" /\ at[u] = f
    BY <1>2, <1>4, <1>8 DEF a
  <2>2. QED
    BY <1>2, <1>5, <1>8, <2>1 DEF Counted
<1>9. Counted \subseteq Fronts /\ Counted' \subseteq Fronts
  BY <1>5 DEF Counted
<1>10. QED
  BY <1>3, <1>7, <1>8, <1>9 DEF a

\* A sum over counted fronts past the limit is a cause.
LEMMA PastIsCause ==
  ASSUME scn \in Scenarios, NEW S
  PROVE  /\ WorkArmed /\ SumOver(scn.work, S) > WorkCap => "WorkLimitExceeded" \in Causes
         /\ Armed /\ SumOver(scn.neg, S) > NegLimit => "InertiaExceeded" \in Causes
<1>1. scn.work \in [Fronts -> Nat] /\ scn.neg \in [Fronts -> Nat]
  BY ScenarioFacts
<1>2. /\ SumOver(scn.work, S) <= SumUpTo(scn.work, N) /\ SumOver(scn.neg, S) <= SumUpTo(scn.neg, N)
      /\ SumOver(scn.work, S) \in Nat /\ SumOver(scn.neg, S) \in Nat
      /\ SumUpTo(scn.work, N) \in Nat /\ SumUpTo(scn.neg, N) \in Nat
  <2>1. S \subseteq S \cup Fronts /\ Fronts \subseteq S \cup Fronts
    OBVIOUS
  <2>2. /\ SumOver(scn.work, S \cup Fronts) = SumUpTo(scn.work, N)
        /\ SumOver(scn.neg, S \cup Fronts) = SumUpTo(scn.neg, N)
    BY <1>1, <2>1, OverAll
  <2>3. /\ SumOver(scn.work, S) <= SumOver(scn.work, S \cup Fronts)
        /\ SumOver(scn.neg, S) <= SumOver(scn.neg, S \cup Fronts)
    BY <1>1, <2>1, OverAtMost
  <2>4. N \in 0..N
    BY FrontsAssumption
  <2>5. QED
    BY <1>1, <2>2, <2>3, <2>4, OverTyped, SumTyped
<1>3. WorkCap \in Nat /\ NegLimit \in Nat
  BY LimitsAssumption
<1>4. /\ SumOver(scn.work, S) > WorkCap => SumUpTo(scn.work, N) > WorkCap
      /\ SumOver(scn.neg, S) > NegLimit => SumUpTo(scn.neg, N) > NegLimit
  BY <1>2, <1>3
<1>5. QED
  BY <1>4 DEF Causes

LEMMA SumCount ==
  ASSUME Par, PlanFits, ShapeInv, OwnInv, AtInv, SumInv, NEW t \in Threads, Count(t)
  PROVE  SumInv'
<1> DEFINE a == at[t]
           W == SumOver(scn.work, Counted \cup {a})
           Ng == SumOver(scn.neg, Counted \cup {a})
<1>1. /\ UNCHANGED <<scn, factored>>
      /\ workDone' = workDone + (IF WorkArmed THEN scn.work[a] ELSE 0)
      /\ negatives' = negatives + (IF Armed THEN scn.neg[a] ELSE 0)
      /\ \/ workDone' # workDone /\ Raise(workDone' > WorkCap, "WorkLimitExceeded")
         \/ negatives' # negatives /\ Raise(negatives' > NegLimit, "InertiaExceeded")
         \/ workDone' = workDone /\ negatives' = negatives /\ failed' = failed
  BY DEF Count, PastLimit, inputs, outcomes
<1>2. a \in Fronts \ Counted /\ Counted' = Counted \cup {a}
  BY CountedCounts
<1>3. /\ Causes' = Causes /\ Fronts' = Fronts /\ WorkArmed' = WorkArmed /\ Armed' = Armed
  BY <1>1, CausesStay, ChildrenStay
<1>4. scn.work \in [Fronts -> Nat] /\ scn.neg \in [Fronts -> Nat] /\ ~(WorkArmed /\ Armed)
      /\ scn \in Scenarios
  BY ScenarioFacts DEF ShapeInv
<1>5. SumOver(scn.work, Counted)' = W /\ SumOver(scn.neg, Counted)' = Ng
  BY <1>1, <1>2, <1>3 DEF SumOver, SumUpTo
<1>6. /\ W = SumOver(scn.work, Counted) + scn.work[a] /\ Ng = SumOver(scn.neg, Counted) + scn.neg[a]
  BY <1>2, <1>4, OverAdds
<1>7. W \in Nat /\ Ng \in Nat /\ SumOver(scn.work, Counted) \in Nat /\ SumOver(scn.neg, Counted) \in Nat
  BY <1>4, OverTyped
<1>8. /\ WorkArmed /\ W > WorkCap => "WorkLimitExceeded" \in Causes
      /\ Armed /\ Ng > NegLimit => "InertiaExceeded" \in Causes
  BY <1>4, PastIsCause
<1> HIDE DEF a, W, Ng
<1>9. /\ workDone = IF WorkArmed THEN SumOver(scn.work, Counted) ELSE 0
      /\ negatives = IF Armed THEN SumOver(scn.neg, Counted) ELSE 0
  BY DEF SumInv
<1>10. /\ workDone' = IF WorkArmed THEN W ELSE 0
       /\ negatives' = IF Armed THEN Ng ELSE 0
  BY <1>1, <1>6, <1>7, <1>9
<1>11. WorkCap \in Nat /\ NegLimit \in Nat
  BY LimitsAssumption
<1>12. failed' \in {"Success"} \cup Causes
  <2>1. failed \in {"Success"} \cup Causes
    BY DEF SumInv
  <2>2. workDone' > WorkCap => WorkArmed /\ W > WorkCap
    BY <1>7, <1>10, <1>11
  <2>3. negatives' > NegLimit => Armed /\ Ng > NegLimit
    BY <1>7, <1>10, <1>11
  <2>4. QED
    BY <1>1, <1>8, <2>1, <2>2, <2>3 DEF Raise
<1>13. ASSUME Running'
       PROVE  Running /\ workDone' <= WorkCap /\ negatives' <= NegLimit
  <2>1. Running
    BY <1>1, <1>13 DEF Running, Raise
  <2>2. workDone <= WorkCap /\ negatives <= NegLimit
    BY <2>1 DEF SumInv
  <2>4. negatives' # negatives => workDone' = workDone
    <3>1. negatives' # negatives => Armed
      BY <1>7, <1>9, <1>10
    <3>2. Armed => workDone' = workDone
      BY <1>4, <1>9, <1>10
    <3>3. QED
      BY <3>1, <3>2
  <2>3. workDone' # workDone => ~(workDone' > WorkCap)
    BY <1>1, <1>13, <2>1, <2>4 DEF Running, Raise
  <2>5. negatives' # negatives => ~(negatives' > NegLimit)
    BY <1>1, <1>13, <2>1, <2>4 DEF Running, Raise
  <2>6. workDone' \in Nat /\ negatives' \in Nat
    BY <1>7, <1>10
  <2>7. QED
    BY <1>11, <2>1, <2>2, <2>3, <2>5, <2>6
<1>14. Running' => \A f \in scn'.broken : factored'[f] = 0
  BY <1>1, <1>13 DEF SumInv
<1>15. /\ workDone' = (IF WorkArmed THEN SumOver(scn.work, Counted) ELSE 0)'
       /\ negatives' = (IF Armed THEN SumOver(scn.neg, Counted) ELSE 0)'
  BY <1>3, <1>5, <1>10
<1>16. QED
  BY <1>3, <1>12, <1>13, <1>14, <1>15 DEF SumInv

LEMMA SumInvStep ==
  ASSUME Par, PlanFits, ShapeInv, OwnInv, AtInv, GateInv, SumInv, DealInv, phase \in {1, 2},
         NEW t \in Threads, Step(t)
  PROVE  SumInv'
<1>1. Moves(t)
  BY StepMoves
<1>2. UNCHANGED <<scn, plan, phase>> /\ pc \in [Threads -> Labels] /\ AtFront(t) /\ scn \in Scenarios
      /\ back \in [Threads -> {"next", "over"}]
  BY <1>1 DEF Moves, ShapeInv, AtInv
<1>3. Running => \A f \in scn.broken : factored[f] = 0
  BY DEF SumInv
\* A step that computes no front and counts none.
<1>4. ASSUME UNCHANGED <<workDone, negatives, factored>>, pc[t] # "count", pc'[t] # "count",
             failed' \in {failed} \cup Causes
      PROVE  SumInv'
  <2>1. Counted' = Counted
    BY <1>1, <1>4, CountedStays
  <2>2. "Success" \notin Causes
    BY DEF Causes
  <2>3. Running' => \A f \in scn.broken : factored'[f] = 0
    BY <1>3, <1>4, <2>2 DEF Running
  <2>4. QED
    BY <1>2, <1>4, <2>1, <2>3, SumFrame
<1>5. CASE Own(t) \/ NextTask(t) \/ TakeOver(t) \/ Poll(t) \/ ReachStore(t) \/ ReachAdd(t) \/ TakeTop(t) \/ TopEnd(t) \/ LeaveTop(t)
  <2>1. UNCHANGED <<workDone, negatives, factored, failed>> /\ pc[t] # "count"
    BY <1>5 DEF Own, NextTask, TakeOver, Poll, ReachStore, ReachAdd, TakeTop, TopEnd, LeaveTop, outcomes
  <2>2. pc'[t] # "count"
    <3>1. ASSUME Own(t) \/ NextTask(t) \/ TakeOver(t) PROVE pc'[t] # "count"
      BY <1>2, <3>1 DEF Own, NextTask, TakeOver, RunTask, Goto
    <3>2. ASSUME Poll(t) \/ ReachStore(t) \/ ReachAdd(t) \/ TakeTop(t) \/ TopEnd(t) \/ LeaveTop(t)
          PROVE  pc'[t] # "count"
      BY <1>2, <3>2 DEF Poll, ReachStore, ReachAdd, TakeTop, TopEnd, LeaveTop, Goto
    <3>3. QED
      BY <1>5, <3>1, <3>2
  <2>3. QED
    BY <1>4, <2>1, <2>2
<1>6. CASE WorkCheck(t)
  <2>1. UNCHANGED <<workDone, negatives, factored>> /\ pc[t] = "front" /\ pc'[t] # "count"
    BY <1>2, <1>6 DEF WorkCheck, Fail, Goto
  <2>2. CASE /\ WorkArmed
             /\ workDone + scn.work[at[t]] > WorkCap \/ verdict = "stop"
             /\ failed' = "WorkLimitExceeded"
    <3>1. CASE workDone + scn.work[at[t]] > WorkCap
      <4>1. at[t] \in Fronts /\ at[t] \notin Counted
        BY <1>2, <2>1 DEF OwnInv, Busy, AtFront, Fresh, Counted
      <4>2. SumOver(scn.work, Counted \cup {at[t]}) = workDone + scn.work[at[t]]
        <5>1. scn.work \in [Fronts -> Nat]
          BY <1>2, ScenarioFacts
        <5>2. QED
          BY <2>2, <4>1, <5>1, OverAdds DEF SumInv
      <4>3. "WorkLimitExceeded" \in Causes
        <5>1. SumOver(scn.work, Counted \cup {at[t]}) > WorkCap
          BY <3>1, <4>2
        <5>2. QED
          BY <1>2, <2>2, <5>1, PastIsCause
      <4>4. QED
        BY <1>4, <2>1, <2>2, <4>3
    <3>2. CASE verdict = "stop"
      <4>1. GateStops
        BY <3>2 DEF GateInv, GateStops
      <4>2. "WorkLimitExceeded" \in Causes
        BY <2>2, <4>1 DEF Causes
      <4>3. QED
        BY <1>4, <2>1, <2>2, <4>2
    <3>3. QED
      BY <2>2, <3>1, <3>2
  <2>3. CASE failed' = failed
    BY <1>4, <2>1, <2>3
  <2>4. QED
    BY <1>6, <2>2, <2>3 DEF WorkCheck, Fail
<1>7. CASE ReachWalk(t)
  <2>1. UNCHANGED <<workDone, negatives, factored>> /\ pc[t] = "walk" /\ pc'[t] # "count"
    BY <1>2, <1>7 DEF ReachWalk, Fail, Goto
  <2>2. CASE verdict' = "stop"
    <3>1. GateStops
      <4>1. GateInv'
        BY <1>7, GateWalk
      <4>2. GateStops'
        BY <2>2, <4>1 DEF GateInv, GateStops
      <4>3. QED
        BY <1>2, <4>2, CausesStay
    <3>2. WorkArmed /\ failed' = "WorkLimitExceeded"
      BY <1>2, <1>7, <2>1, <2>2 DEF ReachWalk, Fail, AtFront
    <3>3. "WorkLimitExceeded" \in Causes
      BY <3>1, <3>2 DEF Causes
    <3>4. QED
      BY <1>4, <2>1, <3>2, <3>3
  <2>3. CASE verdict' # "stop"
    <3>1. failed' = failed
      BY <1>7, <2>3 DEF ReachWalk
    <3>2. QED
      BY <1>4, <2>1, <3>1
  <2>4. QED
    BY <2>2, <2>3
<1>8. CASE Compute(t)
  <2>1. Counted' = Counted
    BY <1>8, CountedComputes
  <2>2. /\ UNCHANGED <<workDone, negatives>>
        /\ factored' = [factored EXCEPT ![at[t]] = factored[at[t]] + 1]
        /\ failed' = IF at[t] \in scn.broken THEN "IllegalValue" ELSE failed
        /\ factored \in [Fronts -> Nat]
    BY <1>8 DEF Compute, Fail, ShapeInv
  <2>3. failed' \in {failed} \cup Causes
    BY <2>2 DEF Causes
  <2>4. Running' => \A f \in scn.broken : factored'[f] = 0
    <3>1. ASSUME Running', NEW f \in scn.broken PROVE factored'[f] = 0
      <4>1. f # at[t] /\ Running
        BY <2>2, <3>1 DEF Running
      <4>2. f \in Fronts
        BY <1>2, ScenarioFacts
      <4>3. QED
        BY <1>3, <2>2, <4>1, <4>2
    <3>2. QED
      BY <3>1
  <2>5. QED
    BY <1>2, <2>1, <2>2, <2>3, <2>4, SumFrame
<1>9. QED
  BY <1>5, <1>6, <1>7, <1>8, SumCount DEF Step

-----------------------------------------------------------------------------
(* The deal                                                                *)

\* What is left to show of a step of t.
LEMMA DealMoves ==
  ASSUME DealInv, phase \in {1, 2}, NEW t, Moves(t), claimed \subseteq claimed', next <= next',
         next \in Nat, next' \in Nat, NSub \in Nat,
         Running' => Running,
         phase = 1 => taken' = taken,
         phase = 2 => UNCHANGED <<claimed, next>>,
         phase = 1 => Busy(t)' \/ pc'[t] \in {"own", "next", "over", "joined"},
         phase = 2 => pc'[t] # "poll" /\ (Busy(t)' \/ pc'[t] \in {"top", "topend", "out"}),
         phase = 2 /\ Running' /\ (\E u \in Threads : pc'[u] = "out") =>
            taken' = Top /\ \A u \in Threads : pc'[u] \in {"top", "out"},
         \A i \in 0..(scan'[t] - 1) : i < dealt => i \in claimed',
         Running' /\ (pc'[t] \in {"over", "joined"} \/ (Busy(t)' /\ back'[t] = "over")) => NSub <= next',
         Running' /\ pc'[t] = "joined" => dealt <= scan'[t]
  PROVE  DealInv'
<1>1. /\ UNCHANGED <<plan, phase, scn>> /\ t \in Threads
      /\ \A u \in Threads \ {t} : /\ pc'[u] = pc[u] /\ back'[u] = back[u] /\ scan'[u] = scan[u]
                                  /\ (Busy(u)' <=> Busy(u))
  BY OthersStay DEF Moves
<1>2. NSub' = NSub /\ dealt' = dealt /\ Top' = Top /\ Subs' = Subs /\ Threads' = Threads
  BY <1>1 DEF NSub, dealt, Top, Subs
<1>3. phase = 2 => Given' = Given
  BY <1>2 DEF Given
<1>4. ASSUME phase' = 1 PROVE (\A u \in Threads : Busy(u)' \/ pc'[u] \in {"own", "next", "over", "joined"}) /\ taken' = {}
  BY <1>1, <1>4 DEF DealInv
<1>5. ASSUME phase' = 2
      PROVE  /\ \A u \in Threads : pc'[u] # "poll" /\ (Busy(u)' \/ pc'[u] \in {"top", "topend", "out"})
             /\ Given' = Subs'
  BY <1>1, <1>2, <1>3, <1>5 DEF DealInv
<1>6. \A u \in Threads : \A i \in 0..(scan'[u] - 1) : i < dealt => i \in claimed'
  BY <1>1 DEF DealInv
<1>7. ASSUME Running', NEW u \in Threads, pc'[u] \in {"over", "joined"} \/ (Busy(u)' /\ back'[u] = "over")
      PROVE  NSub <= next'
  <2>1. CASE u # t
    <3>1. NSub <= next
      BY <1>1, <1>7, <2>1 DEF DealInv
    <3>2. QED
      BY <3>1
  <2>2. QED
    BY <1>7, <2>1
<1>8. ASSUME Running', NEW u \in Threads, pc'[u] = "joined" PROVE dealt <= scan'[u]
  BY <1>1, <1>8 DEF DealInv
<1>9. phase' # 0 /\ phase' # 3
  BY <1>1
<1>10. phase' = 2 /\ Running' /\ (\E u \in Threads : pc'[u] = "out") =>
         taken' = Top' /\ \A u \in Threads : pc'[u] \in {"top", "out"}
  BY <1>1, <1>2
<1>11. QED
  BY <1>2, <1>4, <1>5, <1>6, <1>7, <1>8, <1>9, <1>10 DEF DealInv

\* No thread has left the top part while another works in it, unless the run
\* is over.
LEMMA NobodyOut ==
  ASSUME DealInv, phase = 2, Running, NEW t \in Threads, pc[t] \notin {"top", "out"}
  PROVE  \A u \in Threads : pc[u] # "out"
BY DEF DealInv

LEMMA DealStep ==
  ASSUME Par, PlanFits, ShapeInv, OwnInv, AtInv, DealInv, phase \in {1, 2}, NEW t \in Threads, Step(t)
  PROVE  DealInv'
<1>1. Moves(t)
  BY StepMoves
<1>2. /\ pc \in [Threads -> Labels] /\ back \in [Threads -> {"next", "over"}] /\ scan \in [Threads -> Nat]
      /\ next \in Nat /\ back[t] \in {"next", "over"} /\ scan[t] \in Nat
  BY DEF ShapeInv
<1>3. NSub \in Nat /\ dealt \in Nat
  BY PlanFacts
<1>4. \A u \in Threads \ {t} : pc'[u] = pc[u]
  BY <1>1 DEF Moves
<1>5. /\ \A i \in 0..(scan[t] - 1) : i < dealt => i \in claimed
      /\ Running /\ (pc[t] \in {"over", "joined"} \/ (Busy(t) /\ back[t] = "over")) => NSub <= next
      /\ phase = 1 => taken = {}
  BY DEF DealInv
<1>6. phase = 1 \/ phase = 2
  OBVIOUS
\* A step of phase 1.
<1>7. ASSUME phase = 1, Running' => Running, UNCHANGED taken,
             claimed \subseteq claimed', next' \in {next, next + 1},
             Busy(t)' \/ pc'[t] \in {"own", "next", "over", "joined"},
             \A i \in 0..(scan'[t] - 1) : i < dealt => i \in claimed',
             Running' /\ (pc'[t] \in {"over", "joined"} \/ (Busy(t)' /\ back'[t] = "over")) => NSub <= next',
             Running' /\ pc'[t] = "joined" => dealt <= scan'[t]
      PROVE  DealInv'
  <2>1. next <= next' /\ next' \in Nat
    BY <1>2, <1>7
  <2>2. QED
    BY <1>1, <1>2, <1>3, <1>7, <2>1, DealMoves
\* A step of phase 2.
<1>8. ASSUME phase = 2, Running' => Running, UNCHANGED <<claimed, next, scan, back>>,
             pc'[t] # "poll", Busy(t)' \/ pc'[t] \in {"top", "topend", "out"},
             Running' /\ (\E u \in Threads : pc'[u] = "out") =>
               taken' = Top /\ \A u \in Threads : pc'[u] \in {"top", "out"},
             Busy(t)' /\ back'[t] = "over" => NSub <= next
      PROVE  DealInv'
  <2>1. next <= next' /\ next' \in Nat
    BY <1>2, <1>8
  <2>2. pc'[t] \notin {"over", "joined"}
    BY <1>8 DEF Busy
  <2>3. QED
    BY <1>1, <1>2, <1>3, <1>5, <1>8, <2>1, <2>2, DealMoves
<1>9. ASSUME phase = 2 PROVE NSub <= next
  <2>1. Given = Subs
    BY <1>9 DEF DealInv
  <2>2. claimed \subseteq 0..(dealt - 1) /\ dealt <= next /\ dealt <= NSub
    BY PlanFacts DEF ShapeInv
  <2>3. NSub - 1 \in Subs \/ NSub = 0
    BY <1>3 DEF Subs
  <2>4. QED
    BY <1>2, <1>3, <2>1, <2>2, <2>3 DEF Given
\* A thread that goes on with its front.
<1>10. ASSUME Busy(t), Busy(t)', pc'[t] # "poll", UNCHANGED <<claimed, next, scan, back, taken>>, Running' => Running
       PROVE  DealInv'
  <2>1. CASE phase = 1
    <3>1. \A i \in 0..(scan'[t] - 1) : i < dealt => i \in claimed'
      BY <1>5, <1>10
    <3>2. pc'[t] \notin {"over", "joined"}
      BY <1>10 DEF Busy
    <3>3. Running' /\ (pc'[t] \in {"over", "joined"} \/ (Busy(t)' /\ back'[t] = "over")) => NSub <= next'
      BY <1>5, <1>10, <3>2
    <3>4. QED
      BY <1>7, <1>10, <2>1, <3>1, <3>2, <3>3
  <2>2. CASE phase = 2
    <3>1. pc[t] \notin {"top", "out"} /\ pc'[t] # "out"
      BY <1>10 DEF Busy
    <3>2. Running => \A u \in Threads : pc[u] # "out"
      BY <2>2, <3>1, NobodyOut
    <3>3. Running' => \A u \in Threads : pc'[u] # "out"
      BY <1>4, <1>10, <3>1, <3>2
    <3>4. QED
      BY <1>8, <1>9, <1>10, <2>2, <3>3
  <2>3. QED
    BY <1>6, <2>1, <2>2
\* A thread that leaves its front on an error.
<1>11. ASSUME Busy(t), ~Running', pc'[t] = IF phase = 1 THEN back[t] ELSE "out",
              UNCHANGED <<claimed, next, scan, back, taken>>
       PROVE  DealInv'
  <2>1. CASE phase = 1
    <3>1. \A i \in 0..(scan'[t] - 1) : i < dealt => i \in claimed'
      BY <1>5, <1>11
    <3>2. QED
      BY <1>2, <1>7, <1>11, <2>1, <3>1
  <2>2. CASE phase = 2
    BY <1>8, <1>9, <1>11, <2>2
  <2>3. QED
    BY <1>6, <2>1, <2>2
<1> USE DEF inputs, gate, outcomes, dealing
<1>12. CASE Own(t)
  <2>1. phase = 1 /\ UNCHANGED <<taken, failed>>
    BY <1>12, PhaseOf DEF Own
  <2>2. CASE claimed' = Claimed(t) /\ RunTask(t, t, "next") /\ UNCHANGED <<next, scan>>
    <3>1. claimed \subseteq claimed' /\ pc'[t] = "poll" /\ back'[t] = "next" /\ Busy(t)'
      BY <1>2, <2>2 DEF Claimed, RunTask, Goto, Busy
    <3>2. \A i \in 0..(scan'[t] - 1) : i < dealt => i \in claimed'
      BY <1>5, <2>2, <3>1
    <3>3. QED
      BY <1>7, <2>1, <2>2, <3>1, <3>2 DEF Running
  <2>3. CASE Goto(t, "next") /\ UNCHANGED <<dealing, at>>
    <3>1. pc'[t] = "next" /\ ~Busy(t)'
      BY <1>2, <2>3 DEF Goto, Busy
    <3>2. \A i \in 0..(scan'[t] - 1) : i < dealt => i \in claimed'
      BY <1>5, <2>3
    <3>3. QED
      BY <1>7, <2>1, <2>3, <3>1, <3>2 DEF Running
  <2>4. QED
    BY <1>12, <2>2, <2>3 DEF Own
<1>13. CASE NextTask(t)
  <2>1. phase = 1 /\ UNCHANGED <<taken, failed>>
    BY <1>13, PhaseOf DEF NextTask
  <2>2. CASE next' = next + 1 /\ RunTask(t, next, "next") /\ UNCHANGED <<claimed, scan>>
    <3>1. pc'[t] = "poll" /\ back'[t] = "next" /\ Busy(t)'
      BY <1>2, <2>2 DEF RunTask, Goto, Busy
    <3>2. \A i \in 0..(scan'[t] - 1) : i < dealt => i \in claimed'
      BY <1>5, <2>2
    <3>3. QED
      BY <1>7, <2>1, <2>2, <3>1, <3>2 DEF Running
  <2>3. CASE /\ Goto(t, "over") /\ UNCHANGED <<claimed, scan>>
             /\ (next' = next + 1 /\ ~(next < NSub)) \/ (next' = next /\ ~Running)
    <3>1. pc'[t] = "over" /\ ~Busy(t)'
      BY <1>2, <2>3 DEF Goto, Busy
    <3>2. \A i \in 0..(scan'[t] - 1) : i < dealt => i \in claimed'
      BY <1>5, <2>3
    <3>3. Running' => NSub <= next'
      BY <1>2, <1>3, <2>1, <2>3 DEF Running
    <3>4. QED
      BY <1>7, <2>1, <2>3, <3>1, <3>2, <3>3 DEF Running
  <2>4. QED
    BY <1>13, <2>2, <2>3 DEF NextTask
<1>14. CASE TakeOver(t)
  <2>1. phase = 1 /\ UNCHANGED <<taken, failed, next>> /\ pc[t] = "over"
    BY <1>14, PhaseOf DEF TakeOver
  <2>2. Running' => NSub <= next'
    BY <1>5, <2>1 DEF Running
  <2>3. CASE scan' = [scan EXCEPT ![t] = @ + 1] /\ scan[t] \in claimed' /\ claimed \subseteq claimed'
    <3>1. scan'[t] = scan[t] + 1
      BY <1>2, <2>3
    <3>2. \A i \in 0..(scan'[t] - 1) : i \in 0..(scan[t] - 1) \/ i = scan[t]
      BY <1>2, <3>1
    <3>3. \A i \in 0..(scan'[t] - 1) : i < dealt => i \in claimed'
      BY <1>5, <2>3, <3>2
    <3>4. Busy(t)' \/ pc'[t] = "over"
      BY <1>2, <1>14, <2>1, <2>3 DEF TakeOver, RunTask, Goto, Busy
    <3>5. pc'[t] # "joined"
      BY <3>4 DEF Busy
    <3>6. QED
      BY <1>7, <2>1, <2>2, <2>3, <3>3, <3>4, <3>5 DEF Running
  <2>4. CASE Goto(t, "joined") /\ (~MoreDealt(scan[t]) \/ ~Running) /\ UNCHANGED <<claimed, scan>>
    <3>1. pc'[t] = "joined" /\ ~Busy(t)'
      BY <1>2, <2>4 DEF Goto, Busy
    <3>2. \A i \in 0..(scan'[t] - 1) : i < dealt => i \in claimed'
      BY <1>5, <2>4
    <3>3. Running' => dealt <= scan'[t]
      BY <1>2, <1>3, <2>1, <2>4 DEF Running, MoreDealt
    <3>4. QED
      BY <1>7, <2>1, <2>2, <2>4, <3>1, <3>2, <3>3 DEF Running
  <2>5. QED
    BY <1>14, <2>3, <2>4 DEF TakeOver, Claimed
<1>15. CASE Poll(t)
  <2>1. phase = 1 /\ UNCHANGED <<taken, failed, claimed, next, scan, back>> /\ Busy(t)
    BY <1>15, PhaseOf DEF Poll, Busy
  <2>2. CASE Goto(t, "front")
    <3>1. Busy(t)' /\ pc'[t] # "poll"
      BY <1>2, <2>2 DEF Goto, Busy
    <3>2. QED
      BY <1>10, <2>1, <3>1 DEF Running
  <2>3. CASE ~Running /\ Goto(t, back[t])
    <3>1. pc'[t] = back[t] /\ ~Running'
      BY <1>2, <2>1, <2>3 DEF Goto, Running
    <3>2. QED
      BY <1>11, <2>1, <3>1
  <2>4. QED
    BY <1>15, <2>2, <2>3 DEF Poll
\* The steps of a front.
<1>16. CASE WorkCheck(t) \/ ReachStore(t) \/ ReachAdd(t) \/ ReachWalk(t) \/ Compute(t)
  <2>1. UNCHANGED <<taken, claimed, next, scan, back>> /\ Busy(t)
    BY <1>16 DEF WorkCheck, ReachStore, ReachAdd, ReachWalk, Compute, Busy
  <2>2. \/ failed' = failed /\ \E l \in {"store", "add", "walk", "compute", "count"} : Goto(t, l)
        \/ \E e \in {"WorkLimitExceeded", "IllegalValue"} : Fail(t, e)
    BY <1>16 DEF WorkCheck, ReachStore, ReachAdd, ReachWalk, Compute
  <2>3. CASE failed' = failed /\ \E l \in {"store", "add", "walk", "compute", "count"} : Goto(t, l)
    <3>1. Busy(t)' /\ pc'[t] # "poll"
      BY <1>2, <2>3 DEF Goto, Busy
    <3>2. QED
      BY <1>10, <2>1, <2>3, <3>1 DEF Running
  <2>4. CASE \E e \in {"WorkLimitExceeded", "IllegalValue"} : Fail(t, e)
    <3>1. ~Running' /\ pc'[t] = IF phase = 1 THEN back[t] ELSE "out"
      BY <1>2, <2>4 DEF Fail, Goto, Running
    <3>2. QED
      BY <1>11, <2>1, <3>1
  <2>5. QED
    BY <2>2, <2>3, <2>4
<1>17. CASE Count(t)
  <2>1. UNCHANGED <<taken, claimed, next, scan, back>> /\ Busy(t) /\ pc[t] = "count"
        /\ (Running' => Running)
    BY <1>17 DEF Count, Busy, Raise, Running
  <2>2. CASE phase = 1
    <3>1. pc'[t] \in {"poll", back[t]} /\ (pc'[t] = "poll" => Busy(t)')
      BY <1>2, <1>17, <2>2 DEF Count, Goto, Busy
    <3>2. \A i \in 0..(scan'[t] - 1) : i < dealt => i \in claimed'
      BY <1>5, <2>1
    <3>3. pc'[t] # "joined" /\ (pc'[t] = "over" => back[t] = "over")
      BY <1>2, <3>1
    <3>4. Running' /\ (pc'[t] \in {"over", "joined"} \/ (Busy(t)' /\ back'[t] = "over")) => NSub <= next'
      BY <1>5, <2>1, <3>3
    <3>5. Busy(t)' \/ pc'[t] \in {"own", "next", "over", "joined"}
      BY <1>2, <3>1
    <3>6. QED
      BY <1>7, <2>1, <2>2, <3>2, <3>3, <3>4, <3>5
  <2>3. CASE phase = 2
    <3>1. pc'[t] = "topend" /\ ~Busy(t)'
      BY <1>2, <1>17, <2>3 DEF Count, Goto, Busy
    <3>2. Running => \A u \in Threads : pc[u] # "out"
      BY <2>1, <2>3, NobodyOut
    <3>3. Running' => \A u \in Threads : pc'[u] # "out"
      BY <1>4, <2>1, <3>1, <3>2
    <3>4. QED
      BY <1>8, <2>1, <2>3, <3>1, <3>3
  <2>4. QED
    BY <1>6, <2>2, <2>3
<1>18. CASE TakeTop(t)
  <2>1. phase = 2 /\ UNCHANGED <<claimed, next, scan, back, failed>> /\ pc[t] = "top"
    BY <1>18, PhaseOf DEF TakeTop
  <2>2. taken # Top /\ Goto(t, IF Running THEN "front" ELSE "out")
    BY <1>18 DEF TakeTop
  <2>3. pc'[t] = (IF Running THEN "front" ELSE "out") /\ (pc'[t] = "front" => Busy(t)')
    BY <1>2, <2>2 DEF Goto, Busy
  <2>4. Running => \A u \in Threads : pc[u] # "out"
    BY <2>1, <2>2 DEF DealInv
  <2>5. Running' => \A u \in Threads : pc'[u] # "out"
    BY <1>4, <2>1, <2>3, <2>4 DEF Running
  <2>6. QED
    BY <1>8, <1>9, <2>1, <2>3, <2>5 DEF Running
<1>19. CASE TopEnd(t)
  <2>1. phase = 2 /\ UNCHANGED <<claimed, next, scan, back, failed, taken>> /\ pc[t] = "topend"
    BY <1>19, PhaseOf DEF TopEnd
  <2>2. pc'[t] = (IF Running THEN "top" ELSE "out") /\ ~Busy(t)'
    BY <1>2, <1>19 DEF TopEnd, Goto, Busy
  <2>3. Running => \A u \in Threads : pc[u] # "out"
    BY <2>1, NobodyOut
  <2>4. Running' => \A u \in Threads : pc'[u] # "out"
    BY <1>4, <2>1, <2>2, <2>3 DEF Running
  <2>5. QED
    BY <1>8, <2>1, <2>2, <2>4 DEF Running
<1>20. CASE LeaveTop(t)
  <2>1. phase = 2 /\ UNCHANGED <<claimed, next, scan, back, failed, taken>> /\ pc[t] = "top"
    BY <1>20, PhaseOf DEF LeaveTop
  <2>2. pc'[t] = "out" /\ ~Busy(t)'
    BY <1>2, <1>20 DEF LeaveTop, Goto, Busy
  <2>3. Running => taken = Top /\ \A u \in Threads : pc[u] \in {"top", "out"}
    BY <1>20, <2>1 DEF LeaveTop, DealInv
  <2>4. Running' => taken' = Top /\ \A u \in Threads : pc'[u] \in {"top", "out"}
    BY <1>4, <2>1, <2>2, <2>3 DEF Running
  <2>5. QED
    BY <1>8, <2>1, <2>2, <2>4 DEF Running
<1>21. QED
  BY <1>12, <1>13, <1>14, <1>15, <1>16, <1>17, <1>18, <1>19, <1>20 DEF Step

-----------------------------------------------------------------------------
(* The first state, and the ends of the phases                             *)

LEMMA InitPar ==
  ASSUME Init, Par, PlanFits
  PROVE  ParInv
<1> USE DEF Init, GateInit
<1>1. /\ NSub \in Nat /\ dealt \in Nat /\ scn \in Scenarios
      /\ scn.work \in [Fronts -> Nat] /\ scn.neg \in [Fronts -> Nat]
  BY PlanFacts, ScenarioFacts
<1>2. Given = {}
  <2>1. \A i : ~(dealt <= i /\ i < next) \/ i \notin Subs
    BY <1>1 DEF Subs
  <2>2. QED
    BY <2>1 DEF Given
<1>3. Later = Fronts
  <2>1. Later = Top \cup {f \in Fronts : \E i \in Subs : f \in RangeOf(i)}
    BY <1>2 DEF Later
  <2>2. Top \subseteq Fronts /\ \A f \in Fronts : f \in Top \/ \E i \in Subs : f \in RangeOf(i)
    BY PlanFacts
  <2>3. QED
    BY <2>1, <2>2
<1>4. \A t \in Threads : pc[t] = "own" /\ ~Busy(t) /\ Ahead(t) = {}
  BY DEF Busy, Ahead
<1>5. ShapeInv
  <2>1. 1 \in 1..(N + 1)
    BY FrontsAssumption
  <2>2. /\ pc \in [Threads -> Labels] /\ works \in [Fronts -> Int] /\ factored \in [Fronts -> Nat]
        /\ at \in [Threads -> Int] /\ last \in [Threads -> Int] /\ scan \in [Threads -> Nat]
        /\ back \in [Threads -> {"next", "over"}] /\ sees \in [Threads -> SUBSET Fronts]
    BY DEF Labels
  <2>3. QED
    BY <1>1, <2>1, <2>2 DEF ShapeInv
<1>6. \A f \in Fronts : Fresh(f) /\ factored[f] = 0
  BY DEF Fresh
<1>7. OwnInv
  BY <1>3, <1>4, <1>6 DEF OwnInv
<1>8. AtInv
  BY <1>4 DEF AtInv, AtFront
<1>9. Counted = {}
  BY <1>6 DEF Counted
<1>10. SumOver(scn.work, {}) = 0 /\ SumOver(scn.neg, {}) = 0
  BY <1>1, OverNone
<1>11. GateInv
  <2>1. \A f \in Fronts : ~(1..f \subseteq {})
    <3>1. \A f \in Fronts : 1 \in 1..f
      BY DEF Fronts
    <3>2. QED
      BY <3>1
  <2>2. \A f \in Fronts : works[f] \in {-1, scn.work[f]}
    OBVIOUS
  <2>3. \A f \in 1..(cursor - 1) : FALSE
    OBVIOUS
  <2>4. QED
    BY <1>6, <1>10, <2>1, <2>2, <2>3 DEF GateInv
<1>12. SumInv
  <2>1. 0 <= WorkCap /\ 0 <= NegLimit
    BY LimitsAssumption
  <2>2. \A f \in scn.broken : factored[f] = 0
    BY <1>1, <1>6, ScenarioFacts
  <2>3. QED
    BY <1>9, <1>10, <2>1, <2>2 DEF SumInv
<1>13. DealInv
  <2>1. \A t \in Threads : \A i \in 0..(scan[t] - 1) : FALSE
    OBVIOUS
  <2>2. \A t \in Threads : ~(pc[t] \in {"over", "joined"})
    OBVIOUS
  <2>3. QED
    BY <1>2, <1>4, <2>1, <2>2 DEF DealInv
<1>14. QED
  BY <1>5, <1>7, <1>8, <1>11, <1>12, <1>13 DEF ParInv

\* A step at which nobody works on a front, before or after.
LEMMA NobodyBusy ==
  ASSUME ParInv, UNCHANGED <<inputs, gate, outcomes, dealing, at, taken, factored>>,
         \A t \in Threads : ~Busy(t) /\ ~Busy(t)',
         pc' \in [Threads -> Labels], phase' \in 0..3
  PROVE  ShapeInv' /\ OwnInv' /\ AtInv' /\ GateInv' /\ SumInv' /\ Given' = Given /\ Later' = Later
<1> USE DEF ParInv, inputs, outcomes, dealing
<1>1. UNCHANGED <<scn, plan, works, total, added, sees, cursor, verdict>>
  BY DEF gate
<1>2. Given' = Given /\ Later' = Later /\ Top' = Top /\ NSub' = NSub /\ dealt' = dealt
  BY GivenStays
<1>3. Fronts' = Fronts /\ Threads' = Threads /\ Labels' = Labels
  BY DEF Fronts, Labels
<1>4. ShapeInv'
  BY <1>1, <1>2, <1>3 DEF ShapeInv
<1>5. \A t \in Threads : Ahead(t) = {} /\ Ahead(t)' = {}
  BY DEF Ahead
<1>6. Running' <=> Running
  BY DEF Running
<1>7. OwnInv'
  BY <1>1, <1>2, <1>5, <1>6, OwnResting
<1>8. \A t \in Threads : pc'[t] \notin {"poll", "front", "store", "add", "walk", "compute", "count"}
  BY DEF Busy
<1>9. AtInv'
  BY <1>8 DEF AtInv, AtFront
<1>10. GateInv'
  <2>1. \A t \in Threads : pc[t] # "walk"
    BY DEF Busy
  <2>2. WorkArmed /\ verdict = "open" => \A f \in Fronts : factored'[f] = 1 => f \in added
    BY DEF GateInv
  <2>3. QED
    BY <1>1, <1>6, <2>1, <2>2, GateFrame
<1>11. Counted' = Counted
  <2>1. \A t \in Threads : pc[t] # "count" /\ pc'[t] # "count"
    BY DEF Busy
  <2>2. QED
    BY <1>1, <1>3, <2>1 DEF Counted
<1>12. SumInv'
  <2>1. Running' => \A f \in scn.broken : factored'[f] = 0
    BY <1>6 DEF SumInv
  <2>2. QED
    BY <1>1, <1>11, <2>1, SumFrame
<1>13. QED
  BY <1>2, <1>4, <1>7, <1>9, <1>10, <1>12

LEMMA StartStep ==
  ASSUME Par, PlanFits, ParInv, Start
  PROVE  ParInv'
<1>1. /\ phase = 0 /\ phase' = 1
      /\ UNCHANGED <<inputs, gate, outcomes, dealing, pc, at, taken, factored>>
  BY DEF Start, Par, outcomes
<1>2. /\ \A t \in Threads : ~Busy(t) /\ pc[t] = "own"
      /\ taken = {}
  BY <1>1 DEF ParInv, DealInv
<1>3. \A t \in Threads : ~Busy(t)' /\ pc'[t] = "own"
  BY <1>1, <1>2 DEF Busy
<1>4. pc' \in [Threads -> Labels]
  BY <1>1 DEF ParInv, ShapeInv
<1>5. ShapeInv' /\ OwnInv' /\ AtInv' /\ GateInv' /\ SumInv' /\ Given' = Given
  BY <1>1, <1>2, <1>3, <1>4, NobodyBusy
<1>6. DealInv'
  <2>1. \A t \in Threads : \A i \in 0..(scan'[t] - 1) : i < dealt' => i \in claimed'
    BY <1>1 DEF ParInv, DealInv, dealt, NSub, dealing, inputs
  <2>2. taken' = {}
    BY <1>1, <1>2
  <2>3. QED
    BY <1>1, <1>3, <2>1, <2>2 DEF DealInv
<1>7. QED
  BY <1>5, <1>6 DEF ParInv

\* Every subtree has been given once all threads have left phase 1.
LEMMA AllGiven ==
  ASSUME Par, PlanFits, ParInv, Running, NEW t \in Threads, pc[t] = "joined"
  PROVE  Given = Subs
<1>1. NSub \in Nat /\ dealt \in Nat /\ dealt <= NSub /\ next \in Nat
      /\ scan[t] \in Nat /\ claimed \subseteq 0..(dealt - 1)
  BY PlanFacts DEF ParInv, ShapeInv
<1>2. NSub <= next /\ dealt <= scan[t] /\ \A i \in 0..(scan[t] - 1) : i < dealt => i \in claimed
  BY DEF ParInv, DealInv
<1>3. ASSUME NEW i \in Subs PROVE i \in Given
  <2>1. i \in Nat /\ i < NSub
    BY <1>1, <1>3 DEF Subs
  <2>2. CASE i < dealt
    <3>1. i \in 0..(scan[t] - 1)
      BY <1>1, <1>2, <2>1, <2>2
    <3>2. QED
      BY <1>2, <2>2, <3>1 DEF Given
  <2>3. CASE ~(i < dealt)
    <3>1. dealt <= i /\ i < next
      BY <1>1, <1>2, <2>1, <2>3
    <3>2. QED
      BY <3>1, <1>3 DEF Given
  <2>4. QED
    BY <2>2, <2>3
<1>4. 0..(dealt - 1) \subseteq Subs
  BY <1>1 DEF Subs
<1>5. Given \subseteq Subs
  BY <1>1, <1>4 DEF Given
<1>6. QED
  BY <1>3, <1>5

\* Nothing is left once the top part is taken.
LEMMA NothingLater ==
  ASSUME Given = Subs, taken = Top
  PROVE  Later = {}
BY DEF Later

LEMMA Phase1Step ==
  ASSUME Par, PlanFits, ParInv, Phase1End
  PROVE  ParInv'
<1>1. /\ phase = 1 /\ \A t \in Threads : pc[t] = "joined"
      /\ UNCHANGED <<inputs, gate, outcomes, dealing, at, taken, factored>>
      /\ \/ phase' = 2 /\ pc' = [t \in Threads |-> "top"] /\ Running
         \/ phase' = 3 /\ pc' = pc /\ (Running => Top = {})
  BY DEF Phase1End
<1>2. PICK t0 : t0 \in Threads
  BY ThreadsAssumption
<1>3. \A t \in Threads : ~Busy(t) /\ ~Busy(t)'
  BY <1>1 DEF Busy
<1>4. pc' \in [Threads -> Labels] /\ phase' \in 0..3
  BY <1>1 DEF ParInv, ShapeInv, Labels
<1>5. ShapeInv' /\ OwnInv' /\ AtInv' /\ GateInv' /\ SumInv' /\ Given' = Given /\ Later' = Later
  BY <1>1, <1>3, <1>4, NobodyBusy
<1>6. Running => Given = Subs
  BY <1>1, <1>2, AllGiven
<1>7. taken = {} /\ (Running' <=> Running)
  BY <1>1 DEF ParInv, DealInv, outcomes, Running
<1>8. DealInv'
  <2>1. Subs' = Subs /\ Top' = Top /\ NSub' = NSub /\ dealt' = dealt
    BY <1>1 DEF Subs, Top, NSub, dealt, inputs
  <2>2. \A t \in Threads : \A i \in 0..(scan'[t] - 1) : i < dealt' => i \in claimed'
    BY <1>1, <2>1 DEF ParInv, DealInv, dealing
  <2>3. CASE phase' = 2 /\ pc' = [t \in Threads |-> "top"] /\ Running
    <3>1. \A t \in Threads : pc'[t] = "top"
      BY <2>3
    <3>2. Given' = Subs'
      BY <1>5, <1>6, <2>1, <2>3
    <3>3. QED
      BY <1>3, <2>2, <2>3, <3>1, <3>2 DEF DealInv
  <2>4. CASE phase' = 3 /\ pc' = pc /\ (Running => Top = {})
    <3>1. Running' => Later' = {}
      BY <1>5, <1>6, <1>7, <2>4, NothingLater
    <3>2. \A t \in Threads : Running' => NSub' <= next' /\ dealt' <= scan'[t]
      BY <1>1, <1>7, <2>1 DEF ParInv, DealInv, dealing
    <3>3. QED
      BY <1>3, <2>2, <2>4, <3>1, <3>2 DEF DealInv
  <2>5. QED
    BY <1>1, <2>3, <2>4
<1>9. QED
  BY <1>5, <1>8 DEF ParInv

LEMMA Phase2Step ==
  ASSUME Par, PlanFits, ParInv, Phase2End
  PROVE  ParInv'
<1>1. /\ phase = 2 /\ phase' = 3 /\ \A t \in Threads : pc[t] = "out"
      /\ UNCHANGED <<inputs, gate, outcomes, dealing, pc, at, taken, factored>>
  BY DEF Phase2End
<1>2. PICK t0 : t0 \in Threads
  BY ThreadsAssumption
<1>3. \A t \in Threads : ~Busy(t) /\ ~Busy(t)' /\ pc'[t] = "out"
  BY <1>1 DEF Busy
<1>4. pc' \in [Threads -> Labels]
  BY <1>1 DEF ParInv, ShapeInv
<1>5. ShapeInv' /\ OwnInv' /\ AtInv' /\ GateInv' /\ SumInv' /\ Given' = Given /\ Later' = Later
  BY <1>1, <1>3, <1>4, NobodyBusy
<1>6. Given = Subs /\ (Running => taken = Top) /\ (Running' <=> Running)
  BY <1>1, <1>2 DEF ParInv, DealInv, outcomes, Running
<1>7. Running' => Later' = {}
  BY <1>5, <1>6, NothingLater
<1>8. \A t \in Threads : \A i \in 0..(scan'[t] - 1) : i < dealt' => i \in claimed'
  BY <1>1 DEF ParInv, DealInv, dealing, inputs, dealt, NSub
<1>9. DealInv'
  BY <1>1, <1>3, <1>7, <1>8 DEF DealInv
<1>10. QED
  BY <1>5, <1>9 DEF ParInv

\* A stuttering step.
LEMMA ParStutters ==
  ASSUME ParInv, UNCHANGED vars
  PROVE  ParInv'
<1>1. UNCHANGED <<scn, plan, failed, workDone, negatives, claimed, next, last, back, scan, pc, at, taken, factored, phase>>
      /\ UNCHANGED <<works, total, added, sees, cursor, verdict>> /\ UNCHANGED gate
  BY DEF vars, inputs, gate, outcomes, dealing
<1>2. Given' = Given /\ Later' = Later /\ Subs' = Subs /\ Top' = Top /\ NSub' = NSub /\ dealt' = dealt
  BY <1>1, GivenStays
<1>3. Fronts' = Fronts /\ Threads' = Threads /\ Labels' = Labels /\ (Running' <=> Running)
      /\ (WorkArmed' <=> WorkArmed) /\ (Armed' <=> Armed)
  BY <1>1 DEF Fronts, Labels, Running, WorkArmed, Armed
<1>4. \A t : (Busy(t)' <=> Busy(t)) /\ Ahead(t)' = Ahead(t)
  BY <1>1 DEF Busy, Ahead
<1>5. ShapeInv'
  BY <1>1, <1>2, <1>3 DEF ParInv, ShapeInv
<1>6. OwnInv'
  BY <1>1, <1>2, <1>3, <1>4, OwnResting DEF ParInv
<1>7. AtInv'
  BY <1>1, <1>3 DEF ParInv, AtInv, AtFront, Fresh
<1>8. GateInv'
  <2>1. WorkArmed /\ verdict = "open" => \A f \in Fronts : factored'[f] = 1 => f \in added
    BY <1>1 DEF ParInv, GateInv
  <2>2. QED
    BY <1>1, <1>3, <2>1, GateFrame DEF ParInv
<1>9. SumInv'
  <2>1. Counted' = Counted
    BY <1>1, <1>3 DEF Counted
  <2>2. Running' => \A f \in scn.broken : factored'[f] = 0
    BY <1>1, <1>3 DEF ParInv, SumInv
  <2>3. QED
    BY <1>1, <2>1, <2>2, SumFrame DEF ParInv
<1>10. DealInv'
  BY <1>1, <1>2, <1>3, <1>4 DEF ParInv, DealInv
<1>11. QED
  BY <1>5, <1>6, <1>7, <1>8, <1>9, <1>10 DEF ParInv

LEMMA PlanStays == ASSUME UNCHANGED <<scn, plan>> PROVE PlanFits' <=> PlanFits
BY DEF PlanFits, Shares, WholeSubtrees, FrontsOf, Interval, ChildrenOf, KidsOf, Fronts

LEMMA ParStep ==
  ASSUME Par, PlanFits, ParInv, [Next]_vars
  PROVE  ParInv'
<1>1. ASSUME NEW t \in Threads, phase \in {1, 2}, Step(t) PROVE ParInv'
  BY <1>1, ShapeStep, OwnStep, AtStep, GateStep, SumInvStep, DealStep DEF ParInv
<1>2. QED
  BY <1>1, StartStep, Phase1Step, Phase2Step, ParStutters DEF Next, Finished

-----------------------------------------------------------------------------
(* The serial engine                                                       *)

LEMMA InitSerial == ASSUME Init PROVE SerInv
BY DEF Init, GateInit, SerInv

LEMMA SerialStays ==
  ASSUME UNCHANGED scn
  PROVE  SerialStatus' = SerialStatus /\ \A f : SerialRuns(f)' <=> SerialRuns(f)
<1>1. \A f : SerialAt(f)' = SerialAt(f)
  BY ChildrenStay DEF SerialAt, Crosses, Decision, SumUpTo
<1>2. SerialStatus' = SerialStatus
  BY DEF SerialStatus, SerialAt, Crosses, Decision, SumUpTo, Fronts, WorkArmed, Armed, Free
<1>3. \A f : SerialRuns(f)' <=> SerialRuns(f)
  BY <1>1 DEF SerialRuns
<1>4. QED
  BY <1>2, <1>3

LEMMA SerialStep ==
  ASSUME ~Par, SerInv, [Next]_vars
  PROVE  SerInv'
<1>1. CASE Start
  <2>1. /\ UNCHANGED <<scn, added, verdict>> /\ phase' = 3 /\ failed' = SerialStatus
        /\ factored' = [f \in Fronts |-> IF SerialRuns(f) THEN 1 ELSE 0]
    BY <1>1 DEF Start, Par, SerialEngine, inputs, gate
  <2>2. SerialStatus' = SerialStatus /\ \A f : SerialRuns(f)' <=> SerialRuns(f)
    BY <2>1, SerialStays
  <2>3. QED
    BY <2>1, <2>2 DEF SerInv, Fronts
<1>2. CASE UNCHANGED vars
  <2>1. UNCHANGED <<scn, added, verdict, phase, failed, factored>>
    BY <1>2 DEF vars, inputs, gate, outcomes
  <2>2. SerialStatus' = SerialStatus /\ \A f : SerialRuns(f)' <=> SerialRuns(f)
    BY <2>1, SerialStays
  <2>3. QED
    BY <2>1, <2>2 DEF SerInv, Fronts
<1>3. QED
  BY <1>1, <1>2 DEF Next, Finished, Phase1End, Phase2End, SerInv

LEMMA InputsStay ==
  ASSUME [Next]_vars
  PROVE  UNCHANGED <<scn, plan>>
<1>1. CASE UNCHANGED vars
  BY <1>1 DEF vars, inputs
<1>2. CASE Start \/ Phase1End \/ Phase2End
  BY <1>2 DEF Start, Phase1End, Phase2End, inputs
<1>3. ASSUME NEW t \in Threads, Step(t) PROVE UNCHANGED <<scn, plan>>
  BY <1>3 DEF Step, Own, NextTask, TakeOver, Poll, WorkCheck, ReachStore, ReachAdd, ReachWalk,
              Compute, Count, TakeTop, TopEnd, LeaveTop, inputs
<1>4. QED
  BY <1>1, <1>2, <1>3 DEF Next, Finished

-----------------------------------------------------------------------------
(* The status                                                              *)

LEMMA Least ==
  ASSUME NEW S \in SUBSET Nat, S # {}
  PROVE  \E x \in S : \A y \in S : x <= y
<1>1. PICK x \in S : \A m \in S : ~(<<m, x>> \in OpToRel(<, Nat))
  BY NatLessThanWellFounded, WFMin
<1>2. \A y \in S : y \in Nat /\ x \in Nat /\ ~(y < x)
  BY <1>1 DEF OpToRel
<1>3. QED
  BY <1>2

\* A front where the serial loop stops shows a cause.
LEMMA StopIsCause ==
  ASSUME scn \in Scenarios, NEW f \in Fronts, SerialAt(f) # "Success"
  PROVE  SerialAt(f) \in Causes
<1>1. scn.work \in [Fronts -> Nat] /\ scn.neg \in [Fronts -> Nat]
  BY ScenarioFacts
<1>2. f \in 0..N /\ N \in 0..N /\ f <= N
  BY FrontsAssumption DEF Fronts
<1>3. /\ SumUpTo(scn.work, f) <= SumUpTo(scn.work, N) /\ SumUpTo(scn.neg, f) <= SumUpTo(scn.neg, N)
      /\ SumUpTo(scn.work, f) \in Nat /\ SumUpTo(scn.work, N) \in Nat
      /\ SumUpTo(scn.neg, f) \in Nat /\ SumUpTo(scn.neg, N) \in Nat
  BY <1>1, <1>2, SumGrows, SumTyped
<1>4. /\ SumUpTo(scn.work, f) > WorkCap => SumUpTo(scn.work, N) > WorkCap
      /\ SumUpTo(scn.neg, f) > NegLimit => SumUpTo(scn.neg, N) > NegLimit
  BY <1>3, LimitsAssumption
<1>5. Crosses(scn.work, f) /\ Decision(scn.work, Free, f) = "stop" => GateStops
  BY DEF GateStops
<1>6. CASE WorkArmed /\ (SumUpTo(scn.work, f) > WorkCap
                         \/ (Crosses(scn.work, f) /\ Decision(scn.work, Free, f) = "stop"))
  <2>1. SerialAt(f) = "WorkLimitExceeded"
    BY <1>6 DEF SerialAt
  <2>2. "WorkLimitExceeded" \in Causes
    BY <1>4, <1>5, <1>6 DEF Causes
  <2>3. QED
    BY <2>1, <2>2
<1>7. CASE f \in scn.broken /\ SerialAt(f) = "IllegalValue"
  BY <1>7 DEF Causes
<1>8. CASE Armed /\ SumUpTo(scn.neg, f) > NegLimit /\ SerialAt(f) = "InertiaExceeded"
  BY <1>4, <1>8 DEF Causes
<1>9. QED
  BY <1>6, <1>7, <1>8 DEF SerialAt

\* Each cause stops the serial loop somewhere.
LEMMA CauseStops ==
  ASSUME scn \in Scenarios, \A f \in Fronts : SerialAt(f) = "Success"
  PROVE  Causes = {}
<1>1. scn.broken \subseteq Fronts
  BY ScenarioFacts
<1>2. ASSUME WorkArmed PROVE ~(SumUpTo(scn.work, N) > WorkCap) /\ ~GateStops
  <2>1. ~GateStops
    BY <1>2 DEF GateStops, SerialAt
  <2>2. CASE N = 0
    BY <2>1, <2>2, SumZero, LimitsAssumption
  <2>3. CASE N # 0
    <3>1. N \in Fronts
      BY <2>3, FrontsAssumption DEF Fronts
    <3>2. QED
      BY <1>2, <2>1, <3>1 DEF SerialAt
  <2>4. QED
    BY <2>2, <2>3
<1>3. ASSUME Armed PROVE ~(SumUpTo(scn.neg, N) > NegLimit)
  <2>1. CASE N = 0
    BY <2>1, SumZero, LimitsAssumption
  <2>2. CASE N # 0
    <3>1. N \in Fronts
      BY <2>2, FrontsAssumption DEF Fronts
    <3>2. QED
      BY <1>3, <3>1 DEF SerialAt
  <2>3. QED
    BY <2>1, <2>2
<1>4. scn.broken = {}
  BY <1>1 DEF SerialAt
<1>5. QED
  BY <1>2, <1>3, <1>4 DEF Causes

\* The serial loop ends at its first bad front.
LEMMA SerialEnds ==
  ASSUME scn \in Scenarios
  PROVE  /\ SerialStatus \in (IF Causes = {} THEN {"Success"} ELSE Causes)
         /\ SerialStatus = "Success" => \A f \in Fronts : SerialAt(f) = "Success"
<1> DEFINE bad == {f \in Fronts : SerialAt(f) # "Success"}
<1>1. CASE bad = {}
  <2>1. \A f \in Fronts : SerialAt(f) = "Success"
    BY <1>1
  <2>2. SerialStatus = "Success"
    BY <1>1 DEF SerialStatus
  <2>3. QED
    BY <2>1, <2>2, CauseStops
<1>2. CASE bad # {}
  <2>1. bad \subseteq Nat
    BY DEF Fronts
  <2>2. \E x \in bad : \A y \in bad : x <= y
    BY <1>2, <2>1, Least
  <2> DEFINE first == CHOOSE f \in bad : \A g \in bad : f <= g
  <2>3. first \in bad
    BY <2>2
  <2>4. SerialStatus = SerialAt(first)
    BY <1>2 DEF SerialStatus
  <2>5. first \in Fronts /\ SerialAt(first) # "Success"
    BY <2>3
  <2> HIDE DEF first
  <2>6. SerialAt(first) \in Causes
    BY <2>5, StopIsCause
  <2>7. QED
    BY <2>4, <2>5, <2>6
<1>3. QED
  BY <1>1, <1>2

\* A run that comes through has met no cause.
LEMMA NoCause ==
  ASSUME Par, PlanFits, ParInv, phase = 3, Running
  PROVE  Causes = {} /\ \A f \in Fronts : factored[f] = 1
<1>1. ShapeInv /\ OwnInv /\ AtInv /\ GateInv /\ SumInv /\ DealInv
  BY DEF ParInv
<1>2. scn.work \in [Fronts -> Nat] /\ scn.neg \in [Fronts -> Nat] /\ scn.broken \subseteq Fronts
  BY <1>1, ScenarioFacts DEF ShapeInv
<1>3. (\A t \in Threads : ~Busy(t) /\ Ahead(t) = {}) /\ Later = {}
  BY <1>1 DEF DealInv, Ahead
<1>4. \A f \in Fronts : factored[f] = 1
  BY <1>1, <1>3 DEF OwnInv
<1>5. scn.broken = {}
  BY <1>1, <1>2, <1>4 DEF SumInv
<1>6. Counted = Fronts
  BY <1>3, <1>4, <1>5 DEF Counted, Busy
<1>7. /\ SumOver(scn.work, Counted) = SumUpTo(scn.work, N)
      /\ SumOver(scn.neg, Counted) = SumUpTo(scn.neg, N)
  BY <1>2, <1>6, OverAll
<1>8. N \in 0..N
  BY FrontsAssumption
<1>9. SumUpTo(scn.work, N) \in Nat /\ SumUpTo(scn.neg, N) \in Nat
  BY <1>2, <1>8, SumTyped
<1>10. /\ WorkArmed => ~(SumUpTo(scn.work, N) > WorkCap)
       /\ Armed => ~(SumUpTo(scn.neg, N) > NegLimit)
  BY <1>1, <1>7, <1>9, LimitsAssumption DEF SumInv
<1>11. ASSUME WorkArmed, GateStops PROVE FALSE
  <2>1. PICK f \in Fronts : Crosses(scn.work, f) /\ Decision(scn.work, Free, f) = "stop"
    BY <1>11 DEF GateStops
  <2>2. CASE verdict = "open"
    <3>1. Fronts \subseteq added
      BY <1>1, <1>4, <1>11, <2>2 DEF GateInv
    <3>2. 1..f \subseteq added
      BY <3>1, FrontsAssumption DEF Fronts
    <3>3. \E t \in Threads : pc[t] = "walk"
      BY <1>1, <2>1, <2>2, <3>2 DEF GateInv
    <3>4. QED
      BY <1>3, <3>3 DEF Busy
  <2>3. CASE verdict # "open"
    <3>1. PICK g \in Fronts : Crosses(scn.work, g) /\ verdict = Decision(scn.work, Free, g)
      BY <1>1, <2>3 DEF GateInv
    <3>2. g = f
      BY <1>2, <2>1, <3>1, CrossesOnce
    <3>3. QED
      BY <1>1, <2>1, <3>1, <3>2 DEF GateInv
  <2>4. QED
    BY <2>2, <2>3
<1>12. QED
  BY <1>4, <1>5, <1>10, <1>11 DEF Causes

\* What is returned is a cause, or Success when there is none.
OutcomeRight == phase = 3 => failed \in (IF Causes = {} THEN {"Success"} ELSE Causes)

LEMMA RunRight == RunInv => OutcomeRight
<1> SUFFICES ASSUME RunInv, phase = 3 PROVE failed \in (IF Causes = {} THEN {"Success"} ELSE Causes)
  BY DEF OutcomeRight
<1>1. CASE Par
  <2>1. PlanFits /\ ParInv
    BY <1>1 DEF RunInv, Par
  <2>2. failed \in {"Success"} \cup Causes
    BY <2>1 DEF ParInv, SumInv
  <2>3. failed = "Success" => Causes = {}
    BY <1>1, <2>1, NoCause DEF Running
  <2>4. QED
    BY <2>2, <2>3
<1>2. CASE ~Par
  <2>1. scn \in Scenarios /\ failed = SerialStatus
    BY <1>2 DEF RunInv, Par, SerInv
  <2>2. QED
    BY <2>1, SerialEnds
<1>3. QED
  BY <1>1, <1>2

-----------------------------------------------------------------------------
(* Inductions, and sums over sets                                          *)

\* Induction on all that is smaller.
LEMMA FromAllSmaller ==
  ASSUME NEW P, \A n \in Nat : (\A m \in Nat : m < n => m \in P) => n \in P
  PROVE  Nat \subseteq P
<1> DEFINE Bad == Nat \ P
<1>1. ASSUME Bad # {} PROVE FALSE
  <2>1. PICK n \in Bad : \A m \in Bad : ~(<<m, n>> \in OpToRel(<, Nat))
    BY <1>1, NatLessThanWellFounded, WFMin
  <2>2. ASSUME NEW m \in Nat, m < n PROVE m \in P
    BY <2>1, <2>2 DEF OpToRel
  <2>3. QED
    BY <2>2
<1>2. QED
  BY <1>1

\* The sum of f over a set.
SumOn(f, S) == SumFunctionOnSet(f, S)

\* A part of a finite set is finite, and smaller without one of them.
LEMMA CardFacts ==
  ASSUME NEW D, IsFiniteSet(D), NEW S \in SUBSET D
  PROVE  /\ Cardinality(S) \in Nat
         /\ \A x \in S : Cardinality(S \ {x}) < Cardinality(S)
<1>1. IsFiniteSet(S) /\ Cardinality(S) \in Nat
  BY FS_Subset, FS_CardinalityType
<1>2. \A x \in S : Cardinality(S \ {x}) = Cardinality(S) - 1
  BY <1>1, FS_RemoveElement
<1>3. QED
  BY <1>1, <1>2

\* Induction over the parts of a finite set, by their sizes.
LEMMA SmallerFirst ==
  ASSUME NEW D, IsFiniteSet(D), NEW P,
         \A S \in SUBSET D :
           (\A T \in SUBSET D : Cardinality(T) < Cardinality(S) => T \in P) => S \in P
  PROVE  SUBSET D \subseteq P
<1> DEFINE Q == {k \in Nat : \A S \in SUBSET D : Cardinality(S) = k => S \in P}
<1>1. \A n \in Nat : (\A m \in Nat : m < n => m \in Q) => n \in Q
  BY CardFacts
<1>2. Nat \subseteq Q
  <2> HIDE DEF Q
  <2> QED BY <1>1, FromAllSmaller
<1>3. QED
  BY <1>2, CardFacts

Pick(s) == CHOOSE x \in s : TRUE

\* A set that is not empty has the element picked.
LEMMA PickIn == \A s : s # {} => Pick(s) \in s
BY DEF Pick

\* The recursion of a sum over the subsets of S.
Summed(f, g, S) ==
  g = [s \in SUBSET S |-> IF s = {} THEN 0 ELSE f[Pick(s)] + g[s \ {Pick(s)}]]

\* A sum is what the fold chooses.
LEMMA SumIsFold ==
  ASSUME NEW f, NEW S, NEW g, g = CHOOSE h : Summed(f, h, S) PROVE SumOn(f, S) = g[S]
BY DEF SumOn, SumFunctionOnSet, FoldFunctionOnSet, MapThenFoldSet, Summed, Pick

\* What a sum computes.
Adds(f, S) == SumOn(f, S) = IF S = {} THEN 0 ELSE f[Pick(S)] + SumOn(f, S \ {Pick(S)})

\* The recursive equation of a sum.
LEMMA SumDef ==
  ASSUME NEW f, NEW D, IsFiniteSet(D) PROVE \A S \in SUBSET D : Adds(f, S)
<1> DEFINE P == {S \in SUBSET D : Adds(f, S)}
<1>1. ASSUME NEW S \in SUBSET D, \A T \in SUBSET D : Cardinality(T) < Cardinality(S) => T \in P
      PROVE  S \in P
  <2> DEFINE rest(s) == s \ {Pick(s)}
             h == [s \in SUBSET S |-> IF s = S /\ s # {} THEN f[Pick(S)] + SumOn(f, rest(S))
                                      ELSE SumOn(f, s)]
             g == CHOOSE e : Summed(f, e, S)
  <2>1. ASSUME NEW s \in SUBSET S, s # S PROVE Adds(f, s)
    <3>1. PICK x \in S : x \notin s
      BY <2>1
    <3>2. Cardinality(S \ {x}) < Cardinality(S) /\ S \ {x} \in SUBSET D
      BY CardFacts
    <3>3. IsFiniteSet(S \ {x}) /\ s \subseteq S \ {x}
      BY <3>1, FS_Subset
    <3>4. Cardinality(s) <= Cardinality(S \ {x})
      BY <3>3, FS_Subset
    <3>5. Cardinality(s) < Cardinality(S) /\ s \in SUBSET D
      BY <3>2, <3>4, CardFacts
    <3>6. QED
      BY <3>5, <1>1
  <2>2. ASSUME NEW s \in SUBSET S, s # {} PROVE rest(s) \in SUBSET S /\ rest(s) # S /\ rest(s) # s
    BY <2>2, PickIn
  <2> HIDE DEF P, rest
  <2>3. S # {} => \A s \in SUBSET S : h[s] = IF s = {} THEN 0 ELSE f[Pick(s)] + h[rest(s)]
    <3> SUFFICES ASSUME S # {}, NEW s \in SUBSET S
                 PROVE  h[s] = IF s = {} THEN 0 ELSE f[Pick(s)] + h[rest(s)]
      OBVIOUS
    <3>1. CASE s = {}
      <4>1. h[s] = SumOn(f, {})
        BY <3>1
      <4>2. QED
        BY <4>1, <3>1, <2>1 DEF Adds
    <3>2. CASE s # {}
      <4>1. h[rest(s)] = SumOn(f, rest(s))
        BY <3>2, <2>2
      <4>2. CASE s = S
        BY <4>1, <4>2, <3>2
      <4>3. CASE s # S
        <5>1. h[s] = SumOn(f, s)
          BY <4>3
        <5>2. SumOn(f, s) = f[Pick(s)] + SumOn(f, rest(s))
          BY <4>3, <3>2, <2>1 DEF Adds, rest
        <5>3. QED
          BY <5>1, <5>2, <4>1, <3>2
      <4>4. QED
        BY <4>2, <4>3
    <3>3. QED
      BY <3>1, <3>2
  <2>4. S # {} => \E e : Summed(f, e, S)
    <3>1. h = [s \in SUBSET S |-> h[s]]
      OBVIOUS
    <3> HIDE DEF h
    <3>2. S # {} => Summed(f, h, S)
      BY <2>3, <3>1 DEF Summed, rest
    <3>3. QED
      BY <3>2
  <2> HIDE DEF h
  <2>5. S = {} => \E e : Summed(f, e, S)
    <3>1. Summed(f, [s \in SUBSET {} |-> 0], {})
      BY DEF Summed
    <3>2. QED
      BY <3>1
  <2>6. Summed(f, g, S) /\ SumOn(f, S) = g[S]
    <3>1. Summed(f, g, S)
      BY <2>4, <2>5
    <3>2. QED
      BY <3>1, SumIsFold
  <2> HIDE DEF g
  <2>7. \A s \in SUBSET S : g[s] = IF s = {} THEN 0 ELSE f[Pick(s)] + g[rest(s)]
    BY <2>6 DEF Summed, rest
  <2>8. \A s \in SUBSET S : s # S => g[s] = SumOn(f, s)
    <3> DEFINE E == {s \in SUBSET D : s \in SUBSET S /\ s # S => g[s] = SumOn(f, s)}
    <3>1. ASSUME NEW s \in SUBSET D,
                 \A t \in SUBSET D : Cardinality(t) < Cardinality(s) => t \in E,
                 s \in SUBSET S, s # S
          PROVE  g[s] = SumOn(f, s)
      <4>1. CASE s = {}
        BY <4>1, <3>1, <2>1, <2>7 DEF Adds
      <4>2. CASE s # {}
        <5>1. rest(s) \in SUBSET S /\ rest(s) # S /\ rest(s) \in SUBSET D
          BY <4>2, <2>2, <3>1
        <5>2. Cardinality(rest(s)) < Cardinality(s)
          BY <4>2, CardFacts, PickIn DEF rest
        <5>3. g[rest(s)] = SumOn(f, rest(s))
          BY <5>1, <5>2, <3>1
        <5>4. g[s] = f[Pick(s)] + g[rest(s)]
          BY <4>2, <3>1, <2>7
        <5>5. SumOn(f, s) = f[Pick(s)] + SumOn(f, rest(s))
          BY <4>2, <3>1, <2>1 DEF Adds, rest
        <5>6. QED
          BY <5>3, <5>4, <5>5
      <4>3. QED
        BY <4>1, <4>2
    <3>2. \A s \in SUBSET D :
            (\A t \in SUBSET D : Cardinality(t) < Cardinality(s) => t \in E) => s \in E
      BY <3>1
    <3> HIDE DEF E
    <3>3. SUBSET D \subseteq E
      BY <3>2, SmallerFirst
    <3>4. SUBSET S \subseteq SUBSET D
      OBVIOUS
    <3>5. QED
      BY <3>3, <3>4 DEF E
  <2>9. Adds(f, S)
    <3>1. CASE S = {}
      BY <3>1, <2>6, <2>7 DEF Adds
    <3>2. CASE S # {}
      <4>1. g[rest(S)] = SumOn(f, rest(S))
        BY <3>2, <2>2, <2>8
      <4>2. g[S] = f[Pick(S)] + g[rest(S)]
        BY <3>2, <2>7
      <4>3. QED
        BY <4>1, <4>2, <3>2, <2>6 DEF Adds, rest
    <3>3. QED
      BY <3>1, <3>2
  <2>10. QED
    BY <2>9 DEF P
<1>2. SUBSET D \subseteq P
  <2> HIDE DEF P
  <2> QED BY <1>1, SmallerFirst
<1>3. QED
  BY <1>2

\* It does not matter in which order they are added.
LEMMA SumOne ==
  ASSUME NEW f, NEW D, IsFiniteSet(D), \A x \in D : f[x] \in Nat
  PROVE  \A S \in SUBSET D : /\ SumOn(f, S) \in Nat
                          /\ \A x \in S : SumOn(f, S) = f[x] + SumOn(f, S \ {x})
<1> DEFINE Fine(S) == /\ SumOn(f, S) \in Nat
                      /\ \A x \in S : SumOn(f, S) = f[x] + SumOn(f, S \ {x})
           P == {S \in SUBSET D : Fine(S)}
<1>1. ASSUME NEW S \in SUBSET D, \A T \in SUBSET D : Cardinality(T) < Cardinality(S) => T \in P
      PROVE  S \in P
  <2>1. CASE S = {}
    <3>1. SumOn(f, S) = 0
      BY <2>1, SumDef DEF Adds
    <3>2. QED
      BY <2>1, <3>1
  <2>2. CASE S # {}
    <3> DEFINE p == Pick(S)
    <3>1. p \in S /\ p \in D /\ f[p] \in Nat
      BY <2>2, PickIn
    <3>2. SumOn(f, S) = f[p] + SumOn(f, S \ {p})
      BY <2>2, SumDef DEF Adds
    <3> HIDE DEF p
    <3>3. Fine(S \ {p})
      BY <3>1, <1>1, CardFacts
    <3>4. SumOn(f, S) \in Nat
      BY <3>1, <3>2, <3>3
    <3>5. ASSUME NEW x \in S, x # p PROVE SumOn(f, S) = f[x] + SumOn(f, S \ {x})
      <4>1. SumOn(f, S \ {p}) = f[x] + SumOn(f, (S \ {p}) \ {x})
        BY <3>3, <3>5
      <4>2. Fine(S \ {x})
        BY <1>1, CardFacts
      <4>3. SumOn(f, S \ {x}) = f[p] + SumOn(f, (S \ {x}) \ {p})
        BY <4>2, <3>1, <3>5
      <4>4. (S \ {x}) \ {p} = (S \ {p}) \ {x}
        OBVIOUS
      <4>5. f[x] \in Nat /\ SumOn(f, (S \ {p}) \ {x}) \in Nat
        <5>1. Cardinality((S \ {p}) \ {x}) < Cardinality(S)
          <6>1. x \in S \ {p} /\ S \ {p} \in SUBSET D /\ (S \ {p}) \ {x} \in SUBSET D
            BY <3>5
          <6>2. Cardinality((S \ {p}) \ {x}) < Cardinality(S \ {p})
            BY <6>1, CardFacts
          <6>3. Cardinality(S \ {p}) < Cardinality(S)
            BY <3>1, CardFacts
          <6>4. QED
            BY <6>1, <6>2, <6>3, CardFacts
        <5>2. (S \ {p}) \ {x} \in P
          BY <5>1, <1>1
        <5>3. QED
          BY <5>2
      <4> DEFINE r == SumOn(f, (S \ {p}) \ {x})
      <4>6. SumOn(f, S) = f[p] + (f[x] + r) /\ SumOn(f, S \ {x}) = f[p] + r
        BY <3>2, <4>1, <4>3, <4>4
      <4>7. r \in Nat /\ f[p] \in Nat /\ f[x] \in Nat
        BY <3>1, <4>5
      <4> HIDE DEF r
      <4>8. QED
        BY <4>6, <4>7
    <3>6. Fine(S)
      BY <3>2, <3>4, <3>5
    <3>7. QED
      BY <3>6
  <2>3. QED
    BY <2>1, <2>2
<1>2. SUBSET D \subseteq P
  <2> HIDE DEF P
  <2> QED BY <1>1, SmallerFirst
<1>3. QED
  BY <1>2

\* The sums over two sets apart add up.
LEMMA SumUnion ==
  ASSUME NEW f, NEW D, IsFiniteSet(D), \A x \in D : f[x] \in Nat, NEW A \in SUBSET D
  PROVE  \A B \in SUBSET D :
           A \cap B = {} => SumOn(f, A \cup B) = SumOn(f, A) + SumOn(f, B)
<1> DEFINE P == {B \in SUBSET D :
                   A \cap B = {} => SumOn(f, A \cup B) = SumOn(f, A) + SumOn(f, B)}
<1>1. ASSUME NEW B \in SUBSET D, \A T \in SUBSET D : Cardinality(T) < Cardinality(B) => T \in P,
             A \cap B = {}
      PROVE  SumOn(f, A \cup B) = SumOn(f, A) + SumOn(f, B)
  <2>0. SumOn(f, A) \in Nat
    BY SumOne
  <2>1. CASE B = {}
    <3>1. SumOn(f, B) = 0
      BY <2>1, SumDef DEF Adds
    <3>2. A \cup B = A
      BY <2>1
    <3>3. SumOn(f, A) + 0 = SumOn(f, A)
      BY <2>0
    <3>4. SumOn(f, A \cup B) = SumOn(f, A)
      BY <3>2
    <3>5. QED
      BY <3>1, <3>3, <3>4
  <2>2. CASE B # {}
    <3>1. PICK x \in B : TRUE
      BY <2>2
    <3>2. /\ B \ {x} \in SUBSET D /\ Cardinality(B \ {x}) < Cardinality(B) /\ A \cap (B \ {x}) = {}
          /\ A \cup B \in SUBSET D /\ x \in A \cup B
          /\ (A \cup B) \ {x} = A \cup (B \ {x})
      BY <1>1, CardFacts
    <3>3. SumOn(f, A \cup (B \ {x})) = SumOn(f, A) + SumOn(f, B \ {x})
      BY <3>2, <1>1
    <3>4. SumOn(f, B) = f[x] + SumOn(f, B \ {x}) /\ SumOn(f, B \ {x}) \in Nat
      BY <3>2, SumOne
    <3>5. SumOn(f, A \cup B) = f[x] + SumOn(f, A \cup (B \ {x}))
      BY <3>2, SumOne
    <3>6. f[x] \in Nat
      OBVIOUS
    <3>7. QED
      BY <2>0, <3>3, <3>4, <3>5, <3>6
  <2>3. QED
    BY <2>1, <2>2
<1>2. SUBSET D \subseteq P
  <2>1. \A S \in SUBSET D :
          (\A T \in SUBSET D : Cardinality(T) < Cardinality(S) => T \in P) => S \in P
    BY <1>1
  <2> HIDE DEF P
  <2>2. QED
    BY <2>1, SmallerFirst
<1>3. QED
  BY <1>2

-----------------------------------------------------------------------------
(* Folds over the nodes                                                    *)

\* A set of numbers up to m + 1, without m + 1 and with it.
LEMMA LastIs ==
  ASSUME NEW m \in Nat, NEW s \in SUBSET (1..(m + 1))
  PROVE  /\ m + 1 \notin s => s \in SUBSET (1..m)
         /\ m + 1 \in s => Max(s) = m + 1
<1>1. ASSUME m + 1 \notin s, NEW x \in s PROVE x \in 1..m
  BY <1>1
<1>2. ASSUME m + 1 \in s PROVE Max(s) = m + 1
  <2>1. \A y \in s : m + 1 >= y
    OBVIOUS
  <2>2. \A x \in s : (\A y \in s : x >= y) => x = m + 1
    BY <1>2
  <2>3. QED
    BY <2>1, <2>2, <1>2 DEF Max
<1>3. QED
  BY <1>1, <1>2

\* A set of numbers has its last one.
LEMMA LastOf ==
  ASSUME NEW n \in Nat PROVE \A s \in SUBSET (1..n) : s # {} => Max(s) \in s /\ \A y \in s : Max(s) >= y
<1> DEFINE Q == {k \in Nat : \A s \in SUBSET (1..k) : s # {} => \E x \in s : \A y \in s : x >= y}
<1>1. 0 \in Q
  <2>1. 1..0 = {}
    OBVIOUS
  <2>2. QED
    BY <2>1
<1>2. ASSUME NEW k \in Q PROVE k + 1 \in Q
  <2>1. ASSUME NEW s \in SUBSET (1..(k + 1)), s # {} PROVE \E x \in s : \A y \in s : x >= y
    <3>1. CASE k + 1 \in s
      BY <3>1
    <3>2. CASE k + 1 \notin s
      <4>1. k \in Nat
        OBVIOUS
      <4>2. s \in SUBSET (1..k)
        BY <4>1, <3>2, LastIs
      <4>3. QED
        BY <4>2, <2>1
    <3>3. QED
      BY <3>1, <3>2
  <2>2. QED
    BY <2>1
<1>3. \A k \in Nat : k \in Q
  <2> HIDE DEF Q
  <2> QED BY <1>1, <1>2, Upwards DEF Q
<1>4. ASSUME NEW s \in SUBSET (1..n), s # {} PROVE Max(s) \in s /\ \A y \in s : Max(s) >= y
  <2>1. \E x \in s : \A y \in s : x >= y
    BY <1>3, <1>4
  <2>2. QED
    BY <2>1 DEF Max
<1>5. QED
  BY <1>4

\* The numbers up to k.
LEMMA UpToLast == ASSUME NEW k \in Nat \ {0} PROVE Max(1..k) = k /\ (1..k) \ {k} = 1..(k - 1)
<1>1. k - 1 \in Nat /\ (k - 1) + 1 = k
  OBVIOUS
<1>2. k \in 1..k
  OBVIOUS
<1>3. Max(1..k) = k
  BY <1>1, <1>2, LastIs
<1>4. QED
  BY <1>3

\* The recursion of the fold in SubtreeSums(v).
SumsFold(g, v) ==
  g = [s \in SUBSET DOMAIN Nodes(v) |->
         IF s = {} THEN [first |-> <<>>, work |-> <<>>] ELSE AddNode(v, g[s \ {Max(s)}], Nodes(v)[Max(s)])]

\* The fold is what it chooses.
LEMMA SumsIsFold ==
  ASSUME NEW v PROVE SubtreeSums(v) = (CHOOSE g : SumsFold(g, v))[DOMAIN Nodes(v)]
BY DEF SubtreeSums, FoldLeft, MapThenFoldSet, SumsFold

\* The steps of the fold, one node after the other.
SumsTurns(G, n, v) == G[0] = [first |-> <<>>, work |-> <<>>] /\ \A k \in 1..n : G[k] = AddNode(v, G[k - 1], k)

\* subtree_sums is its loop, a node at a time.
LEMMA SumsUnrolled ==
  ASSUME NEW v, Len(v.work) \in Nat
  PROVE  \E G : SumsTurns(G, Len(v.work), v) /\ SubtreeSums(v) = G[Len(v.work)]
<1> DEFINE n == Len(v.work)
           Upto(g, m) ==
             g = [s \in SUBSET (1..m) |->
                    IF s = {} THEN [first |-> <<>>, work |-> <<>>] ELSE AddNode(v, g[s \ {Max(s)}], Max(s))]
           P == {m \in Nat : \E g : Upto(g, m)}
<1>1. 0 \in P
  <2>1. Upto([s \in SUBSET (1..0) |-> [first |-> <<>>, work |-> <<>>]], 0)
    OBVIOUS
  <2>2. QED
    BY <2>1
<1>2. ASSUME NEW m \in P PROVE m + 1 \in P
  <2>1. PICK h : Upto(h, m)
    OBVIOUS
  <2>2. m \in Nat
    OBVIOUS
  <2> DEFINE g == [s \in SUBSET (1..(m + 1)) |->
                     IF m + 1 \notin s THEN h[s] ELSE AddNode(v, h[s \ {m + 1}], m + 1)]
  <2>3. ASSUME NEW s \in SUBSET (1..(m + 1)), s # {}, m + 1 \notin s
        PROVE  /\ s \in SUBSET (1..m) /\ s \ {Max(s)} \in SUBSET (1..m)
               /\ s \ {Max(s)} \in SUBSET (1..(m + 1)) /\ m + 1 \notin s \ {Max(s)}
    <3>1. s \in SUBSET (1..m)
      BY <2>2, <2>3, LastIs
    <3>2. QED
      BY <3>1, <2>3
  <2>4. ASSUME NEW s \in SUBSET (1..(m + 1)), m + 1 \in s
        PROVE  /\ Max(s) = m + 1 /\ s \ {m + 1} \in SUBSET (1..(m + 1))
    BY <2>2, <2>4, LastIs
  <2>5. ASSUME NEW s \in SUBSET (1..(m + 1))
        PROVE  g[s] = IF s = {} THEN [first |-> <<>>, work |-> <<>>] ELSE AddNode(v, g[s \ {Max(s)}], Max(s))
    <3>1. CASE s = {}
      <4>1. m + 1 \notin s /\ {} \in SUBSET (1..m)
        BY <3>1
      <4>2. g[s] = h[{}]
        BY <4>1, <3>1
      <4>3. h[{}] = [first |-> <<>>, work |-> <<>>]
        BY <2>1, <4>1
      <4>4. QED
        BY <4>2, <4>3, <3>1
    <3>2. CASE s # {} /\ m + 1 \notin s
      <4>1. g[s] = h[s] /\ g[s \ {Max(s)}] = h[s \ {Max(s)}]
        BY <3>2, <2>3
      <4>2. s \in SUBSET (1..m)
        BY <3>2, <2>3
      <4> HIDE DEF g
      <4>3. h[s] = AddNode(v, h[s \ {Max(s)}], Max(s))
        BY <2>1, <4>2, <3>2
      <4>4. QED
        BY <4>1, <4>3, <3>2
    <3>3. CASE m + 1 \in s
      <4>1. g[s] = AddNode(v, h[s \ {m + 1}], m + 1)
        BY <3>3
      <4>2. Max(s) = m + 1
        BY <3>3, <2>4
      <4>3. g[s \ {m + 1}] = h[s \ {m + 1}]
        BY <3>3, <2>4
      <4>4. s # {}
        BY <3>3
      <4> HIDE DEF g
      <4>5. QED
        BY <4>1, <4>2, <4>3, <4>4
    <3>4. QED
      BY <3>1, <3>2, <3>3
  <2>6. g = [s \in SUBSET (1..(m + 1)) |-> g[s]]
    OBVIOUS
  <2> HIDE DEF g
  <2>7. Upto(g, m + 1)
    BY <2>5, <2>6
  <2> HIDE DEF Upto
  <2>8. QED
    BY <2>7, <2>2
<1>3. \A m \in Nat : m \in P
  <2> HIDE DEF P
  <2> QED BY <1>1, <1>2, Upwards DEF P
<1> DEFINE F == CHOOSE g : SumsFold(g, v)
<1>4. DOMAIN Nodes(v) = 1..n /\ \A k \in 1..n : Nodes(v)[k] = k
  BY DEF Nodes
<1>5. ASSUME NEW k \in 1..n PROVE Max(1..k) = k /\ (1..k) \ {k} = 1..(k - 1)
  BY <1>5, UpToLast
<1>6. \A s \in SUBSET (1..n) : s # {} => Max(s) \in 1..n
  BY LastOf
<1>7. SumsFold(F, v) /\ SubtreeSums(v) = F[1..n]
  <2>1. PICK g : Upto(g, n)
    BY <1>3
  <2>2. ASSUME NEW s \in SUBSET (1..n), s # {} PROVE Nodes(v)[Max(s)] = Max(s)
    BY <1>4, <1>6, <2>2
  <2>3. SumsFold(g, v)
    BY <2>1, <2>2, <1>4 DEF SumsFold
  <2>4. SumsFold(F, v)
    BY <2>3
  <2>5. QED
    BY <2>4, <1>4, SumsIsFold
<1> HIDE DEF F
<1> DEFINE G == [k \in 0..n |-> F[1..k]]
<1>8. G[0] = [first |-> <<>>, work |-> <<>>]
  <2>1. 1..0 = {} /\ {} \in SUBSET DOMAIN Nodes(v) /\ 0 \in 0..n
    OBVIOUS
  <2>2. G[0] = F[{}]
    BY <2>1
  <2>3. QED
    BY <2>1, <2>2, <1>7 DEF SumsFold
<1>9. ASSUME NEW k \in 1..n PROVE G[k] = AddNode(v, G[k - 1], k)
  <2>1. 1..k \in SUBSET DOMAIN Nodes(v) /\ 1..k # {} /\ Nodes(v)[k] = k /\ k \in 0..n /\ k - 1 \in 0..n
    BY <1>4, <1>9
  <2>2. G[k] = F[1..k] /\ G[k - 1] = F[1..(k - 1)]
    BY <2>1
  <2>3. F[1..k] = AddNode(v, F[(1..k) \ {Max(1..k)}], Nodes(v)[Max(1..k)])
    BY <2>1, <1>7 DEF SumsFold
  <2>4. QED
    BY <2>1, <2>2, <2>3, <1>5
<1>10. G[n] = F[1..n]
  OBVIOUS
<1> HIDE DEF G
<1>11. QED
  BY <1>7, <1>8, <1>9, <1>10 DEF SumsTurns


\* The recursion of the fold in SplitHeap(t, T).
SplitFold(g, t, T) ==
  g = [s \in SUBSET DOMAIN Nodes(t.v) |->
         IF s = {} THEN [heap |-> KidsOf(t.v, 0), top |-> {}] ELSE SplitTurn(t, T, g[s \ {Max(s)}])]

\* The fold is what it chooses.
LEMMA SplitIsFold ==
  ASSUME NEW t, NEW T PROVE SplitHeap(t, T) = (CHOOSE g : SplitFold(g, t, T))[DOMAIN Nodes(t.v)]
BY DEF SplitHeap, FoldLeft, MapThenFoldSet, SplitFold

\* The steps of the fold, one node after the other.
SplitTurns(G, n, t, T) == G[0] = [heap |-> KidsOf(t.v, 0), top |-> {}] /\ \A k \in 1..n : G[k] = SplitTurn(t, T, G[k - 1])

\* The walk of split_subtrees is its loop.
LEMMA SplitUnrolled ==
  ASSUME NEW t, NEW T, Len(t.v.work) \in Nat
  PROVE  \E G : SplitTurns(G, Len(t.v.work), t, T) /\ SplitHeap(t, T) = G[Len(t.v.work)]
<1> DEFINE n == Len(t.v.work)
           Upto(g, m) ==
             g = [s \in SUBSET (1..m) |->
                    IF s = {} THEN [heap |-> KidsOf(t.v, 0), top |-> {}] ELSE SplitTurn(t, T, g[s \ {Max(s)}])]
           P == {m \in Nat : \E g : Upto(g, m)}
<1>1. 0 \in P
  <2>1. Upto([s \in SUBSET (1..0) |-> [heap |-> KidsOf(t.v, 0), top |-> {}]], 0)
    OBVIOUS
  <2>2. QED
    BY <2>1
<1>2. ASSUME NEW m \in P PROVE m + 1 \in P
  <2>1. PICK h : Upto(h, m)
    OBVIOUS
  <2>2. m \in Nat
    OBVIOUS
  <2> DEFINE g == [s \in SUBSET (1..(m + 1)) |->
                     IF m + 1 \notin s THEN h[s] ELSE SplitTurn(t, T, h[s \ {m + 1}])]
  <2>3. ASSUME NEW s \in SUBSET (1..(m + 1)), s # {}, m + 1 \notin s
        PROVE  /\ s \in SUBSET (1..m) /\ s \ {Max(s)} \in SUBSET (1..m)
               /\ s \ {Max(s)} \in SUBSET (1..(m + 1)) /\ m + 1 \notin s \ {Max(s)}
    <3>1. s \in SUBSET (1..m)
      BY <2>2, <2>3, LastIs
    <3>2. QED
      BY <3>1, <2>3
  <2>4. ASSUME NEW s \in SUBSET (1..(m + 1)), m + 1 \in s
        PROVE  /\ Max(s) = m + 1 /\ s \ {m + 1} \in SUBSET (1..(m + 1))
    BY <2>2, <2>4, LastIs
  <2>5. ASSUME NEW s \in SUBSET (1..(m + 1))
        PROVE  g[s] = IF s = {} THEN [heap |-> KidsOf(t.v, 0), top |-> {}] ELSE SplitTurn(t, T, g[s \ {Max(s)}])
    <3>1. CASE s = {}
      <4>1. m + 1 \notin s /\ {} \in SUBSET (1..m)
        BY <3>1
      <4>2. g[s] = h[{}]
        BY <4>1, <3>1
      <4>3. h[{}] = [heap |-> KidsOf(t.v, 0), top |-> {}]
        BY <2>1, <4>1
      <4>4. QED
        BY <4>2, <4>3, <3>1
    <3>2. CASE s # {} /\ m + 1 \notin s
      <4>1. g[s] = h[s] /\ g[s \ {Max(s)}] = h[s \ {Max(s)}]
        BY <3>2, <2>3
      <4>2. s \in SUBSET (1..m)
        BY <3>2, <2>3
      <4> HIDE DEF g
      <4>3. h[s] = SplitTurn(t, T, h[s \ {Max(s)}])
        BY <2>1, <4>2, <3>2
      <4>4. QED
        BY <4>1, <4>3, <3>2
    <3>3. CASE m + 1 \in s
      <4>1. g[s] = SplitTurn(t, T, h[s \ {m + 1}])
        BY <3>3
      <4>2. Max(s) = m + 1
        BY <3>3, <2>4
      <4>3. g[s \ {m + 1}] = h[s \ {m + 1}]
        BY <3>3, <2>4
      <4>4. s # {}
        BY <3>3
      <4> HIDE DEF g
      <4>5. QED
        BY <4>1, <4>2, <4>3, <4>4
    <3>4. QED
      BY <3>1, <3>2, <3>3
  <2>6. g = [s \in SUBSET (1..(m + 1)) |-> g[s]]
    OBVIOUS
  <2> HIDE DEF g
  <2>7. Upto(g, m + 1)
    BY <2>5, <2>6
  <2> HIDE DEF Upto
  <2>8. QED
    BY <2>7, <2>2
<1>3. \A m \in Nat : m \in P
  <2> HIDE DEF P
  <2> QED BY <1>1, <1>2, Upwards DEF P
<1> DEFINE F == CHOOSE g : SplitFold(g, t, T)
<1>4. DOMAIN Nodes(t.v) = 1..n /\ \A k \in 1..n : Nodes(t.v)[k] = k
  BY DEF Nodes
<1>5. ASSUME NEW k \in 1..n PROVE Max(1..k) = k /\ (1..k) \ {k} = 1..(k - 1)
  BY <1>5, UpToLast
<1>6. \A s \in SUBSET (1..n) : s # {} => Max(s) \in 1..n
  BY LastOf
<1>7. SplitFold(F, t, T) /\ SplitHeap(t, T) = F[1..n]
  <2>1. PICK g : Upto(g, n)
    BY <1>3
  <2>2. ASSUME NEW s \in SUBSET (1..n), s # {} PROVE Nodes(t.v)[Max(s)] = Max(s)
    BY <1>4, <1>6, <2>2
  <2>3. SplitFold(g, t, T)
    BY <2>1, <2>2, <1>4 DEF SplitFold
  <2>4. SplitFold(F, t, T)
    BY <2>3
  <2>5. QED
    BY <2>4, <1>4, SplitIsFold
<1> HIDE DEF F
<1> DEFINE G == [k \in 0..n |-> F[1..k]]
<1>8. G[0] = [heap |-> KidsOf(t.v, 0), top |-> {}]
  <2>1. 1..0 = {} /\ {} \in SUBSET DOMAIN Nodes(t.v) /\ 0 \in 0..n
    OBVIOUS
  <2>2. G[0] = F[{}]
    BY <2>1
  <2>3. QED
    BY <2>1, <2>2, <1>7 DEF SplitFold
<1>9. ASSUME NEW k \in 1..n PROVE G[k] = SplitTurn(t, T, G[k - 1])
  <2>1. 1..k \in SUBSET DOMAIN Nodes(t.v) /\ 1..k # {} /\ Nodes(t.v)[k] = k /\ k \in 0..n /\ k - 1 \in 0..n
    BY <1>4, <1>9
  <2>2. G[k] = F[1..k] /\ G[k - 1] = F[1..(k - 1)]
    BY <2>1
  <2>3. F[1..k] = SplitTurn(t, T, F[(1..k) \ {Max(1..k)}])
    BY <2>1, <1>7 DEF SplitFold
  <2>4. QED
    BY <2>1, <2>2, <2>3, <1>5
<1>10. G[n] = F[1..n]
  OBVIOUS
<1> HIDE DEF G
<1>11. QED
  BY <1>7, <1>8, <1>9, <1>10 DEF SplitTurns


\* The recursion of the fold in MergedTasks(t, T).
MergeFold(g, t, T) ==
  g = [s \in SUBSET DOMAIN Nodes(t.v) |->
         IF s = {} THEN <<>> ELSE WithNode(t, T, g[s \ {Max(s)}], Nodes(t.v)[Max(s)])]

\* The fold is what it chooses.
LEMMA MergeIsFold ==
  ASSUME NEW t, NEW T PROVE MergedTasks(t, T) = (CHOOSE g : MergeFold(g, t, T))[DOMAIN Nodes(t.v)]
BY DEF MergedTasks, FoldLeft, MapThenFoldSet, MergeFold

\* The steps of the fold, one node after the other.
MergeTurns(G, n, t, T) == G[0] = <<>> /\ \A k \in 1..n : G[k] = WithNode(t, T, G[k - 1], k)

\* The merge of plan_tasks is its loop.
LEMMA MergeUnrolled ==
  ASSUME NEW t, NEW T, Len(t.v.work) \in Nat
  PROVE  \E G : MergeTurns(G, Len(t.v.work), t, T) /\ MergedTasks(t, T) = G[Len(t.v.work)]
<1> DEFINE n == Len(t.v.work)
           Upto(g, m) ==
             g = [s \in SUBSET (1..m) |->
                    IF s = {} THEN <<>> ELSE WithNode(t, T, g[s \ {Max(s)}], Max(s))]
           P == {m \in Nat : \E g : Upto(g, m)}
<1>1. 0 \in P
  <2>1. Upto([s \in SUBSET (1..0) |-> <<>>], 0)
    OBVIOUS
  <2>2. QED
    BY <2>1
<1>2. ASSUME NEW m \in P PROVE m + 1 \in P
  <2>1. PICK h : Upto(h, m)
    OBVIOUS
  <2>2. m \in Nat
    OBVIOUS
  <2> DEFINE g == [s \in SUBSET (1..(m + 1)) |->
                     IF m + 1 \notin s THEN h[s] ELSE WithNode(t, T, h[s \ {m + 1}], m + 1)]
  <2>3. ASSUME NEW s \in SUBSET (1..(m + 1)), s # {}, m + 1 \notin s
        PROVE  /\ s \in SUBSET (1..m) /\ s \ {Max(s)} \in SUBSET (1..m)
               /\ s \ {Max(s)} \in SUBSET (1..(m + 1)) /\ m + 1 \notin s \ {Max(s)}
    <3>1. s \in SUBSET (1..m)
      BY <2>2, <2>3, LastIs
    <3>2. QED
      BY <3>1, <2>3
  <2>4. ASSUME NEW s \in SUBSET (1..(m + 1)), m + 1 \in s
        PROVE  /\ Max(s) = m + 1 /\ s \ {m + 1} \in SUBSET (1..(m + 1))
    BY <2>2, <2>4, LastIs
  <2>5. ASSUME NEW s \in SUBSET (1..(m + 1))
        PROVE  g[s] = IF s = {} THEN <<>> ELSE WithNode(t, T, g[s \ {Max(s)}], Max(s))
    <3>1. CASE s = {}
      <4>1. m + 1 \notin s /\ {} \in SUBSET (1..m)
        BY <3>1
      <4>2. g[s] = h[{}]
        BY <4>1, <3>1
      <4>3. h[{}] = <<>>
        BY <2>1, <4>1
      <4>4. QED
        BY <4>2, <4>3, <3>1
    <3>2. CASE s # {} /\ m + 1 \notin s
      <4>1. g[s] = h[s] /\ g[s \ {Max(s)}] = h[s \ {Max(s)}]
        BY <3>2, <2>3
      <4>2. s \in SUBSET (1..m)
        BY <3>2, <2>3
      <4> HIDE DEF g
      <4>3. h[s] = WithNode(t, T, h[s \ {Max(s)}], Max(s))
        BY <2>1, <4>2, <3>2
      <4>4. QED
        BY <4>1, <4>3, <3>2
    <3>3. CASE m + 1 \in s
      <4>1. g[s] = WithNode(t, T, h[s \ {m + 1}], m + 1)
        BY <3>3
      <4>2. Max(s) = m + 1
        BY <3>3, <2>4
      <4>3. g[s \ {m + 1}] = h[s \ {m + 1}]
        BY <3>3, <2>4
      <4>4. s # {}
        BY <3>3
      <4> HIDE DEF g
      <4>5. QED
        BY <4>1, <4>2, <4>3, <4>4
    <3>4. QED
      BY <3>1, <3>2, <3>3
  <2>6. g = [s \in SUBSET (1..(m + 1)) |-> g[s]]
    OBVIOUS
  <2> HIDE DEF g
  <2>7. Upto(g, m + 1)
    BY <2>5, <2>6
  <2> HIDE DEF Upto
  <2>8. QED
    BY <2>7, <2>2
<1>3. \A m \in Nat : m \in P
  <2> HIDE DEF P
  <2> QED BY <1>1, <1>2, Upwards DEF P
<1> DEFINE F == CHOOSE g : MergeFold(g, t, T)
<1>4. DOMAIN Nodes(t.v) = 1..n /\ \A k \in 1..n : Nodes(t.v)[k] = k
  BY DEF Nodes
<1>5. ASSUME NEW k \in 1..n PROVE Max(1..k) = k /\ (1..k) \ {k} = 1..(k - 1)
  BY <1>5, UpToLast
<1>6. \A s \in SUBSET (1..n) : s # {} => Max(s) \in 1..n
  BY LastOf
<1>7. MergeFold(F, t, T) /\ MergedTasks(t, T) = F[1..n]
  <2>1. PICK g : Upto(g, n)
    BY <1>3
  <2>2. ASSUME NEW s \in SUBSET (1..n), s # {} PROVE Nodes(t.v)[Max(s)] = Max(s)
    BY <1>4, <1>6, <2>2
  <2>3. MergeFold(g, t, T)
    BY <2>1, <2>2, <1>4 DEF MergeFold
  <2>4. MergeFold(F, t, T)
    BY <2>3
  <2>5. QED
    BY <2>4, <1>4, MergeIsFold
<1> HIDE DEF F
<1> DEFINE G == [k \in 0..n |-> F[1..k]]
<1>8. G[0] = <<>>
  <2>1. 1..0 = {} /\ {} \in SUBSET DOMAIN Nodes(t.v) /\ 0 \in 0..n
    OBVIOUS
  <2>2. G[0] = F[{}]
    BY <2>1
  <2>3. QED
    BY <2>1, <2>2, <1>7 DEF MergeFold
<1>9. ASSUME NEW k \in 1..n PROVE G[k] = WithNode(t, T, G[k - 1], k)
  <2>1. 1..k \in SUBSET DOMAIN Nodes(t.v) /\ 1..k # {} /\ Nodes(t.v)[k] = k /\ k \in 0..n /\ k - 1 \in 0..n
    BY <1>4, <1>9
  <2>2. G[k] = F[1..k] /\ G[k - 1] = F[1..(k - 1)]
    BY <2>1
  <2>3. F[1..k] = WithNode(t, T, F[(1..k) \ {Max(1..k)}], Nodes(t.v)[Max(1..k)])
    BY <2>1, <1>7 DEF MergeFold
  <2>4. QED
    BY <2>1, <2>2, <2>3, <1>5
<1>10. G[n] = F[1..n]
  OBVIOUS
<1> HIDE DEF G
<1>11. QED
  BY <1>7, <1>8, <1>9, <1>10 DEF MergeTurns

\* Functions that agree have the same sums.
LEMMA SumSame ==
  ASSUME NEW f, NEW g, NEW D, IsFiniteSet(D), \A x \in D : f[x] = g[x]
  PROVE  \A S \in SUBSET D : SumOn(f, S) = SumOn(g, S)
<1> DEFINE P == {S \in SUBSET D : SumOn(f, S) = SumOn(g, S)}
<1>1. ASSUME NEW S \in SUBSET D, \A T \in SUBSET D : Cardinality(T) < Cardinality(S) => T \in P
      PROVE  SumOn(f, S) = SumOn(g, S)
  <2>1. CASE S = {}
    BY <2>1, SumDef DEF Adds
  <2>2. CASE S # {}
    <3>1. Pick(S) \in S /\ Pick(S) \in D
      BY <2>2, PickIn
    <3>2. S \ {Pick(S)} \in P
      BY <3>1, <1>1, CardFacts
    <3>3. SumOn(f, S) = f[Pick(S)] + SumOn(f, S \ {Pick(S)})
      BY <2>2, SumDef DEF Adds
    <3>4. SumOn(g, S) = g[Pick(S)] + SumOn(g, S \ {Pick(S)})
      BY <2>2, SumDef DEF Adds
    <3>5. QED
      BY <3>1, <3>2, <3>3, <3>4
  <2>3. QED
    BY <2>1, <2>2
<1>2. SUBSET D \subseteq P
  <2>1. \A S \in SUBSET D :
          (\A T \in SUBSET D : Cardinality(T) < Cardinality(S) => T \in P) => S \in P
    BY <1>1
  <2> HIDE DEF P
  <2>2. QED
    BY <2>1, SmallerFirst
<1>3. QED
  BY <1>2

\* A part sums to no more.
LEMMA SumPart ==
  ASSUME NEW f, NEW D, IsFiniteSet(D), \A x \in D : f[x] \in Nat, NEW B \in SUBSET D, NEW A \in SUBSET B
  PROVE  SumOn(f, A) \in Nat /\ SumOn(f, B) \in Nat /\ SumOn(f, A) <= SumOn(f, B)
<1>1. A \in SUBSET D /\ B \ A \in SUBSET D /\ A \cap (B \ A) = {} /\ A \cup (B \ A) = B
  OBVIOUS
<1>2. SumOn(f, B) = SumOn(f, A) + SumOn(f, B \ A)
  BY <1>1, SumUnion
<1>3. SumOn(f, A) \in Nat /\ SumOn(f, B \ A) \in Nat
  BY <1>1, SumOne
<1>4. QED
  BY <1>2, <1>3

\* The sum of the sums over sets apart.
LEMMA SumFamily ==
  ASSUME NEW f, NEW D, IsFiniteSet(D), \A x \in D : f[x] \in Nat,
         NEW E, IsFiniteSet(E), NEW M, NEW w,
         \A c \in E : M[c] \in SUBSET D /\ w[c] = SumOn(f, M[c]),
         \A c, d \in E : c # d => M[c] \cap M[d] = {}
  PROVE  SumOn(w, E) = SumOn(f, UNION {M[c] : c \in E})
<1> DEFINE All(K) == UNION {M[c] : c \in K}
           P == {K \in SUBSET E : SumOn(w, K) = SumOn(f, All(K))}
<1>0. \A c \in E : w[c] \in Nat
  BY SumOne
<1>1. ASSUME NEW K \in SUBSET E, \A T \in SUBSET E : Cardinality(T) < Cardinality(K) => T \in P
      PROVE  SumOn(w, K) = SumOn(f, All(K))
  <2>1. CASE K = {}
    <3>1. All(K) = {}
      BY <2>1
    <3>2. {} \in SUBSET E /\ {} \in SUBSET D
      OBVIOUS
    <3>3. SumOn(w, {}) = 0 /\ SumOn(f, {}) = 0
      BY <3>2, SumDef DEF Adds
    <3>4. QED
      BY <2>1, <3>1, <3>3
  <2>2. CASE K # {}
    <3>1. PICK c \in K : TRUE
      BY <2>2
    <3>2. c \in E /\ M[c] \in SUBSET D /\ w[c] = SumOn(f, M[c]) /\ K \ {c} \in SUBSET E
      OBVIOUS
    <3>3. All(K \ {c}) \in SUBSET D /\ M[c] \cap All(K \ {c}) = {} /\ M[c] \cup All(K \ {c}) = All(K)
      OBVIOUS
    <3>4. Cardinality(K \ {c}) < Cardinality(K)
      BY CardFacts
    <3>5. SumOn(w, K \ {c}) = SumOn(f, All(K \ {c}))
      BY <3>2, <3>4, <1>1
    <3>6. SumOn(w, K) = w[c] + SumOn(w, K \ {c})
      BY <1>0, SumOne
    <3> DEFINE A == M[c]
               B == All(K \ {c})
    <3>9. A \in SUBSET D /\ B \in SUBSET D /\ A \cap B = {} /\ A \cup B = All(K)
      BY <3>2, <3>3
    <3> HIDE DEF All, A, B
    <3>10. SumOn(f, A \cup B) = SumOn(f, A) + SumOn(f, B)
      BY <3>9, SumUnion
    <3>7. SumOn(f, All(K)) = SumOn(f, M[c]) + SumOn(f, All(K \ {c}))
      BY <3>9, <3>10 DEF A, B
    <3>8. QED
      BY <3>2, <3>5, <3>6, <3>7
  <2>3. QED
    BY <2>1, <2>2
<1>2. SUBSET E \subseteq P
  <2>1. \A S \in SUBSET E :
          (\A T \in SUBSET E : Cardinality(T) < Cardinality(S) => T \in P) => S \in P
    BY <1>1
  <2> HIDE DEF P
  <2>2. QED
    BY <2>1, SmallerFirst
<1>3. QED
  BY <1>2

\* Induction from the last front down.
LEMMA FromAllLarger ==
  ASSUME NEW P, \A f \in Fronts : (\A g \in Fronts : f < g => g \in P) => f \in P
  PROVE  Fronts \subseteq P
<1> DEFINE Q == {k \in Nat : k < N => N - k \in P}
<1>1. ASSUME NEW n \in Nat, \A m \in Nat : m < n => m \in Q, n < N PROVE N - n \in P
  <2>1. N - n \in Fronts
    BY <1>1, FrontsAssumption DEF Fronts
  <2>2. ASSUME NEW g \in Fronts, N - n < g PROVE g \in P
    <3>1. N - g \in Nat /\ N - g < n /\ N - g < N /\ N - (N - g) = g
      BY <2>2, FrontsAssumption DEF Fronts
    <3>2. QED
      BY <3>1, <1>1
  <2>3. QED
    BY <2>1, <2>2
<1>2. Nat \subseteq Q
  <2>1. \A n \in Nat : (\A m \in Nat : m < n => m \in Q) => n \in Q
    BY <1>1
  <2> HIDE DEF Q
  <2>2. QED
    BY <2>1, FromAllSmaller
<1>3. ASSUME NEW f \in Fronts PROVE f \in P
  <2>1. N - f \in Nat /\ N - f < N /\ N - (N - f) = f
    BY FrontsAssumption DEF Fronts
  <2>2. QED
    BY <2>1, <1>2
<1>4. QED
  BY <1>3

\* Induction from the first front up.
LEMMA FromAllBelow ==
  ASSUME NEW P, \A f \in Fronts : (\A g \in Fronts : g < f => g \in P) => f \in P
  PROVE  Fronts \subseteq P
<1> DEFINE Q == {k \in Nat : k \in Fronts => k \in P}
<1>1. \A n \in Nat : (\A m \in Nat : m < n => m \in Q) => n \in Q
  BY DEF Fronts
<1>2. Nat \subseteq Q
  <2> HIDE DEF Q
  <2> QED BY <1>1, FromAllSmaller
<1>3. QED
  BY <1>2 DEF Fronts

\* The least of a set of numbers.
LEMMA MinIn == \A S \in SUBSET Nat : S # {} => Min(S) \in S /\ \A y \in S : Min(S) <= y
<1> SUFFICES ASSUME NEW S \in SUBSET Nat, S # {} PROVE Min(S) \in S /\ \A y \in S : Min(S) <= y
  OBVIOUS
<1>1. PICK n \in S : \A m \in S : ~(<<m, n>> \in OpToRel(<, Nat))
  BY NatLessThanWellFounded, WFMin
<1>2. \A m \in S : n <= m
  <2>1. TAKE m \in S
  <2>2. ~(m < n) /\ m \in Nat /\ n \in Nat
    BY <1>1 DEF OpToRel
  <2>3. QED
    BY <2>2
<1>3. QED
  BY <1>2 DEF Min

\* The fronts are finite.
LEMMA FrontsFinite == IsFiniteSet(Fronts) /\ Cardinality(Fronts) = N
BY FrontsAssumption, FS_Interval DEF Fronts

\* A tree of the scenarios.
Postordered(v) ==
  /\ v.work \in [Fronts -> Nat] /\ v.parent \in [Fronts -> 0..N]
  /\ \A f \in Fronts : v.parent[f] = 0 \/ v.parent[f] > f
  /\ \A f, g \in Fronts : f < g /\ g < v.parent[f] => v.parent[g] \in 1..v.parent[f]

\* A sequence of numbers with one more.
LEMMA AppendIs ==
  ASSUME NEW k \in Nat, NEW f \in [1..k -> Nat], NEW x \in Nat
  PROVE  /\ Append(f, x) \in [1..(k + 1) -> Nat] /\ Append(f, x)[k + 1] = x
         /\ \A i \in 1..k : Append(f, x)[i] = f[i]
<1>1. f \in Seq(Nat) /\ Len(f) = k
  OBVIOUS
<1>2. Append(f, x) \in Seq(Nat) /\ Len(Append(f, x)) = k + 1
  BY <1>1
<1>3. Append(f, x) \in [1..(k + 1) -> Nat]
  <2> DEFINE a == Append(f, x)
  <2>1. a \in Seq(Nat) /\ Len(a) = k + 1
    BY <1>2
  <2> HIDE DEF a
  <2>2. a \in [1..(k + 1) -> Nat]
    BY <2>1
  <2>3. QED
    BY <2>2 DEF a
<1>4. Append(f, x)[k + 1] = x
  BY <1>1
<1>5. \A i \in 1..k : Append(f, x)[i] = f[i]
  BY <1>1
<1>6. QED
  BY <1>3, <1>4, <1>5

\* A node has an index less than its parent's.
LEMMA ViewFacts ==
  ASSUME NEW v, Postordered(v)
  PROVE  /\ Len(v.work) = N /\ DOMAIN v.work = Fronts
         /\ \A s : KidsOf(v, s) \in SUBSET Fronts
         /\ \A s \in Fronts : KidsOf(v, s) \in SUBSET (1..(s - 1))
<1>1. v.work \in Seq(Nat) /\ Len(v.work) = N /\ DOMAIN v.work = Fronts
  BY FrontsAssumption DEF Postordered, Fronts
<1>2. ASSUME NEW s \in Fronts, NEW c \in KidsOf(v, s) PROVE c \in 1..(s - 1)
  <2>1. c \in Fronts /\ v.parent[c] = s
    BY <1>1, <1>2 DEF KidsOf
  <2>2. s > c
    BY <2>1 DEF Postordered, Fronts
  <2>3. QED
    BY <2>1, <2>2, FrontsAssumption DEF Fronts
<1>3. QED
  BY <1>1, <1>2 DEF KidsOf

\* The subtree sums of the first k fronts.
SumsTo(u, v, k) ==
  /\ u.first \in [1..k -> Nat] /\ u.work \in [1..k -> Nat]
  /\ \A s \in 1..k : /\ u.first[s] \in 1..s
                     /\ \A c \in KidsOf(v, s) : u.first[s] <= u.first[c]
                     /\ u.first[s] = s \/ \E c \in KidsOf(v, s) : u.first[s] = u.first[c]
                     /\ u.work[s] = v.work[s] + SumOn(u.work, KidsOf(v, s))

\* A turn of the loop adds the next front's.
LEMMA SumsNext ==
  ASSUME NEW v, Postordered(v), NEW k \in Nat, k + 1 \in Fronts, NEW u, SumsTo(u, v, k)
  PROVE  SumsTo(AddNode(v, u, k + 1), v, k + 1)
<1> DEFINE s == k + 1
           K == KidsOf(v, s)
           m == Min({s} \cup {u.first[c] : c \in K})
           w == v.work[s] + SumOn(u.work, K)
           e == AddNode(v, u, s)
<1>1. K \in SUBSET (1..k) /\ IsFiniteSet(1..k)
  <2>1. K \in SUBSET (1..(s - 1)) /\ s - 1 = k
    BY ViewFacts
  <2>2. QED
    BY <2>1, FS_Interval
<1>2. \A c \in 1..k : u.first[c] \in 1..c /\ u.first[c] \in Nat /\ u.work[c] \in Nat
  BY DEF SumsTo
<1>3. /\ m \in 1..s /\ \A c \in K : m <= u.first[c]
      /\ m = s \/ \E c \in K : m = u.first[c]
  <2> DEFINE S == {s} \cup {u.first[c] : c \in K}
  <2>1. S \in SUBSET Nat /\ s \in S /\ \A x \in S : x >= 1
    BY <1>1, <1>2
  <2>2. \A c \in K : u.first[c] \in S
    OBVIOUS
  <2>3. \A x \in S : x = s \/ \E c \in K : x = u.first[c]
    OBVIOUS
  <2> HIDE DEF S
  <2>4. Min(S) \in S /\ \A y \in S : Min(S) <= y
    BY <2>1, MinIn
  <2>7. Min(S) \in Nat /\ Min(S) >= 1 /\ Min(S) <= s
    BY <2>1, <2>4
  <2>5. Min(S) \in 1..s
    BY <2>7
  <2>6. QED
    BY <2>2, <2>3, <2>4, <2>5 DEF S
<1>4. w \in Nat
  <2>1. SumOn(u.work, K) \in Nat
    BY <1>1, <1>2, SumOne
  <2>2. v.work[s] \in Nat
    BY DEF Postordered
  <2>3. QED
    BY <2>1, <2>2
<1> HIDE DEF m, w
<1>5. e.first = Append(u.first, m) /\ e.work = Append(u.work, w)
  BY DEF AddNode, m, w, SumOn
<1>6. k \in Nat /\ u.first \in [1..k -> Nat] /\ m \in Nat
  BY <1>3 DEF SumsTo
<1>14. k \in Nat /\ u.work \in [1..k -> Nat] /\ w \in Nat
  BY <1>4 DEF SumsTo
<1> HIDE DEF e, K
<1>7. /\ e.first \in [1..s -> Nat] /\ e.first[s] = m /\ \A i \in 1..k : e.first[i] = u.first[i]
      /\ e.work \in [1..s -> Nat] /\ e.work[s] = w /\ \A i \in 1..k : e.work[i] = u.work[i]
  <2>1. /\ Append(u.first, m) \in [1..s -> Nat] /\ Append(u.first, m)[s] = m
        /\ \A i \in 1..k : Append(u.first, m)[i] = u.first[i]
    <3> DEFINE f == u.first
    <3>1. f \in [1..k -> Nat]
      BY <1>6
    <3> HIDE DEF f
    <3>2. /\ Append(f, m) \in [1..(k + 1) -> Nat] /\ Append(f, m)[k + 1] = m
          /\ \A i \in 1..k : Append(f, m)[i] = f[i]
      BY ONLY <1>6, <3>1, AppendIs
    <3>3. QED
      BY ONLY <3>2 DEF f
  <2>2. /\ Append(u.work, w) \in [1..s -> Nat] /\ Append(u.work, w)[s] = w
        /\ \A i \in 1..k : Append(u.work, w)[i] = u.work[i]
    <3> DEFINE f == u.work
    <3>1. f \in [1..k -> Nat]
      BY <1>14
    <3> HIDE DEF f
    <3>2. /\ Append(f, w) \in [1..(k + 1) -> Nat] /\ Append(f, w)[k + 1] = w
          /\ \A i \in 1..k : Append(f, w)[i] = f[i]
      BY ONLY <1>14, <3>1, AppendIs
    <3>3. QED
      BY ONLY <3>2 DEF f
  <2>3. QED
    BY <1>5, <2>1, <2>2
<1>8. \A S \in SUBSET (1..k) : SumOn(e.work, S) = SumOn(u.work, S)
  <2> DEFINE f == e.work
             g == u.work
  <2>1. \A x \in 1..k : f[x] = g[x]
    BY <1>7
  <2> HIDE DEF f, g
  <2>2. \A S \in SUBSET (1..k) : SumOn(f, S) = SumOn(g, S)
    BY <2>1, <1>1, SumSame
  <2>3. QED
    BY <2>2 DEF f, g
<1> DEFINE Fine(r) ==
      /\ e.first[r] \in 1..r
      /\ \A c \in KidsOf(v, r) : e.first[r] <= e.first[c]
      /\ e.first[r] = r \/ \E c \in KidsOf(v, r) : e.first[r] = e.first[c]
      /\ e.work[r] = v.work[r] + SumOn(e.work, KidsOf(v, r))
<1>9. Fine(s)
  <2>1. SumOn(e.work, K) = SumOn(u.work, K)
    BY <1>1, <1>8
  <2>2. \A c \in K : e.first[c] = u.first[c]
    BY <1>1, <1>7
  <2>3. e.work[s] = v.work[s] + SumOn(e.work, K)
    BY <2>1, <1>7 DEF w
  <2>4. QED
    BY <2>2, <2>3, <1>3, <1>7 DEF K
<1>10. ASSUME NEW r \in 1..k PROVE Fine(r)
  <2> DEFINE R == KidsOf(v, r)
  <2>1. R \in SUBSET (1..(r - 1))
    BY ViewFacts, FrontsAssumption DEF Fronts
  <2>2. R \in SUBSET (1..k)
    BY <2>1
  <2>3. SumOn(e.work, R) = SumOn(u.work, R)
    BY <2>2, <1>8
  <2>4. \A c \in R : e.first[c] = u.first[c]
    BY <2>2, <1>7
  <2>5. /\ u.first[r] \in 1..r
        /\ \A c \in R : u.first[r] <= u.first[c]
        /\ u.first[r] = r \/ \E c \in R : u.first[r] = u.first[c]
        /\ u.work[r] = v.work[r] + SumOn(u.work, R)
    BY DEF SumsTo
  <2> HIDE DEF R
  <2>6. e.first[r] = u.first[r] /\ e.work[r] = u.work[r]
    BY <1>7
  <2>7. QED
    BY <2>3, <2>4, <2>5, <2>6 DEF R
<1>11. \A r \in 1..s : r \in 1..k \/ r = s
  OBVIOUS
<1> HIDE DEF Fine
<1>12. \A r \in 1..s : Fine(r)
  BY <1>9, <1>10, <1>11
<1>13. QED
  BY <1>7, <1>12 DEF Fine, SumsTo, e

\* The subtree sums of a tree.
LEMMA SumsAll == ASSUME NEW v, Postordered(v) PROVE SumsTo(SubtreeSums(v), v, N)
<1>1. PICK G : SumsTurns(G, N, v) /\ SubtreeSums(v) = G[N]
  BY SumsUnrolled, ViewFacts, FrontsAssumption
<1> DEFINE Q == {k \in Nat : k <= N => SumsTo(G[k], v, k)}
<1>2. 0 \in Q
  <2>1. G[0] = [first |-> <<>>, work |-> <<>>]
    BY <1>1 DEF SumsTurns
  <2>2. <<>> \in [1..0 -> Nat] /\ 1..0 = {}
    OBVIOUS
  <2>3. SumsTo(G[0], v, 0)
    BY <2>1, <2>2 DEF SumsTo
  <2>4. QED
    BY <2>3
<1>3. ASSUME NEW k \in Q PROVE k + 1 \in Q
  <2>1. CASE k + 1 <= N
    <3>1. k \in Nat /\ k + 1 \in Fronts /\ k <= N /\ (k + 1) - 1 = k
      BY <2>1, FrontsAssumption DEF Fronts
    <3>2. G[k + 1] = AddNode(v, G[k], k + 1)
      BY <3>1, <1>1 DEF SumsTurns, Fronts
    <3>3. SumsTo(G[k], v, k)
      BY <3>1, <1>3
    <3>4. SumsTo(G[k + 1], v, k + 1)
      BY <3>1, <3>2, <3>3, SumsNext
    <3>5. QED
      BY <3>1, <3>4
  <2>2. CASE ~(k + 1 <= N)
    BY <2>2
  <2>3. QED
    BY <2>1, <2>2
<1>4. N \in Q
  <2>1. Q \in SUBSET Nat
    OBVIOUS
  <2> HIDE DEF Q
  <2> QED BY <2>1, <1>2, <1>3, Upwards, FrontsAssumption
<1>5. QED
  BY <1>1, <1>4, FrontsAssumption

-----------------------------------------------------------------------------
(* Subtrees                                                                *)

Tree(t) ==
  /\ Postordered(t.v) /\ SumsTo(t.u, t.v, N)
  /\ t.total = SumOn(t.u.work, KidsOf(t.v, 0))

\* The tree of a scenario's view.
LEMMA TreeIs == ASSUME NEW v, Postordered(v) PROVE Tree(TreeOf(v)) /\ TreeOf(v).v = v
BY SumsAll DEF Tree, TreeOf, TreeWith, SumOn

\* The fronts of the subtree under s, by its interval.
Sub(t, s) == t.u.first[s]..s

\* Every subtree is an interval that ends with its root.
LEMMA TreeFacts ==
  ASSUME NEW t, Tree(t)
  PROVE  /\ t.v.work \in [Fronts -> Nat] /\ t.u.work \in [Fronts -> Nat]
         /\ Len(t.v.work) = N /\ DOMAIN t.v.work = Fronts
         /\ \A s \in Fronts : /\ t.u.first[s] \in 1..s /\ Sub(t, s) \in SUBSET Fronts
                              /\ s \in Sub(t, s) /\ t.v.parent[s] \in 0..N
                              /\ t.v.parent[s] = 0 \/ (t.v.parent[s] \in Fronts /\ t.v.parent[s] > s)
         /\ \A c, s \in Fronts : c \in KidsOf(t.v, s) <=> t.v.parent[c] = s
         /\ \A c, s \in Fronts : t.v.parent[c] = s => c < s /\ t.u.first[s] <= t.u.first[c]
<1>1. Postordered(t.v) /\ SumsTo(t.u, t.v, N)
  BY DEF Tree
<1>2. Len(t.v.work) = N /\ DOMAIN t.v.work = Fronts
  BY <1>1, ViewFacts
<1>3. t.v.work \in [Fronts -> Nat] /\ t.u.work \in [Fronts -> Nat]
  BY <1>1 DEF Postordered, SumsTo, Fronts
<1>4. ASSUME NEW s \in Fronts
      PROVE  /\ t.u.first[s] \in 1..s /\ Sub(t, s) \in SUBSET Fronts
             /\ s \in Sub(t, s)
  <2>1. t.u.first[s] \in 1..s
    BY <1>1 DEF SumsTo, Fronts
  <2>2. QED
    BY <2>1, FrontsAssumption DEF Sub, Fronts
<1>5. ASSUME NEW s \in Fronts
      PROVE  /\ t.v.parent[s] \in 0..N
             /\ t.v.parent[s] = 0 \/ (t.v.parent[s] \in Fronts /\ t.v.parent[s] > s)
  <2>1. t.v.parent[s] \in 0..N /\ (t.v.parent[s] = 0 \/ t.v.parent[s] > s)
    BY <1>1 DEF Postordered
  <2>2. QED
    BY <2>1, FrontsAssumption DEF Fronts
<1>6. \A c, s \in Fronts : c \in KidsOf(t.v, s) <=> t.v.parent[c] = s
  BY <1>2 DEF KidsOf
<1>7. ASSUME NEW c \in Fronts, NEW s \in Fronts, t.v.parent[c] = s
      PROVE  c < s /\ t.u.first[s] <= t.u.first[c]
  <2>1. c \in KidsOf(t.v, s)
    BY <1>6, <1>7
  <2>2. \A d \in KidsOf(t.v, s) : t.u.first[s] <= t.u.first[d]
    BY <1>1 DEF SumsTo, Fronts
  <2>3. c < s
    BY <1>5, <1>7 DEF Fronts
  <2>4. QED
    BY <2>1, <2>2, <2>3
<1>8. QED
  BY <1>2, <1>3, <1>4, <1>5, <1>6, <1>7

\* Below its last front, a subtree is left for a parent in it.
LEMMA ParentIn ==
  ASSUME NEW t, Tree(t), NEW s \in Fronts, NEW f \in Sub(t, s), f # s
  PROVE  f \in Fronts /\ t.v.parent[f] \in Sub(t, s) /\ t.v.parent[f] > f /\ t.v.parent[f] \in Fronts
<1> DEFINE p(g) == t.v.parent[g]
           fst(g) == t.u.first[g]
           P == {r \in Fronts : \A g \in fst(r)..r : g # r => p(g) > g /\ p(g) <= r}
<1>1. ASSUME NEW r \in Fronts, \A q \in Fronts : q < r => q \in P, NEW g \in fst(r)..r, g # r
      PROVE  p(g) > g /\ p(g) <= r
  <2>1. fst(r) \in 1..r
    BY TreeFacts
  <2>2. fst(r) # r /\ r \in 1..N
    BY <1>1, <2>1 DEF Fronts
  <2>3. PICK c \in KidsOf(t.v, r) : fst(r) = fst(c)
    BY <2>2 DEF Tree, SumsTo
  <2>4. c \in Fronts /\ c < r /\ p(c) = r
    <3>1. c \in Fronts
      BY <2>3, ViewFacts DEF Tree
    <3>2. QED
      BY <2>3, <3>1, TreeFacts
  <2>5. g \in Fronts
    BY <2>1, <2>2, FrontsAssumption DEF Fronts
  <2>6. CASE g < c
    <3>1. g \in fst(c)..c /\ g # c
      BY <2>1, <2>3, <2>4, <2>6 DEF Fronts
    <3>2. p(g) > g /\ p(g) <= c
      BY <1>1, <2>4, <3>1
    <3>3. p(g) \in Int
      BY <2>5, TreeFacts
    <3>4. QED
      BY <2>4, <3>2, <3>3 DEF Fronts
  <2>7. CASE g = c
    BY <2>4, <2>7 DEF Fronts
  <2>8. CASE c < g
    <3>1. g < r
      BY <1>1, <2>1, <2>2, <2>5 DEF Fronts
    <3>2. p(g) \in 1..r
      <4>1. \A a, b \in Fronts : a < b /\ b < p(a) => p(b) \in 1..p(a)
        BY DEF Tree, Postordered
      <4> HIDE DEF p
      <4>2. QED
        BY <4>1, <3>1, <2>4, <2>5, <2>8
    <3>3. p(g) > g
      BY <2>5, <3>2, TreeFacts DEF Fronts
    <3>4. QED
      BY <3>2, <3>3
  <2>9. QED
    BY <2>4, <2>5, <2>6, <2>7, <2>8 DEF Fronts
<1>2. Fronts \subseteq P
  <2>1. \A r \in Fronts : (\A q \in Fronts : q < r => q \in P) => r \in P
    BY <1>1
  <2> HIDE DEF P
  <2>2. QED
    BY <2>1, FromAllBelow
<1>3. p(f) > f /\ p(f) <= s
  BY <1>2 DEF Sub
<1>4. f \in Fronts /\ p(f) \in 0..N /\ fst(s) \in 1..s /\ s \in 1..N
  BY TreeFacts DEF Fronts
<1>5. f >= fst(s) /\ f \in 1..N
  BY <1>4 DEF Sub, Fronts
<1> HIDE DEF p, fst
<1>6. p(f) \in fst(s)..s /\ p(f) \in 1..N
  BY <1>3, <1>4, <1>5, FrontsAssumption
<1>7. QED
  BY <1>3, <1>4, <1>6 DEF p, fst, Sub, Fronts

\* The subtree of a front of a subtree is in it.
LEMMA Nested ==
  ASSUME NEW t, Tree(t), NEW s \in Fronts
  PROVE  \A f \in Sub(t, s) : f \in Fronts /\ t.u.first[s] <= t.u.first[f] /\ Sub(t, f) \subseteq Sub(t, s)
<1> DEFINE P == {f \in Fronts : f \in Sub(t, s) => t.u.first[s] <= t.u.first[f]}
<1>1. ASSUME NEW f \in Fronts, \A g \in Fronts : f < g => g \in P, f \in Sub(t, s)
      PROVE  t.u.first[s] <= t.u.first[f]
  <2>1. t.u.first[f] \in 1..f /\ t.u.first[s] \in 1..s
    BY TreeFacts
  <2>2. CASE f = s
    BY <2>1, <2>2
  <2>3. CASE f # s
    <3> DEFINE q == t.v.parent[f]
    <3>1. q \in Fronts /\ q \in Sub(t, s) /\ f < q
      BY <1>1, <2>3, ParentIn DEF Fronts
    <3>2. t.u.first[s] <= t.u.first[q] /\ t.u.first[q] \in 1..q
      BY <1>1, <3>1, TreeFacts
    <3>3. t.u.first[q] <= t.u.first[f]
      BY <3>1, TreeFacts
    <3>4. QED
      BY <2>1, <3>2, <3>3
  <2>4. QED
    BY <2>2, <2>3
<1>2. Fronts \subseteq P
  <2>1. \A f \in Fronts : (\A g \in Fronts : f < g => g \in P) => f \in P
    BY <1>1
  <2> HIDE DEF P
  <2>2. QED
    BY <2>1, FromAllLarger
<1>3. ASSUME NEW f \in Sub(t, s)
      PROVE f \in Fronts /\ t.u.first[s] <= t.u.first[f] /\ Sub(t, f) \subseteq Sub(t, s)
  <2>1. f \in Fronts
    BY TreeFacts
  <2>2. t.u.first[s] <= t.u.first[f] /\ t.u.first[f] \in 1..f /\ t.u.first[s] \in 1..s
    BY <1>2, <2>1, TreeFacts
  <2>3. f <= s /\ f \in Int /\ s \in Int
    BY <2>1, <2>2 DEF Sub, Fronts
  <2>4. QED
    BY <2>1, <2>2, <2>3 DEF Sub
<1>4. QED
  BY <1>3

\* A child's subtree is in its parent's; a front below s is under a child of s.
LEMMA UnderKid ==
  ASSUME NEW t, Tree(t), NEW s \in Fronts
  PROVE  \A f \in Fronts : f \in Sub(t, s) <=> f = s \/ \E c \in KidsOf(t.v, s) : f \in Sub(t, c)
<1> DEFINE P == {f \in Fronts : f \in Sub(t, s) => f = s \/ \E c \in KidsOf(t.v, s) : f \in Sub(t, c)}
<1>1. ASSUME NEW f \in Fronts, \A g \in Fronts : f < g => g \in P, f \in Sub(t, s), f # s
      PROVE  \E c \in KidsOf(t.v, s) : f \in Sub(t, c)
  <2> DEFINE q == t.v.parent[f]
  <2>1. q \in Fronts /\ q \in Sub(t, s) /\ f < q
    BY <1>1, ParentIn DEF Fronts
  <2>2. CASE q = s
    BY <2>2, TreeFacts
  <2>3. CASE q # s
    <3>1. PICK c \in KidsOf(t.v, s) : q \in Sub(t, c)
      BY <1>1, <2>1, <2>3
    <3>2. c \in Fronts
      BY <3>1, ViewFacts DEF Tree
    <3>3. t.u.first[c] <= t.u.first[q]
      BY <3>1, <3>2, Nested
    <3>4. t.u.first[q] <= t.u.first[f]
      BY <2>1, TreeFacts
    <3>5. t.u.first[f] \in 1..f /\ t.u.first[q] \in 1..q /\ t.u.first[c] \in 1..c
      BY <2>1, <3>2, TreeFacts
    <3>6. q <= c /\ c \in Int /\ f \in Int /\ q \in Int
      BY <3>1, <3>2, <2>1, <3>5 DEF Sub, Fronts
    <3>7. f \in Sub(t, c)
      BY <2>1, <3>3, <3>4, <3>5, <3>6 DEF Sub
    <3>8. QED
      BY <3>7
  <2>4. QED
    BY <2>2, <2>3
<1>2. Fronts \subseteq P
  <2>1. \A f \in Fronts : (\A g \in Fronts : f < g => g \in P) => f \in P
    BY <1>1
  <2> HIDE DEF P
  <2>2. QED
    BY <2>1, FromAllLarger
<1>3. ASSUME NEW c \in KidsOf(t.v, s) PROVE Sub(t, c) \subseteq Sub(t, s)
  <2>1. c \in Fronts /\ t.v.parent[c] = s
    <3>1. c \in Fronts
      BY <1>3, ViewFacts DEF Tree
    <3>2. QED
      BY <1>3, <3>1, TreeFacts
  <2>2. c < s /\ t.u.first[s] <= t.u.first[c] /\ t.u.first[s] \in 1..s /\ t.u.first[c] \in 1..c
    BY <2>1, TreeFacts
  <2>3. c \in Int /\ s \in Int
    BY <2>1 DEF Fronts
  <2>4. QED
    BY <2>2, <2>3 DEF Sub
<1>4. s \in Sub(t, s)
  BY TreeFacts
<1>5. QED
  BY <1>2, <1>3, <1>4

\* Every front is under a root.
LEMMA UnderRoot ==
  ASSUME NEW t, Tree(t) PROVE \A f \in Fronts : \E c \in KidsOf(t.v, 0) : f \in Sub(t, c)
<1> DEFINE P == {f \in Fronts : \E c \in KidsOf(t.v, 0) : f \in Sub(t, c)}
<1>1. ASSUME NEW f \in Fronts, \A g \in Fronts : f < g => g \in P
      PROVE  \E c \in KidsOf(t.v, 0) : f \in Sub(t, c)
  <2> DEFINE q == t.v.parent[f]
  <2>1. CASE q = 0
    BY <2>1, TreeFacts DEF KidsOf
  <2>2. CASE q # 0
    <3>0. q \in Fronts /\ f < q
      BY <2>2, TreeFacts DEF Fronts
    <3>1. PICK c \in KidsOf(t.v, 0) : q \in Sub(t, c)
      BY <1>1, <3>0
    <3>2. c \in Fronts
      BY <3>1, ViewFacts DEF Tree
    <3>3. Sub(t, q) \subseteq Sub(t, c)
      BY <3>1, <3>2, Nested
    <3>4. f \in Sub(t, q)
      <4>1. f \in KidsOf(t.v, q) /\ f \in Sub(t, f)
        BY <3>0, TreeFacts
      <4>2. QED
        BY <3>0, <4>1, UnderKid
    <3>5. QED
      BY <3>3, <3>4
  <2>4. QED
    BY <2>1, <2>2
<1>2. Fronts \subseteq P
  <2>1. \A f \in Fronts : (\A g \in Fronts : f < g => g \in P) => f \in P
    BY <1>1
  <2> HIDE DEF P
  <2>2. QED
    BY <2>1, FromAllLarger
<1>3. QED
  BY <1>2

\* Two subtrees are apart, when neither last front is in the other.
LEMMA SubsApart ==
  ASSUME NEW t, Tree(t), NEW r \in Fronts, NEW s \in Fronts, r \notin Sub(t, s), s \notin Sub(t, r)
  PROVE  Sub(t, r) \cap Sub(t, s) = {} /\ (r < s => r < t.u.first[s])
<1>1. t.u.first[r] \in 1..r /\ t.u.first[s] \in 1..s /\ r \in Int /\ s \in Int
  BY TreeFacts DEF Fronts
<1>2. QED
  BY <1>1 DEF Sub

\* The children of a node, or the roots.
LEMMA KidsApart ==
  ASSUME NEW t, Tree(t), NEW p
  PROVE  \A c, d \in KidsOf(t.v, p) : c # d => Sub(t, c) \cap Sub(t, d) = {}
<1>1. ASSUME NEW c \in KidsOf(t.v, p), NEW d \in KidsOf(t.v, p), c # d PROVE c \notin Sub(t, d)
  <2>1. c \in Fronts /\ d \in Fronts
    BY ViewFacts DEF Tree
  <2>2. t.v.parent[c] = p /\ t.v.parent[d] = p
    BY DEF KidsOf
  <2>3. ASSUME c \in Sub(t, d) PROVE FALSE
    <3>1. p \in Sub(t, d) /\ p \in Fronts
      BY <1>1, <2>1, <2>2, <2>3, ParentIn
    <3>2. d < p
      BY <2>1, <2>2, <3>1, TreeFacts
    <3>3. t.u.first[d] \in 1..d
      BY <2>1, TreeFacts
    <3>4. QED
      BY <2>1, <3>1, <3>2, <3>3 DEF Sub, Fronts
  <2>4. QED
    BY <2>3
<1>2. QED
  <2>1. \A c \in KidsOf(t.v, p) : c \in Fronts
    BY ViewFacts DEF Tree
  <2>2. QED
    BY <1>1, <2>1, SubsApart

\* The work of the fronts of a set.
WorkIn(t, S) == SumOn(t.v.work, S)

\* The subtree sums are the sums over the subtrees.
LEMMA SubWork ==
  ASSUME NEW t, Tree(t) PROVE \A s \in Fronts : t.u.work[s] = WorkIn(t, Sub(t, s))
<1> DEFINE P == {s \in Fronts : t.u.work[s] = WorkIn(t, Sub(t, s))}
           M == [s \in Fronts |-> Sub(t, s)]
<1>0. (\A x \in Fronts : t.v.work[x] \in Nat) /\ \A c \in Fronts : M[c] = Sub(t, c) /\ M[c] \in SUBSET Fronts
  BY TreeFacts
<1> HIDE DEF M
<1>1. ASSUME NEW s \in Fronts, \A g \in Fronts : g < s => g \in P
      PROVE  t.u.work[s] = WorkIn(t, Sub(t, s))
  <2> DEFINE K == KidsOf(t.v, s)
             w == t.u.work
             f == t.v.work
  <2>1. K \in SUBSET Fronts /\ IsFiniteSet(K) /\ \A c \in K : c < s
    <3>1. K \in SUBSET Fronts /\ K \in SUBSET (1..(s - 1))
      BY ViewFacts DEF Tree
    <3>2. \A c \in K : c < s
      BY <3>1 DEF Fronts
    <3>3. QED
      BY <3>1, <3>2, FrontsFinite, FS_Subset
  <2>2. \A c \in K : M[c] \in SUBSET Fronts /\ w[c] = SumOn(f, M[c])
    BY <1>0, <1>1, <2>1 DEF WorkIn
  <2>3. \A c, d \in K : c # d => M[c] \cap M[d] = {}
    BY <1>0, <2>1, KidsApart
  <2>4. w[s] = f[s] + SumOn(w, K)
    BY DEF Tree, SumsTo, Fronts
  <2>5. \A x \in Fronts : f[x] \in Nat
    BY <1>0
  <2>6. s \notin UNION {M[c] : c \in K} /\ {s} \cup UNION {M[c] : c \in K} = Sub(t, s)
    <3>1. \A c \in K : s \notin M[c]
      <4>1. TAKE c \in K
      <4>2. c \in Fronts /\ c < s /\ M[c] = Sub(t, c)
        BY <1>0, <2>1
      <4>3. \A g \in Sub(t, c) : g <= c
        BY <4>2 DEF Sub
      <4>4. c \in Int /\ s \in Int
        BY <4>2 DEF Fronts
      <4>5. QED
        BY <4>2, <4>3, <4>4
    <3>2. \A g \in Fronts : g \in Sub(t, s) <=> g = s \/ \E c \in K : g \in M[c]
      <4>1. \A g \in Fronts : g \in Sub(t, s) <=> g = s \/ \E c \in K : g \in Sub(t, c)
        BY UnderKid
      <4> HIDE DEF K
      <4>2. QED
        BY <4>1, <1>0, <2>1
    <3>3. Sub(t, s) \in SUBSET Fronts /\ \A c \in K : M[c] \in SUBSET Fronts
      BY <1>0, <2>1
    <3> HIDE DEF K
    <3>4. QED
      BY <3>1, <3>2, <3>3
  <2> HIDE DEF K, w, f
  <2>7. SumOn(w, K) = SumOn(f, UNION {M[c] : c \in K})
    BY <2>1, <2>2, <2>3, <2>5, FrontsFinite, SumFamily
  <2> DEFINE U == UNION {M[c] : c \in K}
  <2>8. U = Sub(t, s) \ {s} /\ s \in Sub(t, s) /\ Sub(t, s) \in SUBSET Fronts
    BY <2>6, TreeFacts
  <2>9. SumOn(f, Sub(t, s)) = f[s] + SumOn(f, Sub(t, s) \ {s})
    BY <2>5, <2>8, FrontsFinite, SumOne
  <2>10. QED
    BY <2>4, <2>7, <2>8, <2>9 DEF w, f, WorkIn
<1>2. Fronts \subseteq P
  <2>1. \A s \in Fronts : (\A g \in Fronts : g < s => g \in P) => s \in P
    BY <1>1
  <2> HIDE DEF P
  <2>2. QED
    BY <2>1, FromAllBelow
<1>3. QED
  BY <1>2

\* The total is the work of all fronts.
LEMMA TotalIs == ASSUME NEW t, Tree(t) PROVE t.total = WorkIn(t, Fronts) /\ t.total \in Nat
<1> DEFINE M == [s \in Fronts |-> Sub(t, s)]
           K == KidsOf(t.v, 0)
           w == t.u.work
           f == t.v.work
<1>1. /\ \A x \in Fronts : f[x] \in Nat
      /\ \A c \in Fronts : M[c] = Sub(t, c) /\ M[c] \in SUBSET Fronts /\ w[c] = SumOn(f, M[c])
  BY TreeFacts, SubWork DEF WorkIn
<1>2. K \in SUBSET Fronts /\ IsFiniteSet(K)
  BY ViewFacts, FrontsFinite, FS_Subset DEF Tree
<1>3. \A c, d \in K : c # d => Sub(t, c) \cap Sub(t, d) = {}
  BY KidsApart
<1>4. \A g \in Fronts : \E c \in K : g \in Sub(t, c)
  BY UnderRoot
<1>5. t.total = SumOn(w, K)
  BY DEF Tree
<1> HIDE DEF M, K, w, f
<1>6. UNION {M[c] : c \in K} = Fronts
  BY <1>1, <1>2, <1>4
<1>7. \A c, d \in K : c # d => M[c] \cap M[d] = {}
  BY <1>1, <1>2, <1>3
<1>8. SumOn(w, K) = SumOn(f, UNION {M[c] : c \in K})
  BY <1>1, <1>2, <1>7, FrontsFinite, SumFamily
<1>9. t.total = SumOn(f, Fronts)
  BY <1>5, <1>6, <1>8
<1>10. SumOn(f, Fronts) \in Nat
  BY <1>1, FrontsFinite, SumOne
<1>11. QED
  BY <1>9, <1>10 DEF f, WorkIn

\* A subtree in another is no heavier.
LEMMA SubLighter ==
  ASSUME NEW t, Tree(t), NEW s \in Fronts, NEW f \in Sub(t, s) PROVE t.u.work[f] <= t.u.work[s]
<1>1. f \in Fronts /\ Sub(t, f) \subseteq Sub(t, s) /\ Sub(t, s) \in SUBSET Fronts
  BY Nested, TreeFacts
<1>2. \A x \in Fronts : t.v.work[x] \in Nat
  BY TreeFacts
<1>3. SumOn(t.v.work, Sub(t, f)) <= SumOn(t.v.work, Sub(t, s))
  BY <1>1, <1>2, FrontsFinite, SumPart
<1>4. QED
  BY <1>1, <1>3, SubWork DEF WorkIn

-----------------------------------------------------------------------------
(* Sets in an order                                                        *)

Lower(S, R, r) == {q \in S : <<q, r>> \in R}

\* R orders S.
Orders(R, S) ==
  /\ \A r \in S : <<r, r>> \notin R
  /\ \A r, s \in S : r # s => <<r, s>> \in R \/ <<s, r>> \in R
  /\ \A q, r, s \in S : <<q, r>> \in R /\ <<r, s>> \in R => <<q, s>> \in R

\* q lists the elements of S, each once.
Lists(q, S) ==
  /\ q \in [1..Cardinality(S) -> S]
  /\ \A i, j \in 1..Cardinality(S) : q[i] = q[j] => i = j
  /\ \A r \in S : \E i \in 1..Cardinality(S) : q[i] = r

\* q has at each place the element that many come before.
ByRank(q, S, R) ==
  /\ DOMAIN q = 1..Cardinality(S) /\ q = [i \in DOMAIN q |-> q[i]]
  /\ \A i \in DOMAIN q : q[i] \in S /\ Cardinality(Lower(S, R, q[i])) = i - 1

\* The ranks of the elements list them.
LEMMA RanksList ==
  ASSUME NEW S, IsFiniteSet(S), NEW R, Orders(R, S)
  PROVE  /\ \A i \in 1..Cardinality(S) : \E r \in S : Cardinality(Lower(S, R, r)) = i - 1
         /\ \A q : ByRank(q, S, R) => Lists(q, S)
<1> DEFINE n == Cardinality(S)
           rank == [r \in S |-> Cardinality(Lower(S, R, r))]
<1>1. n \in Nat
  BY FS_CardinalityType
<1>2. ASSUME NEW r \in S PROVE rank[r] \in 0..(n - 1)
  <2>1. Lower(S, R, r) \in SUBSET (S \ {r}) /\ S \ {r} \in SUBSET S
    BY DEF Lower, Orders
  <2>2. IsFiniteSet(S \ {r}) /\ Cardinality(S \ {r}) = n - 1
    BY FS_RemoveElement
  <2>3. IsFiniteSet(Lower(S, R, r)) /\ Cardinality(Lower(S, R, r)) <= Cardinality(S \ {r})
    BY <2>1, <2>2, FS_Subset
  <2>4. Cardinality(Lower(S, R, r)) \in Nat
    BY <2>3, FS_CardinalityType
  <2>5. QED
    BY <1>1, <2>2, <2>3, <2>4
<1>3. ASSUME NEW r \in S, NEW s \in S, <<r, s>> \in R PROVE rank[r] < rank[s]
  <2>1. Lower(S, R, r) \in SUBSET Lower(S, R, s) /\ r \in Lower(S, R, s) /\ r \notin Lower(S, R, r)
    BY <1>3 DEF Lower, Orders
  <2>2. IsFiniteSet(Lower(S, R, s))
    BY FS_Subset DEF Lower
  <2>3. Lower(S, R, r) \in SUBSET (Lower(S, R, s) \ {r})
    BY <2>1
  <2>4. IsFiniteSet(Lower(S, R, s) \ {r}) /\ Cardinality(Lower(S, R, s) \ {r}) = Cardinality(Lower(S, R, s)) - 1
    BY <2>1, <2>2, FS_RemoveElement
  <2>5. Cardinality(Lower(S, R, r)) <= Cardinality(Lower(S, R, s) \ {r})
    BY <2>3, <2>4, FS_Subset
  <2>6. rank[r] \in Int /\ rank[s] \in Int
    BY <1>2
  <2>7. QED
    BY <2>4, <2>5, <2>6
<1> HIDE DEF rank
<1>4. ASSUME NEW r \in S, NEW s \in S, rank[r] = rank[s] PROVE r = s
  <2>1. r # s => rank[r] < rank[s] \/ rank[s] < rank[r]
    BY <1>3 DEF Orders
  <2>2. rank[r] \in Int /\ rank[s] \in Int
    BY <1>2
  <2>3. QED
    BY <2>1, <2>2, <1>4
<1>5. rank \in Injection(S, 0..(n - 1))
  <2>1. rank \in [S -> 0..(n - 1)]
    BY <1>2 DEF rank
  <2>2. QED
    BY <2>1, <1>4 DEF Injection, IsInjective
<1>6. \A k \in 0..(n - 1) : \E r \in S : rank[r] = k
  <2>1. IsFiniteSet(0..(n - 1)) /\ Cardinality(0..(n - 1)) = n
    <3>1. 0 \in Int /\ n - 1 \in Int
      BY <1>1
    <3>2. IsFiniteSet(0..(n - 1)) /\ Cardinality(0..(n - 1)) = IF 0 > n - 1 THEN 0 ELSE (n - 1) - 0 + 1
      BY <3>1, FS_Interval
    <3>3. (IF 0 > n - 1 THEN 0 ELSE (n - 1) - 0 + 1) = n
      BY <1>1
    <3>4. QED
      BY <3>2, <3>3
  <2> DEFINE D == 0..(n - 1)
  <2>2. rank \in Injection(S, D) /\ IsFiniteSet(D) /\ Cardinality(S) = Cardinality(D)
    BY <1>5, <2>1
  <2> HIDE DEF D, n
  <2>3. rank \in Surjection(S, D)
    BY <2>2, FS_Injection
  <2>4. QED
    BY <2>3 DEF Surjection, D
<1>7. ASSUME NEW i \in 1..n PROVE \E r \in S : Cardinality(Lower(S, R, r)) = i - 1
  <2>1. i - 1 \in 0..(n - 1)
    BY <1>1
  <2>2. QED
    BY <2>1, <1>6 DEF rank
<1>8. ASSUME NEW q, ByRank(q, S, R) PROVE Lists(q, S)
  <2>0. \A i \in 1..n : q[i] \in S /\ rank[q[i]] = i - 1
    BY <1>8 DEF rank, ByRank
  <2>1. q \in [1..n -> S]
    BY <1>8 DEF ByRank
  <2>2. ASSUME NEW i \in 1..n, NEW j \in 1..n, q[i] = q[j] PROVE i = j
    <3>1. i - 1 = j - 1
      BY <2>0, <2>2
    <3>2. QED
      BY <3>1, <1>1
  <2>3. ASSUME NEW r \in S PROVE \E i \in 1..n : q[i] = r
    <3>1. rank[r] \in 0..(n - 1)
      BY <1>2 DEF rank
    <3>2. rank[r] + 1 \in 1..n /\ (rank[r] + 1) - 1 = rank[r]
      BY <3>1, <1>1
    <3>3. q[rank[r] + 1] \in S /\ rank[q[rank[r] + 1]] = rank[r]
      BY <2>0, <3>2
    <3>4. QED
      BY <3>2, <3>3, <1>4
  <2>4. QED
    BY <2>1, <2>2, <2>3 DEF Lists
<1>9. QED
  BY <1>7, <1>8

\* The heap's order on fronts.
AboveSet(t) == {x \in Fronts \X Fronts : HeapAbove(t, x[1], x[2])}

\* The heap's order is total, by the work.
LEMMA AboveOrders ==
  ASSUME NEW t, Tree(t)
  PROVE  /\ \A r \in Fronts : ~HeapAbove(t, r, r)
         /\ \A r, s \in Fronts : r # s => HeapAbove(t, r, s) \/ HeapAbove(t, s, r)
         /\ \A q, r, s \in Fronts : HeapAbove(t, q, r) /\ HeapAbove(t, r, s) => HeapAbove(t, q, s)
         /\ \A r, s \in Fronts : HeapAbove(t, r, s) => t.u.work[s] <= t.u.work[r]
<1> DEFINE w == t.u.work
<1>1. \A s \in Fronts : w[s] \in Int /\ s \in Int
  BY TreeFacts DEF Fronts
<1>2. \A r, s \in Fronts : HeapAbove(t, r, s) <=> w[r] > w[s] \/ (w[r] = w[s] /\ r > s)
  BY DEF HeapAbove
<1> HIDE DEF w
<1>3. /\ \A r \in Fronts : ~HeapAbove(t, r, r)
      /\ \A r, s \in Fronts : r # s => HeapAbove(t, r, s) \/ HeapAbove(t, s, r)
  BY <1>1, <1>2
<1>4. \A q, r, s \in Fronts : HeapAbove(t, q, r) /\ HeapAbove(t, r, s) => HeapAbove(t, q, s)
  BY <1>1, <1>2
<1>5. \A r, s \in Fronts : HeapAbove(t, r, s) => w[s] <= w[r]
  BY <1>1, <1>2
<1>6. QED
  BY <1>3, <1>4, <1>5 DEF w

\* The order, as a set of pairs.
LEMMA AboveSetOrders ==
  ASSUME NEW t, Tree(t), NEW S \in SUBSET Fronts PROVE Orders(AboveSet(t), S)
BY AboveOrders DEF AboveSet, Orders

\* The heaviest of the heap.
LEMMA HeapTopIs ==
  ASSUME NEW t, Tree(t)
  PROVE  \A heap \in SUBSET Fronts :
           heap # {} => /\ HeapTop(t, heap) \in heap
                        /\ \A r \in heap \ {HeapTop(t, heap)} : HeapAbove(t, HeapTop(t, heap), r)
<1> DEFINE Has(S) == \E s \in S : \A r \in S \ {s} : HeapAbove(t, s, r)
           P == {S \in SUBSET Fronts : S # {} => Has(S)}
<1>1. ASSUME NEW S \in SUBSET Fronts, \A Q \in SUBSET Fronts : Cardinality(Q) < Cardinality(S) => Q \in P,
             S # {}
      PROVE  Has(S)
  <2>1. PICK x \in S : TRUE
    BY <1>1
  <2>2. S \ {x} \in P
    BY CardFacts, FrontsFinite, <1>1
  <2>3. CASE S \ {x} = {}
    BY <2>3
  <2>4. CASE S \ {x} # {}
    <3>1. PICK s \in S \ {x} : \A r \in (S \ {x}) \ {s} : HeapAbove(t, s, r)
      BY <2>2, <2>4
    <3>2. CASE HeapAbove(t, s, x)
      <4>1. \A r \in S \ {s} : HeapAbove(t, s, r)
        BY <3>1, <3>2
      <4>2. QED
        BY <4>1
    <3>3. CASE HeapAbove(t, x, s)
      <4>1. ASSUME NEW r \in S \ {x} PROVE HeapAbove(t, x, r)
        <5>1. x \in Fronts /\ s \in Fronts /\ r \in Fronts
          OBVIOUS
        <5>2. r = s \/ HeapAbove(t, s, r)
          BY <3>1
        <5>3. QED
          BY <5>1, <5>2, <3>3, AboveOrders
      <4>2. QED
        BY <4>1
    <3>4. QED
      <4>1. x \in Fronts /\ s \in Fronts /\ s # x
        BY <2>1
      <4>2. QED
        BY <4>1, <3>2, <3>3, AboveOrders
  <2>5. QED
    BY <2>3, <2>4
<1>2. SUBSET Fronts \subseteq P
  <2>1. \A S \in SUBSET Fronts :
          (\A Q \in SUBSET Fronts : Cardinality(Q) < Cardinality(S) => Q \in P) => S \in P
    BY <1>1
  <2> HIDE DEF P
  <2>2. QED
    BY <2>1, FrontsFinite, SmallerFirst
<1>3. ASSUME NEW heap \in SUBSET Fronts, heap # {}
      PROVE  /\ HeapTop(t, heap) \in heap
             /\ \A r \in heap \ {HeapTop(t, heap)} : HeapAbove(t, HeapTop(t, heap), r)
  <2>1. \E s \in heap : \A r \in heap \ {s} : HeapAbove(t, s, r)
    BY <1>2, <1>3
  <2>2. QED
    BY <2>1 DEF HeapTop
<1>4. QED
  BY <1>3

-----------------------------------------------------------------------------
(* Heavy nodes                                                             *)

\* A factor keeps the order.
LEMMA TimesMore ==
  ASSUME NEW c \in Nat, NEW a \in Nat, NEW b \in Nat, a <= b PROVE c * a <= c * b
<1>1. PICK d \in Nat : b = a + d
  <2>1. b - a \in Nat /\ b = a + (b - a)
    OBVIOUS
  <2>2. QED
    BY <2>1
<1>2. c * b = c * a + c * d /\ c * a \in Nat /\ c * d \in Nat
  BY <1>1
<1>3. QED
  BY <1>2

\* What is no lighter than a heavy node is heavy.
LEMMA HeavyMore ==
  ASSUME NEW t, Tree(t), NEW T \in Nat, NEW s \in Fronts, NEW f \in Fronts, Heavy(t, T, f),
         t.u.work[f] <= t.u.work[s]
  PROVE  Heavy(t, T, s)
<1> DEFINE c == PartsPerThread * T
<1>1. c \in Nat
  BY PlanAssumption
<1>2. t.u.work[f] \in Nat /\ t.u.work[s] \in Nat
  BY TreeFacts
<1>3. c * t.u.work[f] > t.total
  BY DEF Heavy
<1> HIDE DEF c
<1> DEFINE a == t.u.work[f]
           b == t.u.work[s]
<1>4. a \in Nat /\ b \in Nat /\ a <= b /\ c * a > t.total
  BY <1>2, <1>3
<1> HIDE DEF a, b
<1>5. c * a <= c * b /\ c * a \in Int /\ c * b \in Int
  BY <1>1, <1>4, TimesMore
<1>6. c * b > t.total
  BY <1>4, <1>5, TotalIs
<1>7. QED
  BY <1>6 DEF Heavy, c, b

\* What is above a heavy node is heavy.
LEMMA HeavyAbove ==
  ASSUME NEW t, Tree(t), NEW T \in Nat, NEW s \in Fronts, NEW f \in Sub(t, s), Heavy(t, T, f)
  PROVE  Heavy(t, T, s)
BY Nested, SubLighter, HeavyMore

\* The parent of a heavy node is heavy.
LEMMA HeavyParent ==
  ASSUME NEW t, Tree(t), NEW T \in Nat, NEW f \in Fronts, Heavy(t, T, f), t.v.parent[f] # 0
  PROVE  t.v.parent[f] \in Fronts /\ f < t.v.parent[f] /\ Heavy(t, T, t.v.parent[f])
<1> DEFINE p == t.v.parent[f]
<1>1. p \in Fronts /\ f < p /\ f \in Sub(t, f) /\ f \in KidsOf(t.v, p)
  BY TreeFacts DEF Fronts
<1>2. f \in Sub(t, p)
  BY <1>1, UnderKid
<1>3. QED
  BY <1>1, <1>2, HeavyAbove

\* The subtrees of the partition and the top part share out the fronts.
LEMMA Divided ==
  ASSUME NEW t, Tree(t), NEW T \in Nat
  PROVE  /\ \A f \in Fronts : ~Heavy(t, T, f) => \E s \in SubtreesOf(t, T) : f \in Sub(t, s)
         /\ \A s \in SubtreesOf(t, T) : s \in Fronts /\ ~Heavy(t, T, s) /\ \A f \in Sub(t, s) : ~Heavy(t, T, f)
         /\ \A r, s \in SubtreesOf(t, T) :
              r # s => r \notin Sub(t, s) /\ Sub(t, r) \cap Sub(t, s) = {} /\ (r < s => r < t.u.first[s])
<1>0. DOMAIN t.v.work = Fronts
  BY TreeFacts
<1>1. ASSUME NEW s \in SubtreesOf(t, T)
      PROVE  /\ s \in Fronts /\ ~Heavy(t, T, s)
             /\ t.v.parent[s] = 0 \/ (t.v.parent[s] \in Fronts /\ Heavy(t, T, t.v.parent[s]))
             /\ \A f \in Sub(t, s) : ~Heavy(t, T, f)
  <2>1. s \in Fronts /\ IsSubtree(t, T, s)
    BY <1>0 DEF SubtreesOf
  <2>2. QED
    BY <2>1, HeavyAbove, TreeFacts DEF IsSubtree
<1> DEFINE P == {f \in Fronts : ~Heavy(t, T, f) => \E s \in SubtreesOf(t, T) : f \in Sub(t, s)}
<1>2. ASSUME NEW f \in Fronts, \A g \in Fronts : f < g => g \in P, ~Heavy(t, T, f)
      PROVE  \E s \in SubtreesOf(t, T) : f \in Sub(t, s)
  <2> DEFINE p == t.v.parent[f]
  <2>1. CASE p = 0 \/ Heavy(t, T, p)
    <3>1. f \in SubtreesOf(t, T)
      BY <1>0, <1>2, <2>1 DEF SubtreesOf, IsSubtree
    <3>2. QED
      BY <3>1, TreeFacts
  <2>2. CASE p # 0 /\ ~Heavy(t, T, p)
    <3>1. p \in Fronts /\ f < p /\ f \in Sub(t, f) /\ f \in KidsOf(t.v, p)
      BY <2>2, TreeFacts DEF Fronts
    <3>2. PICK s \in SubtreesOf(t, T) : p \in Sub(t, s)
      BY <1>2, <2>2, <3>1
    <3>3. f \in Sub(t, p) /\ Sub(t, p) \subseteq Sub(t, s)
      BY <1>1, <3>1, <3>2, UnderKid, Nested
    <3>4. QED
      BY <3>3
  <2>3. QED
    BY <2>1, <2>2
<1>3. Fronts \subseteq P
  <2>1. \A f \in Fronts : (\A g \in Fronts : f < g => g \in P) => f \in P
    BY <1>2
  <2> HIDE DEF P
  <2>2. QED
    BY <2>1, FromAllLarger
<1>4. ASSUME NEW r \in SubtreesOf(t, T), NEW s \in SubtreesOf(t, T), r # s
      PROVE  r \notin Sub(t, s)
  <2>1. ASSUME r \in Sub(t, s) PROVE FALSE
    <3>1. t.v.parent[r] \in Sub(t, s) /\ t.v.parent[r] \in Fronts
      BY <1>1, <1>4, <2>1, ParentIn
    <3>2. Heavy(t, T, t.v.parent[r])
      BY <1>1, <3>1 DEF Fronts
    <3>3. QED
      BY <1>1, <3>1, <3>2
  <2>2. QED
    BY <2>1
<1>5. ASSUME NEW r \in SubtreesOf(t, T), NEW s \in SubtreesOf(t, T), r # s
      PROVE  Sub(t, r) \cap Sub(t, s) = {} /\ (r < s => r < t.u.first[s])
  <2>1. r \notin Sub(t, s) /\ s \notin Sub(t, r)
    BY <1>4, <1>5
  <2>2. QED
    BY <2>1, <1>1, SubsApart
<1>6. QED
  BY <1>1, <1>3, <1>4, <1>5

-----------------------------------------------------------------------------
(* The heap                                                                *)

Light(t, T, h) == \A s \in h.heap : ~Heavy(t, T, s)

\* The top part so far is closed towards the roots, the heap is what hangs
\* below it; every turn takes a node while there is a heavy one.
HeapInv(t, T, h, k) ==
  /\ h.heap \in SUBSET Fronts /\ h.top \in SUBSET TopPart(t, T) /\ h.heap \cap h.top = {}
  /\ KidsOf(t.v, 0) \subseteq h.heap \cup h.top
  /\ \A p \in h.top : KidsOf(t.v, p) \subseteq h.heap \cup h.top
  /\ \A f \in h.heap \cup h.top : t.v.parent[f] = 0 \/ t.v.parent[f] \in h.top
  /\ Light(t, T, h) \/ Cardinality(h.top) = k

\* A turn of the loop.
LEMMA HeapNext ==
  ASSUME NEW t, Tree(t), NEW T \in Nat, NEW h, NEW k \in Nat, HeapInv(t, T, h, k)
  PROVE  HeapInv(t, T, SplitTurn(t, T, h), k + 1)
<1> DEFINE x == HeapTop(t, h.heap)
<1>0. h.heap \in SUBSET Fronts
  BY DEF HeapInv
<1>1. CASE h.heap = {} \/ ~Heavy(t, T, x)
  <2>1. SplitTurn(t, T, h) = h
    BY <1>1 DEF SplitTurn
  <2>2. ASSUME NEW s \in h.heap PROVE ~Heavy(t, T, s)
    <3>1. ~Heavy(t, T, x) /\ x \in h.heap /\ (s = x \/ HeapAbove(t, x, s))
      BY <1>0, <1>1, <2>2, HeapTopIs
    <3> HIDE DEF x
    <3>2. s = x \/ t.u.work[s] <= t.u.work[x]
      BY <1>0, <3>1, AboveOrders
    <3>3. QED
      BY <1>0, <3>1, <3>2, HeavyMore
  <2>3. QED
    BY <2>1, <2>2 DEF HeapInv, Light
<1>2. CASE h.heap # {} /\ Heavy(t, T, x)
  <2>1. x \in h.heap /\ x \in Fronts
    BY <1>0, <1>2, HeapTopIs
  <2> DEFINE K == KidsOf(t.v, x)
             e == SplitTurn(t, T, h)
  <2>2. e.heap = (h.heap \ {x}) \cup K /\ e.top = h.top \cup {x}
    BY <1>2 DEF SplitTurn
  <2>3. x \in TopPart(t, T) /\ x \notin h.top
    BY <1>2, <2>1, TreeFacts DEF TopPart, HeapInv
  <2>4. K \in SUBSET Fronts /\ \A c \in K : t.v.parent[c] = x /\ c # x
    <3>1. K \in SUBSET Fronts
      BY ViewFacts DEF Tree
    <3>2. \A c \in K : t.v.parent[c] = x /\ c < x
      BY <2>1, <3>1, TreeFacts
    <3>3. x \in Int
      BY <2>1 DEF Fronts
    <3>4. QED
      BY <3>1, <3>2, <3>3
  <2>5. K \cap h.top = {}
    <3>1. ASSUME NEW c \in K, c \in h.top PROVE FALSE
      <4>1. x = 0 \/ x \in h.top
        BY <3>1, <2>4 DEF HeapInv
      <4>2. x # 0
        BY <2>1 DEF Fronts
      <4>3. QED
        BY <4>1, <4>2, <2>3
    <3>2. QED
      BY <3>1
  <2>6. Cardinality(e.top) = k + 1
    <3>1. ~Light(t, T, h)
      BY <1>2, <2>1 DEF Light
    <3>2. Cardinality(h.top) = k
      BY <3>1 DEF HeapInv
    <3>3. h.top \in SUBSET Fronts
      BY TreeFacts DEF HeapInv, TopPart
    <3>4. IsFiniteSet(h.top)
      BY <3>3, FrontsFinite, FS_Subset
    <3>5. Cardinality(h.top \cup {x}) = Cardinality(h.top) + 1
      BY <3>4, <2>3, FS_AddElement
    <3>6. QED
      BY <3>2, <3>5, <2>2
  <2> HIDE DEF e, x
  <2>7. /\ e.heap \in SUBSET Fronts /\ e.top \in SUBSET TopPart(t, T) /\ e.heap \cap e.top = {}
        /\ KidsOf(t.v, 0) \subseteq e.heap \cup e.top
    <3> HIDE DEF K
    <3>1. QED
      BY <2>1, <2>2, <2>3, <2>4, <2>5 DEF HeapInv
  <2>8. \A p \in e.top : KidsOf(t.v, p) \subseteq e.heap \cup e.top
    BY <2>1, <2>2 DEF HeapInv
  <2>9. \A f \in e.heap \cup e.top : t.v.parent[f] = 0 \/ t.v.parent[f] \in e.top
    <3> HIDE DEF K
    <3>1. QED
      BY <2>1, <2>2, <2>4 DEF HeapInv
  <2>10. QED
    BY <2>6, <2>7, <2>8, <2>9 DEF HeapInv, e
<1>3. QED
  BY <1>1, <1>2

\* The loop ends with the nodes of the target: the top part is what is heavy,
\* the heap the subtrees below it.
LEMMA HeapIs ==
  ASSUME NEW t, Tree(t), NEW T \in Nat
  PROVE  SplitHeap(t, T).top = TopPart(t, T) /\ SplitHeap(t, T).heap = SubtreesOf(t, T)
<1>1. PICK G : SplitTurns(G, N, t, T) /\ SplitHeap(t, T) = G[N]
  BY SplitUnrolled, TreeFacts, FrontsAssumption
<1> DEFINE Q == {k \in Nat : k <= N => HeapInv(t, T, G[k], k)}
<1>2. 0 \in Q
  <2>1. G[0] = [heap |-> KidsOf(t.v, 0), top |-> {}]
    BY <1>1 DEF SplitTurns
  <2>2. KidsOf(t.v, 0) \in SUBSET Fronts /\ \A c \in KidsOf(t.v, 0) : t.v.parent[c] = 0
    BY ViewFacts DEF Tree, KidsOf
  <2>3. Cardinality({}) = 0
    BY FS_EmptySet
  <2>4. HeapInv(t, T, G[0], 0)
    BY <2>1, <2>2, <2>3 DEF HeapInv
  <2>5. QED
    BY <2>4
<1>3. ASSUME NEW k \in Q PROVE k + 1 \in Q
  <2>1. ASSUME k + 1 <= N PROVE HeapInv(t, T, G[k + 1], k + 1)
    <3>1. k \in Nat /\ k <= N /\ k + 1 \in 1..N /\ (k + 1) - 1 = k
      BY <2>1, FrontsAssumption
    <3>2. G[k + 1] = SplitTurn(t, T, G[k])
      BY <3>1, <1>1 DEF SplitTurns
    <3>3. QED
      BY <3>1, <3>2, <1>3, HeapNext
  <2>2. QED
    BY <2>1
<1>4. N \in Q
  <2>1. Q \in SUBSET Nat
    OBVIOUS
  <2> HIDE DEF Q
  <2> QED BY <2>1, <1>2, <1>3, Upwards, FrontsAssumption
<1> DEFINE h == SplitHeap(t, T)
<1>5. HeapInv(t, T, h, N)
  BY <1>1, <1>4, FrontsAssumption
<1> HIDE DEF h
<1>6. h.top \in SUBSET Fronts /\ h.heap \in SUBSET Fronts /\ h.top \in SUBSET TopPart(t, T)
  BY <1>5, TreeFacts DEF HeapInv, TopPart
<1>7. Light(t, T, h)
  <2>1. ASSUME Cardinality(h.top) = N PROVE h.top = Fronts
    BY <2>1, <1>6, FrontsFinite, FS_Subset
  <2>2. ASSUME h.top = Fronts PROVE h.heap = {}
    BY <2>2, <1>5, <1>6 DEF HeapInv
  <2>3. QED
    BY <2>1, <2>2, <1>5 DEF HeapInv, Light
<1> DEFINE P == {f \in Fronts : Heavy(t, T, f) => f \in h.top}
<1>8. ASSUME NEW f \in Fronts, \A g \in Fronts : f < g => g \in P, Heavy(t, T, f)
      PROVE  f \in h.top
  <2>1. f \in KidsOf(t.v, t.v.parent[f])
    BY TreeFacts DEF KidsOf
  <2>2. t.v.parent[f] # 0 => t.v.parent[f] \in h.top
    BY <1>8, HeavyParent
  <2>3. f \in h.heap \cup h.top
    BY <2>1, <2>2, <1>5 DEF HeapInv
  <2>4. QED
    BY <2>3, <1>7, <1>8 DEF Light
<1>9. Fronts \subseteq P
  <2>1. \A f \in Fronts : (\A g \in Fronts : f < g => g \in P) => f \in P
    BY <1>8
  <2> HIDE DEF P
  <2>2. QED
    BY <2>1, FromAllLarger
<1>10. h.top = TopPart(t, T)
  <2>1. \A f \in TopPart(t, T) : f \in Fronts /\ Heavy(t, T, f)
    BY TreeFacts DEF TopPart
  <2>2. QED
    BY <1>6, <1>9, <2>1
<1>11. ASSUME NEW s \in h.heap PROVE s \in SubtreesOf(t, T)
  <2>1. s \in DOMAIN t.v.work /\ ~Heavy(t, T, s)
    BY <1>6, <1>7, TreeFacts DEF Light
  <2>2. t.v.parent[s] = 0 \/ t.v.parent[s] \in TopPart(t, T)
    BY <1>5, <1>10 DEF HeapInv
  <2>3. QED
    BY <2>1, <2>2 DEF SubtreesOf, IsSubtree, TopPart
<1>12. ASSUME NEW s \in SubtreesOf(t, T) PROVE s \in h.heap
  <2>1. s \in Fronts /\ ~Heavy(t, T, s) /\ (t.v.parent[s] = 0 \/ Heavy(t, T, t.v.parent[s]))
    BY TreeFacts DEF SubtreesOf, IsSubtree
  <2>2. s \in KidsOf(t.v, t.v.parent[s]) /\ (t.v.parent[s] = 0 \/ t.v.parent[s] \in Fronts)
    BY <2>1, TreeFacts DEF KidsOf
  <2>3. t.v.parent[s] # 0 => t.v.parent[s] \in h.top
    BY <1>9, <2>1, <2>2
  <2>4. s \in h.heap \cup h.top
    BY <2>2, <2>3, <1>5 DEF HeapInv
  <2>5. s \notin h.top
    BY <2>1, <1>10 DEF TopPart
  <2>6. QED
    BY <2>4, <2>5
<1>13. QED
  BY <1>10, <1>11, <1>12 DEF h

-----------------------------------------------------------------------------
(* The merged tasks                                                        *)

TaskRange == [lo : Fronts, hi : Fronts, work : Nat]
Span(r)   == r.lo..r.hi

\* A task of whole subtrees among the first k fronts.
TaskFits(t, T, r, k) ==
  /\ r \in TaskRange /\ r.lo <= r.hi /\ r.hi <= k /\ r.hi \in SubtreesOf(t, T)
  /\ r.work = WorkIn(t, Span(r))
  /\ \A f \in Span(r) : \E s \in SubtreesOf(t, T) : f \in Sub(t, s) /\ Sub(t, s) \subseteq Span(r)

\* The tasks of the first k fronts: apart, of every subtree, and merged
\* while they are adjacent and light.
TasksInv(t, T, out, k) ==
  /\ out \in Seq(TaskRange)
  /\ \A i \in 1..Len(out) : TaskFits(t, T, out[i], k)
  /\ \A i, j \in 1..Len(out) : i < j => out[i].hi < out[j].lo
  /\ \A s \in SubtreesOf(t, T) : s <= k => \E i \in 1..Len(out) : Sub(t, s) \subseteq Span(out[i])
  /\ \A i, j \in 1..Len(out) :
       j = i + 1 /\ out[i].hi + 1 = out[j].lo => ~WithinGrain(t, T, out[i].work + out[j].work)

\* The subtrees' work is a number.
LEMMA SubTotalNat == ASSUME NEW t, Tree(t), NEW T \in Nat PROVE SubTotal(t, T) \in Nat
<1>1. SubtreesOf(t, T) \in SUBSET Fronts /\ \A x \in Fronts : t.u.work[x] \in Nat
  BY TreeFacts, Divided
<1>2. QED
  BY <1>1, FrontsFinite, SumOne DEF SubTotal, SumOn

\* What is lighter than a grain is within it.
LEMMA GrainLess ==
  ASSUME NEW t, Tree(t), NEW T \in Nat, NEW a \in Nat, NEW b \in Nat, a <= b, WithinGrain(t, T, b)
  PROVE  WithinGrain(t, T, a)
<1> DEFINE c == GrainsPerThread * T
<1>1. c \in Nat
  BY PlanAssumption
<1>2. c * b <= SubTotal(t, T)
  BY DEF WithinGrain
<1> HIDE DEF c
<1>3. c * a <= c * b /\ c * a \in Int /\ c * b \in Int
  BY <1>1, TimesMore
<1>4. c * a <= SubTotal(t, T)
  BY <1>2, <1>3, SubTotalNat
<1>5. QED
  BY <1>4 DEF WithinGrain, c

\* The task of one subtree.
NodeTask(t, s) == [lo |-> t.u.first[s], hi |-> s, work |-> t.u.work[s]]

\* One subtree is a task of its own.
LEMMA NodeTaskFits ==
  ASSUME NEW t, Tree(t), NEW T \in Nat, NEW s \in SubtreesOf(t, T)
  PROVE  TaskFits(t, T, NodeTask(t, s), s) /\ Span(NodeTask(t, s)) = Sub(t, s)
<1>1. s \in Fronts
  BY Divided
<1>2. Span(NodeTask(t, s)) = Sub(t, s)
  BY DEF Span, NodeTask, Sub
<1>3. t.u.first[s] \in 1..s /\ t.u.first[s] \in Fronts /\ t.u.work[s] \in Nat
  <2>1. t.u.first[s] \in 1..s /\ t.u.work[s] \in Nat
    BY <1>1, TreeFacts
  <2>2. t.u.first[s] \in Fronts
    BY <1>1, <2>1, FrontsAssumption DEF Fronts
  <2>3. QED
    BY <2>1, <2>2
<1>4. NodeTask(t, s) \in TaskRange
  BY <1>1, <1>3 DEF NodeTask, TaskRange
<1>5. t.u.work[s] = WorkIn(t, Sub(t, s))
  BY <1>1, SubWork
<1>6. QED
  <2> DEFINE r == NodeTask(t, s)
  <2>1. r.lo = t.u.first[s] /\ r.hi = s /\ r.work = t.u.work[s]
    BY DEF NodeTask
  <2>2. r.lo <= r.hi /\ r.hi <= s
    BY <1>1, <1>3, <2>1 DEF Fronts
  <2>3. \A f \in Span(r) : f \in Sub(t, s) /\ Sub(t, s) \subseteq Span(r)
    BY <1>2
  <2> HIDE DEF r
  <2>4. r \in TaskRange /\ Span(r) = Sub(t, s)
    BY <1>2, <1>4 DEF r
  <2>5. r.work = WorkIn(t, Span(r))
    BY <1>5, <2>1, <2>4
  <2>6. TaskFits(t, T, r, s)
    BY <2>1, <2>2, <2>3, <2>4, <2>5 DEF TaskFits
  <2>7. QED
    BY <2>4, <2>6 DEF r

\* A task of the first k fronts is one of more.
LEMMA TaskStillFits ==
  ASSUME NEW t, NEW T, NEW r, NEW k \in Nat, NEW m \in Nat, k <= m, TaskFits(t, T, r, k) PROVE TaskFits(t, T, r, m)
<1>1. r.hi \in Int /\ r.hi <= k
  BY DEF TaskFits, TaskRange, Fronts
<1>2. r.hi <= m
  BY <1>1
<1>3. QED
  BY <1>2 DEF TaskFits

\* The subtree of the next node is after the tasks.
LEMMA TasksBefore ==
  ASSUME NEW t, Tree(t), NEW T \in Nat, NEW k \in Nat, NEW r, TaskFits(t, T, r, k),
         k + 1 \in SubtreesOf(t, T)
  PROVE  r.hi < t.u.first[k + 1]
<1>1. r.hi \in SubtreesOf(t, T) /\ r.hi <= k /\ r.hi \in Fronts
  BY DEF TaskFits, TaskRange
<1>2. r.hi < k + 1 /\ r.hi # k + 1
  BY <1>1 DEF Fronts
<1>3. QED
  BY <1>1, <1>2, Divided

\* A node of its own task.
LEMMA AppendTask ==
  ASSUME NEW t, Tree(t), NEW T \in Nat, NEW k \in Nat, k + 1 \in SubtreesOf(t, T),
         NEW out, TasksInv(t, T, out, k), ~Merges(t, T, out, NodeTask(t, k + 1))
  PROVE  TasksInv(t, T, Append(out, NodeTask(t, k + 1)), k + 1)
<1> DEFINE s == k + 1
           r == NodeTask(t, s)
           n == Len(out)
           e == Append(out, r)
<1>1. TaskFits(t, T, r, s) /\ Span(r) = Sub(t, s)
  BY NodeTaskFits
<1>2. r \in TaskRange /\ out \in Seq(TaskRange) /\ n \in Nat
  BY <1>1 DEF TaskFits, TasksInv
<1> HIDE DEF r
<1>3. e \in Seq(TaskRange) /\ Len(e) = n + 1 /\ e[n + 1] = r /\ \A i \in 1..n : e[i] = out[i]
  BY <1>2
<1> HIDE DEF e
<1>4. \A i \in 1..(n + 1) : i \in 1..n \/ i = n + 1
  BY <1>2
<1>5. ASSUME NEW i \in 1..(n + 1) PROVE TaskFits(t, T, e[i], s)
  <2>1. CASE i \in 1..n
    <3>1. TaskFits(t, T, out[i], k) /\ e[i] = out[i]
      BY <1>3, <2>1 DEF TasksInv
    <3>2. QED
      BY <3>1, TaskStillFits
  <2>2. QED
    BY <1>1, <1>3, <1>4, <2>1
<1>6. ASSUME NEW i \in 1..(n + 1), NEW j \in 1..(n + 1), i < j PROVE e[i].hi < e[j].lo
  <2>1. i \in 1..n
    BY <1>2, <1>6
  <2>2. CASE j \in 1..n
    <3>1. out[i].hi < out[j].lo
      BY <1>6, <2>1, <2>2 DEF TasksInv
    <3>2. QED
      BY <1>3, <2>1, <2>2, <3>1
  <2>3. CASE j = n + 1
    <3>1. TaskFits(t, T, out[i], k)
      BY <2>1 DEF TasksInv
    <3>2. out[i].hi < t.u.first[s]
      BY <3>1, TasksBefore
    <3>3. QED
      BY <1>3, <2>1, <2>3, <3>2 DEF r, NodeTask
  <2>4. QED
    BY <1>4, <2>2, <2>3
<1>7. ASSUME NEW q \in SubtreesOf(t, T), q <= s
      PROVE  \E i \in 1..(n + 1) : Sub(t, q) \subseteq Span(e[i])
  <2>1. q \in Int
    BY Divided DEF Fronts
  <2>2. CASE q = s
    <3>1. n + 1 \in 1..(n + 1)
      BY <1>2
    <3>2. QED
      BY <1>1, <1>3, <2>2, <3>1
  <2>3. CASE q <= k
    <3>1. PICK i \in 1..n : Sub(t, q) \subseteq Span(out[i])
      BY <2>3 DEF TasksInv
    <3>2. i \in 1..(n + 1) /\ e[i] = out[i]
      BY <1>2, <1>3
    <3>3. QED
      BY <3>1, <3>2
  <2>4. QED
    BY <1>7, <2>1, <2>2, <2>3
<1>8. ASSUME NEW i \in 1..(n + 1), NEW j \in 1..(n + 1), j = i + 1, e[i].hi + 1 = e[j].lo
      PROVE  ~WithinGrain(t, T, e[i].work + e[j].work)
  <2>1. i \in 1..n
    BY <1>2, <1>8
  <2>2. CASE j \in 1..n
    <3>1. e[i] = out[i] /\ e[j] = out[j]
      BY <1>3, <2>1, <2>2
    <3>2. QED
      BY <1>8, <2>1, <2>2, <3>1 DEF TasksInv
  <2>3. CASE j = n + 1
    <3>1. i = n /\ e[j] = r /\ e[i] = out[n] /\ n \in 1..n
      BY <1>2, <1>3, <1>8, <2>1, <2>3
    <3>2. out # <<>> /\ Last(out) = out[n]
      BY <1>2, <3>1 DEF Last
    <3>3. Last(out).hi + 1 = r.lo
      BY <1>8, <3>1, <3>2
    <3>4. QED
      BY <3>1, <3>2, <3>3 DEF Merges, r
  <2>4. QED
    BY <1>4, <2>2, <2>3
<1>9. TasksInv(t, T, e, s)
  BY <1>3, <1>5, <1>6, <1>7, <1>8 DEF TasksInv
<1>10. QED
  BY <1>9 DEF e, r

\* A task up to h, with the work w more.
Widened(l, h, w) == [[l EXCEPT !.hi = h] EXCEPT !.work = l.work + w]

\* Its fields.
LEMMA WidenedIs ==
  ASSUME NEW a, NEW b, NEW c, NEW d, NEW w
  PROVE  Widened([lo |-> a, hi |-> b, work |-> c], d, w) = [lo |-> a, hi |-> d, work |-> c + w]
<1>1. [[lo |-> a, hi |-> b, work |-> c] EXCEPT !.hi = d] = [lo |-> a, hi |-> d, work |-> c]
  OBVIOUS
<1>2. [[lo |-> a, hi |-> d, work |-> c] EXCEPT !.work = c + w] = [lo |-> a, hi |-> d, work |-> c + w]
  OBVIOUS
<1>3. [lo |-> a, hi |-> b, work |-> c].work = c
  OBVIOUS
<1>4. QED
  BY ONLY <1>1, <1>2, <1>3 DEF Widened

\* A node that joins the last task.
Joined(out, r) == [out EXCEPT ![Len(out)].hi = r.hi, ![Len(out)].work = @ + r.work]

\* A node that joins the last task keeps the tasks whole subtrees.
LEMMA MergeTask ==
  ASSUME NEW t, Tree(t), NEW T \in Nat, NEW k \in Nat, k + 1 \in SubtreesOf(t, T),
         NEW out, TasksInv(t, T, out, k), Merges(t, T, out, NodeTask(t, k + 1))
  PROVE  TasksInv(t, T, Joined(out, NodeTask(t, k + 1)), k + 1)
<1> DEFINE s == k + 1
           r == NodeTask(t, s)
           n == Len(out)
           e == Joined(out, r)
           l == out[n]
           m == [lo |-> l.lo, hi |-> s, work |-> l.work + t.u.work[s]]
<1>1. TaskFits(t, T, r, s) /\ Span(r) = Sub(t, s)
  BY NodeTaskFits
<1>2. r \in TaskRange /\ out \in Seq(TaskRange) /\ n \in Nat /\ n \in 1..n
  <2>1. r \in TaskRange /\ out \in Seq(TaskRange) /\ out # <<>>
    BY <1>1 DEF TaskFits, TasksInv, Merges
  <2>2. QED
    BY <2>1
<1>3. Last(out) = l /\ l.hi + 1 = t.u.first[s]
  BY DEF Last, Merges, NodeTask
<1>4. TaskFits(t, T, l, k) /\ l \in TaskRange
  BY <1>2 DEF TasksInv, TaskFits
<1>5. /\ r.lo = t.u.first[s] /\ r.hi = s /\ r.work = t.u.work[s] /\ s \in Fronts
      /\ t.u.first[s] \in 1..s /\ t.u.work[s] \in Nat
  <2>1. s \in Fronts
    BY Divided
  <2>2. t.u.first[s] \in 1..s /\ t.u.work[s] \in Nat
    BY <2>1, TreeFacts
  <2>3. QED
    BY <2>1, <2>2 DEF NodeTask
<1>6. l.lo \in Fronts /\ l.hi \in Fronts /\ l.work \in Nat /\ l.lo <= l.hi /\ l = [lo |-> l.lo, hi |-> l.hi, work |-> l.work]
  BY <1>4 DEF TaskFits, TaskRange
<1> HIDE DEF r, l, e, m
<1>7. /\ m.lo = l.lo /\ m.hi = s /\ m.work = l.work + t.u.work[s] /\ m \in TaskRange
      /\ Span(m) = Span(l) \cup Sub(t, s) /\ Span(l) \cap Sub(t, s) = {}
      /\ Span(l) \in SUBSET Fronts
  <2>1. m.lo = l.lo /\ m.hi = s /\ m.work = l.work + t.u.work[s]
    BY DEF m
  <2>2. l.work + t.u.work[s] \in Nat
    BY <1>5, <1>6
  <2>3. m \in TaskRange
    BY <1>5, <1>6, <2>2 DEF m, TaskRange
  <2> DEFINE a == l.lo
             b == l.hi
             c == t.u.first[s]
  <2>4. a \in Int /\ b \in Int /\ c \in Int /\ s \in Int /\ a <= b /\ b + 1 = c /\ c <= s /\ a \in 1..N /\ b \in 1..N
    BY <1>3, <1>5, <1>6 DEF Fronts
  <2>5. Span(m) = a..s /\ Span(l) = a..b /\ Sub(t, s) = c..s
    BY <2>1 DEF Span, Sub
  <2> HIDE DEF a, b, c
  <2>6. a..s = (a..b) \cup (c..s) /\ (a..b) \cap (c..s) = {} /\ a..b \in SUBSET Fronts
    BY <2>4, FrontsAssumption DEF Fronts
  <2>7. QED
    BY <2>1, <2>3, <2>5, <2>6
<1>8. e \in Seq(TaskRange) /\ Len(e) = n /\ e[n] = m /\ \A i \in 1..n : i # n => e[i] = out[i]
  <2>1. e = [out EXCEPT ![n] = Widened(l, r.hi, r.work)]
    BY <1>2, <1>6 DEF e, Joined, l, Widened
  <2>2. Widened(l, r.hi, r.work) = m
    <3>1. Widened([lo |-> l.lo, hi |-> l.hi, work |-> l.work], r.hi, r.work) = m
      BY <1>5, WidenedIs DEF m
    <3>2. QED
      BY <3>1, <1>6
  <2>3. e = [out EXCEPT ![n] = m]
    BY <2>1, <2>2
  <2>4. QED
    BY <2>3, <1>2, <1>7
<1>9. TaskFits(t, T, m, s)
  <2>1. m.lo <= m.hi /\ m.hi <= s /\ m.hi \in SubtreesOf(t, T)
    <3>1. l.lo <= k
      BY <1>4, <1>6 DEF TaskFits, Fronts
    <3>2. QED
      BY <1>6, <1>7, <3>1 DEF Fronts
  <2>2. m.work = WorkIn(t, Span(m))
    <3>1. l.work = WorkIn(t, Span(l)) /\ t.u.work[s] = WorkIn(t, Sub(t, s))
      BY <1>4, <1>5, SubWork DEF TaskFits
    <3> DEFINE A == Span(l)
               B == Sub(t, s)
    <3>2. A \in SUBSET Fronts /\ B \in SUBSET Fronts /\ A \cap B = {} /\ Span(m) = A \cup B
      BY <1>5, <1>7, TreeFacts
    <3>3. \A x \in Fronts : t.v.work[x] \in Nat
      BY TreeFacts
    <3> HIDE DEF A, B
    <3>4. WorkIn(t, A \cup B) = WorkIn(t, A) + WorkIn(t, B)
      BY <3>2, <3>3, FrontsFinite, SumUnion DEF WorkIn
    <3>5. QED
      BY <3>1, <3>2, <3>4, <1>7 DEF A, B
  <2>3. ASSUME NEW f \in Span(m)
        PROVE  \E q \in SubtreesOf(t, T) : f \in Sub(t, q) /\ Sub(t, q) \subseteq Span(m)
    <3>1. CASE f \in Span(l)
      BY <3>1, <1>4, <1>7 DEF TaskFits
    <3>2. CASE f \in Sub(t, s)
      BY <3>2, <1>7
    <3>3. QED
      BY <3>1, <3>2, <1>7
  <2>4. QED
    BY <1>7, <2>1, <2>2, <2>3 DEF TaskFits
<1>10. ASSUME NEW i \in 1..n PROVE TaskFits(t, T, e[i], s)
  <2>1. CASE i = n
    BY <1>8, <1>9, <2>1
  <2>2. CASE i # n
    <3>1. TaskFits(t, T, out[i], k) /\ e[i] = out[i]
      BY <1>8, <2>2 DEF TasksInv
    <3>2. QED
      BY <3>1, TaskStillFits
  <2>3. QED
    BY <2>1, <2>2
<1>11. ASSUME NEW i \in 1..n, NEW j \in 1..n, i < j PROVE e[i].hi < e[j].lo
  <2>1. out[i].hi < out[j].lo
    BY <1>11 DEF TasksInv
  <2>2. i # n
    BY <1>11, <1>2
  <2>3. e[i] = out[i]
    BY <1>8, <2>2
  <2>4. CASE j = n
    <3>1. e[j].lo = out[j].lo
      BY <1>7, <1>8, <2>4 DEF l
    <3>2. QED
      BY <2>1, <2>3, <3>1
  <2>5. CASE j # n
    BY <1>8, <2>1, <2>3, <2>5
  <2>6. QED
    BY <2>4, <2>5
<1>12. ASSUME NEW q \in SubtreesOf(t, T), q <= s
       PROVE  \E i \in 1..n : Sub(t, q) \subseteq Span(e[i])
  <2>1. q \in Int
    BY Divided DEF Fronts
  <2>2. CASE q = s
    BY <1>2, <1>7, <1>8, <2>2
  <2>3. CASE q <= k
    <3>1. PICK i \in 1..n : Sub(t, q) \subseteq Span(out[i])
      BY <2>3 DEF TasksInv
    <3>2. CASE i = n
      <4>1. Sub(t, q) \subseteq Span(m)
        BY <3>1, <3>2, <1>7 DEF l
      <4>2. QED
        BY <4>1, <1>2, <1>8
    <3>3. CASE i # n
      BY <3>1, <3>3, <1>8
    <3>4. QED
      BY <3>2, <3>3
  <2>4. QED
    BY <1>12, <2>1, <2>2, <2>3
<1>13. ASSUME NEW i \in 1..n, NEW j \in 1..n, j = i + 1, e[i].hi + 1 = e[j].lo
       PROVE  ~WithinGrain(t, T, e[i].work + e[j].work)
  <2>1. i # n /\ e[i] = out[i]
    <3>1. i # n
      BY <1>2, <1>13
    <3>2. QED
      BY <3>1, <1>8
  <2>2. e[j].lo = out[j].lo
    BY <1>7, <1>8 DEF l
  <2>3. ~WithinGrain(t, T, out[i].work + out[j].work)
    BY <1>13, <2>1, <2>2 DEF TasksInv
  <2>4. out[i].work \in Nat /\ out[j].work \in Nat /\ e[j].work \in Nat
    <3>1. out[i] \in TaskRange /\ out[j] \in TaskRange /\ e[j] \in TaskRange
      <4>1. \A x \in 1..n : TaskFits(t, T, out[x], k) /\ TaskFits(t, T, e[x], s)
        BY <1>10 DEF TasksInv
      <4>2. QED
        BY <4>1 DEF TaskFits
    <3>2. QED
      BY <3>1 DEF TaskRange
  <2>5. out[j].work <= e[j].work
    <3>1. CASE j = n
      <4>1. out[j].work = l.work /\ e[j].work = l.work + t.u.work[s]
        BY <1>7, <1>8, <3>1 DEF l
      <4>2. QED
        BY <4>1, <1>5, <1>6
    <3>2. CASE j # n
      BY <3>2, <1>8, <2>4
    <3>3. QED
      BY <3>1, <3>2
  <2> DEFINE a == out[i].work + out[j].work
             b == e[i].work + e[j].work
  <2>6. a \in Nat /\ b \in Nat /\ a <= b
    <3>1. e[i].work = out[i].work
      BY <2>1
    <3>2. \A x, y, z \in Nat : y <= z => x + y \in Nat /\ x + z \in Nat /\ x + y <= x + z
      OBVIOUS
    <3>3. a \in Nat /\ out[i].work + e[j].work \in Nat /\ a <= out[i].work + e[j].work
      BY ONLY <2>4, <2>5, <3>2
    <3>4. QED
      BY ONLY <3>1, <3>3
  <2> HIDE DEF a, b
  <2>7. WithinGrain(t, T, b) => WithinGrain(t, T, a)
    BY <2>6, GrainLess
  <2>8. QED
    BY <2>3, <2>7 DEF a, b
<1>14. TasksInv(t, T, e, s)
  BY <1>8, <1>10, <1>11, <1>12, <1>13 DEF TasksInv
<1>15. QED
  BY <1>14 DEF e, r

\* The tasks of the tree.
LEMMA TasksAll == ASSUME NEW t, Tree(t), NEW T \in Nat PROVE TasksInv(t, T, MergedTasks(t, T), N)
<1>1. PICK G : MergeTurns(G, N, t, T) /\ MergedTasks(t, T) = G[N]
  BY MergeUnrolled, TreeFacts, FrontsAssumption
<1> DEFINE Q == {k \in Nat : k <= N => TasksInv(t, T, G[k], k)}
<1>2. 0 \in Q
  <2>1. G[0] = <<>>
    BY <1>1 DEF MergeTurns
  <2>2. \A s \in SubtreesOf(t, T) : ~(s <= 0)
    BY Divided DEF Fronts
  <2>3. <<>> \in Seq(TaskRange) /\ Len(<<>>) = 0 /\ 1..0 = {}
    OBVIOUS
  <2>4. TasksInv(t, T, G[0], 0)
    BY <2>1, <2>2, <2>3 DEF TasksInv
  <2>5. QED
    BY <2>4
<1>3. ASSUME NEW k \in Q PROVE k + 1 \in Q
  <2>1. ASSUME k + 1 <= N PROVE TasksInv(t, T, G[k + 1], k + 1)
    <3>1. k \in Nat /\ k <= N /\ k + 1 \in 1..N /\ (k + 1) - 1 = k
      BY <2>1, FrontsAssumption
    <3>2. G[k + 1] = WithNode(t, T, G[k], k + 1) /\ TasksInv(t, T, G[k], k)
      BY <3>1, <1>1, <1>3 DEF MergeTurns
    <3>3. CASE k + 1 \in SubtreesOf(t, T)
      <4>1. IsSubtree(t, T, k + 1)
        BY <3>3 DEF SubtreesOf
      <4>2. G[k + 1] = WithRange(t, T, G[k], NodeTask(t, k + 1))
        BY <3>2, <4>1 DEF WithNode, NodeTask
      <4>3. CASE Merges(t, T, G[k], NodeTask(t, k + 1))
        <5>1. G[k + 1] = Joined(G[k], NodeTask(t, k + 1))
          BY <4>2, <4>3 DEF WithRange, Joined
        <5>2. QED
          BY <3>1, <3>2, <3>3, <4>3, <5>1, MergeTask
      <4>4. CASE ~Merges(t, T, G[k], NodeTask(t, k + 1))
        BY <3>1, <3>2, <3>3, <4>2, <4>4, AppendTask DEF WithRange
      <4>5. QED
        BY <4>3, <4>4
    <3>4. CASE k + 1 \notin SubtreesOf(t, T)
      <4>1. ~IsSubtree(t, T, k + 1)
        BY <3>1, <3>4, TreeFacts DEF SubtreesOf, Fronts
      <4>2. G[k + 1] = G[k]
        BY <3>2, <4>1 DEF WithNode
      <4>3. \A s \in SubtreesOf(t, T) : s <= k + 1 => s <= k
        BY <3>1, <3>4, Divided DEF Fronts
      <4>4. \A i \in 1..Len(G[k]) : TaskFits(t, T, G[k][i], k + 1)
        <5>1. \A i \in 1..Len(G[k]) : TaskFits(t, T, G[k][i], k)
          BY <3>2 DEF TasksInv
        <5>2. QED
          BY <3>1, <5>1, TaskStillFits
      <4>5. QED
        BY <3>2, <4>2, <4>3, <4>4 DEF TasksInv
    <3>5. QED
      BY <3>3, <3>4
  <2>2. QED
    BY <2>1
<1>4. N \in Q
  <2>1. Q \in SUBSET Nat
    OBVIOUS
  <2> HIDE DEF Q
  <2> QED BY <2>1, <1>2, <1>3, Upwards, FrontsAssumption
<1>5. QED
  BY <1>1, <1>4, FrontsAssumption

-----------------------------------------------------------------------------
(* The partitions                                                          *)

\* The ranges are whole subtrees, all of them, apart; the top part is heavy.
DealsOut(t, T, p) ==
  /\ p.ranges \in Seq(Fronts \X Fronts) /\ p.top = TopPart(t, T)
  /\ \A i \in DOMAIN p.ranges :
       /\ p.ranges[i][1] <= p.ranges[i][2]
       /\ \A f \in Interval(p.ranges[i]) :
            \E s \in SubtreesOf(t, T) : f \in Sub(t, s) /\ Sub(t, s) \subseteq Interval(p.ranges[i])
  /\ \A s \in SubtreesOf(t, T) : \E i \in DOMAIN p.ranges : Sub(t, s) \subseteq Interval(p.ranges[i])
  /\ \A i, j \in DOMAIN p.ranges : i # j => Interval(p.ranges[i]) \cap Interval(p.ranges[j]) = {}

\* Such ranges share out the fronts, subtrees that need nothing of each other.
LEMMA DealtFits ==
  ASSUME NEW t, Tree(t), t.v = scn.view, NEW T \in Nat, NEW p, DealsOut(t, T, p)
  PROVE  Shares(p) /\ WholeSubtrees(p)
<1>1. \A f \in Fronts : f \in TopPart(t, T) <=> Heavy(t, T, f)
  BY TreeFacts DEF TopPart
<1>2. p.top \in SUBSET Fronts /\ p.top = TopPart(t, T)
  BY TreeFacts DEF DealsOut, TopPart
<1>3. ASSUME NEW i \in DOMAIN p.ranges, NEW f \in Interval(p.ranges[i]) PROVE f \in Fronts /\ ~Heavy(t, T, f)
  <2>1. PICK s \in SubtreesOf(t, T) : f \in Sub(t, s)
    BY DEF DealsOut
  <2>2. QED
    BY <2>1, Divided, TreeFacts
<1>4. ASSUME NEW f \in Fronts, ~Heavy(t, T, f) PROVE \E i \in DOMAIN p.ranges : f \in Interval(p.ranges[i])
  <2>1. PICK s \in SubtreesOf(t, T) : f \in Sub(t, s)
    BY <1>4, Divided
  <2>2. QED
    BY <2>1 DEF DealsOut
<1>5. \A f : f \in FrontsOf(p) <=> f \in Fronts /\ ~Heavy(t, T, f)
  BY <1>3, <1>4 DEF FrontsOf
<1>6. Shares(p)
  <2>1. FrontsOf(p) \cup p.top = Fronts /\ FrontsOf(p) \cap p.top = {}
    BY <1>1, <1>2, <1>5
  <2>2. QED
    BY <2>1 DEF Shares, DealsOut
<1>7. ASSUME NEW i \in DOMAIN p.ranges, NEW f \in Interval(p.ranges[i])
      PROVE  ChildrenOf(f) \subseteq Interval(p.ranges[i])
  <2>1. PICK s \in SubtreesOf(t, T) : f \in Sub(t, s) /\ Sub(t, s) \subseteq Interval(p.ranges[i])
    BY DEF DealsOut
  <2>2. s \in Fronts /\ f \in Fronts /\ Sub(t, f) \subseteq Sub(t, s)
    BY <1>3, <2>1, Divided, Nested
  <2>3. ASSUME NEW c \in KidsOf(t.v, f) PROVE c \in Sub(t, f)
    <3>1. c \in Fronts
      BY <2>3, ViewFacts DEF Tree
    <3>2. c \in Sub(t, c)
      BY <3>1, TreeFacts
    <3>3. QED
      BY <2>2, <2>3, <3>1, <3>2, UnderKid
  <2>4. QED
    BY <2>1, <2>2, <2>3 DEF ChildrenOf
<1>8. QED
  BY <1>6, <1>7 DEF WholeSubtrees

\* The heap's subtrees.
LEMMA HeapDeals ==
  ASSUME NEW t, Tree(t), NEW T \in Nat, t.total >= MinWork
  PROVE  /\ DealsOut(t, T, PartitionSubtrees(t, T))
         /\ \A i \in DOMAIN PartitionSubtrees(t, T).ranges :
              \E s \in SubtreesOf(t, T) : Interval(PartitionSubtrees(t, T).ranges[i]) = Sub(t, s)
<1> DEFINE S == SubtreesOf(t, T)
           n == Cardinality(S)
           q == Ranked(S, LAMBDA a, b : HeapAbove(t, a, b))
           p == PartitionSubtrees(t, T)
           R == AboveSet(t)
<1>1. S \in SUBSET Fronts /\ IsFiniteSet(S) /\ n \in Nat
  <2>1. S \in SUBSET Fronts
    BY Divided
  <2>2. QED
    BY <2>1, FrontsFinite, FS_Subset, FS_CardinalityType
<1>2. ASSUME NEW r \in S PROVE Lower(S, R, r) = {x \in S : HeapAbove(t, x, r)}
  BY <1>1 DEF Lower, AboveSet
<1>3. \A i \in 1..n : \E r \in S : Cardinality(Lower(S, R, r)) = i - 1
  BY <1>1, AboveSetOrders, RanksList
<1> DEFINE place(i) == CHOOSE r \in S : Cardinality({x \in S : HeapAbove(t, x, r)}) = i - 1
<1>4. q = [i \in 1..n |-> place(i)]
  BY DEF Ranked
<1> HIDE DEF S, R, q, place
<1>5. \A i \in 1..n : q[i] \in S /\ Cardinality(Lower(S, R, q[i])) = i - 1
  <2>1. TAKE i \in 1..n
  <2>2. \E r \in S : Cardinality({x \in S : HeapAbove(t, x, r)}) = i - 1
    BY <1>2, <1>3
  <2>3. q[i] = place(i)
    BY <1>4
  <2>4. q[i] \in S /\ Cardinality({x \in S : HeapAbove(t, x, q[i])}) = i - 1
    BY <2>2, <2>3 DEF place
  <2>5. QED
    BY <1>2, <2>4
<1>6. DOMAIN q = 1..n /\ q = [i \in DOMAIN q |-> q[i]]
  <2>1. DOMAIN q = 1..n
    BY ONLY <1>4
  <2>2. q = [i \in DOMAIN q |-> q[i]]
    BY ONLY <1>4
  <2>3. QED
    BY ONLY <2>1, <2>2
<1>7. Lists(q, S)
  <2>1. Orders(R, S)
    BY <1>1, AboveSetOrders DEF R
  <2>2. ByRank(q, S, R)
    BY <1>5, <1>6 DEF ByRank
  <2>3. QED
    BY <1>1, <2>1, <2>2, RanksList
<1>8. p.ranges = [i \in 1..n |-> <<t.u.first[q[i]], q[i]>>] /\ p.top = TopPart(t, T)
  <2>1. p = [ranges |-> RangesOf(t, SplitHeap(t, T).heap), top |-> SplitHeap(t, T).top]
    <3>1. ~(t.total < MinWork)
      BY TotalIs, PlanAssumption
    <3>2. QED
      BY <3>1 DEF PartitionSubtrees
  <2>2. RangesOf(t, S) = [i \in 1..n |-> <<t.u.first[q[i]], q[i]>>]
    BY DEF RangesOf, q
  <2>3. SplitHeap(t, T).heap = S /\ SplitHeap(t, T).top = TopPart(t, T)
    BY HeapIs DEF S
  <2> HIDE DEF p
  <2>4. p = [ranges |-> RangesOf(t, S), top |-> TopPart(t, T)]
    BY <2>1, <2>3
  <2>5. QED
    BY <2>2, <2>4
<1> HIDE DEF p
<1>9. ASSUME NEW i \in 1..n
      PROVE  /\ q[i] \in S /\ p.ranges[i] = <<t.u.first[q[i]], q[i]>>
             /\ Interval(p.ranges[i]) = Sub(t, q[i]) /\ p.ranges[i] \in Fronts \X Fronts
             /\ p.ranges[i][1] <= p.ranges[i][2]
  <2>1. q[i] \in S /\ q[i] \in Fronts /\ p.ranges[i] = <<t.u.first[q[i]], q[i]>>
    BY <1>1, <1>5, <1>8
  <2>2. t.u.first[q[i]] \in 1..q[i]
    BY <2>1, TreeFacts
  <2>3. t.u.first[q[i]] \in Fronts /\ t.u.first[q[i]] <= q[i]
    BY <2>1, <2>2, FrontsAssumption DEF Fronts
  <2>4. QED
    BY <2>1, <2>3 DEF Interval, Sub
<1>10. DOMAIN p.ranges = 1..n /\ p.ranges \in Seq(Fronts \X Fronts)
  <2>1. DOMAIN p.ranges = 1..n
    BY <1>8
  <2>2. p.ranges \in [1..n -> Fronts \X Fronts]
    <3>1. p.ranges = [i \in 1..n |-> p.ranges[i]]
      BY <1>8
    <3>2. QED
      BY <3>1, <1>9
  <2>3. QED
    BY <1>1, <2>1, <2>2
<1>11. ASSUME NEW i \in 1..n, NEW j \in 1..n, i # j
       PROVE  Interval(p.ranges[i]) \cap Interval(p.ranges[j]) = {}
  <2>1. q[i] # q[j] /\ q[i] \in S /\ q[j] \in S
    BY <1>7, <1>9, <1>11 DEF Lists
  <2>2. Sub(t, q[i]) \cap Sub(t, q[j]) = {}
    BY <2>1, Divided DEF S
  <2>3. QED
    BY <1>9, <2>2
<1>12. ASSUME NEW s \in S PROVE \E i \in 1..n : Sub(t, s) \subseteq Interval(p.ranges[i])
  <2>1. PICK i \in 1..n : q[i] = s
    BY <1>7 DEF Lists
  <2>2. QED
    BY <2>1, <1>9
<1>13. DealsOut(t, T, p)
  <2>1. \A i \in 1..n : \A f \in Interval(p.ranges[i]) :
          \E s \in S : f \in Sub(t, s) /\ Sub(t, s) \subseteq Interval(p.ranges[i])
    BY <1>9
  <2>2. QED
    BY <1>8, <1>9, <1>10, <1>11, <1>12, <2>1 DEF DealsOut, S
<1>14. \A i \in DOMAIN p.ranges : \E s \in S : Interval(p.ranges[i]) = Sub(t, s)
  BY <1>9, <1>10
<1>15. QED
  BY <1>13, <1>14 DEF p, S

\* The order of the tasks.
HeavierSet == {x \in TaskRange \X TaskRange : HeavierRange(x[1], x[2])}

\* A sequence without repetition has as many elements as places.
LEMMA AsMany ==
  ASSUME NEW s, NEW n \in Nat, DOMAIN s = 1..n, s = [i \in 1..n |-> s[i]],
         \A i, j \in 1..n : s[i] = s[j] => i = j
  PROVE  IsFiniteSet(ToSet(s)) /\ Cardinality(ToSet(s)) = n
<1>1. s \in Bijection(1..n, ToSet(s))
  <2>1. ToSet(s) = {s[i] : i \in 1..n}
    BY DEF ToSet
  <2>2. s \in [1..n -> ToSet(s)]
    BY <2>1
  <2>3. s \in Injection(1..n, ToSet(s))
    BY <2>2 DEF Injection, IsInjective
  <2>4. s \in Surjection(1..n, ToSet(s))
    BY <2>1, <2>2 DEF Surjection
  <2>5. QED
    BY <2>3, <2>4 DEF Bijection
<1>2. IsFiniteSet(1..n) /\ Cardinality(1..n) = n
  <2>1. 1 \in Int /\ n \in Int /\ (IF 1 > n THEN 0 ELSE n - 1 + 1) = n
    OBVIOUS
  <2>2. IsFiniteSet(1..n) /\ Cardinality(1..n) = IF 1 > n THEN 0 ELSE n - 1 + 1
    BY <2>1, FS_Interval
  <2>3. QED
    BY <2>1, <2>2
<1>3. QED
  BY <1>1, <1>2, FS_Bijection DEF ExistsBijection

\* The tasks, heaviest first.
LEMMA TasksDeal ==
  ASSUME NEW t, Tree(t), NEW T \in Nat, t.total >= MinWork
  PROVE  /\ DealsOut(t, T, PartitionTasks(t, T))
         /\ Len(PartitionTasks(t, T).ranges) = Len(MergedTasks(t, T))
         /\ \A i, j \in DOMAIN PartitionTasks(t, T).ranges :
              LET r == PartitionTasks(t, T).ranges[i]
                  s == PartitionTasks(t, T).ranges[j]
              IN r[2] + 1 = s[1] => ~WithinGrain(t, T, WorkIn(t, Interval(r)) + WorkIn(t, Interval(s)))
<1> DEFINE out == MergedTasks(t, T)
           n == Len(out)
           S == ToSet(out)
           R == HeavierSet
           q == Ranked(S, HeavierRange)
           p == PartitionTasks(t, T)
<1>1. TasksInv(t, T, out, N)
  BY TasksAll
<1>p. p = [ranges |-> [i \in DOMAIN out |-> LET r == q[i] IN <<r.lo, r.hi>>], top |-> TopPart(t, T)]
  <2>1. ~(t.total < MinWork)
    BY TotalIs, PlanAssumption
  <2>2. QED
    BY <2>1 DEF PartitionTasks
<1>2. q = [i \in 1..Cardinality(S) |-> CHOOSE r \in S : Cardinality({x \in S : HeavierRange(x, r)}) = i - 1]
  BY DEF Ranked
<1> HIDE DEF out, q, p, S
<1>3. /\ out \in Seq(TaskRange) /\ n \in Nat /\ DOMAIN out = 1..n /\ out = [i \in 1..n |-> out[i]]
      /\ \A i \in 1..n : TaskFits(t, T, out[i], N) /\ out[i] \in TaskRange
      /\ \A i, j \in 1..n : i < j => out[i].hi < out[j].lo
  BY <1>1 DEF TasksInv
<1>4. ASSUME NEW i \in 1..n, NEW j \in 1..n, i # j
      PROVE  out[i].hi # out[j].hi /\ Span(out[i]) \cap Span(out[j]) = {}
  <2>1. \A x \in 1..n : out[x].lo \in Int /\ out[x].hi \in Int /\ out[x].lo <= out[x].hi
    <3>1. TAKE x \in 1..n
    <3>2. TaskFits(t, T, out[x], N) /\ out[x] \in TaskRange
      BY <1>3
    <3>3. QED
      BY <3>2 DEF TaskFits, TaskRange, Fronts
  <2>2. out[i].hi < out[j].lo \/ out[j].hi < out[i].lo
    BY <1>3, <1>4
  <2>3. QED
    BY <2>1, <2>2 DEF Span
<1>5. IsFiniteSet(S) /\ Cardinality(S) = n
  <2>1. \A i, j \in 1..n : out[i] = out[j] => i = j
    BY <1>4
  <2>2. QED
    BY <1>3, <2>1, AsMany DEF S
<1>6. /\ S \in SUBSET TaskRange
      /\ \A r \in S : \E i \in 1..n : out[i] = r
      /\ \A i \in 1..n : out[i] \in S
  BY <1>3 DEF S, ToSet
<1>7. Orders(R, S)
  <2>1. \A r \in S : r.work \in Int /\ r.hi \in Int
    BY <1>6 DEF TaskRange, Fronts
  <2>2. \A r, s \in S : r # s => r.hi # s.hi
    BY <1>4, <1>6
  <2>3. \A r, s \in S : <<r, s>> \in R <=> HeavierRange(r, s)
    BY <1>6 DEF HeavierSet
  <2> HIDE DEF R
  <2>4. \A r \in S : ~HeavierRange(r, r)
    BY <2>1 DEF HeavierRange
  <2>5. \A r, s \in S : r # s => HeavierRange(r, s) \/ HeavierRange(s, r)
    BY <2>1, <2>2 DEF HeavierRange
  <2>6. \A x, r, s \in S : HeavierRange(x, r) /\ HeavierRange(r, s) => HeavierRange(x, s)
    BY <2>1 DEF HeavierRange
  <2>7. QED
    BY <2>3, <2>4, <2>5, <2>6 DEF Orders
<1>8. ASSUME NEW r \in S PROVE Lower(S, R, r) = {x \in S : HeavierRange(x, r)}
  BY <1>6 DEF Lower, HeavierSet
<1> HIDE DEF R, n
<1>9. \A i \in 1..n : q[i] \in S /\ Cardinality(Lower(S, R, q[i])) = i - 1
  <2>1. TAKE i \in 1..n
  <2>2. \E r \in S : Cardinality({x \in S : HeavierRange(x, r)}) = i - 1
    <3>1. \E r \in S : Cardinality(Lower(S, R, r)) = i - 1
      BY <1>5, <1>7, RanksList
    <3>2. QED
      BY <3>1, <1>8
  <2>3. q[i] = CHOOSE r \in S : Cardinality({x \in S : HeavierRange(x, r)}) = i - 1
    BY <1>2, <1>5
  <2>4. q[i] \in S /\ Cardinality({x \in S : HeavierRange(x, q[i])}) = i - 1
    BY <2>2, <2>3
  <2>5. QED
    BY <1>8, <2>4
<1>10. Lists(q, S)
  <2>1. DOMAIN q = 1..Cardinality(S) /\ q = [i \in DOMAIN q |-> q[i]]
    <3> DEFINE c(i) == CHOOSE r \in S : Cardinality({x \in S : HeavierRange(x, r)}) = i - 1
               D == 1..Cardinality(S)
    <3>1. q = [i \in D |-> c(i)]
      BY <1>2
    <3> HIDE DEF c, D
    <3>2. DOMAIN q = D /\ q = [i \in DOMAIN q |-> q[i]]
      BY <3>1
    <3>3. QED
      BY <3>2 DEF D
  <2>2. \A i \in DOMAIN q : q[i] \in S /\ Cardinality(Lower(S, R, q[i])) = i - 1
    BY <1>5, <1>9, <2>1
  <2>3. IsFiniteSet(S) /\ Orders(R, S)
    BY <1>5, <1>7
  <2>4. ByRank(q, S, R)
    BY <2>1, <2>2 DEF ByRank
  <2>5. QED
    BY <2>3, <2>4, RanksList
<1>11. \A i \in 1..n : \E a \in 1..n : out[a] = q[i]
  BY <1>6, <1>9
<1>12. \A i, j \in 1..n : i # j => q[i] # q[j]
  BY <1>5, <1>10 DEF Lists
<1>13. \A a \in 1..n : \E i \in 1..n : q[i] = out[a]
  BY <1>5, <1>6, <1>10 DEF Lists
<1>14. /\ p.top = TopPart(t, T) /\ DOMAIN p.ranges = 1..n
       /\ p.ranges = [i \in 1..n |-> p.ranges[i]]
       /\ \A i \in 1..n : p.ranges[i] = <<q[i].lo, q[i].hi>>
  BY <1>p, <1>3
<1>15. ASSUME NEW i \in 1..n
       PROVE  /\ p.ranges[i] \in Fronts \X Fronts /\ p.ranges[i][1] = q[i].lo /\ p.ranges[i][2] = q[i].hi
              /\ p.ranges[i][1] <= p.ranges[i][2] /\ Interval(p.ranges[i]) = Span(q[i])
              /\ TaskFits(t, T, q[i], N)
  <2>1. PICK a \in 1..n : out[a] = q[i]
    BY <1>11
  <2>2. TaskFits(t, T, q[i], N)
    BY <1>3, <2>1
  <2>3. q[i].lo \in Fronts /\ q[i].hi \in Fronts /\ q[i].lo <= q[i].hi
    BY <2>2 DEF TaskFits, TaskRange
  <2>4. p.ranges[i] = <<q[i].lo, q[i].hi>>
    BY <1>14
  <2>5. QED
    BY <2>2, <2>3, <2>4 DEF Interval, Span
<1>16. p.ranges \in Seq(Fronts \X Fronts) /\ Len(p.ranges) = n
  <2>1. p.ranges \in [1..n -> Fronts \X Fronts]
    BY <1>14, <1>15
  <2>2. QED
    BY <1>3, <2>1
<1>17. ASSUME NEW i \in 1..n, NEW j \in 1..n, i # j
       PROVE  Interval(p.ranges[i]) \cap Interval(p.ranges[j]) = {}
  <2>1. PICK a \in 1..n : out[a] = q[i]
    BY <1>11
  <2>2. PICK b \in 1..n : out[b] = q[j]
    BY <1>11
  <2>3. a # b
    BY <2>1, <2>2, <1>12, <1>17
  <2>4. Span(q[i]) \cap Span(q[j]) = {}
    BY <1>4, <2>1, <2>2, <2>3
  <2>5. QED
    BY <1>15, <2>4
<1>18. ASSUME NEW s \in SubtreesOf(t, T) PROVE \E i \in 1..n : Sub(t, s) \subseteq Interval(p.ranges[i])
  <2>1. s <= N
    BY Divided DEF Fronts
  <2>2. PICK a \in 1..n : Sub(t, s) \subseteq Span(out[a])
    BY <1>1, <2>1 DEF TasksInv, n
  <2>3. PICK i \in 1..n : q[i] = out[a]
    BY <1>13
  <2>4. QED
    BY <1>15, <2>2, <2>3
<1>19. DealsOut(t, T, p)
  <2>1. ASSUME NEW i \in 1..n, NEW f \in Interval(p.ranges[i])
        PROVE  \E s \in SubtreesOf(t, T) : f \in Sub(t, s) /\ Sub(t, s) \subseteq Interval(p.ranges[i])
    BY <1>15, <2>1 DEF TaskFits
  <2>2. QED
    BY <1>14, <1>15, <1>16, <1>17, <1>18, <2>1 DEF DealsOut
<1>20. ASSUME NEW i \in 1..n, NEW j \in 1..n, p.ranges[i][2] + 1 = p.ranges[j][1]
       PROVE  ~WithinGrain(t, T, WorkIn(t, Interval(p.ranges[i])) + WorkIn(t, Interval(p.ranges[j])))
  <2>1. PICK a \in 1..n : out[a] = q[i]
    BY <1>11
  <2>2. PICK b \in 1..n : out[b] = q[j]
    BY <1>11
  <2>3. out[a].hi + 1 = out[b].lo
    BY <1>15, <1>20, <2>1, <2>2
  <2>4. \A x \in 1..n : out[x].lo \in Int /\ out[x].hi \in Int /\ out[x].lo <= out[x].hi
    <3>1. TAKE x \in 1..n
    <3>2. TaskFits(t, T, out[x], N) /\ out[x] \in TaskRange
      BY <1>3
    <3>3. QED
      BY <3>2 DEF TaskFits, TaskRange, Fronts
  <2>5. a < b
    <3>1. ~(b < a)
      <4>1. b < a => out[b].hi < out[a].lo
        BY <1>3
      <4>2. QED
        BY <2>3, <2>4, <4>1
    <3>2. a # b
      BY <2>3, <2>4
    <3>3. QED
      BY <3>1, <3>2
  <2>6. b = a + 1
    <3>1. CASE a + 1 < b
      <4>1. a + 1 \in 1..n
        BY <1>3, <3>1
      <4>2. out[a].hi < out[a + 1].lo /\ out[a + 1].hi < out[b].lo
        BY <1>3, <3>1, <4>1
      <4>3. QED
        BY <2>3, <2>4, <4>1, <4>2
    <3>2. QED
      BY <2>5, <3>1
  <2>7. ~WithinGrain(t, T, out[a].work + out[b].work)
    BY <1>1, <2>3, <2>6 DEF TasksInv, n
  <2>8. out[a].work = WorkIn(t, Interval(p.ranges[i])) /\ out[b].work = WorkIn(t, Interval(p.ranges[j]))
    BY <1>15, <2>1, <2>2 DEF TaskFits
  <2>9. QED
    BY <2>7, <2>8
<1>21. QED
  BY <1>14, <1>16, <1>19, <1>20 DEF p, n, out

\* Both partitions of a tree with work enough.
LEMMA Partitioned ==
  ASSUME NEW t, Tree(t), t.v = scn.view, NEW T \in Nat, t.total >= MinWork
  PROVE  SoundPartition(t, T)
<1> DEFINE heap == PartitionSubtrees(t, T)
           tasks == PartitionTasks(t, T)
<1>1. DealsOut(t, T, heap) /\ DealsOut(t, T, tasks)
  BY HeapDeals, TasksDeal
<1>2. /\ \A i \in DOMAIN heap.ranges : \E s \in SubtreesOf(t, T) : Interval(heap.ranges[i]) = Sub(t, s)
      /\ \A i, j \in DOMAIN tasks.ranges :
           tasks.ranges[i][2] + 1 = tasks.ranges[j][1]
           => ~WithinGrain(t, T, WorkIn(t, Interval(tasks.ranges[i])) + WorkIn(t, Interval(tasks.ranges[j])))
  BY HeapDeals, TasksDeal
<1> HIDE DEF heap, tasks
<1>3. Shares(heap) /\ Shares(tasks) /\ WholeSubtrees(heap) /\ WholeSubtrees(tasks)
  BY <1>1, DealtFits
<1>4. \A i \in DOMAIN heap.ranges :
        \E j \in DOMAIN tasks.ranges : Interval(heap.ranges[i]) \subseteq Interval(tasks.ranges[j])
  BY <1>1, <1>2 DEF DealsOut
<1>5. tasks.top = heap.top
  BY <1>1 DEF DealsOut
<1>6. \A r : WorkOf(t, Interval(r)) = WorkIn(t, Interval(r))
  BY DEF WorkOf, WorkIn, SumOn
<1>7. QED
  BY <1>2, <1>3, <1>4, <1>5, <1>6 DEF SoundPartition, heap, tasks

\* The recursion of the fold in AlongPaths(t, T).
PathsFold(g, t, T) ==
  g = [s \in SUBSET DOMAIN Nodes(t.v) |->
         IF s = {} THEN NoPath(t) ELSE PathTurn(t, T, g[s \ {Max(s)}], Nodes(t.v)[Max(s)])]

\* The fold is what it chooses.
LEMMA PathsIsFold ==
  ASSUME NEW t, NEW T PROVE AlongPaths(t, T) = (CHOOSE g : PathsFold(g, t, T))[DOMAIN Nodes(t.v)]
BY DEF AlongPaths, FoldLeft, MapThenFoldSet, PathsFold

\* The steps of the fold, one node after the other.
PathsTurns(G, n, t, T) == G[0] = NoPath(t) /\ \A k \in 1..n : G[k] = PathTurn(t, T, G[k - 1], k)

\* The walk of AlongPaths is its loop.
LEMMA PathsUnrolled ==
  ASSUME NEW t, NEW T, Len(t.v.work) \in Nat
  PROVE  \E G : PathsTurns(G, Len(t.v.work), t, T) /\ AlongPaths(t, T) = G[Len(t.v.work)]
<1> DEFINE n == Len(t.v.work)
           Upto(g, m) ==
             g = [s \in SUBSET (1..m) |->
                    IF s = {} THEN NoPath(t) ELSE PathTurn(t, T, g[s \ {Max(s)}], Max(s))]
           P == {m \in Nat : \E g : Upto(g, m)}
<1>1. 0 \in P
  <2>1. Upto([s \in SUBSET (1..0) |-> NoPath(t)], 0)
    OBVIOUS
  <2>2. QED
    BY <2>1
<1>2. ASSUME NEW m \in P PROVE m + 1 \in P
  <2>1. PICK h : Upto(h, m)
    OBVIOUS
  <2>2. m \in Nat
    OBVIOUS
  <2> DEFINE g == [s \in SUBSET (1..(m + 1)) |->
                     IF m + 1 \notin s THEN h[s] ELSE PathTurn(t, T, h[s \ {m + 1}], m + 1)]
  <2>3. ASSUME NEW s \in SUBSET (1..(m + 1)), s # {}, m + 1 \notin s
        PROVE  /\ s \in SUBSET (1..m) /\ s \ {Max(s)} \in SUBSET (1..m)
               /\ s \ {Max(s)} \in SUBSET (1..(m + 1)) /\ m + 1 \notin s \ {Max(s)}
    <3>1. s \in SUBSET (1..m)
      BY <2>2, <2>3, LastIs
    <3>2. QED
      BY <3>1, <2>3
  <2>4. ASSUME NEW s \in SUBSET (1..(m + 1)), m + 1 \in s
        PROVE  /\ Max(s) = m + 1 /\ s \ {m + 1} \in SUBSET (1..(m + 1))
    BY <2>2, <2>4, LastIs
  <2>5. ASSUME NEW s \in SUBSET (1..(m + 1))
        PROVE  g[s] = IF s = {} THEN NoPath(t) ELSE PathTurn(t, T, g[s \ {Max(s)}], Max(s))
    <3>1. CASE s = {}
      <4>1. m + 1 \notin s /\ {} \in SUBSET (1..m)
        BY <3>1
      <4>2. g[s] = h[{}]
        BY <4>1, <3>1
      <4>3. h[{}] = NoPath(t)
        BY <2>1, <4>1
      <4>4. QED
        BY <4>2, <4>3, <3>1
    <3>2. CASE s # {} /\ m + 1 \notin s
      <4>1. g[s] = h[s] /\ g[s \ {Max(s)}] = h[s \ {Max(s)}]
        BY <3>2, <2>3
      <4>2. s \in SUBSET (1..m)
        BY <3>2, <2>3
      <4> HIDE DEF g
      <4>3. h[s] = PathTurn(t, T, h[s \ {Max(s)}], Max(s))
        BY <2>1, <4>2, <3>2
      <4>4. QED
        BY <4>1, <4>3, <3>2
    <3>3. CASE m + 1 \in s
      <4>1. g[s] = PathTurn(t, T, h[s \ {m + 1}], m + 1)
        BY <3>3
      <4>2. Max(s) = m + 1
        BY <3>3, <2>4
      <4>3. g[s \ {m + 1}] = h[s \ {m + 1}]
        BY <3>3, <2>4
      <4>4. s # {}
        BY <3>3
      <4> HIDE DEF g
      <4>5. QED
        BY <4>1, <4>2, <4>3, <4>4
    <3>4. QED
      BY <3>1, <3>2, <3>3
  <2>6. g = [s \in SUBSET (1..(m + 1)) |-> g[s]]
    OBVIOUS
  <2> HIDE DEF g
  <2>7. Upto(g, m + 1)
    BY <2>5, <2>6
  <2> HIDE DEF Upto
  <2>8. QED
    BY <2>7, <2>2
<1>3. \A m \in Nat : m \in P
  <2> HIDE DEF P
  <2> QED BY <1>1, <1>2, Upwards DEF P
<1> DEFINE F == CHOOSE g : PathsFold(g, t, T)
<1>4. DOMAIN Nodes(t.v) = 1..n /\ \A k \in 1..n : Nodes(t.v)[k] = k
  BY DEF Nodes
<1>5. ASSUME NEW k \in 1..n PROVE Max(1..k) = k /\ (1..k) \ {k} = 1..(k - 1)
  BY <1>5, UpToLast
<1>6. \A s \in SUBSET (1..n) : s # {} => Max(s) \in 1..n
  BY LastOf
<1>7. PathsFold(F, t, T) /\ AlongPaths(t, T) = F[1..n]
  <2>1. PICK g : Upto(g, n)
    BY <1>3
  <2>2. ASSUME NEW s \in SUBSET (1..n), s # {} PROVE Nodes(t.v)[Max(s)] = Max(s)
    BY <1>4, <1>6, <2>2
  <2>3. PathsFold(g, t, T)
    BY <2>1, <2>2, <1>4 DEF PathsFold
  <2>4. PathsFold(F, t, T)
    BY <2>3
  <2>5. QED
    BY <2>4, <1>4, PathsIsFold
<1> HIDE DEF F
<1> DEFINE G == [k \in 0..n |-> F[1..k]]
<1>8. G[0] = NoPath(t)
  <2>1. 1..0 = {} /\ {} \in SUBSET DOMAIN Nodes(t.v) /\ 0 \in 0..n
    OBVIOUS
  <2>2. G[0] = F[{}]
    BY <2>1
  <2>3. QED
    BY <2>1, <2>2, <1>7 DEF PathsFold
<1>9. ASSUME NEW k \in 1..n PROVE G[k] = PathTurn(t, T, G[k - 1], k)
  <2>1. 1..k \in SUBSET DOMAIN Nodes(t.v) /\ 1..k # {} /\ Nodes(t.v)[k] = k /\ k \in 0..n /\ k - 1 \in 0..n
    BY <1>4, <1>9
  <2>2. G[k] = F[1..k] /\ G[k - 1] = F[1..(k - 1)]
    BY <2>1
  <2>3. F[1..k] = PathTurn(t, T, F[(1..k) \ {Max(1..k)}], Nodes(t.v)[Max(1..k)])
    BY <2>1, <1>7 DEF PathsFold
  <2>4. QED
    BY <2>1, <2>2, <2>3, <1>5
<1>10. G[n] = F[1..n]
  OBVIOUS
<1> HIDE DEF G
<1>11. QED
  BY <1>7, <1>8, <1>9, <1>10 DEF PathsTurns


-----------------------------------------------------------------------------
(* Numbers                                                                 *)

\* The greatest of a finite set of numbers.
LEMMA MaxIn ==
  ASSUME NEW D \in SUBSET Int, IsFiniteSet(D), D # {}
  PROVE  Max(D) \in D /\ \A y \in D : Max(D) >= y
<1> DEFINE Has(S) == \E x \in S : \A y \in S : x >= y
           P == {S \in SUBSET D : S # {} => Has(S)}
<1>1. ASSUME NEW S \in SUBSET D, \A Q \in SUBSET D : Cardinality(Q) < Cardinality(S) => Q \in P, S # {}
      PROVE  Has(S)
  <2>1. PICK x \in S : TRUE
    BY <1>1
  <2>2. S \ {x} \in P
    BY CardFacts, <1>1
  <2>3. CASE S \ {x} = {}
    BY <2>3
  <2>4. CASE S \ {x} # {}
    <3>1. PICK s \in S \ {x} : \A r \in S \ {x} : s >= r
      BY <2>2, <2>4
    <3>2. x \in Int /\ s \in Int /\ \A r \in S : r \in Int
      OBVIOUS
    <3>3. CASE s >= x
      BY <3>1, <3>3
    <3>4. CASE ~(s >= x)
      <4>1. \A r \in S : x >= r
        BY <3>1, <3>2, <3>4
      <4>2. QED
        BY <4>1
    <3>5. QED
      BY <3>3, <3>4
  <2>5. QED
    BY <2>3, <2>4
<1>2. SUBSET D \subseteq P
  <2>1. \A S \in SUBSET D :
          (\A Q \in SUBSET D : Cardinality(Q) < Cardinality(S) => Q \in P) => S \in P
    BY <1>1
  <2> HIDE DEF P
  <2>2. QED
    BY <2>1, SmallerFirst
<1>3. \E x \in D : \A y \in D : x >= y
  BY <1>2
<1>4. QED
  BY <1>3 DEF Max

\* The greater of two numbers.
LEMMA MaxTwo ==
  ASSUME NEW a \in Int, NEW b \in Int
  PROVE  /\ Max({a, b}) \in Int /\ Max({a, b}) >= a /\ Max({a, b}) >= b
         /\ Max({a, b}) = a \/ Max({a, b}) = b
<1>1. {a, b} \in SUBSET Int /\ {a, b} # {}
  OBVIOUS
<1>2. IsFiniteSet({a, b})
  <2>1. IsFiniteSet({a}) /\ {a} \cup {b} = {a, b}
    BY FS_Singleton
  <2>2. QED
    BY <2>1, FS_AddElement
<1> DEFINE D == {a, b}
<1>3. a \in D /\ b \in D /\ \A x \in D : x = a \/ x = b
  OBVIOUS
<1> HIDE DEF D
<1>4. Max(D) \in D /\ \A y \in D : Max(D) >= y
  BY <1>1, <1>2, MaxIn DEF D
<1>5. QED
  BY <1>3, <1>4 DEF D

\* The lesser of two numbers.
LEMMA MinTwo ==
  ASSUME NEW a \in Nat, NEW b \in Nat
  PROVE  /\ Min({a, b}) \in Nat /\ Min({a, b}) <= a /\ Min({a, b}) <= b
         /\ Min({a, b}) = a \/ Min({a, b}) = b
<1> DEFINE D == {a, b}
<1>1. D \in SUBSET Nat /\ D # {} /\ a \in D /\ b \in D /\ \A x \in D : x = a \/ x = b
  OBVIOUS
<1> HIDE DEF D
<1>2. Min(D) \in D /\ \A y \in D : Min(D) <= y
  BY <1>1, MinIn
<1>3. QED
  BY <1>1, <1>2 DEF D

\* A factor can be left out.
LEMMA TimesLess ==
  ASSUME NEW c \in Nat \ {0}, NEW a \in Nat, NEW b \in Nat, c * a <= c * b PROVE a <= b
<1>1. ASSUME b + 1 <= a PROVE FALSE
  <2>1. c * (b + 1) <= c * a
    BY <1>1, TimesMore
  <2>2. c * (b + 1) = c * b + c /\ c * b \in Nat /\ c * a \in Nat
    OBVIOUS
  <2>3. QED
    BY <2>1, <2>2
<1>2. QED
  BY <1>1

\* Fractions are ordered.
LEMMA FractionsOrdered ==
  ASSUME NEW a \in Nat, NEW b \in Nat \ {0}, NEW c \in Nat, NEW d \in Nat \ {0}, NEW e \in Nat, NEW g \in Nat \ {0},
         a * d <= c * b, c * g <= e * d
  PROVE  a * g <= e * b
<1>1. g * (a * d) <= g * (c * b)
  <2>1. a * d \in Nat /\ c * b \in Nat
    OBVIOUS
  <2>2. QED
    BY <2>1, TimesMore
<1>2. b * (c * g) <= b * (e * d)
  <2>1. c * g \in Nat /\ e * d \in Nat
    OBVIOUS
  <2>2. QED
    BY <2>1, TimesMore
<1>3. g * (a * d) = d * (a * g) /\ g * (c * b) = b * (c * g) /\ b * (e * d) = d * (e * b)
  OBVIOUS
<1>4. a * g \in Nat /\ e * b \in Nat /\ d * (a * g) \in Nat /\ d * (e * b) \in Nat /\ g * (c * b) \in Nat
  OBVIOUS
<1>5. d * (a * g) <= d * (e * b)
  BY <1>1, <1>2, <1>3, <1>4
<1>6. QED
  BY <1>4, <1>5, TimesLess

\* The overhead of more threads is more than they can save.
LEMMA Overhead ==
  ASSUME NEW x \in Nat, NEW T \in Nat, NEW p \in Nat, x <= 4 * p
  PROVE  x * T <= x + (T * T) * p
<1> DEFINE y == T * T
<1>1. y \in Nat /\ y + 4 >= 4 * T
  <2>1. \A d \in Int : d * d >= 0
    OBVIOUS
  <2>2. T - 2 \in Int /\ (T - 2) * (T - 2) = T * T - 4 * T + 4 /\ T * T \in Nat
    OBVIOUS
  <2>3. T * T - 4 * T + 4 >= 0
    BY <2>1, <2>2
  <2>4. QED
    BY <2>2, <2>3
<1> HIDE DEF y
<1>2. x * (4 * T) <= x * (y + 4)
  <2>1. 4 * T \in Nat /\ y + 4 \in Nat /\ 4 * T <= y + 4
    BY <1>1
  <2>2. QED
    BY <2>1, TimesMore
<1>3. y * x <= y * (4 * p)
  <2>1. 4 * p \in Nat
    OBVIOUS
  <2>2. QED
    BY <2>1, <1>1, TimesMore
<1>4. x * (4 * T) = 4 * (x * T) /\ x * (y + 4) = y * x + 4 * x /\ y * (4 * p) = 4 * (y * p)
  BY <1>1
<1>5. x * T \in Nat /\ y * x \in Nat /\ y * p \in Nat
  BY <1>1
<1>6. x * T <= x + y * p
  BY <1>2, <1>3, <1>4, <1>5
<1>7. QED
  BY <1>6 DEF y

-----------------------------------------------------------------------------
(* The cost model                                                          *)

PathsFit(p) == p = [below |-> p.below, cp |-> p.cp] /\ p.below \in [Fronts -> Nat] /\ p.cp \in Nat

\* A turn along the paths.
LEMMA PathNext ==
  ASSUME NEW t, Tree(t), NEW T \in Nat, NEW p, PathsFit(p), NEW s \in Fronts
  PROVE  PathsFit(PathTurn(t, T, p, s))
<1> DEFINE a == PathStep(t, T, p.below, s)
           q == t.v.parent[s]
           x == Max({p.cp, a})
           y == Max({p.below[q], a})
<1>1. a \in Nat
  <2>1. t.v.work[s] \in Nat /\ p.below[s] \in Nat
    BY TreeFacts DEF PathsFit
  <2>2. T * t.v.work[s] \in Nat
    BY <2>1
  <2>3. QED
    BY <2>1, <2>2 DEF PathStep
<1> HIDE DEF a
<1>2. x \in Nat
  <2>1. p.cp \in Nat /\ p.cp \in Int /\ a \in Int
    BY <1>1 DEF PathsFit
  <2>2. x = p.cp \/ x = a
    BY <2>1, MaxTwo
  <2>3. QED
    BY <1>1, <2>1, <2>2
<1>3. q # 0 => q \in Fronts /\ y \in Nat
  <2>1. q # 0 => q \in Fronts
    BY TreeFacts
  <2>2. q # 0 => p.below[q] \in Nat
    BY <2>1 DEF PathsFit
  <2>3. ASSUME q # 0 PROVE y \in Nat
    <3>1. p.below[q] \in Nat /\ p.below[q] \in Int /\ a \in Int
      BY <1>1, <2>2, <2>3
    <3>2. y = p.below[q] \/ y = a
      BY <3>1, MaxTwo
    <3>3. QED
      BY <1>1, <3>1, <3>2
  <2>4. QED
    BY <2>1, <2>3
<1>4. PathTurn(t, T, p, s) = IF ~Heavy(t, T, s) THEN p
                             ELSE IF q = 0 THEN [p EXCEPT !.cp = x] ELSE [p EXCEPT !.below[q] = y]
  BY DEF PathTurn, a
<1> HIDE DEF q, x, y
<1>5. [p EXCEPT !.cp = x] = [below |-> p.below, cp |-> x]
  BY DEF PathsFit
<1>6. [p EXCEPT !.below[q] = y] = [below |-> [p.below EXCEPT ![q] = y], cp |-> p.cp]
  BY DEF PathsFit
<1>7. q # 0 => [p.below EXCEPT ![q] = y] \in [Fronts -> Nat]
  BY <1>3 DEF PathsFit
<1>8. QED
  BY <1>2, <1>4, <1>5, <1>6, <1>7 DEF PathsFit

\* The paths have lengths.
LEMMA PathsAll == ASSUME NEW t, Tree(t), NEW T \in Nat PROVE AlongPaths(t, T).cp \in Nat
<1>1. PICK G : PathsTurns(G, N, t, T) /\ AlongPaths(t, T) = G[N]
  BY PathsUnrolled, TreeFacts, FrontsAssumption
<1> DEFINE Q == {k \in Nat : k <= N => PathsFit(G[k])}
<1>2. 0 \in Q
  <2>1. G[0] = [below |-> [s \in Fronts |-> 0], cp |-> 0]
    BY <1>1, TreeFacts DEF PathsTurns, NoPath
  <2>2. [s \in Fronts |-> 0] \in [Fronts -> Nat]
    OBVIOUS
  <2>3. PathsFit(G[0])
    BY <2>1, <2>2 DEF PathsFit
  <2>4. QED
    BY <2>3
<1>3. ASSUME NEW k \in Q PROVE k + 1 \in Q
  <2>1. ASSUME k + 1 <= N PROVE PathsFit(G[k + 1])
    <3>1. k \in Nat /\ k <= N /\ k + 1 \in 1..N /\ k + 1 \in Fronts /\ (k + 1) - 1 = k
      BY <2>1, FrontsAssumption DEF Fronts
    <3>2. G[k + 1] = PathTurn(t, T, G[k], k + 1)
      BY <3>1, <1>1 DEF PathsTurns
    <3>3. PathsFit(G[k])
      BY <3>1, <1>3
    <3>4. QED
      BY <3>1, <3>2, <3>3, PathNext
  <2>2. QED
    BY <2>1
<1>4. N \in Q
  <2>1. Q \in SUBSET Nat
    OBVIOUS
  <2> HIDE DEF Q
  <2> QED BY <2>1, <1>2, <1>3, Upwards, FrontsAssumption
<1>5. PathsFit(AlongPaths(t, T))
  BY <1>1, <1>4, FrontsAssumption
<1>6. QED
  BY <1>5 DEF PathsFit

\* The work of the subtrees and of the top part is all the work.
LEMMA SubsAndTop ==
  ASSUME NEW t, Tree(t), NEW T \in Nat
  PROVE  /\ SubTotal(t, T) \in Nat /\ WorkOf(t, TopPart(t, T)) \in Nat
         /\ t.total = SubTotal(t, T) + WorkOf(t, TopPart(t, T))
<1> DEFINE M == [s \in Fronts |-> Sub(t, s)]
           S == SubtreesOf(t, T)
           H == TopPart(t, T)
           w == t.u.work
           f == t.v.work
<1>1. /\ \A x \in Fronts : f[x] \in Nat
      /\ \A c \in Fronts : M[c] = Sub(t, c) /\ M[c] \in SUBSET Fronts /\ w[c] = SumOn(f, M[c])
  BY TreeFacts, SubWork DEF WorkIn
<1>2. S \in SUBSET Fronts /\ IsFiniteSet(S) /\ H \in SUBSET Fronts
  <2>1. S \in SUBSET Fronts /\ H \in SUBSET Fronts
    BY Divided, TreeFacts DEF TopPart
  <2>2. QED
    BY <2>1, FrontsFinite, FS_Subset
<1>3. \A c, d \in S : c # d => Sub(t, c) \cap Sub(t, d) = {}
  BY Divided
<1>4. \A g \in Fronts : g \notin H <=> \E c \in S : g \in Sub(t, c)
  <2>1. \A g \in Fronts : g \in H <=> Heavy(t, T, g)
    BY TreeFacts DEF TopPart
  <2>2. QED
    BY <2>1, Divided
<1>5. t.total = SumOn(f, Fronts) /\ SubTotal(t, T) = SumOn(w, S) /\ WorkOf(t, H) = SumOn(f, H)
  BY TotalIs DEF WorkIn, SubTotal, WorkOf, SumOn
<1> HIDE DEF M, S, H, w, f
<1> DEFINE U == UNION {M[c] : c \in S}
<1>6. U = Fronts \ H
  BY <1>1, <1>2, <1>4
<1>7. \A c, d \in S : c # d => M[c] \cap M[d] = {}
  BY <1>1, <1>2, <1>3
<1>8. SumOn(w, S) = SumOn(f, U)
  BY <1>1, <1>2, <1>7, FrontsFinite, SumFamily
<1>9. U \in SUBSET Fronts /\ H \in SUBSET Fronts /\ U \cap H = {} /\ U \cup H = Fronts
  BY <1>2, <1>6
<1> HIDE DEF U
<1>10. SumOn(f, U \cup H) = SumOn(f, U) + SumOn(f, H)
  BY <1>1, <1>9, FrontsFinite, SumUnion
<1>11. SumOn(f, U) \in Nat /\ SumOn(f, H) \in Nat
  BY <1>1, <1>9, FrontsFinite, SumOne
<1>12. QED
  BY <1>5, <1>8, <1>9, <1>10, <1>11 DEF H

IntCosts(c) == /\ c.per_thread \in Int /\ c.per_top_front \in Int
               /\ c.per_split_front_thread \in Int /\ c.split_cap \in Int

\* The terms of a plan.
LEMMA TermsFit ==
  ASSUME NEW t, Tree(t), NEW T \in Nat
  PROVE  LET k == PlanTerms(t, T)
         IN  /\ k.threads = T /\ k.sub_total \in Nat /\ k.max_subtree \in Int /\ k.top_total \in Nat
             /\ k.cp_top \in Nat /\ k.top_fronts \in Nat /\ k.split_top_fronts \in Nat
             /\ k.split_top_work \in Nat /\ k.split_top_work <= k.top_total
             /\ t.total = k.sub_total + k.top_total
<1> DEFINE k == PlanTerms(t, T)
           out == MergedTasks(t, T)
           H == TopPart(t, T)
           D == Tiled(t, T)
<1>1. H \in SUBSET Fronts /\ D \in SUBSET H
  BY TreeFacts DEF TopPart, Tiled
<1>2. /\ k.threads = T /\ k.sub_total = SubTotal(t, T) /\ k.top_total = WorkOf(t, H)
      /\ k.max_subtree = Max({0} \cup {r.work : r \in ToSet(out)})
      /\ k.cp_top = AlongPaths(t, T).cp /\ k.top_fronts = Cardinality(H)
      /\ k.split_top_fronts = Cardinality(D) /\ k.split_top_work = WorkOf(t, D)
  BY DEF PlanTerms
<1> HIDE DEF k, H, D
<1>3. k.top_fronts \in Nat /\ k.split_top_fronts \in Nat
  <2>1. H \in SUBSET Fronts /\ D \in SUBSET Fronts
    BY <1>1
  <2>2. IsFiniteSet(H) /\ IsFiniteSet(D)
    BY <2>1, FrontsFinite, FS_Subset
  <2>3. QED
    BY <1>2, <2>2, FS_CardinalityType
<1>4. k.sub_total \in Nat /\ k.top_total \in Nat /\ t.total = k.sub_total + k.top_total
  BY <1>2, SubsAndTop DEF H
<1>5. k.split_top_work \in Nat /\ k.split_top_work <= k.top_total
  <2>1. \A x \in Fronts : t.v.work[x] \in Nat
    BY TreeFacts
  <2>2. SumOn(t.v.work, D) \in Nat /\ SumOn(t.v.work, D) <= SumOn(t.v.work, H)
    BY <1>1, <2>1, FrontsFinite, SumPart
  <2>3. QED
    BY <1>2, <2>2 DEF WorkOf, SumOn
<1>6. k.max_subtree \in Int
  <2> DEFINE n == Len(out)
             E == {0} \cup {r.work : r \in ToSet(out)}
             w == [i \in 0..n |-> IF i = 0 THEN 0 ELSE out[i].work]
  <2>1. TasksInv(t, T, out, N)
    BY TasksAll
  <2>2. n \in Nat /\ DOMAIN out = 1..n /\ \A i \in 1..n : out[i].work \in Nat
    <3>1. out \in Seq(TaskRange) /\ \A i \in 1..Len(out) : TaskFits(t, T, out[i], N)
      BY <2>1 DEF TasksInv
    <3> HIDE DEF out
    <3>2. \A i \in 1..n : out[i] \in TaskRange
      BY <3>1 DEF TaskFits
    <3>3. QED
      BY <3>1, <3>2 DEF TaskRange
  <2> HIDE DEF out
  <2>3. w \in Surjection(0..n, E)
    <3>1. \A i \in 0..n : w[i] = 0 \/ \E j \in 1..n : w[i] = out[j].work
      BY <2>2
    <3>2. \A e \in E : e = 0 \/ \E j \in 1..n : e = out[j].work
      BY <2>2 DEF ToSet
    <3>3. \A j \in 1..n : out[j].work \in E /\ j \in 0..n /\ w[j] = out[j].work
      BY <2>2 DEF ToSet
    <3>4. 0 \in E /\ 0 \in 0..n /\ w[0] = 0
      BY <2>2
    <3>8. w = [i \in 0..n |-> w[i]]
      OBVIOUS
    <3>9. \A i \in 0..n : i = 0 \/ (i \in 1..n /\ w[i] = out[i].work)
      BY <2>2
    <3> HIDE DEF E, w
    <3>5. w \in [0..n -> E]
      BY <3>3, <3>4, <3>8, <3>9
    <3>6. \A e \in E : \E i \in 0..n : w[i] = e
      BY <3>2, <3>3, <3>4
    <3>7. QED
      BY <3>5, <3>6 DEF Surjection
  <2>4. IsFiniteSet(0..n)
    BY <2>2, FS_Interval
  <2>5. IsFiniteSet(E)
    <3> HIDE DEF E, w, n
    <3>1. QED
      BY <2>3, <2>4, FS_Surjection
  <2>6. E \in SUBSET Int /\ E # {}
    BY <2>2 DEF ToSet
  <2> HIDE DEF E
  <2>7. Max(E) \in Int
    BY <2>5, <2>6, MaxIn
  <2>8. QED
    BY <1>2, <2>7 DEF E
<1>7. k.cp_top \in Nat
  BY <1>2, PathsAll
<1>8. QED
  BY <1>2, <1>3, <1>4, <1>5, <1>6, <1>7 DEF k

\* A plan of T threads costs no less than the serial run, when the overhead
\* of a thread is a fourth of all the work.
LEMMA CostNoLess ==
  ASSUME NEW T \in Nat, NEW K \in Nat, K <= T, NEW sub \in Nat, NEW top \in Nat, NEW split \in Nat,
         split <= top, NEW p \in Nat, sub + top <= 4 * p,
         NEW m \in Int, m >= sub * K, NEW w \in Int, w >= (top - split) * K + split * T,
         NEW o \in Int, o >= T * p
  PROVE  50 * (sub + top) * (T * K) <= 51 * (m + w + o * (T * K)) * 1
<1> DEFINE x == sub + top
           P == T * K
           A == m + w + o * P
<1>1. x \in Nat /\ P \in Nat /\ T * p \in Nat /\ o \in Nat
  <2>1. T * p \in Nat /\ T * K \in Nat
    OBVIOUS
  <2>2. QED
    BY <2>1
<1>2. w >= top * K
  <2>1. split * K <= split * T
    BY TimesMore
  <2>2. (top - split) * K + split * K = top * K
    OBVIOUS
  <2>3. (top - split) * K \in Int /\ split * K \in Int /\ split * T \in Int /\ top * K \in Int
    OBVIOUS
  <2>4. QED
    BY <2>1, <2>2, <2>3
<1>3. P * (T * p) <= P * o
  <2>1. T * p <= o
    BY <1>1
  <2> HIDE DEF P
  <2>2. QED
    BY <1>1, <2>1, TimesMore
<1>4. x * T <= x + (T * T) * p
  <2>1. x <= 4 * p
    OBVIOUS
  <2> HIDE DEF x
  <2>2. QED
    BY <1>1, <2>1, Overhead
<1>5. K * (x * T) <= K * (x + (T * T) * p)
  <2>1. x * T \in Nat /\ x + (T * T) * p \in Nat
    <3> HIDE DEF x
    <3>1. x * T \in Nat /\ T * T \in Nat
      BY <1>1
    <3>2. (T * T) * p \in Nat
      BY <3>1
    <3>3. QED
      BY <1>1, <3>1, <3>2
  <2> HIDE DEF x
  <2>2. QED
    BY <1>4, <2>1, TimesMore
<1>6. K * (x + (T * T) * p) = sub * K + top * K + P * (T * p)
  OBVIOUS
<1>7. K * (x * T) = x * P /\ P * o = o * P
  OBVIOUS
<1>8. sub * K \in Int /\ top * K \in Int /\ P * (T * p) \in Int /\ x * P \in Nat /\ o * P \in Int
  <2>1. sub * K \in Int /\ top * K \in Int
    OBVIOUS
  <2> HIDE DEF x, P
  <2>2. QED
    BY <1>1, <2>1
<1>9. x * P <= A
  <2> DEFINE a == x * P
             b == sub * K
             d == top * K
             e == P * (T * p)
             g == o * P
  <2>1. a <= b + d + e /\ e <= g /\ m >= b /\ w >= d /\ A = m + w + g
    BY <1>3, <1>5, <1>6, <1>7, <1>2
  <2>2. a \in Int /\ b \in Int /\ d \in Int /\ e \in Int /\ g \in Int
    BY <1>8
  <2> HIDE DEF a, b, d, e, g, A, P, x
  <2>3. a <= A
    BY <2>1, <2>2
  <2>4. QED
    BY <2>3 DEF a
<1>10. A \in Int
  <2> HIDE DEF P
  <2>1. QED
    BY <1>8
<1>11. 50 * (x * P) <= 51 * A
  <2> DEFINE a == x * P
  <2>1. a \in Nat /\ a <= A
    BY <1>8, <1>9
  <2> HIDE DEF a, A
  <2>2. 50 * a <= 51 * A
    BY <1>10, <2>1
  <2>3. QED
    BY <2>2 DEF a
<1>12. 50 * x * P = 50 * (x * P) /\ 51 * A * 1 = 51 * A
  <2> HIDE DEF x, P, A
  <2>1. QED
    BY <1>1, <1>10
<1>13. QED
  BY <1>11, <1>12

\* What factor_plan_cost returns.
LEMMA CostFits ==
  ASSUME NEW t, Tree(t), NEW T \in Nat, T >= 1, NEW c, IntCosts(c)
  PROVE  LET q == PlanCost(PlanTerms(t, T), c)
         IN  /\ q[1] \in Int /\ q[2] \in Nat \ {0}
             /\ c.per_thread >= 0 /\ c.per_top_front >= 0 /\ c.per_split_front_thread >= 0
                /\ t.total <= 4 * c.per_thread => Near(<<t.total, 1>>, q)
<1> DEFINE k == PlanTerms(t, T)
           K == Capped(T, c)
           P == Parts(k, c)
           m == Max({k.max_subtree * P, k.sub_total * K})
           w == TopTime(k, c)
           o == Overheads(k, c)
           A == m + w + o * P
           q == PlanCost(k, c)
<1>1. /\ k.threads = T /\ k.sub_total \in Nat /\ k.max_subtree \in Int /\ k.top_total \in Nat
      /\ k.cp_top \in Nat /\ k.top_fronts \in Nat /\ k.split_top_fronts \in Nat
      /\ k.split_top_work \in Nat /\ k.split_top_work <= k.top_total
      /\ t.total = k.sub_total + k.top_total
  BY TermsFit
<1> HIDE DEF k
<1>2. c.per_thread \in Int /\ c.per_top_front \in Int /\ c.per_split_front_thread \in Int /\ c.split_cap \in Int
  BY DEF IntCosts
<1>3. K \in Nat /\ K >= 1 /\ K <= T
  <2> DEFINE a == Max({1, c.split_cap})
  <2>1. a \in Int /\ a >= 1
    <3>1. 1 \in Int
      OBVIOUS
    <3>2. QED
      BY <1>2, <3>1, MaxTwo
  <2>2. K = Min({T, a})
    BY DEF Capped
  <2> HIDE DEF a, K
  <2>3. a \in Nat
    BY <2>1
  <2>4. Min({T, a}) \in Nat /\ Min({T, a}) <= T /\ (Min({T, a}) = T \/ Min({T, a}) = a)
    BY <2>3, MinTwo
  <2>5. QED
    BY <2>1, <2>2, <2>4
<1>4. P = T * K
  BY <1>1 DEF Parts
<1> HIDE DEF K
<1>5. P \in Nat \ {0}
  <2> HIDE DEF P
  <2>1. T * K \in Nat /\ T * K # 0
    BY <1>3
  <2>2. QED
    BY <1>4, <2>1
<1>6. q[1] = A /\ q[2] = P
  BY <1>1 DEF PlanCost, K
<1> HIDE DEF P, q
<1>7. m \in Int /\ m >= k.sub_total * K
  <2>1. k.max_subtree * P \in Int /\ k.sub_total * K \in Int
    BY <1>1, <1>3, <1>5
  <2>2. QED
    BY <2>1, MaxTwo
<1>8. w \in Int /\ w >= (k.top_total - k.split_top_work) * K + k.split_top_work * T
  <2> DEFINE a == k.cp_top * K
             b == (k.top_total - k.split_top_work) * K + k.split_top_work * T
  <2>1. a \in Int /\ b \in Int
    BY <1>1, <1>3
  <2>2. w = Max({a, b})
    BY <1>1 DEF TopTime, K
  <2> HIDE DEF a, b, w
  <2>3. w \in Int /\ w >= b
    BY <2>1, <2>2, MaxTwo
  <2>4. QED
    BY <2>3 DEF b
<1> DEFINE o1 == T * c.per_thread
           o2 == k.top_fronts * c.per_top_front
           o3 == k.split_top_fronts * T * c.per_split_front_thread
<1>9. o = o1 + o2 + o3
  BY <1>1 DEF Overheads
<1>10. o1 \in Int /\ o2 \in Int /\ o3 \in Int
  <2>1. k.split_top_fronts * T \in Int
    BY <1>1
  <2>2. QED
    BY <1>1, <1>2, <2>1
<1> HIDE DEF m, w, o
<1>11. o \in Int
  <2> HIDE DEF o1, o2, o3
  <2>1. QED
    BY <1>9, <1>10
<1>12. A \in Int
  <2>1. o * P \in Int
    BY <1>5, <1>11
  <2>2. QED
    BY <1>7, <1>8, <2>1
<1>13. ASSUME c.per_thread >= 0, c.per_top_front >= 0, c.per_split_front_thread >= 0,
              t.total <= 4 * c.per_thread
       PROVE  Near(<<t.total, 1>>, q)
  <2> DEFINE p == c.per_thread
             sub == k.sub_total
             top == k.top_total
             split == k.split_top_work
  <2>1. p \in Nat /\ c.per_top_front \in Nat /\ c.per_split_front_thread \in Nat
    BY <1>2, <1>13
  <2>2. o2 >= 0 /\ o3 >= 0
    <3> DEFINE a == k.top_fronts
               b == k.split_top_fronts
               d == c.per_top_front
               e == c.per_split_front_thread
    <3>1. a \in Nat /\ b \in Nat /\ d \in Nat /\ e \in Nat
      BY <1>1, <2>1
    <3> HIDE DEF a, b, d, e
    <3>2. a * d \in Nat /\ b * T \in Nat
      BY <3>1
    <3>3. b * T * e \in Nat
      BY <3>1, <3>2
    <3>4. QED
      BY <3>2, <3>3 DEF a, b, d, e
  <2>3. o >= T * p
    <3> HIDE DEF o2, o3
    <3>1. o = T * p + o2 + o3 /\ T * p \in Int
      BY <1>9, <1>10
    <3>2. QED
      BY <1>10, <2>2, <3>1
  <2>4. /\ sub \in Nat /\ top \in Nat /\ split \in Nat /\ split <= top /\ sub + top <= 4 * p
        /\ m >= sub * K /\ w >= (top - split) * K + split * T /\ t.total = sub + top
    BY <1>1, <1>7, <1>8, <1>13
  <2> HIDE DEF p, sub, top, split
  <2>5. 50 * (sub + top) * (T * K) <= 51 * (m + w + o * (T * K)) * 1
    BY <1>3, <1>7, <1>8, <1>11, <2>1, <2>3, <2>4, CostNoLess DEF p
  <2>6. 50 * t.total * P <= 51 * A * 1
    BY <1>4, <2>4, <2>5
  <2>7. <<t.total, 1>>[1] = t.total /\ <<t.total, 1>>[2] = 1
    OBVIOUS
  <2> HIDE DEF A
  <2>8. QED
    BY <1>6, <2>6, <2>7 DEF Near
<1>14. QED
  BY <1>5, <1>6, <1>12, <1>13 DEF q, k

NoMore(x, y) == x[1] * y[2] <= y[1] * x[2]

\* Of plans that cost something, one costs no more than the others.
LEMMA LeastExists ==
  ASSUME NEW D, IsFiniteSet(D), D # {}, \A k \in D : k.cost[1] \in Nat /\ k.cost[2] \in Nat \ {0}
  PROVE  \E k \in D : \A q \in D : NoMore(k.cost, q.cost)
<1> DEFINE Has(S) == \E x \in S : \A y \in S : NoMore(x.cost, y.cost)
           P == {S \in SUBSET D : S # {} => Has(S)}
<1>1. ASSUME NEW x \in D, NEW y \in D, NEW z \in D, NoMore(x.cost, y.cost), NoMore(y.cost, z.cost)
      PROVE  NoMore(x.cost, z.cost)
  BY <1>1, FractionsOrdered DEF NoMore
<1>2. ASSUME NEW x \in D, NEW y \in D PROVE NoMore(x.cost, y.cost) \/ NoMore(y.cost, x.cost)
  <2>1. x.cost[1] * y.cost[2] \in Int /\ y.cost[1] * x.cost[2] \in Int
    OBVIOUS
  <2>2. QED
    BY <2>1 DEF NoMore
<1>3. ASSUME NEW S \in SUBSET D, \A Q \in SUBSET D : Cardinality(Q) < Cardinality(S) => Q \in P, S # {}
      PROVE  Has(S)
  <2>1. PICK x \in S : TRUE
    BY <1>3
  <2>2. S \ {x} \in P
    BY CardFacts, <1>3
  <2>3. CASE S \ {x} = {}
    <3>1. S = {x} /\ NoMore(x.cost, x.cost)
      BY <2>3, <1>2
    <3>2. QED
      BY <3>1
  <2>4. CASE S \ {x} # {}
    <3>1. PICK s \in S \ {x} : \A r \in S \ {x} : NoMore(s.cost, r.cost)
      BY <2>2, <2>4
    <3>2. CASE NoMore(s.cost, x.cost)
      BY <3>1, <3>2
    <3>3. CASE NoMore(x.cost, s.cost)
      <4>1. NoMore(x.cost, x.cost)
        BY <1>2
      <4>2. \A r \in S \ {x} : NoMore(x.cost, r.cost)
        BY <3>1, <3>3, <1>1
      <4>3. QED
        BY <4>1, <4>2
    <3>4. QED
      BY <1>2, <3>2, <3>3
  <2>5. QED
    BY <2>3, <2>4
<1>4. SUBSET D \subseteq P
  <2>1. \A S \in SUBSET D :
          (\A Q \in SUBSET D : Cardinality(Q) < Cardinality(S) => Q \in P) => S \in P
    BY <1>3
  <2> HIDE DEF P
  <2>2. QED
    BY <2>1, SmallerFirst
<1>5. QED
  BY <1>4

SerialPlan(t) == [threads |-> 1, cost |-> <<t.total, 1>>]

\* The plans compared.
LEMMA CandidatesFit ==
  ASSUME NEW t, Tree(t), NEW max \in Nat, NEW c, IntCosts(c)
  PROVE  LET C == CandidateCosts(t, max, c)
         IN  /\ IsFiniteSet(C) /\ SerialPlan(t) \in C
             /\ \A k \in C : /\ k.threads \in Nat /\ k.threads >= 1
                             /\ k.cost[1] \in Int /\ k.cost[2] \in Nat \ {0}
                             /\ \/ k = SerialPlan(t)
                                \/ /\ t.total >= MinWork /\ t.total > 0 /\ k.threads >= 2
                                   /\ k.cost = PlanCost(PlanTerms(t, k.threads), c)
<1> DEFINE C == CandidateCosts(t, max, c)
           Fine(T) == t.total >= MinWork /\ t.total > 0 /\ PlanTerms(t, T).ok
           X == {q \in CandidateThreads(max) \ {1} : Fine(q)}
           I == X \cup {1}
           of == [T \in I |-> IF T = 1 THEN SerialPlan(t)
                              ELSE [threads |-> T, cost |-> PlanCost(PlanTerms(t, T), c)]]
<1>1. X \in SUBSET (2..max) /\ \A T \in X : t.total >= MinWork /\ t.total > 0
  BY DEF CandidateThreads
<1>2. C = {SerialPlan(t)} \cup {[threads |-> T, cost |-> PlanCost(PlanTerms(t, T), c)] : T \in X}
  BY DEF CandidateCosts, SerialPlan
<1> HIDE DEF C, X
<1>3. IsFiniteSet(I)
  <2>1. IsFiniteSet(2..max)
    BY FS_Interval
  <2>2. IsFiniteSet(X)
    BY <1>1, <2>1, FS_Subset
  <2>3. QED
    BY <2>2, FS_AddElement
<1>4. of \in Surjection(I, C)
  <2>1. 1 \in I /\ of[1] = SerialPlan(t) /\ SerialPlan(t) \in C
    BY <1>2
  <2>2. ASSUME NEW T \in X
        PROVE  /\ T \in I /\ of[T] = [threads |-> T, cost |-> PlanCost(PlanTerms(t, T), c)]
               /\ of[T] \in C
    <3>1. T # 1 /\ T \in I
      BY <1>1
    <3>2. of[T] = [threads |-> T, cost |-> PlanCost(PlanTerms(t, T), c)]
      BY <3>1
    <3> HIDE DEF of
    <3>3. QED
      BY <1>2, <3>1, <3>2
  <2>3. \A k \in C : k = SerialPlan(t) \/ \E T \in X : k = [threads |-> T, cost |-> PlanCost(PlanTerms(t, T), c)]
    BY <1>2
  <2>4. of = [T \in I |-> of[T]] /\ \A T \in I : T = 1 \/ T \in X
    OBVIOUS
  <2> HIDE DEF of, I
  <2>5. of \in [I -> C]
    BY <2>1, <2>2, <2>4
  <2>6. \A k \in C : \E T \in I : of[T] = k
    BY <2>1, <2>2, <2>3
  <2>7. QED
    BY <2>5, <2>6 DEF Surjection
<1>5. IsFiniteSet(C)
  <2> HIDE DEF of, I
  <2>1. QED
    BY <1>3, <1>4, FS_Surjection
<1>6. ASSUME NEW k \in C
      PROVE  /\ k.threads \in Nat /\ k.threads >= 1
             /\ k.cost[1] \in Int /\ k.cost[2] \in Nat \ {0}
             /\ \/ k = SerialPlan(t)
                \/ /\ t.total >= MinWork /\ t.total > 0 /\ k.threads >= 2
                   /\ k.cost = PlanCost(PlanTerms(t, k.threads), c)
  <2>1. CASE k = SerialPlan(t)
    <3>1. t.total \in Nat
      BY TotalIs
    <3>2. k.threads = 1 /\ k.cost[1] = t.total /\ k.cost[2] = 1
      BY <2>1 DEF SerialPlan
    <3>3. QED
      BY <2>1, <3>1, <3>2
  <2>2. CASE k # SerialPlan(t)
    <3>1. PICK T \in X : k = [threads |-> T, cost |-> PlanCost(PlanTerms(t, T), c)]
      BY <1>2, <2>2
    <3>2. k.threads = T /\ k.cost = PlanCost(PlanTerms(t, T), c) /\ T \in Nat /\ T >= 2 /\ T >= 1
      BY <3>1, <1>1
    <3>3. k.cost[1] \in Int /\ k.cost[2] \in Nat \ {0}
      BY <3>2, CostFits
    <3>4. QED
      BY <1>1, <3>2, <3>3
  <2>3. QED
    BY <2>1, <2>2
<1>7. SerialPlan(t) \in C
  BY <1>2
<1>8. QED
  BY <1>5, <1>6, <1>7 DEF C

\* The thread count is one of a candidate; one, when the serial plan is near
\* all of them.
LEMMA ThreadsFit ==
  ASSUME NEW t, Tree(t), NEW max \in Nat, NEW c, IntCosts(c)
  PROVE  /\ PlanThreads(t, max, c) \in Nat
         /\ (\A k \in CandidateCosts(t, max, c) : Near(<<t.total, 1>>, k.cost)) => PlanThreads(t, max, c) = 1
<1> DEFINE C == CandidateCosts(t, max, c)
           valid == {k \in C : k.cost[1] >= 0}
           near == {k \in valid : \A q \in valid : Near(k.cost, q.cost)}
           best == CHOOSE k \in near : \A q \in near : k.threads <= q.threads
           one == SerialPlan(t)
<1>1. /\ IsFiniteSet(C) /\ one \in C
      /\ \A k \in C : /\ k.threads \in Nat /\ k.threads >= 1
                      /\ k.cost[1] \in Int /\ k.cost[2] \in Nat \ {0}
  BY CandidatesFit
<1>2. PlanThreads(t, max, c) = best.threads
  BY DEF PlanThreads, LeastCost
<1>3. one.threads = 1 /\ one.cost = <<t.total, 1>> /\ one.cost[1] = t.total /\ t.total \in Nat
  BY TotalIs DEF SerialPlan
<1> HIDE DEF C, one
<1>4. IsFiniteSet(valid) /\ one \in valid /\ \A k \in valid : k.cost[1] \in Nat /\ k.cost[2] \in Nat \ {0}
  <2>1. valid \in SUBSET C
    OBVIOUS
  <2>2. one \in valid
    BY <1>1, <1>3
  <2>3. \A k \in valid : k.cost[1] \in Nat /\ k.cost[2] \in Nat \ {0}
    BY <1>1
  <2> HIDE DEF valid
  <2>4. QED
    BY <1>1, <2>1, <2>2, <2>3, FS_Subset
<1>5. near # {}
  <2> HIDE DEF valid
  <2>1. PICK k \in valid : \A q \in valid : NoMore(k.cost, q.cost)
    BY <1>4, LeastExists
  <2>2. ASSUME NEW q \in valid PROVE Near(k.cost, q.cost)
    <3> DEFINE a == k.cost[1]
               b == k.cost[2]
               d == q.cost[1]
               e == q.cost[2]
    <3>1. a \in Nat /\ b \in Nat /\ d \in Nat /\ e \in Nat /\ a * e <= d * b
      BY <1>4, <2>1 DEF NoMore
    <3> HIDE DEF a, b, d, e
    <3>2. a * e \in Nat /\ d * b \in Nat /\ 50 * a * e = 50 * (a * e) /\ 51 * d * b = 51 * (d * b)
      BY <3>1
    <3> DEFINE x == a * e
               y == d * b
    <3>3. x \in Nat /\ y \in Nat /\ x <= y
      BY <3>1, <3>2
    <3> HIDE DEF x, y
    <3>4. 50 * x <= 51 * y
      BY <3>3
    <3>5. 50 * a * e <= 51 * d * b
      BY <3>2, <3>4 DEF x, y
    <3>6. QED
      BY <3>5 DEF Near, a, b, d, e
  <2>3. QED
    BY <2>2
<1>6. \A k \in near : k \in valid /\ k.threads \in Nat /\ k.threads >= 1
  BY <1>1
<1>7. best \in near /\ \A q \in near : best.threads <= q.threads
  <2> DEFINE S == {k.threads : k \in near}
  <2>1. S \in SUBSET Nat /\ S # {} /\ \A k \in near : k.threads \in S
    BY <1>5, <1>6
  <2>2. \A x \in S : \E k \in near : k.threads = x
    OBVIOUS
  <2> HIDE DEF S, near
  <2>3. Min(S) \in S /\ \A y \in S : Min(S) <= y
    BY <2>1, MinIn
  <2>4. \E k \in near : \A q \in near : k.threads <= q.threads
    BY <2>1, <2>2, <2>3
  <2>5. QED
    BY <2>4
<1>8. best.threads \in Nat /\ best.threads >= 1
  BY <1>6, <1>7
<1>9. ASSUME \A k \in C : Near(<<t.total, 1>>, k.cost) PROVE best.threads = 1
  <2>1. one \in near
    <3>1. \A q \in valid : Near(one.cost, q.cost)
      BY <1>3, <1>9
    <3>2. QED
      BY <1>4, <3>1
  <2> HIDE DEF best, near
  <2>2. best.threads <= 1
    BY <1>3, <1>7, <2>1
  <2>3. QED
    BY <1>8, <2>2
<1>10. QED
  BY <1>2, <1>8, <1>9 DEF C

\* A tree the dispatch calls serial is planned for one thread.
LEMMA SerialPlanned ==
  ASSUME NEW t, Tree(t), NEW max \in Nat, NEW c, IntCosts(c), PlanIsSerial(t.total, c)
  PROVE  PlanThreads(t, max, c) = 1
<1>1. ASSUME NEW k \in CandidateCosts(t, max, c) PROVE Near(<<t.total, 1>>, k.cost)
  <2>1. /\ k.threads \in Nat
        /\ \/ k = SerialPlan(t)
           \/ /\ t.total >= MinWork /\ t.total > 0 /\ k.threads >= 2
              /\ k.cost = PlanCost(PlanTerms(t, k.threads), c)
    BY CandidatesFit
  <2>2. t.total \in Nat
    BY TotalIs
  <2>3. CASE k = SerialPlan(t)
    <3>1. k.cost = <<t.total, 1>>
      BY <2>3 DEF SerialPlan
    <3> DEFINE x == t.total
    <3>2. 50 * x * 1 <= 51 * x * 1
      <4>1. x \in Nat
        BY <2>2
      <4> HIDE DEF x
      <4>2. QED
        BY <4>1
    <3>3. <<x, 1>>[1] = x /\ <<x, 1>>[2] = 1
      OBVIOUS
    <3> HIDE DEF x
    <3>4. Near(<<x, 1>>, <<x, 1>>)
      BY <3>2, <3>3 DEF Near
    <3>5. QED
      BY <3>1, <3>4 DEF x
  <2>4. CASE /\ t.total >= MinWork /\ t.total > 0 /\ k.threads >= 2
             /\ k.cost = PlanCost(PlanTerms(t, k.threads), c)
    <3>1. c.per_thread >= 0 /\ c.per_top_front >= 0 /\ c.per_split_front_thread >= 0 /\ t.total <= 4 * c.per_thread
      BY <2>2, <2>4, PlanAssumption DEF PlanIsSerial
    <3>2. k.threads >= 1
      BY <2>1, <2>4
    <3>3. QED
      BY <2>1, <2>4, <3>1, <3>2, CostFits
  <2>5. QED
    BY <2>1, <2>3, <2>4
<1>2. QED
  BY <1>1, ThreadsFit

-----------------------------------------------------------------------------
(* The plan                                                                *)

\* The tree of the scenario.
LEMMA ScenarioTree ==
  ASSUME scn \in Scenarios
  PROVE  /\ Tree(TreeOf(scn.view)) /\ TreeOf(scn.view).v = scn.view
         /\ scn.want \in Nat /\ IntCosts(scn.costs)
<1>1. Postordered(scn.view) /\ scn.want \in Nat /\ IntCosts(scn.costs)
  BY ScenariosAssumption DEF Postordered, IntCosts
<1>2. QED
  BY <1>1, TreeIs

\* The threads wanted are a number.
LEMMA WantFits ==
  ASSUME NEW t, Tree(t), scn.want \in Nat, IntCosts(scn.costs) PROVE WantThreads(t) \in Nat
BY ThreadsFit DEF WantThreads

\* The plan of a scenario fits.
LEMMA PlanDeals == ASSUME Init PROVE PlanFits
<1> DEFINE t == TreeOf(scn.view)
           want == WantThreads(t)
           p == PartitionFor(t, want)
<1>1. plan = PlanTree(t)
  BY DEF Init
<1>2. Tree(t) /\ t.v = scn.view /\ scn.want \in Nat /\ IntCosts(scn.costs)
  BY ScenarioTree DEF Init
<1> HIDE DEF t
<1>3. want \in Nat
  BY <1>2, WantFits
<1>4. plan.ranges = p.ranges /\ plan.top = p.top
      /\ plan.threads = IF want > 1 /\ Len(p.ranges) >= 2 THEN Min({want, Len(p.ranges)}) ELSE 1
  BY <1>1 DEF PlanTree, PlanWith
<1> HIDE DEF want
<1>5. ASSUME plan.threads > 1 PROVE \E T \in Nat : DealsOut(t, T, p)
  <2>1. want > 1 /\ Len(p.ranges) >= 2
    <3>1. ~(1 > 1)
      OBVIOUS
    <3>2. QED
      BY <1>4, <1>5, <3>1
  <2>2. p # NoPartition
    <3>1. Len(NoPartition.ranges) = 0
      BY DEF NoPartition
    <3>2. ~(0 >= 2)
      OBVIOUS
    <3>3. QED
      BY <2>1, <3>1, <3>2
  <2>3. p = PartitionSubtrees(t, BudgetThreads) \/ p = PartitionTasks(t, want)
    BY <2>2 DEF PartitionFor
  <2>4. t.total >= MinWork
    <3>1. ~(t.total < MinWork)
      BY <2>2, <2>3 DEF PartitionSubtrees, PartitionTasks
    <3>2. QED
      BY <1>2, <3>1, TotalIs, PlanAssumption
  <2>5. QED
    BY <1>2, <1>3, <2>3, <2>4, HeapDeals, TasksDeal, LimitsAssumption
<1>6. ASSUME plan.threads > 1
      PROVE  /\ plan.ranges \in Seq(Fronts \X Fronts)
             /\ \A i \in DOMAIN plan.ranges : plan.ranges[i][1] <= plan.ranges[i][2]
             /\ Shares(plan) /\ WholeSubtrees(plan)
  <2>1. PICK T \in Nat : DealsOut(t, T, p)
    BY <1>5, <1>6
  <2> HIDE DEF p
  <2>2. DealsOut(t, T, plan)
    BY <1>4, <2>1 DEF DealsOut
  <2>3. Shares(plan) /\ WholeSubtrees(plan)
    BY <1>2, <2>2, DealtFits
  <2>4. plan.ranges \in Seq(Fronts \X Fronts)
        /\ \A i \in DOMAIN plan.ranges : plan.ranges[i][1] <= plan.ranges[i][2]
    BY <2>2 DEF DealsOut
  <2>5. QED
    BY <2>3, <2>4
<1>7. QED
  BY <1>6 DEF PlanFits

\* What PlanSound asks of the plans of the scenario.
LEMMA PlanSoundAtFirst == ASSUME scn \in Scenarios, PlanFits PROVE PlanSound
<1> DEFINE t == TreeOf(scn.view)
<1>1. Tree(t) /\ t.v = scn.view /\ IntCosts(scn.costs)
  BY ScenarioTree
<1> HIDE DEF t
<1>2. ASSUME NEW T \in 2..N, t.total >= MinWork PROVE SoundPartition(t, T)
  BY <1>1, <1>2, Partitioned
<1>3. ASSUME PlanIsSerial(t.total, scn.costs), NEW max \in 2..N PROVE PlanThreads(t, max, scn.costs) = 1
  BY <1>1, <1>3, SerialPlanned
<1>4. QED
  BY <1>2, <1>3 DEF PlanSound, t

-----------------------------------------------------------------------------
(* The theorems                                                            *)

LEMMA OneCause ==
  ASSUME Cardinality(Causes) <= 1, NEW a \in Causes, NEW b \in Causes
  PROVE  a = b
<1> SUFFICES ASSUME a # b PROVE FALSE
  OBVIOUS
<1>1. IsFiniteSet(Causes)
  <2>1. Causes \subseteq (({} \cup {"WorkLimitExceeded"}) \cup {"InertiaExceeded"}) \cup {"IllegalValue"}
    BY DEF Causes
  <2>2. IsFiniteSet(({} \cup {"WorkLimitExceeded"}) \cup {"InertiaExceeded"})
    <3>1. IsFiniteSet({} \cup {"WorkLimitExceeded"})
      BY FS_EmptySet, FS_AddElement
    <3>2. QED
      BY <3>1, FS_AddElement
  <2>3. IsFiniteSet((({} \cup {"WorkLimitExceeded"}) \cup {"InertiaExceeded"}) \cup {"IllegalValue"})
    BY <2>2, FS_AddElement
  <2>4. QED
    BY <2>1, <2>3, FS_Subset
<1>2. /\ IsFiniteSet({} \cup {a}) /\ Cardinality({} \cup {a}) = 1
      /\ IsFiniteSet(({} \cup {a}) \cup {b}) /\ Cardinality(({} \cup {a}) \cup {b}) = 2
  <2>1. IsFiniteSet({} \cup {a}) /\ Cardinality({} \cup {a}) = 1
    <3>1. IsFiniteSet({}) /\ Cardinality({}) = 0 /\ a \notin {}
      BY FS_EmptySet
    <3>2. QED
      BY <3>1, FS_AddElement
  <2>2. b \notin {} \cup {a}
    OBVIOUS
  <2>3. QED
    BY <2>1, <2>2, FS_AddElement
<1>3. ({} \cup {a}) \cup {b} \subseteq Causes
  OBVIOUS
<1>4. 2 <= Cardinality(Causes) /\ Cardinality(Causes) \in Nat
  BY <1>1, <1>2, <1>3, FS_Subset, FS_CardinalityType
<1>5. QED
  BY <1>4

\* The invariant of a run.
LEMMA Invariant == Spec => []RunInv
<1>1. Init => RunInv
  BY PlanDeals, InitPar, InitSerial DEF RunInv, Par
<1>2. RunInv /\ [Next]_vars => RunInv'
  <2> SUFFICES ASSUME RunInv, [Next]_vars PROVE RunInv'
    OBVIOUS
  <2>1. UNCHANGED <<scn, plan>>
    BY InputsStay
  <2>2. PlanFits' /\ (Par' <=> Par)
    BY <2>1, PlanStays DEF RunInv, Par
  <2>3. QED
    BY <2>2, ParStep, SerialStep DEF RunInv, Par
<1>3. QED
  BY <1>1, <1>2, PTL DEF Spec

\* thread_plan.cpp: partition_from_heap and partition_from_target divide every
\* tree at the same nodes, their tasks are whole subtrees that need nothing of
\* each other, and what plan_is_serial keeps serial no number of threads makes
\* cheaper, for every tree, numbering and cost profile.
THEOREM PlanTheorem == Spec => []PlanSound
<1>1. RunInv => scn \in Scenarios /\ PlanFits
  BY DEF RunInv, ParInv, ShapeInv, SerInv
<1>2. RunInv => PlanSound
  BY <1>1, PlanSoundAtFirst
<1>3. QED
  BY <1>2, Invariant, PTL

\* EarlyGate's comment (multifrontal_serial.cpp:178-197): the verdict is the
\* one of the finished factorization's works in postorder, and a crossing all
\* of whose fronts have reported is decided, for every tree, works and number
\* of threads.
THEOREM GateTheorem == Spec => []GateDecidesInPostorder
<1>1. RunInv => GateDecidesInPostorder
  <2> SUFFICES ASSUME RunInv PROVE GateDecidesInPostorder
    OBVIOUS
  <2>1. CASE Par
    <3>1. GateInv
      BY <2>1 DEF RunInv, Par, ParInv
    <3>2. QED
      BY <3>1 DEF GateInv, GateDecidesInPostorder
  <2>2. CASE ~Par
    <3>1. added = {} /\ verdict = "open"
      BY <2>2 DEF RunInv, Par, SerInv
    <3>2. \A f \in Fronts : 1 \in 1..f
      BY DEF Fronts
    <3>3. QED
      BY <3>1, <3>2 DEF GateDecidesInPostorder
  <2>3. QED
    BY <2>1, <2>2
<1>2. QED
  BY <1>1, Invariant, PTL

\* determinism.hpp:27 and multifrontal_serial.cpp:1411-1418: with one reason
\* to fail at most the status is the serial engine's, and no front is factored
\* twice, before its children, or left out of a successful factorization, for
\* every tree, works and number of threads.
THEOREM SerialTheorem == Spec => []SameAsSerial
<1>1. RunInv => SameAsSerial
  <2> SUFFICES ASSUME RunInv PROVE SameAsSerial
    OBVIOUS
  <2>1. scn \in Scenarios
    BY DEF RunInv, ParInv, ShapeInv, SerInv
  <2>2. ASSUME phase = 3, Cardinality(Causes) <= 1 PROVE failed = SerialStatus
    <3>1. failed \in (IF Causes = {} THEN {"Success"} ELSE Causes)
      BY <2>2, RunRight DEF OutcomeRight
    <3>2. SerialStatus \in (IF Causes = {} THEN {"Success"} ELSE Causes)
      BY <2>1, SerialEnds
    <3>3. QED
      BY <2>2, <3>1, <3>2, OneCause
  <2>3. CASE Par
    <3>1. PlanFits /\ ParInv
      BY <2>3 DEF RunInv, Par
    <3>2. \A f \in Fronts : factored[f] <= 1 /\ (factored[f] = 1 => \A c \in ChildrenOf(f) : factored[c] = 1)
      BY <3>1 DEF ParInv, OwnInv
    <3>3. phase = 3 /\ Running => \A f \in Fronts : factored[f] = 1
      BY <2>3, <3>1, NoCause
    <3>4. QED
      BY <2>2, <3>2, <3>3 DEF SameAsSerial
  <2>4. CASE ~Par
    <3>1. SerInv
      BY <2>4 DEF RunInv, Par
    <3>2. \A f \in Fronts : \A c \in ChildrenOf(f) : c \in Fronts /\ c < f
      BY <2>1, ScenarioFacts
    <3>3. CASE phase = 0 /\ factored = [f \in Fronts |-> 0]
      BY <2>2, <3>3 DEF SameAsSerial
    <3>4. CASE phase = 3 /\ failed = SerialStatus /\ factored = [f \in Fronts |-> IF SerialRuns(f) THEN 1 ELSE 0]
      <4>1. ASSUME NEW f \in Fronts, factored[f] = 1, NEW c \in ChildrenOf(f) PROVE factored[c] = 1
        <5>1. SerialRuns(f) /\ c \in Fronts /\ c < f
          BY <3>2, <3>4, <4>1
        <5>2. SerialRuns(c)
          BY <5>1 DEF SerialRuns, Fronts
        <5>3. QED
          BY <3>4, <5>1, <5>2
      <4>2. ASSUME Running, NEW f \in Fronts PROVE factored[f] = 1
        <5>1. \A g \in Fronts : SerialAt(g) = "Success"
          BY <2>1, <3>4, <4>2, SerialEnds DEF Running
        <5>2. SerialRuns(f)
          BY <5>1, FrontsAssumption DEF SerialRuns, Fronts
        <5>3. QED
          BY <3>4, <5>2
      <4>3. \A f \in Fronts : factored[f] <= 1
        BY <3>4
      <4>4. QED
        BY <2>2, <4>1, <4>2, <4>3 DEF SameAsSerial
    <3>5. QED
      BY <3>1, <3>3, <3>4 DEF SerInv
  <2>5. QED
    BY <2>3, <2>4
<1>2. QED
  BY <1>1, Invariant, PTL

\* multifrontal_serial.hpp:64-79: every step of a factorization is a step of
\* FactorOutcome or leaves what it promises alone; the status returned is a
\* reason the finished factorization has to fail, Success exactly when there
\* is none.
THEOREM OutcomeTheorem == Spec => Outcome!Init /\ [][Outcome!Report]_(Outcome!vars)
<1>1. Init => Outcome!Init
  BY DEF Init, Outcome!Init, Causes
<1>2. OutcomeRight' /\ [Next]_vars => [Outcome!Report]_(Outcome!vars)
  <2> SUFFICES ASSUME OutcomeRight', [Next]_vars, Outcome!vars' # Outcome!vars PROVE Outcome!Report
    OBVIOUS
  <2>1. Causes' = Causes
    BY InputsStay, CausesStay
  <2>2. phase # 3 /\ phase' = 3
    <3>1. phase = 3 => UNCHANGED <<phase, failed>>
      BY DEF Next, Finished, Start, Phase1End, Phase2End, vars, outcomes
    <3>2. QED
      BY <2>1, <3>1 DEF Outcome!vars
  <2>3. failed' \in (IF Causes = {} THEN {"Success"} ELSE Causes)
    BY <2>1, <2>2 DEF OutcomeRight
  <2>4. QED
    BY <2>1, <2>2, <2>3 DEF Outcome!Report
<1>3. QED
  BY <1>1, <1>2, RunRight, Invariant, PTL DEF Spec
=============================================================================
