----------------------------- MODULE EarlyGate ------------------------------
(***************************************************************************)
(* EarlyGate (solver/src/multifrontal_serial.cpp:177-256): the early stop  *)
(* of a work-limited factorization, decided once over the fronts in        *)
(* postorder whatever order the threads report them in. Fronts are their   *)
(* positions in the postorder, 1..Cardinality(Fronts).                     *)
(*                                                                         *)
(* The works are stored and read with relaxed atomics; what a walk of the  *)
(* cursor is certain to see is what the acq_rel additions to the total     *)
(* before its own have published (sees). A walk stops at the first front   *)
(* it does not see reported; the fronts it passes stay reported, so it is  *)
(* one step, at the moment of its last load.                               *)
(***************************************************************************)
EXTENDS Integers, FiniteSets

CONSTANTS
  N,         (* number of fronts                                            *)
  Threads,   (* 0..threads-1 of the pool                                    *)
  At,        (* at_: the work at whose crossing the gate decides            *)
  Proj       (* proj_, a fraction <<a, b>>: stop iff the work done is more  *)
             (* than a/b of the delay-free work done                        *)

Fronts == 1..N

ASSUME FrontsAssumption == N \in Nat
ASSUME ThreadsAssumption == Threads \subseteq Nat /\ IsFiniteSet(Threads) /\ Threads # {}
ASSUME GateAssumption   == At \in Nat /\ Proj \in Nat \X (Nat \ {0})

VARIABLES
  works,     (* works_: reported work of each front, -1: none yet           *)
  total,     (* total_: sum of the reported works                           *)
  added,     (* history: the fronts added to the total                      *)
  sees,      (* the fronts each thread's latest addition publishes to it    *)
  cursor,    (* the next front to account, in postorder                     *)
  verdict    (* verdict_: open, go or stop                                  *)

gate == <<works, total, added, sees, cursor, verdict>>

\* done_ as the walk adds the fronts.
SumUpTo(f, i) == LET sum[k \in 0..i] == IF k = 0 THEN 0 ELSE sum[k - 1] + f[k] IN sum[i]

\* done_ <= at_ and done_ + w > at_, at front i with the works ws.
Crosses(ws, i) == SumUpTo(ws, i - 1) <= At /\ SumUpTo(ws, i) > At

\* The decision at the crossing front i, with the fronts' delay-free works.
Decision(ws, free, i) == IF Proj[2] * SumUpTo(ws, i) > Proj[1] * SumUpTo(free, i)
                         THEN "stop" ELSE "go"

GateInit ==
  /\ works = [f \in Fronts |-> -1]
  /\ total = 0
  /\ added = {}
  /\ sees = [t \in Threads |-> {}]
  /\ cursor = 1
  /\ verdict = "open"

-----------------------------------------------------------------------------
(* reach(), after its load of the verdict                                  *)

StoreWork(f, w) ==
  /\ works' = [works EXCEPT ![f] = w]
  /\ UNCHANGED <<total, added, sees, cursor, verdict>>

\* Mutant: the addition is relaxed, and publishes nothing but its own front.
PublishedMut(f) == {f}

\* What the acq_rel addition of front f's work makes visible to its thread.
Published(f) == added \cup {f}

AddWork(t, f) ==
  /\ total' = total + works[f]
  /\ added' = added \cup {f}
  /\ sees' = [sees EXCEPT ![t] = Published(f)]
  /\ UNCHANGED <<works, cursor, verdict>>

\* The report goes on to the cursor.
MayHaveCrossed(sum) == sum > At

DecidedAt(i) == Crosses(works, i)

\* The walk under the lock, up to the front m it does not see (or the end),
\* or through the front where the gate decides.
Walk(t, free) ==
  /\ verdict = "open" /\ cursor <= N
  /\ \E m \in cursor..(N + 1) :
       LET passed == cursor..(m - 1)
       IN /\ \A f \in passed : works[f] >= 0
          /\ \A f \in passed \ {m - 1} : ~DecidedAt(f)
          /\ cursor' = m
          /\ \/ /\ m > cursor /\ DecidedAt(m - 1)
                /\ verdict' = Decision(works, free, m - 1)
             \/ /\ ~(m > cursor /\ DecidedAt(m - 1))
                /\ m = N + 1 \/ m \notin sees[t]
                /\ UNCHANGED verdict
  /\ UNCHANGED <<works, total, added, sees>>

\* The lock finds nothing left to do.
NoWalk == (verdict # "open" \/ cursor > N) /\ UNCHANGED gate

=============================================================================
