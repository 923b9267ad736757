----------------------------- MODULE TreeSolve -----------------------------
(***************************************************************************)
(* The parallel triangular solves on a SolvePool (solve_forward.cpp,       *)
(* solve_backward.cpp, run_dag of solve_pool.hpp).  Forward: the subtrees  *)
(* in any order, their updates to the top's rows into a buffer per thread; *)
(* the buffers summed by slices; the top as a DAG from its leaves.         *)
(* Backward: the top as a DAG from its roots, then the subtrees.           *)
(*                                                                         *)
(* A front has one pivot row, named after it, and Ext, its extended rows.  *)
(* A row of x is the set of fronts whose updates it has received with what *)
(* it is: the right-hand side, the forward solution, the solution.  A      *)
(* front reads its rows, computes, and writes: two steps.                  *)
(***************************************************************************)
EXTENDS SolvePool, Sequences, SequencesExt

CONSTANTS
  SubFronts,    \* the fronts of each subtree, in postorder
  TopFronts,    \* the top's fronts, in the order they were factored
  TopParent,    \* top front -> its parent in the top, or NoFront
  Ext,          \* front -> the rows below its pivot
  NoFront

TopRows  == ToSet(TopFronts)     \* solve_top_rows: solve_top_slot is >= 0
Fronts   == TopRows \cup UNION {ToSet(SubFronts[i]) : i \in DOMAIN SubFronts}

\* The subtrees are complete and independent; a top front's parent is in the
\* top, done after it, and assembles its extended rows.
ASSUME LayoutAssumption ==
  /\ SubFronts \in Seq(Seq(Fronts)) /\ TopFronts \in Seq(Fronts) /\ NoFront \notin Fronts
  /\ \A i \in DOMAIN SubFronts : SubFronts[i] # <<>>
  /\ \A i, j \in DOMAIN SubFronts : \A k \in DOMAIN SubFronts[i] : \A l \in DOMAIN SubFronts[j] :
       SubFronts[i][k] = SubFronts[j][l] => i = j /\ k = l
  /\ \A i \in DOMAIN SubFronts : ToSet(SubFronts[i]) \cap TopRows = {}
  /\ \A i, j \in DOMAIN TopFronts : TopFronts[i] = TopFronts[j] => i = j
ASSUME ExtAssumption ==
  /\ Ext \in [Fronts -> SUBSET Fronts] /\ TopParent \in [TopRows -> TopRows \cup {NoFront}]
  /\ \A i \in DOMAIN SubFronts : \A k \in DOMAIN SubFronts[i] :
       Ext[SubFronts[i][k]] \subseteq {SubFronts[i][l] : l \in k + 1 .. Len(SubFronts[i])} \cup TopRows
  /\ \A i \in DOMAIN TopFronts :
       LET p == TopParent[TopFronts[i]]
       IN  IF p = NoFront THEN Ext[TopFronts[i]] = {}
           ELSE /\ \E j \in i + 1 .. Len(TopFronts) : TopFronts[j] = p
                /\ Ext[TopFronts[i]] \subseteq {p} \cup Ext[p]

\* Fronts of the top in their order.
IsBefore(a, b) ==
  \E i, j \in DOMAIN TopFronts : i < j /\ TopFronts[i] = a /\ TopFronts[j] = b
InOrder(S) ==
  CHOOSE s \in [1 .. Cardinality(S) -> S] :
    ToSet(s) = S /\ \A i, j \in DOMAIN s : i < j => IsBefore(s[i], s[j])

ChildSet(p) == {c \in TopRows : TopParent[c] = p}
Children(f) == InOrder(ChildSet(f))

VARIABLES
  stage,     \* the run() the caller is at
  x,         \* the right-hand side column, row by row
  top,       \* ThreadScratch::top: per thread and top row
  next,      \* the next unclaimed subtree
  kids,      \* pending of the top's DAG: children not done
  ready,     \* run_dag's ready list
  remaining, \* run_dag's count of nodes not processed
  tpc,       \* where each thread is in its share
  todo,      \* the fronts each thread is to run, the current one first
  snap       \* what the current front read of its rows

treeVars == <<stage, x, top, next, kids, ready, remaining, tpc, todo, snap>>

Stages == <<"forward_subtrees", "sum", "forward_top", "backward_top", "backward_subtrees", "end">>
StageAfter(s) == Stages[(CHOOSE i \in DOMAIN Stages : Stages[i] = s) + 1]

Zero == [t \in Threads |-> [r \in TopRows |-> {}]]

TreeInit ==
  /\ PoolInit
  /\ stage = "forward_subtrees"
  /\ x = [f \in Fronts |-> [upd |-> {}, is |-> "rhs"]]
  /\ top = Zero
  /\ next = 1 /\ remaining = 0 /\ ready = <<>>
  /\ kids = [f \in TopRows |-> 0]
  /\ tpc = [t \in Threads |-> "none"]
  /\ todo = [t \in Threads |-> <<>>]
  /\ snap = [t \in Threads |-> <<>>]

Twice == NoFront   \* an update that was applied two times
Add(s, u) == IF s \cap u = {} THEN s \cup u ELSE s \cup u \cup {Twice}

-----------------------------------------------------------------------------
(* The caller between two jobs                                             *)

\* pool.run(subtrees) and the slices' run, or run_dag's with its lists.
Start ==
  /\ stage # "end" /\ Publish
  /\ next' = 1
  /\ top' = IF stage = "forward_subtrees" THEN Zero ELSE top
  /\ IF stage \in {"forward_top", "backward_top"}
     THEN /\ ready' = InOrder({f \in TopRows : IF stage = "forward_top" THEN ChildSet(f) = {}
                                               ELSE TopParent[f] = NoFront})
          /\ remaining' = Len(TopFronts)
          /\ kids' = [f \in TopRows |-> Len(Children(f))]
     ELSE UNCHANGED <<ready, remaining, kids>>
  /\ UNCHANGED <<stage, x, tpc, todo, snap>>

Return ==
  /\ CallerSpin \/ CallerCheck
  /\ cpc' = "out"
  /\ stage' = StageAfter(stage)
  /\ UNCHANGED <<x, top, next, kids, ready, remaining, tpc, todo, snap>>

CallerWaits ==
  /\ CallerStep /\ cpc' # "out"
  /\ UNCHANGED treeVars

\* ~SolveWorkspace destroys the pool.
End == ((stage = "end" /\ Destroy) \/ Join) /\ UNCHANGED treeVars

Worker(w) == WorkerStep(w) /\ UNCHANGED treeVars

-----------------------------------------------------------------------------
(* One front                                                               *)

Forward == stage \in {"forward_subtrees", "forward_top"}

\* Mutant: the top's fronts update rows directly.
AtomicUpdatesMut == FALSE

\* In the top sibling fronts share rows: AtomicUpdate.
AtomicUpdates == stage = "forward_top"

\* The rows DirectUpdate subtracts from: SplitUpdate's top rows go to the
\* thread's buffer.
DirectRows(f) ==
  IF AtomicUpdates THEN {} ELSE IF stage = "forward_subtrees" THEN Ext[f] \ TopRows ELSE Ext[f]

RowsRead(f) == {f} \cup IF Forward THEN DirectRows(f) ELSE Ext[f]

Read(t) ==
  /\ share[t] = "run" /\ tpc[t] = "front"
  /\ snap' = [snap EXCEPT ![t] = [r \in RowsRead(Head(todo[t])) |-> x[r]]]
  /\ tpc' = [tpc EXCEPT ![t] = "write"]
  /\ UNCHANGED <<poolVars, stage, x, top, next, kids, ready, remaining, todo>>

\* forward_front: the pivot row solved, the extended rows updated.
ForwardRow(t, f, r) ==
  IF r = f THEN [snap[t][f] EXCEPT !.is = "forward"]
  ELSE IF r \in DirectRows(f) THEN [snap[t][r] EXCEPT !.upd = Add(@, {f})]
  ELSE IF r \in Ext[f] /\ AtomicUpdates THEN [x[r] EXCEPT !.upd = Add(@, {f})]
  ELSE x[r]

\* backward_front: the pivot row from the extended rows, which must be final.
BackwardRow(t, f, r) ==
  IF r # f THEN x[r]
  ELSE [snap[t][f] EXCEPT !.is = IF \A e \in Ext[f] : snap[t][e].is = "solution"
                                 THEN "solution" ELSE "wrong"]

\* Backward in the top: one child continues here, the others are released.
FirstChild(f)    == IF Children(f) = <<>> THEN <<>> ELSE <<Head(Children(f))>>
OtherChildren(f) == IF Children(f) = <<>> THEN <<>> ELSE Tail(Children(f))

\* The last child to finish runs the parent itself.
LastChild(p) == kids[p] = 1

\* What the front writes, and what its thread does next.
Write(t) ==
  LET f == Head(todo[t])
      p == IF f \in TopRows THEN TopParent[f] ELSE NoFront
  IN
  /\ share[t] = "run" /\ tpc[t] = "write"
  /\ x' = [r \in Fronts |-> IF Forward THEN ForwardRow(t, f, r) ELSE BackwardRow(t, f, r)]
  /\ top' = IF stage # "forward_subtrees" THEN top
            ELSE [top EXCEPT ![t] = [r \in TopRows |-> IF r \in Ext[f] THEN Add(@[r], {f}) ELSE @[r]]]
  /\ snap' = [snap EXCEPT ![t] = <<>>]
  /\ \/ /\ stage \in {"forward_subtrees", "backward_subtrees"}
        /\ todo' = [todo EXCEPT ![t] = Tail(@)]
        /\ tpc' = [tpc EXCEPT ![t] = IF Len(todo[t]) = 1 THEN "claim" ELSE "front"]
        /\ UNCHANGED <<kids, ready>>
     \/ /\ stage = "forward_top"
        /\ kids' = IF p = NoFront THEN kids ELSE [kids EXCEPT ![p] = @ - 1]
        /\ todo' = [todo EXCEPT ![t] = IF p # NoFront /\ LastChild(p) THEN <<p>> ELSE <<>>]
        /\ tpc' = [tpc EXCEPT ![t] = "processed"]
        /\ UNCHANGED ready
     \/ /\ stage = "backward_top"
        /\ ready' = ready \o OtherChildren(f)
        /\ todo' = [todo EXCEPT ![t] = FirstChild(f)]
        /\ tpc' = [tpc EXCEPT ![t] = "processed"]
        /\ UNCHANGED kids
  /\ UNCHANGED <<poolVars, stage, next, remaining>>

-----------------------------------------------------------------------------
(* The shares                                                              *)

Over(t) ==
  /\ share' = [share EXCEPT ![t] = "over"]
  /\ UNCHANGED <<generation, pending, stop, mtx, wpc, seen, cpc>>

Begin(t) ==
  /\ share[t] = "run" /\ tpc[t] = "none"
  /\ tpc' = [tpc EXCEPT ![t] = CASE stage \in {"forward_subtrees", "backward_subtrees"} -> "claim"
                                 [] stage = "sum" -> "sum"
                                 [] OTHER -> "poll"]
  /\ UNCHANGED <<poolVars, stage, x, top, next, kids, ready, remaining, todo, snap>>

\* next.fetch_add: the subtree's fronts in postorder, or the reverse.
Claim(t) ==
  /\ tpc[t] = "claim"
  /\ next' = next + 1
  /\ IF next <= Len(SubFronts)
     THEN /\ todo' = [todo EXCEPT ![t] = IF Forward THEN SubFronts[next] ELSE Reverse(SubFronts[next])]
          /\ tpc' = [tpc EXCEPT ![t] = "front"]
          /\ UNCHANGED poolVars
     ELSE /\ tpc' = [tpc EXCEPT ![t] = "none"]
          /\ Over(t)
          /\ UNCHANGED todo
  /\ UNCHANGED <<stage, x, top, kids, ready, remaining, snap>>

\* A thread's slice of the top's rows.
Slice(t) ==
  LET n == Len(TopFronts)  m == Cardinality(Threads)
  IN  {TopFronts[i + 1] : i \in (n * t) \div m .. (n * (t + 1)) \div m - 1}

\* The buffers of every thread for one row.
AllBuffers(r) ==
  IF \E t, u \in Threads : t # u /\ top[t][r] \cap top[u][r] # {}
  THEN {Twice} ELSE UNION {top[t][r] : t \in Threads}

Sum(t) ==
  /\ tpc[t] = "sum"
  /\ x' = [r \in Fronts |-> IF r \in Slice(t) THEN [x[r] EXCEPT !.upd = Add(@, AllBuffers(r))]
                            ELSE x[r]]
  /\ tpc' = [tpc EXCEPT ![t] = "none"]
  /\ Over(t)
  /\ UNCHANGED <<stage, top, next, kids, ready, remaining, todo, snap>>

\* run_dag: nready is polled outside the list's mutex.
Poll(t) ==
  /\ tpc[t] = "poll"
  /\ tpc' = [tpc EXCEPT ![t] = IF ready = <<>> THEN "empty" ELSE "pop"]
  /\ UNCHANGED <<poolVars, stage, x, top, next, kids, ready, remaining, todo, snap>>

\* Nothing was ready: return when nothing remains either.
Empty(t) ==
  /\ tpc[t] = "empty"
  /\ IF remaining = 0
     THEN tpc' = [tpc EXCEPT ![t] = "none"] /\ Over(t)
     ELSE tpc' = [tpc EXCEPT ![t] = "poll"] /\ UNCHANGED poolVars
  /\ UNCHANGED <<stage, x, top, next, kids, ready, remaining, todo, snap>>

\* Another thread may have emptied the list meanwhile.
Pop(t) ==
  /\ tpc[t] = "pop"
  /\ IF ready = <<>>
     THEN /\ tpc' = [tpc EXCEPT ![t] = "poll"]
          /\ UNCHANGED <<ready, todo>>
     ELSE /\ tpc' = [tpc EXCEPT ![t] = "front"]
          /\ todo' = [todo EXCEPT ![t] = <<Last(ready)>>]
          /\ ready' = Front(ready)
  /\ UNCHANGED <<poolVars, stage, x, top, next, kids, remaining, snap>>

\* A processed node is counted before its continuation runs.
Processed(t) ==
  /\ tpc[t] = "processed"
  /\ remaining' = remaining - 1
  /\ tpc' = [tpc EXCEPT ![t] = IF todo[t] = <<>> THEN "poll" ELSE "front"]
  /\ UNCHANGED <<poolVars, stage, x, top, next, kids, ready, todo, snap>>

ShareStep(t) ==
  \/ Begin(t) \/ Claim(t) \/ Sum(t) \/ Poll(t) \/ Empty(t) \/ Pop(t) \/ Processed(t)
  \/ Read(t) \/ Write(t)

-----------------------------------------------------------------------------
(* Properties                                                              *)

\* Every front solves its pivot row with exactly the updates of the fronts
\* that have it as an extended row, each once, and on the way back from
\* extended rows that are final: whichever thread ran what (solve_forward's
\* buffers and atomic adds, run_dag's order, the pool's barriers).
SolvesTree ==
  \A f \in Fronts :
    /\ x[f].is # "rhs" => x[f].upd = {k \in Fronts : f \in Ext[k]}
    /\ x[f].is # "wrong"
    /\ stage = "end" => x[f].is = "solution"

\* run() returns only when no thread is in a share of its job any more: the
\* job, its lists and the mutex it waits on are on the caller's stack.
ReturnsLast ==
  [][cpc # "out" /\ cpc' = "out" => \A t \in Threads : share'[t] = "none"]_<<poolVars, treeVars>>

=============================================================================
