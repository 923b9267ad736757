-------------------------- MODULE PassLanesProofs ---------------------------
(***************************************************************************)
(* Proofs about PassLanes, for every number of lanes: no two chains share  *)
(* a lane, and a chain start always finds one free.                        *)
(***************************************************************************)
EXTENDS PassLanes, FiniteSetTheorems, TLAPS

\* The invariant that is inductive: a chain start finds a free lane because
\* the busy ones are those of the other threads' chains, at most one each.
\* A running thread holds a lane.
IInv ==
  /\ TypeOK
  /\ HoldersOnly
  /\ \A t \in Threads : pc[t] \in {"running", "ran"} => lane[t] # NoLane

\* A thread outside a chain finds a free lane (the comment at pick's abort:
\* at most `lanes` chains run at once).
LEMMA SomeFree ==
  ASSUME IInv, NEW t \in Threads, lane[t] = NoLane
  PROVE  Free # {}
<1> DEFINE S == {u \in Threads : lane[u] # NoLane}
           f == [u \in S |-> lane[u]]
<1>1. SUFFICES ASSUME Free = {} PROVE FALSE
  OBVIOUS
<1>2. busy = Lanes
  BY <1>1 DEF Free, IInv, TypeOK
<1>3. Held = Lanes
  BY <1>2 DEF IInv, HoldersOnly
<1>4. \A l \in Lanes : \E u \in S : f[u] = l
  BY <1>3 DEF Held
<1>5. \A u \in S : f[u] \in Lanes
  BY DEF IInv, TypeOK
<1>6. f \in Surjection(S, Lanes)
  BY <1>4, <1>5 DEF Surjection
<1>7. S \in SUBSET (Lanes \ {t})
  BY DEF Threads
<1>8. /\ IsFiniteSet(Lanes \ {t})
      /\ Cardinality(Lanes \ {t}) = Cardinality(Lanes) - 1
  BY LanesAssumption, FS_RemoveElement DEF Threads
<1>9. IsFiniteSet(S) /\ Cardinality(S) <= Cardinality(Lanes \ {t})
  BY <1>7, <1>8, FS_Subset
<1>10. Cardinality(Lanes) <= Cardinality(S)
  <2> HIDE DEF S, f
  <2> QED BY <1>6, <1>9, FS_Surjection
<1>11. Cardinality(Lanes) \in Nat /\ Cardinality(S) \in Nat
  BY <1>9, LanesAssumption, FS_CardinalityType
<1>12. QED
  BY <1>8, <1>9, <1>10, <1>11

LEMMA NoLaneIsNone == NoLane \notin Lanes
BY LanesAssumption DEF NoLane

\* The initial states satisfy the inductive invariant.
LEMMA InitInv == Init => IInv
<1> SUFFICES ASSUME Init PROVE IInv
  OBVIOUS
<1>1. TypeOK
  <2>1. 0 \in 0..MaxRoom
    BY RoomAssumption
  <2>2. QED
    BY <2>1 DEF Init, TypeOK, Threads
<1>2. \A t \in Threads : lane[t] = NoLane /\ pc[t] = "idle"
  BY DEF Init
<1>3. HoldersOnly
  BY <1>2 DEF Init, HoldersOnly, Held
<1>4. QED
  BY <1>1, <1>2, <1>3 DEF IInv

\* A pick leaves every lane with one holder.
LEMMA PickInv ==
  ASSUME IInv, NEW t \in Threads, PickLocked(t)
  PROVE  IInv'
<1> USE NoLaneIsNone
<1>1. /\ UNCHANGED <<room, need>>
      /\ pc' = [pc EXCEPT ![t] = "running"]
      /\ pc[t] = "picking"
  BY DEF PickLocked, Goto
<1>2. ASSUME NEW l \in Free, Take(t, l), busy' = (busy \ {lane[t]}) \cup {l}
      PROVE  IInv'
  <2>1. l \in Lanes /\ l \notin busy /\ l # NoLane
    BY <1>2 DEF Free
  <2>2. \A u \in Threads : lane[u] # l
    BY <2>1 DEF IInv, HoldersOnly, Held
  <2>3. lane' = [lane EXCEPT ![t] = l]
    BY <1>2 DEF Take
  <2>4. TypeOK'
    BY <1>1, <1>2, <2>1, <2>3 DEF IInv, TypeOK
  <2>5. \A u, v \in Threads : u # v /\ lane'[u] # NoLane => lane'[u] # lane'[v]
    BY <2>1, <2>2, <2>3 DEF IInv, TypeOK, HoldersOnly
  <2>6. busy' = Held'
    <3>1. Held' = {lane'[u] : u \in Threads} \ {NoLane}
      BY DEF Held
    <3>2. \A x : x \in Held' <=> x = l \/ (x # NoLane /\ \E u \in Threads \ {t} : lane[u] = x)
      BY <2>1, <2>3, <3>1 DEF IInv, TypeOK
    <3>3. \A x : x \in busy \ {lane[t]} <=> x # NoLane /\ \E u \in Threads \ {t} : lane[u] = x
      BY DEF IInv, TypeOK, HoldersOnly, Held
    <3>4. QED
      BY <1>2, <3>2, <3>3
  <2>7. \A u \in Threads : pc'[u] \in {"running", "ran"} => lane'[u] # NoLane
    BY <1>1, <2>1, <2>3 DEF IInv, TypeOK
  <2>8. QED
    BY <2>4, <2>5, <2>6, <2>7 DEF IInv, HoldersOnly
<1>3. CASE PickStart(t)
  <2>1. lane[t] = NoLane /\ lane[t] \notin busy
    BY <1>3 DEF PickStart, IInv, TypeOK
  <2>2. CASE HomeFits(t) /\ Take(t, t) /\ busy' = busy \cup {t}
    <3>1. t \in Free /\ busy' = (busy \ {lane[t]}) \cup {t}
      BY <2>1, <2>2 DEF HomeFits, Free, Threads
    <3>2. QED
      BY <3>1, <2>2, <1>2
  <2>3. CASE \E l \in Free : Best(l) /\ Take(t, l) /\ busy' = busy \cup {l}
    <3>1. PICK l \in Free : Take(t, l) /\ busy' = busy \cup {l}
      BY <2>3
    <3>2. busy' = (busy \ {lane[t]}) \cup {l}
      BY <2>1, <3>1
    <3>3. QED
      BY <3>1, <3>2, <1>2
  <2>4. Free # {}
    BY <2>1, SomeFree
  <2>5. QED
    BY <1>3, <2>2, <2>3, <2>4 DEF PickStart
<1>4. CASE PickNext(t)
  <2>1. CASE \E l \in Free : Best(l) /\ room[l] >= need[t] /\ Take(t, l) /\ busy' = Moved(lane[t], l)
    BY <2>1, <1>2 DEF Moved
  <2>2. CASE UNCHANGED <<lane, busy>>
    <3>1. lane[t] # NoLane
      BY <1>4 DEF PickNext
    <3>2. QED
      BY <1>1, <2>2, <3>1 DEF IInv, TypeOK, HoldersOnly, Held
  <2>3. QED
    BY <1>4, <2>1, <2>2 DEF PickNext
<1>5. QED
  BY <1>3, <1>4 DEF PickLocked

\* Every step preserves the inductive invariant.
LEMMA NextInv == IInv /\ [Next]_vars => IInv'
<1> SUFFICES ASSUME IInv, [Next]_vars PROVE IInv'
  OBVIOUS
<1> USE NoLaneIsNone
<1>1. CASE UNCHANGED vars
  BY <1>1 DEF vars, IInv, TypeOK, HoldersOnly, Held
<1>2. ASSUME NEW t \in Threads, NextFront(t) PROVE IInv'
  BY <1>2 DEF NextFront, Goto, IInv, TypeOK, HoldersOnly, Held
<1>3. ASSUME NEW t \in Threads, KeepLane(t) PROVE IInv'
  BY <1>3 DEF KeepLane, HeldFits, Goto, IInv, TypeOK, HoldersOnly, Held
<1>4. ASSUME NEW t \in Threads, PickLocked(t) PROVE IInv'
  BY <1>4, PickInv
<1>5. ASSUME NEW t \in Threads, Run(t) PROVE IInv'
  BY <1>5 DEF Run, Goto, IInv, TypeOK, HoldersOnly, Held
<1>6. ASSUME NEW t \in Threads, Release(t) PROVE IInv'
  <2>1. TypeOK'
    BY <1>6 DEF Release, Goto, IInv, TypeOK
  <2>2. \A u, v \in Threads : u # v /\ lane'[u] # NoLane => lane'[u] # lane'[v]
    BY <1>6 DEF Release, Goto, IInv, TypeOK, HoldersOnly
  <2>3. busy' = Held'
    <3>1. Held' = {lane'[u] : u \in Threads} \ {NoLane}
      BY DEF Held
    <3>2. \A x : x \in Held' <=> x # NoLane /\ \E u \in Threads \ {t} : lane[u] = x
      BY <1>6, <3>1 DEF Release, IInv, TypeOK
    <3>3. \A x : x \in busy \ {lane[t]} <=> x # NoLane /\ \E u \in Threads \ {t} : lane[u] = x
      BY DEF IInv, TypeOK, HoldersOnly, Held
    <3>4. QED
      BY <1>6, <3>2, <3>3 DEF Release
  <2>4. \A u \in Threads : pc'[u] \in {"running", "ran"} => lane'[u] # NoLane
    BY <1>6 DEF Release, Goto, IInv, TypeOK
  <2>5. QED
    BY <2>1, <2>2, <2>3, <2>4 DEF IInv, HoldersOnly
<1>7. QED
  BY <1>1, <1>2, <1>3, <1>4, <1>5, <1>6 DEF Next, Step

\* The states of every behaviour satisfy the inductive invariant.
THEOREM Inductive == Spec => []IInv
BY InitInv, NextInv, PTL DEF Spec

\* pick never aborts: a chain start always finds a free lane.
THEOREM TypeCorrect == Spec => []TypeOK
<1>1. IInv => TypeOK
  BY DEF IInv
<1>2. QED
  BY <1>1, Inductive, PTL

\* No two chains share a lane, so a lane's holder is the only thread that
\* changes its room, and pick reads under its lock only lanes nobody holds.
THEOREM Exclusive == Spec => []HoldersOnly
<1>1. IInv => HoldersOnly
  BY DEF IInv
<1>2. QED
  BY <1>1, Inductive, PTL

=============================================================================
