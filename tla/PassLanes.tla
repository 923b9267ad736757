----------------------------- MODULE PassLanes ------------------------------
(***************************************************************************)
(* PassLanes (solver/src/parallel/top_scheduler.{hpp,cpp}): the passes'    *)
(* buffers, handed as lanes to the chains of fronts the top phase runs     *)
(* (the callbacks of TopScheduler::work in multifrontal_serial.cpp). A     *)
(* lane's room is the buffer past its fill; the front a lane runs fills    *)
(* and grows it without a lock.                                            *)
(***************************************************************************)
EXTENDS Integers, FiniteSets

CONSTANTS
  Lanes,     (* lanes and threads: 0..lanes-1, one lane per thread          *)
  MaxRoom,   (* bound: the room of a lane                                   *)
  Aborted    (* pick's std::abort                                           *)

NoLane == -1

ASSUME LanesAssumption == Lanes \subseteq Nat /\ IsFiniteSet(Lanes) /\ Lanes # {}
ASSUME RoomAssumption  == MaxRoom \in Nat
ASSUME AbortAssumption == Aborted \notin Lanes \cup {NoLane}

Threads == Lanes

VARIABLES
  busy,   (* busy_: the lanes marked busy                                   *)
  room,   (* room(l) of each lane                                           *)
  lane,   (* lane_of: the lane of each thread's chain, NoLane outside one   *)
  need,   (* the room the thread's next front needs                         *)
  pc      (* idle, picking, running or ran                                  *)

vars == <<busy, room, lane, need, pc>>

Goto(t, l) == pc' = [pc EXCEPT ![t] = l]

Init ==
  /\ busy = {}
  /\ room \in [Lanes -> 0..MaxRoom]
  /\ lane = [t \in Threads |-> NoLane]
  /\ need = [t \in Threads |-> 0]
  /\ pc = [t \in Threads |-> "idle"]

-----------------------------------------------------------------------------
(* run() picks the lane of a chain's first or next front                   *)

\* A chain starts, or goes on with the parent of the front it completed.
NextFront(t) ==
  /\ pc[t] \in {"idle", "ran"}
  /\ \E n \in 0..MaxRoom : need' = [need EXCEPT ![t] = n]
  /\ Goto(t, "picking")
  /\ UNCHANGED <<busy, room, lane>>

\* The lock-free case: the held lane has the room.
HeldFits(t) == lane[t] # NoLane /\ room[lane[t]] >= need[t]

KeepLane(t) ==
  /\ pc[t] = "picking"
  /\ HeldFits(t)
  /\ Goto(t, "running")
  /\ UNCHANGED <<busy, room, lane, need>>

Free == Lanes \ busy

\* The free lane with the most room, the lowest on ties.
Best(l) == l \in Free /\ \A m \in Free : room[m] < room[l] \/ (room[m] = room[l] /\ l <= m)

\* busy_ once the chain has moved from its lane, if it held one.
Moved(held, l) == (busy \ {held}) \cup {l}

\* Mutant: a thread starts on its own lane, busy or not.
HomeFitsMut(t) == room[t] >= need[t]

HomeFits(t) == t \notin busy /\ room[t] >= need[t]

Take(t, l) == lane' = [lane EXCEPT ![t] = l]

\* A chain starts: on the thread's own lane, else on the best one.
PickStart(t) ==
  /\ lane[t] = NoLane
  /\ \/ HomeFits(t) /\ Take(t, t) /\ busy' = busy \cup {t}
     \/ ~HomeFits(t) /\ \E l \in Free : Best(l) /\ Take(t, l) /\ busy' = busy \cup {l}
     \/ ~HomeFits(t) /\ Free = {} /\ Take(t, Aborted) /\ UNCHANGED busy

\* A chain goes on: it moves to the best lane when that has the room, else it
\* grows its own.
PickNext(t) ==
  /\ lane[t] # NoLane
  /\ \/ \E l \in Free : Best(l) /\ room[l] >= need[t] /\ Take(t, l) /\ busy' = Moved(lane[t], l)
     \/ (\A l \in Free : room[l] < need[t]) /\ UNCHANGED <<lane, busy>>

\* The choice under the lock.
PickLocked(t) ==
  /\ pc[t] = "picking"
  /\ ~HeldFits(t)
  /\ PickStart(t) \/ PickNext(t)
  /\ Goto(t, "running")
  /\ UNCHANGED <<room, need>>

\* The front is assembled in the lane, which grows if it must and fills up:
\* the only writes of a lane's room.
Run(t) ==
  /\ pc[t] = "running" /\ lane[t] # Aborted
  /\ \E r \in 0..MaxRoom : room' = [room EXCEPT ![lane[t]] = r]
  /\ Goto(t, "ran")
  /\ UNCHANGED <<busy, lane, need>>

\* chain_end: the lane is released, then forgotten.
Release(t) ==
  /\ pc[t] = "ran"
  /\ busy' = busy \ {lane[t]}
  /\ lane' = [lane EXCEPT ![t] = NoLane]
  /\ Goto(t, "idle")
  /\ UNCHANGED <<room, need>>

-----------------------------------------------------------------------------
Step(t) == NextFront(t) \/ KeepLane(t) \/ PickLocked(t) \/ Run(t) \/ Release(t)

Next == \E t \in Threads : Step(t)

Spec == Init /\ [][Next]_vars

-----------------------------------------------------------------------------
(* Properties                                                              *)

Held == {lane[t] : t \in Threads} \ {NoLane}

\* Every variable has its type: in particular no chain start has found every
\* lane busy (pick's std::abort, top_scheduler.hpp:184-186).
TypeOK ==
  /\ busy \subseteq Lanes
  /\ room \in [Lanes -> 0..MaxRoom]
  /\ lane \in [Threads -> Lanes \cup {NoLane}]
  /\ need \in [Threads -> 0..MaxRoom]
  /\ pc \in [Threads -> {"idle", "picking", "running", "ran"}]

\* top_scheduler.hpp:116-119: a lane's holder is the only thread that changes
\* its room: no two chains share a lane, and the lanes pick reads under its
\* lock (the free ones) are in nobody's hands.
HoldersOnly ==
  /\ \A t, u \in Threads : t # u /\ lane[t] # NoLane => lane[t] # lane[u]
  /\ busy = Held

=============================================================================
