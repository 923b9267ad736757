------------------------------- MODULE Arenas -------------------------------
(***************************************************************************)
(* Where contribution blocks live that no pass's stack holds: the chunk    *)
(* arena of the subtree roots' blocks (ChunkArena,                         *)
(* solver/src/parallel/chunk_arena.hpp) and the pool of the top fronts'    *)
(* (TreeParallelBuffers::BlockPool, solver/src/multifrontal_serial.cpp).   *)
(* Both keep their memory across factorizations.                           *)
(*                                                                         *)
(* Memory m: cur (from 1), used and chunks of the bump chain; big, the     *)
(* own-size chunks [size, taken]; free, the pool's free buffers            *)
(* [cap, buf]; buffers, how many the pool has made; and mem, what the      *)
(* buffers hold, [buf, off, size, block]. A pointer is [buf, off, cap].    *)
(* One arena stands for the code's two, of values and of row ids.          *)
(***************************************************************************)
LOCAL INSTANCE Integers
LOCAL INSTANCE Sequences
LOCAL INSTANCE SequencesExt

CONSTANT ChunkSize   (* chunk_, in entries *)

NoMemory == [cur |-> 1, used |-> 0, chunks |-> 0, big |-> <<>>, free |-> <<>>, buffers |-> 0,
             mem |-> {}]

Pointer(buf, off, cap) == [buf |-> buf, off |-> off, cap |-> cap]
NoPointer == Pointer(<<"none", 0>>, 0, 0)

\* n entries written at p: whatever they overlap is gone.
Written(m, p, n, block) ==
  [m EXCEPT !.mem = {b \in @ : b.buf # p.buf \/ b.off + b.size <= p.off \/ p.off + n <= b.off}
                    \cup {[buf |-> p.buf, off |-> p.off, size |-> n, block |-> block]}]

\* What p still points to, or none.
ReadAt(m, p, none) ==
  IF \E b \in m.mem : b.buf = p.buf /\ b.off = p.off
  THEN (CHOOSE b \in m.mem : b.buf = p.buf /\ b.off = p.off).block ELSE none

-----------------------------------------------------------------------------
(* ChunkArena                                                              *)

ArenaReset(m) ==
  [m EXCEPT !.cur = 1, !.used = 0,
            !.big = [i \in DOMAIN @ |-> [size |-> @[i].size, taken |-> FALSE]]]

\* A block never spans two chunks.
TakeSmall(m, n) ==
  LET fits == m.used + n <= ChunkSize
      cur  == IF fits THEN m.cur ELSE m.cur + 1
      off  == IF fits THEN m.used ELSE 0
  IN [m  |-> [m EXCEPT !.cur = cur, !.used = off + n,
                       !.chunks = IF cur > @ THEN cur ELSE @],
      at |-> Pointer(<<"chunk", cur>>, off, n)]

FreeBig(m)     == SelectSeq([i \in DOMAIN m.big |-> i], LAMBDA i : ~m.big[i].taken)
Holding(m, n)  == SelectSeq(FreeBig(m), LAMBDA i : m.big[i].size >= n)
SmallestOf(m, s) == SelectSeq(s, LAMBDA i : \A j \in ToSet(s) : m.big[i].size <= m.big[j].size)[1]
LargestOf(m, s)  == SelectSeq(s, LAMBDA i : \A j \in ToSet(s) : m.big[i].size >= m.big[j].size)[1]

\* Own-size chunk i, of size n, its old memory gone.
Resized(m, i, n) ==
  [m EXCEPT !.big = IF i > Len(@) THEN Append(@, [size |-> n, taken |-> TRUE])
                    ELSE [@ EXCEPT ![i] = [size |-> n, taken |-> TRUE]],
            !.mem = {b \in @ : b.buf # <<"big", i>>}]

TakeBig(m, n) ==
  LET i == CASE Holding(m, n) # <<>> -> SmallestOf(m, Holding(m, n))
             [] Holding(m, n) = <<>> /\ FreeBig(m) # <<>> -> LargestOf(m, FreeBig(m))
             [] OTHER -> Len(m.big) + 1
  IN [m  |-> IF Holding(m, n) # <<>> THEN [m EXCEPT !.big[i].taken = TRUE] ELSE Resized(m, i, n),
      at |-> Pointer(<<"big", i>>, 0, n)]

ArenaTake(m, n) == IF n > ChunkSize THEN TakeBig(m, n) ELSE TakeSmall(m, n)

-----------------------------------------------------------------------------
(* BlockPool                                                               *)

Large(m, need) == SelectSeq([i \in DOMAIN m.free |-> i], LAMBDA i : m.free[i].cap >= need)
BestFree(m, need) ==
  SelectSeq(Large(m, need), LAMBDA i : \A j \in ToSet(Large(m, need)) : m.free[i].cap <= m.free[j].cap)[1]

\* The smallest free buffer that holds the block, else a new one.
PoolAcquire(m, need) ==
  IF Large(m, need) # <<>>
  THEN LET i == BestFree(m, need)
       IN [m  |-> [m EXCEPT !.free = RemoveAt(@, i)],
           at |-> Pointer(m.free[i].buf, 0, m.free[i].cap)]
  ELSE [m  |-> [m EXCEPT !.buffers = @ + 1],
        at |-> Pointer(<<"pool", m.buffers + 1>>, 0, need)]

\* Only the pool's buffers are given back.
PoolRelease(m, p) ==
  IF p.buf[1] = "pool" THEN [m EXCEPT !.free = Append(@, [cap |-> p.cap, buf |-> p.buf])] ELSE m

=============================================================================
