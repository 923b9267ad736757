----------------------------- MODULE AptpTiles ------------------------------
(***************************************************************************)
(* The two task graphs of a tiled APTP front                               *)
(* (solver/src/parallel/tile_tasks.cpp): task ids, predecessor counts,     *)
(* successors and urgency as the code computes them, and the matrix tiles  *)
(* and scratch buffers each task reads and writes                          *)
(* (solver/src/ldlt_aptp.cpp), from which the order the serial sweep gives *)
(* every pair of conflicting tasks follows.                                *)
(***************************************************************************)
EXTENDS Integers, Sequences, SequencesExt

CONSTANTS
  K,    (* eligible block columns                                           *)
  NR    (* row blocks: the K eligible ones, then the others                 *)

ASSUME GridAssumption == K \in Nat \ {0} /\ NR \in Nat /\ K <= NR

KT == NR - K

-----------------------------------------------------------------------------
(* The main graph: Factor(k), Finish(k), ApplyN(i, k), Update(i, j, k)     *)

tri(j) == j * NR - (j * (j - 1)) \div 2
TU     == K * NR - (K * (K - 1)) \div 2
baseA  == 2 * K
baseU  == 2 * K + K * NR

idF(k)       == k
idR(k)       == K + k
idA(i, k)    == baseA + k * NR + i
idU(i, j, k) == baseU + k * TU + tri(j) + (i - j)

\* Update's tile (i, j) in the grid, over which ucol is filled.
Tiles == {c \in (0..NR-1) \X (0..K-1) : c[1] >= c[2]}

\* decode_u
UTile(t) == CHOOSE c \in Tiles : tri(c[2]) + (c[1] - c[2]) = (t - baseU) % TU
UCol(t)  == (t - baseU) \div TU

\* What execute() decodes a task id to.
Decode(t) ==
  CASE t < K     -> [op |-> "Factor", i |-> t, j |-> t, k |-> t]
    [] t \in K..(2*K - 1) -> [op |-> "Finish", i |-> t - K, j |-> t - K, k |-> t - K]
    [] t \in baseA..(baseU - 1) ->
         LET k == (t - baseA) \div NR
         IN  [op |-> "ApplyN", i |-> (t - baseA) - k * NR, j |-> k, k |-> k]
    [] OTHER     -> [op |-> "Update", i |-> UTile(t)[1], j |-> UTile(t)[2], k |-> UCol(t)]

\* The tasks ldlt_aptp_front_tiled counts into total.
MainTasks ==
  {idF(k) : k \in 0..K-1} \cup {idR(k) : k \in 0..K-1}
    \cup {idA(x[1], x[2]) : x \in {y \in (0..NR-1) \X (0..K-1) : y[1] > y[2]}}
    \cup {idU(x[1], x[2], x[3]) :
            x \in {y \in (0..NR-1) \X (0..K-1) \X (0..K-1) : y[1] >= y[2] /\ y[2] > y[3]}}

\* The tasks of each graph; the ready queues have room for the larger count.
MainRoom ==
  LET upTo[k \in 0..K] == IF k = 0 THEN 2 * K ELSE upTo[k - 1] + (NR - k) + (TU - tri(k))
  IN  upTo[K]
TrailRoom == KT + (KT * (KT + 1)) \div 2

\* Mutant: Factor(k) waits for the updates of its block column that change
\* its diagonal tile, not for those of the rows below.
MainPendingMut(t) ==
  LET d == Decode(t)
  IN  CASE d.op = "Factor" -> IF d.k = 0 THEN 0 ELSE 2
        [] d.op = "Finish" -> 1 + (NR - 1 - d.k)
        [] d.op = "ApplyN" -> 1
        [] OTHER           -> IF d.k = 0 THEN 1 ELSE 2

MainPending(t) ==
  LET d == Decode(t)
  IN  CASE d.op = "Factor" -> IF d.k = 0 THEN 0 ELSE 1 + (NR - d.k)
        [] d.op = "Finish" -> 1 + (NR - 1 - d.k)
        [] d.op = "ApplyN" -> 1
        [] OTHER           -> IF d.k = 0 THEN 1 ELSE 2

Seq0(a, b) == [x \in 1..(IF b < a THEN 0 ELSE b - a + 1) |-> a + x - 1]   \* a, .., b

\* AptpTiles::release: the successors, in the order they are released.
MainSuccessors(t) ==
  LET d == Decode(t)
      k == d.k
      column(j) == [x \in 1..(NR - j) |-> idU(j + x - 1, j, k)]
  IN CASE d.op = "Factor" -> [x \in 1..(NR - 1 - k) |-> idA(k + x, k)] \o <<idR(k)>>
       [] d.op = "Finish" ->
            FlattenSeq([x \in 1..(K - 1 - k) |-> column(k + x)])
              \o (IF k + 1 < K THEN <<idF(k + 1)>> ELSE <<>>)
       [] d.op = "ApplyN" -> <<idR(k)>>
       [] OTHER -> IF d.j = k + 1 THEN <<idF(k + 1)>> ELSE <<idU(d.i, d.j, k + 1)>>

MainUrgent(t) == t < baseU \/ UTile(t)[2] = UCol(t) + 1

-----------------------------------------------------------------------------
(* The trailing graph: FormW(j) = j, Tile(i, j) = KT + j KT + i            *)

TrailTasks == (0..KT-1) \cup {KT + x[2] * KT + x[1] : x \in {y \in (0..KT-1) \X (0..KT-1) : y[1] >= y[2]}}
TrailPending(t)    == IF t < KT THEN 0 ELSE 1
TrailSuccessors(t) == IF t >= KT THEN <<>> ELSE [x \in 1..(KT - t) |-> KT + t * KT + t + x - 1]
TrailUrgent(t)     == t < KT

-----------------------------------------------------------------------------
(* The graphs a front runs, one after the other                            *)

Graphs == {1, 2}

Tasks(g)         == IF g = 1 THEN MainTasks ELSE TrailTasks
Pending(g)       == [t \in Tasks(g) |-> IF g = 1 THEN MainPending(t) ELSE TrailPending(t)]
Successors(g, t) == IF g = 1 THEN MainSuccessors(t) ELSE TrailSuccessors(t)
Urgent(g, t)     == IF g = 1 THEN MainUrgent(t) ELSE TrailUrgent(t)
Roots(g)         == IF g = 1 THEN <<idF(0)>> ELSE Seq0(0, KT - 1)

-----------------------------------------------------------------------------
(* Data. A tile (i, k) of the eligible columns has an accepted part "L"    *)
(* (the pivots block_finish keeps) and a failed part "Q"; "W" (k, j) is    *)
(* the transposed L D of block k in the columns of block j.                *)

Both(i, j) == {<<"L", i, j>>, <<"Q", i, j>>}

Rows(a) == a..(NR - 1)

\* block_factor, apply_n, block_finish(.., OwnBlock), update_tile
MainWrites(t) ==
  LET d == Decode(t)
      k == d.k
  IN CASE d.op = "Factor" ->
            {<<"scratch">>, <<"bk">>, <<"lt">>, <<"lpc">>, <<"tags", k>>, <<"ne_t", k>>, <<"W", k, k>>}
              \cup (UNION {Both(i, k) : i \in Rows(k)})
              \cup (UNION {Both(k, j) : j \in 0..k})
       [] d.op = "ApplyN" -> Both(d.i, k) \cup {<<"tfail", d.i>>}
       [] d.op = "Finish" ->
            {<<"scratch">>, <<"bk">>, <<"tags", k>>, <<"nel", k>>, <<"failed">>}
              \cup {<<"Q", c[1], c[2]>> : c \in {x \in Tiles : x[2] <= k}}
              \cup {<<"W", k, j>> : j \in k..K-1}
       [] OTHER -> Both(d.i, d.j)

MainReads(t) ==
  LET d == Decode(t)
      k == d.k
  IN CASE d.op = "Factor" -> {}                 \* all of them are written too
       [] d.op = "ApplyN" -> {<<"ne_t", k>>, <<"lt">>, <<"tags", k>>}
       [] d.op = "Finish" ->
            {<<"ne_t", k>>, <<"lt">>, <<"lpc">>} \cup {<<"tfail", i>> : i \in Rows(k + 1)}
              \cup {<<"L", i, k>> : i \in Rows(k)}
       [] OTHER -> {<<"nel", k>>, <<"L", d.i, k>>, <<"W", k, d.j>>}

\* trailing_form_w and trailing_tile, over the compacted pivots
TrailWrites(t) == IF t < KT THEN {<<"W", t>>} ELSE {<<"C", (t - KT) % KT, (t - KT) \div KT>>}
TrailReads(t)  == IF t < KT THEN {<<"rows", t>>}
                  ELSE {<<"rows", (t - KT) % KT>>, <<"W", (t - KT) \div KT>>}

Writes(g, t) == IF g = 1 THEN MainWrites(t) ELSE TrailWrites(t)
Reads(g, t)  == IF g = 1 THEN MainReads(t) ELSE TrailReads(t)

\* Two tasks that must not overlap, and whose order the result depends on.
Conflicting(g, s, t) ==
  \/ Writes(g, s) \cap (Writes(g, t) \cup Reads(g, t)) # {}
  \/ Writes(g, t) \cap Reads(g, s) # {}

\* The place of a task in the serial sweep: block column by block column, and
\* in each Factor, ApplyN, Finish, Update. Tasks at one place are unordered.
Place(g, t) ==
  IF g = 2 THEN (IF t < KT THEN 0 ELSE 1)
  ELSE LET d == Decode(t)
       IN  4 * d.k + (CASE d.op = "Factor" -> 0 [] d.op = "ApplyN" -> 1
                        [] d.op = "Finish" -> 2 [] OTHER -> 3)

\* The same as functions, which TLC evaluates once.
SuccessorsOf == [g \in Graphs |-> [t \in Tasks(g) |-> Successors(g, t)]]
UrgentTasks  == [g \in Graphs |-> {t \in Tasks(g) : Urgent(g, t)}]
OtherTasks   == [g \in Graphs |-> Tasks(g) \ UrgentTasks[g]]
PlaceOf      == [g \in Graphs |-> [t \in Tasks(g) |-> Place(g, t)]]
Conflicts    == [g \in Graphs |-> [t \in Tasks(g) |-> {s \in Tasks(g) \ {t} : Conflicting(g, s, t)}]]

=============================================================================
