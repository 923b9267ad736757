---------------------------- MODULE ProcessFront ----------------------------
(***************************************************************************)
(* One front of the multifrontal factorization (process_front,             *)
(* solver/src/multifrontal_serial.cpp): assembled from the matrix and its  *)
(* children's contribution blocks, factored by the kernel its size and     *)
(* state select, once more if its delays break the delay budget, stored in *)
(* the solve layout, and its Schur complement left for the parent.         *)
(*                                                                         *)
(* Fronts are numbered 1..ns in postorder, rows 1..n. A problem cs has, by *)
(* front, its columns cols, the rows below them, parent (0: none) and kids *)
(* (descending); the matrix a; the Control ctl; threads; and, for a tree   *)
(* that is partitioned, its subtrees <<lo, hi>>.                           *)
(*                                                                         *)
(* The workspace w: passes (0 is the serial one), cb (where each front's   *)
(* contribution block is), nodes (node_blocks), their memory (Arenas),     *)
(* front_pass, col_ptr and the pivots' types. Offsets are the code's, from *)
(* 0; a pass's fo and ro are the lengths of fv and sri.                    *)
(***************************************************************************)
EXTENDS AptpKernel, Arenas

LOCAL INSTANCE SequencesExt

CONSTANTS
  SmallFrontMax,   (* kSmallFrontMax                                        *)
  RootBlockMin     (* kRootBlockMinEntries                                  *)

-----------------------------------------------------------------------------
(* The Control, as multifrontal_factor_serial reads it                     *)

StaticPivot(ctl) == IF ctl.posdef THEN Zero ELSE ctl.static_pivot

KernelParams(ctl) ==
  [u |-> ctl.pivot_u, eff_small |-> ctl.eff_small, small_pivot |-> ctl.small_pivot,
   nb |-> MaxInt(2, ctl.indef_panel_size), posdef |-> ctl.posdef,
   static_pivot |-> StaticPivot(ctl), in_order |-> StaticPivot(ctl) # Zero /\ ctl.in_order,
   as_zero |-> ctl.as_zero, zero_stays |-> ctl.zero_stays]

FallbackStatic(ctl) == IF ctl.posdef THEN Zero ELSE ctl.fallback

BudgetArmed(ctl) ==
  ~ctl.posdef /\ StaticPivot(ctl) = Zero /\ ctl.delay_budget >= 0 /\ ctl.budget_static # Zero

PlainThreshold(ctl) == ~ctl.posdef /\ StaticPivot(ctl) = Zero

AptpOn(ctl) ==
  /\ PlainThreshold(ctl) /\ ctl.pivot_u # Zero
  /\ ctl.front_kernel = "Aptp" \/ (ctl.front_kernel = "Auto" /\ ctl.aptp_min_elig > 0)
AptpMinElig(ctl) == IF ctl.front_kernel = "Aptp" THEN 1 ELSE MaxInt(1, ctl.aptp_min_elig)

\* top_tiles_on
TilesOn(cs) ==
  /\ PlainThreshold(cs.ctl) /\ cs.ctl.top_tiles /\ (cs.threads > 1 \/ cs.ctl.det)
  /\ AtMost(WeakRatio, cs.ctl.pivot_u)

LapackMin(ctl) ==
  IF ctl.posdef /\ ~ctl.det /\ ctl.lapack THEN MaxInt(1, ctl.lapack_min_front) ELSE 0

-----------------------------------------------------------------------------
(* Contribution blocks                                                     *)

MainPass == 0
InNode   == -1
NoBlock  == [rows |-> <<>>, a |-> <<>>]
Packed(q) == (q * (q + 1)) \div 2

\* The block at an offset of a stack, if nothing has overwritten it.
OnStack(stack, off) ==
  IF \E b \in stack : b.off = off THEN (CHOOSE b \in stack : b.off = off).block ELSE NoBlock

\* A block pushed: whatever it overlaps is gone.
Pushed(stack, off, block) ==
  LET end == off + Packed(Len(block.rows))
  IN {b \in stack : b.off + Packed(Len(b.block.rows)) <= off \/ b.off >= end}
     \cup {[off |-> off, block |-> block]}

HeldBy(pass, c) == \E b \in 1..2 : pass.held[b].node = c

\* Child c's block, as pass me reads it.
ChildBlock(w, me, c) ==
  IF w.cb[c].size = 0 THEN NoBlock
  ELSE IF HeldBy(w.passes[me], c)
  THEN w.passes[me].held[CHOOSE b \in 1..2 : w.passes[me].held[b].node = c].block
  ELSE IF w.cb[c].owner = InNode THEN ReadAt(w.memory, w.nodes[c], NoBlock)
  ELSE OnStack(w.passes[w.cb[c].owner].stack, w.cb[c].off)

-----------------------------------------------------------------------------
(* Assembly. A call x of process_front has the problem cs, the front s,    *)
(* the pass me, pop, whether there is a tile context tc, and next, the     *)
(* pass's next front.                                                      *)

Kids(cs, s)  == ToSet(cs.kids[s])
Delays(x, w) == FoldLeft(LAMBDA sum, c : sum + w.cb[c].delayed, 0, x.cs.kids[x.s])

\* Delayed columns first, then the front's own rows, then (defensively) any
\* other row of a child's block.
DelayedRows(x, w) ==
  FlattenSeq([i \in DOMAIN x.cs.kids[x.s] |->
    SubSeq(ChildBlock(w, x.me, x.cs.kids[x.s][i]).rows, 1, w.cb[x.cs.kids[x.s][i]].delayed)])
WithExtras(rows, kidRows) ==
  FoldLeft(LAMBDA rs, r : IF Contains(rs, r) THEN rs ELSE Append(rs, r), rows, kidRows)
RowsOfFront(x, w) ==
  WithExtras(DelayedRows(x, w) \o x.cs.cols[x.s] \o x.cs.below[x.s],
             FlattenSeq([i \in DOMAIN x.cs.kids[x.s] |->
                           ChildBlock(w, x.me, x.cs.kids[x.s][i]).rows]))

\* An entry of the matrix belongs to the front of its column.
OwnEntry(cs, s, i, j) ==
  IF MinInt(i, j) \in ToSet(cs.cols[s]) THEN cs.a[i][j] ELSE Zero
EntryOf(block, i, j) ==
  IF Contains(block.rows, i) /\ Contains(block.rows, j) THEN block.a[i][j] ELSE Zero

AssembledFrom(cs, s, R, blocks) ==
  [i \in R |-> [j \in R |->
     Plus(OwnEntry(cs, s, i, j), Total([c \in DOMAIN blocks |-> EntryOf(blocks[c], i, j)],
                                       DOMAIN blocks))]]

AssembledRows(cs, s, rows, blocks) == NewFront(rows, AssembledFrom(cs, s, ToSet(rows), blocks))
Assembled(x, w) ==
  AssembledRows(x.cs, x.s, RowsOfFront(x, w),
                [c \in Kids(x.cs, x.s) |-> ChildBlock(w, x.me, c)])

-----------------------------------------------------------------------------
(* The kernel of a front of f rows, e of them eligible, nd delayed         *)

IsRoot(cs, s) == cs.parent[s] = 0

FallbackFront(cs, s, nd) ==
  FallbackStatic(cs.ctl) # Zero /\ (IsRoot(cs, s) \/ nd > Len(cs.cols[s]))

ParamsOf(cs, fallback, budgeted) ==
  LET p == KernelParams(cs.ctl)
  IN CASE fallback -> [p EXCEPT !.static_pivot = FallbackStatic(cs.ctl), !.zero_stays = TRUE]
       [] ~fallback /\ budgeted -> [p EXCEPT !.static_pivot = cs.ctl.budget_static]
       [] OTHER -> p

Tiled(cs, f, tc)     == tc /\ TilesOn(cs) /\ f >= cs.ctl.tile_min
AptpSized(cs, e)     == AptpOn(cs.ctl) /\ e >= AptpMinElig(cs.ctl)
LapackSized(cs, f)   == LapackMin(cs.ctl) > 0 /\ f >= LapackMin(cs.ctl)
SmallSized(cs, f)    == cs.ctl.small_fronts /\ f <= SmallFrontMax /\ f < BlockedMinFront

\* A fallback or budget front static-pivots, which APTP does not.
KernelOf(cs, f, e, tc, static) ==
  IF ~static /\ (Tiled(cs, f, tc) \/ AptpSized(cs, e)) THEN "aptp"
  ELSE IF LapackSized(cs, f) THEN "lapack"
  ELSE IF SmallSized(cs, f) THEN "small" ELSE "plain"

\* The small-front kernel is the unblocked loop in another layout, and the
\* Cholesky kernel of a positive definite front its pivots in order.
FactoredBy(kernel, fr, e, p) ==
  CASE kernel = "aptp" -> AptpThenTpp(AptpFront(fr, e, p), e, p)
    [] kernel \in {"small", "lapack"} -> Unblocked(fr, e, p)
    [] OTHER -> FactorFront(fr, e, p)

-----------------------------------------------------------------------------
(* The solve layout                                                        *)

\* The pivots' tags, with the columns a root has not accepted (0).
TagsTo(fr, pStore) == fr.tags \o [i \in 1..(pStore - Len(fr.tags)) |-> 0]

\* A slot of column c: L below D, D inline, a 2x2's off-diagonal above its
\* second pivot.
Slot(fr, g, c, i) ==
  CASE g[c] = 0 -> Zero
    [] g[c] = -1 /\ i = c - 1 -> Entry(fr, c, c - 1)
    [] g[c] # 0 /\ i = c -> Entry(fr, c, c)
    [] g[c] # 0 /\ i > c /\ ~(g[c] = 2 /\ i = c + 1) -> Entry(fr, i, c)
    [] OTHER -> Zero
Panels(fr, g) ==
  [q \in 1..(Len(g) * Size(fr)) |-> Slot(fr, g, ((q - 1) \div Size(fr)) + 1, ((q - 1) % Size(fr)) + 1)]

DiagEntries(fr, g) ==
  FlattenSeq([c \in DOMAIN g |->
    CASE g[c] = 0 -> <<[size |-> 1, was_zero |-> TRUE, rows |-> <<fr.rows[c]>>, d |-> <<Zero>>]>>
      [] g[c] = 1 -> <<[size |-> 1, was_zero |-> FALSE, rows |-> <<fr.rows[c]>>, d |-> <<Entry(fr, c, c)>>]>>
      [] g[c] = 2 -> <<[size |-> 2, was_zero |-> FALSE, rows |-> <<fr.rows[c], fr.rows[c + 1]>>,
                        d |-> <<Entry(fr, c, c), Entry(fr, c + 1, c), Entry(fr, c + 1, c + 1)>>]>>
      [] OTHER -> <<>>])

SchurBlock(fr) ==
  LET R == RowsAt(fr, fr.k..Size(fr))
  IN [rows |-> SubSeq(fr.rows, fr.k, Size(fr)), a |-> [x \in R |-> [y \in R |-> fr.a[x][y]]]]

-----------------------------------------------------------------------------
(* After the kernel                                                        *)

\* The blocks of the children on the pass's own stack are popped.
PoppedTo(x, w) ==
  LET tops == {w.passes[x.me].cv_top} \cup
              {w.cb[c].off : c \in {k \in Kids(x.cs, x.s) : x.pop /\ w.cb[k].size > 0
                                                            /\ w.cb[k].owner = x.me}}
  IN CHOOSE o \in tops : \A q \in tops : o <= q

\* release_child_blocks: without pop, node blocks go back to the pool.
ChildBlocksReleased(x, w) ==
  FoldLeft(LAMBDA m, c : IF ~x.pop /\ w.cb[c].size > 0 /\ w.cb[c].owner = InNode
                         THEN PoolRelease(m, w.nodes[c]) ELSE m,
           w.memory, x.cs.kids[x.s])

\* Held blocks are consumed.
Consumed(x, w) ==
  [w EXCEPT
     !.passes[x.me].held = [b \in 1..2 |-> IF @[b].node \in Kids(x.cs, x.s)
                                           THEN [node |-> 0, block |-> NoBlock] ELSE @[b]],
     !.passes[x.me].cv_top = PoppedTo(x, w),
     !.memory = ChildBlocksReleased(x, w)]

Counted(x, w, fr, zeros, retried) ==
  [w EXCEPT
     !.passes[x.me].st.inertia = AddCounts(@, AddCounts(fr.inertia, Counts(0, 0, zeros))),
     !.passes[x.me].st.statics = @ \cup fr.statics,
     !.passes[x.me].st.retries = @ + (IF retried THEN 1 ELSE 0)]

\* The columns, the step and the D entries.
Stored(x, w, fr, g) ==
  [w EXCEPT
     !.front_pass[x.s] = x.me,
     !.col_ptr[x.s] = Len(w.passes[x.me].fv),
     !.types[x.s] = g,
     !.passes[x.me].steps = Append(@, [row_offset |-> Len(w.passes[x.me].sri),
                                       factor_offset |-> Len(w.passes[x.me].fv),
                                       p |-> Len(g), f |-> Size(fr)]),
     !.passes[x.me].fv = @ \o Panels(fr, g),
     !.passes[x.me].sri = @ \o fr.rows,
     !.passes[x.me].diag = @ \o (IF x.cs.ctl.posdef THEN <<>> ELSE DiagEntries(fr, g))]

Placed(x, w, owner, off, q, delayed) ==
  [w EXCEPT !.cb[x.s] = [owner |-> owner, off |-> off, size |-> q, delayed |-> delayed]]

InTop(cs, s) == s # 0 /\ \A i \in DOMAIN cs.subtrees : s \notin cs.subtrees[i][1]..cs.subtrees[i][2]

\* A subtree root's block too large for its pass's stack.
RootBlock(x, q) ==
  x.pop /\ x.me # MainPass /\ InTop(x.cs, x.cs.parent[x.s]) /\ Packed(q) >= RootBlockMin

\* The Schur complement: handed over in the small-front buffer h, on the
\* stack, or in a block of the front's own.
LeftFor(x, w, small, h, block, delayed) ==
  LET q   == Len(block.rows)
      top == w.passes[x.me].cv_top
  IN IF IsRoot(x.cs, x.s) \/ q = 0 THEN Placed(x, w, w.cb[x.s].owner, w.cb[x.s].off, 0, 0)
     ELSE IF small /\ x.pop /\ x.next = x.cs.parent[x.s]
     THEN [Placed(x, w, x.me, top, q, delayed) EXCEPT
             !.passes[x.me].held[h] = [node |-> x.s, block |-> block]]
     ELSE IF x.pop /\ ~RootBlock(x, q)
     THEN [Placed(x, w, x.me, top, q, delayed) EXCEPT
             !.passes[x.me].stack = Pushed(@, top, block),
             !.passes[x.me].cv_top = top + Packed(q)]
     ELSE LET b == IF RootBlock(x, q) THEN ArenaTake(w.memory, Packed(q)) ELSE PoolAcquire(w.memory, Packed(q))
          IN [Placed(x, w, InNode, 0, q, delayed) EXCEPT
                !.nodes[x.s] = b.at, !.memory = Written(b.m, b.at, Packed(q), block)]

-----------------------------------------------------------------------------
(* process_front: [w, bs, status]                                          *)

NoBudget == [count |-> 0, spent |-> FALSE]

\* The small-front buffer not holding a child's block.
FreeBuffer(pass) == IF pass.held[1].node # 0 THEN 2 ELSE 1

\* What a front of e eligible columns leaves unaccepted.
Unaccepted(fr, e) == e - (fr.k - 1)

StoredAndLeft(x, w, kernel, b, fr, e) ==
  LeftFor(x, Stored(x, w, fr, TagsTo(fr, IF IsRoot(x.cs, x.s) THEN e ELSE fr.k - 1)),
          kernel = "small", b, SchurBlock(fr), Unaccepted(fr, e))

BudgetAfter(x, bs, delays) ==
  IF BudgetArmed(x.cs.ctl) /\ ~IsRoot(x.cs, x.s) THEN [bs EXCEPT !.count = @ + delays] ELSE bs

\* A positive definite front must accept all its columns; a root's unaccepted
\* columns are zero pivots.
Ended(x, w, kernel, b, fr, e, bs, retried) ==
  IF x.cs.ctl.posdef /\ fr.k <= e
  THEN [w |-> Counted(x, Consumed(x, w), fr, 0, retried), bs |-> bs, status |-> "NotPositiveDefinite"]
  ELSE [w |-> StoredAndLeft(x, Counted(x, Consumed(x, w), fr,
                                       IF IsRoot(x.cs, x.s) THEN Unaccepted(fr, e) ELSE 0, retried),
                            kernel, b, fr, e),
        bs |-> BudgetAfter(x, bs, Unaccepted(fr, e)), status |-> "Success"]

\* The delays of fr would take the count past the budget.
OverBudget(x, fr, e, bs) ==
  /\ BudgetArmed(x.cs.ctl) /\ ~IsRoot(x.cs, x.s)
  /\ bs.count + Unaccepted(fr, e) > x.cs.ctl.delay_budget

\* The retry assembles the front again, from the children's intact blocks.
AssembledAgain(x, w, fr) == Assembled(x, w)

RetryKernel(kernel) == IF kernel = "aptp" THEN "plain" ELSE kernel

AfterKernel(x, w, kernel, fr, e, bs, static) ==
  IF ~static /\ OverBudget(x, fr, e, bs)
  THEN Ended(x, w, RetryKernel(kernel), FreeBuffer(w.passes[x.me]),
             FactoredBy(RetryKernel(kernel), AssembledAgain(x, w, fr), e,
                        ParamsOf(x.cs, FALSE, TRUE)),
             e, [bs EXCEPT !.spent = TRUE], TRUE)
  ELSE Ended(x, w, kernel, FreeBuffer(w.passes[x.me]), fr, e, bs, FALSE)

WithKernel(x, w, kernel, fresh, e, bs, fallback) ==
  AfterKernel(x, w, kernel, FactoredBy(kernel, fresh, e, ParamsOf(x.cs, fallback, bs.spent)),
              e, bs, fallback \/ bs.spent)

WithFront(x, w, fresh, e, bs, fallback) ==
  WithKernel(x, w, KernelOf(x.cs, Size(fresh), e, x.tc, fallback \/ bs.spent),
             fresh, e, bs, fallback)

\* Once the count reaches the budget, it is spent.
Spent(cs, bs) ==
  [bs EXCEPT !.spent = @ \/ (BudgetArmed(cs.ctl) /\ bs.count >= cs.ctl.delay_budget)]

WithDelays(x, w, nd, bs) ==
  WithFront(x, w, Assembled(x, w), nd + Len(x.cs.cols[x.s]), bs, FallbackFront(x.cs, x.s, nd))

ProcessFrontOf(x, w, bs) == WithDelays(x, w, Delays(x, w), Spent(x.cs, bs))

=============================================================================
