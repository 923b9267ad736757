---------------------------- MODULE FrontKernel -----------------------------
(***************************************************************************)
(* The dense kernels of a front (solver/src/ldlt_kernel.cpp): threshold    *)
(* pivoting with 1x1 and 2x2 pivots, unblocked or in panels with deferred  *)
(* updates, static pivoting, and the pivots in order of a positive         *)
(* definite or quasidefinite front.                                        *)
(*                                                                         *)
(* A front is a record: rows, its row ids in position order; a, its        *)
(* symmetric entries by row id, so that a symmetric swap of two positions  *)
(* is a swap of rows; k, the position of the next pivot (those before it   *)
(* are eliminated, and a holds L and D there); tags, one per eliminated    *)
(* position; w, the unscaled columns of the pivots taken since the last    *)
(* deferred update; the counts of LdltKernelResult. Positions count from 1.*)
(***************************************************************************)
EXTENDS Sequences, FiniteSets, Fractions

CONSTANTS
  WeakRatio,        (* kWeakPivotRatio                                      *)
  BlockedMinFront   (* LdltKernelParams::blocked_min_front                  *)

None  == [kind |-> 0]
Single(c)  == [kind |-> 1, at |-> <<c>>]
Pair(c, r) == [kind |-> 2, at |-> <<c, r>>]

\* A function on 1..n as the sequence of its values.
AsSeq(f) == f \o <<>>

Size(fr)        == Len(fr.rows)
Entry(fr, i, j) == fr.a[fr.rows[i]][fr.rows[j]]
RowsAt(fr, I)   == {fr.rows[i] : i \in I}

\* The largest magnitude of column c over the positions I.
ColMax(fr, c, I) == Largest({Mag(Entry(fr, i, c)) : i \in I})

-----------------------------------------------------------------------------
(* Pivot choice                                                            *)

\* The first eligible row with the largest nonzero entry of column c, 0 for
\* none.
PartnerIn(fr, c, I, m) ==
  IF m = Zero THEN 0 ELSE CHOOSE i \in I : Mag(Entry(fr, i, c)) = m
                                           /\ \A j \in I : Mag(Entry(fr, j, c)) = m => i <= j
Partner(fr, e, c) ==
  LET I == (fr.k..e) \ {c} IN PartnerIn(fr, c, I, ColMax(fr, c, I))

\* two_by_two_ok, with its growth bound: off0 and off1 bound the columns c
\* and r outside the pivot.
Det2(d00, d10, d11) == Minus(Times(d00, d11), Times(d10, d10))
Growth2(d00, d10, d11, off0, off1) ==
  Over(Greater(Plus(Times(Mag(d11), off0), Times(Mag(d10), off1)),
               Plus(Times(Mag(d10), off0), Times(Mag(d00), off1))),
       Mag(Det2(d00, d10, d11)))

TwoByTwoOk(d00, d10, d11, off0, off1, p) ==
  LET s2 == Largest({Mag(d00), Mag(d10), Mag(d11)})
  IN  /\ AtMost(p.eff_small, s2)
      /\ LessThan(Times(p.small_pivot, Times(s2, s2)), Mag(Det2(d00, d10, d11)))
      /\ AtMost(Times(p.u, Growth2(d00, d10, d11, off0, off1)), One)

TwoByTwo(fr, e, c, r, p) ==
  TwoByTwoOk(Entry(fr, c, c), Entry(fr, r, c), Entry(fr, r, r),
             ColMax(fr, c, (fr.k..Size(fr)) \ {c, r}), ColMax(fr, r, (fr.k..Size(fr)) \ {c, r}), p)

Growth2At(fr, c, r) ==
  Growth2(Entry(fr, c, c), Entry(fr, r, c), Entry(fr, r, r),
          ColMax(fr, c, (fr.k..Size(fr)) \ {c, r}), ColMax(fr, r, (fr.k..Size(fr)) \ {c, r}))

\* The 1x1 test of column c: its diagonal against the rest of the column.
OneOk(fr, c, colmax, p) ==
  /\ AtMost(p.eff_small, Mag(Entry(fr, c, c)))
  /\ AtMost(Times(p.u, colmax), Mag(Entry(fr, c, c)))
Weak(fr, c, colmax) == LessThan(Mag(Entry(fr, c, c)), Times(WeakRatio, colmax))

\* What column c gives: its 1x1; if that is weak, or fails, the 2x2 with its
\* partner; the weak 1x1 after all; the partner's 1x1.
ChoiceOf(fr, e, limit, p, c, r, colmax, one) ==
  LET near == r \in fr.k..limit
  IN CASE one /\ ~Weak(fr, c, colmax) -> Single(c)
       [] /\ near /\ TwoByTwo(fr, e, c, r, p)
          /\ one => LessThan(Growth2At(fr, c, r), Over(colmax, Mag(Entry(fr, c, c)))) -> Pair(c, r)
       [] one -> Single(c)
       [] ~one /\ near /\ OneOk(fr, r, ColMax(fr, r, (fr.k..Size(fr)) \ {r}), p) -> Single(r)
       [] OTHER -> None

Choice(fr, e, limit, p, c, colmax) ==
  ChoiceOf(fr, e, limit, p, c, Partner(fr, e, c), colmax, OneOk(fr, c, colmax, p))

\* The first column of c..limit that gives a pivot.
RECURSIVE Search(_, _, _, _, _)
SearchFrom(fr, e, limit, p, c, found) ==
  IF found.kind # 0 THEN found ELSE Search(fr, e, limit, p, c + 1)
Search(fr, e, limit, p, c) ==
  IF c > limit THEN None
  ELSE SearchFrom(fr, e, limit, p, c,
                  Choice(fr, e, limit, p, c, ColMax(fr, c, (fr.k..Size(fr)) \ {c})))

SelectPivot(fr, e, limit, p) ==
  LET d == Entry(fr, fr.k, fr.k)
  IN CASE p.posdef -> IF d[1] > 0 THEN Single(fr.k) ELSE None
       [] p.in_order -> IF AtMost(p.static_pivot, Mag(d)) THEN Single(fr.k) ELSE None
       [] OTHER -> Search(fr, e, limit, p, fr.k)

-----------------------------------------------------------------------------
(* Elimination                                                             *)

\* D^-1 of the pivot block P (row ids), by rows.
InverseOf(a, P) ==
  IF Len(P) = 1 THEN <<<<Over(One, a[P[1]][P[1]])>>>>
  ELSE LET d00 == a[P[1]][P[1]]
           d10 == a[P[1]][P[2]]
           d11 == a[P[2]][P[2]]
           det == Det2(d00, d10, d11)
       IN <<<<Over(d11, det), Negated(Over(d10, det))>>, <<Negated(Over(d10, det)), Over(d00, det)>>>>

Dot(u, v) == IF Len(u) = 1 THEN Times(u[1], v[1])
             ELSE Plus(Times(u[1], v[1]), Times(u[2], v[2]))

\* The row of L that row x of the block's columns becomes.
LRow(col, inv) == [i \in 1..Len(inv) |-> Dot(inv[i], col)]

\* Eliminates the block P: the entries of rest in a column of U get their
\* update, and the columns of P become L.
Eliminated(a, P, rest, U, cols, l) ==
  [x \in DOMAIN a |-> [y \in DOMAIN a |->
     CASE x \in rest /\ y \in rest /\ (x \in U \/ y \in U) -> Minus(a[x][y], Dot(l[x], cols[y]))
       [] \E i \in DOMAIN P : x \in rest /\ y = P[i] -> l[x][IF y = P[1] THEN 1 ELSE 2]
       [] \E i \in DOMAIN P : y \in rest /\ x = P[i] -> l[y][IF x = P[1] THEN 1 ELSE 2]
       [] OTHER -> a[x][y]]]

EliminateWith(a, P, rest, U, cols) ==
  Eliminated(a, P, rest, U, cols, [x \in rest |-> LRow(cols[x], InverseOf(a, P))])

ColumnsOf(a, P, rest) == [x \in rest |-> [i \in DOMAIN P |-> a[x][P[i]]]]

-----------------------------------------------------------------------------
(* Inertia                                                                 *)

Counts(pos, neg, zero) == [pos |-> pos, neg |-> neg, zero |-> zero]
AddCounts(c, d) == Counts(c.pos + d.pos, c.neg + d.neg, c.zero + d.zero)

Inertia1(d, small) ==
  CASE LessThan(Mag(d), small) -> Counts(0, 0, 1)
    [] ~LessThan(Mag(d), small) /\ d[1] > 0 -> Counts(1, 0, 0)
    [] OTHER -> Counts(0, 1, 0)

\* add_inertia_2x2, on the determinant and trace scaled by the largest entry.
Inertia2Scaled(det, tr, small) ==
  CASE LessThan(det, Negated(small)) -> Counts(1, 1, 0)
    [] AtMost(Mag(det), small) /\ AtMost(Mag(tr), small) -> Counts(0, 0, 2)
    [] AtMost(Mag(det), small) /\ LessThan(small, Mag(tr)) ->
         IF tr[1] > 0 THEN Counts(1, 0, 1) ELSE Counts(0, 1, 1)
    [] OTHER -> IF tr[1] > 0 THEN Counts(2, 0, 0) ELSE Counts(0, 2, 0)

Inertia2(d00, d10, d11, small) ==
  IF d10 = Zero THEN AddCounts(Inertia1(d00, small), Inertia1(d11, small))
  ELSE LET s == Largest({Mag(d00), Mag(d10), Mag(d11)})
       IN Inertia2Scaled(Over(Det2(d00, d10, d11), Times(s, s)), Over(Plus(d00, d11), s), small)

-----------------------------------------------------------------------------
(* Pivots applied                                                          *)

Swapped(s, i, j) == [s EXCEPT ![i] = s[j], ![j] = s[i]]

\* The pivot's rows come to positions k (and k + 1).
BroughtPair(rows, k, c, r) ==
  Swapped(Swapped(rows, k, c), k + 1, IF r = k THEN c ELSE r)
Brought(rows, k, pv) ==
  IF pv.kind = 1 THEN Swapped(rows, k, pv.at[1]) ELSE BroughtPair(rows, k, pv.at[1], pv.at[2])

TagsOf(pv) == IF pv.kind = 1 THEN <<1>> ELSE <<2, -1>>

BlockInertia(a, P, asZero, p) ==
  CASE Len(P) = 1 /\ asZero -> Counts(0, 0, 1)
    [] Len(P) = 1 /\ ~asZero -> Inertia1(a[P[1]][P[1]], p.eff_small)
    [] OTHER -> Inertia2(a[P[1]][P[1]], a[P[1]][P[2]], a[P[2]][P[2]], p.small_pivot)

\* Pivot in place at P, columns up to position pl updated at once, its
\* unscaled columns saved.
ApplyAt(fr, rows, P, pl, asZero, p, cols, next) ==
  [fr EXCEPT !.rows = rows,
             !.a = EliminateWith(fr.a, P, DOMAIN cols, {rows[i] : i \in next..pl}, cols),
             !.k = next,
             !.tags = @ \o TagsOf([kind |-> Len(P)]),
             !.w = @ \o [i \in DOMAIN P |-> [x \in DOMAIN cols |-> cols[x][i]]],
             !.inertia = AddCounts(@, BlockInertia(fr.a, P, asZero, p))]

ApplyRows(fr, rows, kind, pl, asZero, p) ==
  LET P    == SubSeq(rows, fr.k, fr.k + kind - 1)
      rest == {rows[i] : i \in (fr.k + kind)..Len(rows)}
  IN ApplyAt(fr, rows, P, pl, asZero, p, ColumnsOf(fr.a, P, rest), fr.k + kind)

ApplyPivot(fr, pv, pl, asZero, p) ==
  ApplyRows(fr, Brought(fr.rows, fr.k, pv), pv.kind, pl, asZero, p)

-----------------------------------------------------------------------------
(* Static pivots                                                           *)

Ratio(fr, c) ==
  LET colmax == ColMax(fr, c, (fr.k..Size(fr)) \ {c})
      d == Mag(Entry(fr, c, c))
  IN IF colmax = Zero THEN d ELSE Over(d, colmax)

\* The first column whose diagonal is largest relative to it; column k in order.
StaticColumn(fr, e, p) ==
  IF p.in_order THEN fr.k
  ELSE LET ratio == [c \in fr.k..e |-> Ratio(fr, c)]
       IN CHOOSE c \in fr.k..e : \A x \in fr.k..e : LessThan(ratio[x], ratio[c])
                                                    \/ (ratio[x] = ratio[c] /\ c <= x)

\* 0: taken as it is, 1: raised from a nonzero value, 2: from a zero.
Raised(d, p) ==
  CASE AtMost(p.static_pivot, Mag(d)) -> 0
    [] ~AtMost(p.static_pivot, Mag(d)) /\ AtMost(p.eff_small, Mag(d)) -> 1
    [] OTHER -> 2

RaisedValue(d, p) == IF d[1] < 0 THEN Negated(p.static_pivot) ELSE p.static_pivot

CountsAsZero(raised, p) == raised # 0 /\ (p.as_zero \/ (raised = 2 /\ p.zero_stays))

ForceAt(fr, c, x, raised, pl, p) ==
  ApplyPivot(IF raised = 0 THEN fr
             ELSE [fr EXCEPT !.a[x][x] = RaisedValue(@, p), !.statics = @ \cup {x}],
             Single(c), pl, CountsAsZero(raised, p), p)

ForceColumn(fr, c, pl, p) ==
  ForceAt(fr, c, fr.rows[c], Raised(Entry(fr, c, c), p), pl, p)

ForceStaticPivot(fr, e, pl, p) == ForceColumn(fr, StaticColumn(fr, e, p), pl, p)

Static(p) == p.static_pivot # Zero

-----------------------------------------------------------------------------
(* The unblocked loop                                                      *)

\* One pivot, columns up to position pl updated at once: fr itself for none.
PivotOr(fr, pv, e, pl, p) ==
  CASE pv.kind # 0 -> ApplyPivot(fr, pv, pl, FALSE, p)
    [] pv.kind = 0 /\ Static(p) -> ForceStaticPivot(fr, e, pl, p)
    [] OTHER -> fr

RECURSIVE Unblocked(_, _, _)
UnblockedFrom(fr, next, e, p) == IF next.k = fr.k THEN fr ELSE Unblocked(next, e, p)
Unblocked(fr, e, p) ==
  IF fr.k > e THEN fr
  ELSE UnblockedFrom(fr, PivotOr(fr, SelectPivot(fr, e, e, p), e, Size(fr), p), e, p)

-----------------------------------------------------------------------------
(* Panels                                                                  *)

\* Pivots within the panel that ends at pl, until none is found there.
RECURSIVE Panel(_, _, _, _)
PanelFrom(fr, pv, e, pl, p) ==
  IF pv.kind = 0 THEN fr ELSE Panel(ApplyPivot(fr, pv, pl, FALSE, p), e, pl, p)
Panel(fr, e, pl, p) ==
  IF fr.k > pl THEN fr ELSE PanelFrom(fr, SelectPivot(fr, e, pl, p), e, pl, p)

\* deferred_update: the pivots from position ps on update the eligible columns
\* from c0 on, from the saved unscaled columns.
DeferredUpdate(fr, ps, c0, e) ==
  LET C == RowsAt(fr, c0..e)
      R == RowsAt(fr, c0..Size(fr))
      piv == SubSeq(fr.rows, ps, fr.k - 1)
  IN [fr EXCEPT !.w = <<>>,
        !.a = [x \in DOMAIN @ |-> [y \in DOMAIN @ |->
                 IF x \in R /\ y \in R /\ (x \in C \/ y \in C)
                 THEN Minus(@[x][y], Total([i \in DOMAIN piv |-> Times(@[x][piv[i]], fr.w[i][y])], DOMAIN piv))
                 ELSE @[x][y]]]]

\* A panel from k to pl, with its deferred update.
PanelUpdated(fr, e, pl, p) == DeferredUpdate(Panel(fr, e, pl, p), fr.k, pl + 1, e)

MinInt(m, n) == IF m <= n THEN m ELSE n
MaxInt(m, n) == IF m >= n THEN m ELSE n

\* The partners pulled in for a stalled panel k..pl: each failed column with
\* the column outside the panel that holds its largest entry, if that is
\* larger than those inside; distinct partners, at most nb / 2 pairs.
OutsideOf(fr, pl, e, c, outMax) ==
  IF AtMost(outMax, ColMax(fr, c, (fr.k..pl) \ {c})) THEN 0
  ELSE PartnerIn(fr, c, (pl + 1)..e, outMax)

RECURSIVE PairsFrom(_, _, _, _, _, _)
PairWith(fr, pl, e, p, c, order, r) ==
  PairsFrom(fr, pl, e, p, c + 1,
            IF r = 0 THEN order
            ELSE IF \E i \in DOMAIN order : i % 2 = 0 /\ order[i] = fr.rows[r] THEN order
            ELSE order \o <<fr.rows[c], fr.rows[r]>>)
PairsFrom(fr, pl, e, p, c, order) ==
  IF c > pl \/ Len(order) \div 2 >= p.nb \div 2 THEN order
  ELSE PairWith(fr, pl, e, p, c, order, OutsideOf(fr, pl, e, c, ColMax(fr, c, (pl + 1)..e)))

\* The rows of order brought to position k on, one swap each.
RECURSIVE Arranged(_, _, _)
Arranged(rows, k, order) ==
  IF order = <<>> THEN rows
  ELSE Arranged(Swapped(rows, k, CHOOSE q \in DOMAIN rows : rows[q] = order[1]), k + 1, Tail(order))

\* The failed columns k..pl trade places with the last untried ones.
MovedBack(rows, k, mv, live) ==
  AsSeq([i \in DOMAIN rows |->
           CASE i \in k..(k + mv - 1) -> rows[live - mv + 1 + (i - k)]
             [] i \in (live - mv + 1)..live -> rows[k + (i - (live - mv + 1))]
             [] OTHER -> rows[i]])

\* The first pass over the columns: plain threshold pivoting by panels up to
\* live; paired is the k of the last pairs.
RECURSIVE FirstPass(_, _, _, _, _)
Stalled(fr, e, pl, live, paired, p, order) ==
  IF order # <<>>
  THEN FirstPass([fr EXCEPT !.rows = Arranged(@, fr.k, order)], e,
                 MaxInt(live, fr.k + Len(order) - 1), fr.k, p)
  ELSE FirstPass([fr EXCEPT !.rows =
                    MovedBack(@, fr.k, MinInt(pl - fr.k + 1, live - pl), live)], e,
                 live - (pl - fr.k + 1), paired, p)
AfterPanel(fr, e, pl, live, paired, p) ==
  IF fr.k > pl THEN FirstPass(fr, e, live, paired, p)
  ELSE Stalled(fr, e, pl, live, paired, p,
               IF fr.k = paired THEN <<>> ELSE PairsFrom(fr, pl, e, p, fr.k, <<>>))
FirstPassTo(fr, e, pl, live, paired, p) ==
  AfterPanel(PanelUpdated(fr, e, pl, p), e, pl, live, paired, p)
FirstPass(fr, e, live, paired, p) ==
  IF fr.k > live THEN fr
  ELSE FirstPassTo(fr, e, MinInt(live, fr.k + p.nb - 1), live, paired, p)

\* The second pass searches every remaining column when a panel stalls, and
\* then pivots statically or stops.
RECURSIVE SecondPass(_, _, _)
Searched(fr, next, e, p) ==
  IF next.k = fr.k THEN fr ELSE SecondPass(DeferredUpdate(next, fr.k, next.k, e), e, p)
AfterStall(fr, e, pl, p) ==
  IF fr.k > pl THEN SecondPass(fr, e, p)
  ELSE Searched(fr, PivotOr(fr, SelectPivot(fr, e, e, p), e, 0, p), e, p)
SecondPassTo(fr, e, pl, p) == AfterStall(PanelUpdated(fr, e, pl, p), e, pl, p)
SecondPass(fr, e, p) ==
  IF fr.k > e THEN fr ELSE SecondPassTo(fr, e, MinInt(e, fr.k + p.nb - 1), p)

\* The term of L D L^T of the pivot at position c, for rows of L lx and ly:
\* P the pivots' rows, g their tags.
PivotTerm(a, P, g, lx, ly, c) ==
  CASE g[c] = 1 -> Times(Times(lx[c], a[P[c]][P[c]]), ly[c])
    [] g[c] = 2 ->
         Plus(Times(lx[c], Plus(Times(a[P[c]][P[c]], ly[c]), Times(a[P[c]][P[c + 1]], ly[c + 1]))),
              Times(lx[c + 1], Plus(Times(a[P[c]][P[c + 1]], ly[c]),
                                    Times(a[P[c + 1]][P[c + 1]], ly[c + 1]))))
    [] OTHER -> Zero

\* The sum of the terms over the positions I.
LDLt(a, P, g, lx, ly, I) == Total([c \in I |-> PivotTerm(a, P, g, lx, ly, c)], I)

LOf(fr, x) == [c \in 1..(fr.k - 1) |-> fr.a[x][fr.rows[c]]]

\* schur_update: the rows below the eligible ones, once, at the full rank.
SchurUpdate(fr, first, e) ==
  LET R == RowsAt(fr, (e + 1)..Size(fr))
  IN [fr EXCEPT !.a = [x \in DOMAIN @ |-> [y \in DOMAIN @ |->
        IF x \in R /\ y \in R
        THEN Minus(@[x][y], LDLt(@, fr.rows, fr.tags, LOf(fr, x), LOf(fr, y), first..(fr.k - 1)))
        ELSE @[x][y]]]]

Blocked(fr, e, p) ==
  SchurUpdate(SecondPass(IF p.posdef \/ Static(p) THEN fr ELSE FirstPass(fr, e, e, 0, p), e, p),
              fr.k, e)

-----------------------------------------------------------------------------
(* ldlt_factor_front (and the small-front kernel, its unblocked loop in    *)
(* another layout; and the Cholesky kernel, whose L sqrt(D) is kept as L   *)
(* and D): the eligible positions from fr.k to e.                          *)

FactorFront(fr, e, p) ==
  IF Size(fr) - (fr.k - 1) < BlockedMinFront \/ p.nb <= 1 THEN Unblocked(fr, e, p)
  ELSE Blocked(fr, e, p)

\* The front before its kernel runs.
NewFront(rows, a) ==
  [rows |-> rows, a |-> a, k |-> 1, tags |-> <<>>, w |-> <<>>,
   inertia |-> Counts(0, 0, 0), statics |-> {}]

=============================================================================
