----------------------------- MODULE AptpKernel -----------------------------
(***************************************************************************)
(* The APTP kernel of a front (solver/src/ldlt_aptp.cpp): block columns    *)
(* factored speculatively with complete pivoting inside their tile, then   *)
(* kept only as far as every entry of L stays within 1/u (a posteriori     *)
(* threshold pivoting); the failed columns are restored in place, kept up  *)
(* to date and moved to the back at the end.                               *)
(*                                                                         *)
(* A sweep works on the front record of FrontKernel, whose tags are here a *)
(* sequence over the eligible positions, 0 for a column not eliminated. A  *)
(* view is the range lo..hi of its positions, eligible up to ne.           *)
(***************************************************************************)
EXTENDS FrontKernel

CONSTANTS
  AptpNb,   (* AptpParams::nb: the width of a tile                          *)
  AptpIb    (* AptpParams::ib: the inner blocks                             *)

WithinBound(l, p) == AtMost(Times(p.u, Mag(l)), One)

-----------------------------------------------------------------------------
(* Complete pivoting on the positions k..hi                                *)

\* The first largest entry of the lower triangle, by columns.
LowerOf(k, hi) == {<<j, i>> \in (k..hi) \X (k..hi) : j <= i}
LargestAt(fr, C, m) ==
  CHOOSE c \in C : /\ Mag(Entry(fr, c[2], c[1])) = m
                   /\ \A d \in C : Mag(Entry(fr, d[2], d[1])) = m =>
                                     c[1] < d[1] \/ (c[1] = d[1] /\ c[2] <= d[2])

\* A diagonal entry is a 1x1; another one a 2x2 if its determinant is half
\* the entry squared at least, else a 1x1 on the larger diagonal.
PivotOfEntry(fr, j, i) ==
  CASE i = j -> Single(j)
    [] i # j /\ AtMost(Times(Entry(fr, i, j), Entry(fr, i, j)),
                       Times(Whole(2), Mag(Det2(Entry(fr, j, j), Entry(fr, i, j), Entry(fr, i, i))))) ->
         Pair(j, i)
    [] OTHER -> Single(IF LessThan(Mag(Entry(fr, j, j)), Mag(Entry(fr, i, i))) THEN i ELSE j)

ViewRest(rows, from, hi) == {rows[i] : i \in from..hi}

\* The pivot's rows of L stay within the bound inside the view.
PivotWithin(fr, P, rest, p) ==
  IF Len(P) = 1
  THEN \A x \in rest : AtMost(Times(p.u, Mag(fr.a[x][P[1]])), Mag(fr.a[P[1]][P[1]]))
  ELSE \A x \in rest : \A i \in 1..2 :
         WithinBound(LRow(<<fr.a[x][P[1]], fr.a[x][P[2]]>>, InverseOf(fr.a, P))[i], p)

\* tags with those of g from position k on.
Retagged(tags, k, g) ==
  SubSeq(tags, 1, k - 1) \o g \o SubSeq(tags, k + Len(g), Len(tags))
Untried(n) == AsSeq([i \in 1..n |-> 0])

RECURSIVE CompletePivoting(_, _, _)
CpApply(fr, rows, kind, hi, P, rest, p) ==
  IF ~PivotWithin(fr, P, rest, p) THEN fr
  ELSE CompletePivoting([fr EXCEPT !.rows = rows, !.k = @ + kind,
                           !.tags = Retagged(@, fr.k, TagsOf([kind |-> kind])),
                           !.a = EliminateWith(@, P, rest, rest, ColumnsOf(@, P, rest))], hi, p)
CpRows(fr, rows, kind, hi, p) ==
  CpApply(fr, rows, kind, hi, SubSeq(rows, fr.k, fr.k + kind - 1),
          ViewRest(rows, fr.k + kind, hi), p)
CpPivot(fr, pv, hi, p) == CpRows(fr, Brought(fr.rows, fr.k, pv), pv.kind, hi, p)
CpEntry(fr, c, hi, p) == CpPivot(fr, PivotOfEntry(fr, c[1], c[2]), hi, p)
CpLargest(fr, C, m, hi, p) ==
  IF LessThan(m, p.eff_small) THEN fr ELSE CpEntry(fr, LargestAt(fr, C, m), hi, p)

\* cp_factor: from position fr.k on; fr.k is then the first one left.
CompletePivoting(fr, hi, p) ==
  IF fr.k > hi THEN fr
  ELSE CpLargest(fr, LowerOf(fr.k, hi),
                 Largest({Mag(Entry(fr, c[2], c[1])) : c \in LowerOf(fr.k, hi)}), hi, p)

-----------------------------------------------------------------------------
(* One block column                                                        *)

\* The rows below the tile against its unit L (2x2 off-diagonals zero):
\* y L^T = x, pivot by pivot (P the tile's pivots, g their tags).
UnitL(a, P, g, t, s) == IF g[s] = 2 /\ t = s + 1 THEN Zero ELSE a[P[t]][P[s]]

RECURSIVE Substituted(_, _, _, _, _)
Substituted(a, P, g, x, y) ==
  IF Len(y) = Len(P) THEN y
  ELSE Substituted(a, P, g, x,
         Append(y, Minus(a[x][P[Len(y) + 1]],
                         Total([s \in DOMAIN y |-> Times(y[s], UnitL(a, P, g, Len(y) + 1, s))],
                               DOMAIN y))))

\* l = y D^-1
Scaled(a, P, g, y) ==
  [t \in DOMAIN P |->
     CASE g[t] = 1 -> Over(y[t], a[P[t]][P[t]])
       [] g[t] = 2 -> LRow(<<y[t], y[t + 1]>>, InverseOf(a, <<P[t], P[t + 1]>>))[1]
       [] OTHER    -> LRow(<<y[t - 1], y[t]>>, InverseOf(a, <<P[t - 1], P[t]>>))[2]]

RowsOfL(a, P, g, X) == [x \in X |-> Scaled(a, P, g, Substituted(a, P, g, x, <<>>))]

\* scale_and_check: the pivots kept, up to the first with an entry past the
\* bound; a 2x2 is not split.
Kept(g, bad) ==
  IF bad = {} THEN Len(g)
  ELSE LET t == CHOOSE t \in bad : \A s \in bad : t <= s
       IN IF g[t] = -1 THEN t - 2 ELSE t - 1

\* Mutant: only the rows below the tile are checked, not those of the columns
\* that failed before.
FailedColumnsMut(l, below, Q, p) ==
  {t \in UNION {DOMAIN l[x] : x \in below} : \E x \in below : ~WithinBound(l[x][t], p)}

\* The tile's columns with an entry past the bound, below the tile (ApplyN)
\* or in the rows of earlier failed columns (ApplyT).
FailedColumns(l, below, Q, p) ==
  {t \in UNION {DOMAIN l[x] : x \in below \cup Q} :
     \E x \in below \cup Q : ~WithinBound(l[x][t], p)}

\* The kept pivots P (their rows of L: l) update everything not eliminated,
\* the failed columns from their backup bk; the block of the rows outside
\* the eligible ones waits for the end of the sweep.
Finished(bk, a, P, g, U, last, l) ==
  [x \in DOMAIN a |-> [y \in DOMAIN a |->
     CASE x \in U /\ y \in U /\ ~(x \in last /\ y \in last) ->
            Minus(bk[x][y], LDLt(a, P, g, l[x], l[y], DOMAIN P))
       [] x \in U /\ \E t \in DOMAIN P : y = P[t] -> l[x][CHOOSE t \in DOMAIN P : y = P[t]]
       [] y \in U /\ \E t \in DOMAIN P : x = P[t] -> l[y][CHOOSE t \in DOMAIN P : x = P[t]]
       [] OTHER -> a[x][y]]]

\* block_finish: t is the front after its tile is factored (columns c0 on, w
\* of them), bk the entries before, l the rows of L of its pivots.
FinishKept(t, bk, c0, w, ne, hi, Q, l, n) ==
  [t EXCEPT
     !.a = Finished(bk, @, SubSeq(t.rows, c0, c0 + n - 1), SubSeq(t.tags, c0, c0 + n - 1),
                    Q \cup ViewRest(t.rows, c0 + n, hi), ViewRest(t.rows, ne + 1, hi),
                    [x \in Q \cup ViewRest(t.rows, c0 + n, hi) |->
                       [s \in 1..n |-> IF x \in DOMAIN l THEN l[x][s] ELSE t.a[x][t.rows[c0 + s - 1]]]]),
     !.tags = Retagged(@, c0 + n, Untried(w - n))]

BlockFinish(t, bk, c0, w, ne, hi, Q, g, l, p) ==
  FinishKept(t, bk, c0, w, ne, hi, Q, l,
             Kept(g, FailedColumns(l, ViewRest(t.rows, c0 + w, hi), Q, p)))

\* block_factor, apply_n and block_finish.
ApplyTile(t, bk, c0, w, ne, hi, Q, p) ==
  LET P == SubSeq(t.rows, c0, t.k - 1)
      g == SubSeq(t.tags, c0, t.k - 1)
  IN BlockFinish(t, bk, c0, w, ne, hi, Q, g,
                 RowsOfL(t.a, P, g, Q \cup ViewRest(t.rows, c0 + w, hi)), p)

-----------------------------------------------------------------------------
(* The sweep                                                               *)

\* The failed columns moved behind the eliminated ones.
RECURSIVE Compacted(_, _, _, _)
Compacted(fr, dst, src, ne) ==
  IF src > ne THEN [fr EXCEPT !.k = dst]
  ELSE IF fr.tags[src] = 0 THEN Compacted(fr, dst, src + 1, ne)
  ELSE Compacted([fr EXCEPT !.rows = Swapped(@, dst, src), !.tags = Swapped(@, dst, src)],
                 dst + 1, src + 1, ne)

\* sweep over the columns lo..ne of the view lo..hi, from block c0 on; Q the
\* rows of the columns failed so far.
RECURSIVE Sweep(_, _, _, _, _, _, _, _)
FactorTile(fr, c0, last, p) ==
  IF last - c0 + 1 <= AptpIb THEN CompletePivoting(fr, last, p)
  ELSE CompletePivoting(Sweep(fr, c0, last, last, 1, c0, {}, p), last, p)
SweepOn(fr, lo, ne, hi, level, c0, w, Q, p) ==
  Sweep(fr, lo, ne, hi, level, c0 + w,
        Q \cup {fr.rows[i] : i \in {j \in c0..(c0 + w - 1) : fr.tags[j] = 0}}, p)
SweepBlock(fr, lo, ne, hi, level, c0, w, Q, p) ==
  SweepOn(ApplyTile(IF level = 0 THEN FactorTile([fr EXCEPT !.k = c0], c0, c0 + w - 1, p)
                    ELSE CompletePivoting([fr EXCEPT !.k = c0], c0 + w - 1, p),
                    fr.a, c0, w, ne, hi, Q, p), lo, ne, hi, level, c0, w, Q, p)
Sweep(fr, lo, ne, hi, level, c0, Q, p) ==
  IF c0 > ne THEN Compacted(fr, lo, lo, ne)
  ELSE SweepBlock(fr, lo, ne, hi, level, c0,
                  MinInt(IF level = 0 THEN AptpNb ELSE AptpIb, ne - c0 + 1), Q, p)

\* front_result: the inertia of the pivots kept.
KeptInertia(fr, c, p) ==
  CASE fr.tags[c] = 1 -> Inertia1(Entry(fr, c, c), p.eff_small)
    [] fr.tags[c] = 2 -> Inertia2(Entry(fr, c, c), Entry(fr, c, c + 1), Entry(fr, c + 1, c + 1),
                                  p.eff_small)
    [] OTHER -> Counts(0, 0, 0)

RECURSIVE KeptCounts(_, _, _)
KeptCounts(fr, c, p) ==
  IF c = fr.k THEN Counts(0, 0, 0) ELSE AddCounts(KeptInertia(fr, c, p), KeptCounts(fr, c + 1, p))

FrontResult(fr, p) ==
  [fr EXCEPT !.tags = SubSeq(@, 1, fr.k - 1), !.inertia = KeptCounts(fr, 1, p)]

\* ldlt_aptp_front, and its tile tasks, whose result is the same
\* (SerialEquivalent of TileRunner).
AptpFront(fr, e, p) ==
  FrontResult(SchurUpdate(Sweep([fr EXCEPT !.tags = Untried(e)],
                                1, e, Size(fr), 0, 1, {}, p), 1, e), p)

\* process_front: what APTP fails goes to the threshold kernel.
AptpThenTpp(fr, e, p) == IF fr.k > e THEN fr ELSE FactorFront(fr, e, p)

=============================================================================
