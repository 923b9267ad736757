------------------------------ MODULE CostGraph ------------------------------
(***************************************************************************)
(* The bipartite cost graph of the maximum-product matching (MC64 job 5)   *)
(* built from the stored lower triangle: scaling_matching.cpp and          *)
(* matching_internal.hpp.                                                  *)
(*                                                                         *)
(* A stored matrix is a function from columns 1..n to sequences of         *)
(* entries <<row, value>>.  Magnitudes are powers of two, so logarithms    *)
(* are exact integers; they are kept in units of 1/Unit, which makes the   *)
(* square roots of three equilibration sweeps exact too.                   *)
(***************************************************************************)
EXTENDS Integers, Sequences, FiniteSets, SequencesExt

CONSTANT NonFinite          \* an infinite or NaN entry

Unit == 8
Inf == 100000

Cols(A) == DOMAIN A
AbsVal(x) == IF x < 0 THEN -x ELSE x
MaxOf(x, y) == IF x >= y THEN x ELSE y
MinOf(x, y) == IF x <= y THEN x ELSE y
LogOf(x) == Unit * (CHOOSE k \in 0..16 : 2^k = AbsVal(x))

(* A function on 1..n as the sequence of its values.                       *)
AsSeq(f) == f \o <<>>

(* The members of a set of numbers in ascending order, and the sum of a    *)
(* function's values.                                                      *)
Ascending(S) ==
  [k \in 1..Cardinality(S) |-> CHOOSE x \in S : Cardinality({y \in S : y <= x}) = k]
SumOf(f) ==
  LET sum[S \in SUBSET DOMAIN f] ==
        IF S = {} THEN 0 ELSE LET x == CHOOSE y \in S : TRUE IN f[x] + sum[S \ {x}]
  IN sum[DOMAIN f]

Entries(A) == {<<i, j, p>> \in Cols(A) \X Cols(A) \X (1..6) :
                 p \in DOMAIN A[j] /\ A[j][p][1] = i}
HasNonFinite(A) == \E e \in Entries(A) : A[e[2]][e[3]][2] = NonFinite

(* validate_shape: no entry above the diagonal, none past the last row.    *)
ShapeOk(A) == \A j \in Cols(A) : \A p \in DOMAIN A[j] :
                A[j][p][1] \in j..Cardinality(Cols(A))

(* Column j of the full symmetric pattern, as the expansion leaves it: the *)
(* rows of earlier columns that store (j, i), then the column's own.       *)
Expanded(A, j) ==
  LET FromColumn(k) ==
        IF k = j THEN A[j]
        ELSE LET own == SelectSeq(A[k], LAMBDA e : e[1] = j)
             IN [p \in DOMAIN own |-> <<k, own[p][2]>>]
  IN FlattenSeq([k \in 1..j |-> FromColumn(k)])

(* Duplicates are summed in place of the first one, then zeros dropped:    *)
(* the result is a sequence of distinct rows with their nonzero values.    *)
Merged(raw) ==
  LET Add(out, e) ==
        IF \E p \in DOMAIN out : out[p][1] = e[1]
        THEN [p \in DOMAIN out |->
                IF out[p][1] = e[1] THEN <<e[1], out[p][2] + e[2]>> ELSE out[p]]
        ELSE Append(out, e)
  IN SelectSeq(FoldLeft(Add, <<>>, raw), LAMBDA e : e[2] # 0)

(* The columns, their largest magnitudes and the costs                     *)
(* log(col_max[j]) - log|a_ij| >= 0.                                       *)
GraphOfColumns(A, col) ==
  LET At(j, p) == LogOf(col[j][p][2])
  IN IF HasNonFinite(A) THEN [status |-> "IllegalValue"]
     ELSE IF \E j \in Cols(A) : col[j] = <<>> THEN [status |-> "SingularMatrix"]
     ELSE LET top == [j \in Cols(A) |->
                       CHOOSE m \in {At(j, p) : p \in DOMAIN col[j]} :
                         \A p \in DOMAIN col[j] : At(j, p) <= m]
          IN [status |-> "Success",
              n      |-> Cardinality(Cols(A)),
              row    |-> [j \in Cols(A) |-> [p \in DOMAIN col[j] |-> col[j][p][1]]],
              cost   |-> [j \in Cols(A) |->
                           [i \in {col[j][p][1] : p \in DOMAIN col[j]} |->
                              top[j] - At(j, CHOOSE p \in DOMAIN col[j] : col[j][p][1] = i)]],
              top    |-> top]
BuildCostGraph(A) == GraphOfColumns(A, [j \in Cols(A) |-> Merged(Expanded(A, j))])

Rows(g, j) == DOMAIN g.cost[j]
Degree(g, j) == Len(g.row[j])
=============================================================================
