------------------------------ MODULE Matching ------------------------------
(***************************************************************************)
(* The maximum-product matching and its symmetric scaling, resumable       *)
(* between searches and bids: SymmetricMatcher in scaling_matching.cpp.    *)
(* A method of its State is an operator from a state to a state, Turn is   *)
(* one turn of advance() and Advance a call of it under a work budget.     *)
(***************************************************************************)
EXTENDS CostGraph, TLC

CONSTANTS EpsFactor,        \* AuctionOptions::eps_factor
          EpsStart,         \* eps_start, in cost units; 0: the max-cost rule
          EpsFinal,         \* eps_final
          BidCap            \* bid_cap, bids per sparse column and phase

ASSUME AuctionOptionsAssumption ==
  /\ EpsFactor \in Nat \ {0, 1} /\ EpsFinal \in Nat \ {0}
  /\ EpsStart \in Nat /\ BidCap \in Nat \ {0}

-----------------------------------------------------------------------------
(* The epsilon-scaling auction that the Hybrid matcher runs on the columns *)
(* its searches left free: auction_matching.cpp.  An operator takes the    *)
(* matcher's state and returns the state after one turn of                 *)
(* auction_advance's loop, the points between which a work budget may      *)
(* pause it; work counts the edges scanned.                                *)

Sparse(s) == (1..s.g.n) \ s.dense
SparseRows(s, j) == SelectSeq(s.g.row[j], LAMBDA i : i \notin s.dense)
Edges(s, S) == SumOf([j \in S |-> Degree(s.g, j)])
Offer(s, i, j) == s.g.cost[j][i] - s.u[i]

(* The first matching state: matched columns stay, the queue is given.     *)
AuctionStart(s, queue) ==
  LET costs == {s.g.cost[j][i] : <<i, j>> \in
                  {e \in Sparse(s) \X Sparse(s) : e[1] \in Rows(s.g, e[2])}}
      top == IF costs = {} THEN 0 ELSE CHOOSE c \in costs : \A d \in costs : d <= c
      low == IF costs = {} THEN 0 ELSE CHOOSE c \in costs : \A d \in costs : c <= d
      first == IF EpsStart > 0 THEN EpsStart ELSE top \div EpsFactor
  IN [s EXCEPT
        !.auction = [eps |-> MaxOf(first, EpsFinal), queue |-> queue, bids |-> 0,
                     range |-> top - low, limit |-> BidCap * Cardinality(Sparse(s)),
                     dropped |-> FALSE],
        !.work = @ + Edges(s, Sparse(s))]

(* The queue ran dry above the last epsilon: the columns whose matched     *)
(* edge is looser than the new one are free again.                         *)
AuctionNextPhase(s) ==
  LET eps == MaxOf(s.auction.eps \div EpsFactor, EpsFinal)
      held == {j \in Sparse(s) : s.rowOf[j] # 0}
      Loose(j) == \E i \in Rows(s.g, j) \ s.dense :
                    Offer(s, s.rowOf[j], j) - Offer(s, i, j) > eps
      loose == {j \in held : Loose(j)}
  IN [s EXCEPT
        !.rowOf = AsSeq([j \in DOMAIN @ |-> IF j \in loose THEN 0 ELSE @[j]]),
        !.colOf = AsSeq([i \in DOMAIN @ |-> IF @[i] \in loose THEN 0 ELSE @[i]]),
        !.auction = [@ EXCEPT !.eps = eps, !.bids = 0, !.queue = Ascending(loose)],
        !.work = @ + Edges(s, held)]

(* The head of the queue bids for its cheapest row: the row's dual falls   *)
(* by the margin to the second best plus epsilon and the column it         *)
(* displaces queues at the back.  A column without a sparse row is dropped.*)
BidAmong(s, j, rows) ==
  LET Beats(p, q) == \/ Offer(s, rows[p], j) < Offer(s, rows[q], j)
                     \/ Offer(s, rows[p], j) = Offer(s, rows[q], j) /\ p <= q
      best == CHOOSE p \in DOMAIN rows : \A q \in DOMAIN rows : Beats(p, q)
      rest == {Offer(s, rows[q], j) : q \in DOMAIN rows \ {best}}
      i == rows[best]
      second == IF rest = {}
                THEN Offer(s, i, j) + MaxOf(s.auction.eps, s.auction.range)
                ELSE CHOOSE d \in rest : \A e \in rest : d <= e
      out == s.colOf[i]
      left == Tail(s.auction.queue)
  IN IF rows = <<>>
     THEN [s EXCEPT !.auction = [@ EXCEPT !.queue = left, !.dropped = TRUE],
                    !.work = @ + Degree(s.g, j)]
     ELSE [s EXCEPT !.v[j] = second, !.work = @ + Degree(s.g, j),
                    !.u[i] = s.g.cost[j][i] - second - s.auction.eps,
                    !.colOf[i] = j,
                    !.rowOf = AsSeq([k \in DOMAIN @ |-> IF k = j THEN i
                                                      ELSE IF k = out THEN 0 ELSE @[k]]),
                    !.auction = [@ EXCEPT !.bids = @ + 1,
                                          !.queue = IF out = 0 THEN left
                                                    ELSE Append(left, out)]]
Bid(s) == BidAmong(s, Head(s.auction.queue), SparseRows(s, Head(s.auction.queue)))

AuctionEnded(s) ==
  \/ s.auction.queue = <<>> /\ s.auction.eps <= EpsFinal
  \/ s.auction.queue # <<>> /\ s.auction.bids >= s.auction.limit
AuctionTurn(s) == IF s.auction.queue = <<>> THEN AuctionNextPhase(s) ELSE Bid(s)

-----------------------------------------------------------------------------
(* The matcher                                                             *)

Cost(s, i, j) == s.g.cost[j][i]
Reduced(s, i, j) == Cost(s, i, j) - s.u[i] - s.v[j]
FreeCols(s) == {j \in 1..s.g.n : s.rowOf[j] = 0}
Least(S, default) == IF S = {} THEN default ELSE CHOOSE x \in S : \A y \in S : x <= y

(* Initial duals on the sparse part, then a greedy matching on tight edges.*)
InitialDuals(g, dense) ==
  LET sparse == (1..g.n) \ dense
      u == [i \in 1..g.n |-> IF i \in dense THEN 0 ELSE
              Least({g.cost[j][i] : j \in {k \in sparse : i \in Rows(g, k)}}, 0)]
      v == [j \in 1..g.n |-> IF j \in dense THEN 0 ELSE
              Least({g.cost[j][i] - u[i] : i \in Rows(g, j) \ dense}, 0)]
  IN <<AsSeq(u), AsSeq(v)>>

Greedy(s) ==
  LET Take(t, j) ==
        LET open == SelectSeq(t.g.row[j], LAMBDA i :
                      i \notin t.dense /\ t.colOf[i] = 0 /\ Reduced(t, i, j) <= 0)
        IN IF j \in t.dense \/ open = <<>> THEN t
           ELSE [t EXCEPT !.rowOf[j] = open[1], !.colOf[open[1]] = j]
  IN FoldLeft(Take, s, Ascending(1..s.g.n))

(* Length-2 augmentations: a free column takes a tight row whose column    *)
(* moves to a free tight row of its own.                                   *)
LengthTwo(s) ==
  LET Spare(t, k) == SelectSeq(t.g.row[k], LAMBDA r :
                       r \notin t.dense /\ t.colOf[r] = 0 /\ Reduced(t, r, k) <= 0)
      Shift(t, j) ==
        LET taken == SelectSeq(t.g.row[j], LAMBDA i :
                       /\ i \notin t.dense /\ Reduced(t, i, j) <= 0
                       /\ t.colOf[i] # 0 /\ Spare(t, t.colOf[i]) # <<>>)
        IN IF j \in t.dense \/ t.rowOf[j] # 0 \/ taken = <<>> THEN t
           ELSE LET i == taken[1]
                    k == t.colOf[i]
                    r == Spare(t, k)[1]
                IN [t EXCEPT !.colOf[r] = k, !.rowOf[k] = r,
                             !.colOf[i] = j, !.rowOf[j] = i]
  IN FoldLeft(Shift, s, Ascending(1..s.g.n))

NoAuction == [eps |-> 0]

(* The constructor.  `dense` is the set of dense columns; the program      *)
(* takes those over 10 sqrt(n) entries of a matrix with more than 50       *)
(* columns, a threshold no property depends on.                            *)
Constructed(A, g, alg, order, dense, switchWork, stopFree) ==
  LET zero == AsSeq([i \in 1..Cardinality(Cols(A)) |-> 0])
      blank == [g |-> g, alg |-> alg, order |-> order, dense |-> dense, status |-> g.status,
                switchWork |-> switchWork, stopFree |-> stopFree, phase |-> 1, next |-> 1,
                list |-> <<>>, listed |-> FALSE, work |-> 0, switched |-> FALSE,
                armed |-> FALSE, canonDue |-> FALSE, failed |-> {}, resetU |-> zero,
                auction |-> NoAuction, rowOf |-> zero, colOf |-> zero,
                u |-> zero, v |-> zero, initRow |-> zero, initV |-> zero, initU |-> zero]
      Recorded(s) == [s EXCEPT !.initRow = s.rowOf, !.initU = s.u, !.initV = s.v]
  IN IF ~ShapeOk(A) THEN [blank EXCEPT !.status = "IllegalValue"]
     ELSE IF g.status # "Success" THEN blank
     ELSE Recorded(LengthTwo(Greedy([blank EXCEPT !.u = InitialDuals(g, dense)[1],
                                                  !.v = InitialDuals(g, dense)[2]])))
Construct(A, alg, order, dense, switchWork, stopFree) ==
  Constructed(A, BuildCostGraph(A), alg, order, dense, switchWork, stopFree)
-----------------------------------------------------------------------------
(* One shortest augmenting path search.  f holds the distances, parents,   *)
(* the rows queued at the current distance (level), those queued above it  *)
(* (heap), the finalized rows, and the closest free row.                   *)
Fresh(s) == [dist |-> AsSeq([i \in 1..s.g.n |-> Inf]), par |-> AsSeq([i \in 1..s.g.n |-> 0]),
             level |-> <<>>, heap |-> {}, done |-> {}, free |-> 0, len |-> Inf,
             base |-> 0, stop |-> FALSE, work |-> 0]

(* Scan column j from distance f.base.  In phase 1 dense rows are hidden.  *)
Relax(s, f, j) ==
  LET See(h, i) ==
        LET d == h.base + MaxOf(0, Reduced(s, i, j)) IN
        IF h.stop \/ (s.phase = 1 /\ i \in s.dense) \/ d >= h.dist[i] THEN h
        ELSE IF s.colOf[i] = 0
             THEN [h EXCEPT !.dist[i] = d, !.par[i] = j,
                            !.free = IF d < h.len THEN i ELSE @,
                            !.len = MinOf(@, d), !.stop = d = h.base]
        ELSE IF d < h.len
             THEN [h EXCEPT !.dist[i] = d, !.par[i] = j,
                            !.level = IF d = h.base THEN Append(@, i) ELSE @,
                            !.heap = IF d > h.base THEN @ \cup {i} ELSE @]
        ELSE h
  IN [FoldLeft(See, f, s.g.row[j]) EXCEPT !.stop = FALSE, !.work = @ + Degree(s.g, j)]

(* IndexedMinHeap: the least (distance, row) among the queued rows.        *)
HeapTop(f) ==
  CHOOSE i \in f.heap : \A k \in f.heap :
    f.dist[i] < f.dist[k] \/ (f.dist[i] = f.dist[k] /\ i <= k)

Pending(f) == [f EXCEPT !.heap = @ \ f.done,
                        !.level = SelectSeq(@, LAMBDA i : i \notin f.done)]
Finalize(s, f, i) ==
  Relax(s, [f EXCEPT !.done = @ \cup {i}, !.base = f.dist[i],
                     !.level = SelectSeq(@, LAMBDA r : r # i)], s.colOf[i])

RECURSIVE Settle(_, _)
Settle(s, f) ==
  LET From(h) == IF h.level # <<>>
                 THEN IF h.base >= h.len THEN h ELSE Settle(s, Finalize(s, h, h.level[1]))
                 ELSE IF h.heap = {} \/ h.dist[HeapTop(h)] >= h.len THEN h
                 ELSE Settle(s, Finalize(s, h, HeapTop(h)))
  IN From(Pending(f))

(* The path back from the free row, swapping matched and free edges.       *)
RECURSIVE AugmentFrom(_, _, _, _)
AugmentFrom(s, f, r, start) ==
  LET c == f.par[r]
      back == s.rowOf[c]
      t == [s EXCEPT !.colOf[r] = c, !.rowOf[c] = r]
  IN IF c = start THEN t ELSE AugmentFrom(t, f, back, start)

(* Duals move over the finalized rows and their columns, keeping reduced   *)
(* costs nonnegative and making the path tight.                            *)
UpdateDualsMut(s, f, j) ==
  [s EXCEPT !.u = AsSeq([i \in DOMAIN @ |-> @[i] - (IF i \in f.done THEN f.len - f.dist[i] ELSE 0)]),
            !.v[j] = @ + f.len]
UpdateDuals(s, f, j) ==
  LET Delta(i) == IF i \in f.done THEN f.len - f.dist[i] ELSE 0
  IN [s EXCEPT !.u = AsSeq([i \in DOMAIN @ |-> @[i] - Delta(i)]),
               !.v = AsSeq([c \in DOMAIN @ |->
                            @[c] + (IF c = j THEN f.len
                                    ELSE IF s.rowOf[c] # 0 THEN Delta(s.rowOf[c]) ELSE 0)])]

Augmented(s, f, j) ==
  LET t == [s EXCEPT !.work = @ + f.work]
  IN IF f.free = 0 THEN t ELSE AugmentFrom(UpdateDuals(t, f, j), f, f.free, j)
Search(s, j) == Augmented(s, Settle(s, Relax(s, Fresh(s), j)), j)
-----------------------------------------------------------------------------
(* list_free_sparse: column order, or decreasing degree (stable).          *)
SearchOrder(s, S) ==
  IF s.order = "Degree"
  THEN SetToSortSeq(S, LAMBDA a, b : \/ Degree(s.g, a) > Degree(s.g, b)
                                     \/ Degree(s.g, a) = Degree(s.g, b) /\ a < b)
  ELSE Ascending(S)
FreeSparse(s) == FreeCols(s) \ s.dense
ListFreeSparse(s) == [s EXCEPT !.list = SearchOrder(s, FreeSparse(s)), !.next = 1,
                               !.listed = TRUE]

(* Rows reached from the free columns by alternating paths.                *)
RECURSIVE ReachedRows(_, _, _)
ReachedRows(s, cols, rows) ==
  LET more == UNION {Rows(s.g, j) : j \in cols} \ (s.dense \cup rows)
  IN IF more = {} THEN rows
     ELSE ReachedRows(s, {s.colOf[i] : i \in more} \ {0}, rows \cup more)

(* repair: the prices of the rows no free column can do without go back,   *)
(* column duals become exact, and loose matched edges are dropped.         *)
Repair(s) ==
  LET reached == ReachedRows(s, FreeSparse(s), {})
      u == [i \in DOMAIN s.u |-> IF i \in reached THEN s.resetU[i] ELSE s.u[i]]
      v == [j \in DOMAIN s.v |-> IF j \in s.dense THEN s.v[j] ELSE
              Least({s.g.cost[j][i] - u[i] : i \in Rows(s.g, j) \ s.dense}, 0)]
      loose == {j \in Sparse(s) : s.rowOf[j] # 0
                                  /\ s.g.cost[j][s.rowOf[j]] - u[s.rowOf[j]] - v[j] > 0}
      t == [s EXCEPT !.u = AsSeq(u), !.v = AsSeq(v),
                     !.rowOf = AsSeq([j \in DOMAIN @ |-> IF j \in loose THEN 0 ELSE @[j]]),
                     !.colOf = AsSeq([i \in DOMAIN @ |-> IF @[i] \in loose THEN 0 ELSE @[i]]),
                     !.work = @ + Edges(s, FreeSparse(s) \cup ({s.colOf[i] : i \in reached} \ {0}))
                                + Edges(s, Sparse(s))]
  IN ListFreeSparse(t)

(* Phase 2: dense rows take the largest u, then dense columns the largest  *)
(* v, that keep every reduced cost nonnegative.                            *)
DenseDuals(s) ==
  LET u == [i \in DOMAIN s.u |-> IF i \notin s.dense THEN s.u[i] ELSE
              Least({s.g.cost[j][i] - s.v[j] :
                       j \in {k \in Sparse(s) : i \in Rows(s.g, k)}}, 0)]
  IN [s EXCEPT !.u = AsSeq(u),
               !.v = AsSeq([j \in DOMAIN @ |-> IF j \notin s.dense THEN @[j] ELSE
                            Least({s.g.cost[j][i] - u[i] : i \in Rows(s.g, j)}, Inf)])]

(* canonical_duals: the pointwise largest u below the duals at the switch  *)
(* that keeps the matched edges tight, by shortest distances over rows.    *)
RowDistance(s) ==
  LET sparse == Sparse(s)
      weight == [k \in sparse |-> [i \in sparse |->
                   IF s.colOf[k] # 0 /\ i \in Rows(s.g, s.colOf[k])
                   THEN MaxOf(0, Reduced(s, i, s.colOf[k])) ELSE Inf]]
      start == [i \in sparse |-> MaxOf(0, s.resetU[i] - s.u[i])]
      Round(d, dummy) == [i \in sparse |->
        Least({d[k] + weight[k][i] : k \in sparse} \cup {d[i]}, Inf)]
  IN FoldLeft(Round, start, [r \in 1..Cardinality(sparse) |-> r])

Canonical(s, d) ==
  LET u == [i \in DOMAIN s.u |-> IF i \in s.dense THEN s.u[i] ELSE s.u[i] + d[i]]
      Slack(j) == {s.g.cost[j][i] - u[i] : i \in Rows(s.g, j) \ s.dense}
      v == [j \in DOMAIN s.v |->
              IF s.rowOf[j] # 0 /\ s.rowOf[j] \notin s.dense THEN s.v[j] - d[s.rowOf[j]]
              ELSE IF j \in s.dense THEN s.v[j]
              ELSE Least(Slack(j) \cup {s.initV[j]}, 0)]
  IN [s EXCEPT !.u = AsSeq(u), !.v = AsSeq(v), !.canonDue = FALSE, !.work = @ + Edges(s, Sparse(s))]
CanonicalDuals(s) == Canonical(s, RowDistance(s))

(* The end of phase 1.                                                     *)
WithDense(s) == IF s.dense # {} THEN DenseDuals(s) ELSE s
EndPhaseOne(s) ==
  [WithDense(IF s.canonDue THEN CanonicalDuals(s) ELSE s) EXCEPT !.phase = 3, !.next = 1]
-----------------------------------------------------------------------------
(* advance(): the turns between which it may run out of budget and return; *)
(* a later call goes on from the same state.                               *)
MatchingDone(s) == s.status # "Success" \/ s.phase = 4
SparseLeft(s) == s.next <= Len(s.list) /\ FreeCols(s) # {}

(* Past switch_passes of search work the auction takes the columns left;   *)
(* those whose search already failed stay out of it.                       *)
SwitchDue(s) == s.alg = "Hybrid" /\ ~s.switched /\ s.work > s.switchWork
Switch(s) ==
  LET queue == SubSeq(s.list, s.next, Len(s.list))
      failed == {s.list[p] : p \in 1..(s.next - 1)} \cap FreeCols(s)
  IN AuctionStart([s EXCEPT !.switched = TRUE, !.armed = TRUE,
                            !.failed = failed, !.resetU = s.u], queue)

(* hybrid_step, after the auction: the searches start over on the free     *)
(* columns but the failed ones.                                            *)
AuctionOver(s) ==
  [Repair(s) EXCEPT !.armed = FALSE, !.canonDue = TRUE, !.auction = NoAuction,
                    !.list = SelectSeq(@, LAMBDA j : j \notin s.failed)]

SearchSparse(s) == [Search(s, s.list[s.next]) EXCEPT !.next = @ + 1]

(* set_stop_free: enough columns are matched; the rest stay free.          *)
StopDue(s) == s.stopFree >= 0 /\ Cardinality(FreeCols(s)) <= s.stopFree
StopPartial(s) == [WithDense(s) EXCEPT !.phase = 4]

(* Phase 3: every column still free, on the full graph; a search that      *)
(* reaches no free row proves the matrix structurally singular.            *)
FreeFrom(s) == {j \in FreeCols(s) : j >= s.next}
AfterFull(s, j) == IF s.rowOf[j] # 0 THEN [s EXCEPT !.next = j + 1]
                   ELSE [s EXCEPT !.next = j + 1, !.status = "SingularMatrix", !.phase = 4]
SearchFull(s) == AfterFull(Search(s, Least(FreeFrom(s), 0)), Least(FreeFrom(s), 0))

Turn(s) ==
  IF s.phase = 1
  THEN IF ~s.listed THEN ListFreeSparse(s)
       ELSE IF s.armed THEN IF AuctionEnded(s) THEN AuctionOver(s) ELSE AuctionTurn(s)
       ELSE IF ~SparseLeft(s) THEN EndPhaseOne(s)
       ELSE IF SwitchDue(s) THEN Switch(s)
       ELSE IF StopDue(s) THEN StopPartial(s) ELSE SearchSparse(s)
  ELSE IF FreeFrom(s) = {} THEN [s EXCEPT !.phase = 4] ELSE SearchFull(s)

(* The turns that look at the budget before they scan edges: searches and  *)
(* bids.  The others run on whatever was spent.                            *)
ChecksBudget(s) ==
  IF s.phase = 1
  THEN /\ s.listed
       /\ IF s.armed THEN ~AuctionEnded(s) /\ s.auction.queue # <<>> ELSE SparseLeft(s)
  ELSE FreeFrom(s) # {}

RECURSIVE Advance(_, _)
Advance(s, budget) ==
  IF MatchingDone(s) \/ (budget >= 0 /\ s.work >= budget /\ ChecksBudget(s)) THEN s
  ELSE Advance(Turn(s), budget)

(* diagonal(): the initial phase gave every sparse column its own row;     *)
(* diagonal_result() then settles the dense duals and stops short of the   *)
(* searches over them.                                                     *)
Diagonal(s) == s.status = "Success" /\ \A j \in Sparse(s) : s.initRow[j] = j
DiagonalResult(s) == [WithDense(s) EXCEPT !.phase = 3, !.next = 1]

(* result(): twice the logarithm of the scale, the column duals re-derived *)
(* on the matched edges; unit scaling once the matching has failed.        *)
TwiceLogScale(s, rowOf, u, v) ==
  LET tight(j) == IF rowOf[j] # 0 /\ rowOf[j] \in Rows(s.g, j)
                  THEN Cost(s, rowOf[j], j) - u[rowOf[j]] ELSE v[j]
  IN AsSeq([i \in 1..s.g.n |-> u[i] + tight(i) - s.g.top[i]])

Current(s) ==
  IF s.status # "Success" THEN [i \in DOMAIN s.rowOf |-> 0]
  ELSE TwiceLogScale(s, s.rowOf, s.u, s.v)
Initial(s) == TwiceLogScale(s, s.initRow, s.initU, s.initV)
-----------------------------------------------------------------------------
(* Reference: the perfect matchings of the nonzero pattern by enumeration. *)
Perfect(g) == {p \in Permutations(1..g.n) : \A j \in 1..g.n : p[j] \in Rows(g, j)}
=============================================================================
