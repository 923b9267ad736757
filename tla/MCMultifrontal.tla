--------------------------- MODULE MCMultifrontal ---------------------------
(***************************************************************************)
(* Problems for Multifrontal: trees of three to six fronts with small      *)
(* integer matrices, and Controls that select every kernel and path.       *)
(***************************************************************************)
EXTENDS Multifrontal, TLC

MCWeakRatio == <<1, 4>>

Control ==
  [posdef |-> FALSE, pivot_u |-> <<1, 2>>, eff_small |-> <<1, 1000>>, small_pivot |-> <<1, 1000000>>,
   indef_panel_size |-> 2, static_pivot |-> Zero, in_order |-> FALSE, as_zero |-> FALSE,
   zero_stays |-> FALSE, fallback |-> Zero, delay_budget |-> -1, budget_static |-> Zero,
   front_kernel |-> "Tpp", aptp_min_elig |-> 0, top_tiles |-> FALSE, tile_min |-> 3, det |-> FALSE,
   lapack |-> FALSE, lapack_min_front |-> 2, small_fronts |-> TRUE]

Threshold == {Control, [Control EXCEPT !.pivot_u = <<1, 10>>, !.small_fronts = FALSE],
              [Control EXCEPT !.front_kernel = "Aptp"],
              [Control EXCEPT !.front_kernel = "Auto", !.aptp_min_elig = 2]}
Statics   == {[Control EXCEPT !.static_pivot = <<1, 2>>, !.as_zero = TRUE],
              [Control EXCEPT !.static_pivot = <<1, 2>>, !.in_order = TRUE],
              [Control EXCEPT !.fallback = <<1, 2>>],
              [Control EXCEPT !.delay_budget = 0, !.budget_static = <<1, 2>>],
              [Control EXCEPT !.delay_budget = 1, !.budget_static = <<1, 2>>]}
Posdefs   == {[Control EXCEPT !.posdef = TRUE], [Control EXCEPT !.posdef = TRUE, !.lapack = TRUE]}
Tilings   == {[Control EXCEPT !.top_tiles = TRUE, !.det = TRUE]}

\* A symmetric matrix from its diagonal and its entries i < j.
Symmetric(n, d, o) ==
  [i \in 1..n |-> [j \in 1..n |->
     IF i = j THEN Whole(d[i])
     ELSE IF <<MinInt(i, j), MaxInt(i, j)>> \in DOMAIN o THEN Whole(o[<<MinInt(i, j), MaxInt(i, j)>>])
     ELSE Zero]]

Tree(cols, below, parent, kids, subtrees) ==
  [cols |-> cols, below |-> below, parent |-> parent, kids |-> kids, subtrees |-> subtrees]

\* Memory kept from an earlier factorization: a chunk, an own-size chunk and
\* two of the pool's buffers.
LeftOver == [NoMemory EXCEPT !.chunks = 1, !.cur = 2, !.used = 1,
                         !.big = <<[size |-> 6, taken |-> TRUE]>>, !.buffers = 2,
                         !.free = <<[cap |-> 3, buf |-> <<"pool", 1>>], [cap |-> 6, buf |-> <<"pool", 2>>]>>]

Problem(tree, a, threads, ctl) ==
  tree @@ [a |-> a, threads |-> threads, ctl |-> ctl,
           memory |-> IF ctl.small_fronts THEN LeftOver ELSE NoMemory]

\* Two leaves under a root of two columns.
Arrow == Tree(<<<<1>>, <<2>>, <<3, 4>>>>, <<<<3, 4>>, <<3, 4>>, <<>>>>, <<3, 3, 0>>,
              <<<<>>, <<>>, <<2, 1>>>>, <<>>)
\* A chain, whose blocks are handed over.
Chain == Tree(<<<<1>>, <<2>>, <<3>>, <<4>>>>, <<<<2>>, <<3, 4>>, <<4>>, <<>>>>, <<2, 3, 4, 0>>,
              <<<<>>, <<1>>, <<2>>, <<3>>>>, <<>>)
\* Three columns under a root.
Block == Tree(<<<<1, 2, 3>>, <<4>>>>, <<<<4>>, <<>>>>, <<2, 0>>, <<<<>>, <<1>>>>, <<>>)
ArrowEntries == [{<<1, 3>>, <<1, 4>>, <<2, 3>>, <<2, 4>>, <<3, 4>>} -> {0, 1, 2}]
ChainEntries == [{<<1, 2>>, <<2, 3>>, <<2, 4>>, <<3, 4>>} -> {0, 1, 3}]
BlockEntries == [{<<1, 2>>, <<1, 4>>, <<2, 3>>, <<2, 4>>, <<3, 4>>} -> {0, 1}]

Serials == {Problem(t[1], Symmetric(4, t[2], t[3]), 1, c) :
              t \in ({Arrow} \X {<<0, 0, 0, 0>>, <<0, 2, 1, -1>>} \X ArrowEntries)
                    \cup ({Chain} \X {<<0, 0, 2, 0>>, <<2, 0, 0, 4>>} \X ChainEntries)
                    \cup ({Block} \X {<<2, 0, 0, 0>>, <<0, 0, 1, 1>>} \X BlockEntries),
              c \in Threshold \cup Statics \cup Posdefs \cup Tilings}

-----------------------------------------------------------------------------
(* Tree-parallel problems                                                  *)

\* Three leaf subtrees under two top fronts and the root.
Wide == Tree(<<<<1>>, <<2>>, <<3>>, <<4>>, <<5>>, <<6>>>>,
             <<<<3, 6>>, <<3>>, <<6>>, <<5, 6>>, <<6>>, <<>>>>, <<3, 3, 6, 5, 6, 0>>,
             <<<<>>, <<>>, <<2, 1>>, <<>>, <<4>>, <<5, 3>>>>,
             <<<<1, 1>>, <<2, 2>>, <<4, 4>>>>)
\* A subtree of three fronts and a leaf under the root.
Deep == Tree(<<<<1>>, <<2>>, <<3>>, <<4>>, <<5>>>>,
             <<<<3, 5>>, <<3>>, <<5>>, <<5>>, <<>>>>, <<3, 3, 5, 5, 0>>,
             <<<<>>, <<>>, <<2, 1>>, <<>>, <<4, 3>>>>,
             <<<<1, 3>>, <<4, 4>>>>)
WideEntries(v) == <<1, 3>> :> v[1] @@ <<1, 6>> :> v[2] @@ <<2, 3>> :> v[3] @@ <<3, 6>> :> v[4]
                  @@ <<4, 5>> :> v[5] @@ <<4, 6>> :> v[6] @@ <<5, 6>> :> v[7]
DeepEntries(v) == <<1, 3>> :> v[1] @@ <<1, 5>> :> v[2] @@ <<2, 3>> :> v[3] @@ <<3, 5>> :> v[4]
                  @@ <<4, 5>> :> v[5]

ParallelControls ==
  {Control, [Control EXCEPT !.det = TRUE, !.top_tiles = TRUE],
   [Control EXCEPT !.top_tiles = TRUE],
   [Control EXCEPT !.delay_budget = 0, !.budget_static = <<1, 2>>],
   [Control EXCEPT !.delay_budget = 1, !.budget_static = <<1, 2>>, !.small_fronts = FALSE],
   [Control EXCEPT !.posdef = TRUE]}

WideMatrix  == Symmetric(6, <<0, 0, 0, 0, 0, 0>>, WideEntries(<<1, 1, 2, 1, 1, 2, 1>>))
WideMatrix2 == Symmetric(6, <<2, 4, 3, 0, 0, 3>>, WideEntries(<<1, 0, 1, 0, 3, 1, 1>>))
DeepMatrices == {Symmetric(5, d, DeepEntries(v)) :
                   d \in {<<0, 0, 0, 2, 0>>, <<4, 4, 0, 0, 4>>, <<4, 4, 4, 4, 4>>},
                   v \in {<<1, 1, 2, 1, 1>>, <<1, 0, 1, 2, 1>>}}

WideControls == {c \in ParallelControls : ~c.posdef /\ c.top_tiles = c.det}

Parallels == {Problem(Wide, WideMatrix, 2, c) : c \in WideControls}
             \cup {Problem(Wide, WideMatrix2, 2, c) : c \in {d \in WideControls : d.delay_budget > 0}}
             \cup {Problem(Deep, a, 2, c) : a \in DeepMatrices, c \in ParallelControls}

MCProblems == Serials \cup Parallels
=============================================================================
