------------------------------ MODULE MCAnalysis ------------------------------
(***************************************************************************)
(* Analyses of small matrices.  Families: every lower triangle of order 3  *)
(* with entries 1 and 4 that the automatic orderings do not keep as it is, *)
(* analysed serially with and without a work budget; matrices of order 4   *)
(* and 5 whose trial runs on a thread, gated, stopped, failing or left     *)
(* without a thread; graphs large enough to be dissected in parallel; and  *)
(* orderings and pairs given by the caller.                                *)
(***************************************************************************)
EXTENDS Analysis

None == 0

(* The stored columns of a matrix given by its lower triangle, row by row. *)
Stack(rows) ==
  [j \in DOMAIN rows |->
     SelectSeq([k \in 1..(Len(rows) - j + 1) |-> <<j + k - 1, rows[j + k - 1][j]>>],
               LAMBDA e : e[2] # None)]
Graph(n, edges) == [j \in 1..n |-> <<<<j, 4>>>> \o
                     [k \in 1..Len(Ascending({i \in 1..n : <<j, i>> \in edges})) |->
                        <<Ascending({i \in 1..n : <<j, i>> \in edges})[k], 1>>]]

AllLibs == [amd |-> TRUE, metis |-> "best", fails |-> {}]
Plain(A) ==
  [A |-> A, ordering |-> "AutoParallel", threads |-> 1, ndThreads |-> 1, noThread |-> FALSE,
   deterministic |-> FALSE, predicted |-> TRUE, indefinite |-> TRUE, skipGate |-> FALSE,
   weakPivot |-> FALSE, skipMin |-> 0, skipMax |-> 0, passes |-> -1, refactors |-> 1,
   candidateNd |-> FALSE, alg |-> "ShortestPath", dense |-> {}, switchWork |-> 0, nemin |-> 2,
   rule |-> "Smf", userPerm |-> <<>>, userPairs |-> <<>>, lib |-> AllLibs, throws |-> ""]

(* Order 3, bandwidth 2; serial, and with the trial on a thread: free, or  *)
(* gated with the base's flops inside or outside the gate's band.          *)
Small == {Stack(<<<<a>>, <<b, c>>, <<d, e, f>>>>) :
            a, b, c, e, f \in {None, 1, 4}, d \in {1, 4}}
Serial == {[Plain(A) EXCEPT !.passes = k, !.skipGate = g[1], !.weakPivot = g[1], !.skipMax = g[2]] :
             A \in Small, k \in {-1, 0}, g \in {<<FALSE, 0>>, <<TRUE, 4>>}}
Threaded == {[x EXCEPT !.threads = 2] : x \in Serial}

(* Order 4: saddle points whose diagonal blocks are in part empty.         *)
Saddles == {Stack(<<<<a>>, <<1, b>>, <<c, 1, None>>, <<4, d, 1, e>>>>) :
              a, b, e \in {None, 1}, c, d \in {None, 1, 4}}
Searches == {[Plain(A) EXCEPT !.alg = "Hybrid", !.dense = ds, !.switchWork = w, !.passes = k,
                              !.refactors = r, !.nemin = 3, !.rule = "CostModel"] :
               A \in Saddles, ds \in {{}, {4}}, w \in {0, 6}, k \in {-1, 1}, r \in {1, 3}}

(* What the trial's thread may meet.                                       *)
Saddle == Stack(<<<<1>>, <<None, 1>>, <<4, 1, None>>, <<None, 4, 1, None>>>>)
Faults == {[Plain(A) EXCEPT !.threads = 2, !.throws = th, !.noThread = no, !.passes = k,
                            !.skipGate = g, !.weakPivot = g, !.skipMax = 100,
                            !.lib = [AllLibs EXCEPT !.amd = am, !.metis = mt]] :
             A \in {Saddle} \cup {Stack(<<<<1>>, <<1, 4>>, <<z, 1, 1>>, <<1, None, 1, None>>>>) : z \in {1, 3}},
             th \in {"", "construct", "order"}, no, g, am \in BOOLEAN, k \in {0, -1},
             mt \in {"best", "none"}}

(* Saddle points whose only zero diagonal is that of a dense column; the   *)
(* best matching of Uneven does not extend its diagonal.                   *)
Bordered == Stack(<<<<4>>, <<None, 4>>, <<1, None, 4>>, <<1, 1, 1, None>>>>)
Uneven   == Stack(<<<<16>>, <<None, 1>>, <<2, 1, None>>>>)
Dominant == {[Plain(A) EXCEPT !.dense = {Len(A)}, !.threads = t, !.passes = k, !.skipGate = g,
                                     !.weakPivot = TRUE, !.skipMax = s, !.throws = th] :
               A \in {Bordered, Uneven}, t \in {1, 2}, k \in {-1, 0}, g \in BOOLEAN,
               s \in {0, 100}, th \in {"", "order"}}

(* Dissections of connected, disconnected and complete graphs, with every  *)
(* call of the library that may fail.                                      *)
Grid == Graph(6, {<<1, 2>>, <<2, 3>>, <<1, 4>>, <<2, 5>>, <<3, 6>>, <<4, 5>>, <<5, 6>>})
Ring == Graph(6, {<<1, 2>>, <<2, 3>>, <<3, 4>>, <<4, 5>>, <<5, 6>>, <<1, 6>>})
Split == Graph(6, {<<1, 2>>, <<1, 3>>, <<2, 3>>, <<4, 5>>, <<5, 6>>, <<4, 6>>})
Star == Graph(6, {<<1, 2>>, <<1, 3>>, <<1, 4>>, <<1, 5>>, <<1, 6>>})
Full == Graph(5, {<<i, j>> \in (1..5) \X (1..5) : i < j})
Dissections ==
  {[Plain(A) EXCEPT !.indefinite = FALSE, !.threads = 2, !.ndThreads = k, !.refactors = 2,
                    !.lib = [AllLibs EXCEPT !.metis = mt, !.fails = f]] :
     A \in {Grid, Ring, Split, Star, Full}, k \in {2, 3}, mt \in {"best", "worst"},
     f \in {{}, {<<6, 0>>}, {<<6, 1>>}, {<<6, 9>>, <<5, 0>>}, {<<2, 10>>, <<3, 10>>}}}

(* Both at once: a saddle point of order 5 whose trial searches while the  *)
(* base ordering is dissected.                                             *)
Both == Stack(<<<<1>>, <<1, 1>>, <<4, 1, None>>, <<None, 4, 1, None>>, <<1, None, 1, 4, 1>>>>)
Composed == {[Plain(Both) EXCEPT !.threads = 2, !.ndThreads = 2, !.refactors = r, !.passes = k,
                                 !.candidateNd = c, !.skipGate = g, !.weakPivot = TRUE,
                                 !.skipMax = 8] :
               r \in {1, 2, 9}, k \in {-1, 0}, c, g \in BOOLEAN}

(* Serial and given orderings.                                             *)
Given == {[Plain(A) EXCEPT !.ordering = o, !.userPerm = p, !.userPairs = q, !.nemin = m,
                           !.rule = rl, !.deterministic = dt, !.refactors = 9,
                           !.lib = [AllLibs EXCEPT !.amd = am, !.metis = mt]] :
            A \in {Saddle, Stack(<<<<1>>, <<1, 1>>, <<None, 1, 1>>, <<None, None, 1, 1>>>>)},
            o \in {"UserSupplied", "AMD", "METIS", "Matching", "AutoSerial"},
            p \in {<<4, 3, 2, 1>>, <<1, 3, 2, 4>>, <<1, 1, 2, 3>>},
            q \in {<<>>, <<<<2, 3>>>>, <<<<1, 4>>>>}, m \in {1, 2},
            rl \in {"Smf", "SmfPlusCholmod"}, dt, am \in BOOLEAN, mt \in {"none", "fails", "best"}}
Large == {[Plain(A) EXCEPT !.indefinite = FALSE, !.deterministic = dt, !.refactors = 2,
                           !.lib = [AllLibs EXCEPT !.metis = mt]] :
            A \in {Grid, Ring, Star}, dt \in BOOLEAN, mt \in {"none", "fails", "best", "worst"}}
Empty == {[Plain(<<>>) EXCEPT !.threads = 2]}

Inputs == Serial \cup Threaded \cup Searches \cup Faults \cup Dominant \cup Dissections \cup Composed
          \cup Given \cup Large \cup Empty

MCInit == /\ in \in Inputs /\ main = Begin(in) /\ trial = NoTrial
          /\ nd = NoNd /\ worker = <<>>
MCSpec == MCInit /\ [][AnalysisNext]_avars /\ AnalysisFair
=============================================================================
