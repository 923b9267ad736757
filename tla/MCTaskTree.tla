----------------------------- MODULE MCTaskTree -----------------------------
(* An instance of TaskTree for TLC: the root 7 with the children 2 (above   *)
(* the leaves 0 and 1) and 6 (above 5, which has the leaves 3 and 4), and   *)
(* the root 8. The coarse depth is that of 5.                               *)
EXTENDS TaskTree

MCNodes   == 0..8
MCKids    == [n \in MCNodes |-> CASE n = 2 -> <<0, 1>> [] n = 5 -> <<3, 4>> [] n = 6 -> <<5>>
                                  [] n = 7 -> <<2, 6>> [] OTHER -> <<>>]
MCRoots   == <<7, 8>>
MCFlops   == [n \in MCNodes |-> CASE n \in {2, 6, 7} -> 4 [] n = 5 -> 2 [] OTHER -> 1]
MCContrib == [n \in MCNodes |-> CASE n \in {7, 8} -> 0 [] n \in {2, 5, 6} -> 1 [] OTHER -> 2]

\* Nothing, the leaves, and the subtree of 2 too small for a task; no budget,
\* or one that only the leaves exceed.
MCPolicies ==
  [parallel : BOOLEAN, budget : {0}, min : {0, 2, 7}]
    \cup [parallel : {TRUE}, budget : {3}, min : {0}]

\* A budget that the children of the root exceed.
TightPolicies == [parallel : {TRUE}, budget : {1}, min : {0}]

=============================================================================
