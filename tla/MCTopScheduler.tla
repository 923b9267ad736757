--------------------------- MODULE MCTopScheduler ---------------------------
(* An instance of TopScheduler for TLC: a forest whose root 2 has the      *)
(* leaves 0 and 1, and whose root 4 has the leaf 3.                        *)
EXTENDS TopScheduler

MCNodes  == 0..4
MCParent == [n \in MCNodes |-> CASE n \in {0, 1} -> 2 [] n = 3 -> 4 [] OTHER -> NoNode]

=============================================================================
