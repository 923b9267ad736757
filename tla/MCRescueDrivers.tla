-------------------------- MODULE MCRescueDrivers --------------------------
(***************************************************************************)
(* RescueDrivers on three value arrays: the analysed one, one a kept scale *)
(* no longer fits, and a structurally singular one.                        *)
(***************************************************************************)
EXTENDS RescueDrivers

CONSTANTS v1, v2, v3, full, reduced, dense, holes, gaps

Off == [static |-> FALSE, realized |-> FALSE, armed |-> FALSE, safety |-> FALSE, reuse |-> FALSE,
        next |-> FALSE, carry |-> FALSE, fallback |-> FALSE, slack |-> FALSE,
        bound |-> FALSE]

Recommended == [Off EXCEPT !.armed = TRUE, !.reuse = TRUE, !.next = TRUE, !.carry = TRUE,
                           !.fallback = TRUE, !.slack = TRUE]

MCControls ==
  {[Off EXCEPT !.static = TRUE, !.bound = TRUE],
   [Off EXCEPT !.realized = TRUE, !.bound = TRUE],
   [Off EXCEPT !.safety = TRUE, !.slack = TRUE, !.reuse = TRUE],
   Recommended,
   [Recommended EXCEPT !.carry = FALSE, !.fallback = FALSE],
   [Recommended EXCEPT !.reuse = FALSE, !.fallback = FALSE, !.slack = FALSE]}

MCValues      == {v1, v2, v3}
MCMatchable   == {<<full, dense>>, <<reduced, dense>>}
MCFits        == {<<v1, v1>>, <<v2, v2>>, <<v1, v2>>}
MCReduced     == {reduced}
\* The third values are singular in both, with other zeros in each.
MCZeroPattern ==
  [a \in {full, reduced} |->
     [v \in MCValues |-> IF v # v3 THEN dense ELSE IF a = full THEN holes ELSE gaps]]
MCFull        == {full}

\* The instance is one the theorems about remembered verdicts speak of.
ASSUME TellsAssumption == SignaturesTell

=============================================================================
