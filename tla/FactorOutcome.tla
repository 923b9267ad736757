--------------------------- MODULE FactorOutcome ----------------------------
(***************************************************************************)
(* What multifrontal_factor_serial promises of its status                  *)
(* (solver/include/smf/multifrontal_serial.hpp:64-79), at every thread     *)
(* count: the factorization reports one of the reasons the finished        *)
(* factorization would have to fail, and succeeds exactly when there are   *)
(* none.                                                                   *)
(***************************************************************************)
CONSTANT Errors        (* the error codes a factorization can return        *)

VARIABLES
  causes,              (* those the finished factorization exhibits         *)
  outcome              (* "running", then what is returned                  *)

vars == <<causes, outcome>>

Init == causes \in SUBSET Errors /\ outcome = "running"

Report ==
  /\ outcome = "running"
  /\ outcome' \in (IF causes = {} THEN {"Success"} ELSE causes)
  /\ UNCHANGED causes

Spec == Init /\ [][Report]_vars /\ WF_vars(Report)

=============================================================================
