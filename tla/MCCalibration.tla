-------------------------- MODULE MCCalibration --------------------------
(***************************************************************************)
(* Instances of the calibration suite, each measured at steps 1 and 2      *)
(* (1000 and 2000 loop iterations).                                        *)
(*  - MCCalibration.cfg: const/drop and call_indirect, an order of         *)
(*    magnitude apart, with a bench budget that never stops a run.         *)
(*  - MCCalibrationVariants.cfg: const/drop, drop (a runner the bench      *)
(*    never measures) and return (a listed type with no runner).           *)
(*  - MCCalibrationBudget.cfg: const/drop under a bench budget of 3000     *)
(*    instructions, which the step-2 run (4000) exceeds.                   *)
(***************************************************************************)
EXTENDS Calibration

MCTrueCost == [c \in InsnClasses |-> IF c = "CallIndirect" THEN 40 ELSE 2]
=============================================================================
