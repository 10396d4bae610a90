-------------------------- MODULE MCFuzzHarness --------------------------
(***************************************************************************)
(* Inputs at the mask boundaries: 0, a value with only bits below 20 set,  *)
(* one with bit 25 set (inside the 256MiB mask, outside the 16MiB one),    *)
(* and 2^31 - 1, the largest integer TLC represents.  Data-key maps of up  *)
(* to 7 keys, so that `.take(5)` cuts some of them.                        *)
(***************************************************************************)
EXTENDS FuzzHarness, TLC

MCInputs == {0, 2^20 - 5, 2^25 + 3, 2147483647}
MCKeys == 0 .. 6
MCCostTypes == {"WasmInsnExec"}
MCModel == "WasmInsnExec" :> [const |-> 1, lin |-> 0]
=============================================================================
