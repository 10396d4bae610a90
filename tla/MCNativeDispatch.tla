------------------------- MODULE MCNativeDispatch -------------------------
(***************************************************************************)
(* A native contract with two methods, "transfer" (two parameters) and     *)
(* "balance" (one), called with those symbols and with "mint", which it   *)
(* does not implement; argument lists of up to three values: okArg        *)
(* converts for both methods, midArg only for transfer, badArg for none.   *)
(***************************************************************************)
EXTENDS NativeDispatch, TLC

CONSTANTS okArg, midArg, badArg

MCMethods == {"transfer", "balance"}
MCNumArgs == "transfer" :> 2 @@ "balance" :> 1
MCSymbols == {"transfer", "balance", "mint"}
MCArgVals == {okArg, midArg, badArg}
MCConverts == [f \in MCMethods |->
                [a \in MCArgVals |-> a = okArg \/ (f = "transfer" /\ a = midArg)]]
=============================================================================
