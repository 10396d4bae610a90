--------------------------- MODULE NativeDispatch ---------------------------
(***************************************************************************)
(* The dispatch function that derive_contract_function_set generates for a *)
(* native (built-in) contract: NativeContract::call(func, host, args).     *)
(*                                                                         *)
(* The generated body matches the payload of the function symbol against   *)
(* one discriminant per method.  For a known method it checks the argument *)
(* count, converts each argument to the method's parameter type, calls the *)
(* method and converts its result back to a RawVal; every failure on that  *)
(* path is Err(()).  A symbol that names no method reaches the match's     *)
(* last arm, `_ => panic!()`.                                              *)
(***************************************************************************)
EXTENDS Naturals, Sequences

CONSTANTS
  Methods,    \* the contract's methods (one discriminant each)
  NumArgs,    \* Methods -> Nat: parameters after the host argument
  Symbols,    \* function symbols a caller may pass (Methods and others)
  ArgVals,    \* abstract argument values
  Converts,   \* Methods -> (ArgVals -> BOOLEAN): try_into succeeds
  MaxArgs     \* bound: longest argument list a caller passes

\* The instances must satisfy (each MC module's constants do):
\*   /\ Methods \subseteq Symbols
\*   /\ NumArgs \in [Methods -> Nat]
\*   /\ Converts \in [Methods -> [ArgVals -> BOOLEAN]]
\*   /\ MaxArgs \in Nat

Outcomes == {"Ok", "Err", "Panic"}

VARIABLES
  request,   \* the call being dispatched: [func, args], or the empty record
  outcome    \* "none" until the call returns, then one of Outcomes

vars == <<request, outcome>>

ArgLists == UNION {[1 .. n -> ArgVals] : n \in 0 .. MaxArgs}

\* The arm of one method: arity check, argument conversions (each `?`
\* maps a failure to Err(())), the call, and the result conversion.
MethodArm(f, args, methodOk, resultOk) ==
  IF Len(args) # NumArgs[f] THEN "Err"
  ELSE IF \E i \in 1 .. Len(args) : ~Converts[f][args[i]] THEN "Err"
  ELSE IF ~methodOk THEN "Err"
  ELSE IF ~resultOk THEN "Err"
  ELSE "Ok"

\* The generated match on the symbol's payload.
Dispatch(f, args, methodOk, resultOk) ==
  IF f \in Methods THEN MethodArm(f, args, methodOk, resultOk) ELSE "Panic"

Init ==
  /\ request = [func |-> "none", args |-> << >>]
  /\ outcome = "none"

\* A caller invokes the native contract with any symbol and argument list;
\* whether the method itself and the conversion of its result succeed is
\* decided by the method body, which is not modelled.
Call ==
  /\ outcome = "none"
  /\ \E f \in Symbols, args \in ArgLists, mOk, rOk \in BOOLEAN :
       /\ request' = [func |-> f, args |-> args]
       /\ outcome' = Dispatch(f, args, mOk, rOk)

\* The call has returned (or the host has panicked): nothing more happens.
Returned ==
  /\ outcome # "none"
  /\ UNCHANGED vars

Next == Call \/ Returned

Spec == Init /\ [][Next]_vars

----------------------------------------------------------------------------
\* Spec 6: the invoking environment sees one terminal status per call, Ok
\* or an error value; a guest that passes a symbol the native contract does
\* not implement must get an error back, not a host panic.
DispatchNeverPanics == outcome # "Panic"

====
