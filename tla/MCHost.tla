------------------------------- MODULE MCHost -------------------------------
(***************************************************************************)
(* A small instance of Host: an entry contract A, a callee B, a contract  *)
(* X whose code key is undeclared, a contract Y whose code entry is       *)
(* absent and a contract Z that writes and returns Ok, so that B can fail *)
(* after its callee's writes were handed to it.  Three data keys (k1      *)
(* declared ReadWrite, k2 ReadOnly, k3 undeclared).  The programs cover   *)
(* nested call and try_call, recursion back into A, a failing callee,     *)
(* writes to a read-only key, reads of an undeclared key and of a deleted *)
(* entry.  The limits make exhaustion happen in every phase and op, and   *)
(* at exact equality with the limit.                                      *)
(***************************************************************************)
(* A small instance of Host: an entry contract A, a callee B, a contract *)
(* X whose code key is undeclared, a contract Y whose code entry is       *)
(* absent and a contract Z that writes and returns Ok, so that B can fail *)
(* after its callee's writes are handed to it; three data keys (k1 declared ReadWrite, k2 ReadOnly, k3        *)
(* undeclared).  The programs cover nested call and try_call, recursion   *)
(* back into A, a failing callee, writes to a read-only key, reads of an  *)
(* undeclared key and of a deleted entry.  The limits make exhaustion     *)
(* happen in every phase and op, and at exact equality with the limit.    *)
(***************************************************************************)
EXTENDS Host, TLC

CONSTANTS A, B, X, Y, Z, cA, cB, cX, cY, cZ, k1, k2, k3, v1, v2

MCContracts == {A, B, X, Y, Z}
MCKeys == {cA, cB, cX, cY, cZ, k1, k2, k3}
MCVals == {v1, v2}
MCSizeOf == [v \in MCVals |-> IF v = v1 THEN 1 ELSE 2]
MCCodeKey == (A :> cA) @@ (B :> cB) @@ (X :> cX) @@ (Y :> cY)
                @@ (Z :> cZ)
MCFootprint == (cA :> "ReadOnly") @@ (cB :> "ReadOnly")
                 @@ (cY :> "ReadOnly") @@ (cZ :> "ReadOnly")
                 @@ (k1 :> "ReadWrite")
                 @@ (k2 :> "ReadOnly")
MCSnapshot == (cA :> v1) @@ (cB :> v2) @@ (cX :> v1) @@ (cY :> NoEntry)
                 @@ (cZ :> v1)
                 @@ (k1 :> NoEntry)
                 @@ (k2 :> v2) @@ (k3 :> v1)
MCInsnClasses == {"Const", "Drop"}

I(c) == [op |-> "insn", cls |-> c]
G(k) == [op |-> "get", key |-> k]
H(k) == [op |-> "has", key |-> k]
D(k) == [op |-> "del", key |-> k]
P(k, v) == [op |-> "put", key |-> k, val |-> v]
C(c, t) == [op |-> "call", callee |-> c, try |-> t]
F == [op |-> "fail"]

MCProgramsOf ==
  (A :> { << P(k1, v1), C(B, TRUE), G(k1) >>,
          << I("Const"), C(B, FALSE), D(k1), H(k1) >>,
          << H(k1), C(B, TRUE), H(k3) >> })
  @@ (B :> { << P(k1, v2), F >>,
             << G(k2), I("Drop") >>,
             << P(k2, v1) >>,
             << G(k3) >>,
             << D(k2) >>,
             << C(A, TRUE) >>,
             << C(X, TRUE) >>,
             << C(Y, TRUE) >>,
             << C(Z, FALSE), F >> })
  @@ (X :> { << I("Const") >> })
  @@ (Y :> { << I("Const") >> })
  @@ (Z :> { << P(k1, v2) >> })

\* ProgramChoices, enumerated as the product of the contracts' choices.
MCProgramChoices ==
  {(A :> a) @@ (B :> b) @@ (X :> x) @@ (Y :> y) @@ (Z :> z) :
     a \in MCProgramsOf[A], b \in MCProgramsOf[B], x \in MCProgramsOf[X],
     y \in MCProgramsOf[Y], z \in MCProgramsOf[Z]}

MCCostTypes == {"WasmInsnExec", "VmInstantiation", "VmCachedInstantiation",
                "StorageRead", "StorageWrite"}
M(c, l) == [const |-> c, lin |-> l]
MCCpuModel == ("WasmInsnExec" :> M(1, 0)) @@ ("VmInstantiation" :> M(2, 1))
              @@ ("VmCachedInstantiation" :> M(1, 1))
              @@ ("StorageRead" :> M(1, 1)) @@ ("StorageWrite" :> M(2, 1))
MCMemModel == ("WasmInsnExec" :> M(0, 0)) @@ ("VmInstantiation" :> M(1, 1))
              @@ ("VmCachedInstantiation" :> M(1, 0))
              @@ ("StorageRead" :> M(0, 0)) @@ ("StorageWrite" :> M(0, 1))
MCCpuLimits == {11, 12, 25, 26, 29, 60}
MCMemLimits == {6, 30}
=============================================================================
