------------------------------- MODULE Budget -------------------------------
(***************************************************************************)
(* The Budget of one top-level execution and the CostModel table it owns.  *)
(*                                                                         *)
(* The Budget is not under src/ in this repository: it is modelled from    *)
(* the spec (sections 3 and 4.1).  Every variable-cost step of the host    *)
(* routes through Charge, which checks both limits BEFORE it adds, and     *)
(* either adds both costs or leaves both counters untouched.               *)
(***************************************************************************)
EXTENDS Naturals

CONSTANTS
  CostTypes,   \* the ContractCostType enumeration (a small subset in MC runs)
  CpuModel,    \* CostType -> [const, lin]: cpu cost(n) = const + lin * n
  MemModel     \* CostType -> [const, lin]: mem cost(n) = const + lin * n

\* A CostModel is a pair of natural coefficients (rounded up offline, never
\* negative), so cost(n) is monotonic non-decreasing in n.
CostModelType == [const : Nat, lin : Nat]

ASSUME CostModelAssumption ==
  /\ CpuModel \in [CostTypes -> CostModelType]
  /\ MemModel \in [CostTypes -> CostModelType]

VARIABLES
  cpuConsumed,  \* cpu instructions charged so far
  memConsumed,  \* memory bytes charged so far
  cpuLimit,     \* cpu limit installed by reset_limits
  memLimit      \* memory limit installed by reset_limits

budgetVars == <<cpuConsumed, memConsumed, cpuLimit, memLimit>>

\* CostModel::evaluate for the cpu and the memory dimension.
CpuCost(t, n) == CpuModel[t].const + CpuModel[t].lin * n
MemCost(t, n) == MemModel[t].const + MemModel[t].lin * n

\* Budget::charge succeeds iff neither counter would pass its limit.
CanCharge(t, n) ==
  /\ cpuConsumed + CpuCost(t, n) <= cpuLimit
  /\ memConsumed + MemCost(t, n) <= memLimit

\* A successful charge adds both costs; limits are untouched.
Charge(t, n) ==
  /\ CanCharge(t, n)
  /\ cpuConsumed' = cpuConsumed + CpuCost(t, n)
  /\ memConsumed' = memConsumed + MemCost(t, n)
  /\ UNCHANGED <<cpuLimit, memLimit>>

\* A rejected charge (BudgetExceeded) leaves every counter unchanged.
ChargeRejected(t, n) ==
  /\ ~CanCharge(t, n)
  /\ UNCHANGED budgetVars

\* Budget::reset_limits, called once at the top of a fresh execution.
ResetLimits(cpu, mem) ==
  /\ cpuLimit' = cpu
  /\ memLimit' = mem
  /\ cpuConsumed' = 0
  /\ memConsumed' = 0

BudgetTypeOK ==
  /\ cpuConsumed \in Nat
  /\ memConsumed \in Nat
  /\ cpuLimit \in Nat
  /\ memLimit \in Nat

\* Budget invariant (spec 3): after every step, consumed <= limit for both
\* cpu and memory, however many nested frames have charged the Budget.
BudgetWithinLimits ==
  /\ cpuConsumed <= cpuLimit
  /\ memConsumed <= memLimit
=============================================================================
