---------------------------- MODULE FuzzHarness ----------------------------
(***************************************************************************)
(* The `expr` fuzz target of the host: one test case is an arbitrary cpu   *)
(* and memory budget (u32 each), two generated contracts and a map of data *)
(* keys.  The target keeps the first five keys, builds a host with the two *)
(* contracts and an enforcing footprint, masks the budget limits with      *)
(* reset_limits, invokes contract A and panics only on an InternalError    *)
(* that is not of the Contract type.                                       *)
(*                                                                         *)
(* The budget masks are modelled bit-exactly on u64 values; the execution  *)
(* itself (Host) is abstracted to the class of error it returns.           *)
(***************************************************************************)
EXTENDS Naturals, FiniteSets, Budget

CONSTANTS
  CpuInputs,       \* u32 values the fuzzer supplies as cpu_budget
  MemInputs,       \* u32 values the fuzzer supplies as mem_budget
  KeyInputs,       \* u32 data keys the fuzzer may put in data_keys
  MaxDataKeys,     \* the `.take(5)` bound
  DefaultCpu,      \* limits of the host's default Budget
  DefaultMem

\* u32 inputs; TLC's integers stop at 2^31 - 1, so the runs stay below it.
ASSUME FuzzHarnessAssumption ==
  /\ CpuInputs \subseteq Nat
  /\ MemInputs \subseteq Nat
  /\ KeyInputs \subseteq Nat
  /\ MaxDataKeys \in Nat
  /\ DefaultCpu \in Nat /\ DefaultMem \in Nat

\* Error codes and types of an ScError a host invocation may return.
ErrorCodes == {"InternalError", "ExceededLimit", "MissingValue", "InvalidAction"}
ErrorTypes == {"Contract", "Budget", "Storage", "Context"}
\* A Result<ScVal, HostError>: Ok, or Err with an error code and type.
OkResult == [ok |-> TRUE]
Results == {OkResult} \cup [ok : {FALSE}, code : ErrorCodes, type : ErrorTypes]

VARIABLES
  phase,     \* where the fuzz target is
  tc,        \* the test case: [cpu, mem, keys]
  dataKeys,  \* the data keys kept for the contracts
  nArgs,     \* number of arguments passed to contract A
  result,    \* what invoke_function returned
  panicked   \* the fuzz target panicked (a reported crash)

vars == <<budgetVars, phase, tc, dataKeys, nArgs, result, panicked>>

\* x & (2^w - 1) and x | (2^w - 1) on naturals.
LowBits(x, w) == x % 2^w
SetLowBits(x, w) == (x - (x % 2^w)) + (2^w - 1)

\* Mutant: the cpu mask without the `| 0x000f_ffff` that raises small budgets.
CpuMaskAndOnly(x) == LowBits(x, 28)

\* `cpu_budget as u64 & 0x0fff_ffff | 0x000f_ffff`
CpuMask(x) == SetLowBits(LowBits(x, 28), 20)
\* `mem_budget as u64 & 0x0ff_ffff | 0x000f_ffff`
MemMask(x) == SetLowBits(LowBits(x, 24), 20)

\* The first n keys of a BTreeMap: its n smallest keys.
TakeSmallest(S, n) == {k \in S : Cardinality({j \in S : j < k}) < n}

Init ==
  /\ tc \in [cpu : CpuInputs, mem : MemInputs, keys : SUBSET KeyInputs]
  /\ phase = "Setup"
  /\ dataKeys = {}
  /\ nArgs = 0
  /\ result = OkResult
  /\ panicked = FALSE
  /\ cpuLimit = DefaultCpu /\ memLimit = DefaultMem
  /\ cpuConsumed = 0 /\ memConsumed = 0

\* Keep the first keys, pass one U32 argument per key, then contract B's
\* address and the function name; build the host over the two contracts.
Setup ==
  /\ phase = "Setup"
  /\ dataKeys' = TakeSmallest(tc.keys, MaxDataKeys)
  /\ nArgs' = Cardinality(TakeSmallest(tc.keys, MaxDataKeys)) + 2
  /\ phase' = "Budget"
  /\ UNCHANGED <<budgetVars, tc, result, panicked>>

\* host.with_budget(|budget| budget.reset_limits(..)).unwrap()
MaskBudget ==
  /\ phase = "Budget"
  /\ ResetLimits(CpuMask(tc.cpu), MemMask(tc.mem))
  /\ phase' = "Invoke"
  /\ UNCHANGED <<tc, dataKeys, nArgs, result, panicked>>

\* host.invoke_function(hf): any result the host may return.
Invoke ==
  /\ phase = "Invoke"
  /\ result' \in Results
  /\ phase' = "Check"
  /\ UNCHANGED <<budgetVars, tc, dataKeys, nArgs, panicked>>

\* `if let Err(hosterror) = res`: only an InternalError that is not of the
\* Contract type is a crash.
Check ==
  /\ phase = "Check"
  /\ panicked' = (~result.ok /\ result.code = "InternalError"
                             /\ result.type # "Contract")
  /\ phase' = "Done"
  /\ UNCHANGED <<budgetVars, tc, dataKeys, nArgs, result>>

Finished ==
  /\ phase = "Done"
  /\ UNCHANGED vars

Next == Setup \/ MaskBudget \/ Invoke \/ Check \/ Finished

Spec == Init /\ [][Next]_vars

----------------------------------------------------------------------------
\* The comment above reset_limits: the masks bring the budget down to 268m
\* instructions / 256MiB memory (both the 28-bit mask 0x0fff_ffff) and up to
\* at least 1m / 1MiB.  Once the budget is set, the memory limit is the one
\* that comment describes.
MemLimitAsCommented ==
  phase \in {"Invoke", "Check", "Done"} =>
      memLimit = SetLowBits(LowBits(tc.mem, 28), 20)

\* What the masks do guarantee, for every u32 input: once reset_limits has
\* run, the cpu limit is between 2^20 - 1 and 2^28 - 1 and the memory limit
\* between 2^20 - 1 and 2^24 - 1, so no fuzz case starts with a budget too
\* small to instantiate a VM, and none runs past 268m instructions.
MaskedLimitsInRange ==
  phase \in {"Invoke", "Check", "Done"} =>
      /\ cpuLimit \in 2^20 - 1 .. 2^28 - 1
      /\ memLimit \in 2^20 - 1 .. 2^24 - 1

\* The inductive form of MaskedLimitsInRange: from MaskBudget on, the limits
\* are the masks of the test case's budgets, which Invoke and Check leave
\* alone.
LimitsMasked ==
  /\ tc \in [cpu : CpuInputs, mem : MemInputs, keys : SUBSET KeyInputs]
  /\ phase \in {"Setup", "Budget", "Invoke", "Check", "Done"}
  /\ phase \in {"Invoke", "Check", "Done"} =>
        /\ cpuLimit = CpuMask(tc.cpu)
        /\ memLimit = MemMask(tc.mem)
====
