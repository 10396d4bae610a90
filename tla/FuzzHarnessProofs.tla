------------------------- MODULE FuzzHarnessProofs -------------------------
(***************************************************************************)
(* Proofs about the `expr` fuzz target: the masks applied to the budget    *)
(* before a fuzz case runs keep both limits in a fixed range for every u32 *)
(* input, and nothing after reset_limits changes them.                     *)
(***************************************************************************)
EXTENDS FuzzHarness, TLAPS

\* The powers of two the masks are built from.
LEMMA Powers ==
  /\ 2^20 = 1048576
  /\ 2^24 = 16777216
  /\ 2^28 = 268435456
  OBVIOUS

\* `x & (2^w - 1) | 0x000f_ffff` for w = 28 and w = 24 lies between 2^20 - 1
\* and 2^w - 1: the low 20 bits are all set, the bits above w all clear.
LEMMA MaskRange ==
  ASSUME NEW x \in Nat
  PROVE  /\ CpuMask(x) \in 2^20 - 1 .. 2^28 - 1
         /\ MemMask(x) \in 2^20 - 1 .. 2^24 - 1
  BY Powers DEF CpuMask, MemMask, SetLowBits, LowBits

\* LimitsMasked holds initially: no limits are claimed before MaskBudget.
LEMMA LimitsMaskedInit == Init => LimitsMasked
  BY DEF Init, LimitsMasked

\* Every step keeps LimitsMasked: MaskBudget installs the masks of tc's
\* budgets and moves to Invoke; every other step leaves tc and the limits
\* alone and moves the phase only forward.
LEMMA LimitsMaskedStep == LimitsMasked /\ [Next]_vars => LimitsMasked'
  <1> SUFFICES ASSUME LimitsMasked, [Next]_vars PROVE LimitsMasked'
    OBVIOUS
  <1>1. CASE Setup
    BY <1>1, Zenon DEF Setup, LimitsMasked, budgetVars
  <1>2. CASE MaskBudget
    BY <1>2 DEF MaskBudget, ResetLimits, LimitsMasked
  <1>3. CASE Invoke
    BY <1>3 DEF Invoke, LimitsMasked, budgetVars
  <1>4. CASE Check
    BY <1>4 DEF Check, LimitsMasked, budgetVars
  <1>5. CASE Finished
    BY <1>5 DEF Finished, LimitsMasked, vars, budgetVars
  <1>6. CASE UNCHANGED vars
    BY <1>6 DEF LimitsMasked, vars, budgetVars
  <1>7. QED
    BY <1>1, <1>2, <1>3, <1>4, <1>5, <1>6 DEF Next

\* LimitsMasked gives the range: the test case's budgets are naturals (u32
\* values), and MaskRange bounds their masks.
LEMMA LimitsMaskedInRange == LimitsMasked => MaskedLimitsInRange
  <1> SUFFICES ASSUME LimitsMasked, phase \in {"Invoke", "Check", "Done"}
               PROVE  /\ cpuLimit \in 2^20 - 1 .. 2^28 - 1
                      /\ memLimit \in 2^20 - 1 .. 2^24 - 1
    BY DEF MaskedLimitsInRange
  <1>1. tc.cpu \in Nat /\ tc.mem \in Nat
    <2>1. tc.cpu \in CpuInputs /\ tc.mem \in MemInputs
      BY DEF LimitsMasked
    <2>2. QED
      BY <2>1, FuzzHarnessAssumption, Zenon
  <1>2. cpuLimit = CpuMask(tc.cpu) /\ memLimit = MemMask(tc.mem)
    BY DEF LimitsMasked
  <1>3. QED
    BY <1>1, <1>2, MaskRange

\* For every set of u32 inputs the fuzzer may supply, every fuzz case runs
\* contract A with a cpu limit in 2^20 - 1 .. 2^28 - 1 and a memory limit in
\* 2^20 - 1 .. 2^24 - 1 (the reset_limits masks of the `expr` target).
THEOREM MaskedLimitsSafe == Spec => []MaskedLimitsInRange
  <1>1. Init => LimitsMasked
    BY LimitsMaskedInit
  <1>2. LimitsMasked /\ [Next]_vars => LimitsMasked'
    BY LimitsMaskedStep
  <1>3. LimitsMasked => MaskedLimitsInRange
    BY LimitsMaskedInRange
  <1>4. QED
    BY <1>1, <1>2, <1>3, PTL DEF Spec
====
