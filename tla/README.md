# TLA+ models of the contract host

This directory models the parts of the repository under `src/` that have
state and control. It model-checks them with TLC on small instances and
proves the host's main safety properties with TLAPS for all values of the
constants. `PROJECT.json` lists the components, runs, mutants, findings,
hazards and theorems. Its `map` gives, for every definition, the source
lines it translates.

## The system and how its parts interact

A top-level invocation runs one contract on the host. Contracts run as wasm
VMs, and each executed instruction is metered against a shared **Budget**
(cpu and memory). A contract reaches the host through the host-function
table. That table is generated from the x-macro in
`stellar-contract-env-common/src/env.rs`, and the parts modelled here are:

- the `l` (ledger) module: `get/has/put/del_contract_data`;
- the `v` (vector) module;
- the `c` module: `call0`..`call4`. The spec's `try_call` is not declared
  there; the tests and the spec pin down how a caught error behaves.

Storage is gated by a **footprint**, the keys declared beforehand and their
access types. Writes are buffered, rolled back when a frame fails, and
committed only when the top frame returns. Native (built-in) contracts are
dispatched by code that `soroban-env-macros/src/derive_fn.rs` generates. The
instruction cost model is calibrated offline: `cost_runner/` and
`benches/common/cost_types/` run instruction patterns and fit coefficients.
The fuzz target `fuzz/fuzz_targets/expr.rs` drives the whole host with
arbitrary budgets and programs.

Of the host itself, only the tests (`stellar-contract-env-host/src/test.rs`)
and the interface are under `src/`. Host behaviour is therefore modelled from
what those tests pin down, plus the spec. Definitions with no code under
`src/` are marked `spec_modelled` in the map. These are Budget::charge,
footprint enforcement, the write buffer, the charge-before-effect rule and
the top-level error result.

## Modules

| Module | Models | State |
|---|---|---|
| `Budget` | `Budget::charge`, `reset_limits` | consumed cpu/mem, limits |
| `AtomicInvocation` | what one invocation promises (spec 6, 7): commit once or abort with no trace | `ledger`, `status` |
| `Host` | one execution: call stack, VM lifecycle, storage, unwinding, commit | budget, `code`, `overlay` (write buffer), `stack` of frames, `err`, `status`, `ledger`, `fatal` |
| `HostHistory` | `Host` with a history of each frame's own storage writes, as nested transactions | `Host`'s, `frameWrites` |
| `HostProofs` | TLAPS proofs about `Host`, and its refinement of `AtomicInvocation` | none |
| `MeteredVec` | the `vec_*` host functions over immutable host objects | budget, `objs`, `last` call |
| `MeteredVecProofs` | TLAPS proofs about `MeteredVec` | none |
| `NativeDispatch` | the generated `NativeContract::call` | `request`, `outcome` |
| `FuzzHarness` | the `expr` fuzz target | budget, phase, test case, keys kept, result, `panicked` |
| `FuzzHarnessProofs` | TLAPS proof of the fuzz target's budget ranges | none |
| `Calibration` | the instruction types, `variants()`, the runners, the bench generators and measurements, `run_iter`, and a two-point fit | `samples`, `model` per cost type |
| `MC*` | the instances TLC checks | none |

### Host actions

Each host step is one action. Its guard comes from the state the step needs:
`Running`, the top frame's phase, and the kind of the current op.

- **VM lifecycle:**
  - `FetchCode` reads the code entry under the footprint. It can fail with
    AccessViolation, or with HostError when the entry is missing.
  - `Parse` charges VmInstantiation on the code size.
  - `Instantiate` charges VmCachedInstantiation.
- **Ops:**
  - `ExecInsn` charges WasmInsnExec for one instruction.
  - `StorageGet`, `StorageHas`, `StoragePut` and `StorageDel` each enforce the
    footprint first, then charge, then act.
  - `Call` pushes the callee's frame. The frame records `try` (try_call) and a
    rollback copy of the overlay.
  - `ContractFail` is a trap or a host object error.
- **Return:** `Return` pops the frame. If the frame was the top-level one, it
  sets status Ok and commits `Committed`, which is the overlay applied to the
  ledger with tombstones removed.
- **Unwinding:** every unwind step restores `overlay` to the popped frame's
  rollback.
  - `UnwindTop` ends the execution with the error as its status.
  - `UnwindCaught` applies when the frame was entered by try_call and the
    error is recoverable. The caller resumes, and the error becomes a value.
  - `UnwindPropagate` passes the error on to the caller in every other case.

Every metered step is `ChargeThen(t, n, Effect)`. The charge is checked
first. If it fits, the counters advance and the effect happens. If it does
not fit, nothing is charged and
BudgetExceeded is raised. BudgetExceeded and AccessViolation are fatal, and
`fatal` remembers the first one.

### Refinement

`AtomicInvocation` is the abstract invocation. It has two variables, `ledger`
and `status`, and two actions:

- `Commit` goes from Running to Ok and moves the ledger in one step to a
  ledger that differs from the snapshot only on keys the footprint declares
  ReadWrite;
- `Abort(e)` goes from Running to the error `e` and leaves the ledger alone.

`Host` instantiates it with the identity mapping of `ledger` and `status`
(`Atomic == INSTANCE AtomicInvocation WITH Writable <- WritableKeys`), and
`ImplementsAtomic == Atomic!Spec` is a property of `host_core`. The top-level
`Return` maps to `Commit`, `UnwindTop` to `Abort(err)`, and every other host
step (all metering, storage, nested calls, nested returns, caught and
propagated errors) to a stutter. The refinement therefore says in one
formula that nothing of a nested frame reaches the ledger before the top
returns, that an execution ends once, and that nothing moves after the end.

### Nested writes

The refinement does not see the write buffer while frames run. `HostHistory`
adds a history variable `frameWrites`, one map of keys to writes per frame,
which each `Host` action updates without constraining it: a successful put
or del is the top frame's own write, `Call` opens a frame with none, a
nested `Return` merges the callee's writes over its caller's (`Merge`), and
every unwind drops the top frame's. `NestedWrites` says that the overlay is
always `Layered(frameWrites)`, the writes of the highest frame for each key,
and that the ledger is the snapshot until the top-level Ok and then the
snapshot with the entry frame's merged writes applied. It is what catches a
frame that restores the wrong rollback image, and a callee's writes that
survive (or vanish with) a later failure of their caller.

## Runs

| Run | Expect | What it shows |
|---|---|---|
| `host_core` (MCHost) | pass | TypeOK, BudgetWithinLimits, FatalErrorIsFinal, WritesWithinFootprint, NoWorkAfterFatal, Termination, ImplementsAtomic |
| `host_nested_writes` (MCHostHistory) | pass | NestedWrites: the overlay is the layering of the running frames' own writes, Ok callees merged and unwound frames dropped; the ledger changes only at the top-level Ok, by the entry frame's writes |
| `metered_vec` (MCMeteredVec) | pass | BudgetWithinLimits, ObservedViewsUnchanged, NewObjectsArePaid: a new object is charged, and a non-empty one at least the VecEntry cost of all its elements but one |
| `native_dispatch` | violation | DispatchNeverPanics: an unknown symbol hits `_ => panic!()` (derive_fn.rs:51) |
| `fuzz_limits` | pass | MaskedLimitsInRange: after reset_limits the cpu limit is in 2^20-1..2^28-1 and the memory limit in 2^20-1..2^24-1 |
| `fuzz_mem_mask` | violation | MemLimitAsCommented: the memory mask keeps 24 bits (16MiB), not 256MiB as its comment says (expr.rs:77) |
| `calibration` | violation | NoUndercharge: every runner's COST_TYPE is WasmInsnExec (wasm_insn_exec.rs:148), so a model fitted from const/drop undercharges call_indirect |
| `calibration_variants` | violation | EveryVariantCalibrated: `variants()` lists types with no runner (Return, BrIfEqz, BrIfNez, ReturnIfNez, Unreachable), and the bench measures no DropRun, BrTableRun, CallLocalRun or CallImportRun |
| `calibration_truncated` | violation | SamplesAreFullRuns: a run that the bench host's budget stops early is kept by `unwrap_or_default` (wasm_insn_exec.rs:161) as a sample of the full input size |

**Bounds.** `MCHost` has five contracts:

- A, the entry contract;
- B, the callee;
- X, whose code key is undeclared;
- Y, whose code entry is absent;
- Z, called by B, which writes k1 and returns Ok.

B's programs include one that calls Z and then fails, so a callee's writes
merged into a caller that is then unwound (the case `NestedWrites` is
about) happens. `MCProgramChoices` lists the programs per contract, so that
TLC does not enumerate every function from contracts to programs.

There are three data keys: k1 is ReadWrite, k2 is ReadOnly and k3 is
undeclared. The programs cover:

- nested call and try_call, and recursion back into A;
- a callee that fails after writing;
- a write to a ReadOnly key, and a read of an undeclared key;
- a delete followed by a has.

The cpu limits {11, 12, 25, 26, 29, 60} and the memory limits {6, 30} are
chosen so that exhaustion happens in every phase and every op kind,
including a charge that reaches the limit exactly. Every action and every
disjunct of `Next` fires.

`MCMeteredVec` allows vectors of up to 2 elements, up to 4 objects, indices
0..2 plus a non-u32 index, and cpu limit 14. That is enough for empty, full
and out-of-range cases of every function, and for budget rejection once a
few objects exist.

`MCNativeDispatch` has three methods of arities 0..2. It uses an argument
that converts for every method, one that converts only for `transfer`, and
one that converts for none. It allows calls of up to 3 arguments, so that
too few, too many and non-converting arguments all occur.

The fuzz runs use the mask inputs below, with every subset of 7 data keys.
`fuzz_limits` reaches 75776 states.

The violation runs use boundary inputs:

- mask inputs 0, 2^20-5, 2^25+3 and 2^31-1;
- a symbol that names no method;
- two runners whose instruction classes differ twentyfold;
- for the variants run, Const (runner and measurement), Drop (runner, no
  measurement) and Return (no runner);
- for the truncation run, a bench-host budget of 3000 instructions, which
  a 2000-iteration Const loop (4000 instructions) passes.

`Calibration` models every one of the 50 instruction types, the 45 runner
instances and all 42 bench measurements as data: the run's `Runners`
constant chooses which of them an instance calibrates.

**Mutants.** Every property of a passing run is broken by a plausible bug in
the definition it is about. Examples: try_call catching every error; the
instruction callback charging without checking the limit;
put_contract_data buffering its write before the charge; a frame taking an
empty rollback image instead of its caller's pending writes; vec_put writing
in place; vec_append charging for its first argument only. `PROJECT.json` lists all of them.

## Fairness

`Host` has `WF_vars(Next)`. The host is single-threaded and never blocks on
anything outside itself: each state with a non-empty stack enables exactly
the next step of the top frame. Weak fairness only says the host keeps
running. With it, `Termination` (every execution reaches a status) holds on
the instance. It holds because the programs are finite and budget
exhaustion ends recursion. The other modules check safety only and assume
no fairness.

## What is proved (HostProofs)

The proofs cover every value of the constants satisfying `HostAssumption`
and `CostModelAssumption`. These state that costs and limits are naturals,
that code keys, the footprint and the snapshot are well-typed, and that
programs are sequences of `Op`.

- `TypeCorrect`: `Spec => []TypeOK`. TypeOK is inductive by itself.
- `BudgetSafe`: `Spec => []BudgetWithinLimits`. It rests on a lemma that
  `ChargeThen` only advances the counters when the charge fits.
- `FatalFinal`: `Spec => []FatalErrorIsFinal`. It is proved through
  `FatalInv`: once a fatal error exists, it is the error propagating, or it
  is the status. `Catches` refuses non-recoverable errors, so no unwind
  clears it.
- `NoWorkAfterFatalHolds`: `Spec => NoWorkAfterFatal`. This is an action
  property. It is derived from the step lemma `QuietStep` under
  TypeOK/FatalInv and combined with PTL.
- `FootprintSafe`: `Spec => []WritesWithinFootprint`. The invariant is not
  inductive on its own: an unwind restores a frame's *rollback* copy, which
  the invariant does not mention. The strengthening `FootprintInv`
  additionally says that every frame's rollback only holds writes to
  ReadWrite keys, and that the ledger differs from the snapshot only on
  them.
- `Refinement`: `Spec => ImplementsAtomic`. The step lemma `RefinementStep`
  needs three invariants: TypeOK, FootprintInv and AbortInv. `CommitStep`
  shows that the top-level commit is an atomic `Commit`. AbortInv gives
  ledger = snapshot while running, so an untouched key commits its snapshot
  value, and FootprintInv gives that every touched key is writable.
  AbortInv says that the ledger is the snapshot while running, that the
  bottom frame's rollback is the empty overlay, and that an error status
  implies a clean ledger and overlay.

`MeteredVecProofs` proves, for every bound on objects and lengths and every
cost model:

- `VecTypeCorrect`: `Spec => []VecTypeOK`;
- `ObjectsImmutable`: `Spec => ObservedViewsUnchanged`.

Every host function has one of three shapes: it fails, it reads, or it
produces a new object appended to the table. The lemmas `FailStep`,
`ReadStep` and `ProduceStep` state what each shape does. One lemma per host
function then shows that the function keeps the type, keeps every existing
object (`Kept`), stays within the budget, and pays for what it allocates
(`Paid`). The index
checks are the lemma `IndexCheck`. The sequence operators `RemoveAt`,
`InsertAt` and `SubSeq` have typing lemmas built on the library's
`SubSeqProperties` and `ConcatProperties`.

Each step proof has one case per action. Shared facts are lemmas, such as
`ChargeThenType`, `RaiseType` and the `*Rollbacks` lemmas about the frames
below the top. `HostProofs` has no RECURSIVE operator and does not use
SequencesExt.

`MeteredVecProofs` also proves:

- `VecBudgetSafe`: `Spec => []BudgetWithinLimits`. `FailStep` leaves the
  budget unchanged, and `ReadStep` and `ProduceStep` carry `BudgetKept`.
- `ObjectsArePaid`: under the hypothesis that the VecNew and VecEntry cost
  models have a positive constant term, `Spec => NewObjectsArePaid`: an
  allocating step charges cpu, and a non-empty new object was charged as
  VecEntry on a size at least its length minus one. `Paid` carries the size
  each function charged from `ProduceStep`, and `EntryCostMonotone` turns
  it into the cost bound. The hypothesis is stated on the theorem and is not an assumption of the
  module. The offline fit clamps a negative intercept to 0, so a fitted
  model may have a zero constant term. With such a model, an empty
  `vec_new` is free, and the property fails.

## What is proved (FuzzHarnessProofs)

- `MaskedLimitsSafe`: `Spec => []MaskedLimitsInRange`, for every set of
  natural budget inputs. The range alone is not inductive: it says nothing
  of the test case, which Invoke and Check must leave alone. The
  strengthening `LimitsMasked` says that from MaskBudget on, the limits
  are the masks of the test case's budgets. TLC checks it on the
  `fuzz_limits` instance. `MaskRange` bounds the masks by arithmetic on
  `%` with the powers of two written out: the low 20 bits are all set, and
  the bits from 28 (cpu) or 24 (memory) up are clear.

## Only model-checked

- `NestedWrites` (run `host_nested_writes`) is only model-checked: its
  inductive form would relate every frame's rollback image to the layering
  of the frames below it.
- `Termination` needs liveness and fairness, which TLAPS does not handle
  here.
- The violation runs, which are counterexamples TLC finds and not
  theorems.
- `TakeSmallest` (the `.take(5)` of the fuzz target) is only evaluated by
  TLC. No property depends on it.
- `Calibration.IterationCost` is a recursive function over a pattern. What
  it computes for every input would need induction over data, which the
  installed provers cannot instantiate.

## Not modelled

- The other x-macro modules of `env.rs`: context, objects, ints, maps,
  buffers and crypto. They are interface declarations with no behaviour in
  `src/`.
- `expiration_ledger_bumps.rs`: a type with no operation.
- The bench input generators `vm_ops.rs` and `im_map_ops.rs`, and the bench
  module index.
- In calibration: the `WasmInsnExecMeasure` / `WasmMemAllocMeasure`
  benches, whose runners are not under `src/`. call_indirect's three callees
  are folded into one class cost. The bench's `CallRun` names a runner that
  this source does not define; `Pattern` keeps it as a measurement that no
  runner matches.
- `vec_take` and `vec_drop` (env.rs `v` module, `$6` and `$7`). They have no
  implementation and no test under `src/`. The tests call `vec_slice`
  instead, which the `v` module does not declare, so the interface and the
  host in this snapshot disagree. `MeteredVec` follows the tests.
- The host's wasm execution beyond instruction metering, and XDR
  conversion. These are data transformations with no control a property
  here tells apart.
