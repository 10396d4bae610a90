-------------------------------- MODULE Host --------------------------------
(***************************************************************************)
(* One top-level execution of the contract host: a single call stack of    *)
(* contract frames sharing ONE Budget and ONE footprint-gated Storage.     *)
(*                                                                         *)
(*  - A frame is created by the top-level call or by a call/try_call host  *)
(*    function.  Before it runs, its code is fetched from Storage under    *)
(*    the footprint, parsed and instantiated, each phase charged.          *)
(*  - Each executed instruction is charged as WasmInsnExec with input 1    *)
(*    (the per-instruction cost runner charges that one cost type for      *)
(*    every instruction class).                                            *)
(*  - Storage host functions enforce the footprint, charge by entry size,  *)
(*    then read or buffer a write/tombstone in the overlay.                *)
(*  - An error unwinds frame by frame; each popped frame rolls the overlay *)
(*    back to its value at frame entry.  try_call turns a recoverable      *)
(*    error of its callee into a status value for the caller; a            *)
(*    BudgetExceeded or AccessViolation unwinds to the top.                *)
(*  - The ledger changes only when the top frame returns Ok (commit).      *)
(***************************************************************************)
EXTENDS Naturals, Sequences, Budget

CONSTANTS
  Contracts,     \* contract ids
  Entry,         \* the contract the top-level invocation calls
  Keys,          \* ledger keys
  Vals,          \* ledger entry values (abstract)
  SizeOf,        \* Vals -> Nat, serialized size of an entry
  CodeKey,       \* Contracts -> Keys, the ledger key of a contract's code
  Footprint,     \* declared keys -> access type, fixed before execution
  Snapshot,      \* Keys -> Vals \cup {NoEntry}, the pre-loaded ledger
  InsnClasses,   \* instruction classes the engine reports per instruction
  ProgramsOf,    \* Contracts -> set of programs that contract may hold
  CpuLimits,     \* cpu limits a fresh execution may be given
  MemLimits,     \* memory limits a fresh execution may be given
  NoEntry,       \* model value: no ledger entry under this key
  Tombstone,     \* model value: entry deleted in this execution
  Untouched,     \* model value: key not written in this execution
  NoError        \* model value: no error is propagating

AccessTypes == {"ReadOnly", "ReadWrite"}
Recoverable == {"HostError"}
Fatal == {"BudgetExceeded", "AccessViolation"}
Errors == Recoverable \cup Fatal

\* One host-visible step of a contract program.
Op == [op : {"insn"}, cls : InsnClasses]
      \cup [op : {"get", "has", "del"}, key : Keys]
      \cup [op : {"put"}, key : Keys, val : Vals]
      \cup [op : {"call"}, callee : Contracts, try : BOOLEAN]
      \cup [op : {"fail"}]

Slot == Vals \cup {Tombstone, Untouched}
Phases == {"Unparsed", "Fetched", "Parsed", "Running"}
Frame == [contract : Contracts, pc : Nat \ {0}, phase : Phases,
          try : BOOLEAN, rollback : [Keys -> Slot]]

ASSUME HostAssumption ==
  /\ Entry \in Contracts
  /\ SizeOf \in [Vals -> Nat]
  /\ CodeKey \in [Contracts -> Keys]
  /\ DOMAIN Footprint \subseteq Keys
  /\ Footprint \in [DOMAIN Footprint -> AccessTypes]
  /\ Snapshot \in [Keys -> Vals \cup {NoEntry}]
  /\ \A c \in Contracts : ProgramsOf[c] \subseteq Seq(Op)
  /\ CpuLimits \subseteq Nat /\ MemLimits \subseteq Nat
  /\ {"WasmInsnExec", "VmInstantiation", "VmCachedInstantiation",
      "StorageRead", "StorageWrite"} \subseteq CostTypes
  /\ {NoEntry, Tombstone, Untouched} \cap Vals = {}
  /\ Tombstone # Untouched
  /\ NoError \notin Errors

VARIABLES
  code,      \* contract -> program, as deployed in the snapshot
  overlay,   \* key -> pending write / tombstone / Untouched
  stack,     \* call stack of frames, top at the end
  err,       \* error being propagated, or NoError
  status,    \* "Running", "Ok", or the terminal error
  ledger,    \* the ledger: Snapshot until a successful commit
  fatal      \* ghost: first unrecoverable error raised, or NoError

hostVars == <<code, overlay, stack, err, status, ledger, fatal>>
vars == <<budgetVars, hostVars>>

ProgramChoices ==
  {f \in [Contracts -> UNION {ProgramsOf[c] : c \in Contracts}] :
      \A c \in Contracts : f[c] \in ProgramsOf[c]}

NoWrites == [k \in Keys |-> Untouched]

----------------------------------------------------------------------------
(* Storage: footprint enforcement and the snapshot-plus-overlay view.      *)

\* Footprint::enforce_access: the key is declared with a mode that allows
\* the access (ReadWrite allows both).
Enforce(k, mode) ==
  /\ k \in DOMAIN Footprint
  /\ mode = "ReadOnly" \/ Footprint[k] = "ReadWrite"

\* What a read sees: a buffered write, a tombstone, or the snapshot.
View(k) == IF overlay[k] = Untouched THEN ledger[k] ELSE overlay[k]
Present(k) == View(k) \in Vals

\* Mutant: a tombstone is committed as if it were a value.
CommittedKeepsTombstone ==
  [k \in Keys |-> IF overlay[k] = Untouched THEN ledger[k] ELSE overlay[k]]

\* The ledger after committing the overlay.
Committed == [k \in Keys |-> IF overlay[k] = Untouched THEN ledger[k]
                             ELSE IF overlay[k] = Tombstone THEN NoEntry
                             ELSE overlay[k]]

----------------------------------------------------------------------------
(* Frames.                                                                 *)

Top == stack[Len(stack)]
Pop(s) == SubSeq(s, 1, Len(s) - 1)
SetTop(f) == stack' = [stack EXCEPT ![Len(stack)] = f]
CurOp == code[Top.contract][Top.pc]
Advance == SetTop([Top EXCEPT !.pc = @ + 1])

\* Mutant: a frame's rollback image is taken empty instead of as the
\* caller's pending writes.
NewFrameFreshImage(c, isTry) ==
  [contract |-> c, pc |-> 1, phase |-> "Unparsed", try |-> isTry,
   rollback |-> NoWrites]

NewFrame(c, isTry) ==
  [contract |-> c, pc |-> 1, phase |-> "Unparsed", try |-> isTry,
   rollback |-> overlay]

\* Raising error e: nothing else of the step happens.
Raise(e) ==
  /\ err' = e
  /\ fatal' = IF e \in Fatal /\ fatal = NoError THEN e ELSE fatal
  /\ UNCHANGED <<budgetVars, code, overlay, stack, status, ledger>>

\* Mutant: the work is done before the charge, and kept when it fails.
ChargeThenEffectFirst(t, n, Effect) ==
  \/ /\ Charge(t, n)
     /\ Effect
     /\ UNCHANGED <<code, err, status, ledger, fatal>>
  \/ /\ ChargeRejected(t, n)
     /\ Effect
     /\ err' = "BudgetExceeded"
     /\ fatal' = IF fatal = NoError THEN "BudgetExceeded" ELSE fatal
     /\ UNCHANGED <<code, status, ledger>>

\* Charge (t, n) before doing Effect.  A rejected charge raises
\* BudgetExceeded and Effect does not happen.  Effect gives stack' and
\* overlay'.
ChargeThen(t, n, Effect) ==
  \/ /\ Charge(t, n)
     /\ Effect
     /\ UNCHANGED <<code, err, status, ledger, fatal>>
  \/ /\ ChargeRejected(t, n)
     /\ err' = "BudgetExceeded"
     /\ fatal' = IF fatal = NoError THEN "BudgetExceeded" ELSE fatal
     /\ UNCHANGED <<code, overlay, stack, status, ledger>>

Running == status = "Running" /\ err = NoError /\ stack # << >>

----------------------------------------------------------------------------
(* VM lifecycle of the top frame: fetch code, parse, instantiate.          *)

\* The host reads the contract code entry under the footprint.
FetchCode ==
  LET c == Top.contract IN
  /\ Running /\ Top.phase = "Unparsed"
  /\ \/ ~Enforce(CodeKey[c], "ReadOnly") /\ Raise("AccessViolation")
     \/ /\ Enforce(CodeKey[c], "ReadOnly")
        /\ ~Present(CodeKey[c])
        /\ Raise("HostError")
     \/ /\ Enforce(CodeKey[c], "ReadOnly")
        /\ Present(CodeKey[c])
        /\ ChargeThen("StorageRead", SizeOf[View(CodeKey[c])],
                      SetTop([Top EXCEPT !.phase = "Fetched"])
                        /\ UNCHANGED overlay)

\* Vm::new parses the module: VmInstantiation on the code size.
Parse ==
  /\ Running /\ Top.phase = "Fetched"
  /\ ChargeThen("VmInstantiation", Len(code[Top.contract]),
                SetTop([Top EXCEPT !.phase = "Parsed"]) /\ UNCHANGED overlay)

\* Instantiation of the parsed module: VmCachedInstantiation.
Instantiate ==
  /\ Running /\ Top.phase = "Parsed"
  /\ ChargeThen("VmCachedInstantiation", Len(code[Top.contract]),
                SetTop([Top EXCEPT !.phase = "Running"]) /\ UNCHANGED overlay)

----------------------------------------------------------------------------
(* Executing the current op of the running top frame.                     *)

Executing(kind) ==
  /\ Running /\ Top.phase = "Running"
  /\ Top.pc <= Len(code[Top.contract])
  /\ CurOp.op = kind

\* Mutant: the instruction is charged without checking the limits.
ExecInsnUnchecked ==
  /\ Executing("insn")
  /\ cpuConsumed' = cpuConsumed + CpuCost("WasmInsnExec", 1)
  /\ memConsumed' = memConsumed + MemCost("WasmInsnExec", 1)
  /\ Advance
  /\ UNCHANGED <<cpuLimit, memLimit, code, overlay, err, status, ledger,
                 fatal>>

\* The per-instruction metering callback.
ExecInsn ==
  /\ Executing("insn")
  /\ ChargeThen("WasmInsnExec", 1, Advance /\ UNCHANGED overlay)

\* get_contract_data: enforce, fail on a missing entry, charge, read.
StorageGet ==
  /\ Executing("get")
  /\ LET k == CurOp.key IN
     \/ ~Enforce(k, "ReadOnly") /\ Raise("AccessViolation")
     \/ Enforce(k, "ReadOnly") /\ ~Present(k) /\ Raise("HostError")
     \/ /\ Enforce(k, "ReadOnly") /\ Present(k)
        /\ ChargeThen("StorageRead", SizeOf[View(k)],
                      Advance /\ UNCHANGED overlay)

\* has_contract_data: enforce, charge the constant read cost.
StorageHas ==
  /\ Executing("has")
  /\ LET k == CurOp.key IN
     \/ ~Enforce(k, "ReadOnly") /\ Raise("AccessViolation")
     \/ /\ Enforce(k, "ReadOnly")
        /\ ChargeThen("StorageRead", 0, Advance /\ UNCHANGED overlay)

\* Mutant: put_contract_data charges and buffers without the footprint check.
StoragePutUnenforced ==
  /\ Executing("put")
  /\ LET k == CurOp.key
         v == CurOp.val IN
     ChargeThen("StorageWrite", SizeOf[v],
                Advance /\ overlay' = [overlay EXCEPT ![k] = v])

\* Mutant: the write is buffered before the charge and kept when it fails.
StoragePutEffectFirst ==
  /\ Executing("put")
  /\ LET k == CurOp.key
         v == CurOp.val IN
     \/ ~Enforce(k, "ReadWrite") /\ Raise("AccessViolation")
     \/ /\ Enforce(k, "ReadWrite")
        /\ ChargeThenEffectFirst("StorageWrite", SizeOf[v],
                      Advance /\ overlay' = [overlay EXCEPT ![k] = v])

\* put_contract_data: enforce ReadWrite, charge by size, buffer the write.
StoragePut ==
  /\ Executing("put")
  /\ LET k == CurOp.key
         v == CurOp.val IN
     \/ ~Enforce(k, "ReadWrite") /\ Raise("AccessViolation")
     \/ /\ Enforce(k, "ReadWrite")
        /\ ChargeThen("StorageWrite", SizeOf[v],
                      Advance /\ overlay' = [overlay EXCEPT ![k] = v])

\* del_contract_data: enforce ReadWrite, charge, record a tombstone.
StorageDel ==
  /\ Executing("del")
  /\ LET k == CurOp.key IN
     \/ ~Enforce(k, "ReadWrite") /\ Raise("AccessViolation")
     \/ /\ Enforce(k, "ReadWrite")
        /\ ChargeThen("StorageWrite", 0,
                      Advance /\ overlay' = [overlay EXCEPT ![k] = Tombstone])

\* call / try_call: push the callee's frame; the caller resumes after it.
Call ==
  /\ Executing("call")
  /\ stack' = Append(stack, NewFrame(CurOp.callee, CurOp.try))
  /\ UNCHANGED <<budgetVars, code, overlay, err, status, ledger, fatal>>

\* A contract trap or a host object error (e.g. VecIndexOutOfBound).
ContractFail ==
  /\ Executing("fail")
  /\ Raise("HostError")

\* Mutant: the top-level return pops the frame but reports no status.
ReturnNoStatus ==
  /\ Running /\ Top.phase = "Running"
  /\ Top.pc > Len(code[Top.contract])
  /\ IF Len(stack) = 1
       THEN /\ stack' = << >>
            /\ UNCHANGED <<status, ledger>>
       ELSE /\ stack' = LET s == Pop(stack) IN
                        [s EXCEPT ![Len(s)].pc = @ + 1]
            /\ UNCHANGED <<status, ledger>>
  /\ UNCHANGED <<budgetVars, code, overlay, err, fatal>>

\* Mutant: every frame's return, not only the top-level one, commits.
ReturnCommitsEachFrame ==
  /\ Running /\ Top.phase = "Running"
  /\ Top.pc > Len(code[Top.contract])
  /\ ledger' = Committed
  /\ IF Len(stack) = 1
       THEN /\ stack' = << >>
            /\ status' = "Ok"
       ELSE /\ stack' = LET s == Pop(stack) IN
                        [s EXCEPT ![Len(s)].pc = @ + 1]
            /\ UNCHANGED status
  /\ UNCHANGED <<budgetVars, code, overlay, err, fatal>>

\* The top frame's function returns normally.
Return ==
  /\ Running /\ Top.phase = "Running"
  /\ Top.pc > Len(code[Top.contract])
  /\ IF Len(stack) = 1
       THEN /\ stack' = << >>
            /\ status' = "Ok"
            /\ ledger' = Committed
       ELSE /\ stack' = LET s == Pop(stack) IN
                        [s EXCEPT ![Len(s)].pc = @ + 1]
            /\ UNCHANGED <<status, ledger>>
  /\ UNCHANGED <<budgetVars, code, overlay, err, fatal>>

\* Unwinding one frame on an error: the frame's writes are rolled back to
\* the overlay at its entry, then one of the three cases below applies.
Unwinding == status = "Running" /\ err # NoError /\ stack # << >>

Rollback == overlay' = Top.rollback

\* The top-level frame fails: the error is the execution's status.
UnwindTop ==
  /\ Unwinding /\ Len(stack) = 1
  /\ Rollback
  /\ stack' = << >>
  /\ status' = err
  /\ UNCHANGED <<budgetVars, code, err, ledger, fatal>>

\* Mutant: try_call catches every error, BudgetExceeded included.
CatchesAll(f, e) == f.try

\* try_call turns a recoverable error of its callee into a status value.
Catches(f, e) == f.try /\ e \in Recoverable

\* The frame was entered by try_call and the error is recoverable: the
\* caller resumes after the call with the error as a value.
UnwindCaught ==
  /\ Unwinding /\ Len(stack) > 1
  /\ Catches(Top, err)
  /\ Rollback
  /\ stack' = LET s == Pop(stack) IN [s EXCEPT ![Len(s)].pc = @ + 1]
  /\ err' = NoError
  /\ UNCHANGED <<budgetVars, code, status, ledger, fatal>>

\* Otherwise the error propagates into the caller's frame.
UnwindPropagate ==
  /\ Unwinding /\ Len(stack) > 1
  /\ ~Catches(Top, err)
  /\ Rollback
  /\ stack' = Pop(stack)
  /\ UNCHANGED <<budgetVars, code, err, status, ledger, fatal>>

\* The execution is over; the host stays in its terminal state.
Done ==
  /\ stack = << >>
  /\ UNCHANGED vars

----------------------------------------------------------------------------
Init ==
  /\ cpuLimit \in CpuLimits
  /\ memLimit \in MemLimits
  /\ cpuConsumed = 0
  /\ memConsumed = 0
  /\ code \in ProgramChoices
  /\ overlay = NoWrites
  /\ stack = << NewFrame(Entry, FALSE) >>
  /\ err = NoError
  /\ status = "Running"
  /\ ledger = Snapshot
  /\ fatal = NoError

Next ==
  \/ FetchCode \/ Parse \/ Instantiate
  \/ ExecInsn \/ StorageGet \/ StorageHas \/ StoragePut \/ StorageDel
  \/ Call \/ ContractFail \/ Return
  \/ UnwindTop \/ UnwindCaught \/ UnwindPropagate
  \/ Done

\* The host is single-threaded and never waits: it keeps taking steps.
Spec == Init /\ [][Next]_vars /\ WF_vars(Next)

----------------------------------------------------------------------------
(* Properties.                                                             *)

TypeOK ==
  /\ BudgetTypeOK
  /\ code \in ProgramChoices
  /\ overlay \in [Keys -> Slot]
  /\ stack \in Seq(Frame)
  /\ err \in Errors \cup {NoError}
  /\ status \in {"Running", "Ok"} \cup Errors
  /\ ledger \in [Keys -> Vals \cup {NoEntry}]
  /\ fatal \in Fatal \cup {NoError}

\* A BudgetExceeded or AccessViolation raised anywhere in the call tree is
\* the terminal status of the execution: no try_call turns it into Ok.
FatalErrorIsFinal ==
  fatal # NoError => status \in {"Running", fatal}

\* Footprint gating (spec 4.4): every buffered write or tombstone, and so
\* every committed change, is to a key declared ReadWrite.
WritesWithinFootprint ==
  \A k \in Keys :
    (overlay[k] # Untouched \/ ledger[k] # Snapshot[k]) =>
        k \in DOMAIN Footprint /\ Footprint[k] = "ReadWrite"

\* No work after a fatal error (spec 4.1, 7): the step that raises
\* BudgetExceeded or an AccessViolation, and every step after it, neither
\* charges the Budget nor buffers a write; the only overlay change allowed
\* is the rollback of the frame being unwound.
NoWorkAfterFatal ==
  [][fatal' # NoError =>
       /\ UNCHANGED <<cpuConsumed, memConsumed>>
       /\ \A k \in Keys : overlay'[k] # overlay[k] =>
                              overlay'[k] = Top.rollback[k]]_vars

\* Every execution ends with exactly one terminal status (spec 6).
Termination == <>(status # "Running")

----------------------------------------------------------------------------
(* Refinement: the host implements the atomic invocation of spec 6 and 7.  *)

WritableKeys == {k \in DOMAIN Footprint : Footprint[k] = "ReadWrite"}

Atomic == INSTANCE AtomicInvocation WITH Writable <- WritableKeys

\* Seen from outside, however frames nest, unwind and catch errors, an
\* execution is one atomic invocation: the ledger is untouched while it
\* runs, it ends once, with Ok and a commit of writable keys only or with
\* an error and the ledger unchanged, and nothing moves after the end.
ImplementsAtomic == Atomic!Spec
=============================================================================
