----------------------------- MODULE HostProofs -----------------------------
(***************************************************************************)
(* Proofs about Host for every value of its constants.                     *)
(*                                                                         *)
(* TypeOK is inductive by itself.  The safety invariants are not: each is  *)
(* proved through a strengthening that also speaks of the frames below the *)
(* top of the call stack, whose rollback snapshots an unwind restores.     *)
(***************************************************************************)
EXTENDS Host, SequenceTheorems, TLAPS

----------------------------------------------------------------------------
(* Lemmas about the data the model is built from.                          *)

\* A cost evaluated on a natural input is a natural (CostModel::evaluate
\* never goes negative).
LEMMA CostNat ==
  ASSUME NEW t \in CostTypes, NEW n \in Nat
  PROVE  CpuCost(t, n) \in Nat /\ MemCost(t, n) \in Nat
<1>1. /\ CpuModel[t].const \in Nat /\ CpuModel[t].lin \in Nat
      /\ MemModel[t].const \in Nat /\ MemModel[t].lin \in Nat
  BY CostModelAssumption DEF CostModelType
<1>. QED
  BY <1>1 DEF CpuCost, MemCost

\* The fields an op of each kind carries.
LEMMA OpFields ==
  ASSUME NEW o \in Op
  PROVE  /\ o.op \in {"get", "has", "del", "put"} => o.key \in Keys
         /\ o.op = "put" => o.val \in Vals
         /\ o.op = "call" => o.callee \in Contracts /\ o.try \in BOOLEAN
BY DEF Op

\* A positive natural other than 1 is above 1.
LEMMA AboveOne ==
  ASSUME NEW x \in Nat \ {0}, x # 1
  PROVE  x > 1
OBVIOUS

\* A one-element stack.
LEMMA SingletonSeq ==
  ASSUME NEW S, NEW x \in S
  PROVE  << x >> \in Seq(S)
<1>1. Append(<< >>, x) = << x >>
  OBVIOUS
<1>. QED
  BY <1>1, AppendProperties, EmptySeq

\* Advancing a frame's pc, or moving it to a later phase, keeps a frame.
LEMMA FramePc ==
  ASSUME NEW f \in Frame
  PROVE  [f EXCEPT !.pc = f.pc + 1] \in Frame
BY DEF Frame

LEMMA FramePhase ==
  ASSUME NEW f \in Frame, NEW ph \in Phases
  PROVE  [f EXCEPT !.phase = ph] \in Frame
BY DEF Frame

\* The top frame of a non-empty stack is a frame.
LEMMA TopType ==
  ASSUME TypeOK, stack # << >>
  PROVE  /\ Top \in Frame
         /\ Len(stack) \in Nat \ {0}
BY EmptySeq, ElementOfSeq DEF TypeOK, Top

\* The op at the top frame's pc is an op of its contract's program.
LEMMA CurOpType ==
  ASSUME TypeOK, stack # << >>, Top.pc <= Len(code[Top.contract])
  PROVE  CurOp \in Op
<1>1. Top \in Frame
  BY TopType
<1>2. code[Top.contract] \in Seq(Op)
  BY <1>1, HostAssumption DEF TypeOK, ProgramChoices, Frame
<1>3. Top.pc \in 1 .. Len(code[Top.contract])
  BY <1>1 DEF Frame
<1>. QED
  BY <1>2, <1>3, ElementOfSeq DEF CurOp

\* Replacing the top frame by a frame keeps a stack of frames.
LEMMA SetTopType ==
  ASSUME TypeOK, stack # << >>, NEW f \in Frame, SetTop(f)
  PROVE  stack' \in Seq(Frame)
BY TopType, ExceptSeq DEF TypeOK, SetTop

\* Popping a frame of a stack of at least two, and resuming the caller.
LEMMA PopType ==
  ASSUME NEW s \in Seq(Frame), Len(s) > 1
  PROVE  /\ Pop(s) \in Seq(Frame)
         /\ Len(Pop(s)) = Len(s) - 1
         /\ Pop(s) # << >>
         /\ \A i \in 1 .. Len(s) - 1 : Pop(s)[i] = s[i]
         /\ LET p == Pop(s) IN [p EXCEPT ![Len(p)].pc = @ + 1] \in Seq(Frame)
<1>1. /\ Pop(s) \in Seq(Frame)
      /\ Len(Pop(s)) = Len(s) - 1
      /\ \A i \in 1 .. Len(s) - 1 : Pop(s)[i] = s[i]
  BY SubSeqProperties, LenProperties DEF Pop
<1>2. Pop(s) # << >>
  BY <1>1
<1>3. Pop(s)[Len(Pop(s))] \in Frame
  BY <1>1, <1>2, ElementOfSeq, EmptySeq
<1>4. [Pop(s)[Len(Pop(s))] EXCEPT !.pc = @ + 1] \in Frame
  BY <1>3, FramePc
<1>. QED
  BY <1>1, <1>2, <1>4, ExceptSeq, EmptySeq

\* A charged step keeps the types whatever it charges, provided its effect
\* leaves a stack of frames and an overlay of slots.
LEMMA ChargeThenType ==
  ASSUME TypeOK, NEW t \in CostTypes, NEW n \in Nat, NEW ACTION E,
         ChargeThen(t, n, E),
         E => stack' \in Seq(Frame) /\ overlay' \in [Keys -> Slot]
  PROVE  TypeOK'
<1>1. CpuCost(t, n) \in Nat /\ MemCost(t, n) \in Nat
  BY CostNat
<1>2. CASE Charge(t, n) /\ E
                        /\ UNCHANGED <<code, err, status, ledger, fatal>>
  BY <1>1, <1>2 DEF TypeOK, BudgetTypeOK, Charge
<1>3. CASE /\ ChargeRejected(t, n)
           /\ err' = "BudgetExceeded"
           /\ fatal' = IF fatal = NoError THEN "BudgetExceeded" ELSE fatal
           /\ UNCHANGED <<code, overlay, stack, status, ledger>>
  BY <1>1, <1>3 DEF TypeOK, BudgetTypeOK, ChargeRejected, budgetVars,
                    Errors, Fatal
<1>. QED
  BY <1>2, <1>3 DEF ChargeThen

\* Raising an error changes only err and fatal.
LEMMA RaiseType ==
  ASSUME TypeOK, NEW e \in Errors, Raise(e)
  PROVE  TypeOK'
BY DEF TypeOK, BudgetTypeOK, Raise, budgetVars, Errors, Fatal

\* Advancing the top frame's pc keeps a stack of frames.
LEMMA AdvanceType ==
  ASSUME TypeOK, stack # << >>, Advance
  PROVE  stack' \in Seq(Frame)
BY TopType, FramePc, SetTopType DEF Advance

\* Moving the top frame to another phase keeps a stack of frames.
LEMMA PhaseType ==
  ASSUME TypeOK, stack # << >>, NEW ph \in Phases,
         SetTop([Top EXCEPT !.phase = ph])
  PROVE  stack' \in Seq(Frame)
BY TopType, FramePhase, SetTopType

\* The code of the top frame's contract is a program of naturally many ops.
LEMMA CodeLen ==
  ASSUME TypeOK, stack # << >>
  PROVE  Len(code[Top.contract]) \in Nat
<1>1. code[Top.contract] \in Seq(Op)
  BY TopType, HostAssumption DEF TypeOK, ProgramChoices, Frame
<1>. QED
  BY <1>1, LenProperties

\* The ledger after a commit holds values and NoEntry only.
LEMMA CommittedType ==
  ASSUME TypeOK
  PROVE  Committed \in [Keys -> Vals \cup {NoEntry}]
BY HostAssumption DEF TypeOK, Committed, Slot

----------------------------------------------------------------------------
(* Type correctness.                                                       *)

\* Every state the host reaches is well typed: the Budget counters are
\* naturals, every frame on the call stack is a frame whose pc is >= 1 and
\* whose rollback snapshot is an overlay, and the ledger holds only values.
THEOREM TypeCorrect == Spec => []TypeOK
<1>1. Init => TypeOK
  <2>. SUFFICES ASSUME Init PROVE TypeOK
    OBVIOUS
  <2>1. NewFrame(Entry, FALSE) \in Frame
    BY HostAssumption DEF Init, NewFrame, Frame, NoWrites, Slot, Phases
  <2>2. stack \in Seq(Frame)
    BY <2>1, SingletonSeq DEF Init
  <2>. QED
    BY <2>2, HostAssumption DEF Init, TypeOK, BudgetTypeOK, NoWrites, Slot
<1>2. TypeOK /\ [Next]_vars => TypeOK'
  <2>. SUFFICES ASSUME TypeOK, [Next]_vars PROVE TypeOK'
    OBVIOUS
  <2>1. CASE ExecInsn
    <3>1. stack # << >>
      BY <2>1 DEF ExecInsn, Executing, Running
    <3>2. (Advance /\ UNCHANGED overlay)
            => stack' \in Seq(Frame) /\ overlay' \in [Keys -> Slot]
      BY <3>1, AdvanceType DEF TypeOK
    <3>3. ChargeThen("WasmInsnExec", 1, Advance /\ UNCHANGED overlay)
      BY <2>1 DEF ExecInsn
    <3>. QED
      BY <3>2, <3>3, ChargeThenType, HostAssumption
  <2>2. CASE FetchCode
    <3>. DEFINE k == CodeKey[Top.contract]
    <3>1. stack # << >> /\ k \in Keys
      BY <2>2, TopType, HostAssumption DEF FetchCode, Running, TypeOK, Frame
    <3>2. CASE Raise("AccessViolation") \/ Raise("HostError")
      BY <3>2, RaiseType DEF Errors, Fatal, Recoverable
    <3>3. CASE /\ Present(k)
               /\ ChargeThen("StorageRead", SizeOf[View(k)],
                             SetTop([Top EXCEPT !.phase = "Fetched"])
                               /\ UNCHANGED overlay)
      <4>1. SizeOf[View(k)] \in Nat
        BY <3>3, HostAssumption DEF Present
      <4>2. (SetTop([Top EXCEPT !.phase = "Fetched"]) /\ UNCHANGED overlay)
              => stack' \in Seq(Frame) /\ overlay' \in [Keys -> Slot]
        BY <3>1, PhaseType DEF TypeOK, Phases
      <4>. QED
        BY <3>3, <4>1, <4>2, ChargeThenType, HostAssumption
    <3>. QED
      BY <2>2, <3>2, <3>3 DEF FetchCode
  <2>3. CASE Parse \/ Instantiate
    <3>1. stack # << >> /\ Len(code[Top.contract]) \in Nat
      BY <2>3, CodeLen DEF Parse, Instantiate, Running
    <3>2. \A ph \in Phases :
            (SetTop([Top EXCEPT !.phase = ph]) /\ UNCHANGED overlay)
              => stack' \in Seq(Frame) /\ overlay' \in [Keys -> Slot]
      BY <3>1, PhaseType DEF TypeOK
    <3>. QED
      BY <2>3, <3>1, <3>2, ChargeThenType, HostAssumption DEF Parse, Instantiate, Phases
  <2>4. CASE StorageGet \/ StorageHas \/ StoragePut \/ StorageDel
    <3>1. stack # << >> /\ CurOp \in Op /\ CurOp.op \in {"get", "has", "put", "del"}
      BY <2>4, CurOpType DEF StorageGet, StorageHas, StoragePut, StorageDel,
                             Executing, Running
    <3>2. CurOp.key \in Keys
      BY <3>1, OpFields
    <3>3. CASE StorageGet
      <4>1. (Advance /\ UNCHANGED overlay)
              => stack' \in Seq(Frame) /\ overlay' \in [Keys -> Slot]
        BY <3>1, AdvanceType DEF TypeOK
      <4>2. Present(CurOp.key) => SizeOf[View(CurOp.key)] \in Nat
        BY HostAssumption DEF Present
      <4>. QED
        BY <3>3, <4>1, <4>2, RaiseType, ChargeThenType, HostAssumption
           DEF StorageGet, Errors, Fatal, Recoverable
    <3>4. CASE StorageHas
      <4>1. (Advance /\ UNCHANGED overlay)
              => stack' \in Seq(Frame) /\ overlay' \in [Keys -> Slot]
        BY <3>1, AdvanceType DEF TypeOK
      <4>. QED
        BY <3>4, <4>1, RaiseType, ChargeThenType, HostAssumption DEF StorageHas, Errors, Fatal
    <3>5. CASE StoragePut
      <4>1. CurOp.val \in Vals
        BY <3>1, <3>5, OpFields DEF StoragePut, Executing
      <4>2. (Advance /\ overlay' = [overlay EXCEPT ![CurOp.key] = CurOp.val])
              => stack' \in Seq(Frame) /\ overlay' \in [Keys -> Slot]
        BY <3>1, <3>2, <4>1, AdvanceType DEF TypeOK, Slot
      <4>3. SizeOf[CurOp.val] \in Nat
        BY <4>1, HostAssumption
      <4>. QED
        BY <3>5, <4>2, <4>3, RaiseType, ChargeThenType, HostAssumption DEF StoragePut, Errors, Fatal
    <3>6. CASE StorageDel
      <4>1. (Advance /\ overlay' = [overlay EXCEPT ![CurOp.key] = Tombstone])
              => stack' \in Seq(Frame) /\ overlay' \in [Keys -> Slot]
        BY <3>1, <3>2, AdvanceType DEF TypeOK, Slot
      <4>. QED
        BY <3>6, <4>1, RaiseType, ChargeThenType, HostAssumption DEF StorageDel, Errors, Fatal
    <3>. QED
      BY <2>4, <3>3, <3>4, <3>5, <3>6
  <2>5. CASE Call
    <3>1. stack # << >> /\ CurOp \in Op /\ CurOp.op = "call"
      BY <2>5, CurOpType DEF Call, Executing, Running
    <3>2. NewFrame(CurOp.callee, CurOp.try) \in Frame
      BY <3>1, OpFields DEF TypeOK, NewFrame, Frame, Phases
    <3>3. stack' \in Seq(Frame)
      BY <2>5, <3>2, AppendProperties DEF TypeOK, Call
    <3>. QED
      BY <2>5, <3>3 DEF Call, TypeOK, BudgetTypeOK, budgetVars
  <2>6. CASE ContractFail
    BY <2>6, RaiseType DEF ContractFail, Errors, Recoverable
  <2>7. CASE Return
    <3>1. Len(stack) \in Nat \ {0}
      BY <2>7, TopType DEF Return, Running
    <3>2. CASE Len(stack) = 1
      <4>1. stack' = << >> /\ status' = "Ok" /\ ledger' = Committed
        BY <2>7, <3>2 DEF Return
      <4>. QED
        BY <2>7, <4>1, CommittedType, EmptySeq
           DEF Return, TypeOK, BudgetTypeOK, budgetVars
    <3>3. CASE Len(stack) # 1
      <4>0. Len(stack) > 1
        BY <3>1, <3>3
      <4>1. stack' = LET s == Pop(stack) IN [s EXCEPT ![Len(s)].pc = @ + 1]
        BY <2>7, <3>3, Zenon DEF Return
      <4>. QED
        BY <2>7, <4>0, <4>1, PopType
           DEF Return, TypeOK, BudgetTypeOK, budgetVars
    <3>. QED
      BY <3>2, <3>3
  <2>8. CASE UnwindTop
    <3>1. Top.rollback \in [Keys -> Slot]
      BY <2>8, TopType DEF UnwindTop, Unwinding, Frame
    <3>. QED
      BY <2>8, <3>1, EmptySeq
         DEF UnwindTop, Unwinding, Rollback, TypeOK, BudgetTypeOK, budgetVars
  <2>9. CASE UnwindCaught \/ UnwindPropagate
    <3>1. Top.rollback \in [Keys -> Slot]
      BY <2>9, TopType DEF UnwindCaught, UnwindPropagate, Unwinding, Frame
    <3>2. stack' \in Seq(Frame)
      BY <2>9, PopType DEF UnwindCaught, UnwindPropagate, TypeOK
    <3>. QED
      BY <2>9, <3>1, <3>2 DEF UnwindCaught, UnwindPropagate, Rollback, TypeOK,
                              BudgetTypeOK, budgetVars
  <2>10. CASE Done \/ UNCHANGED vars
    BY <2>10 DEF Done, vars, budgetVars, hostVars, TypeOK, BudgetTypeOK
  <2>. QED
    BY <2>1, <2>2, <2>3, <2>4, <2>5, <2>6, <2>7, <2>8, <2>9, <2>10 DEF Next
<1>. QED
  BY <1>1, <1>2, PTL DEF Spec
----------------------------------------------------------------------------
(* The Budget: consumption never passes a limit.                           *)

\* A charged step keeps consumption within the limits: the charge is
\* checked before it is added, and a rejected one adds nothing.
LEMMA ChargeThenBudget ==
  ASSUME BudgetWithinLimits, NEW t, NEW n, NEW ACTION E, ChargeThen(t, n, E)
  PROVE  BudgetWithinLimits'
BY DEF ChargeThen, Charge, CanCharge, ChargeRejected, budgetVars,
       BudgetWithinLimits

\* A step that does not charge leaves the Budget as it was.
LEMMA UnchargedBudget ==
  ASSUME BudgetWithinLimits, UNCHANGED budgetVars
  PROVE  BudgetWithinLimits'
BY DEF budgetVars, BudgetWithinLimits

\* Spec 3: however the frames of nested calls interleave their charges
\* (instructions, storage reads and writes, parsing and instantiation of
\* each callee), the shared Budget's consumption never passes its limits.
THEOREM BudgetSafe == Spec => []BudgetWithinLimits
<1>1. Init => BudgetWithinLimits
  BY HostAssumption DEF Init, BudgetWithinLimits
<1>2. BudgetWithinLimits /\ [Next]_vars => BudgetWithinLimits'
  <2>. SUFFICES ASSUME BudgetWithinLimits, [Next]_vars
                PROVE  BudgetWithinLimits'
    OBVIOUS
  <2>1. CASE FetchCode \/ Parse \/ Instantiate
    BY <2>1, ChargeThenBudget, UnchargedBudget
       DEF FetchCode, Parse, Instantiate, Raise
  <2>2. CASE ExecInsn \/ StorageGet \/ StorageHas \/ StoragePut \/ StorageDel
    BY <2>2, ChargeThenBudget, UnchargedBudget
       DEF ExecInsn, StorageGet, StorageHas, StoragePut, StorageDel, Raise
  <2>3. CASE Call \/ ContractFail \/ Return \/ Done \/ UNCHANGED vars
    BY <2>3, UnchargedBudget DEF Call, ContractFail, Return, Done, Raise, vars
  <2>4. CASE UnwindTop \/ UnwindCaught \/ UnwindPropagate
    BY <2>4, UnchargedBudget DEF UnwindTop, UnwindCaught, UnwindPropagate
  <2>. QED
    BY <2>1, <2>2, <2>3, <2>4 DEF Next
<1>. QED
  BY <1>1, <1>2, PTL DEF Spec

----------------------------------------------------------------------------
(* Fatal errors.                                                           *)

\* Once a fatal error has been raised it is the error being propagated,
\* and the execution is either still unwinding or has ended with it.
FatalInv ==
  fatal # NoError => err = fatal /\ status \in {"Running", fatal}

\* While a frame runs normally no fatal error has been raised.
LEMMA RunningNoFatal ==
  ASSUME FatalInv, Running
  PROVE  fatal = NoError
BY DEF FatalInv, Running

\* A charged step of a running frame either charges and raises nothing,
\* or raises BudgetExceeded as the first fatal error.
LEMMA ChargeThenFatal ==
  ASSUME fatal = NoError, status = "Running",
         NEW t, NEW n, NEW ACTION E, ChargeThen(t, n, E)
  PROVE  FatalInv'
BY DEF ChargeThen, FatalInv

\* Raising an error from a running frame.
LEMMA RaiseFatal ==
  ASSUME fatal = NoError, status = "Running", NEW e, Raise(e)
  PROVE  FatalInv'
BY DEF Raise, FatalInv

\* The strengthening is inductive (with the type invariant).
LEMMA FatalInvStep ==
  ASSUME TypeOK, FatalInv, [Next]_vars
  PROVE  FatalInv'
<1>1. CASE FetchCode \/ Parse \/ Instantiate \/ ExecInsn
           \/ StorageGet \/ StorageHas \/ StoragePut \/ StorageDel
           \/ ContractFail
  <2>1. fatal = NoError /\ status = "Running"
    BY <1>1, RunningNoFatal
       DEF FetchCode, Parse, Instantiate, ExecInsn, Executing, StorageGet,
           StorageHas, StoragePut, StorageDel, ContractFail, Running
  <2>. QED
    BY <1>1, <2>1, ChargeThenFatal, RaiseFatal
       DEF FetchCode, Parse, Instantiate, ExecInsn, StorageGet, StorageHas,
           StoragePut, StorageDel, ContractFail
<1>2. CASE Call \/ Return
  <2>1. fatal = NoError
    BY <1>2, RunningNoFatal DEF Call, Executing, Return
  <2>. QED
    BY <1>2, <2>1 DEF Call, Return, FatalInv
<1>3. CASE UnwindTop \/ UnwindPropagate
  BY <1>3 DEF UnwindTop, UnwindPropagate, FatalInv
<1>4. CASE UnwindCaught
  \* try_call catches only recoverable errors, and a fatal one is not.
  <2>1. err \in Recoverable
    BY <1>4 DEF UnwindCaught, Catches
  <2>2. fatal = NoError
    BY <2>1 DEF FatalInv, TypeOK, Fatal, Recoverable
  <2>. QED
    BY <1>4, <2>2 DEF UnwindCaught, FatalInv
<1>5. CASE Done \/ UNCHANGED vars
  BY <1>5 DEF Done, vars, hostVars, FatalInv
<1>. QED
  BY <1>1, <1>2, <1>3, <1>4, <1>5 DEF Next

\* A BudgetExceeded or AccessViolation raised in any frame, however deeply
\* nested under try_call, is the execution's terminal status: no try_call
\* turns it into Ok and no other error replaces it.
THEOREM FatalFinal == Spec => []FatalErrorIsFinal
<1>1. Init => FatalInv
  BY DEF Init, FatalInv
<1>2. TypeOK /\ FatalInv /\ [Next]_vars => FatalInv'
  BY FatalInvStep
<1>3. FatalInv => FatalErrorIsFinal
  BY DEF FatalInv, FatalErrorIsFinal
<1>. QED
  BY <1>1, <1>2, <1>3, TypeCorrect, PTL DEF Spec
----------------------------------------------------------------------------
(* No work after a fatal error.                                            *)

\* The step of NoWorkAfterFatal.
QuietAfterFatal ==
  fatal' # NoError =>
    /\ UNCHANGED <<cpuConsumed, memConsumed>>
    /\ \A k \in Keys : overlay'[k] # overlay[k] => overlay'[k] = Top.rollback[k]

LEMMA ChargeThenQuiet ==
  ASSUME fatal = NoError, NEW t, NEW n, NEW ACTION E, ChargeThen(t, n, E)
  PROVE  QuietAfterFatal
BY DEF ChargeThen, ChargeRejected, budgetVars, QuietAfterFatal

LEMMA QuietStep ==
  ASSUME FatalInv, [Next]_vars
  PROVE  QuietAfterFatal
<1>1. CASE FetchCode \/ Parse \/ Instantiate \/ ExecInsn
           \/ StorageGet \/ StorageHas \/ StoragePut \/ StorageDel
           \/ ContractFail \/ Call \/ Return
  <2>1. fatal = NoError
    BY <1>1, RunningNoFatal
       DEF FetchCode, Parse, Instantiate, ExecInsn, Executing, StorageGet,
           StorageHas, StoragePut, StorageDel, ContractFail, Call, Return
  <2>. QED
    BY <1>1, <2>1, ChargeThenQuiet
       DEF FetchCode, Parse, Instantiate, ExecInsn, StorageGet, StorageHas,
           StoragePut, StorageDel, ContractFail, Raise, budgetVars, Call,
           Return, QuietAfterFatal
<1>2. CASE UnwindTop \/ UnwindCaught \/ UnwindPropagate
  BY <1>2 DEF UnwindTop, UnwindCaught, UnwindPropagate, Rollback, budgetVars,
              QuietAfterFatal
<1>3. CASE Done \/ UNCHANGED vars
  BY <1>3 DEF Done, vars, hostVars, budgetVars, QuietAfterFatal
<1>. QED
  BY <1>1, <1>2, <1>3 DEF Next

\* Spec 4.1 and 7: the step that raises BudgetExceeded or an access
\* violation, and every step after it, charges nothing and buffers no
\* write; the only storage change left is each unwound frame's rollback.
THEOREM NoWorkAfterFatalHolds == Spec => NoWorkAfterFatal
<1>1. Init => FatalInv
  BY DEF Init, FatalInv
<1>2. TypeOK /\ FatalInv /\ [Next]_vars => FatalInv'
  BY FatalInvStep
<1>3. FatalInv /\ [Next]_vars => [QuietAfterFatal]_vars
  BY QuietStep
<1>. QED
  BY <1>1, <1>2, <1>3, TypeCorrect, PTL DEF Spec, NoWorkAfterFatal, QuietAfterFatal
----------------------------------------------------------------------------
(* How each change of the call stack treats the rollback snapshots.        *)

\* The step keeps every frame and its rollback snapshot where it was.
SameRollbacks ==
  /\ Len(stack') = Len(stack)
  /\ \A i \in 1 .. Len(stack) : stack'[i].rollback = stack[i].rollback

\* Replacing the top frame by one with the same rollback snapshot.
LEMMA SetTopRollbacks ==
  ASSUME TypeOK, stack # << >>, NEW f \in Frame, f.rollback = Top.rollback,
         SetTop(f)
  PROVE  SameRollbacks
<1>1. Len(stack) \in 1 .. Len(stack)
  BY TopType
<1>. QED
  BY <1>1, ExceptSeq DEF TypeOK, SetTop, SameRollbacks, Top

\* Advancing the pc or the phase of the top frame.
LEMMA AdvanceRollbacks ==
  ASSUME TypeOK, stack # << >>, Advance
  PROVE  SameRollbacks
<1>1. Top \in Frame
  BY TopType
<1>2. /\ [Top EXCEPT !.pc = Top.pc + 1] \in Frame
      /\ [Top EXCEPT !.pc = Top.pc + 1].rollback = Top.rollback
  BY <1>1, FramePc DEF Frame
<1>. QED
  BY <1>2, SetTopRollbacks DEF Advance

LEMMA PhaseRollbacks ==
  ASSUME TypeOK, stack # << >>, NEW ph \in Phases,
         SetTop([Top EXCEPT !.phase = ph])
  PROVE  SameRollbacks
<1>1. Top \in Frame
  BY TopType
<1>2. /\ [Top EXCEPT !.phase = ph] \in Frame
      /\ [Top EXCEPT !.phase = ph].rollback = Top.rollback
  BY <1>1, FramePhase DEF Frame
<1>. QED
  BY <1>2, SetTopRollbacks

\* Pushing a frame keeps the frames below it.
LEMMA PushRollbacks ==
  ASSUME TypeOK, NEW f \in Frame, stack' = Append(stack, f)
  PROVE  /\ Len(stack') = Len(stack) + 1
         /\ \A i \in 1 .. Len(stack) : stack'[i] = stack[i]
         /\ stack'[Len(stack) + 1] = f
BY AppendProperties DEF TypeOK

\* Popping the top frame, and resuming the caller after its call op,
\* keeps the frames below it and their rollback snapshots.
LEMMA PopRollbacks ==
  ASSUME NEW s \in Seq(Frame), Len(s) > 1
  PROVE  LET p == Pop(s)
             r == [p EXCEPT ![Len(p)].pc = @ + 1]
         IN  /\ Len(p) = Len(s) - 1 /\ Len(r) = Len(s) - 1
             /\ \A i \in 1 .. Len(s) - 1 : p[i].rollback = s[i].rollback
             /\ \A i \in 1 .. Len(s) - 1 : r[i].rollback = s[i].rollback
<1>. DEFINE p == Pop(s)
<1>1. /\ p \in Seq(Frame) /\ Len(p) = Len(s) - 1 /\ p # << >>
      /\ \A i \in 1 .. Len(s) - 1 : p[i] = s[i]
  BY PopType
<1>2. Len(p) \in 1 .. Len(p)
  BY <1>1, EmptySeq
<1>3. p[Len(p)] \in Frame
  BY <1>1, <1>2, ElementOfSeq
<1>4. [p[Len(p)] EXCEPT !.pc = @ + 1] \in Frame
  BY <1>3, FramePc
<1>5. [p[Len(p)] EXCEPT !.pc = @ + 1].rollback = p[Len(p)].rollback
  BY <1>3 DEF Frame
<1>6. LET r == [p EXCEPT ![Len(p)] = [p[Len(p)] EXCEPT !.pc = @ + 1]]
      IN  /\ Len(r) = Len(p)
          /\ \A j \in 1 .. Len(p) : r[j] = IF j = Len(p) THEN [p[Len(p)] EXCEPT !.pc = @ + 1] ELSE p[j]
  BY <1>1, <1>2, <1>4, ExceptSeq
<1>. QED
  BY <1>1, <1>5, <1>6
----------------------------------------------------------------------------
(* Footprint gating.                                                       *)

\* The key is declared ReadWrite in the footprint.
Writable(k) == k \in DOMAIN Footprint /\ Footprint[k] = "ReadWrite"

\* An overlay whose every buffered write or tombstone is to a writable key.
WritableOnly(o) == \A k \in Keys : o[k] # Untouched => Writable(k)

\* The strengthening: the overlay, the ledger and the rollback snapshot of
\* every frame on the stack (which an unwind restores) touch writable keys
\* only.
FootprintInv ==
  /\ WritableOnly(overlay)
  /\ \A k \in Keys : ledger[k] # Snapshot[k] => Writable(k)
  /\ \A i \in 1 .. Len(stack) : WritableOnly(stack[i].rollback)

\* A charged step whose effect keeps the frames and buffers writable keys.
LEMMA ChargeThenFootprint ==
  ASSUME FootprintInv, NEW t, NEW n, NEW ACTION E, ChargeThen(t, n, E),
         E => SameRollbacks /\ WritableOnly(overlay')
  PROVE  FootprintInv'
BY DEF ChargeThen, ChargeRejected, budgetVars, FootprintInv, SameRollbacks

\* The access check of a write passes only for a writable key.
LEMMA EnforceWritable ==
  ASSUME NEW k, Enforce(k, "ReadWrite")
  PROVE  Writable(k)
BY DEF Enforce, Writable

\* Buffering a write or a tombstone under a writable key.
LEMMA BufferWritable ==
  ASSUME TypeOK, WritableOnly(overlay), NEW k \in Keys, Writable(k), NEW v,
         overlay' = [overlay EXCEPT ![k] = v]
  PROVE  WritableOnly(overlay')
BY DEF TypeOK, WritableOnly

LEMMA FootprintInvStep ==
  ASSUME TypeOK, FootprintInv, [Next]_vars
  PROVE  FootprintInv'
<1>1. CASE FetchCode \/ Parse \/ Instantiate
  <2>1. stack # << >>
    BY <1>1 DEF FetchCode, Parse, Instantiate, Running
  <2>2. \A ph \in Phases : SetTop([Top EXCEPT !.phase = ph]) /\ UNCHANGED overlay
          => SameRollbacks /\ WritableOnly(overlay')
    BY <2>1, PhaseRollbacks DEF FootprintInv, WritableOnly
  <2>. QED
    BY <1>1, <2>2, ChargeThenFootprint
       DEF FetchCode, Parse, Instantiate, Raise, FootprintInv, Phases
<1>2. CASE ExecInsn \/ StorageGet \/ StorageHas
  <2>1. stack # << >>
    BY <1>2 DEF ExecInsn, StorageGet, StorageHas, Executing, Running
  <2>2. Advance /\ UNCHANGED overlay => SameRollbacks /\ WritableOnly(overlay')
    BY <2>1, AdvanceRollbacks DEF FootprintInv, WritableOnly
  <2>. QED
    BY <1>2, <2>2, ChargeThenFootprint
       DEF ExecInsn, StorageGet, StorageHas, Raise, FootprintInv
<1>3. CASE StoragePut \/ StorageDel
  <2>1. stack # << >> /\ CurOp \in Op /\ CurOp.op \in {"put", "del"}
    BY <1>3, CurOpType DEF StoragePut, StorageDel, Executing, Running
  <2>2. CurOp.key \in Keys
    BY <2>1, OpFields
  <2>3. \A v : Enforce(CurOp.key, "ReadWrite")
                /\ Advance /\ overlay' = [overlay EXCEPT ![CurOp.key] = v]
                  => SameRollbacks /\ WritableOnly(overlay')
    BY <2>1, <2>2, AdvanceRollbacks, EnforceWritable, BufferWritable
       DEF FootprintInv
  <2>. QED
    BY <1>3, <2>3, ChargeThenFootprint
       DEF StoragePut, StorageDel, Raise, FootprintInv
<1>4. CASE ContractFail
  BY <1>4 DEF ContractFail, Raise, FootprintInv
<1>5. CASE Call
  <2>1. stack # << >> /\ CurOp \in Op /\ CurOp.op = "call"
    BY <1>5, CurOpType DEF Call, Executing, Running
  <2>2. NewFrame(CurOp.callee, CurOp.try) \in Frame
    BY <2>1, OpFields DEF TypeOK, NewFrame, Frame, Phases
  <2>3. /\ Len(stack') = Len(stack) + 1
        /\ \A i \in 1 .. Len(stack) : stack'[i] = stack[i]
        /\ stack'[Len(stack) + 1].rollback = overlay
    BY <1>5, <2>2, PushRollbacks DEF Call, NewFrame
  <2>4. Len(stack) \in Nat
    BY LenProperties DEF TypeOK
  <2>. QED
    BY <1>5, <2>3, <2>4 DEF Call, FootprintInv
<1>6. CASE Return
  <2>1. Len(stack) \in Nat \ {0}
    BY <1>6, TopType DEF Return, Running
  <2>2. CASE Len(stack) = 1
    <3>1. stack' = << >> /\ ledger' = Committed /\ UNCHANGED overlay
      BY <1>6, <2>2 DEF Return
    <3>2. \A k \in Keys : Committed[k] # Snapshot[k] => Writable(k)
      BY DEF Committed, FootprintInv, WritableOnly
    <3>. QED
      BY <3>1, <3>2, EmptySeq DEF FootprintInv, WritableOnly
  <2>3. CASE Len(stack) # 1
    <3>1. Len(stack) > 1
      BY <2>1, <2>3, AboveOne
    <3>2. /\ stack' = LET s == Pop(stack) IN [s EXCEPT ![Len(s)].pc = @ + 1]
          /\ UNCHANGED <<overlay, ledger>>
      BY <1>6, <2>3, Zenon DEF Return
    <3>3. /\ Len(stack') = Len(stack) - 1
          /\ \A i \in 1 .. Len(stack) - 1 : stack'[i].rollback = stack[i].rollback
      BY <3>1, <3>2, PopRollbacks DEF TypeOK
    <3>4. \A i \in 1 .. Len(stack) - 1 : i \in 1 .. Len(stack)
      BY <3>1
    <3>. QED
      BY <3>2, <3>3, <3>4 DEF FootprintInv
  <2>. QED
    BY <2>2, <2>3
<1>7. CASE UnwindTop \/ UnwindCaught \/ UnwindPropagate
  <2>1. Len(stack) \in Nat \ {0} /\ Len(stack) \in 1 .. Len(stack)
    BY <1>7, TopType DEF UnwindTop, UnwindCaught, UnwindPropagate, Unwinding
  <2>2. WritableOnly(overlay')
    BY <1>7, <2>1 DEF UnwindTop, UnwindCaught, UnwindPropagate, Rollback, Top,
                      FootprintInv
  <2>3. CASE UnwindTop
    BY <2>2, <2>3, EmptySeq DEF UnwindTop, FootprintInv
  <2>4. CASE UnwindCaught \/ UnwindPropagate
    <3>1. Len(stack) > 1
      BY <2>4 DEF UnwindCaught, UnwindPropagate
    <3>2. /\ Len(stack') = Len(stack) - 1
          /\ \A i \in 1 .. Len(stack) - 1 : stack'[i].rollback = stack[i].rollback
      BY <2>4, <3>1, PopRollbacks DEF UnwindCaught, UnwindPropagate, TypeOK
    <3>3. \A i \in 1 .. Len(stack) - 1 : i \in 1 .. Len(stack)
      BY <3>1
    <3>. QED
      BY <2>2, <2>4, <3>2, <3>3 DEF UnwindCaught, UnwindPropagate, FootprintInv
  <2>. QED
    BY <1>7, <2>3, <2>4
<1>8. CASE Done \/ UNCHANGED vars
  BY <1>8 DEF Done, vars, hostVars, FootprintInv
<1>. QED
  BY <1>1, <1>2, <1>3, <1>4, <1>5, <1>6, <1>7, <1>8 DEF Next

\* Spec 4.4: whatever the nesting of call and try_call and whichever
\* frames unwind, every buffered write or tombstone, and so every change
\* committed to the ledger, is to a key the footprint declares ReadWrite.
THEOREM FootprintSafe == Spec => []WritesWithinFootprint
<1>1. Init => FootprintInv
  <2>. SUFFICES ASSUME Init PROVE FootprintInv
    OBVIOUS
  <2>1. \A i \in 1 .. Len(stack) : stack[i].rollback = NoWrites
    BY DEF Init, NewFrame
  <2>. QED
    BY <2>1 DEF Init, FootprintInv, WritableOnly, NoWrites
<1>2. TypeOK /\ FootprintInv /\ [Next]_vars => FootprintInv'
  BY FootprintInvStep
<1>3. FootprintInv => WritesWithinFootprint
  BY DEF FootprintInv, WritableOnly, Writable, WritesWithinFootprint
<1>. QED
  BY <1>1, <1>2, <1>3, TypeCorrect, PTL DEF Spec
----------------------------------------------------------------------------
(* An aborted execution leaves no trace.                                   *)

\* The strengthening: the ledger moves only at the final commit, and the
\* bottom frame (the top-level call) entered with no writes buffered, so
\* unwinding it restores the empty overlay.
AbortInv ==
  /\ status = "Running" => ledger = Snapshot
  /\ stack # << >> => stack[1].rollback = NoWrites
  /\ status \in Errors => ledger = Snapshot /\ overlay = NoWrites

\* A charged step of a running frame whose effect keeps the frames.
LEMMA ChargeThenAbort ==
  ASSUME AbortInv, status = "Running", stack # << >>,
         NEW t, NEW n, NEW ACTION E, ChargeThen(t, n, E), E => SameRollbacks
  PROVE  AbortInv'
<1>1. Len(stack) >= 1
  BY EmptySeq DEF AbortInv
<1>. QED
  BY <1>1 DEF ChargeThen, ChargeRejected, budgetVars, AbortInv, SameRollbacks,
              Errors, Fatal, Recoverable

LEMMA AbortInvStep ==
  ASSUME TypeOK, AbortInv, [Next]_vars
  PROVE  AbortInv'
<1>0. "Running" \notin Errors /\ "Ok" \notin Errors
  BY DEF Errors, Fatal, Recoverable
<1>1. CASE FetchCode \/ Parse \/ Instantiate
  <2>1. stack # << >> /\ status = "Running"
    BY <1>1 DEF FetchCode, Parse, Instantiate, Running
  <2>2. \A ph \in Phases :
          SetTop([Top EXCEPT !.phase = ph]) /\ UNCHANGED overlay => SameRollbacks
    BY <2>1, PhaseRollbacks
  <2>. QED
    BY <1>0, <1>1, <2>1, <2>2, ChargeThenAbort
       DEF FetchCode, Parse, Instantiate, Raise, AbortInv, Phases
<1>2. CASE ExecInsn \/ StorageGet \/ StorageHas \/ StoragePut \/ StorageDel
  <2>1. stack # << >> /\ status = "Running"
    BY <1>2 DEF ExecInsn, StorageGet, StorageHas, StoragePut, StorageDel,
                Executing, Running
  <2>2. Advance => SameRollbacks
    BY <2>1, AdvanceRollbacks
  <2>. QED
    BY <1>0, <1>2, <2>1, <2>2, ChargeThenAbort
       DEF ExecInsn, StorageGet, StorageHas, StoragePut, StorageDel, Raise,
           AbortInv
<1>3. CASE ContractFail
  BY <1>3 DEF ContractFail, Raise, AbortInv
<1>4. CASE Call
  <2>1. stack # << >> /\ CurOp \in Op /\ CurOp.op = "call"
    BY <1>4, CurOpType DEF Call, Executing, Running
  <2>2. NewFrame(CurOp.callee, CurOp.try) \in Frame
    BY <2>1, OpFields DEF TypeOK, NewFrame, Frame, Phases
  <2>3. stack'[1] = stack[1] /\ stack' # << >>
    <3>1. 1 \in 1 .. Len(stack)
      BY <2>1, EmptySeq DEF TypeOK
    <3>. QED
      BY <1>4, <2>2, <3>1, PushRollbacks, AppendProperties DEF Call, TypeOK
  <2>4. status = "Running"
    BY <1>4 DEF Call, Executing, Running
  <2>5. UNCHANGED <<overlay, status, ledger>>
    BY <1>4 DEF Call
  <2>6. stack'[1].rollback = NoWrites
    BY <2>1, <2>3 DEF AbortInv
  <2>. QED
    BY <1>0, <2>4, <2>5, <2>6 DEF AbortInv
<1>5. CASE Return
  <2>1. Len(stack) \in Nat \ {0} /\ status = "Running"
    BY <1>5, TopType DEF Return, Running
  <2>2. CASE Len(stack) = 1
    <3>1. stack' = << >> /\ status' = "Ok"
      BY <1>5, <2>2 DEF Return
    <3>. QED
      BY <1>0, <3>1 DEF AbortInv
  <2>3. CASE Len(stack) # 1
    <3>1. Len(stack) > 1
      BY <2>1, <2>3, AboveOne
    <3>2. /\ stack' = LET s == Pop(stack) IN [s EXCEPT ![Len(s)].pc = @ + 1]
          /\ UNCHANGED <<overlay, status, ledger>>
      BY <1>5, <2>3, Zenon DEF Return
    <3>3. /\ Len(stack') = Len(stack) - 1
          /\ \A i \in 1 .. Len(stack) - 1 : stack'[i].rollback = stack[i].rollback
      BY <3>1, <3>2, PopRollbacks DEF TypeOK
    <3>. QED
      BY <2>1, <3>1, <3>2, <3>3 DEF AbortInv
  <2>. QED
    BY <2>2, <2>3
<1>6. CASE UnwindTop
  <2>1. Len(stack) = 1 /\ status = "Running" /\ err \in Errors
    BY <1>6 DEF UnwindTop, Unwinding, TypeOK
  <2>2. overlay' = NoWrites
    BY <1>6, <2>1 DEF UnwindTop, Unwinding, Rollback, Top, AbortInv
  <2>. QED
    BY <1>6, <2>1, <2>2 DEF UnwindTop, AbortInv
<1>7. CASE UnwindCaught \/ UnwindPropagate
  <2>1. Len(stack) > 1 /\ status = "Running"
    BY <1>7 DEF UnwindCaught, UnwindPropagate, Unwinding
  <2>2. /\ Len(stack') = Len(stack) - 1
        /\ \A i \in 1 .. Len(stack) - 1 : stack'[i].rollback = stack[i].rollback
    BY <1>7, <2>1, PopRollbacks DEF UnwindCaught, UnwindPropagate, TypeOK
  <2>. QED
    BY <1>0, <1>7, <2>1, <2>2 DEF UnwindCaught, UnwindPropagate, AbortInv
<1>8. CASE Done \/ UNCHANGED vars
  BY <1>8 DEF Done, vars, hostVars, AbortInv
<1>. QED
  BY <1>1, <1>2, <1>3, <1>4, <1>5, <1>6, <1>7, <1>8 DEF Next

----------------------------------------------------------------------------
(* Refinement of the atomic invocation.                                    *)

\* A step that leaves the ledger and the status alone is a stutter of the
\* atomic invocation.
LEMMA StutterStep ==
  ASSUME UNCHANGED <<ledger, status>>
  PROVE  [Atomic!Next]_Atomic!vars
BY DEF Atomic!vars

\* The commit of the top-level return is the atomic commit: the overlay
\* applied to the snapshot changes writable keys only.
LEMMA CommitStep ==
  ASSUME TypeOK, FootprintInv, AbortInv, status = "Running",
         status' = "Ok", ledger' = Committed
  PROVE  Atomic!Commit
<1>1. ledger = Snapshot
  BY DEF AbortInv
<1>2. Committed \in [Keys -> Vals \cup {NoEntry}]
  BY CommittedType
<1>3. ASSUME NEW k \in Keys, Committed[k] # Snapshot[k]
      PROVE  k \in WritableKeys
  <2>1. overlay[k] # Untouched
    BY <1>1, <1>3 DEF Committed
  <2>2. Writable(k)
    BY <2>1 DEF FootprintInv, WritableOnly
  <2>. QED
    BY <2>2 DEF Writable, WritableKeys
<1>. QED
  BY <1>2, <1>3 DEF Atomic!Commit, Atomic!Reachable

\* Every host step is a step or a stutter of the atomic invocation.
LEMMA RefinementStep ==
  ASSUME TypeOK, FootprintInv, AbortInv, [Next]_vars
  PROVE  [Atomic!Next]_Atomic!vars
<1>1. CASE FetchCode \/ Parse \/ Instantiate \/ ExecInsn \/ StorageGet
           \/ StorageHas \/ StoragePut \/ StorageDel
  <2>1. UNCHANGED <<ledger, status>>
    BY <1>1 DEF FetchCode, Parse, Instantiate, ExecInsn, StorageGet,
                StorageHas, StoragePut, StorageDel, ChargeThen, Raise
  <2>. QED
    BY <2>1, StutterStep
<1>2. CASE Call \/ ContractFail \/ UnwindCaught \/ UnwindPropagate \/ Done
           \/ UNCHANGED vars
  <2>1. UNCHANGED <<ledger, status>>
    BY <1>2 DEF Call, ContractFail, Raise, UnwindCaught, UnwindPropagate,
                Done, vars, hostVars
  <2>. QED
    BY <2>1, StutterStep
<1>3. CASE Return
  <2>1. status = "Running"
    BY <1>3 DEF Return, Running
  <2>2. CASE Len(stack) = 1
    <3>1. status' = "Ok" /\ ledger' = Committed
      BY <1>3, <2>2 DEF Return
    <3>. QED
      BY <2>1, <3>1, CommitStep DEF Atomic!Next
  <2>3. CASE Len(stack) # 1
    <3>1. UNCHANGED <<ledger, status>>
      BY <1>3, <2>3, Zenon DEF Return
    <3>. QED
      BY <3>1, StutterStep
  <2>. QED
    BY <2>2, <2>3
<1>4. CASE UnwindTop
  <2>1. status = "Running" /\ err \in Errors /\ status' = err
        /\ UNCHANGED ledger
    BY <1>4 DEF UnwindTop, Unwinding, TypeOK
  <2>2. Atomic!Abort(err)
    BY <2>1 DEF Atomic!Abort
  <2>. QED
    BY <2>1, <2>2 DEF Atomic!Next
<1>. QED
  BY <1>1, <1>2, <1>3, <1>4 DEF Next

\* Host refines the atomic invocation of spec 6 and 7 under the identity
\* mapping of ledger and status: however frames nest, fail and are caught,
\* the ledger moves once, at the top-level Ok, and only on writable keys;
\* an error ends the execution with the ledger untouched.
THEOREM Refinement == Spec => ImplementsAtomic
<1>1. Init => Atomic!Init
  BY DEF Init, Atomic!Init
<1>2. Init => FootprintInv /\ AbortInv
  <2>. SUFFICES ASSUME Init PROVE FootprintInv /\ AbortInv
    OBVIOUS
  <2>1. \A i \in 1 .. Len(stack) : stack[i].rollback = NoWrites
    BY DEF Init, NewFrame
  <2>2. FootprintInv
    BY <2>1 DEF Init, FootprintInv, WritableOnly, NoWrites
  <2>3. AbortInv
    BY DEF Init, AbortInv, NewFrame
  <2>. QED
    BY <2>2, <2>3
<1>3. TypeOK /\ FootprintInv /\ AbortInv /\ [Next]_vars
        => (FootprintInv /\ AbortInv)'
  BY FootprintInvStep, AbortInvStep
<1>4. Spec => [](TypeOK /\ FootprintInv /\ AbortInv)
  BY <1>2, <1>3, TypeCorrect, PTL DEF Spec
<1>5. TypeOK /\ FootprintInv /\ AbortInv /\ [Next]_vars
        => [Atomic!Next]_Atomic!vars
  BY RefinementStep
<1>. QED
  BY <1>1, <1>4, <1>5, PTL DEF Spec, ImplementsAtomic, Atomic!Spec
====
