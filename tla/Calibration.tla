---------------------------- MODULE Calibration ----------------------------
(***************************************************************************)
(* Offline calibration of the per-instruction cost (spec 4.2, 6).          *)
(*                                                                         *)
(* For each instruction runner the bench builds a module whose function    *)
(* repeats the runner's instruction pattern `insns = step * 1000 / scale`  *)
(* times, then pushes one "pass" symbol; run_iter invokes it, and the      *)
(* baseline run (step 0) is subtracted.  Every observation is filed under  *)
(* the runner's COST_TYPE, and a CostType's model is fitted from the       *)
(* observations filed under it: two points, coefficients rounded up.       *)
(*                                                                         *)
(* The machine's true cost of one executed instruction of a class is a     *)
(* constant; the measured cost of a run is what the machine spends.  The   *)
(* run itself is metered by the bench host's Budget: when that budget is   *)
(* exhausted the invocation returns an error, which run_iter discards      *)
(* (`unwrap_or_default`), and what the run spent so far is the sample.     *)
(***************************************************************************)
EXTENDS Naturals, Sequences, FiniteSets, TLC

CONSTANTS
  Runners,        \* the instruction types the instance calibrates
  Steps,          \* the step inputs the bench measures each runner at
  TrueCost,       \* instruction class -> cpu one execution really costs
  BenchInsnLimit, \* instructions the bench host's budget admits per run
  NoModel         \* model value: no CostModel fitted yet

----------------------------------------------------------------------------
(* The instruction types, their runners and the bench's measurements.      *)

\* WasmInsnType: the instruction types named for calibration.
WasmInsnType ==
  {"LocalGet", "LocalSet", "LocalTee", "Br", "BrIfEqz", "BrIfNez",
   "ReturnIfNez", "BrTable", "Unreachable", "Return", "CallLocal",
   "CallImport", "CallIndirect", "Drop", "Select", "GlobalGet", "GlobalSet",
   "I64Load", "I64Load8S", "I64Load16S", "I64Load32S", "I64Store",
   "I64Store8", "I64Store16", "I64Store32", "MemorySize", "MemoryGrow",
   "Const", "I64Eqz", "I64Eq", "I64Ne", "I64LtS", "I64GtS", "I64LeS",
   "I64GeS", "I64Clz", "I64Ctz", "I64Popcnt", "I64Add", "I64Sub", "I64Mul",
   "I64DivS", "I64RemS", "I64And", "I64Or", "I64Xor", "I64Shl", "I64ShrS",
   "I64Rotl", "I64Rotr"}

\* WasmInsnType::variants(): the hand-written list the calibration iterates.
Variants ==
  <<"LocalGet", "LocalSet", "LocalTee", "Br", "BrIfEqz", "BrIfNez",
    "ReturnIfNez", "BrTable", "Unreachable", "Return", "CallLocal",
    "CallImport", "CallIndirect", "Drop", "Select", "GlobalGet", "GlobalSet",
    "I64Load", "I64Load8S", "I64Load16S", "I64Load32S", "I64Store",
    "I64Store8", "I64Store16", "I64Store32", "MemorySize", "MemoryGrow",
    "Const", "I64Eqz", "I64Eq", "I64Ne", "I64LtS", "I64GtS", "I64LeS",
    "I64GeS", "I64Clz", "I64Ctz", "I64Popcnt", "I64Add", "I64Sub", "I64Mul",
    "I64DivS", "I64RemS", "I64And", "I64Or", "I64Xor", "I64Shl", "I64ShrS",
    "I64Rotl", "I64Rotr">>

\* The impl_wasm_insn_runner! instances: the types that have a CostRunner
\* (`<Type>Run` with INSN_TYPE = <Type>).
RunnerTypes ==
  {"Const", "Drop", "Select", "Br", "BrTable", "LocalGet", "LocalSet",
   "LocalTee", "CallLocal", "CallImport", "CallIndirect", "GlobalGet",
   "GlobalSet", "I64Store", "I64Load", "I64Load8S", "I64Load16S",
   "I64Load32S", "I64Store8", "I64Store16", "I64Store32", "MemorySize",
   "MemoryGrow", "I64Clz", "I64Ctz", "I64Popcnt", "I64Eqz", "I64Eq", "I64Ne",
   "I64LtS", "I64GtS", "I64LeS", "I64GeS", "I64Add", "I64Sub", "I64Mul",
   "I64DivS", "I64RemS", "I64And", "I64Or", "I64Xor", "I64Shl", "I64ShrS",
   "I64Rotl", "I64Rotr"}

(* The bench's wasm generators: the instructions one loop iteration        *)
(* executes, per runner the bench measures (`<Name>Run` of an              *)
(* impl_wasm_insn_measure! instance; the bench's "Call" names CallRun).    *)
StoreLoop(op) == <<"Const", "Const", op>>
LoadLoop(op) == <<"Const", op, "Drop">>
UnaryLoop(op) == <<"Const", op, "Drop">>
BinaryLoop(op) == <<"Const", "Const", op, "Drop">>

Pattern ==
  [r \in {"Select", "Br", "Const", "LocalGet", "LocalSet", "LocalTee", "Call",
          "CallIndirect", "GlobalGet", "GlobalSet", "MemorySize",
          "MemoryGrow"} |->
     CASE r = "Select"       -> <<"Const", "Const", "Const", "Select", "Drop">>
       [] r = "Br"           -> <<"Block", "Br", "End">>
       [] r = "Const"        -> <<"Const", "Drop">>
       [] r = "LocalGet"     -> <<"LocalGet", "Drop">>
       [] r = "LocalSet"     -> <<"Const", "LocalSet">>
       [] r = "LocalTee"     -> <<"Const", "LocalTee", "Drop">>
       [] r = "Call"         -> <<"Call", "Const", "End", "Drop">>
       [] r = "CallIndirect" -> <<"Const", "CallIndirect", "Drop">>
       [] r = "GlobalGet"    -> <<"GlobalGet", "Drop">>
       [] r = "GlobalSet"    -> <<"Const", "GlobalSet">>
       [] r = "MemorySize"   -> <<"MemorySize", "Drop">>
       [] r = "MemoryGrow"   -> <<"Const", "MemoryGrow", "Drop">>]
  @@ [r \in {"I64Store", "I64Store8", "I64Store16", "I64Store32"} |->
        StoreLoop(r)]
  @@ [r \in {"I64Load", "I64Load8S", "I64Load16S", "I64Load32S"} |->
        LoadLoop(r)]
  @@ [r \in {"I64Clz", "I64Ctz", "I64Popcnt", "I64Eqz"} |-> UnaryLoop(r)]
  @@ [r \in {"I64Eq", "I64Ne", "I64LtS", "I64GtS", "I64LeS", "I64GeS",
             "I64Add", "I64Sub", "I64Mul", "I64DivS", "I64RemS", "I64And",
             "I64Or", "I64Xor", "I64Shl", "I64ShrS", "I64Rotl", "I64Rotr"} |->
        BinaryLoop(r)]

\* A runner can be measured only if the bench measures it and the runner
\* it names exists.
Measurable == DOMAIN Pattern \cap RunnerTypes

\* The scale factor of impl_wasm_insn_measure (only memory_grow has one).
Scale(r) == IF r = "MemoryGrow" THEN 1000 ELSE 1

InsnClasses == UNION {{Pattern[r][i] : i \in 1 .. Len(Pattern[r])} :
                        r \in DOMAIN Pattern}

\* The instances must satisfy (each MC configuration does):
\*   /\ Runners \subseteq WasmInsnType
\*   /\ Steps \subseteq Nat \ {0}
\*   /\ TrueCost \in [InsnClasses -> Nat]
\*   /\ BenchInsnLimit \in Nat

----------------------------------------------------------------------------
\* The runner macro files every instruction runner under one cost type.
CostTypeOf(r) == "WasmInsnExec"

CostTypes == {CostTypeOf(r) : r \in Runners}

\* new_random_case: the number of loop iterations for a step.
InsnsOf(r, step) == (step * 1000) \div Scale(r)

\* What the first k instructions of one iteration cost (k <= its length).
LoopCost(r, k) ==
  LET c[i \in 0 .. k] == IF i = 0 THEN 0 ELSE c[i - 1] + TrueCost[Pattern[r][i]]
  IN c[k]

\* What one iteration of the runner's loop costs the machine.
IterationCost(r) == LoopCost(r, Len(Pattern[r]))

\* What the first e loop instructions cost: whole iterations, then a prefix.
PrefixCost(r, e) ==
  (e \div Len(Pattern[r])) * IterationCost(r)
    + LoopCost(r, e % Len(Pattern[r]))

\* Loop instructions run_iter executes before the bench host's budget
\* stops the invocation (the baseline run executes none).
Executed(r, step) ==
  LET all == InsnsOf(r, step) * Len(Pattern[r]) IN
  IF all <= BenchInsnLimit THEN all ELSE BenchInsnLimit

\* run_iter minus run_baseline_iter: the cost of the loop instructions that
\* ran (the invocation overhead and the trailing "pass" push cancel out);
\* an invocation error is discarded by unwrap_or_default.
Marginal(r, step) == PrefixCost(r, Executed(r, step))

CeilDiv(a, b) == (a + b - 1) \div b

VARIABLES
  samples,   \* cost type -> set of [runner, input, cpu] observations
  model      \* cost type -> fitted [const, lin], or NoModel

vars == <<samples, model>>

Init ==
  /\ samples = [t \in CostTypes |-> {}]
  /\ model = [t \in CostTypes |-> NoModel]

\* Measuring runner r at one step and filing it under the runner's type:
\* new_random_case records `insns`, run_iter the cost.
Measure(r, step) ==
  LET t == CostTypeOf(r)
      s == [runner |-> r, input |-> InsnsOf(r, step),
            cpu |-> Marginal(r, step)]
  IN /\ r \in Measurable
     /\ s \notin samples[t]
     /\ samples' = [samples EXCEPT ![t] = @ \cup {s}]
     /\ UNCHANGED model

\* The bench has run every measurement it has for cost type t.
MeasuredAll(t) ==
  \A r \in Runners \cap Measurable, step \in Steps :
    CostTypeOf(r) = t =>
      \E s \in samples[t] : s.runner = r /\ s.input = InsnsOf(r, step)

\* The regression step, once the bench is done: a two-point fit of cost
\* type t from two of its observations, rounding the slope up and clamping
\* the intercept at zero.
Fit(t) ==
  /\ MeasuredAll(t)
  /\ \E s1, s2 \in samples[t] :
       /\ s1.input < s2.input
       /\ LET lin == CeilDiv(s2.cpu - s1.cpu, s2.input - s1.input)
              const == IF s1.cpu > lin * s1.input THEN s1.cpu - lin * s1.input
                       ELSE 0
          IN model' = [model EXCEPT ![t] = [const |-> const, lin |-> lin]]
  /\ UNCHANGED samples

Next ==
  \/ \E r \in Runners, step \in Steps : Measure(r, step)
  \/ \E t \in CostTypes : Fit(t)

Spec == Init /\ [][Next]_vars

----------------------------------------------------------------------------
\* No-undercharge (spec 8, and 4.5: instruction classes differ by an order
\* of magnitude): every observation filed under a cost type whose model is
\* fitted costs no more than that model charges for its input.
NoUndercharge ==
  \A t \in CostTypes :
    model[t] # NoModel =>
      \A s \in samples[t] : s.cpu <= model[t].const + model[t].lin * s.input

\* Every instruction type that WasmInsnType::variants() lists for
\* calibration (and the instance calibrates) has been measured before the
\* model of its cost type is fitted: no listed type is left out.
EveryVariantCalibrated ==
  \A t \in CostTypes :
    model[t] # NoModel =>
      \A i \in 1 .. Len(Variants) :
        Variants[i] \in Runners =>
          \E s \in samples[t] : s.runner = Variants[i]

\* Every sample is what its input says (spec 6: an observation is the
\* input size and the cost measured at it): the run executed the whole
\* loop of `input` iterations.
SamplesAreFullRuns ==
  \A t \in CostTypes : \A s \in samples[t] :
    s.cpu = s.input * IterationCost(s.runner)
====
