-------------------------- MODULE MeteredVecProofs --------------------------
(***************************************************************************)
(* Proofs about MeteredVec for every value of its constants: any number    *)
(* of host objects, any vector length, any cost model and limits.          *)
(*                                                                         *)
(* Each host function either fails (nothing built), reads (nothing built)  *)
(* or produces one new object at the end of the object table.  The lemmas  *)
(* FailStep, ReadStep and ProduceStep say what each of those three shapes  *)
(* does to the state; every property below follows from them.              *)
(***************************************************************************)
EXTENDS MeteredVec, SequenceTheorems, TLAPS

\* Every object that exists before a step is still there, unchanged.
Kept == \A h \in Handles : h \in 1 .. Len(objs') /\ objs'[h] = objs[h]

\* A step that starts within the limits ends within them.
BudgetKept == BudgetWithinLimits => BudgetWithinLimits'

\* The object a step allocated.
NewObj == objs'[Len(objs')]

\* A step that allocates an object has charged the cpu cost of VecNew or
\* VecEntry on some size n; the object is empty, or was charged as VecEntry
\* on a size at most one below its length.
Paid ==
  Len(objs') > Len(objs) =>
    \E t \in {"VecNew", "VecEntry"}, n \in Nat :
       /\ cpuConsumed' = cpuConsumed + CpuCost(t, n)
       /\ Len(NewObj) = 0 \/ (t = "VecEntry" /\ Len(NewObj) <= n + 1)

LastRec == [op : VecOps \cup {"none"}, src : Nat, idx : Nat \cup {NotU32},
            res : Elems \cup Nat, err : VecErrors \cup {"none"}]

----------------------------------------------------------------------------
(* Lemmas about the data.                                                  *)

\* A cost evaluated on a natural input is a natural.
LEMMA CostNat ==
  ASSUME NEW t \in CostTypes, NEW n \in Nat
  PROVE  CpuCost(t, n) \in Nat /\ MemCost(t, n) \in Nat
<1>1. /\ CpuModel[t].const \in Nat /\ CpuModel[t].lin \in Nat
      /\ MemModel[t].const \in Nat /\ MemModel[t].lin \in Nat
  BY CostModelAssumption DEF CostModelType
<1>. QED
  BY <1>1 DEF CpuCost, MemCost

\* A successful charge keeps the Budget counters natural.
LEMMA ChargeType ==
  ASSUME BudgetTypeOK, NEW t \in CostTypes, NEW n \in Nat, Charge(t, n)
  PROVE  BudgetTypeOK'
BY CostNat DEF Charge, BudgetTypeOK

\* A sub-range of a vector of elements is a vector of elements, of the
\* range's length.
LEMMA SubSeqType ==
  ASSUME NEW v \in Seq(Elems), NEW m \in Nat \ {0}, NEW n \in 0 .. Len(v)
  PROVE  /\ SubSeq(v, m, n) \in Seq(Elems)
         /\ Len(SubSeq(v, m, n)) = IF m <= n THEN n - m + 1 ELSE 0
<1>1. \A i \in m .. n : v[i] \in Elems
  BY ElementOfSeq
<1>. QED
  BY <1>1, SubSeqProperties

\* Removing an element keeps a vector of elements, one shorter.
LEMMA RemoveAtType ==
  ASSUME NEW v \in Seq(Elems), NEW i \in 0 .. Len(v) - 1
  PROVE  RemoveAt(v, i) \in Seq(Elems) /\ Len(RemoveAt(v, i)) = Len(v) - 1
<1>1. /\ SubSeq(v, 1, i) \in Seq(Elems)
      /\ Len(SubSeq(v, 1, i)) = i
      /\ SubSeq(v, i + 2, Len(v)) \in Seq(Elems)
      /\ Len(SubSeq(v, i + 2, Len(v))) = Len(v) - i - 1
  BY SubSeqType, LenProperties
<1>2. /\ SubSeq(v, 1, i) \o SubSeq(v, i + 2, Len(v)) \in Seq(Elems)
      /\ Len(SubSeq(v, 1, i) \o SubSeq(v, i + 2, Len(v)))
           = Len(SubSeq(v, 1, i)) + Len(SubSeq(v, i + 2, Len(v)))
  BY <1>1, ConcatProperties
<1>3. Len(v) \in Nat /\ i \in Nat /\ i + (Len(v) - i - 1) = Len(v) - 1
  BY LenProperties
<1>4. Len(SubSeq(v, 1, i) \o SubSeq(v, i + 2, Len(v))) = Len(v) - 1
  BY <1>1, <1>2, <1>3
<1>. QED
  BY <1>2, <1>4, Zenon DEF RemoveAt

\* Inserting an element keeps a vector of elements, one longer.
LEMMA InsertAtType ==
  ASSUME NEW v \in Seq(Elems), NEW i \in 0 .. Len(v), NEW x \in Elems
  PROVE  InsertAt(v, i, x) \in Seq(Elems) /\ Len(InsertAt(v, i, x)) = Len(v) + 1
<1>1. /\ SubSeq(v, 1, i) \in Seq(Elems)
      /\ Len(SubSeq(v, 1, i)) = i
      /\ SubSeq(v, i + 1, Len(v)) \in Seq(Elems)
      /\ Len(SubSeq(v, i + 1, Len(v))) = Len(v) - i
      /\ << x >> \in Seq(Elems) /\ Len(<< x >>) = 1
  BY SubSeqType, LenProperties
<1>2. SubSeq(v, 1, i) \o << x >> \in Seq(Elems)
      /\ Len(SubSeq(v, 1, i) \o << x >>) = i + 1
  BY <1>1, ConcatProperties
<1>3. /\ (SubSeq(v, 1, i) \o << x >>) \o SubSeq(v, i + 1, Len(v)) \in Seq(Elems)
      /\ Len((SubSeq(v, 1, i) \o << x >>) \o SubSeq(v, i + 1, Len(v)))
           = Len(SubSeq(v, 1, i) \o << x >>) + Len(SubSeq(v, i + 1, Len(v)))
  BY <1>1, <1>2, ConcatProperties
<1>4. Len(v) \in Nat /\ i \in Nat /\ (i + 1) + (Len(v) - i) = Len(v) + 1
  BY LenProperties
<1>5. Len((SubSeq(v, 1, i) \o << x >>) \o SubSeq(v, i + 1, Len(v))) = Len(v) + 1
  BY <1>1, <1>2, <1>3, <1>4
<1>. QED
  BY <1>3, <1>5, Zenon DEF InsertAt

\* The facts about the constants the action lemmas use.
LEMMA ConstFacts ==
  /\ Indices \subseteq Nat \cup {NotU32}
  /\ NotU32 \notin Nat
  /\ {"VecNew", "VecEntry"} \subseteq CostTypes
  /\ {"VecIndexOutOfBound", "InputArgsWrongType", "InputArgsInvalid"}
       \subseteq VecErrors
BY MeteredVecAssumption DEF VecErrors

\* Every handle names a vector of elements.
LEMMA ObjType ==
  ASSUME VecTypeOK, NEW h \in Handles
  PROVE  objs[h] \in Seq(Elems) /\ Len(objs[h]) \in Nat
BY ElementOfSeq, LenProperties DEF VecTypeOK, Handles

----------------------------------------------------------------------------
(* The three shapes of a host function.                                    *)

LEMMA FailStep ==
  ASSUME VecTypeOK, NEW op \in VecOps, NEW src \in Nat,
         NEW idx \in Nat \cup {NotU32}, NEW e \in VecErrors,
         Fail(op, src, idx, e)
  PROVE  VecTypeOK' /\ objs' = objs /\ last'.err # "none" /\ UNCHANGED budgetVars
BY DEF Fail, VecTypeOK, BudgetTypeOK, budgetVars, VecErrors

LEMMA ReadStep ==
  ASSUME VecTypeOK, NEW op \in VecOps, NEW src \in Nat,
         NEW idx \in Nat \cup {NotU32}, NEW n \in Nat, NEW x \in Elems \cup Nat,
         Read(op, src, idx, n, x)
  PROVE  VecTypeOK' /\ objs' = objs /\ BudgetKept
<1>1. "VecEntry" \in CostTypes /\ "BudgetExceeded" \in VecErrors
  BY MeteredVecAssumption DEF VecErrors
<1>2. CASE Charge("VecEntry", n)
       /\ last' = [op |-> op, src |-> src, idx |-> idx, res |-> x, err |-> "none"]
       /\ UNCHANGED objs
  <2>1. BudgetKept
    BY <1>2 DEF Charge, CanCharge, BudgetKept, BudgetWithinLimits
  <2>. QED
    BY <1>1, <1>2, <2>1, ChargeType DEF VecTypeOK
<1>3. CASE ChargeRejected("VecEntry", n) /\ Fail(op, src, idx, "BudgetExceeded")
  BY <1>1, <1>3, FailStep DEF BudgetKept, budgetVars, BudgetWithinLimits
<1>. QED
  BY <1>2, <1>3 DEF Read

LEMMA ProduceStep ==
  ASSUME VecTypeOK, NEW op \in VecOps \ {"front", "back", "get"},
         NEW src \in Nat,
         NEW idx \in Nat \cup {NotU32}, NEW t \in {"VecNew", "VecEntry"},
         NEW n \in Nat, NEW v \in Seq(Elems),
         Len(v) = 0 \/ (t = "VecEntry" /\ Len(v) <= n + 1),
         Produce(op, src, idx, t, n, v)
  PROVE  VecTypeOK' /\ Kept /\ BudgetKept /\ Paid
<1>1. "BudgetExceeded" \in VecErrors /\ t \in CostTypes
  BY ConstFacts DEF VecErrors
<1>2. CASE Charge(t, n) /\ objs' = Append(objs, v)
           /\ last' = [op |-> op, src |-> src, idx |-> idx, res |-> Len(objs) + 1,
                       err |-> "none"]
  <2>1. objs' \in Seq(Seq(Elems)) /\ Len(objs') = Len(objs) + 1
        /\ \A h \in Handles : objs'[h] = objs[h]
        /\ objs'[Len(objs) + 1] = v
    BY <1>2, AppendProperties DEF VecTypeOK, Handles
  <2>2. Len(objs) \in Nat
    BY LenProperties DEF VecTypeOK
  <2>3. Kept
    BY <2>1, <2>2 DEF Kept, Handles
  <2>4. BudgetTypeOK'
    BY <1>1, <1>2, ChargeType DEF VecTypeOK
  <2>6. BudgetKept
    BY <1>2 DEF Charge, CanCharge, BudgetKept, BudgetWithinLimits
  <2>7. Paid
    BY <1>2, <2>1 DEF Charge, Paid, NewObj
  <2>5. last' \in LastRec
    BY <1>2, <2>2 DEF LastRec
  <2>. QED
    BY <1>2, <2>1, <2>3, <2>4, <2>5, <2>6, <2>7 DEF VecTypeOK, LastRec
<1>3. CASE ChargeRejected(t, n) /\ Fail(op, src, idx, "BudgetExceeded")
  BY <1>1, <1>3, FailStep DEF Kept, Handles, BudgetKept, Paid, budgetVars,
                             BudgetWithinLimits
<1>. QED
  BY <1>2, <1>3 DEF Produce

----------------------------------------------------------------------------
(* What each host function guarantees.                                     *)

\* What every step guarantees: the state stays typed, no existing object
\* changes, the budget stays within its limits, and a new object is paid.
StepOK == VecTypeOK' /\ Kept /\ BudgetKept /\ Paid

\* A failed call.
LEMMA FailOK ==
  ASSUME VecTypeOK, NEW op \in VecOps, NEW src \in Nat,
         NEW idx \in Nat \cup {NotU32}, NEW e \in VecErrors,
         Fail(op, src, idx, e)
  PROVE  StepOK
BY FailStep DEF StepOK, Kept, Handles, BudgetKept, Paid, budgetVars,
                BudgetWithinLimits

\* A call that allocates a new object or fails.
LEMMA ProduceOK ==
  ASSUME VecTypeOK, NEW op \in VecOps \ {"front", "back", "get"},
         NEW src \in Nat,
         NEW idx \in Nat \cup {NotU32}, NEW t \in {"VecNew", "VecEntry"},
         NEW n \in Nat, NEW v \in Seq(Elems),
         Len(v) = 0 \/ (t = "VecEntry" /\ Len(v) <= n + 1),
         Produce(op, src, idx, t, n, v)
  PROVE  StepOK
BY ProduceStep DEF StepOK

\* A call that reads without building anything.
LEMMA ReadOK ==
  ASSUME VecTypeOK, NEW op \in VecOps,
         NEW src \in Nat, NEW idx \in Nat \cup {NotU32}, NEW n \in Nat,
         NEW x \in Elems \cup Nat, Read(op, src, idx, n, x)
  PROVE  StepOK
BY ReadStep DEF StepOK, Kept, Handles, Paid

\* The index check of get, put and del: an error, or an index in range.
LEMMA IndexCheck ==
  ASSUME VecTypeOK, NEW h \in Handles, NEW i \in Indices
  PROVE  \/ IndexError(objs[h], i) \in VecErrors
         \/ IndexError(objs[h], i) = "none" /\ i \in 0 .. Len(objs[h]) - 1
BY ConstFacts, ObjType DEF IndexError

----------------------------------------------------------------------------
(* One lemma per host function.                                            *)

LEMMA VecNewOK ==
  ASSUME VecTypeOK, VecNew
  PROVE  StepOK
<1>1. << >> \in Seq(Elems) /\ Len(<< >>) = 0
  BY EmptySeq
<1>2. Produce("new", 0, 0, "VecNew", 0, << >>)
  BY DEF VecNew
<1>3. "new" \in VecOps \ {"front", "back", "get"}
  BY DEF VecOps
<1>4. /\ 0 \in Nat /\ 0 \in Nat \cup {NotU32}
      /\ "VecNew" \in {"VecNew", "VecEntry"}
  OBVIOUS
<1>5. Len(<< >>) = 0 \/ ("VecNew" = "VecEntry" /\ Len(<< >>) <= 0 + 1)
  BY <1>1
<1>. QED
  BY <1>1, <1>2, <1>3, <1>4, <1>5, ProduceOK

LEMMA VecFrontOK ==
  ASSUME VecTypeOK, NEW h \in Handles, VecFront(h)
  PROVE  StepOK
<1>1. objs[h] \in Seq(Elems) /\ h \in Nat /\ Len(objs[h]) \in Nat
  BY ObjType DEF Handles
<1>2. CASE objs[h] = << >>
  BY <1>1, <1>2, ConstFacts, FailOK DEF VecFront, VecOps
<1>3. CASE objs[h] # << >>
  <2>1. Head(objs[h]) \in Elems
    BY <1>1, <1>3, HeadTailProperties
  <2>. QED
    BY <1>1, <1>3, <2>1, ReadOK DEF VecFront, VecOps
<1>. QED
  BY <1>2, <1>3

LEMMA VecBackOK ==
  ASSUME VecTypeOK, NEW h \in Handles, VecBack(h)
  PROVE  StepOK
<1>1. objs[h] \in Seq(Elems) /\ h \in Nat /\ Len(objs[h]) \in Nat
  BY ObjType DEF Handles
<1>2. CASE objs[h] = << >>
  BY <1>1, <1>2, ConstFacts, FailOK DEF VecBack, VecOps
<1>3. CASE objs[h] # << >>
  <2>1. objs[h][Len(objs[h])] \in Elems
    BY <1>1, <1>3, EmptySeq, ElementOfSeq
  <2>. QED
    BY <1>1, <1>3, <2>1, ReadOK DEF VecBack, VecOps
<1>. QED
  BY <1>2, <1>3

LEMMA VecGetOK ==
  ASSUME VecTypeOK, NEW h \in Handles, NEW i \in Indices, VecGet(h, i)
  PROVE  StepOK
<1>1. objs[h] \in Seq(Elems) /\ h \in Nat /\ Len(objs[h]) \in Nat
  BY ObjType DEF Handles
<1>2. CASE IndexError(objs[h], i) \in VecErrors
  BY <1>1, <1>2, ConstFacts, FailOK DEF VecGet, VecOps, VecErrors
<1>3. CASE IndexError(objs[h], i) = "none" /\ i \in 0 .. Len(objs[h]) - 1
  <2>1. objs[h][i + 1] \in Elems /\ i \in Nat
    BY <1>1, <1>3, ElementOfSeq
  <2>. QED
    BY <1>1, <1>3, <2>1, ReadOK DEF VecGet, VecOps
<1>. QED
  BY <1>2, <1>3, IndexCheck

LEMMA VecLenOK ==
  ASSUME VecTypeOK, NEW h \in Handles, VecLen(h)
  PROVE  StepOK
<1>1. h \in Nat /\ Len(objs[h]) \in Nat
  BY ObjType DEF Handles
<1>. QED
  BY <1>1, ConstFacts, ReadOK DEF VecLen, VecOps

LEMMA VecPutOK ==
  ASSUME VecTypeOK, NEW h \in Handles, NEW i \in Indices, NEW x \in Elems,
         VecPut(h, i, x)
  PROVE  StepOK
<1>1. objs[h] \in Seq(Elems) /\ h \in Nat /\ Len(objs[h]) \in Nat
  BY ObjType DEF Handles
<1>2. CASE IndexError(objs[h], i) \in VecErrors
  BY <1>1, <1>2, ConstFacts, FailOK DEF VecPut, VecOps, VecErrors
<1>3. CASE IndexError(objs[h], i) = "none" /\ i \in 0 .. Len(objs[h]) - 1
  <2>1. /\ [objs[h] EXCEPT ![i + 1] = x] \in Seq(Elems)
        /\ Len([objs[h] EXCEPT ![i + 1] = x]) = Len(objs[h])
    BY <1>1, <1>3, ExceptSeq
  <2>2. Produce("put", h, i, "VecEntry", Len(objs[h]),
               [objs[h] EXCEPT ![i + 1] = x])
    BY <1>3 DEF VecPut
  <2>3. Len([objs[h] EXCEPT ![i + 1] = x]) <= Len(objs[h]) + 1
    BY <1>1, <2>1
  <2>. QED
    BY <1>1, <1>3, <2>1, <2>2, <2>3, ConstFacts, ProduceOK DEF VecOps
<1>. QED
  BY <1>2, <1>3, IndexCheck

LEMMA VecDelOK ==
  ASSUME VecTypeOK, NEW h \in Handles, NEW i \in Indices, VecDel(h, i)
  PROVE  StepOK
<1>1. objs[h] \in Seq(Elems) /\ h \in Nat /\ Len(objs[h]) \in Nat
  BY ObjType DEF Handles
<1>2. CASE IndexError(objs[h], i) \in VecErrors
  BY <1>1, <1>2, ConstFacts, FailOK DEF VecDel, VecOps, VecErrors
<1>3. CASE IndexError(objs[h], i) = "none" /\ i \in 0 .. Len(objs[h]) - 1
  <2>1. /\ RemoveAt(objs[h], i) \in Seq(Elems)
        /\ Len(RemoveAt(objs[h], i)) = Len(objs[h]) - 1
    BY <1>1, <1>3, RemoveAtType
  <2>2. Produce("del", h, i, "VecEntry", Len(objs[h]), RemoveAt(objs[h], i))
    BY <1>3 DEF VecDel
  <2>3. Len(RemoveAt(objs[h], i)) <= Len(objs[h]) + 1
    BY <1>1, <2>1
  <2>. QED
    BY <1>1, <1>3, <2>1, <2>2, <2>3, ConstFacts, ProduceOK DEF VecOps
<1>. QED
  BY <1>2, <1>3, IndexCheck

LEMMA VecPushOK ==
  ASSUME VecTypeOK, NEW h \in Handles, NEW x \in Elems, VecPush(h, x)
  PROVE  StepOK
<1>1. objs[h] \in Seq(Elems) /\ h \in Nat /\ Len(objs[h]) \in Nat
  BY ObjType DEF Handles
<1>2. /\ Append(objs[h], x) \in Seq(Elems)
      /\ Len(Append(objs[h], x)) = Len(objs[h]) + 1
  BY <1>1, AppendProperties
<1>3. Produce("push", h, 0, "VecEntry", Len(objs[h]), Append(objs[h], x))
  BY DEF VecPush
<1>4. Len(Append(objs[h], x)) <= Len(objs[h]) + 1
  BY <1>1, <1>2
<1>. QED
  BY <1>1, <1>2, <1>3, <1>4, ConstFacts, ProduceOK DEF VecOps

LEMMA VecPopOK ==
  ASSUME VecTypeOK, NEW h \in Handles, VecPop(h)
  PROVE  StepOK
<1>1. objs[h] \in Seq(Elems) /\ h \in Nat /\ Len(objs[h]) \in Nat
  BY ObjType DEF Handles
<1>2. CASE objs[h] = << >>
  BY <1>1, <1>2, ConstFacts, FailOK DEF VecPop, VecOps
<1>3. CASE objs[h] # << >>
  <2>1. Len(objs[h]) - 1 \in 0 .. Len(objs[h])
    BY <1>1, <1>3, EmptySeq
  <2>2. /\ SubSeq(objs[h], 1, Len(objs[h]) - 1) \in Seq(Elems)
        /\ Len(SubSeq(objs[h], 1, Len(objs[h]) - 1)) <= Len(objs[h])
    BY <1>1, <2>1, SubSeqType
  <2>3. Produce("pop", h, 0, "VecEntry", Len(objs[h]),
               SubSeq(objs[h], 1, Len(objs[h]) - 1))
    BY <1>3 DEF VecPop
  <2>4. Len(SubSeq(objs[h], 1, Len(objs[h]) - 1)) <= Len(objs[h]) + 1
    BY <1>1, <2>2
  <2>. QED
    BY <1>1, <2>2, <2>3, <2>4, ConstFacts, ProduceOK DEF VecOps
<1>. QED
  BY <1>2, <1>3

LEMMA VecInsertOK ==
  ASSUME VecTypeOK, NEW h \in Handles, NEW i \in Indices, NEW x \in Elems,
         VecInsert(h, i, x)
  PROVE  StepOK
<1>1. objs[h] \in Seq(Elems) /\ h \in Nat /\ Len(objs[h]) \in Nat
  BY ObjType DEF Handles
<1>2. CASE i = NotU32
  BY <1>1, <1>2, ConstFacts, FailOK DEF VecInsert, VecOps
<1>3. CASE i # NotU32 /\ i > Len(objs[h])
  BY <1>1, <1>3, ConstFacts, FailOK DEF VecInsert, VecOps
<1>4. CASE i # NotU32 /\ ~(i > Len(objs[h]))
  <2>1. i \in 0 .. Len(objs[h])
    BY <1>1, <1>4, ConstFacts
  <2>2. /\ InsertAt(objs[h], i, x) \in Seq(Elems)
        /\ Len(InsertAt(objs[h], i, x)) = Len(objs[h]) + 1
    BY <1>1, <2>1, InsertAtType
  <2>3. Produce("insert", h, i, "VecEntry", Len(objs[h]),
               InsertAt(objs[h], i, x))
    BY <1>4 DEF VecInsert
  <2>4. Len(InsertAt(objs[h], i, x)) <= Len(objs[h]) + 1
    BY <1>1, <2>2
  <2>. QED
    BY <1>1, <2>1, <2>2, <2>3, <2>4, ConstFacts, ProduceOK DEF VecOps
<1>. QED
  BY <1>2, <1>3, <1>4

LEMMA VecAppendOK ==
  ASSUME VecTypeOK, NEW h1 \in Handles, NEW h2 \in Handles, VecAppend(h1, h2)
  PROVE  StepOK
<1>1. /\ objs[h1] \in Seq(Elems) /\ objs[h2] \in Seq(Elems)
      /\ h1 \in Nat /\ h2 \in Nat
      /\ Len(objs[h1]) \in Nat /\ Len(objs[h2]) \in Nat
  BY ObjType DEF Handles
<1>2. /\ objs[h1] \o objs[h2] \in Seq(Elems)
      /\ Len(objs[h1] \o objs[h2]) = Len(objs[h1]) + Len(objs[h2])
  BY <1>1, ConcatProperties
<1>3. /\ Len(objs[h1]) + Len(objs[h2]) \in Nat
      /\ "append" \in VecOps \ {"front", "back", "get"}
      /\ "VecEntry" \in CostTypes
  <2>1. Len(objs[h1]) + Len(objs[h2]) \in Nat
    <3>1. PICK a \in Nat, b \in Nat : a = Len(objs[h1]) /\ b = Len(objs[h2])
      BY <1>1
    <3>2. a + b \in Nat
      OBVIOUS
    <3>. QED
      BY <3>1, <3>2, Zenon
  <2>2. "append" \in VecOps \ {"front", "back", "get"}
    BY DEF VecOps
  <2>. QED
    BY <2>1, <2>2, ConstFacts
<1>4. Produce("append", h1, h2, "VecEntry", Len(objs[h1]) + Len(objs[h2]),
              objs[h1] \o objs[h2])
  BY DEF VecAppend
<1>5. Len(objs[h1] \o objs[h2]) <= (Len(objs[h1]) + Len(objs[h2])) + 1
  <2>1. PICK a \in Nat : a = Len(objs[h1]) + Len(objs[h2])
    BY <1>3
  <2>2. Len(objs[h1] \o objs[h2]) = a
    BY <1>2, <2>1
  <2>3. a <= a + 1
    OBVIOUS
  <2>. QED
    BY <2>1, <2>2, <2>3
<1>. QED
  BY <1>1, <1>2, <1>3, <1>4, <1>5, ProduceOK

LEMMA VecSliceOK ==
  ASSUME VecTypeOK, NEW h \in Handles, NEW st \in Indices, NEW e \in Indices,
         VecSlice(h, st, e)
  PROVE  StepOK
<1>1. objs[h] \in Seq(Elems) /\ h \in Nat /\ Len(objs[h]) \in Nat
  BY ObjType DEF Handles
<1>2. CASE st = NotU32 \/ e = NotU32
  BY <1>1, <1>2, ConstFacts, FailOK DEF VecSlice, VecOps
<1>3. CASE st # NotU32 /\ e # NotU32 /\ (st > e \/ e > Len(objs[h]))
  <2>1. st \in Nat
    BY <1>3, ConstFacts
  <2>. QED
    BY <1>1, <1>3, <2>1, ConstFacts, FailOK DEF VecSlice, VecOps
<1>4. CASE st # NotU32 /\ e # NotU32 /\ ~(st > e \/ e > Len(objs[h]))
  <2>1. st \in Nat /\ e \in 0 .. Len(objs[h])
    BY <1>1, <1>4, ConstFacts
  <2>2. /\ SubSeq(objs[h], st + 1, e) \in Seq(Elems)
        /\ Len(SubSeq(objs[h], st + 1, e)) <= Len(objs[h])
    BY <1>1, <2>1, SubSeqType
  <2>3. Produce("slice", h, st, "VecEntry", Len(objs[h]),
               SubSeq(objs[h], st + 1, e))
    BY <1>4 DEF VecSlice
  <2>4. Len(SubSeq(objs[h], st + 1, e)) <= Len(objs[h]) + 1
    BY <1>1, <2>2
  <2>. QED
    BY <1>1, <2>1, <2>2, <2>3, <2>4, ConstFacts, ProduceOK DEF VecOps
<1>. QED
  BY <1>2, <1>3, <1>4

----------------------------------------------------------------------------
(* The step lemma and the theorems.                                        *)

LEMMA NextOK ==
  ASSUME VecTypeOK, [Next]_vars
  PROVE  StepOK
<1>1. CASE VecNew
  BY <1>1, VecNewOK
<1>2. CASE \E h \in Handles :
             \/ VecFront(h) \/ VecBack(h) \/ VecLen(h) \/ VecPop(h)
             \/ \E x \in Elems : VecPush(h, x)
             \/ \E i \in Indices :
                  \/ VecGet(h, i) \/ VecDel(h, i)
                  \/ \E x \in Elems : VecPut(h, i, x) \/ VecInsert(h, i, x)
             \/ \E h2 \in Handles : VecAppend(h, h2)
             \/ \E st, e \in Indices : VecSlice(h, st, e)
  BY <1>2, VecFrontOK, VecBackOK, VecLenOK, VecPopOK, VecPushOK, VecGetOK,
     VecDelOK, VecPutOK, VecInsertOK, VecAppendOK, VecSliceOK
<1>3. CASE UNCHANGED vars
  BY <1>3 DEF vars, vecVars, budgetVars, StepOK, Kept, Handles, VecTypeOK,
              BudgetTypeOK, BudgetKept, Paid, BudgetWithinLimits
<1>. QED
  BY <1>1, <1>2, <1>3 DEF Next

LEMMA InitOK ==
  ASSUME Init
  PROVE  VecTypeOK
<1>1. objs \in Seq(Seq(Elems))
  BY EmptySeq DEF Init
<1>2. BudgetTypeOK
  BY MeteredVecAssumption DEF Init, BudgetTypeOK
<1>. QED
  BY <1>1, <1>2 DEF Init, VecTypeOK, VecOps

\* Every state the vector host functions reach is well typed, for any
\* bound on objects and lengths and any cost model.
THEOREM VecTypeCorrect == Spec => []VecTypeOK
<1>1. Init => VecTypeOK
  BY InitOK
<1>2. VecTypeOK /\ [Next]_vars => VecTypeOK'
  BY NextOK DEF StepOK
<1>. QED
  BY <1>1, <1>2, PTL DEF Spec

\* Host objects are immutable: no vector host function, successful or
\* failing, changes an object an earlier call returned (spec 9).
THEOREM ObjectsImmutable == Spec => ObservedViewsUnchanged
<1>1. VecTypeOK /\ [Next]_vars => [\A h \in Handles : objs'[h] = objs[h]]_vars
  BY NextOK DEF StepOK, Kept
<1>. QED
  BY <1>1, VecTypeCorrect, PTL DEF Spec, ObservedViewsUnchanged

\* Spec 3 for the vector host functions: whatever sequence of calls a
\* contract makes, and however many are rejected, the consumed cpu and
\* memory never pass the limits.
THEOREM VecBudgetSafe == Spec => []BudgetWithinLimits
<1>1. Init => BudgetWithinLimits
  BY MeteredVecAssumption DEF Init, BudgetWithinLimits
<1>2. VecTypeOK /\ BudgetWithinLimits /\ [Next]_vars => BudgetWithinLimits'
  BY NextOK DEF StepOK, BudgetKept
<1>. QED
  BY <1>1, <1>2, VecTypeCorrect, PTL DEF Spec

\* A VecEntry charge grows with its size: the cost model's coefficients are
\* naturals.
LEMMA EntryCostMonotone ==
  ASSUME NEW a \in Nat, NEW b \in Nat, a <= b
  PROVE  CpuCost("VecEntry", a) <= CpuCost("VecEntry", b)
<1>1. CpuModel["VecEntry"].const \in Nat /\ CpuModel["VecEntry"].lin \in Nat
  BY ConstFacts, CostModelAssumption DEF CostModelType
<1>2. CpuModel["VecEntry"].lin * a <= CpuModel["VecEntry"].lin * b
  BY <1>1
<1>. QED
  BY <1>1, <1>2 DEF CpuCost

\* Spec 4.3, no structural operation is free and an O(n) one is charged
\* linearly in n: every call that allocates a host object raises the
\* consumed cpu, by at least the VecEntry cost of all but one of the new
\* object's elements.  The first half holds exactly when the cost model
\* gives VecNew and VecEntry a positive constant term: the offline fit
\* clamps an intercept at 0, and with a zero constant vec_new (charged on
\* size 0) would allocate for free.
THEOREM ObjectsArePaid ==
  ASSUME CpuModel["VecNew"].const > 0, CpuModel["VecEntry"].const > 0
  PROVE  Spec => NewObjectsArePaid
<1>1. ASSUME NEW t \in {"VecNew", "VecEntry"}, NEW n \in Nat
      PROVE  CpuCost(t, n) \in Nat /\ CpuCost(t, n) > 0
  <2>1. t \in CostTypes
    BY ConstFacts
  <2>2. CpuModel[t].const \in Nat /\ CpuModel[t].lin \in Nat
    BY <2>1, CostModelAssumption DEF CostModelType
  <2>. QED
    BY <2>2 DEF CpuCost
<1>2. VecTypeOK /\ [Next]_vars
        => [Len(objs') > Len(objs) =>
              /\ cpuConsumed' > cpuConsumed
              /\ Len(objs'[Len(objs')]) > 0 =>
                   cpuConsumed' >= cpuConsumed
                     + CpuCost("VecEntry", Len(objs'[Len(objs')]) - 1)]_vars
  <2>. SUFFICES ASSUME VecTypeOK, [Next]_vars, Len(objs') > Len(objs)
               PROVE  /\ cpuConsumed' > cpuConsumed
                      /\ Len(NewObj) > 0 =>
                           cpuConsumed' >= cpuConsumed
                                             + CpuCost("VecEntry", Len(NewObj) - 1)
    BY DEF NewObj
  <2>1. PICK t \in {"VecNew", "VecEntry"}, n \in Nat :
          /\ cpuConsumed' = cpuConsumed + CpuCost(t, n)
          /\ Len(NewObj) = 0 \/ (t = "VecEntry" /\ Len(NewObj) <= n + 1)
    BY NextOK DEF StepOK, Paid
  <2>2. cpuConsumed \in Nat
    BY DEF VecTypeOK, BudgetTypeOK
  <2>3. CpuCost(t, n) \in Nat /\ CpuCost(t, n) > 0
    BY <1>1
  <2>4. cpuConsumed' > cpuConsumed
    BY <2>1, <2>2, <2>3
  <2>5. ASSUME Len(NewObj) > 0
        PROVE  cpuConsumed' >= cpuConsumed + CpuCost("VecEntry", Len(NewObj) - 1)
    <3>1. t = "VecEntry" /\ Len(NewObj) - 1 \in Nat /\ Len(NewObj) - 1 <= n
      <4>1. Len(NewObj) \in Nat
        <5>1. objs' \in Seq(Seq(Elems)) /\ Len(objs') \in 1 .. Len(objs')
          BY NextOK, LenProperties DEF StepOK, VecTypeOK
        <5>. QED
          BY <5>1, ElementOfSeq, LenProperties DEF NewObj
      <4>. QED
        BY <2>1, <2>5, <4>1
    <3>2. CpuCost("VecEntry", Len(NewObj) - 1) <= CpuCost("VecEntry", n)
      BY <3>1, EntryCostMonotone
    <3>3. CpuCost("VecEntry", Len(NewObj) - 1) \in Nat
      BY <3>1, <1>1
    <3>4. cpuConsumed' = cpuConsumed + CpuCost("VecEntry", n)
      BY <2>1, <3>1
    <3>. QED
      BY <2>2, <2>3, <3>1, <3>2, <3>3, <3>4
  <2>. QED
    BY <2>4, <2>5
<1>. QED
  BY <1>2, VecTypeCorrect, PTL DEF Spec, NewObjectsArePaid
====
