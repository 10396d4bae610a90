----------------------------- MODULE MeteredVec -----------------------------
(***************************************************************************)
(* The vector host functions of the "v" module of the host-function table  *)
(* (vec_new, vec_put, vec_get, vec_del, vec_len, vec_push, vec_pop,        *)
(* vec_front, vec_back, vec_insert, vec_append, vec_slice) over host       *)
(* objects.                                                                *)
(*                                                                         *)
(* Host objects are immutable: an operation that "changes" a vector        *)
(* returns the handle of a NEW object and leaves its argument as it was.   *)
(* The error behaviour is the one the host tests pin down: an index that   *)
(* is not a u32 is InputArgsWrongType, an index past the end is            *)
(* VecIndexOutOfBound, a slice with start > end is InputArgsInvalid.       *)
(* Every operation charges the shared Budget (VecEntry, with the length    *)
(* of the vector as size proxy) before it builds its result; a rejected    *)
(* charge is BudgetExceeded and builds nothing.                            *)
(***************************************************************************)
EXTENDS Naturals, Sequences, Budget

CONSTANTS
  Elems,     \* element values (abstract RawVals)
  Indices,   \* index arguments: u32 values and NotU32
  NotU32,    \* model value: an index RawVal that is not a u32 (e.g. I32 -1)
  MaxLen,    \* bound: longest vector built
  MaxObjs,   \* bound: number of host objects created
  CpuLimits, \* cpu limits the host may be given
  MemLimits  \* memory limits the host may be given

VecErrors == {"VecIndexOutOfBound", "InputArgsWrongType",
              "InputArgsInvalid", "BudgetExceeded"}
VecOps == {"new", "put", "get", "del", "len", "push", "pop", "front",
           "back", "insert", "append", "slice"}

ASSUME MeteredVecAssumption ==
  /\ Indices \subseteq Nat \cup {NotU32}
  /\ NotU32 \notin Nat
  /\ MaxLen \in Nat /\ MaxObjs \in Nat
  /\ CpuLimits \subseteq Nat /\ MemLimits \subseteq Nat
  /\ {"VecNew", "VecEntry"} \subseteq CostTypes

VARIABLES
  objs,   \* handle (position) -> the immutable vector it names
  last    \* the last call: [op, src, idx, res, err]

vecVars == <<objs, last>>
vars == <<budgetVars, vecVars>>

Handles == 1 .. Len(objs)

\* The result of a call that fails with error e: nothing is built or charged.
Fail(op, src, idx, e) ==
  /\ last' = [op |-> op, src |-> src, idx |-> idx, res |-> 0, err |-> e]
  /\ UNCHANGED <<budgetVars, objs>>

\* Charge VecEntry on size n, then return x; nothing is built.
Read(op, src, idx, n, x) ==
  \/ /\ Charge("VecEntry", n)
     /\ last' = [op |-> op, src |-> src, idx |-> idx, res |-> x, err |-> "none"]
     /\ UNCHANGED objs
  \/ /\ ChargeRejected("VecEntry", n)
     /\ Fail(op, src, idx, "BudgetExceeded")

\* Charge type t on size n, then allocate the new object v.
Produce(op, src, idx, t, n, v) ==
  /\ Len(objs) < MaxObjs
  /\ \/ /\ Charge(t, n)
        /\ objs' = Append(objs, v)
        /\ last' = [op |-> op, src |-> src, idx |-> idx, res |-> Len(objs) + 1,
                    err |-> "none"]
     \/ /\ ChargeRejected(t, n)
        /\ Fail(op, src, idx, "BudgetExceeded")

\* The index checks shared by get, put and del: type first, then bound.
IndexError(v, i) ==
  IF i = NotU32 THEN "InputArgsWrongType"
  ELSE IF i >= Len(v) THEN "VecIndexOutOfBound"
  ELSE "none"

\* Removing the element at 0-based index i.
RemoveAt(v, i) == SubSeq(v, 1, i) \o SubSeq(v, i + 2, Len(v))

\* Inserting x so that it lands at 0-based index i.
InsertAt(v, i, x) == SubSeq(v, 1, i) \o <<x>> \o SubSeq(v, i + 1, Len(v))

----------------------------------------------------------------------------
(* One action per host function.                                           *)

VecNew ==
  Produce("new", 0, 0, "VecNew", 0, << >>)

\* vec_front and vec_back: the first/last element, or VecIndexOutOfBound.
VecFront(h) ==
  IF objs[h] = << >> THEN Fail("front", h, 0, "VecIndexOutOfBound")
  ELSE Read("front", h, 0, Len(objs[h]), Head(objs[h]))

\* Mutant: vec_back reads the wrong end of the vector.
VecBackFirst(h) ==
  IF objs[h] = << >> THEN Fail("back", h, 0, "VecIndexOutOfBound")
  ELSE Read("back", h, 0, Len(objs[h]), Head(objs[h]))

VecBack(h) ==
  IF objs[h] = << >> THEN Fail("back", h, 0, "VecIndexOutOfBound")
  ELSE Read("back", h, 0, Len(objs[h]), objs[h][Len(objs[h])])

\* Mutant: vec_put writes into the argument object instead of a copy.
VecPutInPlace(h, i, x) ==
  IF IndexError(objs[h], i) # "none"
    THEN Fail("put", h, i, IndexError(objs[h], i))
    ELSE /\ Charge("VecEntry", Len(objs[h]))
         /\ objs' = [objs EXCEPT ![h][i + 1] = x]
         /\ last' = [op |-> "put", src |-> h, idx |-> i, res |-> Len(objs) + 1,
                    err |-> "none"]

\* vec_put: a new vector with element i replaced by x.
VecPut(h, i, x) ==
  IF IndexError(objs[h], i) # "none"
    THEN Fail("put", h, i, IndexError(objs[h], i))
    ELSE Produce("put", h, i, "VecEntry", Len(objs[h]),
                 [objs[h] EXCEPT ![i + 1] = x])

\* vec_get: element i.
VecGet(h, i) ==
  IF IndexError(objs[h], i) # "none"
    THEN Fail("get", h, i, IndexError(objs[h], i))
    ELSE Read("get", h, i, Len(objs[h]), objs[h][i + 1])

\* vec_del: a new vector without element i.
VecDel(h, i) ==
  IF IndexError(objs[h], i) # "none"
    THEN Fail("del", h, i, IndexError(objs[h], i))
    ELSE Produce("del", h, i, "VecEntry", Len(objs[h]), RemoveAt(objs[h], i))

\* vec_len.
VecLen(h) == Read("len", h, 0, Len(objs[h]), Len(objs[h]))

\* Mutant: vec_push adds its cost to the counters without checking them.
VecPushUnchecked(h, x) ==
  /\ Len(objs[h]) < MaxLen
  /\ Len(objs) < MaxObjs
  /\ cpuConsumed' = cpuConsumed + CpuCost("VecEntry", Len(objs[h]))
  /\ memConsumed' = memConsumed + MemCost("VecEntry", Len(objs[h]))
  /\ UNCHANGED <<cpuLimit, memLimit>>
  /\ objs' = Append(objs, Append(objs[h], x))
  /\ last' = [op |-> "push", src |-> h, idx |-> 0, res |-> Len(objs) + 1,
              err |-> "none"]

\* vec_push: a new vector with x at the back.
VecPush(h, x) ==
  /\ Len(objs[h]) < MaxLen
  /\ Produce("push", h, 0, "VecEntry", Len(objs[h]), Append(objs[h], x))

\* vec_pop: a new vector without its last element.
VecPop(h) ==
  IF objs[h] = << >> THEN Fail("pop", h, 0, "VecIndexOutOfBound")
  ELSE Produce("pop", h, 0, "VecEntry", Len(objs[h]),
               SubSeq(objs[h], 1, Len(objs[h]) - 1))

\* vec_insert: i may be the length (insert at the back), not beyond.
VecInsert(h, i, x) ==
  /\ Len(objs[h]) < MaxLen
  /\ IF i = NotU32 THEN Fail("insert", h, i, "InputArgsWrongType")
     ELSE IF i > Len(objs[h]) THEN Fail("insert", h, i, "VecIndexOutOfBound")
     ELSE Produce("insert", h, i, "VecEntry", Len(objs[h]),
                  InsertAt(objs[h], i, x))

\* Mutant: vec_append charges for its first argument only.
VecAppendFirstOnly(h1, h2) ==
  /\ Len(objs[h1]) + Len(objs[h2]) <= MaxLen
  /\ Produce("append", h1, h2, "VecEntry", Len(objs[h1]),
             objs[h1] \o objs[h2])

\* vec_append: a new vector, h1's elements then h2's (h1 = h2 allowed).
VecAppend(h1, h2) ==
  /\ Len(objs[h1]) + Len(objs[h2]) <= MaxLen
  /\ Produce("append", h1, h2, "VecEntry", Len(objs[h1]) + Len(objs[h2]),
             objs[h1] \o objs[h2])

\* vec_slice [s, e): wrong types first; start > end and end > len are both
\* errors, and the tests do not fix which is reported when both hold.
VecSlice(h, s, e) ==
  LET v == objs[h] IN
  IF s = NotU32 \/ e = NotU32 THEN Fail("slice", h, s, "InputArgsWrongType")
  ELSE IF s > e \/ e > Len(v)
    THEN \/ s > e /\ Fail("slice", h, s, "InputArgsInvalid")
         \/ e > Len(v) /\ Fail("slice", h, s, "VecIndexOutOfBound")
    ELSE Produce("slice", h, s, "VecEntry", Len(v), SubSeq(v, s + 1, e))

----------------------------------------------------------------------------
Init ==
  /\ cpuLimit \in CpuLimits
  /\ memLimit \in MemLimits
  /\ cpuConsumed = 0
  /\ memConsumed = 0
  /\ objs = << >>
  /\ last = [op |-> "none", src |-> 0, idx |-> 0, res |-> 0, err |-> "none"]

Next ==
  \/ VecNew
  \/ \E h \in Handles :
       \/ VecFront(h) \/ VecBack(h) \/ VecLen(h) \/ VecPop(h)
       \/ \E x \in Elems : VecPush(h, x)
       \/ \E i \in Indices :
            \/ VecGet(h, i) \/ VecDel(h, i)
            \/ \E x \in Elems : VecPut(h, i, x) \/ VecInsert(h, i, x)
       \/ \E h2 \in Handles : VecAppend(h, h2)
       \/ \E s, e \in Indices : VecSlice(h, s, e)

Spec == Init /\ [][Next]_vars

----------------------------------------------------------------------------
(* Properties.                                                             *)

VecTypeOK ==
  /\ BudgetTypeOK
  /\ objs \in Seq(Seq(Elems))
  /\ last \in [op : VecOps \cup {"none"}, src : Nat, idx : Nat \cup {NotU32},
              res : Elems \cup Nat, err : VecErrors \cup {"none"}]

\* Host objects are never mutated (spec 9, and the tests' check that a
\* slice or append returns a new object): no call changes a vector that an
\* earlier call returned, whatever it builds.
ObservedViewsUnchanged ==
  [][\A h \in Handles : objs'[h] = objs[h]]_vars

\* Spec 4.3: no structural operation is free, and an O(n) operation is
\* charged linearly in n.  Every call that allocates a new host object has
\* charged the Budget, and has charged at least the VecEntry cost of all
\* but one of the new object's elements (the size proxy is the length of
\* the input, which a push or an insert exceeds by the one element added).
NewObjectsArePaid ==
  [][Len(objs') > Len(objs) =>
       /\ cpuConsumed' > cpuConsumed
       /\ Len(objs'[Len(objs')]) > 0 =>
             cpuConsumed' >= cpuConsumed
                               + CpuCost("VecEntry", Len(objs'[Len(objs')]) - 1)]_vars
====
