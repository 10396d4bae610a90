---------------------------- MODULE MCMeteredVec ----------------------------
(***************************************************************************)
(* MeteredVec on two element values, vectors of at most 2 elements and at  *)
(* most 4 host objects.  Indices 0..2 reach every in-range, end and        *)
(* past-the-end case of a vector of length <= 2, and NotU32 the wrong-type *)
(* case.  A cpu limit of 14 lets a run build several objects and then run  *)
(* out part-way, so that rejected charges happen in every operation.       *)
(***************************************************************************)
EXTENDS MeteredVec, TLC

CONSTANTS e1, e2

MCElems == {e1, e2}
MCIndices == {0, 1, 2, NotU32}
MCCostTypes == {"VecNew", "VecEntry"}
MCCpuModel == "VecNew" :> [const |-> 2, lin |-> 0]
              @@ "VecEntry" :> [const |-> 1, lin |-> 1]
MCMemModel == "VecNew" :> [const |-> 1, lin |-> 0]
              @@ "VecEntry" :> [const |-> 0, lin |-> 0]
MCCpuLimits == {14}
MCMemLimits == {4}
=============================================================================
