----------------------------- MODULE HostHistory -----------------------------
(***************************************************************************)
(* Host with a history variable that records the storage writes of each   *)
(* frame as a nested transaction, independently of the rollback images   *)
(* the host keeps:                                                         *)
(*  - a frame starts with no writes of its own;                            *)
(*  - a successful put or del of the frame is recorded as its own write;   *)
(*  - a callee that returns Ok hands its writes to its caller, where they  *)
(*    override the caller's earlier writes to the same keys;               *)
(*  - a frame that is unwound takes its writes (and those its callees     *)
(*    handed it) away with it.                                             *)
(* Each action of Host is conjoined with the update of the history; the   *)
(* history never restricts what Host does.                                 *)
(***************************************************************************)
EXTENDS Host

VARIABLE
  frameWrites  \* history: one map Keys -> Slot per frame, top at the end

hvars == <<vars, frameWrites>>

\* The frame on top of the stack records write s to key k.
OwnWrite(fw, k, s) == [fw EXCEPT ![Len(fw)][k] = s]

\* The writes of a callee that returned Ok, laid over its caller's.
Merge(lower, upper) ==
  [k \in Keys |-> IF upper[k] = Untouched THEN lower[k] ELSE upper[k]]

\* The pending writes the frames of fw add up to: for each key, the write of
\* the highest frame that wrote it.
Layered(fw) ==
  [k \in Keys |->
     LET W == {i \in DOMAIN fw : fw[i][k] # Untouched} IN
     IF W = {} THEN Untouched
     ELSE fw[CHOOSE i \in W : \A j \in W : j <= i][k]]

\* A ledger with the writes w applied; a tombstone removes the entry.
Applied(l, w) ==
  [k \in Keys |-> IF w[k] = Untouched THEN l[k]
                  ELSE IF w[k] = Tombstone THEN NoEntry ELSE w[k]]

HInit == Init /\ frameWrites = << NoWrites >>

\* A put or del that succeeded (raised no error) is the top frame's write.
StoragePutH ==
  /\ StoragePut
  /\ frameWrites' = IF err' = NoError
                      THEN OwnWrite(frameWrites, CurOp.key, CurOp.val)
                      ELSE frameWrites

StorageDelH ==
  /\ StorageDel
  /\ frameWrites' = IF err' = NoError
                      THEN OwnWrite(frameWrites, CurOp.key, Tombstone)
                      ELSE frameWrites

CallH == Call /\ frameWrites' = Append(frameWrites, NoWrites)

\* A nested return hands the callee's writes to the caller; the top-level
\* return keeps the entry frame's writes, which are what is committed.
ReturnH ==
  /\ Return
  /\ frameWrites' =
       IF Len(frameWrites) = 1 THEN frameWrites
       ELSE LET n == Len(frameWrites) IN
            [i \in 1 .. n - 1 |->
               IF i = n - 1 THEN Merge(frameWrites[i], frameWrites[n])
               ELSE frameWrites[i]]

\* Every unwound frame drops its writes.
UnwindH ==
  /\ UnwindTop \/ UnwindCaught \/ UnwindPropagate
  /\ frameWrites' = SubSeq(frameWrites, 1, Len(frameWrites) - 1)

\* The steps that write nothing.
QuietH ==
  /\ \/ FetchCode \/ Parse \/ Instantiate
     \/ ExecInsn \/ StorageGet \/ StorageHas \/ ContractFail \/ Done
  /\ UNCHANGED frameWrites

HNext ==
  \/ QuietH \/ StoragePutH \/ StorageDelH \/ CallH \/ ReturnH \/ UnwindH

HSpec == HInit /\ [][HNext]_hvars

----------------------------------------------------------------------------
\* Storage writes are nested transactions (spec 4.4, 7): however calls
\* nest, return Ok or unwind (caught by try_call or not), the pending
\* overlay holds exactly the writes of the frames still running, with the
\* writes of callees that returned Ok merged into their callers and those
\* of every unwound frame gone; and the ledger changes only at the top-level
\* Ok, to the snapshot with exactly the entry frame's merged writes.
NestedWrites ==
  /\ overlay = Layered(frameWrites)
  /\ ledger = IF status = "Ok" THEN Applied(Snapshot, frameWrites[1])
              ELSE Snapshot
====
