-------------------------- MODULE AtomicInvocation --------------------------
(***************************************************************************)
(* What one top-level invocation promises its caller (spec 6 and 7),      *)
(* whatever happens inside it: the ledger stays as the snapshot while the *)
(* invocation runs; the invocation ends exactly once, either Ok, when its *)
(* writes become visible in ONE step and touch only keys the footprint    *)
(* declares ReadWrite, or with an error, when the ledger is left as it     *)
(* was.  After the end nothing changes.  Host implements this module      *)
(* under the identity mapping of ledger and status.                        *)
(***************************************************************************)
CONSTANTS
  Keys,      \* ledger keys
  Vals,      \* ledger entry values
  NoEntry,   \* no ledger entry under a key
  Snapshot,  \* the ledger before the invocation
  Writable,  \* keys the footprint declares ReadWrite
  Errors     \* the errors an invocation may end with

VARIABLES
  ledger,    \* the ledger
  status     \* "Running", "Ok" or an error

vars == <<ledger, status>>

\* A ledger that differs from the snapshot only on writable keys.
Reachable(l) ==
  /\ l \in [Keys -> Vals \cup {NoEntry}]
  /\ \A k \in Keys : l[k] # Snapshot[k] => k \in Writable

Init ==
  /\ ledger = Snapshot
  /\ status = "Running"

\* The invocation returns Ok and its writes are committed at once.
Commit ==
  /\ status = "Running"
  /\ status' = "Ok"
  /\ Reachable(ledger')

\* The invocation fails with error e; the ledger is left as it was.
Abort(e) ==
  /\ status = "Running"
  /\ status' = e
  /\ UNCHANGED ledger

Next == Commit \/ \E e \in Errors : Abort(e)

Spec == Init /\ [][Next]_vars
=============================================================================
