---- MODULE StorageExt ----
(***************************************************************************)
(* What the node and the Raft library may rely on in a storage (trait      *)
(* StorageExt, src/src/storage.rs), whatever crashes there are: every      *)
(* operation changes what can be read in one step, or not at all.          *)
(*                                                                         *)
(* The exception is an append that replaces several entries.  A crash      *)
(* inside it may leave some of the new entries before the rest of the old  *)
(* ones, so a single stored entry may change by itself (Overwrite) - but   *)
(* never one that is committed.                                            *)
(*                                                                         *)
(* An entry is its term, the HardState its commit index, the snapshot the  *)
(* index it covers.                                                        *)
(***************************************************************************)
EXTENDS Integers

CONSTANTS MaxIndex,      \* bound on the indices of the log
          MaxTerm        \* bound on the terms

VARIABLES firstIndex, lastIndex,
          log,                   \* the entries from the first to the last index
          hardstate,
          appliedIndex,
          snapshotIndex

vars == <<firstIndex, lastIndex, log, hardstate, appliedIndex, snapshotIndex>>

\* A storage that has never been written to.
Init == /\ firstIndex = 1 /\ lastIndex = 0
        /\ log = [i \in 1..0 |-> 0]
        /\ hardstate = 0 /\ appliedIndex = 0 /\ snapshotIndex = 0

-----------------------------------------------------------------------------
\* Entry i may come after what is stored before it, and replaces nothing that is
\* committed.
Fits(i, t) == hardstate < i /\ (i - 1 \in DOMAIN log => log[i - 1] <= t)

\* append: n entries of term t from index k on, and nothing after them.
Append(k, n, t) ==
  /\ Fits(k, t)
  /\ k = firstIndex \/ k - 1 \in DOMAIN log
  /\ lastIndex' = k + n - 1
  /\ log' = [i \in firstIndex..(k + n - 1) |-> IF i < k THEN log[i] ELSE t]
  /\ UNCHANGED <<firstIndex, hardstate, appliedIndex, snapshotIndex>>

Overwrite(i, t) ==
  /\ Fits(i, t)
  /\ log' = [log EXCEPT ![i] = t]
  /\ UNCHANGED <<firstIndex, lastIndex, hardstate, appliedIndex, snapshotIndex>>

\* set_hardstate: what is committed is in the log, or was before it was compacted.
SetHardstate(c) ==
  /\ hardstate < c /\ c <= lastIndex
  /\ hardstate' = c
  /\ UNCHANGED <<firstIndex, lastIndex, log, appliedIndex, snapshotIndex>>

\* set_applied: never ahead of the commit index.
SetApplied(a) ==
  /\ appliedIndex < a /\ a <= hardstate
  /\ appliedIndex' = a
  /\ UNCHANGED <<firstIndex, lastIndex, log, hardstate, snapshotIndex>>

\* compact, and the part of apply_snapshot that discards entries.
Compact(i) ==
  /\ firstIndex <= i
  /\ firstIndex' = i + 1
  /\ log' = [j \in (i + 1)..lastIndex |-> log[j]]
  /\ UNCHANGED <<lastIndex, hardstate, appliedIndex, snapshotIndex>>

\* create_snapshot, and the part of apply_snapshot that records the snapshot.
SetSnapshot(i) ==
  /\ snapshotIndex < i
  /\ snapshotIndex' = i
  /\ UNCHANGED <<firstIndex, lastIndex, log, hardstate, appliedIndex>>

Next == \/ \E k \in 1..MaxIndex : \E n \in 1..(MaxIndex - k + 1), t \in 1..MaxTerm :
             Append(k, n, t)
        \/ \E i \in DOMAIN log, t \in 1..MaxTerm : Overwrite(i, t)
        \/ \E i \in 1..MaxIndex : \/ SetHardstate(i)
                              \/ SetApplied(i)
                              \/ Compact(i)
                              \/ SetSnapshot(i)

Spec == Init /\ [][Next]_vars
====
