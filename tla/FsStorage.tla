----------------------------- MODULE FsStorage ------------------------------
(***************************************************************************)
(* The file-system storage of a node (src/src/fs_storage.rs): one file per *)
(* log entry and six files for indices, HardState and snapshot.            *)
(*                                                                         *)
(* An operation is the sequence `todo' of the file writes it still has to  *)
(* make; a crash comes between any two of them.  A single fs::write is     *)
(* taken as atomic.  An entry is its term, the HardState its commit index, *)
(* the snapshot the index it covers.                                       *)
(*                                                                         *)
(* The callers keep to what the Raft library and the comments of           *)
(* StorageExt promise: committed entries are not overwritten, and what is  *)
(* compacted has been applied.                                             *)
(***************************************************************************)
EXTENDS Integers, Sequences

CONSTANTS MaxIndex,      \* bound on the indices of the log
          MaxTerm        \* bound on the terms

ASSUME StorageBounds == MaxIndex \in Nat \ {0} /\ MaxTerm \in Nat \ {0}

VARIABLES file,          \* the files of data_dir
          entry,         \* the files of entries_dir
          todo,          \* writes the current operation still has to make
          up             \* whether the node runs

fsVars == <<file, entry, todo, up>>

Missing  == -1
Index    == 1..MaxIndex
MetaFile == {"term", "first", "last", "applied", "hardstate", "snapshot"}

Write == [name : MetaFile, index : {0}, value : Nat]
           \cup [name : {"entry"}, index : Index, value : Nat \cup {Missing}]

FsTypeOK == /\ file \in [MetaFile -> Nat \cup {Missing}]
            /\ entry \in [Index -> Nat \cup {Missing}]
            /\ todo \in Seq(Write)
            /\ up \in BOOLEAN

Put(f, v)      == [name |-> f, index |-> 0, value |-> v]
PutEntry(i, t) == [name |-> "entry", index |-> i, value |-> t]
Remove(i)      == [name |-> "entry", index |-> i, value |-> Missing]

first    == file["first"]
last     == file["last"]
commit   == file["hardstate"]
snapshot == file["snapshot"]

\* An empty directory, before the first start.
FsInit == /\ file = [f \in MetaFile |-> Missing]
          /\ entry = [i \in Index |-> Missing]
          /\ todo = << >>
          /\ up = FALSE

-----------------------------------------------------------------------------
(***************************************************************************)
(* The writes of each operation, none for one that answers with an error.  *)
(***************************************************************************)
\* Mutant: the files whose absence means that there is no state come first.
StateFirst == <<Put("hardstate", 0), Put("snapshot", 0), Put("term", 0),
                Put("first", 1), Put("last", 0), Put("applied", 0)>>

\* init_raft_state
InitWrites == <<Put("term", 0), Put("first", 1), Put("last", 0),
                Put("applied", 0), Put("hardstate", 0), Put("snapshot", 0)>>

\* Mutant: every entry goes to the file of its successor.
AppendShifted(k, n, t) ==
  [j \in 1..n |-> PutEntry(k + j, t)] \o <<Put("last", k + n - 1)>>

\* Mutant: the last index is written before the entries.
LastIndexFirst(k, n, t) ==
  <<Put("last", k + n - 1)>> \o [j \in 1..n |-> PutEntry(k + j - 1, t)]

\* append of n entries of term t from index k on.
AppendWrites(k, n, t) ==
  [j \in 1..n |-> PutEntry(k + j - 1, t)] \o <<Put("last", k + n - 1)>>

\* compact reads the entries it deletes and fails if one is missing.
CanCompact(i) == first <= i /\ \A j \in first..i : entry[j] # Missing

\* Mutant: the entries are removed before the first index is written.
RemoveFirst(i) ==
  IF CanCompact(i)
  THEN [j \in 1..(i - first + 1) |-> Remove(first + j - 1)]
         \o <<Put("term", entry[i]), Put("first", i + 1)>>
  ELSE << >>

CompactWrites(i) ==
  IF CanCompact(i)
  THEN <<Put("term", entry[i]), Put("first", i + 1)>>
         \o [j \in 1..(i - first + 1) |-> Remove(first + j - 1)]
  ELSE << >>

ApplySnapshotWrites(i) ==
  IF snapshot < i /\ CanCompact(i) THEN Append(CompactWrites(i), Put("snapshot", i))
                                   ELSE << >>

CreateSnapshotWrites(i) == IF i <= snapshot THEN << >> ELSE <<Put("snapshot", i)>>

\* create_snapshot panics beyond the log, and below it as well: only the upper
\* bound is checked before the entry is read.
CreateSnapshotPanics(i) == snapshot < i /\ (last < i \/ entry[i] = Missing)

-----------------------------------------------------------------------------
Idle == up /\ todo = << >>

Perform(writes) == todo' = writes /\ UNCHANGED <<file, entry, up>>

DoWrite ==
  LET w == Head(todo)
  IN  /\ todo # << >>
      /\ IF w.name = "entry"
         THEN entry' = [entry EXCEPT ![w.index] = w.value] /\ UNCHANGED file
         ELSE file' = [file EXCEPT ![w.name] = w.value] /\ UNCHANGED entry
      /\ todo' = Tail(todo)
      /\ UNCHANGED up

\* with_data_dir: a state of which hardstate or snapshot is missing is
\* initialised (again).
Open == /\ ~up
        /\ up' = TRUE
        /\ todo' = IF Missing \in {commit, snapshot} THEN InitWrites ELSE << >>
        /\ UNCHANGED <<file, entry>>

\* The node stops or crashes, between any two writes.
Halt == up /\ up' = FALSE /\ todo' = << >> /\ UNCHANGED <<file, entry>>

\* From the first entry that is not committed to the one after the log, which a
\* snapshot may have moved.
AppendTo == {k \in first..MaxIndex : commit < k /\ (k <= last + 1 \/ k = first)}

AppendEntries ==
  /\ Idle
  /\ \E k \in AppendTo : \E n \in 1..(MaxIndex - k + 1), t \in 1..MaxTerm :
       /\ k > first => t >= entry[k - 1]
       /\ Perform(AppendWrites(k, n, t))

SetHardstate ==
  /\ Idle
  /\ \E c \in (commit + 1)..last : Perform(<<Put("hardstate", c)>>)

SetApplied ==
  /\ Idle
  /\ \E a \in (file["applied"] + 1)..commit : Perform(<<Put("applied", a)>>)

Compact ==
  /\ Idle
  /\ \E i \in 0..file["applied"] : Perform(CompactWrites(i))

ApplySnapshot ==
  /\ Idle
  /\ \E i \in Index : Perform(ApplySnapshotWrites(i))

CreateSnapshot ==
  /\ Idle
  /\ \E i \in Index : ~CreateSnapshotPanics(i) /\ Perform(CreateSnapshotWrites(i))

PanicInCreateSnapshot == Idle /\ (\E i \in Index : CreateSnapshotPanics(i)) /\ Halt

-----------------------------------------------------------------------------
(***************************************************************************)
(* What the readers answer: a value, or an error as a negative number.     *)
(***************************************************************************)
Compacted   == -2
Unavailable == -3

FsTerm(i) ==
  IF i \in Index /\ entry[i] # Missing THEN entry[i]
  ELSE IF i = 0 THEN 0
  ELSE IF file["term"] = 0 THEN Unavailable
  ELSE IF i + 1 = first THEN file["term"]
  ELSE Compacted

\* Whether entries(low, high) reads entries, all those from low to high - 1.
FsEntriesOK(low, high) == /\ low <= high
                          /\ first <= last
                          /\ low = high \/ (first <= low /\ high <= last + 1)

-----------------------------------------------------------------------------
\* After with_data_dir every file is there, also when an earlier start crashed
\* in the middle of init_raft_state: nothing later fails with NotFound.
OpensComplete == Idle => \A f \in MetaFile : file[f] # Missing

\* Whatever append or compact a crash has interrupted, the log can be read:
\* every entry from the first to the last index has its file, and the terms of
\* these and of the entry before the first, which the Raft library asks for
\* when it starts, are known.
LogIsReadable ==
  (\A f \in MetaFile : file[f] # Missing) =>
    /\ \A i \in first..last : entry[i] # Missing
    /\ \A i \in {first - 1} \cup first..last : FsTerm(i) >= 0

-----------------------------------------------------------------------------
(***************************************************************************)
(* The files implement StorageExt.  A file that does not exist yet stands  *)
(* for the value init_raft_state gives it.                                 *)
(***************************************************************************)
Content(f, initial) == IF file[f] = Missing THEN initial ELSE file[f]

Promised ==
  INSTANCE StorageExt WITH
    firstIndex    <- Content("first", 1),
    lastIndex     <- Content("last", 0),
    log           <- [i \in Content("first", 1)..Content("last", 0) |-> entry[i]],
    hardstate     <- Content("hardstate", 0),
    appliedIndex  <- Content("applied", 0),
    snapshotIndex <- Content("snapshot", 0)

\* With a crash between any two writes, what a reader finds in the files changes
\* as StorageExt allows: operations take effect at one of their writes, and a
\* committed entry is neither changed nor lost, except by compaction.
ImplementsStorageExt == Promised!Spec
=============================================================================
