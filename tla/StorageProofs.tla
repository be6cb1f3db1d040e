---- MODULE StorageProofs ----
(***************************************************************************)
(* Proofs about the storage, for logs, terms and caches of any bound: a    *)
(* crash between any two writes leaves a log that can be read, the files   *)
(* implement StorageExt, and the least-recently-used caches in front of    *)
(* them never hold anything that the files would not answer.               *)
(***************************************************************************)
EXTENDS CachedStorage, SequenceTheorems, InductionLemmas

-----------------------------------------------------------------------------
(* The writes of the operations. *)

\* A write to one of the six files, to an entry, or the removal of an entry.
LEMMA WriteTypes ==
  /\ \A f \in MetaFile, v \in Nat : Put(f, v) \in Write
  /\ \A i \in Index, t \in Nat : PutEntry(i, t) \in Write
  /\ \A i \in Index : Remove(i) \in Write
  BY DEF Put, PutEntry, Remove, Write

\* append writes its entries in order, then the last index.
LEMMA AppendWritesLemma ==
  ASSUME NEW k \in Index, NEW n \in Nat, NEW t \in Nat, k + n - 1 <= MaxIndex
  PROVE  LET s == AppendWrites(k, n, t)
         IN  /\ s \in Seq(Write)
             /\ Len(s) = n + 1
             /\ \A j \in 1..n : s[j] = PutEntry(k + j - 1, t)
             /\ s[n + 1] = Put("last", k + n - 1)
<1> DEFINE a == [j \in 1..n |-> PutEntry(k + j - 1, t)]
           b == <<Put("last", k + n - 1)>>
<1>1. ASSUME NEW j \in 1..n PROVE PutEntry(k + j - 1, t) \in Write
  <2>1. k + j - 1 \in Index
    BY StorageBounds DEF Index
  <2> QED  BY <2>1, WriteTypes
<1>2. a \in Seq(Write) /\ Len(a) = n
  BY <1>1
<1>3. b \in Seq(Write) /\ Len(b) = 1 /\ b[1] = Put("last", k + n - 1)
  <2>1. k + n - 1 \in Nat
    BY DEF Index
  <2> QED  BY <2>1, WriteTypes DEF MetaFile
<1>4. /\ a \o b \in Seq(Write) /\ Len(a \o b) = n + 1
      /\ \A j \in 1..(n + 1) : (a \o b)[j] = IF j <= n THEN a[j] ELSE b[j - n]
  <2> HIDE DEF a, b
  <2>1. /\ a \o b \in Seq(Write) /\ Len(a \o b) = Len(a) + Len(b)
        /\ \A j \in 1..(Len(a) + Len(b)) :
             (a \o b)[j] = IF j <= Len(a) THEN a[j] ELSE b[j - Len(a)]
    BY <1>2, <1>3, ConcatProperties
  <2> QED  BY <1>2, <1>3, <2>1
<1>5. \A j \in 1..n : (a \o b)[j] = PutEntry(k + j - 1, t)
  BY <1>4
<1>6. (a \o b)[n + 1] = Put("last", k + n - 1)
  <2>1. n + 1 \in 1..(n + 1) /\ ~(n + 1 <= n) /\ (n + 1) - n = 1
    OBVIOUS
  <2> HIDE DEF a, b
  <2> QED  BY <1>3, <1>4, <2>1
<1> QED  BY <1>4, <1>5, <1>6 DEF AppendWrites

\* The q-th write of an operation that compacts a log which starts at f up to entry
\* i, whose term is v; the last one is that of apply_snapshot.
CompactWrite(q, f, i, v) ==
  IF q = 1 THEN Put("term", v)
  ELSE IF q = 2 THEN Put("first", i + 1)
  ELSE IF q <= i - f + 3 THEN Remove(f + q - 3)
  ELSE Put("snapshot", i)

\* compact writes the term and the first index, then removes the entries.
LEMMA CompactWritesLemma ==
  ASSUME NEW i \in Index, first \in Index, CanCompact(i), entry[i] \in Nat
  PROVE  LET s == CompactWrites(i)
         IN  /\ s \in Seq(Write)
             /\ Len(s) = i - first + 3
             /\ \A q \in 1..(i - first + 3) : s[q] = CompactWrite(q, first, i, entry[i])
<1> DEFINE n == i - first + 1
           a == <<Put("term", entry[i]), Put("first", i + 1)>>
           b == [j \in 1..n |-> Remove(first + j - 1)]
<1>1. n \in Nat /\ first \in Nat /\ i \in Nat
  BY DEF Index, CanCompact
<1>2. a \in Seq(Write) /\ Len(a) = 2
  <2>1. Put("term", entry[i]) \in Write /\ Put("first", i + 1) \in Write
    BY <1>1, WriteTypes DEF MetaFile
  <2> QED  BY <2>1
<1>3. b \in Seq(Write) /\ Len(b) = n
  <2>1. ASSUME NEW j \in 1..n PROVE Remove(first + j - 1) \in Write
    <3>1. first + j - 1 \in Index
      BY <1>1, StorageBounds DEF Index
    <3> QED  BY <3>1, WriteTypes
  <2> QED  BY <1>1, <2>1
<1>4. /\ a \o b \in Seq(Write) /\ Len(a \o b) = 2 + n
      /\ \A q \in 1..(2 + n) : (a \o b)[q] = IF q <= 2 THEN a[q] ELSE b[q - 2]
  <2> HIDE DEF a, b, n
  <2>1. /\ a \o b \in Seq(Write) /\ Len(a \o b) = Len(a) + Len(b)
        /\ \A q \in 1..(Len(a) + Len(b)) :
             (a \o b)[q] = IF q <= Len(a) THEN a[q] ELSE b[q - Len(a)]
    BY <1>2, <1>3, ConcatProperties
  <2> QED  BY <1>1, <1>2, <1>3, <2>1
<1>5. ASSUME NEW q \in 1..(2 + n) PROVE (a \o b)[q] = CompactWrite(q, first, i, entry[i])
  <2>1. CASE q = 1
    BY <1>1, <1>4, <2>1 DEF CompactWrite
  <2>2. CASE q = 2
    BY <1>1, <1>4, <2>2 DEF CompactWrite
  <2>3. CASE q \in 3..(2 + n)
    <3>1. (a \o b)[q] = b[q - 2]
      BY <1>1, <1>4, <2>3
    <3>2. q - 2 \in 1..n /\ first + (q - 2) - 1 = first + q - 3
      BY <1>1, <2>3
    <3>3. b[q - 2] = Remove(first + q - 3)
      BY <3>2
    <3>4. CompactWrite(q, first, i, entry[i]) = Remove(first + q - 3)
      BY <1>1, <2>3 DEF CompactWrite
    <3> QED  BY <3>1, <3>3, <3>4
  <2> QED  BY <1>1, <2>1, <2>2, <2>3
<1>6. CompactWrites(i) = a \o b /\ 2 + n = i - first + 3
  BY <1>1 DEF CompactWrites
<1> QED  BY <1>4, <1>5, <1>6

\* apply_snapshot compacts, then writes the snapshot.
LEMMA ApplySnapshotWritesLemma ==
  ASSUME NEW i \in Index, first \in Index, CanCompact(i), entry[i] \in Nat, snapshot < i
  PROVE  LET s == ApplySnapshotWrites(i)
         IN  /\ s \in Seq(Write)
             /\ Len(s) = i - first + 4
             /\ \A q \in 1..(i - first + 4) : s[q] = CompactWrite(q, first, i, entry[i])
<1> DEFINE c == CompactWrites(i)
           w == Put("snapshot", i)
<1>1. first \in Nat /\ i \in Nat /\ first <= i
  BY DEF Index, CanCompact
<1>2. /\ c \in Seq(Write) /\ Len(c) = i - first + 3
      /\ \A q \in 1..(i - first + 3) : c[q] = CompactWrite(q, first, i, entry[i])
  BY CompactWritesLemma
<1>3. w \in Write
  BY <1>1, WriteTypes DEF MetaFile
<1>4. ApplySnapshotWrites(i) = Append(c, w)
  BY DEF ApplySnapshotWrites
<1>5. CompactWrite(i - first + 4, first, i, entry[i]) = w
  BY <1>1 DEF CompactWrite
<1> HIDE DEF c, w
<1>6. /\ Append(c, w) \in Seq(Write) /\ Len(Append(c, w)) = Len(c) + 1
      /\ \A q \in 1..Len(c) : Append(c, w)[q] = c[q]
      /\ Append(c, w)[Len(c) + 1] = w
  BY <1>2, <1>3, AppendProperties
<1>7. /\ Len(Append(c, w)) = i - first + 4
      /\ \A q \in 1..(i - first + 3) : Append(c, w)[q] = c[q]
      /\ Append(c, w)[i - first + 4] = w
  BY <1>1, <1>2, <1>6
<1>8. \A q \in 1..(i - first + 4) : q \in 1..(i - first + 3) \/ q = i - first + 4
  BY <1>1
<1> QED  BY <1>2, <1>4, <1>5, <1>6, <1>7, <1>8

-----------------------------------------------------------------------------
(* The inductive invariant of the files. *)

\* What init_raft_state gives a file.
InitialValue(f) == IF f = "first" THEN 1 ELSE 0

\* Before init_raft_state has made its last write: nothing but its own writes has
\* been made, and when it runs those it still has to make are a suffix of them.
Fresh ==
  /\ \A i \in Index : entry[i] = Missing
  /\ \A f \in MetaFile : file[f] \in {Missing, InitialValue(f)}
  /\ up => \E p \in 0..5 :
        /\ Len(todo) = 6 - p
        /\ \A j \in 1..(6 - p) : todo[j] = InitWrites[p + j]
        /\ \A j \in 1..p : file[InitWrites[j].name] # Missing

\* One write is pending: the HardState, the applied index or a snapshot.
Single ==
  /\ Len(todo) = 1
  /\ \/ \E c \in (commit + 1)..last : todo[1] = Put("hardstate", c)
     \/ \E a \in (file["applied"] + 1)..commit : todo[1] = Put("applied", a)
     \/ \E i \in Index : snapshot < i /\ todo[1] = Put("snapshot", i)

\* append of n entries of term t from k on has written the first p of them.
Appending(k, n, t) ==
  LET p == n + 1 - Len(todo)
  IN  /\ p \in 0..n
      /\ commit < k
      /\ k + n - 1 <= MaxIndex
      /\ first <= k
      /\ k <= last + 1 \/ k = first
      /\ k > first => entry[k - 1] <= t
      /\ \A j \in 1..(n - p) : todo[j] = PutEntry(k + p + j - 1, t)
      /\ todo[n - p + 1] = Put("last", k + n - 1)
      /\ \A i \in k..(k + p - 1) : entry[i] = t

\* compact, or apply_snapshot, of the entries f..i has made p of its writes.
Compacting(f, i, v, p) ==
   /\ f <= i
   /\ Len(todo) >= 1
   /\ Len(todo) + p \in {i - f + 3, i - f + 4}
   /\ Len(todo) + p = i - f + 4 => snapshot < i
   /\ \A j \in 1..Len(todo) : todo[j] = CompactWrite(p + j, f, i, v)
   /\ p < 2 => first = f
   /\ p >= 1 => file["term"] = v
   /\ p >= 2 => first = i + 1

Pending ==
  \/ todo = << >>
  \/ Single
  \/ \E k \in Index, n \in Index, t \in 1..MaxTerm : Appending(k, n, t)
  \/ \E f \in Index, i \in Index, v \in 1..MaxTerm, p \in Nat : Compacting(f, i, v, p)

\* The files are all there and agree with each other.
Consistent ==
  /\ \A f \in MetaFile : file[f] # Missing
  /\ 1 <= first /\ first <= MaxIndex + 1
  /\ file["applied"] <= commit /\ commit <= last /\ last <= MaxIndex
  /\ \A i \in first..last : entry[i] # Missing
  /\ first > 1 => file["term"] >= 1

FsInv ==
  /\ FsTypeOK
  /\ \A i \in Index : entry[i] \in 1..MaxTerm \cup {Missing}
  /\ ~up => todo = << >>
  /\ snapshot = Missing => Fresh
  /\ snapshot # Missing => Consistent /\ Pending

\* The invariant holds of an empty directory.
LEMMA FsInitInv == FsInit => FsInv
<1> SUFFICES ASSUME FsInit PROVE FsInv
  OBVIOUS
<1>1. FsTypeOK
  <2>1. << >> \in Seq(Write)
    OBVIOUS
  <2> QED  BY <2>1 DEF FsInit, FsTypeOK
<1>2. Fresh
  BY DEF FsInit, Fresh
<1>3. snapshot = Missing
  BY DEF FsInit, snapshot, MetaFile
<1> QED  BY <1>1, <1>2, <1>3 DEF FsInit, FsInv

\* The types of what the files hold once they are all there.
LEMMA ConsistentTypes ==
  ASSUME FsTypeOK, Consistent
  PROVE  /\ first \in Nat \ {0} /\ last \in Nat /\ commit \in Nat /\ snapshot \in Nat
         /\ file["applied"] \in Nat /\ file["term"] \in Nat
         /\ file \in [MetaFile -> Nat]
<1>1. file \in [MetaFile -> Nat]
  BY DEF FsTypeOK, Consistent
<1> QED  BY <1>1 DEF MetaFile, first, last, commit, snapshot, Consistent

\* Only a storage whose files are all there is idle.
LEMMA IdleIsConsistent ==
  ASSUME FsInv, Idle
  PROVE  snapshot # Missing /\ Consistent
<1>1. CASE snapshot = Missing
  <2>1. PICK p \in 0..5 : Len(todo) = 6 - p
    BY <1>1 DEF FsInv, Fresh, Idle
  <2>2. Len(todo) = 0
    BY DEF Idle
  <2> QED  BY <2>1, <2>2
<1> QED  BY <1>1 DEF FsInv

\* An operation that starts preserves the invariant if its writes have one of the
\* shapes that the invariant knows.
LEMMA PerformInv ==
  ASSUME FsInv, Idle, NEW writes \in Seq(Write), Perform(writes), Pending'
  PROVE  FsInv'
<1>1. snapshot # Missing /\ Consistent
  BY IdleIsConsistent
<1>2. file' = file /\ entry' = entry /\ up' = up /\ up /\ todo' = writes
  BY DEF Perform, Idle
<1>3. FsTypeOK'
  BY <1>2 DEF FsInv, FsTypeOK
<1>4. snapshot' # Missing /\ Consistent'
  BY <1>1, <1>2 DEF snapshot, Consistent, first, last, commit
<1>5. (\A i \in Index : entry[i] \in 1..MaxTerm \cup {Missing})'
  BY <1>2 DEF FsInv
<1> QED  BY <1>2, <1>3, <1>4, <1>5 DEF FsInv

\* An operation without writes leaves nothing pending.
LEMMA NoWritesInv ==
  ASSUME FsInv, Idle, Perform(<< >>)
  PROVE  FsInv'
<1>1. << >> \in Seq(Write)
  OBVIOUS
<1>2. Pending'
  BY DEF Pending, Perform
<1> QED  BY <1>1, <1>2, PerformInv

\* The same for one write.
LEMMA SingleInv ==
  ASSUME FsInv, Idle, NEW w \in Write, Perform(<<w>>),
         \/ \E c \in (commit + 1)..last : w = Put("hardstate", c)
         \/ \E a \in (file["applied"] + 1)..commit : w = Put("applied", a)
         \/ \E i \in Index : snapshot < i /\ w = Put("snapshot", i)
  PROVE  FsInv'
<1>1. <<w>> \in Seq(Write) /\ Len(<<w>>) = 1 /\ <<w>>[1] = w
  OBVIOUS
<1>2. Single'
  BY <1>1 DEF Single, Perform, commit, last, snapshot
<1> QED  BY <1>1, <1>2, PerformInv DEF Pending

-----------------------------------------------------------------------------
(* Each operation preserves the invariant when it starts. *)

LEMMA AppendEntriesInv == FsInv /\ AppendEntries => FsInv'
<1> SUFFICES ASSUME FsInv, AppendEntries PROVE FsInv'
  OBVIOUS
<1>1. Idle /\ FsTypeOK /\ Consistent
  BY IdleIsConsistent DEF AppendEntries, FsInv
<1>2. PICK k \in AppendTo : \E n \in 1..(MaxIndex - k + 1), t \in 1..MaxTerm :
             /\ k > first => t >= entry[k - 1]
             /\ Perform(AppendWrites(k, n, t))
  BY DEF AppendEntries
<1>3. PICK n \in 1..(MaxIndex - k + 1), t \in 1..MaxTerm :
             /\ k > first => t >= entry[k - 1]
             /\ Perform(AppendWrites(k, n, t))
  BY <1>2
<1>4. /\ k \in Index /\ n \in Index /\ k + n - 1 <= MaxIndex /\ n \in Nat /\ t \in Nat
      /\ commit < k /\ first <= k /\ (k <= last + 1 \/ k = first)
  BY <1>1, ConsistentTypes, StorageBounds DEF AppendTo, Index
<1> DEFINE s == AppendWrites(k, n, t)
<1>5. /\ s \in Seq(Write) /\ Len(s) = n + 1
      /\ \A j \in 1..n : s[j] = PutEntry(k + j - 1, t)
      /\ s[n + 1] = Put("last", k + n - 1)
  BY <1>4, AppendWritesLemma
<1> HIDE DEF s
<1>6. file' = file /\ entry' = entry /\ todo' = s
  BY <1>3 DEF Perform, s
<1>7. k > first => entry[k - 1] <= t
  <2>1. k > first => k - 1 \in first..last /\ k - 1 \in Index
    BY <1>1, <1>4, ConsistentTypes, StorageBounds DEF Index
  <2>2. k > first => entry[k - 1] \in Nat
    BY <1>1, <2>1 DEF Consistent, FsTypeOK
  <2> QED  BY <1>3, <1>4, <2>2
<1>8. Appending(k, n, t)'
  <2>1. n + 1 - Len(todo') = 0
    BY <1>4, <1>5, <1>6
  <2>2. first' = first /\ last' = last /\ commit' = commit
    BY <1>6 DEF first, last, commit
  <2>3. /\ 0 \in 0..n
        /\ \A j \in 1..(n - 0) : s[j] = PutEntry(k + 0 + j - 1, t)
        /\ s[n - 0 + 1] = Put("last", k + n - 1)
        /\ \A i \in k..(k + 0 - 1) : entry[i] = t
    BY <1>4, <1>5 DEF Index
  <2> QED  BY <1>4, <1>6, <1>7, <2>1, <2>2, <2>3 DEF Appending
<1>9. Pending'
  BY <1>4, <1>8 DEF Pending
<1> QED  BY <1>1, <1>3, <1>5, <1>9, PerformInv DEF s

LEMMA SetHardstateInv == FsInv /\ SetHardstate => FsInv'
<1> SUFFICES ASSUME FsInv, SetHardstate PROVE FsInv'
  OBVIOUS
<1>1. Idle /\ FsTypeOK /\ Consistent
  BY IdleIsConsistent DEF SetHardstate, FsInv
<1>2. PICK c \in (commit + 1)..last : Perform(<<Put("hardstate", c)>>)
  BY DEF SetHardstate
<1>3. c \in Nat
  BY <1>1, ConsistentTypes
<1>4. Put("hardstate", c) \in Write
  BY <1>3, WriteTypes DEF MetaFile
<1> QED  BY <1>1, <1>2, <1>4, SingleInv

LEMMA SetAppliedInv == FsInv /\ SetApplied => FsInv'
<1> SUFFICES ASSUME FsInv, SetApplied PROVE FsInv'
  OBVIOUS
<1>1. Idle /\ FsTypeOK /\ Consistent
  BY IdleIsConsistent DEF SetApplied, FsInv
<1>2. PICK a \in (file["applied"] + 1)..commit : Perform(<<Put("applied", a)>>)
  BY DEF SetApplied
<1>3. a \in Nat
  BY <1>1, ConsistentTypes
<1>4. Put("applied", a) \in Write
  BY <1>3, WriteTypes DEF MetaFile
<1> QED  BY <1>1, <1>2, <1>4, SingleInv

LEMMA CreateSnapshotInv == FsInv /\ CreateSnapshot => FsInv'
<1> SUFFICES ASSUME FsInv, CreateSnapshot PROVE FsInv'
  OBVIOUS
<1>1. Idle /\ FsTypeOK /\ Consistent
  BY IdleIsConsistent DEF CreateSnapshot, FsInv
<1>2. PICK i \in Index : Perform(CreateSnapshotWrites(i))
  BY DEF CreateSnapshot
<1>3. CASE i <= snapshot
  BY <1>1, <1>2, <1>3, NoWritesInv DEF CreateSnapshotWrites
<1>4. CASE ~(i <= snapshot)
  <2>1. snapshot < i /\ i \in Nat
    BY <1>1, <1>4, ConsistentTypes DEF Index
  <2>2. Put("snapshot", i) \in Write
    BY <2>1, WriteTypes DEF MetaFile
  <2>3. Perform(<<Put("snapshot", i)>>)
    BY <1>2, <1>4 DEF CreateSnapshotWrites
  <2> QED  BY <1>1, <2>1, <2>2, <2>3, SingleInv
<1> QED  BY <1>3, <1>4

\* compact and apply_snapshot, for the writes s of either.
LEMMA StartCompacting ==
  ASSUME FsInv, Idle, NEW i \in Index, CanCompact(i),
         NEW s \in Seq(Write), Perform(s),
         \/ Len(s) = i - first + 3
         \/ Len(s) = i - first + 4 /\ snapshot < i,
         \A q \in 1..Len(s) : s[q] = CompactWrite(q, first, i, entry[i])
  PROVE  FsInv'
<1>1. FsTypeOK /\ Consistent
  BY IdleIsConsistent DEF FsInv
<1>2. /\ first \in Nat \ {0} /\ first <= i /\ i \in Nat /\ i \in first..i /\ first \in Index
  BY <1>1, ConsistentTypes, StorageBounds DEF CanCompact, Index
<1>3. entry[i] \in 1..MaxTerm
  BY <1>2 DEF CanCompact, FsInv
<1>4. file' = file /\ entry' = entry /\ todo' = s /\ first' = first /\ snapshot' = snapshot
  BY DEF Perform, first, snapshot
<1>5. Len(s) \in Nat /\ Len(s) >= 1
  BY <1>2
<1> DEFINE f == first
           v == entry[i]
<1>6. f \in Index /\ v \in 1..MaxTerm /\ f' = f /\ v' = v
  BY <1>2, <1>3, <1>4
<1>7. /\ f <= i /\ Len(s) >= 1 /\ Len(s) + 0 \in {i - f + 3, i - f + 4}
      /\ Len(s) + 0 = i - f + 4 => snapshot < i
      /\ \A q \in 1..Len(s) : s[q] = CompactWrite(0 + q, f, i, v)
  BY <1>2, <1>5
<1> HIDE DEF f, v
<1>8. \E ff \in Index, vv \in 1..MaxTerm : Compacting(ff, i, vv, 0)'
  <2>1. first = f
    BY DEF f
  <2> QED  BY <1>4, <1>6, <1>7, <2>1 DEF Compacting
<1>9. Pending'
  BY <1>8 DEF Pending
<1> QED  BY <1>9, PerformInv

LEMMA CompactInv == FsInv /\ Compact => FsInv'
<1> SUFFICES ASSUME FsInv, Compact PROVE FsInv'
  OBVIOUS
<1>1. Idle /\ FsTypeOK /\ Consistent
  BY IdleIsConsistent DEF Compact, FsInv
<1>2. PICK i \in 0..file["applied"] : Perform(CompactWrites(i))
  BY DEF Compact
<1>3. CASE ~CanCompact(i)
  BY <1>1, <1>2, <1>3, NoWritesInv DEF CompactWrites
<1>4. CASE CanCompact(i)
  <2>1. i \in Index /\ first \in Index
    BY <1>1, <1>4, ConsistentTypes, StorageBounds DEF CanCompact, Consistent, Index
  <2>2. entry[i] \in Nat
    BY <1>1, <1>4, <2>1 DEF CanCompact, FsTypeOK, Index
  <2>3. /\ CompactWrites(i) \in Seq(Write)
        /\ Len(CompactWrites(i)) = i - first + 3
        /\ \A q \in 1..Len(CompactWrites(i)) :
             CompactWrites(i)[q] = CompactWrite(q, first, i, entry[i])
    BY <1>4, <2>1, <2>2, CompactWritesLemma
  <2> QED  BY <1>1, <1>2, <1>4, <2>1, <2>3, StartCompacting
<1> QED  BY <1>3, <1>4

LEMMA ApplySnapshotInv == FsInv /\ ApplySnapshot => FsInv'
<1> SUFFICES ASSUME FsInv, ApplySnapshot PROVE FsInv'
  OBVIOUS
<1>1. Idle /\ FsTypeOK /\ Consistent
  BY IdleIsConsistent DEF ApplySnapshot, FsInv
<1>2. PICK i \in Index : Perform(ApplySnapshotWrites(i))
  BY DEF ApplySnapshot
<1>3. CASE ~(snapshot < i /\ CanCompact(i))
  <2>1. Perform(<< >>)
    BY <1>2, <1>3 DEF ApplySnapshotWrites
  <2> QED  BY <1>1, <2>1, NoWritesInv
<1>4. CASE snapshot < i /\ CanCompact(i)
  <2>1. first \in Index
    BY <1>1, <1>4, ConsistentTypes, StorageBounds DEF CanCompact, Consistent, Index
  <2>2. entry[i] \in Nat
    BY <1>1, <1>4, <2>1 DEF CanCompact, FsTypeOK, Index
  <2>3. /\ ApplySnapshotWrites(i) \in Seq(Write)
        /\ Len(ApplySnapshotWrites(i)) = i - first + 4
        /\ \A q \in 1..Len(ApplySnapshotWrites(i)) :
             ApplySnapshotWrites(i)[q] = CompactWrite(q, first, i, entry[i])
    BY <1>4, <2>1, <2>2, ApplySnapshotWritesLemma
  <2> QED  BY <1>1, <1>2, <1>4, <2>3, StartCompacting
<1> QED  BY <1>3, <1>4

-----------------------------------------------------------------------------
(* Starting and stopping preserve the invariant. *)

LEMMA OpenInv == FsInv /\ Open => FsInv'
<1> SUFFICES ASSUME FsInv, Open PROVE FsInv'
  OBVIOUS
<1>1. file' = file /\ entry' = entry /\ up' = TRUE /\ ~up
  BY DEF Open
<1>2. CASE snapshot = Missing
  <2>1. todo' = InitWrites
    BY <1>2 DEF Open
  <2>2. InitWrites \in Seq(Write) /\ Len(InitWrites) = 6
    BY WriteTypes DEF InitWrites, MetaFile
  <2>3. Fresh'
    <3>1. \A j \in 1..(6 - 0) : todo'[j] = InitWrites[0 + j]
      BY <2>1
    <3> QED  BY <1>1, <1>2, <2>1, <2>2, <3>1 DEF FsInv, Fresh
  <2> QED  BY <1>1, <1>2, <2>1, <2>2, <2>3 DEF FsInv, FsTypeOK, snapshot
<1>3. CASE snapshot # Missing
  <2>1. Consistent
    BY <1>3 DEF FsInv
  <2>2. commit # Missing
    BY <2>1 DEF Consistent, commit, MetaFile
  <2>3. todo' = << >>
    BY <1>3, <2>2 DEF Open
  <2>4. Consistent'
    BY <1>1, <2>1 DEF Consistent, first, last, commit
  <2> QED  BY <1>1, <1>3, <2>3, <2>4 DEF FsInv, FsTypeOK, snapshot, Pending
<1> QED  BY <1>2, <1>3

LEMMA HaltInv == FsInv /\ Halt => FsInv'
<1> SUFFICES ASSUME FsInv, Halt PROVE FsInv'
  OBVIOUS
<1>1. file' = file /\ entry' = entry /\ up' = FALSE /\ todo' = << >>
  BY DEF Halt
<1>2. snapshot' = Missing => Fresh'
  BY <1>1 DEF FsInv, Fresh, snapshot
<1>3. snapshot' # Missing => Consistent' /\ Pending'
  BY <1>1 DEF FsInv, Consistent, Pending, snapshot, first, last, commit
<1>4. FsTypeOK'
  <2>1. << >> \in Seq(Write)
    OBVIOUS
  <2> QED  BY <1>1, <2>1 DEF FsInv, FsTypeOK
<1>5. (\A i \in Index : entry[i] \in 1..MaxTerm \cup {Missing})'
  BY <1>1 DEF FsInv
<1> QED  BY <1>1, <1>2, <1>3, <1>4, <1>5 DEF FsInv

-----------------------------------------------------------------------------
(* A write. *)

\* What a write leaves to be done.
LEMMA TodoAfterWrite ==
  ASSUME FsTypeOK, DoWrite
  PROVE  /\ Len(todo) \in Nat \ {0} /\ todo[1] \in Write
         /\ todo' \in Seq(Write) /\ Len(todo') = Len(todo) - 1
         /\ \A j \in 1..(Len(todo) - 1) : todo'[j] = todo[j + 1]
         /\ Len(todo) = 1 => todo' = << >>
<1>1. todo \in Seq(Write) /\ todo # << >> /\ todo' = Tail(todo)
  BY DEF FsTypeOK, DoWrite
<1>2. Len(todo) \in Nat \ {0}
  BY <1>1, EmptySeq
<1>3. Head(todo) = todo[1] /\ Head(todo) \in Write
  BY <1>1, HeadTailProperties
<1>4. /\ Tail(todo) \in Seq(Write) /\ Len(Tail(todo)) = Len(todo) - 1
      /\ \A j \in 1..Len(Tail(todo)) : Tail(todo)[j] = todo[j + 1]
  BY <1>1, HeadTailProperties
<1>5. Len(todo) = 1 => Tail(todo) = << >>
  <2>1. \A s \in Seq(Write) : Len(s) = 0 => s = << >>
    BY EmptySeq
  <2> DEFINE r == Tail(todo)
  <2>2. r \in Seq(Write) /\ Len(r) = Len(todo) - 1
    BY <1>4
  <2> HIDE DEF r
  <2>3. Len(todo) = 1 => r = << >>
    BY <1>2, <2>1, <2>2
  <2> QED  BY <2>3 DEF r
<1> QED  BY <1>1, <1>2, <1>3, <1>4, <1>5

\* A write to one of the six files.
LEMMA PutStep ==
  ASSUME FsTypeOK, DoWrite, NEW f \in MetaFile, NEW v \in Nat, todo[1] = Put(f, v)
  PROVE  /\ file' = [file EXCEPT ![f] = v] /\ entry' = entry /\ up' = up
         /\ file'[f] = v /\ \A g \in MetaFile : g # f => file'[g] = file[g]
         /\ FsTypeOK'
<1>1. Head(todo) = todo[1] /\ todo' \in Seq(Write)
  BY TodoAfterWrite, HeadTailProperties DEF FsTypeOK, DoWrite
<1>2. todo[1].name = f /\ todo[1].value = v /\ f # "entry"
  BY DEF Put, MetaFile
<1>3. file' = [file EXCEPT ![f] = v] /\ entry' = entry /\ up' = up
  BY <1>1, <1>2 DEF DoWrite
<1> QED  BY <1>1, <1>3 DEF FsTypeOK

\* A write to an entry's file, or its removal.
LEMMA EntryStep ==
  ASSUME FsTypeOK, DoWrite, NEW i \in Index, NEW v \in Nat \cup {Missing},
         todo[1] = PutEntry(i, v)
  PROVE  /\ entry' = [entry EXCEPT ![i] = v] /\ file' = file /\ up' = up
         /\ entry'[i] = v /\ \A j \in Index : j # i => entry'[j] = entry[j]
         /\ FsTypeOK'
<1>1. Head(todo) = todo[1] /\ todo' \in Seq(Write)
  BY TodoAfterWrite, HeadTailProperties DEF FsTypeOK, DoWrite
<1>2. todo[1].name = "entry" /\ todo[1].index = i /\ todo[1].value = v
  BY DEF PutEntry
<1>3. entry' = [entry EXCEPT ![i] = v] /\ file' = file /\ up' = up
  BY <1>1, <1>2 DEF DoWrite
<1> QED  BY <1>1, <1>3 DEF FsTypeOK

\* What init_raft_state writes.
LEMMA InitWritesLemma ==
  ASSUME NEW q \in 1..6
  PROVE  /\ InitWrites[q].name \in MetaFile
         /\ InitWrites[q] = Put(InitWrites[q].name, InitialValue(InitWrites[q].name))
         /\ q < 6 <=> InitWrites[q].name # "snapshot"
<1>1. q \in {1, 2, 3, 4, 5, 6}
  OBVIOUS
<1> QED  BY <1>1 DEF InitWrites, Put, InitialValue, MetaFile

\* A write of init_raft_state preserves the invariant, and no reader can tell.
LEMMA InitWriteStep ==
  ASSUME FsInv, DoWrite, snapshot = Missing
  PROVE  FsInv' /\ UNCHANGED Promised!vars
<1>1. FsTypeOK /\ Fresh /\ up
  BY DEF FsInv, DoWrite
<1>2. PICK p \in 0..5 :
        /\ Len(todo) = 6 - p
        /\ \A j \in 1..(6 - p) : todo[j] = InitWrites[p + j]
        /\ \A j \in 1..p : file[InitWrites[j].name] # Missing
  BY <1>1 DEF Fresh
<1> DEFINE g == InitWrites[p + 1].name
<1>3. /\ g \in MetaFile /\ todo[1] = Put(g, InitialValue(g))
      /\ p < 5 <=> g # "snapshot"
  <2>1. p + 1 \in 1..6 /\ 1 \in 1..(6 - p) /\ (p + 1 < 6 <=> p < 5)
    OBVIOUS
  <2> QED  BY <1>2, <2>1, InitWritesLemma
<1>4. InitialValue(g) \in Nat
  BY DEF InitialValue
<1>5. /\ entry' = entry /\ up' = up /\ FsTypeOK'
      /\ file'[g] = InitialValue(g) /\ \A f \in MetaFile : f # g => file'[f] = file[f]
  BY <1>1, <1>3, <1>4, PutStep
<1>6. /\ todo' \in Seq(Write) /\ Len(todo') = 6 - (p + 1)
      /\ \A j \in 1..(6 - (p + 1)) : todo'[j] = InitWrites[(p + 1) + j]
  <2>1. /\ Len(todo') = Len(todo) - 1
        /\ \A j \in 1..(Len(todo) - 1) : todo'[j] = todo[j + 1]
        /\ todo' \in Seq(Write)
    BY <1>1, TodoAfterWrite
  <2>2. \A j \in 1..(6 - (p + 1)) : /\ j \in 1..(Len(todo) - 1) /\ j + 1 \in 1..(6 - p)
                                  /\ p + (j + 1) = (p + 1) + j
    BY <1>2
  <2> QED  BY <1>2, <2>1, <2>2
<1> HIDE DEF g
<1>7. \A j \in 1..(p + 1) : file'[InitWrites[j].name] # Missing
  <2>1. InitialValue(g) # Missing /\ InitWrites[p + 1].name = g
    BY <1>4 DEF Missing, g
  <2>2. \A j \in 1..p : InitWrites[j].name \in MetaFile
    BY InitWritesLemma
  <2>3. \A j \in 1..(p + 1) : j \in 1..p \/ j = p + 1
    OBVIOUS
  <2> QED  BY <1>2, <1>5, <2>1, <2>2, <2>3
<1>8. \A f \in MetaFile : file'[f] \in {Missing, InitialValue(f)}
  BY <1>1, <1>5 DEF Fresh
<1>9. (\A i \in Index : entry[i] \in 1..MaxTerm \cup {Missing})'
  BY <1>5 DEF FsInv
<1>10. up'
  BY <1>1, <1>5, Zenon
<1>11. FsInv'
  <2>1. CASE p < 5
    <3>1. Fresh'
      <4>1. p + 1 \in 0..5
        BY <2>1
      <4>2. \E r \in 0..5 :
               /\ Len(todo') = 6 - r
               /\ \A j \in 1..(6 - r) : todo'[j] = InitWrites[r + j]
               /\ \A j \in 1..r : file'[InitWrites[j].name] # Missing
        BY <1>6, <1>7, <4>1
      <4> QED  BY <1>1, <1>5, <1>8, <4>2 DEF Fresh
    <3>2. snapshot' = Missing
      BY <1>3, <1>5, <2>1 DEF snapshot, MetaFile
    <3> QED  BY <1>5, <1>9, <1>10, <3>1, <3>2 DEF FsInv
  <2>2. CASE p = 5
    <3>1. todo' = << >>
      BY <1>6, <2>2, EmptySeq
    <3>2. \A f \in MetaFile : file'[f] = InitialValue(f)
      <4>1. \A f \in MetaFile : \E j \in 1..6 : InitWrites[j].name = f
        BY DEF MetaFile, InitWrites, Put
      <4>2. \A f \in MetaFile : file'[f] # Missing
        BY <1>7, <2>2, <4>1
      <4> QED  BY <1>8, <4>2
    <3>3. Consistent'
      <4>1. /\ file'["first"] = 1 /\ file'["last"] = 0 /\ file'["applied"] = 0
            /\ file'["hardstate"] = 0 /\ file'["snapshot"] = 0
        BY <3>2 DEF MetaFile, InitialValue
      <4>2. \A f \in MetaFile : file'[f] # Missing
        BY <3>2 DEF InitialValue, Missing
      <4> QED  BY <4>1, <4>2, StorageBounds DEF Consistent, first, last, commit
    <3>4. Pending'
      BY <3>1 DEF Pending
    <3>5. snapshot' # Missing
      BY <3>2 DEF snapshot, MetaFile, InitialValue, Missing
    <3> QED  BY <1>5, <1>9, <1>10, <3>3, <3>4, <3>5 DEF FsInv
  <2> QED  BY <2>1, <2>2
<1>12. \A f \in MetaFile : Content(f, InitialValue(f))' = Content(f, InitialValue(f))
  BY <1>1, <1>5, <1>8 DEF Content, Fresh
<1>13. /\ Content("first", 1)' = Content("first", 1)
       /\ Content("last", 0)' = Content("last", 0)
       /\ Content("hardstate", 0)' = Content("hardstate", 0)
       /\ Content("applied", 0)' = Content("applied", 0)
       /\ Content("snapshot", 0)' = Content("snapshot", 0)
  BY <1>12 DEF MetaFile, InitialValue
<1>14. UNCHANGED Promised!vars
  BY <1>5, <1>13 DEF Promised!vars
<1> QED  BY <1>11, <1>14

\* What StorageExt sees of files that are all there.
LEMMA Seen ==
  ASSUME Consistent
  PROVE  /\ Content("first", 1) = first /\ Content("last", 0) = last
         /\ Content("hardstate", 0) = commit /\ Content("applied", 0) = file["applied"]
         /\ Content("snapshot", 0) = snapshot
  BY DEF Consistent, Content, MetaFile, first, last, commit, snapshot

LEMMA SeenAfter ==
  ASSUME Consistent'
  PROVE  /\ Content("first", 1)' = first' /\ Content("last", 0)' = last'
         /\ Content("hardstate", 0)' = commit' /\ Content("applied", 0)' = file'["applied"]
         /\ Content("snapshot", 0)' = snapshot'
  BY DEF Consistent, Content, MetaFile, first, last, commit, snapshot

\* A write that leaves the files consistent and a known shape of writes.
LEMMA WriteInv ==
  ASSUME FsInv, DoWrite, FsTypeOK', Consistent', Pending',
         \A i \in Index : entry'[i] \in 1..MaxTerm \cup {Missing}
  PROVE  FsInv'
<1>1. up'
  <2>1. todo # << >> /\ up' = up
    BY DEF DoWrite
  <2>2. up
    BY <2>1 DEF FsInv
  <2> QED  BY <2>1, <2>2, Zenon
<1>2. snapshot' # Missing
  BY DEF Consistent, snapshot, MetaFile
<1> QED  BY <1>1, <1>2 DEF FsInv

\* The one write of set_hardstate, set_applied or create_snapshot.
LEMMA SingleStep ==
  ASSUME FsInv, DoWrite, snapshot # Missing, Single
  PROVE  FsInv' /\ Promised!Next
<1>1. FsTypeOK /\ Consistent
  BY DEF FsInv
<1>2. /\ first \in Nat \ {0} /\ last \in Nat /\ commit \in Nat /\ snapshot \in Nat
      /\ file["applied"] \in Nat /\ file["term"] \in Nat
      /\ last <= MaxIndex /\ commit <= last
  BY <1>1, ConsistentTypes DEF Consistent
<1>3. todo' = << >> /\ Pending'
  BY <1>1, TodoAfterWrite DEF Single, Pending
<1>4. ASSUME NEW c \in (commit + 1)..last, todo[1] = Put("hardstate", c)
      PROVE  FsInv' /\ Promised!Next
  <2>1. "hardstate" \in MetaFile /\ c \in Nat
    BY <1>2 DEF MetaFile
  <2>2. /\ entry' = entry /\ FsTypeOK'
        /\ file'["hardstate"] = c
        /\ \A g \in MetaFile : g # "hardstate" => file'[g] = file[g]
    BY <1>1, <1>4, <2>1, PutStep
  <2>3. /\ first' = first /\ last' = last /\ commit' = c /\ snapshot' = snapshot
        /\ file'["applied"] = file["applied"] /\ file'["term"] = file["term"]
        /\ \A g \in MetaFile : file'[g] # Missing
    BY <1>1, <2>1, <2>2 DEF first, last, commit, snapshot, MetaFile, Consistent, Missing
  <2>4. Consistent'
    BY <1>1, <1>2, <2>2, <2>3 DEF Consistent
  <2>5. FsInv'
    BY <1>3, <2>2, <2>4, WriteInv DEF FsInv
  <2>6. Promised!SetHardstate(c)
    BY <1>1, <1>2, <2>2, <2>3, <2>4, Seen, SeenAfter DEF Promised!SetHardstate
  <2>7. c \in 1..MaxIndex
    BY <1>2, StorageBounds
  <2> QED  BY <2>5, <2>6, <2>7 DEF Promised!Next
<1>5. ASSUME NEW a \in (file["applied"] + 1)..commit, todo[1] = Put("applied", a)
      PROVE  FsInv' /\ Promised!Next
  <2>1. "applied" \in MetaFile /\ a \in Nat
    BY <1>2 DEF MetaFile
  <2>2. /\ entry' = entry /\ FsTypeOK'
        /\ file'["applied"] = a
        /\ \A g \in MetaFile : g # "applied" => file'[g] = file[g]
    BY <1>1, <1>5, <2>1, PutStep
  <2>3. /\ first' = first /\ last' = last /\ commit' = commit /\ snapshot' = snapshot
        /\ file'["term"] = file["term"]
        /\ \A g \in MetaFile : file'[g] # Missing
    BY <1>1, <2>1, <2>2 DEF first, last, commit, snapshot, MetaFile, Consistent, Missing
  <2>4. Consistent'
    BY <1>1, <1>2, <2>2, <2>3 DEF Consistent
  <2>5. FsInv'
    BY <1>3, <2>2, <2>4, WriteInv DEF FsInv
  <2>6. Promised!SetApplied(a)
    BY <1>1, <1>2, <2>2, <2>3, <2>4, Seen, SeenAfter DEF Promised!SetApplied
  <2>7. a \in 1..MaxIndex
    BY <1>2, StorageBounds
  <2> QED  BY <2>5, <2>6, <2>7 DEF Promised!Next
<1>6. ASSUME NEW i \in Index, snapshot < i, todo[1] = Put("snapshot", i)
      PROVE  FsInv' /\ Promised!Next
  <2>1. "snapshot" \in MetaFile /\ i \in Nat
    BY DEF MetaFile, Index
  <2>2. /\ entry' = entry /\ FsTypeOK'
        /\ file'["snapshot"] = i
        /\ \A g \in MetaFile : g # "snapshot" => file'[g] = file[g]
    BY <1>1, <1>6, <2>1, PutStep
  <2>3. /\ first' = first /\ last' = last /\ commit' = commit /\ snapshot' = i
        /\ file'["applied"] = file["applied"] /\ file'["term"] = file["term"]
        /\ \A g \in MetaFile : file'[g] # Missing
    BY <1>1, <2>1, <2>2 DEF first, last, commit, snapshot, MetaFile, Consistent, Missing
  <2>4. Consistent'
    BY <1>1, <1>2, <2>2, <2>3 DEF Consistent
  <2>5. FsInv'
    BY <1>3, <2>2, <2>4, WriteInv DEF FsInv
  <2>6. Promised!SetSnapshot(i)
    BY <1>1, <1>2, <1>6, <2>2, <2>3, <2>4, Seen, SeenAfter DEF Promised!SetSnapshot
  <2>7. i \in 1..MaxIndex
    BY DEF Index
  <2> QED  BY <2>5, <2>6, <2>7 DEF Promised!Next
<1> QED  BY <1>4, <1>5, <1>6 DEF Single

\* A write of append: an entry, or in the end the last index, which makes all of
\* them visible at once.
LEMMA AppendStep ==
  ASSUME FsInv, DoWrite, snapshot # Missing,
         NEW k \in Index, NEW n \in Index, NEW t \in 1..MaxTerm, Appending(k, n, t)
  PROVE  FsInv' /\ (Promised!Next \/ UNCHANGED Promised!vars)
<1> DEFINE p == n + 1 - Len(todo)
<1>1. FsTypeOK /\ Consistent
  BY DEF FsInv
<1>2. /\ first \in Nat \ {0} /\ last \in Nat /\ commit \in Nat /\ snapshot \in Nat
      /\ file["applied"] \in Nat /\ file["term"] \in Nat
      /\ last <= MaxIndex /\ first <= MaxIndex + 1 /\ commit <= last
      /\ k \in Nat \ {0} /\ n \in Nat \ {0} /\ t \in Nat \ {0} /\ t # Missing
  BY <1>1, ConsistentTypes, StorageBounds DEF Consistent, Index, Missing
<1>3. /\ Len(todo) = n + 1 - p /\ p \in 0..n
      /\ commit < k /\ k + n - 1 <= MaxIndex /\ first <= k
      /\ k <= last + 1 \/ k = first
      /\ k > first => entry[k - 1] <= t
      /\ \A j \in 1..(n - p) : todo[j] = PutEntry(k + p + j - 1, t)
      /\ todo[n - p + 1] = Put("last", k + n - 1)
      /\ \A i \in k..(k + p - 1) : entry[i] = t
  <2>1. Len(todo) \in Nat
    BY <1>1, TodoAfterWrite
  <2> QED  BY <1>2, <2>1 DEF Appending
<1>4. /\ todo' \in Seq(Write) /\ Len(todo') = n - p
      /\ \A j \in 1..(n - p) : todo'[j] = todo[j + 1]
  <2>1. /\ todo' \in Seq(Write) /\ Len(todo') = Len(todo) - 1
        /\ \A j \in 1..(Len(todo) - 1) : todo'[j] = todo[j + 1]
    BY <1>1, TodoAfterWrite
  <2> QED  BY <1>2, <1>3, <2>1
<1> HIDE DEF p
<1>5. CASE p < n
  <2> DEFINE i == k + p
  <2>1. i \in Index /\ i \in Nat /\ k <= i /\ 1 \in 1..(n - p) /\ k + p + 1 - 1 = i
    BY <1>2, <1>3, <1>5, StorageBounds DEF Index
  <2>2. todo[1] = PutEntry(i, t)
    BY <1>3, <2>1
  <2>3. /\ entry' = [entry EXCEPT ![i] = t] /\ file' = file
        /\ entry'[i] = t /\ \A j \in Index : j # i => entry'[j] = entry[j]
        /\ FsTypeOK'
    BY <1>1, <1>2, <2>1, <2>2, EntryStep
  <2>4. first' = first /\ last' = last /\ commit' = commit /\ snapshot' = snapshot
    BY <2>3 DEF first, last, commit, snapshot
  <2>5. Consistent'
    <3>1. \A j \in first..last : entry'[j] # Missing
      BY <1>1, <1>2, <2>1, <2>3 DEF Consistent, Index
    <3> QED  BY <1>1, <2>3, <2>4, <3>1 DEF Consistent
  <2>6. \A j \in Index : entry'[j] \in 1..MaxTerm \cup {Missing}
    BY <2>3 DEF FsInv
  <2>7. Appending(k, n, t)'
    <3>1. n + 1 - Len(todo') = p + 1
      BY <1>2, <1>3, <1>4
    <3>2. p + 1 \in 0..n
      BY <1>2, <1>3, <1>5
    <3>3. k > first => entry'[k - 1] <= t
      BY <1>2, <1>3, <2>1, <2>3 DEF Index
    <3>4. \A j \in 1..(n - (p + 1)) : todo'[j] = PutEntry(k + (p + 1) + j - 1, t)
      <4>1. \A j \in 1..(n - (p + 1)) : /\ j \in 1..(n - p) /\ j + 1 \in 1..(n - p)
                                        /\ k + p + (j + 1) - 1 = k + (p + 1) + j - 1
        BY <1>2, <1>3
      <4> QED  BY <1>3, <1>4, <4>1
    <3>5. todo'[n - (p + 1) + 1] = Put("last", k + n - 1)
      <4>1. n - (p + 1) + 1 \in 1..(n - p) /\ (n - (p + 1) + 1) + 1 = n - p + 1
        BY <1>2, <1>3, <1>5
      <4> QED  BY <1>3, <1>4, <4>1
    <3>6. \A j \in k..(k + (p + 1) - 1) : entry'[j] = t
      <4>1. ASSUME NEW j \in k..(k + (p + 1) - 1) PROVE entry'[j] = t
        <5>1. j = i \/ (j \in k..(k + p - 1) /\ j # i /\ j \in Index)
          BY <1>2, <1>3, <1>5, StorageBounds DEF Index
        <5> QED  BY <1>3, <2>3, <5>1
      <4> QED  BY <4>1
    <3> QED  BY <1>3, <2>4, <3>1, <3>2, <3>3, <3>4, <3>5, <3>6 DEF Appending
  <2>8. FsInv'
    BY <2>3, <2>5, <2>6, <2>7, WriteInv DEF Pending
  <2>9. CASE i \in first..last
    <3>1. Promised!Fits(i, t)
      <4>1. i - 1 \in first..last => entry[i - 1] <= t
        <5>1. CASE p = 0
          BY <1>2, <1>3, <2>1, <5>1
        <5>2. CASE p # 0
          <6>1. i - 1 \in k..(k + p - 1)
            BY <1>2, <1>3, <5>2
          <6> QED  BY <1>2, <1>3, <6>1
        <5> QED  BY <5>1, <5>2
      <4>2. commit < i
        BY <1>2, <1>3, <2>1
      <4> QED  BY <1>1, <4>1, <4>2, Seen DEF Promised!Fits
    <3>2. [j \in first..last |-> entry'[j]] = [[j \in first..last |-> entry[j]] EXCEPT ![i] = t]
      <4>1. \A j \in first..last : j \in Index
        BY <1>2, StorageBounds DEF Index
      <4>2. \A j \in first..last : entry'[j] = IF j = i THEN t ELSE entry[j]
        BY <2>3, <4>1
      <4> HIDE DEF i
      <4> QED  BY <2>9, <4>2
    <3>3. Promised!Overwrite(i, t)
      BY <1>1, <2>3, <2>4, <2>5, <3>1, <3>2, Seen, SeenAfter DEF Promised!Overwrite
    <3>4. i \in DOMAIN [j \in Content("first", 1)..Content("last", 0) |-> entry[j]]
      BY <1>1, <2>9, Seen
    <3>5. Promised!Next
      BY <3>3, <3>4 DEF Promised!Next
    <3> QED  BY <2>8, <3>5
  <2>10. CASE i \notin first..last
    <3>1. [j \in first..last |-> entry'[j]] = [j \in first..last |-> entry[j]]
      BY <1>2, <2>3, <2>10 DEF Index
    <3>2. UNCHANGED Promised!vars
      BY <1>1, <2>3, <2>4, <2>5, <3>1, Seen, SeenAfter DEF Promised!vars
    <3> QED  BY <2>8, <3>2
  <2> QED  BY <2>9, <2>10
<1>6. CASE p = n
  <2>1. todo[1] = Put("last", k + n - 1) /\ k + n - 1 \in Nat /\ "last" \in MetaFile
    BY <1>2, <1>3, <1>6 DEF MetaFile
  <2>2. /\ entry' = entry /\ FsTypeOK'
        /\ file'["last"] = k + n - 1
        /\ \A g \in MetaFile : g # "last" => file'[g] = file[g]
    BY <1>1, <2>1, PutStep
  <2>3. /\ first' = first /\ last' = k + n - 1 /\ commit' = commit /\ snapshot' = snapshot
        /\ file'["applied"] = file["applied"] /\ file'["term"] = file["term"]
        /\ \A g \in MetaFile : file'[g] # Missing
    BY <1>1, <2>1, <2>2 DEF first, last, commit, snapshot, MetaFile, Consistent, Missing
  <2>4. \A j \in first..(k + n - 1) : /\ j < k => j \in first..last
                                      /\ ~(j < k) => entry[j] = t
    BY <1>2, <1>3, <1>6
  <2>5. Consistent'
    <3>1. \A j \in first..(k + n - 1) : entry[j] # Missing
      BY <1>1, <1>2, <2>4 DEF Consistent
    <3> QED  BY <1>1, <1>2, <1>3, <2>2, <2>3, <3>1 DEF Consistent
  <2>6. Pending'
    <3>1. todo' = << >>
      BY <1>2, <1>4, <1>6, EmptySeq
    <3> QED  BY <3>1 DEF Pending
  <2>7. FsInv'
    BY <2>2, <2>5, <2>6, WriteInv DEF FsInv
  <2>8. Promised!Fits(k, t)
    <3>1. k - 1 \in first..last => entry[k - 1] <= t
      BY <1>2, <1>3
    <3> QED  BY <1>1, <1>3, <3>1, Seen DEF Promised!Fits
  <2>9. k = first \/ k - 1 \in first..last
    BY <1>2, <1>3
  <2>10. [j \in first..(k + n - 1) |-> entry[j]]
           = [j \in first..(k + n - 1) |->
                IF j < k THEN [l \in first..last |-> entry[l]][j] ELSE t]
    BY <2>4
  <2>11. Promised!Append(k, n, t)
    BY <1>1, <2>2, <2>3, <2>5, <2>8, <2>9, <2>10, Seen, SeenAfter DEF Promised!Append
  <2>12. k \in 1..MaxIndex /\ n \in 1..(MaxIndex - k + 1)
    BY <1>2, <1>3, StorageBounds DEF Index
  <2> QED  BY <2>7, <2>11, <2>12 DEF Promised!Next
<1> QED  BY <1>2, <1>3, <1>5, <1>6

\* A write of compact or apply_snapshot: the discarded entries disappear at once, with
\* the first index; the term before it is known by then.
LEMMA CompactStep ==
  ASSUME FsInv, DoWrite, snapshot # Missing,
         NEW f \in Index, NEW i \in Index, NEW v \in 1..MaxTerm, NEW p \in Nat,
         Compacting(f, i, v, p)
  PROVE  FsInv' /\ (Promised!Next \/ UNCHANGED Promised!vars)
<1>1. FsTypeOK /\ Consistent
  BY DEF FsInv
<1>2. /\ first \in Nat \ {0} /\ last \in Nat /\ commit \in Nat /\ snapshot \in Nat
      /\ file["applied"] \in Nat /\ file["term"] \in Nat
      /\ last <= MaxIndex /\ first <= MaxIndex + 1 /\ commit <= last
      /\ i \in Nat \ {0} /\ f \in Nat \ {0} /\ v \in Nat \ {0} /\ MaxIndex \in Nat
      /\ i <= MaxIndex /\ i \in 1..MaxIndex
  BY <1>1, ConsistentTypes, StorageBounds DEF Consistent, Index
<1> DEFINE len == Len(todo)
<1>3. /\ f <= i /\ len \in Nat \ {0} /\ len + p \in {i - f + 3, i - f + 4}
      /\ len + p = i - f + 4 => snapshot < i
      /\ \A j \in 1..len : todo[j] = CompactWrite(p + j, f, i, v)
      /\ p < 2 => first = f
      /\ p >= 1 => file["term"] = v
      /\ p >= 2 => first = i + 1
  BY <1>1, TodoAfterWrite DEF Compacting
<1>4. /\ todo' \in Seq(Write) /\ Len(todo') = len - 1
      /\ \A j \in 1..(len - 1) : todo'[j] = todo[j + 1]
      /\ len = 1 => todo' = << >>
  BY <1>1, TodoAfterWrite
<1> HIDE DEF len
<1>5. todo[1] = CompactWrite(p + 1, f, i, v)
  BY <1>3
\* What the rest of the writes looks like.
<1>6. ASSUME p + 1 < 2 => first' = f, file'["term"] = v, p + 1 >= 2 => first' = i + 1,
             len > 1 => snapshot' = snapshot
      PROVE  Pending'
  <2>1. CASE len = 1
    BY <1>4, <2>1 DEF Pending
  <2>2. CASE len # 1
    <3>1. \A j \in 1..(len - 1) : /\ j + 1 \in 1..len
                                 /\ p + (j + 1) = (p + 1) + j
      BY <1>3, <2>2
    <3>2. \A j \in 1..(len - 1) : todo'[j] = CompactWrite((p + 1) + j, f, i, v)
      BY <1>3, <1>4, <3>1
    <3>3. /\ len - 1 >= 1 /\ (len - 1) + (p + 1) = len + p /\ p + 1 \in Nat
      BY <1>3, <2>2
    <3>4. snapshot' = snapshot
      BY <1>3, <1>6, <2>2
    <3>5. Compacting(f, i, v, p + 1)'
      BY <1>3, <1>4, <1>6, <3>2, <3>3, <3>4 DEF Compacting
    <3> QED  BY <3>3, <3>5 DEF Pending
  <2> QED  BY <2>1, <2>2
<1>7. CASE p = 0
  <2>1. todo[1] = Put("term", v) /\ "term" \in MetaFile
    BY <1>5, <1>7 DEF CompactWrite, MetaFile
  <2>2. /\ entry' = entry /\ FsTypeOK'
        /\ file'["term"] = v
        /\ \A g \in MetaFile : g # "term" => file'[g] = file[g]
    BY <1>1, <1>2, <2>1, PutStep
  <2>3. /\ first' = first /\ last' = last /\ commit' = commit /\ snapshot' = snapshot
        /\ file'["applied"] = file["applied"] /\ \A g \in MetaFile : file'[g] # Missing
    BY <1>1, <1>2, <2>1, <2>2 DEF first, last, commit, snapshot, MetaFile, Consistent, Missing
  <2>4. Consistent'
    BY <1>1, <1>2, <2>2, <2>3 DEF Consistent
  <2>5. Pending'
    BY <1>3, <1>6, <1>7, <2>2, <2>3
  <2>6. FsInv'
    BY <2>2, <2>4, <2>5, WriteInv DEF FsInv
  <2>7. UNCHANGED Promised!vars
    BY <1>1, <2>2, <2>3, <2>4, Seen, SeenAfter DEF Promised!vars
  <2> QED  BY <2>6, <2>7
<1>8. CASE p = 1
  <2>1. todo[1] = Put("first", i + 1) /\ "first" \in MetaFile /\ i + 1 \in Nat /\ first = f
    BY <1>2, <1>3, <1>5, <1>8 DEF CompactWrite, MetaFile
  <2>2. /\ entry' = entry /\ FsTypeOK'
        /\ file'["first"] = i + 1
        /\ \A g \in MetaFile : g # "first" => file'[g] = file[g]
    BY <1>1, <2>1, PutStep
  <2>3. /\ first' = i + 1 /\ last' = last /\ commit' = commit /\ snapshot' = snapshot
        /\ file'["applied"] = file["applied"] /\ file'["term"] = file["term"]
        /\ \A g \in MetaFile : file'[g] # Missing
    BY <1>1, <2>1, <2>2 DEF first, last, commit, snapshot, MetaFile, Consistent, Missing
  <2>4. \A j \in (i + 1)..last : j \in first..last
    BY <1>2, <1>3, <2>1
  <2>5. Consistent'
    <3>1. \A j \in (i + 1)..last : entry[j] # Missing
      BY <1>1, <2>4 DEF Consistent
    <3> QED  BY <1>1, <1>2, <1>3, <1>8, <2>2, <2>3, <3>1 DEF Consistent
  <2>6. Pending'
    BY <1>3, <1>6, <1>8, <2>2, <2>3
  <2>7. FsInv'
    BY <2>2, <2>5, <2>6, WriteInv DEF FsInv
  <2>8. [j \in (i + 1)..last |-> entry[j]]
          = [j \in (i + 1)..last |-> [l \in first..last |-> entry[l]][j]]
    BY <2>4
  <2>9. Promised!Compact(i)
    BY <1>1, <1>3, <2>1, <2>2, <2>3, <2>5, <2>8, Seen, SeenAfter DEF Promised!Compact
  <2> QED  BY <1>2, <2>7, <2>9 DEF Promised!Next
<1>9. CASE p >= 2 /\ p + 1 <= i - f + 3
  <2> DEFINE r == f + (p + 1) - 3
  <2>1. r \in Index /\ r < i + 1 /\ r \in Nat
    BY <1>2, <1>3, <1>9 DEF Index
  <2>2. todo[1] = PutEntry(r, Missing)
    BY <1>2, <1>5, <1>9 DEF CompactWrite, Remove, PutEntry
  <2>3. /\ file' = file /\ FsTypeOK' /\ entry'[r] = Missing
        /\ \A j \in Index : j # r => entry'[j] = entry[j]
    BY <1>1, <2>1, <2>2, EntryStep
  <2> HIDE DEF r
  <2>4. first' = first /\ last' = last /\ commit' = commit /\ snapshot' = snapshot
    BY <2>3 DEF first, last, commit, snapshot
  <2>5. \A j \in first..last : j \in Index /\ j # r
    BY <1>2, <1>3, <1>9, <2>1 DEF Index
  <2>6. Consistent'
    BY <1>1, <2>3, <2>4, <2>5 DEF Consistent
  <2>7. Pending'
    BY <1>3, <1>6, <1>9, <2>3, <2>4
  <2>8. \A j \in Index : entry'[j] \in 1..MaxTerm \cup {Missing}
    BY <2>3 DEF FsInv
  <2>9. FsInv'
    BY <2>3, <2>6, <2>7, <2>8, WriteInv
  <2>10. [j \in first..last |-> entry'[j]] = [j \in first..last |-> entry[j]]
    BY <2>3, <2>5
  <2>11. UNCHANGED Promised!vars
    BY <1>1, <2>3, <2>4, <2>6, <2>10, Seen, SeenAfter DEF Promised!vars
  <2> QED  BY <2>9, <2>11
<1>10. CASE p >= 2 /\ ~(p + 1 <= i - f + 3)
  <2>1. /\ todo[1] = Put("snapshot", i) /\ "snapshot" \in MetaFile
        /\ len = 1 /\ len + p = i - f + 4 /\ snapshot < i
    BY <1>2, <1>3, <1>5, <1>10 DEF CompactWrite, MetaFile
  <2>2. /\ entry' = entry /\ FsTypeOK'
        /\ file'["snapshot"] = i
        /\ \A g \in MetaFile : g # "snapshot" => file'[g] = file[g]
    BY <1>1, <1>2, <2>1, PutStep
  <2>3. /\ first' = first /\ last' = last /\ commit' = commit /\ snapshot' = i
        /\ file'["applied"] = file["applied"] /\ file'["term"] = file["term"]
        /\ \A g \in MetaFile : file'[g] # Missing
    BY <1>1, <1>2, <2>1, <2>2 DEF first, last, commit, snapshot, MetaFile, Consistent, Missing
  <2>4. Consistent'
    BY <1>1, <1>2, <2>2, <2>3 DEF Consistent
  <2>5. Pending'
    BY <1>4, <2>1 DEF Pending
  <2>6. FsInv'
    BY <2>2, <2>4, <2>5, WriteInv DEF FsInv
  <2>7. Promised!SetSnapshot(i)
    BY <1>1, <2>1, <2>2, <2>3, <2>4, Seen, SeenAfter DEF Promised!SetSnapshot
  <2> QED  BY <1>2, <2>6, <2>7 DEF Promised!Next
<1>11. p = 0 \/ p = 1 \/ p >= 2
  OBVIOUS
<1> QED  BY <1>7, <1>8, <1>9, <1>10, <1>11

\* Every write preserves the invariant and is a step of StorageExt, or none.
LEMMA DoWriteStep ==
  ASSUME FsInv, DoWrite
  PROVE  FsInv' /\ (Promised!Next \/ UNCHANGED Promised!vars)
<1>1. CASE snapshot = Missing
  BY <1>1, InitWriteStep
<1>2. CASE snapshot # Missing
  <2>1. Pending /\ todo # << >>
    BY <1>2 DEF FsInv, DoWrite
  <2> QED  BY <1>2, <2>1, SingleStep, AppendStep, CompactStep DEF Pending
<1> QED  BY <1>1, <1>2

\* So does every step of the node; only writes change what StorageExt sees.
LEMMA StorageStep ==
  ASSUME FsInv, [Next]_vars
  PROVE  FsInv' /\ (Promised!Next \/ UNCHANGED Promised!vars)
<1>1. ASSUME UNCHANGED <<file, entry>> PROVE UNCHANGED Promised!vars
  BY <1>1 DEF Promised!vars, Content
<1>2. CASE UNCHANGED fsVars
  <2>1. FsInv'
    <3>1. file' = file /\ entry' = entry /\ todo' = todo /\ up' = up
      BY <1>2 DEF fsVars
    <3>2. FsTypeOK' = FsTypeOK /\ Fresh' = Fresh /\ Consistent' = Consistent
          /\ snapshot' = snapshot
      BY <3>1 DEF FsTypeOK, Fresh, Consistent, first, last, commit, snapshot
    <3>3. Pending' = Pending
      BY <3>1 DEF Pending, Single, Appending, Compacting, first, last, commit, snapshot
    <3> QED  BY <3>1, <3>2, <3>3 DEF FsInv
  <2> QED  BY <1>1, <1>2, <2>1 DEF fsVars
<1>3. CASE UNCHANGED vars
  BY <1>2, <1>3 DEF vars, fsVars
<1>4. CASE Reader
  <2>1. UNCHANGED fsVars
    BY <1>4 DEF Reader, ReadOption, ReadTerm, ReadCachedEntries, ReadStoredEntries
  <2> QED  BY <1>2, <2>1
<1>5. CASE Resetting
  <2>1. FsInv'
    BY <1>5, AppendEntriesInv, SetHardstateInv, CompactInv, ApplySnapshotInv,
       CreateSnapshotInv DEF Resetting
  <2>2. UNCHANGED <<file, entry>>
    BY <1>5 DEF Resetting, AppendEntries, SetHardstate, Compact, ApplySnapshot,
                CreateSnapshot, Perform
  <2> QED  BY <1>1, <2>1, <2>2
<1>6. CASE SetApplied
  <2>1. UNCHANGED <<file, entry>>
    BY <1>6 DEF SetApplied, Perform
  <2> QED  BY <1>1, <1>6, <2>1, SetAppliedInv
<1>7. CASE DoWrite
  BY <1>7, DoWriteStep
<1>8. CASE Open
  BY <1>1, <1>8, OpenInv DEF Open
<1>9. CASE Halt
  BY <1>1, <1>9, HaltInv DEF Halt
<1>10. CASE PanicInCreateSnapshot
  BY <1>9, <1>10 DEF PanicInCreateSnapshot
<1> QED  BY <1>3, <1>4, <1>5, <1>6, <1>7, <1>8, <1>9, <1>10 DEF Next, Writer, Starter

\* The invariant holds in every state.
LEMMA FsInvariance == Spec => []FsInv
<1>1. Init => FsInv
  BY FsInitInv DEF Init
<1>2. FsInv /\ [Next]_vars => FsInv'
  BY StorageStep
<1> QED  BY <1>1, <1>2, PTL DEF Spec

-----------------------------------------------------------------------------
(* The theorems. *)

\* After with_data_dir every file is there, however often init_raft_state was
\* interrupted before.
THEOREM OpensCompleteAlways == Spec => []OpensComplete
<1>1. FsInv => OpensComplete
  BY IdleIsConsistent DEF OpensComplete, Consistent
<1> QED  BY <1>1, FsInvariance, PTL

\* A log of any size can be read whatever append, compact or apply_snapshot a crash has
\* interrupted, the term of the entry before the first one included.
THEOREM LogIsReadableAlways == Spec => []LogIsReadable
<1>1. FsInv => LogIsReadable
  <2> SUFFICES ASSUME FsInv, \A f \in MetaFile : file[f] # Missing
               PROVE  /\ \A i \in first..last : entry[i] # Missing
                      /\ \A i \in {first - 1} \cup first..last : FsTerm(i) >= 0
    BY DEF LogIsReadable
  <2>1. snapshot # Missing
    BY DEF snapshot, MetaFile
  <2>2. FsTypeOK /\ Consistent
    BY <2>1 DEF FsInv
  <2>3. /\ first \in Nat \ {0} /\ last \in Nat /\ last <= MaxIndex /\ MaxIndex \in Nat
        /\ file["term"] \in Nat
    BY <2>2, ConsistentTypes, StorageBounds DEF Consistent
  <2>4. \A i \in first..last : i \in Index /\ entry[i] # Missing
    BY <2>2, <2>3 DEF Consistent, Index
  <2>5. ASSUME NEW i \in first..last PROVE FsTerm(i) >= 0
    <3>1. FsTerm(i) = entry[i] /\ entry[i] \in Nat
      BY <2>2, <2>4 DEF FsTerm, FsTypeOK
    <3> QED  BY <3>1
  <2>6. FsTerm(first - 1) >= 0
    <3>1. CASE first - 1 \in Index /\ entry[first - 1] # Missing
      <4>1. FsTerm(first - 1) = entry[first - 1] /\ entry[first - 1] \in Nat
        BY <2>2, <3>1 DEF FsTerm, FsTypeOK
      <4> QED  BY <4>1
    <3>2. CASE ~(first - 1 \in Index /\ entry[first - 1] # Missing)
      <4>1. CASE first = 1
        BY <3>2, <4>1 DEF FsTerm
      <4>2. CASE first # 1
        <5>1. first > 1 /\ first - 1 # 0 /\ (first - 1) + 1 = first
          BY <2>3, <4>2
        <5>2. file["term"] >= 1
          BY <2>2, <5>1 DEF Consistent
        <5>3. FsTerm(first - 1) = file["term"]
          BY <2>3, <3>2, <5>1, <5>2 DEF FsTerm
        <5> QED  BY <5>2, <5>3, <2>3
      <4> QED  BY <4>1, <4>2
    <3> QED  BY <3>1, <3>2
  <2> QED  BY <2>4, <2>5, <2>6
<1> QED  BY <1>1, FsInvariance, PTL

\* The files implement StorageExt: with a crash between any two writes, operations take
\* effect at one of their writes, and no committed entry changes.
THEOREM FilesImplementStorageExt == Spec => ImplementsStorageExt
<1>1. Init => Promised!Init
  <2> SUFFICES ASSUME Init PROVE Promised!Init
    OBVIOUS
  <2>1. /\ Content("first", 1) = 1 /\ Content("last", 0) = 0
        /\ Content("hardstate", 0) = 0 /\ Content("applied", 0) = 0
        /\ Content("snapshot", 0) = 0
    BY DEF Init, FsInit, Content, MetaFile
  <2>2. [i \in 1..0 |-> entry[i]] = [i \in 1..0 |-> 0]
    OBVIOUS
  <2> QED  BY <2>1, <2>2 DEF Promised!Init
<1>2. FsInv /\ [Next]_vars => [Promised!Next]_Promised!vars
  BY StorageStep
<1> QED  BY <1>1, <1>2, FsInvariance, PTL DEF Spec, ImplementsStorageExt, Promised!Spec

-----------------------------------------------------------------------------
(* The least-recently-used cache. *)

Elements(s) == {s[j] : j \in DOMAIN s}

\* find looks from the front and meets the first match.
LEMMA FoundLemma ==
  ASSUME NEW T, NEW s \in Seq(T), NEW i, Positions(s, i) # {}
  PROVE  /\ Found(s, i) \in 1..Len(s)
         /\ s[Found(s, i)][1] = i
<1>1. Positions(s, i) \subseteq Nat /\ Positions(s, i) \subseteq 1..Len(s)
  BY DEF Positions
<1>2. \E j \in Positions(s, i) : \A l \in Positions(s, i) : j <= l
  BY <1>1, Least
<1>3. Found(s, i) \in Positions(s, i)
  BY <1>2 DEF Found
<1> QED  BY <1>1, <1>3 DEF Positions

\* A match that moves to the front: nothing is lost and nothing added.
LEMMA TouchLemma ==
  ASSUME NEW T, NEW s \in Seq(T), NEW i, Positions(s, i) # {}
  PROVE  /\ Touch(s, i) \in Seq(T)
         /\ Len(Touch(s, i)) = Len(s)
         /\ Elements(Touch(s, i)) = Elements(s)
<1> DEFINE m == Found(s, i)
           a == <<s[m]>>
           b == SubSeq(s, 1, m - 1)
           c == SubSeq(s, m + 1, Len(s))
           r == (a \o b) \o c
<1>1. m \in 1..Len(s) /\ Len(s) \in Nat /\ s \in [1..Len(s) -> T]
  BY FoundLemma
<1> HIDE DEF m
<1>2. a \in Seq(T) /\ Len(a) = 1 /\ a[1] = s[m]
  BY <1>1
<1>3. b \in Seq(T) /\ Len(b) = m - 1 /\ \A j \in 1..(m - 1) : b[j] = s[j]
  <2>1. \A j \in 1..(m - 1) : s[j] \in T
    BY <1>1
  <2>2. /\ b \in Seq(T) /\ Len(b) = IF 1 <= m - 1 THEN (m - 1) - 1 + 1 ELSE 0
        /\ \A j \in 1..((m - 1) - 1 + 1) : b[j] = s[1 + j - 1]
    BY <1>1, <2>1, SubSeqProperties
  <2> QED  BY <1>1, <2>2
<1>4. /\ c \in Seq(T) /\ Len(c) = Len(s) - m
      /\ \A j \in 1..(Len(s) - m) : c[j] = s[m + j]
  <2>1. \A j \in (m + 1)..Len(s) : s[j] \in T
    BY <1>1
  <2>2. /\ c \in Seq(T)
        /\ Len(c) = IF m + 1 <= Len(s) THEN Len(s) - (m + 1) + 1 ELSE 0
        /\ \A j \in 1..(Len(s) - (m + 1) + 1) : c[j] = s[(m + 1) + j - 1]
    BY <1>1, <2>1, SubSeqProperties
  <2> HIDE DEF c
  <2>3. /\ Len(s) - (m + 1) + 1 = Len(s) - m
        /\ \A j \in 1..(Len(s) - m) : (m + 1) + j - 1 = m + j
    BY <1>1
  <2>4. Len(c) = Len(s) - m
    <3>1. ASSUME NEW k \in Nat, NEW l \in 1..k, NEW x,
                 x = IF l + 1 <= k THEN k - (l + 1) + 1 ELSE 0
          PROVE  x = k - l
      BY <3>1
    <3> QED  BY <1>1, <2>2, <3>1
  <2>5. \A j \in 1..(Len(s) - m) : c[j] = s[m + j]
    BY <2>2, <2>3, Zenon
  <2> QED  BY <2>2, <2>4, <2>5
<1> HIDE DEF a, b, c
<1>5. /\ a \o b \in Seq(T) /\ Len(a \o b) = m
      /\ \A j \in 1..m : (a \o b)[j] = IF j = 1 THEN s[m] ELSE s[j - 1]
  <2>1. /\ a \o b \in Seq(T) /\ Len(a \o b) = Len(a) + Len(b)
        /\ \A j \in 1..(Len(a) + Len(b)) :
             (a \o b)[j] = IF j <= Len(a) THEN a[j] ELSE b[j - Len(a)]
    BY <1>2, <1>3, ConcatProperties
  <2>2. \A j \in 1..m : (a \o b)[j] = IF j <= 1 THEN a[j] ELSE b[j - 1]
    BY <1>1, <1>2, <1>3, <2>1
  <2> QED  BY <1>1, <1>2, <1>3, <2>1, <2>2
<1> DEFINE d == a \o b
<1>6. /\ d \in Seq(T) /\ Len(d) = m
      /\ \A j \in 1..m : d[j] = IF j = 1 THEN s[m] ELSE s[j - 1]
  BY <1>5
<1> HIDE DEF d
<1>7. /\ d \o c \in Seq(T) /\ Len(d \o c) = Len(s)
      /\ \A j \in 1..Len(s) : (d \o c)[j] = IF j = 1 THEN s[m]
                                           ELSE IF j <= m THEN s[j - 1] ELSE s[j]
  <2>1. /\ d \o c \in Seq(T) /\ Len(d \o c) = Len(d) + Len(c)
        /\ \A j \in 1..(Len(d) + Len(c)) :
             (d \o c)[j] = IF j <= Len(d) THEN d[j] ELSE c[j - Len(d)]
    <3>1. d \in Seq(T) /\ c \in Seq(T)
      BY <1>4, <1>6
    <3> QED  BY <3>1, ConcatProperties
  <2>2. \A j \in 1..Len(s) : (d \o c)[j] = IF j <= m THEN d[j] ELSE c[j - m]
    BY <1>1, <1>4, <1>6, <2>1
  <2> QED  BY <1>1, <1>4, <1>6, <2>1, <2>2
<1> DEFINE e == d \o c
<1>8. /\ e \in Seq(T) /\ Len(e) = Len(s) /\ DOMAIN e = 1..Len(s) /\ DOMAIN s = 1..Len(s)
      /\ \A j \in 1..Len(s) : e[j] = IF j = 1 THEN s[m]
                                     ELSE IF j <= m THEN s[j - 1] ELSE s[j]
  BY <1>7
<1>9. Touch(s, i) = e
  BY DEF Touch, a, b, c, d, m
<1> HIDE DEF e
<1>10. Elements(e) = Elements(s)
  <2>1. ASSUME NEW j \in 1..Len(s) PROVE \E l \in 1..Len(s) : e[j] = s[l]
    <3>1. CASE j = 1
      BY <1>1, <1>8, <3>1
    <3>2. CASE j # 1 /\ j <= m
      <4>1. j - 1 \in 1..Len(s) /\ e[j] = s[j - 1]
        BY <1>1, <1>8, <3>2
      <4> QED  BY <4>1
    <3>3. CASE j # 1 /\ ~(j <= m)
      BY <1>8, <3>3
    <3> QED  BY <3>1, <3>2, <3>3
  <2>2. ASSUME NEW l \in 1..Len(s) PROVE \E j \in 1..Len(s) : e[j] = s[l]
    <3>1. CASE l = m
      <4>1. 1 \in 1..Len(s) /\ e[1] = s[m]
        BY <1>1, <1>8
      <4> QED  BY <3>1, <4>1
    <3>2. CASE l < m
      <4>1. l + 1 \in 1..Len(s) /\ l + 1 # 1 /\ l + 1 <= m /\ (l + 1) - 1 = l
        BY <1>1, <3>2
      <4>2. e[l + 1] = s[l]
        BY <1>8, <4>1
      <4> QED  BY <4>1, <4>2
    <3>3. CASE l > m
      BY <1>1, <1>8, <3>3
    <3> QED  BY <1>1, <3>1, <3>2, <3>3
  <2>3. /\ Elements(e) = {e[j] : j \in 1..Len(s)}
        /\ Elements(s) = {s[j] : j \in 1..Len(s)}
    BY <1>8 DEF Elements
  <2> QED  BY ZenonT(30), <2>1, <2>2, <2>3
<1> QED  BY <1>8, <1>9, <1>10

\* An insertion adds one element and evicts the oldest when the cache is full.
LEMMA InsertLemma ==
  ASSUME NEW T, NEW s \in Seq(T), NEW x \in T, Len(s) <= CacheSize
  PROVE  /\ Insert(s, x) \in Seq(T)
         /\ Len(Insert(s, x)) <= CacheSize
         /\ Elements(Insert(s, x)) \subseteq Elements(s) \cup {x}
<1> DEFINE n == IF Len(s) < CacheSize THEN Len(s) + 1 ELSE CacheSize
           a == <<x>>
           b == a \o s
           r == SubSeq(b, 1, n)
<1>1. Len(s) \in Nat /\ n \in Nat /\ 1 <= n /\ n <= CacheSize /\ n <= Len(s) + 1
  BY CacheSizeAssumption
<1>2. a \in Seq(T) /\ Len(a) = 1 /\ a[1] = x
  OBVIOUS
<1>3. Insert(s, x) = r
  BY DEF Insert
<1> HIDE DEF a, n
<1>4. /\ b \in Seq(T) /\ Len(b) = Len(s) + 1
      /\ \A j \in 1..(Len(s) + 1) : b[j] = IF j = 1 THEN x ELSE s[j - 1]
  <2>1. /\ a \o s \in Seq(T) /\ Len(a \o s) = Len(a) + Len(s)
        /\ \A j \in 1..(Len(a) + Len(s)) :
             (a \o s)[j] = IF j <= Len(a) THEN a[j] ELSE s[j - Len(a)]
    BY <1>2, ConcatProperties
  <2> QED  BY <1>1, <1>2, <2>1
<1> HIDE DEF b
<1>5. /\ r \in Seq(T) /\ Len(r) = n /\ \A j \in 1..n : r[j] = b[j]
  <2>1. \A j \in 1..n : b[j] \in T
    BY <1>1, <1>4
  <2>2. /\ r \in Seq(T) /\ Len(r) = IF 1 <= n THEN n - 1 + 1 ELSE 0
        /\ \A j \in 1..(n - 1 + 1) : r[j] = b[1 + j - 1]
    BY <1>1, <2>1, SubSeqProperties
  <2> QED  BY <1>1, <2>2
<1> HIDE DEF r
<1>6. ASSUME NEW j \in 1..n PROVE r[j] = x \/ \E l \in 1..Len(s) : r[j] = s[l]
  <2>1. CASE j = 1
    BY <1>1, <1>4, <1>5, <2>1
  <2>2. CASE j # 1
    <3>1. j - 1 \in 1..Len(s) /\ j \in 1..(Len(s) + 1)
      BY <1>1, <2>2
    <3>2. r[j] = s[j - 1]
      BY <1>4, <1>5, <2>2, <3>1
    <3> QED  BY <3>1, <3>2
  <2> QED  BY <2>1, <2>2
<1>7. DOMAIN r = 1..n /\ DOMAIN s = 1..Len(s)
  BY <1>5
<1>8. Elements(r) \subseteq Elements(s) \cup {x}
  BY <1>6, <1>7 DEF Elements
<1> QED  BY <1>1, <1>3, <1>5, <1>8

-----------------------------------------------------------------------------
(* Many elements, one by one: TouchAll and InsertAll are defined by recursion, so  *)
(* there is first a function that satisfies the equation, then an induction over it. *)

TouchSteps(g, s, low, high) ==
  g = [i \in low..high |-> IF i = low THEN s ELSE Touch(g[i - 1], i - 1)]

InsertSteps(g, s, low, high, term) ==
  g = [i \in low..high |->
         IF i = low THEN s ELSE Insert(g[i - 1], <<i - 1, term[i - 1]>>)]

LEMMA TouchAllDefined ==
  ASSUME NEW s, NEW low \in Int, NEW high \in Int, low <= high
  PROVE  \E g : TouchSteps(g, s, low, high)
<1> DEFINE Solves(g, m) ==
             g = [i \in low..(low + m) |-> IF i = low THEN s ELSE Touch(g[i - 1], i - 1)]
           S == {m \in Nat : \E g : Solves(g, m)}
<1>1. 0 \in S
  <2> DEFINE g == [i \in low..(low + 0) |-> s]
  <2>1. Solves(g, 0)
    <3>1. \A i \in low..(low + 0) : i = low
      OBVIOUS
    <3> QED  BY <3>1
  <2> QED  BY <2>1
<1>2. ASSUME NEW m \in Nat, m \in S PROVE m + 1 \in S
  <2>1. PICK g : Solves(g, m)
    BY <1>2
  <2> DEFINE h == [i \in low..(low + (m + 1)) |->
                     IF i <= low + m THEN g[i] ELSE Touch(g[low + m], low + m)]
  <2>2. ASSUME NEW i \in low..(low + (m + 1))
        PROVE  h[i] = IF i = low THEN s ELSE Touch(h[i - 1], i - 1)
    <3>1. CASE i = low
      BY <2>1, <3>1
    <3>2. CASE i # low /\ i <= low + m
      <4>1. i \in low..(low + m) /\ i - 1 \in low..(low + (m + 1)) /\ i - 1 <= low + m
        BY <3>2
      <4>2. h[i] = g[i] /\ h[i - 1] = g[i - 1]
        BY <3>2, <4>1
      <4>3. g[i] = Touch(g[i - 1], i - 1)
        BY <2>1, <3>2, <4>1
      <4> QED  BY <3>2, <4>2, <4>3
    <3>3. CASE ~(i <= low + m)
      <4>1. i = low + m + 1 /\ i # low /\ i - 1 = low + m /\ i - 1 \in low..(low + (m + 1))
        BY <3>3
      <4>2. h[i] = Touch(g[i - 1], i - 1) /\ h[i - 1] = g[i - 1]
        BY <3>3, <4>1
      <4> QED  BY <4>1, <4>2
    <3> QED  BY <3>1, <3>2, <3>3
  <2>3. h = [i \in low..(low + (m + 1)) |-> h[i]]
    OBVIOUS
  <2> HIDE DEF h
  <2>4. Solves(h, m + 1)
    BY <2>2, <2>3
  <2> QED  BY <2>4
<1> HIDE DEF S
<1>3. high - low \in S
  <2>1. high - low \in Nat
    OBVIOUS
  <2> QED  BY <1>1, <1>2, <2>1, SetInd
<1>4. PICK g : Solves(g, high - low)
  BY <1>3 DEF S
<1>5. low + (high - low) = high
  OBVIOUS
<1> QED  BY <1>4, <1>5 DEF TouchSteps

LEMMA InsertAllDefined ==
  ASSUME NEW s, NEW low \in Int, NEW high \in Int, low <= high, NEW term
  PROVE  \E g : InsertSteps(g, s, low, high, term)
<1> DEFINE Solves(g, m) ==
             g = [i \in low..(low + m) |->
                    IF i = low THEN s ELSE Insert(g[i - 1], <<i - 1, term[i - 1]>>)]
           S == {m \in Nat : \E g : Solves(g, m)}
<1>1. 0 \in S
  <2> DEFINE g == [i \in low..(low + 0) |-> s]
  <2>1. Solves(g, 0)
    <3>1. \A i \in low..(low + 0) : i = low
      OBVIOUS
    <3> QED  BY <3>1
  <2> QED  BY <2>1
<1>2. ASSUME NEW m \in Nat, m \in S PROVE m + 1 \in S
  <2>1. PICK g : Solves(g, m)
    BY <1>2
  <2> DEFINE h == [i \in low..(low + (m + 1)) |->
                     IF i <= low + m THEN g[i]
                     ELSE Insert(g[low + m], <<low + m, term[low + m]>>)]
  <2>2. ASSUME NEW i \in low..(low + (m + 1))
        PROVE  h[i] = IF i = low THEN s ELSE Insert(h[i - 1], <<i - 1, term[i - 1]>>)
    <3>1. CASE i = low
      BY <2>1, <3>1
    <3>2. CASE i # low /\ i <= low + m
      <4>1. i \in low..(low + m) /\ i - 1 \in low..(low + (m + 1)) /\ i - 1 <= low + m
        BY <3>2
      <4>2. h[i] = g[i] /\ h[i - 1] = g[i - 1]
        BY <3>2, <4>1
      <4>3. g[i] = Insert(g[i - 1], <<i - 1, term[i - 1]>>)
        BY <2>1, <3>2, <4>1
      <4> QED  BY <3>2, <4>2, <4>3
    <3>3. CASE ~(i <= low + m)
      <4>1. i = low + m + 1 /\ i # low /\ i - 1 = low + m /\ i - 1 \in low..(low + (m + 1))
        BY <3>3
      <4>2. h[i] = Insert(g[i - 1], <<i - 1, term[i - 1]>>) /\ h[i - 1] = g[i - 1]
        BY <3>3, <4>1
      <4> QED  BY <4>1, <4>2
    <3> QED  BY <3>1, <3>2, <3>3
  <2>3. h = [i \in low..(low + (m + 1)) |-> h[i]]
    OBVIOUS
  <2> HIDE DEF h
  <2>4. Solves(h, m + 1)
    BY <2>2, <2>3
  <2> QED  BY <2>4
<1> HIDE DEF S
<1>3. high - low \in S
  <2>1. high - low \in Nat
    OBVIOUS
  <2> QED  BY <1>1, <1>2, <2>1, SetInd
<1>4. PICK g : Solves(g, high - low)
  BY <1>3 DEF S
<1>5. low + (high - low) = high
  OBVIOUS
<1> QED  BY <1>4, <1>5 DEF InsertSteps

\* Touching elements that are all in the cache loses nothing and adds nothing.
LEMMA TouchAllLemma ==
  ASSUME NEW T, NEW s \in Seq(T), NEW low \in Int, NEW high \in Int, low <= high,
         \A i \in low..(high - 1) : Positions(s, i) # {}
  PROVE  /\ TouchAll(s, low, high) \in Seq(T)
         /\ Len(TouchAll(s, low, high)) = Len(s)
         /\ Elements(TouchAll(s, low, high)) = Elements(s)
<1> DEFINE after == CHOOSE g : TouchSteps(g, s, low, high)
<1>1. TouchSteps(after, s, low, high)
  BY TouchAllDefined
<1>2. TouchAll(s, low, high) = after[high]
  BY DEF TouchAll, TouchSteps
<1> HIDE DEF after
<1> DEFINE Same(r) == r \in Seq(T) /\ Len(r) = Len(s) /\ Elements(r) = Elements(s)
           S == {m \in Nat : low + m <= high => Same(after[low + m])}
<1>3. 0 \in S
  <2>1. low + 0 = low /\ low \in low..high
    OBVIOUS
  <2>2. after[low] = s
    BY <1>1, <2>1 DEF TouchSteps
  <2> QED  BY <2>1, <2>2
<1>4. ASSUME NEW m \in Nat, m \in S PROVE m + 1 \in S
  <2> SUFFICES ASSUME low + (m + 1) <= high PROVE Same(after[low + (m + 1)])
    OBVIOUS
  <2>1. /\ low + (m + 1) \in low..high /\ low + (m + 1) # low
        /\ (low + (m + 1)) - 1 = low + m /\ low + m \in low..(high - 1) /\ low + m <= high
    OBVIOUS
  <2>2. after[low + (m + 1)] = Touch(after[low + m], low + m)
    BY <1>1, <2>1 DEF TouchSteps
  <2> DEFINE r == after[low + m]
  <2>3. Same(r)
    BY <1>4, <2>1
  <2> HIDE DEF r
  <2>4. Positions(r, low + m) # {}
    <3>1. PICK j \in DOMAIN s : s[j][1] = low + m
      BY <2>1 DEF Positions
    <3>2. s[j] \in Elements(r)
      BY <2>3 DEF Elements
    <3>3. PICK l \in DOMAIN r : r[l] = s[j]
      BY <3>2 DEF Elements
    <3> QED  BY <3>1, <3>3 DEF Positions
  <2>5. Same(Touch(r, low + m))
    BY <2>3, <2>4, TouchLemma
  <2> QED  BY <2>2, <2>5 DEF r
<1> HIDE DEF S
<1>5. high - low \in S
  <2>1. high - low \in Nat
    OBVIOUS
  <2> QED  BY <1>3, <1>4, <2>1, SetInd
<1>6. Same(after[high])
  <2>1. low + (high - low) = high
    OBVIOUS
  <2> QED  BY <1>5, <2>1 DEF S
<1> QED  BY <1>2, <1>6

\* Inserting elements adds no others, and keeps to the size of the cache.
LEMMA InsertAllLemma ==
  ASSUME NEW T, NEW s \in Seq(T), Len(s) <= CacheSize,
         NEW low \in Int, NEW high \in Int, low <= high, NEW term,
         \A i \in low..(high - 1) : <<i, term[i]>> \in T
  PROVE  /\ InsertAll(s, low, high, term) \in Seq(T)
         /\ Len(InsertAll(s, low, high, term)) <= CacheSize
         /\ Elements(InsertAll(s, low, high, term))
              \subseteq Elements(s) \cup {<<i, term[i]>> : i \in low..(high - 1)}
<1> DEFINE after == CHOOSE g : InsertSteps(g, s, low, high, term)
           New == {<<i, term[i]>> : i \in low..(high - 1)}
<1>1. InsertSteps(after, s, low, high, term)
  BY InsertAllDefined
<1>2. InsertAll(s, low, high, term) = after[high]
  BY DEF InsertAll, InsertSteps
<1> HIDE DEF after
<1> DEFINE Bounded(r) == /\ r \in Seq(T) /\ Len(r) <= CacheSize
                         /\ Elements(r) \subseteq Elements(s) \cup New
           S == {m \in Nat : low + m <= high => Bounded(after[low + m])}
<1>3. 0 \in S
  <2>1. low + 0 = low /\ low \in low..high
    OBVIOUS
  <2>2. after[low] = s
    BY <1>1, <2>1 DEF InsertSteps
  <2> QED  BY <2>1, <2>2
<1>4. ASSUME NEW m \in Nat, m \in S PROVE m + 1 \in S
  <2> SUFFICES ASSUME low + (m + 1) <= high PROVE Bounded(after[low + (m + 1)])
    OBVIOUS
  <2>1. /\ low + (m + 1) \in low..high /\ low + (m + 1) # low
        /\ (low + (m + 1)) - 1 = low + m /\ low + m \in low..(high - 1) /\ low + m <= high
    OBVIOUS
  <2> DEFINE r == after[low + m]
             x == <<low + m, term[low + m]>>
  <2>2. after[low + (m + 1)] = Insert(r, x)
    BY <1>1, <2>1 DEF InsertSteps
  <2>3. Bounded(r)
    BY <1>4, <2>1
  <2>4. x \in T /\ x \in New
    BY <2>1
  <2> HIDE DEF r, x, New
  <2>5. Bounded(Insert(r, x))
    <3>1. /\ Insert(r, x) \in Seq(T) /\ Len(Insert(r, x)) <= CacheSize
          /\ Elements(Insert(r, x)) \subseteq Elements(r) \cup {x}
      BY <2>3, <2>4, InsertLemma
    <3> QED  BY <2>3, <2>4, <3>1
  <2> QED  BY <2>2, <2>5
<1> HIDE DEF S
<1>5. high - low \in S
  <2>1. high - low \in Nat
    OBVIOUS
  <2> QED  BY <1>3, <1>4, <2>1, SetInd
<1>6. Bounded(after[high])
  <2>1. low + (high - low) = high
    OBVIOUS
  <2> QED  BY <1>5, <2>1 DEF S
<1> QED  BY <1>2, <1>6

-----------------------------------------------------------------------------
(* The inductive invariant of the cache.  It says more than CacheIsTransparent, which *)
(* is about an idle node: while an operation writes, the cache is empty, unless all   *)
(* that is written is the applied index, which is not cached.                         *)

Faithful ==
  /\ \A f \in Option : cache[f] \subseteq {Answer(f)}
  /\ \A x \in Elements(cache.terms) : FsTerm(x[1]) = x[2]
  /\ \A x \in Elements(cache.entries) : x[1] \in first..last /\ entry[x[1]] = x[2]

Vacant == /\ \A f \in Option : cache[f] = {}
          /\ cache.terms = << >>
          /\ cache.entries = << >>

CacheInv ==
  /\ CacheTypeOK
  /\ Faithful
  /\ Vacant \/ \A j \in DOMAIN todo : todo[j].name = "applied"

EmptyCache(b) ==
  [initial_state |-> {}, first_index |-> {}, last_index |-> {}, snapshot |-> {},
   entriesOpen |-> b, entries |-> << >>, terms |-> << >>]

\* An empty cache has its type and nothing to answer.
LEMMA EmptyCacheLemma ==
  ASSUME NEW b \in BOOLEAN, NEW c, c = EmptyCache(b)
  PROVE  /\ c \in [initial_state : SUBSET (Nat \X Nat), first_index : SUBSET Nat,
                   last_index : SUBSET Nat, snapshot : SUBSET Nat,
                   entriesOpen : BOOLEAN,
                   entries : Seq(Index \X Nat), terms : Seq((0..MaxIndex) \X Nat)]
         /\ Len(c.terms) <= CacheSize /\ Len(c.entries) <= CacheSize
         /\ c.terms = << >> /\ c.entries = << >> /\ \A f \in Option : c[f] = {}
         /\ Elements(c.terms) = {} /\ Elements(c.entries) = {}
<1>1. << >> \in Seq(Index \X Nat) /\ << >> \in Seq((0..MaxIndex) \X Nat)
  OBVIOUS
<1>2. c.terms = << >> /\ c.entries = << >> /\ \A f \in Option : c[f] = {}
  BY DEF Option, EmptyCache
<1>3. Len(c.terms) <= CacheSize /\ Len(c.entries) <= CacheSize
  BY <1>2, CacheSizeAssumption
<1>4. Elements(c.terms) = {} /\ Elements(c.entries) = {}
  BY <1>2 DEF Elements
<1>5. c \in [initial_state : SUBSET (Nat \X Nat), first_index : SUBSET Nat,
             last_index : SUBSET Nat, snapshot : SUBSET Nat,
             entriesOpen : BOOLEAN,
             entries : Seq(Index \X Nat), terms : Seq((0..MaxIndex) \X Nat)]
  BY <1>1 DEF EmptyCache
<1> QED  BY <1>2, <1>3, <1>4, <1>5

\* reset leaves an empty cache, and so does a start.
LEMMA EmptiedInv ==
  ASSUME NEW b \in BOOLEAN, cache' = EmptyCache(b)
  PROVE  CacheInv'
  BY EmptyCacheLemma DEF CacheInv, CacheTypeOK, Faithful, Vacant

LEMMA CacheInitInv == Init => CacheInv
<1> SUFFICES ASSUME Init PROVE CacheInv
  OBVIOUS
<1>1. cache = EmptyCache(FALSE)
  BY DEF Init, NewCache, EmptyCache
<1> QED  BY <1>1, EmptyCacheLemma DEF CacheInv, CacheTypeOK, Faithful, Vacant

-----------------------------------------------------------------------------
(* Readers. *)

\* What holds when a reader is called.
LEMMA IdleFacts ==
  ASSUME FsInv, Idle
  PROVE  /\ FsTypeOK /\ Consistent /\ MaxIndex \in Nat
         /\ first \in Nat \ {0} /\ last \in Nat /\ commit \in Nat /\ snapshot \in Nat
         /\ file["term"] \in Nat /\ last <= MaxIndex
         /\ \A i \in first..last : i \in Index /\ entry[i] \in Nat
<1>1. FsTypeOK /\ Consistent
  BY IdleIsConsistent DEF FsInv
<1>2. /\ first \in Nat \ {0} /\ last \in Nat /\ commit \in Nat /\ snapshot \in Nat
      /\ file["term"] \in Nat /\ last <= MaxIndex /\ MaxIndex \in Nat
  BY <1>1, ConsistentTypes, StorageBounds DEF Consistent
<1>3. \A i \in first..last : i \in Index
  BY <1>2 DEF Index
<1>4. \A i \in first..last : entry[i] \in Nat
  BY <1>1, <1>3 DEF Consistent, FsTypeOK
<1> QED  BY <1>1, <1>2, <1>3, <1>4

\* A reader changes one of the caches: the others, and what they are compared with,
\* stay the same.
LEMMA UnchangedFiles ==
  ASSUME UNCHANGED fsVars
  PROVE  /\ file' = file /\ entry' = entry /\ todo' = todo
         /\ first' = first /\ last' = last /\ commit' = commit /\ snapshot' = snapshot
         /\ \A f \in Option : Answer(f)' = Answer(f)
         /\ \A i : FsTerm(i)' = FsTerm(i)
<1>1. file' = file /\ entry' = entry /\ todo' = todo
  BY DEF fsVars
<1>2. first' = first /\ last' = last /\ commit' = commit /\ snapshot' = snapshot
  BY <1>1 DEF first, last, commit, snapshot
<1> QED  BY <1>1, <1>2 DEF Answer, Option, FsTerm

LEMMA ReadOptionInv ==
  ASSUME FsInv, CacheInv, NEW f \in Option, ReadOption(f)
  PROVE  CacheInv'
<1>1. Idle /\ UNCHANGED fsVars /\ cache' = [cache EXCEPT ![f] = {Answer(f)}] /\ todo = << >>
  BY DEF ReadOption, Idle
<1>2. /\ first \in Nat /\ last \in Nat /\ commit \in Nat /\ snapshot \in Nat
  BY <1>1, IdleFacts
<1>3. CacheTypeOK'
  <2>1. CacheTypeOK
    BY DEF CacheInv
  <2>2. CASE f = "initial_state"
    <3>1. {Answer(f)} \in SUBSET (Nat \X Nat)
      BY <1>2, <2>2 DEF Answer
    <3> HIDE DEF Answer
    <3> QED  BY <1>1, <2>1, <2>2, <3>1 DEF CacheTypeOK
  <2>3. CASE f = "first_index"
    BY <1>1, <1>2, <2>1, <2>3 DEF CacheTypeOK, Answer
  <2>4. CASE f = "last_index"
    BY <1>1, <1>2, <2>1, <2>4 DEF CacheTypeOK, Answer
  <2>5. CASE f = "snapshot"
    BY <1>1, <1>2, <2>1, <2>5 DEF CacheTypeOK, Answer
  <2> QED  BY <2>2, <2>3, <2>4, <2>5 DEF Option
<1>4. /\ cache'.terms = cache.terms /\ cache'.entries = cache.entries
      /\ cache'[f] = {Answer(f)} /\ \A g \in Option : g # f => cache'[g] = cache[g]
  BY <1>1 DEF CacheInv, CacheTypeOK, Option
<1>5. Faithful'
  BY <1>1, <1>4, UnchangedFiles DEF CacheInv, Faithful
<1>6. \A j \in DOMAIN todo' : todo'[j].name = "applied"
  BY <1>1, UnchangedFiles
<1> QED  BY <1>3, <1>5, <1>6 DEF CacheInv

\* The caches of terms and of entries after a reader.
LEMMA ReadTermsInv ==
  ASSUME CacheInv, Idle, UNCHANGED fsVars,
         NEW s \in Seq((0..MaxIndex) \X Nat), Len(s) <= CacheSize,
         cache' = [cache EXCEPT !.terms = s],
         \A x \in Elements(s) : FsTerm(x[1]) = x[2]
  PROVE  CacheInv'
<1>1. CacheTypeOK' /\ cache'.terms = s /\ cache'.entries = cache.entries
      /\ \A g \in Option : cache'[g] = cache[g]
  BY DEF CacheInv, CacheTypeOK, Option
<1>2. Faithful'
  BY <1>1, UnchangedFiles DEF CacheInv, Faithful
<1>3. \A j \in DOMAIN todo' : todo'[j].name = "applied"
  BY UnchangedFiles DEF Idle
<1> QED  BY <1>1, <1>2, <1>3 DEF CacheInv

LEMMA ReadEntriesInv ==
  ASSUME CacheInv, Idle, UNCHANGED fsVars, NEW b \in BOOLEAN,
         NEW s \in Seq(Index \X Nat), Len(s) <= CacheSize,
         cache' = [cache EXCEPT !.entriesOpen = b, !.entries = s],
         \A x \in Elements(s) : x[1] \in first..last /\ entry[x[1]] = x[2]
  PROVE  CacheInv'
<1>1. CacheTypeOK' /\ cache'.terms = cache.terms /\ cache'.entries = s
      /\ \A g \in Option : cache'[g] = cache[g]
  BY DEF CacheInv, CacheTypeOK, Option
<1>2. Faithful'
  BY <1>1, UnchangedFiles DEF CacheInv, Faithful
<1>3. \A j \in DOMAIN todo' : todo'[j].name = "applied"
  BY UnchangedFiles DEF Idle
<1> QED  BY <1>1, <1>2, <1>3 DEF CacheInv

LEMMA ReadTermInv ==
  ASSUME FsInv, CacheInv, NEW i \in 0..MaxIndex, ReadTerm(i)
  PROVE  CacheInv'
<1> DEFINE T == (0..MaxIndex) \X Nat
           s == cache.terms
<1>1. Idle /\ UNCHANGED fsVars
  BY DEF ReadTerm
<1>2. s \in Seq(T) /\ Len(s) <= CacheSize /\ \A x \in Elements(s) : FsTerm(x[1]) = x[2]
  BY DEF CacheInv, CacheTypeOK, Faithful
<1>3. CASE Positions(s, i) # {} /\ cache' = [cache EXCEPT !.terms = Touch(s, i)]
  <2> DEFINE r == Touch(s, i)
  <2>1. cache' = [cache EXCEPT !.terms = r]
    BY <1>3
  <2> HIDE DEF s, T
  <2>2. r \in Seq(T) /\ Len(r) = Len(s) /\ Elements(r) = Elements(s)
    BY <1>2, <1>3, TouchLemma
  <2> HIDE DEF r
  <2>3. Len(r) <= CacheSize /\ \A x \in Elements(r) : FsTerm(x[1]) = x[2]
    BY <1>2, <2>2
  <2> QED  BY <1>1, <2>1, <2>2, <2>3, ReadTermsInv DEF T
<1>4. CASE FsTerm(i) >= 0 /\ cache' = [cache EXCEPT !.terms = Insert(s, <<i, FsTerm(i)>>)]
  <2> DEFINE x == <<i, FsTerm(i)>>
  <2>1. FsTerm(i) \in Nat
    <3>1. FsTerm(i) \in Int
      BY <1>1, IdleFacts DEF FsTerm, FsTypeOK, Compacted, Unavailable, Missing
    <3> QED  BY <1>4, <3>1
  <2>2. x \in T /\ FsTerm(x[1]) = x[2]
    BY <2>1
  <2> HIDE DEF s, T, x
  <2>3. /\ Insert(s, x) \in Seq(T) /\ Len(Insert(s, x)) <= CacheSize
        /\ Elements(Insert(s, x)) \subseteq Elements(s) \cup {x}
    BY <1>2, <2>2, InsertLemma
  <2>4. \A y \in Elements(Insert(s, x)) : FsTerm(y[1]) = y[2]
    BY <1>2, <2>2, <2>3
  <2> QED  BY <1>1, <1>4, <2>3, <2>4, ReadTermsInv DEF T, x
<1> QED  BY <1>3, <1>4 DEF ReadTerm

LEMMA ReadCachedEntriesInv ==
  ASSUME FsInv, CacheInv, NEW low \in Index, NEW high \in low..(MaxIndex + 1),
         ReadCachedEntries(low, high)
  PROVE  CacheInv'
<1> DEFINE T == Index \X Nat
           s == cache.entries
           Good(r) == \A x \in Elements(r) : x[1] \in first..last /\ entry[x[1]] = x[2]
<1>1. Idle /\ UNCHANGED fsVars
  BY DEF ReadCachedEntries
<1>2. s \in Seq(T) /\ Len(s) <= CacheSize /\ Good(s)
  BY DEF CacheInv, CacheTypeOK, Faithful
<1>3. low \in Int /\ high \in Int /\ low <= high
  BY StorageBounds DEF Index
<1>4. ASSUME NEW r, cache' = [cache EXCEPT !.entries = r]
      PROVE  cache' = [cache EXCEPT !.entriesOpen = TRUE, !.entries = r]
  <2>1. cache.entriesOpen = TRUE
    BY DEF ReadCachedEntries, CacheInv, CacheTypeOK
  <2> QED  BY <1>4, <2>1 DEF CacheInv, CacheTypeOK
<1>5. CASE /\ \A i \in low..(high - 1) : Positions(s, i) # {}
           /\ cache' = [cache EXCEPT !.entries =
                          InsertAll(TouchAll(s, low, high), low, high,
                                    [i \in low..(high - 1) |-> CachedTerm(i)])]
  <2> DEFINE r == TouchAll(s, low, high)
             term == [i \in low..(high - 1) |-> CachedTerm(i)]
             q == InsertAll(r, low, high, term)
  <2>1. \A i \in low..(high - 1) : <<i, term[i]>> \in T /\ <<i, term[i]>> \in Elements(s)
    <3>1. ASSUME NEW i \in low..(high - 1)
          PROVE  <<i, CachedTerm(i)>> \in T /\ <<i, CachedTerm(i)>> \in Elements(s)
      <4>1. Found(s, i) \in 1..Len(s) /\ s[Found(s, i)][1] = i
        BY <1>2, <1>5, FoundLemma
      <4>2. s[Found(s, i)] \in T /\ s[Found(s, i)] \in Elements(s)
        BY <1>2, <4>1 DEF Elements
      <4>3. s[Found(s, i)] = <<i, CachedTerm(i)>>
        BY <4>1, <4>2 DEF CachedTerm
      <4> QED  BY <4>2, <4>3
    <3> QED  BY <3>1
  <2> HIDE DEF s, T, term
  <2>2. r \in Seq(T) /\ Len(r) = Len(s) /\ Elements(r) = Elements(s)
    BY <1>2, <1>3, <1>5, TouchAllLemma
  <2> HIDE DEF r
  <2>3. /\ q \in Seq(T) /\ Len(q) <= CacheSize
        /\ Elements(q) \subseteq Elements(r) \cup {<<i, term[i]>> : i \in low..(high - 1)}
    BY <1>2, <1>3, <2>1, <2>2, InsertAllLemma
  <2>4. Good(q)
    <3>1. Elements(q) \subseteq Elements(s)
      BY <2>1, <2>2, <2>3
    <3> QED  BY <1>2, <3>1
  <2>5. cache' = [cache EXCEPT !.entriesOpen = TRUE, !.entries = q]
    BY <1>4, <1>5 DEF s, r, term
  <2> HIDE DEF q
  <2> QED  BY <1>1, <2>3, <2>4, <2>5, ReadEntriesInv DEF T
<1>6. ASSUME NEW i \in low..(high - 1), \A j \in low..(i - 1) : Positions(s, j) # {},
             cache' = [cache EXCEPT !.entries = TouchAll(s, low, i)]
      PROVE  CacheInv'
  <2> DEFINE r == TouchAll(s, low, i)
  <2> HIDE DEF s, T
  <2>1. r \in Seq(T) /\ Len(r) = Len(s) /\ Elements(r) = Elements(s)
    <3>1. i \in Int /\ low <= i
      BY <1>3
    <3> QED  BY <1>2, <1>3, <1>6, <3>1, TouchAllLemma
  <2>2. cache' = [cache EXCEPT !.entriesOpen = TRUE, !.entries = r]
    BY <1>4, <1>6
  <2> HIDE DEF r
  <2>3. Good(r) /\ Len(r) <= CacheSize
    BY <1>2, <2>1
  <2> QED  BY <1>1, <2>1, <2>2, <2>3, ReadEntriesInv DEF T
<1> QED  BY <1>5, <1>6 DEF ReadCachedEntries

LEMMA ReadStoredEntriesInv ==
  ASSUME FsInv, CacheInv, NEW low \in Index, NEW high \in low..(MaxIndex + 1),
         ReadStoredEntries(low, high)
  PROVE  CacheInv'
<1> DEFINE T == Index \X Nat
           term == [i \in low..(high - 1) |-> entry[i]]
           q == InsertAll(<< >>, low, high, term)
<1>1. /\ Idle /\ UNCHANGED fsVars /\ FsEntriesOK(low, high)
      /\ cache' = [cache EXCEPT !.entriesOpen = TRUE, !.entries = q]
  BY DEF ReadStoredEntries
<1>2. low \in Int /\ high \in Int /\ low <= high /\ MaxIndex \in Nat
  BY StorageBounds DEF Index
<1>3. \A i \in low..(high - 1) : i \in first..last /\ i \in Index /\ entry[i] \in Nat
  <2>1. /\ first \in Nat /\ last \in Nat
        /\ \A i \in first..last : i \in Index /\ entry[i] \in Nat
    BY <1>1, IdleFacts
  <2>2. \A i \in low..(high - 1) : i \in first..last
    BY <1>1, <1>2, <2>1 DEF FsEntriesOK
  <2> QED  BY <2>1, <2>2
<1>4. \A i \in low..(high - 1) : /\ <<i, term[i]>> \in T
                                 /\ i \in first..last /\ entry[i] = term[i]
  BY <1>3
<1> HIDE DEF T, term
<1> DEFINE e == << >>
<1>5. e \in Seq(T) /\ Len(e) <= CacheSize /\ Elements(e) = {} /\ q = InsertAll(e, low, high, term)
  BY CacheSizeAssumption DEF Elements
<1> HIDE DEF e, q
<1>6. /\ q \in Seq(T) /\ Len(q) <= CacheSize
      /\ Elements(q) \subseteq Elements(e) \cup {<<i, term[i]>> : i \in low..(high - 1)}
  <2>1. \A i \in low..(high - 1) : <<i, term[i]>> \in T
    BY <1>4
  <2>2. e \in Seq(T) /\ Len(e) <= CacheSize
    BY <1>5
  <2>3. LET r == InsertAll(e, low, high, term)
        IN  /\ r \in Seq(T) /\ Len(r) <= CacheSize
            /\ Elements(r) \subseteq Elements(e) \cup {<<i, term[i]>> : i \in low..(high - 1)}
    BY <1>2, <2>1, <2>2, InsertAllLemma
  <2> QED  BY <1>5, <2>3
<1>7. \A x \in Elements(q) : x[1] \in first..last /\ entry[x[1]] = x[2]
  BY <1>4, <1>5, <1>6
<1> QED  BY <1>1, <1>6, <1>7, ReadEntriesInv DEF T

-----------------------------------------------------------------------------
(* Writers. *)

\* Before a write that the cache could notice the cache has been emptied.
LEMMA DoWriteCacheInv ==
  ASSUME FsInv, CacheInv, DoWrite, UNCHANGED cache
  PROVE  CacheInv'
<1>1. CacheTypeOK'
  BY DEF CacheInv, CacheTypeOK
<1>2. CASE Vacant
  <2>1. Vacant'
    BY <1>2 DEF Vacant
  <2>2. Faithful'
    <3>1. Elements(cache'.terms) = {} /\ Elements(cache'.entries) = {}
      BY <2>1 DEF Elements, Vacant
    <3> QED  BY <2>1, <3>1 DEF Faithful, Vacant
  <2> QED  BY <1>1, <2>1, <2>2 DEF CacheInv
<1>3. CASE \A j \in DOMAIN todo : todo[j].name = "applied"
  <2>1. FsTypeOK /\ todo \in Seq(Write)
    BY DEF FsInv, FsTypeOK
  <2>2. /\ Len(todo) \in Nat \ {0} /\ todo[1] \in Write
        /\ todo' \in Seq(Write) /\ Len(todo') = Len(todo) - 1
        /\ \A j \in 1..(Len(todo) - 1) : todo'[j] = todo[j + 1]
    BY <2>1, TodoAfterWrite
  <2>3. todo[1].name = "applied" /\ Head(todo) = todo[1]
    BY <1>3, <2>1, <2>2, HeadTailProperties DEF DoWrite
  <2>4. /\ file' = [file EXCEPT !["applied"] = todo[1].value] /\ entry' = entry
    BY <2>3 DEF DoWrite
  <2>5. \A g \in MetaFile : g # "applied" => file'[g] = file[g]
    BY <2>1, <2>4 DEF FsTypeOK
  <2>6. /\ first' = first /\ last' = last /\ commit' = commit /\ snapshot' = snapshot
        /\ file'["term"] = file["term"]
    BY <2>5 DEF first, last, commit, snapshot, MetaFile
  <2>7. Faithful'
    <3>1. \A f \in Option : Answer(f)' = Answer(f)
      BY <2>6 DEF Answer, Option
    <3>2. \A i : FsTerm(i)' = FsTerm(i)
      BY <2>4, <2>6 DEF FsTerm
    <3> QED  BY <2>4, <2>6, <3>1, <3>2 DEF CacheInv, Faithful
  <2>8. \A j \in DOMAIN todo' : todo'[j].name = "applied"
    <3>1. \A j \in DOMAIN todo' : j \in 1..(Len(todo) - 1) /\ j + 1 \in DOMAIN todo
      BY <2>1, <2>2
    <3> QED  BY <1>3, <2>2, <3>1
  <2> QED  BY <1>1, <2>7, <2>8 DEF CacheInv
<1> QED  BY <1>2, <1>3 DEF CacheInv

LEMMA SetAppliedCacheInv ==
  ASSUME FsInv, CacheInv, SetApplied, UNCHANGED cache
  PROVE  CacheInv'
<1>1. PICK a : todo' = <<Put("applied", a)>> /\ file' = file /\ entry' = entry
  BY DEF SetApplied, Perform
<1>2. CacheTypeOK'
  BY DEF CacheInv, CacheTypeOK
<1>3. Faithful'
  <2>1. first' = first /\ last' = last /\ commit' = commit /\ snapshot' = snapshot
    BY <1>1 DEF first, last, commit, snapshot
  <2>2. \A f \in Option : Answer(f)' = Answer(f)
    BY <2>1 DEF Answer, Option
  <2>3. \A i : FsTerm(i)' = FsTerm(i)
    BY <1>1, <2>1 DEF FsTerm
  <2> QED  BY <1>1, <2>1, <2>2, <2>3 DEF CacheInv, Faithful
<1>4. \A j \in DOMAIN todo' : todo'[j].name = "applied"
  BY <1>1 DEF Put
<1> QED  BY <1>2, <1>3, <1>4 DEF CacheInv

LEMMA CacheStep ==
  ASSUME FsInv, CacheInv, [Next]_vars
  PROVE  CacheInv'
<1>1. CASE UNCHANGED vars
  <2>1. UNCHANGED fsVars /\ cache' = cache
    BY <1>1 DEF vars, fsVars
  <2>2. CacheTypeOK' /\ (Vacant' = Vacant)
    BY <2>1 DEF CacheInv, CacheTypeOK, Vacant
  <2>3. Faithful'
    BY <2>1, UnchangedFiles DEF CacheInv, Faithful
  <2> QED  BY <2>1, <2>2, <2>3, UnchangedFiles DEF CacheInv
<1>2. CASE Reader
  BY <1>2, ReadOptionInv, ReadTermInv, ReadCachedEntriesInv, ReadStoredEntriesInv DEF Reader
<1>3. CASE cache' = Reset(cache)
  <2>1. cache.entriesOpen \in BOOLEAN
    BY DEF CacheInv, CacheTypeOK
  <2>2. ASSUME NEW b \in BOOLEAN, NEW c, c = [NewCache EXCEPT !.entriesOpen = b]
        PROVE  c = EmptyCache(b)
    BY <2>2 DEF NewCache, EmptyCache
  <2>3. Reset(cache) = EmptyCache(cache.entriesOpen)
    BY <2>1, <2>2 DEF Reset
  <2> QED  BY <1>3, <2>1, <2>3, EmptiedInv
<1>4. CASE cache' = NewCache
  <2>1. NewCache = EmptyCache(FALSE)
    BY DEF NewCache, EmptyCache
  <2> QED  BY <1>4, <2>1, EmptiedInv
<1>5. CASE SetApplied /\ UNCHANGED cache
  BY <1>5, SetAppliedCacheInv
<1>6. CASE DoWrite /\ UNCHANGED cache
  BY <1>6, DoWriteCacheInv
<1> QED  BY <1>1, <1>2, <1>3, <1>4, <1>5, <1>6 DEF Next, Writer, Starter

\* The files' invariant and the cache's hold in every state.
LEMMA CacheInvariance == Spec => [](FsInv /\ CacheInv)
<1>1. Init => FsInv /\ CacheInv
  BY FsInitInv, CacheInitInv DEF Init
<1>2. FsInv /\ CacheInv /\ [Next]_vars => FsInv' /\ CacheInv'
  BY StorageStep, CacheStep
<1> QED  BY <1>1, <1>2, PTL DEF Spec

-----------------------------------------------------------------------------
(* The theorems. *)

\* Types: among them that both caches keep to CACHE_SIZE, insertions of a whole range of
\* entries included.
THEOREM StorageTypes == Spec => []TypeOK
<1>1. FsInv /\ CacheInv => TypeOK
  BY DEF FsInv, CacheInv, TypeOK
<1> QED  BY <1>1, CacheInvariance, PTL

\* The cache never shows, whatever the bounds of the log and the size of the cache: what
\* it answers is what the files would answer.
THEOREM CacheIsTransparentAlways == Spec => []CacheIsTransparent
<1>1. CacheInv => CacheIsTransparent
  <2> SUFFICES ASSUME CacheInv PROVE CacheIsTransparent
    OBVIOUS
  <2>1. Faithful
    BY DEF CacheInv
  <2>2. /\ \A j \in DOMAIN cache.terms : cache.terms[j] \in Elements(cache.terms)
        /\ \A j \in DOMAIN cache.entries : cache.entries[j] \in Elements(cache.entries)
    BY DEF Elements
  <2> QED  BY <2>1, <2>2 DEF Faithful, CacheIsTransparent
<1> QED  BY <1>1, CacheInvariance, PTL
====
