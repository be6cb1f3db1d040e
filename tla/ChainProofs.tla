---------------------------- MODULE ChainProofs -----------------------------
(***************************************************************************)
(* The chains of the validators and the Raft log, for any number of peers, *)
(* blocks, terms, stops and membership changes.                            *)
(*                                                                         *)
(* A validator is never more than one block away from the entry recorded   *)
(* by set_applied: its head and the commits asked of it are the last block *)
(* up to that entry, or the next one after it.  This takes an invariant    *)
(* about the logs (a block has one index in all of them, and its parent    *)
(* was committed at a lower one), which in turn takes one about the blocks *)
(* that leaders hold before they propose them.  With the agreement of the  *)
(* storages (module RaftProofs), it makes the engines an implementation of *)
(* OrderedCommit.                                                          *)
(*                                                                         *)
(* The last part is about leaders.  As long as each begins with all the    *)
(* blocks of its log committed, the logs match, and no crash tears an      *)
(* overwriting append, the chains do not fork; as long as each begins with *)
(* the peers its chain asks for too, it builds its blocks with those       *)
(* peers.  The winner of a first election does.                            *)
(***************************************************************************)
EXTENDS RaftProofs

-----------------------------------------------------------------------------
(* The invariant *)

\* Block b is at index i of log l; the genesis block comes before index 1.
BlockAt(l, i, b) == IF i = 0 THEN b = Genesis ELSE IsBlock(l[i]) /\ l[i].block = b

InLog(l, b, c) == \E i \in 0..c : BlockAt(l, i, b)

HasBlock(l, b) == \E i \in DOMAIN l : IsBlock(l[i]) /\ l[i].block = b

OnceIn(l) == \A i, j \in DOMAIN l :
  IsBlock(l[i]) /\ IsBlock(l[j]) /\ l[i].block = l[j].block => i = j

\* A block has the same index in all logs.
SameSpots(k, l) == \A i \in DOMAIN k, j \in DOMAIN l :
  IsBlock(k[i]) /\ IsBlock(l[j]) /\ k[i].block = l[j].block => i = j

\* Before a block of log l, some storage has its parent as committed.
Rooted(i, b) ==
  \E m \in Node : \E j \in 0..disk[m].commit : j < i /\ BlockAt(disk[m].log, j, Parent(b))

RootedIn(l) == \A i \in DOMAIN l : IsBlock(l[i]) => Rooted(i, l[i].block)

\* A leader holds a block until it proposes it: nobody else does, the block is in
\* no log, and its parent is among the blocks the leader's storage has as
\* committed.
Holds(n, b) == Up(n) /\ Awaits(n, b)

HeldOK(n) == \A b \in BlockId : Holds(n, b) =>
  /\ b \in DOMAIN tree
  /\ \A l \in Logs : ~HasBlock(l, b)
  /\ InLog(disk[n].log, Parent(b), disk[n].commit)
  /\ \A m \in Node \ {n} : ~Holds(m, b)

BuildingOK(n) == validator[n].building # NoBlock =>
  InLog(disk[n].log, validator[n].building, disk[n].commit)

\* The last block up to index a, and the next one after it and up to c.
LastIn(l, a, b) == \E i \in 0..a : BlockAt(l, i, b) /\ BlocksBetween(l, i, a) = {}

NextIn(l, a, c, b) == \E i \in (a + 1)..c :
  BlockAt(l, i, b) /\ BlocksBetween(l, a, i) = {i}

LastBlock(n, b) == LastIn(disk[n].log, disk[n].applied, b)
NextBlock(n, b) == NextIn(disk[n].log, disk[n].applied, disk[n].commit, b)

Near(n, b) == LastBlock(n, b) \/ NextBlock(n, b)

Requested(n) == validator[n].requests

\* The head and the commits asked for, in their order: first the last block, then
\* the next one.  A BlockCommit on its way is about one that is applied, or about
\* the head.
ChainOK(n) ==
  /\ Near(n, validator[n].head)
  /\ \A k \in DOMAIN Requested(n) :
       /\ Near(n, Requested(n)[k])
       /\ NextBlock(n, validator[n].head) => NextBlock(n, Requested(n)[k])
       /\ \A l \in DOMAIN Requested(n) : k < l /\ NextBlock(n, Requested(n)[k]) =>
            NextBlock(n, Requested(n)[l])
  /\ \A b \in BlockId : Commit(b) \in validator[n].inbox =>
       \/ \E i \in 1..disk[n].applied : BlockAt(disk[n].log, i, b)
       \/ NextBlock(n, b) /\ validator[n].head = b

ChainInv == /\ \A k, l \in Logs : SameSpots(k, l)
            /\ \A l \in Logs : RootedIn(l)
            /\ \A n \in Node : HeldOK(n) /\ BuildingOK(n) /\ ChainOK(n)

-----------------------------------------------------------------------------
(* The logs after a step *)

\* A log that a leader has extended by a new entry; a block is one it held.
Extended(n, l) ==
  /\ Up(n)
  /\ \E e \in Entry :
       /\ Appended(l, raft[n].log, e)
       /\ IsBlock(e) => /\ Awaits(n, e.block) /\ leader_state'[n] = Proposing(e.block)
                        /\ raft[n].role = "Leader"

\* A log into which a follower has received that of a leader, and one that has no
\* entry that was not at its index before.
Merged(l) == \E k, h \in Logs : l = Received(k, h)

Copied(l) == \A i \in DOMAIN l : \E k \in Logs : i \in DOMAIN k /\ l[i] = k[i]

\* The library's log after one of its moves.
LEMMA LibraryLog ==
  ASSUME IndInv, NEW n \in Node, Up(n), LibraryMoves(n)
  PROVE  \/ raft'[n].log \in Logs
         \/ Extended(n, raft'[n].log)
         \/ Merged(raft'[n].log)
<1> DEFINE r == raft[n]
           q == raft'[n]
           voters == raft_id_to_peer_id[n]
<1>1. r \in Raft /\ r.log \in Seq(Entry) /\ r.commit <= Len(r.log) /\ r.term \in Term
  BY Indices DEF Raft
<1>2. r.log \in Logs /\ \A m \in Node : sent[m].log \in Logs
  BY LogsAre
<1> HIDE DEF r, q, voters
<1>3. ASSUME NEW t \in Term, Appended(q.log, r.log, EmptyEntry(t))
      PROVE  Extended(n, q.log)
  BY <1>3, EntryTypes, EmptyEntryLemma DEF Extended, r
<1>4. CASE Keeps(n)
  BY <1>2, <1>4 DEF Keeps, r, q
<1>5. CASE Appends(n)
  <2>1. PICK e : Fresh(n, e) /\ r.role = "Leader" /\ q = AppendAsLeader(n, r, e, voters)
    BY <1>5 DEF Appends, r, q, voters
  <2>2. e \in Entry
    BY <2>1 DEF Fresh
  <2>3. Appended(q.log, r.log, e)
    BY <1>1, <2>1, <2>2, AppendAsLeaderFields
  <2> QED  BY <2>1, <2>2, <2>3 DEF Extended, Fresh, q, r
<1>6. CASE Campaigns(n)
  <2>1. r.term < MaxTerm /\ q = Campaign(n, r, voters)
    BY <1>6 DEF Campaigns, r, q, voters
  <2>2. r.term + 1 \in Term
    BY <1>1, <2>1, MaxTermAssumption DEF Term
  <2>3. /\ voters = {n} => Appended(q.log, r.log, EmptyEntry(r.term + 1))
        /\ voters # {n} => q.log = r.log
    BY <1>1, <2>1, CampaignFields
  <2> QED  BY <1>2, <1>3, <2>2, <2>3 DEF q
<1>7. ASSUME NEW m \in Node, HearsCandidate(n, m) PROVE q.log \in Logs
  <2>1. sent[m] \in Message
    BY DEF IndInv, TypeOK
  <2>2. sent[m].term >= r.term /\ q = HandleRequestVote(r, sent[m], m)
    BY <1>7 DEF HearsCandidate, r, q
  <2>3. q.log = r.log
    BY <1>1, <2>1, <2>2, HandleRequestVoteFields
  <2> QED  BY <1>2, <2>3
<1>8. ASSUME NEW m \in Node, HearsLeader(n, m) PROVE Merged(q.log)
  <2>1. sent[m] \in Message
    BY DEF IndInv, TypeOK
  <2>2. sent[m].term >= r.term /\ q = HandleAppend(r, sent[m])
    BY <1>8 DEF HearsLeader, r, q
  <2>3. q.log = Received(r.log, sent[m].log)
    BY <1>1, <2>1, <2>2, HandleAppendFields
  <2> QED  BY <1>2, <2>3 DEF Merged
<1>9. CASE Wins(n)
  <2>1. q = BecomeLeader(n, r, voters)
    BY <1>9 DEF Wins, r, q, voters
  <2>2. Appended(q.log, r.log, EmptyEntry(r.term))
    BY <1>1, <2>1, BecomeLeaderFields
  <2> QED  BY <1>1, <1>3, <2>2 DEF q
<1>10. CASE Advances(n)
  <2>1. PICK c : q = [r EXCEPT !.commit = c, !.msgs = "waiting"]
    BY <1>10 DEF Advances, r, q
  <2>2. q.log = r.log
    BY <1>1, <2>1 DEF Raft
  <2> QED  BY <1>2, <2>2 DEF q
<1> QED
  BY <1>4, <1>5, <1>6, <1>7, <1>8, <1>9, <1>10 DEF LibraryMoves, Steps, q

\* No step makes a log but by extending one, by merging two, or in a storage.
LEMMA LogStep ==
  ASSUME IndInv, [Next]_vars, NEW l \in Logs'
  PROVE  \/ l \in Logs \/ Merged(l)
         \/ \E n \in Node : Extended(n, l) \/ l = disk'[n].log
<1>1. ASSUME NEW n \in Node
      PROVE  \/ raft'[n].log \in Logs \/ Merged(raft'[n].log)
             \/ Extended(n, raft'[n].log) \/ raft'[n].log = disk'[n].log
  <2>1. Moves(n) /\ raft[n] \in Raft /\ disk[n] \in Disk
    BY NextMoves, Indices
  <2>2. raft[n].log \in Logs /\ disk[n].log \in Logs
    BY LogsAre
  <2>4. CASE Works(n)
    BY <2>4, LibraryLog DEF Works
  <2>5. CASE Pops(n)
    BY <2>5, LibraryLog DEF Pops, LibraryMoves
  <2>6. CASE Saves(n)
    BY <2>2, <2>6 DEF Saves, Keeps
  <2>7. CASE Delivers(n)
    <3> DEFINE p == Delivered(raft[n])
    <3>1. p \in Raft /\ p.log = raft[n].log
      BY <2>1, DeliveredFields
    <3> HIDE DEF p
    <3>2. raft'[n] = p \/ \E P : raft'[n] = CommitAlone(n, p, P)
      BY <2>7 DEF Delivers, p
    <3>3. raft'[n].log = p.log
      BY <3>1, <3>2 DEF CommitAlone, Raft
    <3> QED  BY <2>2, <3>1, <3>3
  <2>8. CASE Stops(n)
    BY <2>8 DEF Stops, NewRaft
  <2>9. CASE Starts(n)
    BY <2>2, <2>9 DEF Starts, NewRaft
  <2>10. CASE Rests(n)
    BY <2>2, <2>10 DEF Rests
  <2> QED
    BY <2>1, <2>4, <2>5, <2>6, <2>7, <2>8, <2>9, <2>10 DEF Moves
<1>2. \A n \in Node : sent'[n].log \in Logs
  BY LogSources, LogsAre
<1>3. PICK n \in Node : l \in {raft'[n].log, disk'[n].log, sent'[n].log}
  BY DEF Logs
<1> QED  BY <1>1, <1>2, <1>3

\* Whatever writes a crash interrupts, an entry stays at its index.
LEMMA DiskCopied ==
  ASSUME IndInv, [Next]_vars, NEW n \in Node
  PROVE  Copied(disk'[n].log)
<1>1. Moves(n) /\ raft[n] \in Raft /\ disk[n] \in Disk
  BY NextMoves, Indices
<1>2. ASSUME disk'[n].log \in {disk[n].log, raft[n].log} PROVE Copied(disk'[n].log)
  BY <1>2, LogsAre DEF Copied
<1>3. CASE Pops(n)
  BY <1>1, <1>2, <1>3 DEF Pops, SetApplied, Disk
<1>4. CASE Saves(n)
  BY <1>1, <1>2, <1>4, DiskFields DEF Saves
<1>5. CASE Stops(n)
  <2>1. ASSUME NEW j \in DOMAIN disk[n].log,
               disk'[n] = InterruptedAppend(disk[n], raft[n], j)
        PROVE  Copied(disk'[n].log)
    <3>1. j \in Nat /\ DOMAIN disk[n].log = 1..Len(disk[n].log)
      BY <1>1 DEF Disk
    <3>2. /\ disk'[n] \in Disk /\ Len(disk'[n].log) = Len(disk[n].log)
          /\ \A i \in 1..Len(disk[n].log) :
               \/ disk'[n].log[i] = disk[n].log[i]
               \/ i \in DOMAIN raft[n].log /\ disk'[n].log[i] = raft[n].log[i]
      BY <1>1, <2>1, <3>1, InterruptedLemma
    <3>3. DOMAIN disk'[n].log = 1..Len(disk[n].log)
      BY <3>2 DEF Disk
    <3> QED  BY <3>1, <3>2, <3>3, LogsAre DEF Copied
  <2> QED  BY <1>1, <1>2, <1>5, <2>1, DiskFields DEF Stops, WrittenSoFar
<1> QED
  BY <1>1, <1>2, <1>3, <1>4, <1>5 DEF Moves, Works, Delivers, Starts, Rests

\* No step makes a log but of entries that were at their index, or by extending one.
LEMMA LogCopies ==
  ASSUME IndInv, [Next]_vars, NEW l \in Logs'
  PROVE  Copied(l) \/ \E n \in Node : Extended(n, l)
<1>1. CASE l \in Logs
  BY <1>1 DEF Copied
<1>2. CASE Merged(l)
  <2>1. PICK k \in Logs, h \in Logs : l = Received(k, h)
    BY <1>2 DEF Merged
  <2>2. k \in Seq(Entry) /\ h \in Seq(Entry)
    BY DEF Logs, IndInv, TypeOK, Raft, Disk, Message
  <2> QED  BY <2>1, <2>2, ReceivedSources DEF Copied
<1> QED  BY <1>1, <1>2, LogStep, DiskCopied

\* Where logs match and no overwrite is torn, it is one of the old logs.
LEMMA LogKept ==
  ASSUME IndInv, [Next]_vars, LogsMatch, [NoTornOverwrite]_vars, NEW l \in Logs'
  PROVE  l \in Logs \/ \E n \in Node : Extended(n, l)
<1>1. CASE Merged(l)
  <2>1. PICK k \in Logs, h \in Logs : l = Received(k, h)
    BY <1>1 DEF Merged
  <2>2. k \in Seq(Entry) /\ h \in Seq(Entry)
    BY DEF Logs, IndInv, TypeOK, Raft, Disk, Message
  <2>3. Matching(k, h)
    BY DEF LogsMatch
  <2> QED  BY <2>1, <2>2, <2>3, ReceivedMatching
<1>2. \A n \in Node : disk'[n].log \in Logs
  BY WholeLogs, LogsAre
<1> QED  BY <1>1, <1>2, LogStep

-----------------------------------------------------------------------------
(* The storage and the validators after a step *)

\* What the storage has as committed and as applied stays.
KeepsDisk(m) ==
  /\ disk'[m].applied = disk[m].applied
  /\ disk[m].commit <= disk'[m].commit
  /\ \A i \in 1..disk[m].commit : disk'[m].log[i] = disk[m].log[i]

\* set_applied for the front of the queue, when the validator has reported it.
Applies(m) == Pops(m) /\ Commit(Commits(m)[1].block) \in validator[m].inbox

\* The head stays; requests may be lost, and no commit is reported.
KeepsChain(m) ==
  /\ validator'[m].head = validator[m].head
  /\ validator'[m].building \in {validator[m].building, validator[m].head, NoBlock}
  /\ validator'[m].requests \in {Requested(m), << >>}
  /\ \A b : Commit(b) \in validator'[m].inbox => Commit(b) \in validator[m].inbox

AsksCommit(m) ==
  /\ Up(m) /\ Commits(m) # << >>
  /\ validator'[m].head = validator[m].head
  /\ validator'[m].building = validator[m].building
  /\ validator'[m].requests = Append(Requested(m), Commits(m)[1].block)
  /\ validator'[m].inbox = validator[m].inbox
  /\ disk'[m] = disk[m]

Performs(m) ==
  /\ Requested(m) # << >>
  /\ validator'[m].head = Requested(m)[1]
  /\ validator'[m].building = validator[m].building
  /\ validator'[m].requests = Tail(Requested(m))
  /\ \A b : Commit(b) \in validator'[m].inbox =>
       Commit(b) \in validator[m].inbox \/ b = Requested(m)[1]
  /\ disk'[m] = disk[m]

\* The chain stays, or a validator carries out a commit and no storage changes.
Stays(m) == (KeepsChain(m) /\ (KeepsDisk(m) \/ Applies(m))) \/ AsksCommit(m)

ChainMoves(m) == Stays(m) \/ Performs(m)

ChainsMove == \/ \A m \in Node : Stays(m)
              \/ \E n \in Node : /\ Performs(n) /\ disk' = disk
                                 /\ \A m \in Node \ {n} : Stays(m)

\* The indices of a storage.
LEMMA StorageIndices ==
  ASSUME IndInv, NEW n \in Node
  PROVE  /\ disk[n].log \in Seq(Entry) /\ disk[n].commit \in Nat /\ disk[n].applied \in Nat
         /\ disk[n].applied <= disk[n].commit /\ disk[n].commit <= Len(disk[n].log)
         /\ Len(disk[n].log) \in Nat
<1>1. disk[n] \in Disk /\ DurableOK(n)
  BY DEF IndInv, TypeOK, NodeOK
<1> QED  BY <1>1 DEF Disk, DurableOK

\* A step that leaves the storage as it is.
LEMMA SameStorage ==
  ASSUME IndInv, NEW m \in Node, disk'[m] = disk[m]
  PROVE  KeepsDisk(m)
  BY Indices DEF KeepsDisk

\* What a call of the engine does to the head, the block under construction and
\* the commits that are asked for and reported.
LEMMA CallFields ==
  ASSUME NEW v \in ValidatorState, NEW u, NEW b
  PROVE  /\ LET w == Receive(v, u)
            IN  /\ w.head = v.head /\ w.building = v.building /\ w.requests = v.requests
                /\ w.inbox \subseteq v.inbox
         /\ LET w == InitializeBlock(v)
            IN  /\ w.head = v.head /\ w.building = v.head /\ w.requests = v.requests
                /\ w.inbox = v.inbox
         /\ LET w == CancelBlock(v)
            IN  /\ w.head = v.head /\ w.building = NoBlock /\ w.requests = v.requests
                /\ w.inbox = v.inbox
         /\ LET w == CheckBlocks(v, b)
            IN  /\ w.head = v.head /\ w.building = v.building /\ w.requests = v.requests
                /\ w.inbox = v.inbox \cup {Verdict(b, tree[b].valid)}
         /\ LET w == CommitBlock(v, b)
            IN  /\ w.head = v.head /\ w.building = v.building /\ w.inbox = v.inbox
                /\ w.requests = Append(v.requests, b)
<1>1. LET w == Receive(v, u)
      IN  /\ w.head = v.head /\ w.building = v.building /\ w.requests = v.requests
          /\ w.inbox \subseteq v.inbox
  BY DEF Receive, ValidatorState
<1>2. LET w == InitializeBlock(v)
      IN  /\ w.head = v.head /\ w.building = v.head /\ w.requests = v.requests
          /\ w.inbox = v.inbox
  BY DEF InitializeBlock, ValidatorState
<1>3. LET w == CancelBlock(v)
      IN  /\ w.head = v.head /\ w.building = NoBlock /\ w.requests = v.requests
          /\ w.inbox = v.inbox
  BY DEF CancelBlock, ValidatorState
<1>4. LET w == CheckBlocks(v, b)
      IN  /\ w.head = v.head /\ w.building = v.building /\ w.requests = v.requests
          /\ w.inbox = v.inbox \cup {Verdict(b, tree[b].valid)}
  BY DEF CheckBlocks, ValidatorState
<1>5. LET w == CommitBlock(v, b)
      IN  /\ w.head = v.head /\ w.building = v.building /\ w.inbox = v.inbox
          /\ w.requests = Append(v.requests, b)
  BY DEF CommitBlock, ValidatorState
<1> QED  BY <1>1, <1>2, <1>3, <1>4, <1>5

\* Neither a new block nor a verdict is a BlockCommit.
LEMMA NoCommitUpdate ==
  \A b, c, ok : Commit(b) # New(c) /\ Commit(b) # Verdict(c, ok)
  BY DEF Commit, New, Verdict, Valid, Invalid

\* The chain as a call leaves it.
KeptIn(v, w) ==
  /\ w.head = v.head /\ w.building \in {v.building, v.head, NoBlock}
  /\ w.requests \in {v.requests, << >>}
  /\ \A b : Commit(b) \in w.inbox => Commit(b) \in v.inbox

\* An update that is received
LEMMA ReceiveKept ==
  ASSUME NEW v \in ValidatorState, NEW u
  PROVE  KeptIn(v, Receive(v, u))
<1> DEFINE w == Receive(v, u)
<1>1. /\ w.head = v.head /\ w.building = v.building /\ w.requests = v.requests
      /\ w.inbox \subseteq v.inbox
  BY CallFields
<1> HIDE DEF w
<1>2. KeptIn(v, w)
  BY <1>1 DEF KeptIn
<1> QED  BY <1>2 DEF w

\* A step that concerns one validator.
LEMMA OneChain ==
  ASSUME TypeOK, NEW n \in Node, NEW w,
         validator' = [validator EXCEPT ![n] = w], KeptIn(validator[n], w),
         \A m \in Node : KeepsDisk(m) \/ Applies(m)
  PROVE  ChainsMove
<1>1. ASSUME NEW m \in Node PROVE KeepsChain(m)
  <2>1. CASE m = n
    <3>1. validator'[m] = w
      BY <2>1 DEF TypeOK
    <3> QED  BY <2>1, <3>1 DEF KeepsChain, KeptIn, Requested
  <2>2. CASE m # n
    <3>1. validator'[m] = validator[m]
      BY <2>2 DEF TypeOK
    <3> QED  BY <3>1 DEF KeepsChain, Requested
  <2> QED  BY <2>1, <2>2
<1> QED  BY <1>1 DEF ChainsMove, Stays

\* A step that concerns none.
LEMMA NoChain ==
  ASSUME validator' = validator, \A m \in Node : KeepsDisk(m) \/ Applies(m)
  PROVE  ChainsMove
  BY DEF ChainsMove, Stays, KeepsChain, Requested

\* handle_update, but for on_block_commit
LEMMA HandleUpdateChain ==
  ASSUME IndInv, NEW n \in Node, HandleUpdate(n),
         \A m \in Node : KeepsDisk(m) \/ Applies(m)
  PROVE  ChainsMove
<1>1. TypeOK /\ validator[n] \in ValidatorState
  BY DEF IndInv, TypeOK
<1>2. ASSUME NEW b \in BlockId, OnBlockNew(n, b) PROVE ChainsMove
  <2> DEFINE v == Receive(validator[n], New(b))
             w == CheckBlocks(v, b)
  <2>1. v \in ValidatorState
    BY <1>1, ReceiveFields
  <2>2. KeptIn(validator[n], v)
    BY <1>1, ReceiveKept
  <2> HIDE DEF v
  <2>3. /\ w.head = v.head /\ w.building = v.building /\ w.requests = v.requests
        /\ w.inbox = v.inbox \cup {Verdict(b, tree[b].valid)}
    BY <2>1, CallFields
  <2>4. validator' = [validator EXCEPT ![n] = w]
    BY <1>2 DEF OnBlockNew, v
  <2> HIDE DEF w
  <2>5. KeptIn(validator[n], w)
    BY <2>2, <2>3, NoCommitUpdate DEF KeptIn
  <2> QED  BY <1>1, <2>4, <2>5, OneChain
<1>3. ASSUME NEW u, validator' = [validator EXCEPT ![n] = Receive(@, u)]
      PROVE  ChainsMove
  <2> DEFINE w == Receive(validator[n], u)
  <2>1. KeptIn(validator[n], w)
    BY <1>1, ReceiveKept
  <2>2. validator' = [validator EXCEPT ![n] = w]
    BY <1>3
  <2> HIDE DEF w
  <2> QED  BY <1>1, <2>1, <2>2, OneChain
<1>4. ASSUME NEW b \in BlockId,
             OnBlockValid(n, b) \/ OnBlockInvalid(n, b) \/ FollowerOnBlockCommit(n, b)
               \/ IgnoreBlockCommit(n, b)
      PROVE  ChainsMove
  BY <1>3, <1>4
     DEF OnBlockValid, OnBlockInvalid, FollowerOnBlockCommit, IgnoreBlockCommit
<1>5. ASSUME NEW b \in BlockId, LeaderOnBlockCommit(n, b) PROVE ChainsMove
  <2>1. CASE validator' = [validator EXCEPT ![n] = Receive(@, Commit(b))]
    BY <1>3, <2>1
  <2>2. CASE validator' = [validator EXCEPT ![n] = InitializeBlock(Receive(@, Commit(b)))]
    <3> DEFINE v == Receive(validator[n], Commit(b))
               w == InitializeBlock(v)
    <3>1. v \in ValidatorState
      BY <1>1, ReceiveFields
    <3>2. KeptIn(validator[n], v)
      BY <1>1, ReceiveKept
    <3> HIDE DEF v
    <3>3. /\ w.head = v.head /\ w.building = v.head /\ w.requests = v.requests
          /\ w.inbox = v.inbox
      BY <3>1, CallFields
    <3>4. validator' = [validator EXCEPT ![n] = w]
      BY <2>2 DEF v
    <3> HIDE DEF w
    <3>5. KeptIn(validator[n], w)
      BY <3>2, <3>3 DEF KeptIn
    <3> QED  BY <1>1, <3>4, <3>5, OneChain
  <2> QED  BY <1>5, <2>1, <2>2 DEF LeaderOnBlockCommit
<1>6. ASSUME NEW m \in Node, StepMessage(n, m) PROVE ChainsMove
  BY <1>1, <1>6, NoChain DEF StepMessage
<1> QED
  BY <1>2, <1>4, <1>5, <1>6 DEF HandleUpdate, OnBlockCommit, OnPeerMessage

\* tick
LEMMA TickChain ==
  ASSUME IndInv, NEW n \in Node, Tick(n)
  PROVE  ChainsMove
<1>1. /\ TypeOK /\ CheckPublish(n) /\ tree \in Seq(BlockRecord)
      /\ \A m \in Node : KeepsDisk(m) \/ Applies(m)
  BY SameStorage DEF IndInv, TypeOK, Tick
<1>2. CASE UNCHANGED <<tree, validator, leader_state>>
  BY <1>1, <1>2, NoChain
<1>3. CASE Publish(n)
  <2> DEFINE running == {m \in Node : phase[m] \in Running}
  <2>1. PICK b, ok : validator' = FinalizedAt(n, b, ok, running)
    BY <1>3 DEF Publish
  <2> HIDE DEF running
  <2>2. ASSUME NEW m \in Node PROVE KeepsChain(m)
    <3>1. validator[m] \in ValidatorState
      BY <1>1 DEF TypeOK
    <3> DEFINE B == IF m = n THEN NoBlock ELSE validator[m].building
               I == IF m \in running THEN validator[m].inbox \cup {New(b), Verdict(b, ok)}
                                     ELSE validator[m].inbox
    <3>2. validator'[m] = [validator[m] EXCEPT !.building = B, !.inbox = I]
      BY <2>1 DEF FinalizedAt
    <3>3. B \in {validator[m].building, NoBlock}
      OBVIOUS
    <3>4. \A c : Commit(c) \in I => Commit(c) \in validator[m].inbox
      BY NoCommitUpdate
    <3> HIDE DEF B, I
    <3>5. /\ validator'[m].inbox = I /\ validator'[m].building = B
          /\ validator'[m].requests = validator[m].requests
          /\ validator'[m].head = validator[m].head
      BY <3>1, <3>2 DEF ValidatorState
    <3> QED  BY <3>3, <3>4, <3>5 DEF KeepsChain, Requested
  <2> QED  BY <1>1, <2>2 DEF ChainsMove, Stays
<1> QED  BY <1>1, <1>2, <1>3 DEF CheckPublish

\* A change of role only starts or cancels a block.
LEMMA TakeRoleChain ==
  ASSUME TypeOK, NEW n \in Node, TakeRole(n), \A m \in Node : KeepsDisk(m) \/ Applies(m)
  PROVE  ChainsMove
<1>1. validator[n] \in ValidatorState
  BY DEF TypeOK
<1>2. CASE validator' = validator
  BY <1>2, NoChain
<1>3. CASE validator' = [validator EXCEPT ![n] = InitializeBlock(@)]
  <2> DEFINE w == InitializeBlock(validator[n])
  <2>1. /\ w.head = validator[n].head /\ w.building = validator[n].head
        /\ w.requests = validator[n].requests /\ w.inbox = validator[n].inbox
    BY <1>1, CallFields
  <2>2. validator' = [validator EXCEPT ![n] = w]
    BY <1>3
  <2> HIDE DEF w
  <2>3. KeptIn(validator[n], w)
    BY <2>1 DEF KeptIn
  <2> QED  BY <2>2, <2>3, OneChain
<1>4. CASE validator' = [validator EXCEPT ![n] = CancelBlock(@)]
  <2> DEFINE w == CancelBlock(validator[n])
  <2>1. /\ w.head = validator[n].head /\ w.building = NoBlock
        /\ w.requests = validator[n].requests /\ w.inbox = validator[n].inbox
    BY <1>1, CallFields
  <2>2. validator' = [validator EXCEPT ![n] = w]
    BY <1>4
  <2> HIDE DEF w
  <2>3. KeptIn(validator[n], w)
    BY <2>1 DEF KeptIn
  <2> QED  BY <2>2, <2>3, OneChain
<1>5. validator = [validator EXCEPT ![n] = @]
  BY DEF TypeOK
<1> QED
  BY <1>2, <1>3, <1>4, <1>5
     DEF TakeRole, StepUpCommitting, StepUpBuilding, StepDown, KeepRole

\* The writes of process_ready keep what was committed.
LEMMA WritesKeep ==
  ASSUME IndInv, LogInv, NEW n \in Node, Up(n), disk'[n] \in WrittenSoFar(n)
  PROVE  KeepsDisk(n)
<1>1. /\ raft[n] \in Raft /\ disk[n] \in Disk /\ disk[n].commit \in Nat
      /\ raft[n].commit \in Nat /\ disk[n].commit <= raft[n].commit /\ AgreeOK(n)
  BY Indices DEF LogInv, LogOK
<1>2. ASSUME NEW j \in DOMAIN disk[n].log,
             disk'[n] = InterruptedAppend(disk[n], raft[n], j)
      PROVE  KeepsDisk(n)
  <2>1. j \in Nat /\ disk[n].commit <= Len(disk[n].log) /\ Len(disk[n].log) \in Nat
    BY <1>1, StorageIndices DEF Disk
  <2>2. /\ disk'[n].applied = disk[n].applied /\ disk'[n].commit = disk[n].commit
        /\ \A i \in 1..Len(disk[n].log) : disk'[n].log[i] \in {disk[n].log[i], raft[n].log[i]}
    <3> DEFINE d == disk[n]
               r == raft[n]
               q == disk'[n]
    <3>1. d \in Disk /\ r \in Raft /\ j \in Nat /\ q = InterruptedAppend(d, r, j)
      BY <1>1, <1>2, <2>1
    <3> HIDE DEF d, r, q
    <3>2. /\ q.applied = d.applied /\ q.commit = d.commit
          /\ \A i \in 1..Len(d.log) : q.log[i] \in {d.log[i], r.log[i]}
      BY <3>1, InterruptedLemma
    <3> QED  BY <3>2 DEF d, r, q
  <2>3. ASSUME NEW i \in 1..disk[n].commit PROVE disk'[n].log[i] = disk[n].log[i]
    <3>1. i \in 1..Len(disk[n].log)
      BY <1>1, <2>1
    <3>2. raft[n].log[i] = disk[n].log[i]
      BY <1>1 DEF AgreeOK
    <3> QED  BY <2>2, <3>1, <3>2
  <2> QED  BY <1>1, <2>2, <2>3 DEF KeepsDisk
<1>3. CASE /\ disk'[n].applied = disk[n].applied
           /\ \/ disk'[n].log = disk[n].log /\ disk'[n].commit = disk[n].commit
              \/ /\ disk'[n].log = raft[n].log
                 /\ disk'[n].commit \in {disk[n].commit, raft[n].commit}
  BY <1>1, <1>3 DEF KeepsDisk, AgreeOK
<1> QED  BY <1>1, <1>2, <1>3, DiskFields DEF WrittenSoFar

\* process_ready
LEMMA ReadyChain ==
  ASSUME IndInv, LogInv, NEW n \in Node, Ready(n)
  PROVE  ChainsMove
<1>1. TypeOK /\ validator[n] \in ValidatorState
  BY DEF IndInv, TypeOK
<1>2. ASSUME disk' = disk PROVE \A m \in Node : KeepsDisk(m) \/ Applies(m)
  BY <1>2, SameStorage
<1>3. CASE NothingReady(n) \/ DeliverEmpty(n) \/ DeliverBlock(n) \/ DeliverOwnRemoval(n)
  BY <1>2, <1>3, NoChain DEF NothingReady, DeliverEmpty, DeliverBlock, DeliverOwnRemoval
<1>4. CASE ProcessReady(n)
  <2>1. Saves(n) /\ Alone(n) /\ TakeRole(n)
    BY <1>4, ProcessReadyMoves DEF ProcessReady
  <2>2. KeepsDisk(n)
    BY <2>1, WritesKeep DEF Saves, WrittenSoFar
  <2>3. \A m \in Node \ {n} : KeepsDisk(m)
    BY <2>1, SameStorage DEF Alone, Rests
  <2> QED  BY <1>1, <2>1, <2>2, <2>3, TakeRoleChain
<1>5. CASE DeliverConfChange(n)
  <2>1. CASE validator' = validator
    BY <1>2, <1>5, <2>1, NoChain DEF DeliverConfChange
  <2>2. CASE validator' = [validator EXCEPT ![n] = InitializeBlock(@)]
    <3> DEFINE w == InitializeBlock(validator[n])
    <3>1. /\ w.head = validator[n].head /\ w.building = validator[n].head
          /\ w.requests = validator[n].requests /\ w.inbox = validator[n].inbox
      BY <1>1, CallFields
    <3>2. validator' = [validator EXCEPT ![n] = w] /\ disk' = disk
      BY <1>5, <2>2 DEF DeliverConfChange
    <3> HIDE DEF w
    <3>3. KeptIn(validator[n], w)
      BY <3>1 DEF KeptIn
    <3> QED  BY <1>1, <1>2, <3>2, <3>3, OneChain
  <2> QED  BY <1>5, <2>1, <2>2 DEF DeliverConfChange
<1>6. CASE FinishReady(n)
  <2> DEFINE b == GetNextCommittable(block_queue[n])
             w == CommitBlock(validator[n], b)
  <2>1. /\ Up(n) /\ disk' = disk /\ block_queue[n] \in Queue
        /\ validator' = [validator EXCEPT ![n] = IF Requests(n, b) THEN w ELSE validator[n]]
    BY <1>1, <1>6 DEF FinishReady, Up, Running, TypeOK
  <2>2. CASE ~Requests(n, b)
    <3>1. validator' = validator
      BY <1>1, <2>1, <2>2 DEF TypeOK
    <3> QED  BY <1>2, <2>1, <3>1, NoChain
  <2>3. CASE Requests(n, b)
    <3>1. b # NoBlock
      <4>1. leader_state[n] \in LeaderState /\ NoBlock \notin BlockId
        BY <1>1, MaxBlocksAssumption DEF TypeOK, NoBlock, BlockId
      <4> QED
        BY <2>3, <4>1
           DEF Requests, LeaderCommits, FollowerCommits, Proposing, LeaderState, Holding
    <3>2. Commits(n) # << >> /\ b = Commits(n)[1].block
      BY <2>1, <3>1 DEF GetNextCommittable, Commits, Queue
    <3> HIDE DEF b
    <3>3. /\ w.head = validator[n].head /\ w.building = validator[n].building
          /\ w.inbox = validator[n].inbox /\ w.requests = Append(validator[n].requests, b)
      BY <1>1, CallFields
    <3>4. validator' = [validator EXCEPT ![n] = w]
      BY <2>1, <2>3
    <3> HIDE DEF w
    <3>5. ASSUME NEW m \in Node PROVE Stays(m)
      <4>1. CASE m = n
        <5>1. validator'[n] = w
          BY <1>1, <3>4 DEF TypeOK
        <5> QED  BY <2>1, <3>2, <3>3, <4>1, <5>1 DEF Stays, AsksCommit, Requested
      <4>2. CASE m # n
        <5>1. validator'[m] = validator[m]
          BY <1>1, <3>4, <4>2 DEF TypeOK
        <5>2. KeepsChain(m)
          BY <5>1 DEF KeepsChain, Requested
        <5> QED  BY <1>2, <2>1, <5>2 DEF Stays
      <4> QED  BY <4>1, <4>2
    <3> QED  BY <3>5 DEF ChainsMove
  <2> QED  BY <2>2, <2>3
<1> QED  BY <1>3, <1>4, <1>5, <1>6 DEF Ready

\* Stops and starts
LEMMA RestartChain ==
  ASSUME IndInv, LogInv, NEW n \in Node, Stop(n) \/ CrashInReady(n) \/ Restart(n)
  PROVE  ChainsMove
<1>1. TypeOK /\ validator[n] \in ValidatorState
  BY DEF IndInv, TypeOK
<1>2. ASSUME NEW d, NEW s, Lost(n, d, s), \A m \in Node : KeepsDisk(m) PROVE ChainsMove
  <2>1. PICK kept \in {<< >>, validator[n].requests} :
          validator' = [validator EXCEPT ![n] = Disconnected(@, kept)]
    BY <1>2 DEF Lost
  <2> DEFINE w == Disconnected(validator[n], kept)
  <2>2. /\ w.inbox = {} /\ w.requests = kept /\ w.building = NoBlock
        /\ w.head = validator[n].head
    BY DEF Disconnected
  <2>3. validator' = [validator EXCEPT ![n] = w]
    BY <2>1
  <2> HIDE DEF w
  <2>4. KeptIn(validator[n], w)
    BY <2>1, <2>2 DEF KeptIn
  <2> QED  BY <1>1, <1>2, <2>3, <2>4, OneChain
<1>3. CASE Stop(n) \/ CrashInReady(n)
  <2>1. Stops(n) /\ Alone(n)
    BY <1>3, StopMoves
  <2>2. KeepsDisk(n)
    BY <2>1, WritesKeep DEF Stops
  <2>3. \A m \in Node \ {n} : KeepsDisk(m)
    BY <2>1, SameStorage DEF Alone, Rests
  <2>4. \A m \in Node : KeepsDisk(m)
    BY <2>2, <2>3
  <2> QED  BY <1>2, <1>3, <2>4 DEF Stop, CrashInReady
<1>4. CASE Restart(n)
  <2> DEFINE v == Disconnected(validator[n], validator[n].requests)
             w == Reconnected(v)
             S == DOMAIN tree \ Ancestors(v.head)
             I == UNION {{New(b), Verdict(b, tree[b].valid)} : b \in S}
  <2>1. /\ v.requests = validator[n].requests /\ v.head = validator[n].head
        /\ v.building = NoBlock
    BY DEF Disconnected
  <2>2. /\ w.inbox = I /\ w.requests = v.requests /\ w.head = v.head
        /\ w.building = v.building
    BY DEF Reconnected, Disconnected
  <2>3. \A c : Commit(c) \notin I
    BY NoCommitUpdate
  <2>4. validator' = [validator EXCEPT ![n] = w] /\ disk' = disk
    BY <1>4 DEF Restart
  <2> HIDE DEF w, I, v
  <2>5. KeptIn(validator[n], w)
    BY <2>1, <2>2, <2>3 DEF KeptIn
  <2>6. \A m \in Node : KeepsDisk(m)
    BY <2>4, SameStorage
  <2> QED  BY <1>1, <2>4, <2>5, <2>6, OneChain
<1> QED  BY <1>3, <1>4

\* The validator's own step
LEMMA CommitChain ==
  ASSUME IndInv, NEW n \in Node, NEW b \in BlockId, ValidatorCommit(n, b)
  PROVE  ChainsMove
<1>1. /\ TypeOK /\ validator[n] \in ValidatorState /\ disk' = disk
      /\ Requested(n) # << >> /\ b = Head(Requested(n))
      /\ validator' = [validator EXCEPT ![n] = Committed(@, b, phase[n] \in Running)]
  BY DEF IndInv, TypeOK, ValidatorCommit, Requested
<1> DEFINE w == Committed(validator[n], b, phase[n] \in Running)
<1>2. /\ w.head = b /\ w.building = validator[n].building
      /\ w.requests = Tail(validator[n].requests)
      /\ w.inbox \in {validator[n].inbox, validator[n].inbox \cup {Commit(b)}}
  BY <1>1 DEF Committed, ValidatorState
<1>3. validator' = [validator EXCEPT ![n] = w]
  BY <1>1
<1> HIDE DEF w
<1>4. b = Requested(n)[1]
  BY <1>1 DEF ValidatorState, Requested
<1>5. \A c : Commit(c) = Commit(b) => c = b
  BY DEF Commit
<1>6. Performs(n)
  <2>1. validator'[n] = w
    BY <1>1, <1>3 DEF TypeOK
  <2>2. \A c : Commit(c) \in w.inbox => Commit(c) \in validator[n].inbox \/ c = b
    BY <1>2, <1>5
  <2> QED  BY <1>1, <1>2, <1>4, <2>1, <2>2 DEF Performs, Requested
<1>7. ASSUME NEW m \in Node \ {n} PROVE Stays(m)
  <2>1. validator'[m] = validator[m]
    BY <1>1, <1>3 DEF TypeOK
  <2>2. KeepsChain(m) /\ KeepsDisk(m)
    BY <1>1, <2>1, SameStorage DEF KeepsChain, Requested
  <2> QED  BY <2>2 DEF Stays
<1> QED  BY <1>1, <1>6, <1>7 DEF ChainsMove

\* The storage in handle_update: only on_block_commit writes to it.
LEMMA HandleUpdateDisk ==
  ASSUME IndInv, NEW n \in Node, HandleUpdate(n), NEW m \in Node
  PROVE  KeepsDisk(m) \/ Applies(m)
<1>1. ASSUME disk' = disk PROVE KeepsDisk(m)
  BY <1>1, SameStorage
<1>2. ASSUME NEW b \in BlockId, LeaderOnBlockCommit(n, b) \/ FollowerOnBlockCommit(n, b)
      PROVE  KeepsDisk(m) \/ Applies(m)
  <2>1. Pops(n) /\ Alone(n)
    BY <1>2, LeaderOnBlockCommitMoves, FollowerOnBlockCommitMoves
  <2>2. /\ Up(n) /\ CommittingBlock(n, b) /\ Commit(b) \in validator[n].inbox
    BY <1>2
       DEF LeaderOnBlockCommit, FollowerOnBlockCommit, PopCommitted, CommittingBlock, Up,
           Running
  <2>3. CommitOK(n) /\ block_queue[n] \in Queue
    BY <2>2 DEF IndInv, NodeOK, TypeOK
  <2>4. b = Commits(n)[1].block
    BY <2>2, <2>3 DEF CommitOK, Commits, Queue
  <2>5. CASE m = n
    BY <2>1, <2>2, <2>4, <2>5 DEF Applies
  <2>6. CASE m # n
    BY <2>1, <2>6, SameStorage DEF Alone, Rests
  <2> QED  BY <2>5, <2>6
<1>3. ASSUME NEW b \in BlockId,
             OnBlockNew(n, b) \/ OnBlockValid(n, b) \/ OnBlockInvalid(n, b)
               \/ IgnoreBlockCommit(n, b)
      PROVE  disk' = disk
  BY <1>3 DEF OnBlockNew, OnBlockValid, OnBlockInvalid, IgnoreBlockCommit
<1>4. ASSUME NEW k \in Node, StepMessage(n, k) PROVE disk' = disk
  BY <1>4 DEF StepMessage
<1> QED
  BY <1>1, <1>2, <1>3, <1>4 DEF HandleUpdate, OnBlockCommit, OnPeerMessage

\* Every step
LEMMA NextChains ==
  ASSUME IndInv, LogInv, [Next]_vars
  PROVE  ChainsMove /\ \A m \in Node : ChainMoves(m)
<1> SUFFICES ChainsMove
  BY DEF ChainsMove, ChainMoves
<1>1. CASE UNCHANGED vars
  BY <1>1, SameStorage, NoChain DEF vars
<1>2. ASSUME NEW n \in Node, Quiet(n) PROVE ChainsMove
  BY <1>2, SameStorage, NoChain DEF Quiet, vars
<1>3. ASSUME NEW n \in Node, HandleUpdate(n) PROVE ChainsMove
  BY <1>3, HandleUpdateDisk, HandleUpdateChain
<1> QED
  BY <1>1, <1>2, <1>3, TickChain, ReadyChain, RestartChain, CommitChain DEF Next

-----------------------------------------------------------------------------
(* The blocks that leaders hold *)

\* check_publish finalizes the block under construction.
Publishes(n, b) ==
  /\ Up(n) /\ leader_state[n] = Building /\ b = Len(tree) + 1
  /\ \E x : tree' = Append(tree, x) /\ x.parent = validator[n].building
  /\ disk'[n] = disk[n]
  /\ \A m \in Node \ {n} : leader_state'[m] = leader_state[m] /\ phase'[m] = phase[m]

HeldMoves ==
  \A m \in Node, b \in BlockId : Holds(m, b)' => Holds(m, b) \/ Publishes(m, b)

\* A step of one engine that takes up no block.
LEMMA OneHolder ==
  ASSUME TypeOK, NEW n \in Node, NEW s, NEW p,
         leader_state' = [leader_state EXCEPT ![n] = s],
         phase' = [phase EXCEPT ![n] = p],
         \A b \in BlockId : s \in {Publishing(b), Validating(b)} => Holds(n, b)
  PROVE  HeldMoves
<1> SUFFICES ASSUME NEW m \in Node, NEW b \in BlockId, Holds(m, b)'
             PROVE  Holds(m, b)
  BY DEF HeldMoves
<1>1. CASE m = n
  BY <1>1 DEF TypeOK, Holds, Awaits
<1>2. CASE m # n
  <2>1. leader_state'[m] = leader_state[m] /\ phase'[m] = phase[m]
    BY <1>2 DEF TypeOK
  <2> QED  BY <2>1 DEF Holds, Awaits, Up
<1> QED  BY <1>1, <1>2

\* A step of an engine that runs and keeps the state of its role.
LEMMA SameHolder ==
  ASSUME TypeOK, NEW n \in Node, NEW p, Up(n), leader_state' = leader_state,
         phase' = [phase EXCEPT ![n] = p]
  PROVE  HeldMoves
<1>1. leader_state' = [leader_state EXCEPT ![n] = leader_state[n]]
  BY DEF TypeOK
<1>2. \A b \in BlockId : leader_state[n] \in {Publishing(b), Validating(b)} => Holds(n, b)
  BY DEF Holds, Awaits
<1> QED  BY <1>1, <1>2, OneHolder

\* The states in which a leader holds no block.
LEMMA HoldsNone ==
  \A b : /\ {None, Building, ChangingConfig} \cap {Publishing(b), Validating(b)} = {}
         /\ \A c : {Proposing(c), Committing(c)} \cap {Publishing(b), Validating(b)} = {}
  BY DEF None, Building, ChangingConfig, Publishing, Validating, Proposing, Committing

\* handle_update
LEMMA HandleUpdateHeld ==
  ASSUME IndInv, NEW n \in Node, HandleUpdate(n)
  PROVE  HeldMoves
<1>1. TypeOK
  BY DEF IndInv
<1>2. ASSUME NEW b \in BlockId, OnBlockNew(n, b) PROVE HeldMoves
  <2> DEFINE s == IF leader_state[n] = Publishing(b) THEN Validating(b) ELSE leader_state[n]
  <2>1. /\ leader_state' = [leader_state EXCEPT ![n] = s]
        /\ phase' = [phase EXCEPT ![n] = "handled"] /\ Up(n)
    BY <1>2 DEF OnBlockNew, Goto, Up, Running
  <2>2. \A c \in BlockId : s \in {Publishing(c), Validating(c)} => Awaits(n, c)
    BY DEF Awaits, Publishing, Validating
  <2> HIDE DEF s
  <2> QED  BY <1>1, <2>1, <2>2, OneHolder DEF Holds
<1>3. ASSUME NEW b \in BlockId, OnBlockValid(n, b) PROVE HeldMoves
  <2>1. PICK p : phase' = [phase EXCEPT ![n] = p]
    BY <1>3 DEF OnBlockValid, Goto
  <2>2. Up(n)
    BY <1>3 DEF OnBlockValid, Up, Running
  <2>3. CASE leader_state' = leader_state
    BY <1>1, <2>1, <2>2, <2>3, SameHolder
  <2>4. CASE leader_state' = [leader_state EXCEPT ![n] = Proposing(b)]
    <3>1. \A c : Proposing(b) \notin {Publishing(c), Validating(c)}
      BY DEF Proposing, Publishing, Validating
    <3> QED  BY <1>1, <2>1, <2>4, <3>1, OneHolder
  <2> QED  BY <1>3, <2>3, <2>4 DEF OnBlockValid
<1>4. ASSUME NEW b \in BlockId,
             OnBlockInvalid(n, b) \/ FollowerOnBlockCommit(n, b) \/ IgnoreBlockCommit(n, b)
      PROVE  HeldMoves
  <2>1. /\ phase' = [phase EXCEPT ![n] = "handled"] /\ Up(n) /\ leader_state' = leader_state
    BY <1>4
       DEF OnBlockInvalid, FollowerOnBlockCommit, IgnoreBlockCommit, PopCommitted, Goto, Up,
           Running
  <2> QED  BY <1>1, <2>1, SameHolder
<1>5. ASSUME NEW b \in BlockId, LeaderOnBlockCommit(n, b) PROVE HeldMoves
  <2>1. PICK p : phase' = [phase EXCEPT ![n] = p]
    BY <1>5 DEF LeaderOnBlockCommit, Goto
  <2>2. \E s \in {Building, ChangingConfig} : leader_state' = [leader_state EXCEPT ![n] = s]
    BY <1>5 DEF LeaderOnBlockCommit
  <2> QED  BY <1>1, <2>1, <2>2, HoldsNone, OneHolder
<1>6. ASSUME NEW m \in Node, StepMessage(n, m) PROVE HeldMoves
  <2>1. /\ phase' = [phase EXCEPT ![n] = "handled"] /\ Up(n) /\ leader_state' = leader_state
    BY <1>6 DEF StepMessage, Goto, Up, Running
  <2> QED  BY <1>1, <2>1, SameHolder
<1> QED
  BY <1>2, <1>3, <1>4, <1>5, <1>6 DEF HandleUpdate, OnBlockCommit, OnPeerMessage

\* tick: only here does a leader take up a block.
LEMMA TickHeld ==
  ASSUME IndInv, NEW n \in Node, Tick(n)
  PROVE  HeldMoves
<1>1. /\ TypeOK /\ Up(n) /\ CheckPublish(n) /\ phase' = [phase EXCEPT ![n] = "ticked"]
      /\ disk' = disk
  BY DEF IndInv, Tick, Goto, Up, Running
<1>2. CASE UNCHANGED <<tree, validator, leader_state>>
  BY <1>1, <1>2, SameHolder
<1>3. CASE Publish(n)
  <2> DEFINE b == Len(tree) + 1
  <2>1. /\ leader_state[n] = Building
        /\ leader_state' = [leader_state EXCEPT ![n] = Publishing(b)]
    BY <1>3 DEF Publish
  <2>2. \E x : tree' = Append(tree, x) /\ x.parent = validator[n].building
    <3>1. PICK P, ok : tree' = Append(tree, [parent |-> validator[n].building, peers |-> P,
                                             valid |-> ok])
      BY <1>3 DEF Publish
    <3> DEFINE x == [parent |-> validator[n].building, peers |-> P, valid |-> ok]
    <3>2. x.parent = validator[n].building
      OBVIOUS
    <3>3. tree' = Append(tree, x)
      BY <3>1
    <3> HIDE DEF x
    <3> QED  BY <3>2, <3>3
  <2> HIDE DEF b
  <2>3. \A m \in Node \ {n} : leader_state'[m] = leader_state[m] /\ phase'[m] = phase[m]
    BY <1>1, <2>1 DEF TypeOK
  <2>4. Publishes(n, b)
    BY <1>1, <2>1, <2>2, <2>3 DEF Publishes, b
  <2>5. ASSUME NEW m \in Node, NEW c \in BlockId, Holds(m, c)'
        PROVE  Holds(m, c) \/ Publishes(m, c)
    <3>1. CASE m # n
      BY <2>3, <2>5, <3>1 DEF Holds, Awaits, Up
    <3>2. CASE m = n
      <4>1. leader_state'[n] = Publishing(b)
        BY <1>1, <2>1 DEF TypeOK
      <4>2. c = b
        BY <2>5, <3>2, <4>1 DEF Holds, Awaits, Publishing, Validating
      <4> QED  BY <2>4, <3>2, <4>2
    <3> QED  BY <3>1, <3>2
  <2> QED  BY <2>5 DEF HeldMoves
<1> QED  BY <1>1, <1>2, <1>3 DEF CheckPublish

\* process_ready
LEMMA ReadyHeld ==
  ASSUME IndInv, NEW n \in Node, Ready(n)
  PROVE  HeldMoves
<1>1. TypeOK
  BY DEF IndInv
<1>2. CASE NothingReady(n) \/ DeliverOwnRemoval(n)
  <2>1. /\ \E p : phase' = [phase EXCEPT ![n] = p]
        /\ Up(n) /\ leader_state' = leader_state
    BY <1>2 DEF NothingReady, DeliverOwnRemoval, Delivering, Goto, Up, Running
  <2> QED  BY <1>1, <2>1, SameHolder
<1>3. CASE DeliverEmpty(n) \/ DeliverBlock(n)
  <2>1. phase' = phase /\ leader_state' = leader_state
    BY <1>3 DEF DeliverEmpty, DeliverBlock
  <2> QED  BY <2>1 DEF HeldMoves, Holds, Awaits, Up
<1>4. CASE ProcessReady(n)
  <2>1. TakeRole(n) /\ Up(n)
    BY <1>4 DEF ProcessReady, Up, Running
  <2>2. PICK p : phase' = [phase EXCEPT ![n] = p]
    BY <2>1
       DEF TakeRole, StepUpCommitting, StepUpBuilding, StepDown, KeepRole, Goto
  <2>3. CASE leader_state' = leader_state
    BY <1>1, <2>1, <2>2, <2>3, SameHolder
  <2>4. CASE \E s \in {None, Building} : leader_state' = [leader_state EXCEPT ![n] = s]
    BY <1>1, <2>2, <2>4, HoldsNone, OneHolder
  <2>5. CASE StepUpCommitting(n)
    <3>1. /\ follower_state[n].state = "Committing"
          /\ leader_state' = [leader_state EXCEPT ![n] = follower_state[n]]
      BY <2>5 DEF StepUpCommitting
    <3>2. \A b : follower_state[n] \notin {Publishing(b), Validating(b)}
      BY <3>1 DEF Publishing, Validating
    <3> QED  BY <1>1, <2>2, <3>1, <3>2, OneHolder
  <2> QED
    BY <2>1, <2>3, <2>4, <2>5 DEF TakeRole, StepUpBuilding, StepDown, KeepRole
<1>5. CASE DeliverConfChange(n)
  <2>1. PICK p : phase' = [phase EXCEPT ![n] = p]
    BY <1>5 DEF DeliverConfChange, Goto
  <2>2. Up(n)
    BY <1>5 DEF DeliverConfChange, Delivering, Up, Running
  <2>3. CASE leader_state' = leader_state
    BY <1>1, <2>1, <2>2, <2>3, SameHolder
  <2>4. CASE leader_state' = [leader_state EXCEPT ![n] = Building]
    BY <1>1, <2>1, <2>4, HoldsNone, OneHolder
  <2> QED  BY <1>5, <2>3, <2>4 DEF DeliverConfChange
<1>6. CASE FinishReady(n)
  <2> DEFINE b == GetNextCommittable(block_queue[n])
             s == IF LeaderCommits(n, b) THEN Committing(b) ELSE leader_state[n]
  <2>1. /\ Up(n) /\ phase' = [phase EXCEPT ![n] = "recv"]
        /\ leader_state' = [leader_state EXCEPT ![n] = s]
    BY <1>6 DEF FinishReady, Goto, Up, Running
  <2>2. \A c \in BlockId : s \in {Publishing(c), Validating(c)} => Awaits(n, c)
    BY HoldsNone DEF Awaits
  <2> HIDE DEF s
  <2> QED  BY <1>1, <2>1, <2>2, OneHolder DEF Holds
<1> QED  BY <1>2, <1>3, <1>4, <1>5, <1>6 DEF Ready

\* Every step
LEMMA NextHeld ==
  ASSUME IndInv, [Next]_vars
  PROVE  HeldMoves
<1>1. TypeOK
  BY DEF IndInv
<1>2. ASSUME phase' = phase /\ leader_state' = leader_state PROVE HeldMoves
  BY <1>2 DEF HeldMoves, Holds, Awaits, Up
<1>3. CASE UNCHANGED vars
  BY <1>2, <1>3 DEF vars
<1>4. ASSUME NEW n \in Node, Quiet(n) PROVE HeldMoves
  BY <1>2, <1>4 DEF Quiet, vars
<1>5. ASSUME NEW n \in Node, Stop(n) \/ CrashInReady(n) \/ Restart(n) PROVE HeldMoves
  <2>1. /\ leader_state' = [leader_state EXCEPT ![n] = None]
        /\ \E p : phase' = [phase EXCEPT ![n] = p]
    BY <1>5 DEF Stop, CrashInReady, Restart, Lost, Goto
  <2> QED  BY <1>1, <2>1, HoldsNone, OneHolder
<1>6. ASSUME NEW n \in Node, NEW b \in BlockId, ValidatorCommit(n, b) PROVE HeldMoves
  BY <1>2, <1>6 DEF ValidatorCommit
<1> QED
  BY <1>3, <1>4, <1>5, <1>6, HandleUpdateHeld, TickHeld, ReadyHeld DEF Next

-----------------------------------------------------------------------------
(* A block is in a log once, after its parent *)

\* A block entry names a block, which is not the genesis block.
LEMMA BlockOfEntry ==
  ASSUME NEW e \in Entry, IsBlock(e)
  PROVE  e.block \in BlockId /\ e.block # Genesis
<1>1. e.block \in BlockId
  BY DEF Entry, IsBlock
<1> QED  BY <1>1, MaxBlocksAssumption DEF BlockId, Genesis

\* The blocks of a log are in it once.
LEMMA OnceInLogs ==
  ASSUME ChainInv, NEW l \in Logs
  PROVE  OnceIn(l)
  BY DEF ChainInv, SameSpots, OnceIn

\* A block of the chain is at one index only.
LEMMA OnceAt ==
  ASSUME NEW l \in Seq(Entry), OnceIn(l), NEW b,
         NEW i \in 0..Len(l), NEW j \in 0..Len(l), BlockAt(l, i, b), BlockAt(l, j, b)
  PROVE  i = j
<1>1. Len(l) \in Nat /\ DOMAIN l = 1..Len(l) /\ \A k \in DOMAIN l : l[k] \in Entry
  OBVIOUS
<1>2. \A k \in 0..Len(l) : k # 0 => k \in DOMAIN l
  BY <1>1
<1>3. \A k \in DOMAIN l : IsBlock(l[k]) => l[k].block # Genesis
  BY <1>1, BlockOfEntry
<1>4. CASE i = 0
  BY <1>2, <1>3, <1>4 DEF BlockAt
<1>5. CASE j = 0
  BY <1>2, <1>3, <1>5 DEF BlockAt
<1>6. CASE i # 0 /\ j # 0
  BY <1>2, <1>6 DEF BlockAt, OnceIn
<1> QED  BY <1>4, <1>5, <1>6

\* Logs that agree up to c have the same blocks there.
LEMMA SameBlockAt ==
  ASSUME NEW k, NEW l, NEW c \in Nat, \A i \in 1..c : k[i] = l[i]
  PROVE  /\ \A i \in 0..c : \A b : BlockAt(k, i, b) <=> BlockAt(l, i, b)
         /\ \A d \in 0..c : \A b : InLog(k, b, d) <=> InLog(l, b, d)
<1>1. \A i \in 0..c : \A b : BlockAt(k, i, b) <=> BlockAt(l, i, b)
  <2> SUFFICES ASSUME NEW i \in 0..c, NEW b PROVE BlockAt(k, i, b) <=> BlockAt(l, i, b)
    OBVIOUS
  <2>1. CASE i = 0
    BY <2>1 DEF BlockAt
  <2>2. CASE i # 0
    <3>1. i \in 1..c
      BY <2>2
    <3> QED  BY <2>2, <3>1 DEF BlockAt
  <2> QED  BY <2>1, <2>2
<1>2. \A d \in 0..c : 0..d \subseteq 0..c
  OBVIOUS
<1> QED  BY <1>1, <1>2 DEF InLog

\* The blocks up to an index are among those up to a later one.
LEMMA InLogGrows ==
  ASSUME NEW l, NEW b, NEW c \in Nat, NEW d \in Nat, c <= d, InLog(l, b, c)
  PROVE  InLog(l, b, d)
<1>1. PICK i \in 0..c : BlockAt(l, i, b)
  BY DEF InLog
<1>2. i \in 0..d
  OBVIOUS
<1> QED  BY <1>1, <1>2 DEF InLog

\* Every log consists of entries, and its blocks are in the tree.
LEMMA LogsValid ==
  ASSUME IndInv, BlocksInv, NEW l \in Logs
  PROVE  l \in Seq(Entry) /\ \A i \in DOMAIN l : IsBlock(l[i]) => l[i].block \in DOMAIN tree
<1>1. PICK n \in Node : l \in {raft[n].log, disk[n].log, sent[n].log}
  BY DEF Logs
<1>2. l \in Seq(Entry)
  BY <1>1 DEF IndInv, TypeOK, Raft, Disk, Message
<1>3. ValidLog(l)
  BY <1>1 DEF BlocksInv, BlocksOK
<1> QED  BY <1>2, <1>3 DEF ValidLog, ValidBlock

\* The parent of a block of the tree does not change.
LEMMA ParentStays ==
  ASSUME IndInv, BlocksInv, [Next]_vars
  PROVE  \A b \in DOMAIN tree : b \in DOMAIN tree' /\ Parent(b)' = Parent(b)
<1>1. TreeGrows
  BY NextValidators DEF ValidatorsMove
<1> QED  BY <1>1 DEF TreeGrows, Parent

\* What is committed in the storage of an engine that runs is in the log of its
\* library.
LEMMA CommittedInLibrary ==
  ASSUME IndInv, LogInv, NEW n \in Node, Up(n), NEW b, InLog(disk[n].log, b, disk[n].commit)
  PROVE  InLog(raft[n].log, b, Len(raft[n].log))
<1>1. /\ disk[n].commit \in Nat /\ raft[n].commit \in Nat /\ raft[n].log \in Seq(Entry)
      /\ disk[n].commit <= raft[n].commit /\ raft[n].commit <= Len(raft[n].log)
  BY Indices
<1>2. \A i \in 1..disk[n].commit : raft[n].log[i] = disk[n].log[i]
  BY DEF LogInv, LogOK, AgreeOK
<1>3. disk[n].commit \in 0..disk[n].commit
  BY <1>1
<1>4. InLog(raft[n].log, b, disk[n].commit)
  BY <1>1, <1>2, <1>3, SameBlockAt
<1>5. Len(raft[n].log) \in Nat /\ disk[n].commit <= Len(raft[n].log)
  BY <1>1
<1> QED  BY <1>1, <1>4, <1>5, InLogGrows

-----------------------------------------------------------------------------
(* The last and the next block *)

\* No block is both.
LEMMA LastNotNext ==
  ASSUME NEW l \in Seq(Entry), OnceIn(l), NEW a \in Nat, NEW c \in Nat, c <= Len(l),
         NEW b, LastIn(l, a, b), NextIn(l, a, c, b)
  PROVE  FALSE
<1>1. PICK i \in 0..a : BlockAt(l, i, b)
  BY DEF LastIn
<1>2. PICK j \in (a + 1)..c : BlockAt(l, j, b)
  BY DEF NextIn
<1>3. Len(l) \in Nat
  OBVIOUS
<1>4. i \in 0..Len(l) /\ j \in 0..Len(l) /\ i # j
  BY <1>3
<1> QED  BY <1>1, <1>2, <1>4, OnceAt

\* There is one next block.
LEMMA NextIsOne ==
  ASSUME NEW l, NEW a \in Nat, NEW c \in Nat, NEW b, NEW d,
         NextIn(l, a, c, b), NextIn(l, a, c, d)
  PROVE  b = d
<1>1. PICK i \in (a + 1)..c : BlockAt(l, i, b) /\ BlocksBetween(l, a, i) = {i}
  BY DEF NextIn
<1>2. PICK j \in (a + 1)..c : BlockAt(l, j, d) /\ BlocksBetween(l, a, j) = {j}
  BY DEF NextIn
<1>3. i # 0 /\ j # 0 /\ IsBlock(l[i]) /\ IsBlock(l[j])
  BY <1>1, <1>2 DEF BlockAt
<1>4. i < j => i \in BlocksBetween(l, a, j)
  BY <1>3 DEF BlocksBetween
<1>5. j < i => j \in BlocksBetween(l, a, i)
  BY <1>3 DEF BlocksBetween
<1>6. i = j
  BY <1>1, <1>2, <1>4, <1>5
<1> QED  BY <1>1, <1>2, <1>3, <1>6 DEF BlockAt

\* They are the same in a log that agrees up to c, and when more is committed.
LEMMA PrefixKeeps ==
  ASSUME NEW k, NEW l, NEW a \in Nat, NEW c \in Nat, NEW d \in Nat, a <= c, c <= d,
         \A i \in 1..c : l[i] = k[i], NEW b
  PROVE  /\ LastIn(k, a, b) => LastIn(l, a, b)
         /\ NextIn(k, a, c, b) => NextIn(l, a, d, b)
<1>1. \A i \in 0..c : BlockAt(k, i, b) <=> BlockAt(l, i, b)
  <2>1. \A i \in 1..c : k[i] = l[i]
    OBVIOUS
  <2> QED  BY <2>1, SameBlockAt
<1>2. \A i \in Nat, j \in 0..c : BlocksBetween(k, i, j) = BlocksBetween(l, i, j)
  <2> SUFFICES ASSUME NEW i \in Nat, NEW j \in 0..c
               PROVE  BlocksBetween(k, i, j) = BlocksBetween(l, i, j)
    OBVIOUS
  <2>1. \A h \in (i + 1)..j : h \in 1..c
    OBVIOUS
  <2> QED  BY <2>1 DEF BlocksBetween
<1>3. ASSUME LastIn(k, a, b) PROVE LastIn(l, a, b)
  <2>1. PICK i \in 0..a : BlockAt(k, i, b) /\ BlocksBetween(k, i, a) = {}
    BY <1>3 DEF LastIn
  <2>2. i \in 0..c /\ i \in Nat /\ a \in 0..c
    OBVIOUS
  <2> QED  BY <1>1, <1>2, <2>1, <2>2 DEF LastIn
<1>4. ASSUME NextIn(k, a, c, b) PROVE NextIn(l, a, d, b)
  <2>1. PICK i \in (a + 1)..c : BlockAt(k, i, b) /\ BlocksBetween(k, a, i) = {i}
    BY <1>4 DEF NextIn
  <2>2. i \in 0..c /\ i \in (a + 1)..d
    OBVIOUS
  <2> QED  BY <1>1, <1>2, <2>1, <2>2 DEF NextIn
<1> QED  BY <1>3, <1>4

\* The next block, once it is applied, is the last one.
LEMMA NextBecomesLast ==
  ASSUME NEW l, NEW a \in Nat, NEW i \in Nat, a < i, NEW b, BlockAt(l, i, b)
  PROVE  LastIn(l, i, b)
<1>1. BlocksBetween(l, i, i) = {}
  BY DEF BlocksBetween
<1> QED  BY <1>1 DEF LastIn

\* The front of the queue is the next block.
LEMMA FrontIsNextBlock ==
  ASSUME IndInv, LogInv, NEW n \in Node, Up(n), Commits(n) # << >>
  PROVE  LET i == Commits(n)[1].entry
         IN  /\ i \in (disk[n].applied + 1)..disk[n].commit
             /\ BlockAt(disk[n].log, i, Commits(n)[1].block)
             /\ BlocksBetween(disk[n].log, disk[n].applied, i) = {i}
             /\ NextBlock(n, Commits(n)[1].block)
<1> DEFINE i == Commits(n)[1].entry
<1>1. SegmentOK(n) /\ AgreeOK(n)
  BY DEF LogInv, LogOK
<1>2. /\ i \in Nat /\ disk[n].applied < i /\ i <= raft[n].delivered
      /\ BlocksBetween(disk[n].log, disk[n].applied, i) = {i}
  BY <1>1, FrontIsNext
<1>3. 1 \in DOMAIN Commits(n) /\ Commits(n)[1].block = raft[n].log[i].block
  BY <1>1, Indices DEF SegmentOK
<1> HIDE DEF i
<1>4. /\ raft[n].delivered \in Nat /\ raft[n].ready \in Nat /\ disk[n].commit \in Nat
      /\ raft[n].delivered <= raft[n].ready /\ raft[n].ready <= disk[n].commit
      /\ disk[n].applied \in Nat
  BY Indices
<1>5. i \in (disk[n].applied + 1)..disk[n].commit /\ i \in 1..disk[n].commit /\ i # 0
  BY <1>2, <1>4
<1>6. IsBlock(disk[n].log[i])
  BY <1>2 DEF BlocksBetween
<1>7. BlockAt(disk[n].log, i, Commits(n)[1].block)
  BY <1>1, <1>3, <1>5, <1>6 DEF BlockAt, AgreeOK
<1> QED  BY <1>2, <1>5, <1>7 DEF NextBlock, NextIn, i

-----------------------------------------------------------------------------
(* Heads and requests after a step *)

\* What is committed in a storage stays.
LEMMA CommittedStays ==
  ASSUME IndInv, NEW n \in Node, ChainMoves(n)
  PROVE  /\ disk[n].commit <= disk'[n].commit
         /\ \A i \in 1..disk[n].commit : disk'[n].log[i] = disk[n].log[i]
<1>1. disk[n] \in Disk /\ disk[n].commit \in Nat
  BY Indices
<1>2. CASE KeepsDisk(n)
  BY <1>2 DEF KeepsDisk
<1>3. CASE disk'[n] = disk[n]
  BY <1>1, <1>3
<1>4. CASE Applies(n)
  <2>1. disk'[n] = SetApplied(disk[n], Commits(n)[1].entry)
    BY <1>4 DEF Applies, Pops
  <2>2. disk'[n].log = disk[n].log /\ disk'[n].commit = disk[n].commit
    BY <1>1, <2>1 DEF SetApplied, Disk
  <2> QED  BY <1>1, <2>2
<1> QED  BY <1>2, <1>3, <1>4 DEF ChainMoves, Stays, AsksCommit, Performs

\* So do the blocks in it.
LEMMA CommittedBlocksStay ==
  ASSUME IndInv, IndInv', NEW n \in Node, ChainMoves(n), NEW b,
         InLog(disk[n].log, b, disk[n].commit)
  PROVE  InLog(disk'[n].log, b, disk'[n].commit)
<1>1. /\ disk[n].commit \in Nat /\ disk'[n].commit \in Nat
  BY DEF IndInv, TypeOK, Disk
<1>2. /\ disk[n].commit <= disk'[n].commit
      /\ \A i \in 1..disk[n].commit : disk'[n].log[i] = disk[n].log[i]
  BY CommittedStays
<1>3. disk[n].commit \in 0..disk[n].commit
  BY <1>1
<1>4. InLog(disk'[n].log, b, disk[n].commit)
  BY <1>1, <1>2, <1>3, SameBlockAt
<1> QED  BY <1>1, <1>2, <1>4, InLogGrows

\* A block stays rooted: its parent remains where it was committed.
LEMMA RootedStays ==
  ASSUME IndInv, IndInv', LogInv, BlocksInv, [Next]_vars, NEW i \in Nat,
         NEW b \in DOMAIN tree, Rooted(i, b)
  PROVE  Rooted(i, b)'
<1>1. PICK m \in Node : \E j \in 0..disk[m].commit :
                         j < i /\ BlockAt(disk[m].log, j, Parent(b))
  BY DEF Rooted
<1>2. PICK j \in 0..disk[m].commit : j < i /\ BlockAt(disk[m].log, j, Parent(b))
  BY <1>1
<1>3. /\ disk[m].commit <= disk'[m].commit
      /\ \A h \in 1..disk[m].commit : disk'[m].log[h] = disk[m].log[h]
  BY NextChains, CommittedStays
<1>4. disk[m].commit \in Nat /\ disk'[m].commit \in Nat
  BY DEF IndInv, TypeOK, Disk
<1>5. BlockAt(disk'[m].log, j, Parent(b))
  BY <1>2, <1>3, <1>4, SameBlockAt
<1>6. Parent(b)' = Parent(b)
  BY ParentStays
<1>7. j \in 0..disk'[m].commit
  BY <1>3, <1>4
<1> QED  BY <1>2, <1>5, <1>6, <1>7 DEF Rooted

\* A block that a step adds to a log: a leader held it, and its storage has the
\* parent.
LEMMA BlockAdded ==
  ASSUME IndInv, LogInv, BlocksInv, ChainInv, NEW n \in Node, NEW l, Extended(n, l),
         NEW i \in DOMAIN l, IsBlock(l[i])
  PROVE  \/ i \in DOMAIN raft[n].log /\ l[i] = raft[n].log[i]
         \/ /\ l[i].block \in BlockId /\ Holds(n, l[i].block)
            /\ leader_state'[n] = Proposing(l[i].block)
            /\ i = Len(raft[n].log) + 1 /\ Rooted(i, l[i].block)
<1>1. PICK k \in Logs : k = raft[n].log /\ k \in Seq(Entry)
  BY LogsAre, LogsValid
<1>2. PICK e \in Entry :
        /\ Appended(l, k, e)
        /\ IsBlock(e) => Awaits(n, e.block) /\ leader_state'[n] = Proposing(e.block)
  BY <1>1 DEF Extended
<1>3. /\ l \in Seq(Entry) /\ Len(l) = Len(k) + 1 /\ l[Len(k) + 1] = e
      /\ \A h \in 1..Len(k) : l[h] = k[h]
      /\ Len(k) \in Nat /\ DOMAIN k = 1..Len(k) /\ DOMAIN l = 1..(Len(k) + 1)
  BY <1>1, <1>2, AppendedLemma
<1>4. CASE i \in DOMAIN k
  BY <1>1, <1>3, <1>4
<1>5. CASE i = Len(k) + 1
  <2>1. l[i] = e /\ Up(n) /\ e.block \in BlockId /\ Holds(n, e.block)
    BY <1>2, <1>3, <1>5, BlockOfEntry DEF Holds, Extended
  <2>2. InLog(disk[n].log, Parent(e.block), disk[n].commit)
    BY <2>1 DEF ChainInv, HeldOK
  <2>3. /\ disk[n].commit \in Nat /\ raft[n].commit \in Nat
        /\ disk[n].commit <= raft[n].commit /\ raft[n].commit <= Len(k)
    BY <1>1, <2>1, Indices
  <2>4. Rooted(i, e.block)
    BY <1>3, <1>5, <2>2, <2>3 DEF Rooted, InLog
  <2> QED  BY <1>1, <1>2, <1>5, <2>1, <2>4
<1> QED  BY <1>3, <1>4, <1>5

\* Where a block of a log comes from: it was at its index before, or it is one that a
\* leader held and has just proposed.
Proposed(n, i, b) ==
  /\ b \in BlockId /\ Holds(n, b) /\ leader_state'[n] = Proposing(b)
  /\ i = Len(raft[n].log) + 1 /\ Rooted(i, b)

WasAt(i, b) == \E k \in Logs : i \in DOMAIN k /\ IsBlock(k[i]) /\ k[i].block = b

LEMMA BlockSources ==
  ASSUME IndInv, LogInv, BlocksInv, ChainInv, [Next]_vars, NEW l \in Logs',
         NEW i \in DOMAIN l, IsBlock(l[i])
  PROVE  WasAt(i, l[i].block) \/ \E n \in Node : Proposed(n, i, l[i].block)
<1>1. CASE Copied(l)
  BY <1>1 DEF Copied, WasAt
<1>2. ASSUME NEW n \in Node, Extended(n, l)
      PROVE  WasAt(i, l[i].block) \/ Proposed(n, i, l[i].block)
  <2>1. raft[n].log \in Logs
    BY LogsAre
  <2> QED  BY <1>2, <2>1, BlockAdded DEF WasAt, Proposed
<1> QED  BY <1>1, <1>2, LogCopies

\* No step brings a block into a log twice, at another index, or before its parent.
LEMMA LogsNext ==
  ASSUME IndInv, IndInv', LogInv, BlocksInv, ChainInv, [Next]_vars
  PROVE  /\ \A k, l \in Logs' : SameSpots(k, l)
         /\ \A l \in Logs' : RootedIn(l)'
<1>1. ASSUME NEW i, NEW j, NEW b, NEW n \in Node, WasAt(i, b), Proposed(n, j, b)
      PROVE  FALSE
  BY <1>1 DEF ChainInv, HeldOK, HasBlock, WasAt, Proposed
<1>2. ASSUME NEW i, NEW j, NEW b, NEW n \in Node, NEW m \in Node,
             Proposed(n, i, b), Proposed(m, j, b)
      PROVE  i = j
  BY <1>2 DEF ChainInv, HeldOK, Proposed
<1>3. ASSUME NEW i, NEW j, NEW b, WasAt(i, b), WasAt(j, b) PROVE i = j
  BY <1>3 DEF ChainInv, SameSpots, WasAt
<1>4. ASSUME NEW k \in Logs', NEW l \in Logs' PROVE SameSpots(k, l)
  <2> SUFFICES ASSUME NEW i \in DOMAIN k, NEW j \in DOMAIN l,
                      IsBlock(k[i]), IsBlock(l[j]), k[i].block = l[j].block
               PROVE  i = j
    BY DEF SameSpots
  <2>1. PICK b : b = k[i].block /\ b = l[j].block
    OBVIOUS
  <2>2. /\ WasAt(i, b) \/ \E n \in Node : Proposed(n, i, b)
        /\ WasAt(j, b) \/ \E n \in Node : Proposed(n, j, b)
    BY <2>1, BlockSources
  <2> QED  BY <1>1, <1>2, <1>3, <2>2
<1>5. ASSUME NEW l \in Logs' PROVE RootedIn(l)'
  <2> SUFFICES ASSUME NEW i \in DOMAIN l, IsBlock(l[i]) PROVE Rooted(i, l[i].block)'
    BY DEF RootedIn
  <2>1. PICK b : b = l[i].block
    OBVIOUS
  <2>2. i \in Nat
    <3>1. l \in Seq(Entry)
      BY DEF Logs, IndInv, TypeOK, Raft, Disk, Message
    <3> QED  BY <3>1
  <2>3. Rooted(i, b) /\ b \in DOMAIN tree
    <3>1. CASE WasAt(i, b)
      BY <3>1, LogsValid DEF WasAt, ChainInv, RootedIn
    <3>2. ASSUME NEW n \in Node, Proposed(n, i, b)
          PROVE  Rooted(i, b) /\ b \in DOMAIN tree
      BY <3>2 DEF Proposed, ChainInv, HeldOK
    <3> QED  BY <2>1, <3>1, <3>2, BlockSources
  <2>4. Rooted(i, b)'
    BY <2>2, <2>3, RootedStays
  <2> QED  BY <2>1, <2>4
<1> QED  BY <1>4, <1>5

\* A step that leaves head and storage, and may lose requests.
LEMMA KeepsChainOK ==
  ASSUME IndInv, IndInv', NEW n \in Node, ChainOK(n), OnceIn(disk'[n].log),
         KeepsChain(n), KeepsDisk(n)
  PROVE  ChainOK(n)'
<1> DEFINE k == disk[n].log
           l == disk'[n].log
           a == disk[n].applied
           c == disk[n].commit
           d == disk'[n].commit
<1>1. /\ a \in Nat /\ c \in Nat /\ d \in Nat /\ a <= c /\ c <= d
      /\ l \in Seq(Entry) /\ d <= Len(l) /\ disk'[n].applied = a
      /\ \A i \in 1..c : l[i] = k[i]
  <2>1. disk'[n] \in Disk /\ DurableOK(n)'
    BY DEF IndInv, TypeOK, NodeOK
  <2> QED  BY <2>1, StorageIndices DEF KeepsDisk, Disk, DurableOK
<1>2. /\ \A b : LastBlock(n, b) <=> LastIn(k, a, b)
      /\ \A b : NextBlock(n, b) <=> NextIn(k, a, c, b)
      /\ \A b : LastBlock(n, b)' <=> LastIn(l, a, b)
      /\ \A b : NextBlock(n, b)' <=> NextIn(l, a, d, b)
  BY <1>1 DEF LastBlock, NextBlock
<1>3. /\ validator'[n].head = validator[n].head
      /\ Requested(n)' \in {Requested(n), << >>}
      /\ \A b : Commit(b) \in validator'[n].inbox => Commit(b) \in validator[n].inbox
  BY DEF KeepsChain, Requested
<1>4. \A i \in 0..c : \A b : BlockAt(k, i, b) <=> BlockAt(l, i, b)
  <2>1. \A i \in 1..c : k[i] = l[i]
    BY <1>1
  <2> HIDE DEF k, l, c
  <2> QED  BY <1>1, <2>1, SameBlockAt
<1> HIDE DEF k, l, a, c, d
<1>5. ASSUME NEW b
      PROVE  /\ LastBlock(n, b) => LastBlock(n, b)'
             /\ NextBlock(n, b) => NextBlock(n, b)'
  BY <1>1, <1>2, PrefixKeeps
<1>6. ASSUME NEW b, Near(n, b), NextBlock(n, b)' PROVE NextBlock(n, b)
  <2>1. LastBlock(n, b) => LastIn(l, a, b)
    BY <1>2, <1>5
  <2>2. OnceIn(l) /\ NextIn(l, a, d, b)
    BY <1>2, <1>6 DEF l
  <2> QED  BY <1>1, <1>6, <2>1, <2>2, LastNotNext DEF Near
<1>7. ASSUME NEW b, Near(n, b) PROVE Near(n, b)'
  BY <1>5, <1>7 DEF Near
<1>8. Near(n, validator[n].head)'
  <2>1. Near(n, validator[n].head)
    BY DEF ChainOK
  <2> QED  BY <1>3, <1>5, <2>1 DEF Near
<1>9. ASSUME NEW h \in DOMAIN Requested(n)'
      PROVE  /\ Near(n, Requested(n)[h])'
             /\ (NextBlock(n, validator[n].head) => NextBlock(n, Requested(n)[h]))'
             /\ \A j \in DOMAIN Requested(n)' : h < j /\ NextBlock(n, Requested(n)[h])' =>
                  NextBlock(n, Requested(n)[j])'
  <2>1. Requested(n)' = Requested(n)
    <3>1. Requested(n)' # << >>
      OBVIOUS
    <3> QED  BY <1>3, <3>1
  <2>2. /\ Near(n, validator[n].head) /\ Near(n, Requested(n)[h])
        /\ NextBlock(n, validator[n].head) => NextBlock(n, Requested(n)[h])
        /\ \A j \in DOMAIN Requested(n) : h < j /\ NextBlock(n, Requested(n)[h]) =>
             NextBlock(n, Requested(n)[j])
    BY <2>1 DEF ChainOK
  <2>3. PICK x, y : x = validator[n].head /\ y = Requested(n)[h]
    OBVIOUS
  <2>4. /\ Near(n, y)' /\ (NextBlock(n, x)' => NextBlock(n, y)')
    BY <1>5, <1>6, <1>7, <2>2, <2>3
  <2>5. ASSUME NEW j \in DOMAIN Requested(n), h < j, NextBlock(n, y)'
        PROVE  NextBlock(n, Requested(n)[j])'
    <3>1. PICK z : z = Requested(n)[j]
      OBVIOUS
    <3>2. NextBlock(n, z)
      BY <1>6, <2>2, <2>3, <2>5, <3>1
    <3>3. NextBlock(n, z)'
      BY <1>5, <3>2
    <3> QED  BY <2>1, <3>1, <3>3
  <2> QED  BY <1>3, <2>1, <2>3, <2>4, <2>5
<1>10. ASSUME NEW b \in BlockId, Commit(b) \in validator'[n].inbox
       PROVE  \/ \E i \in 1..disk'[n].applied : BlockAt(disk'[n].log, i, b)
              \/ NextBlock(n, b)' /\ validator'[n].head = b
  <2>1. \/ \E i \in 1..a : BlockAt(k, i, b)
        \/ NextBlock(n, b) /\ validator[n].head = b
    BY <1>3, <1>10 DEF ChainOK, k, a
  <2>2. \A i \in 1..a : i \in 0..c
    BY <1>1
  <2> QED  BY <1>1, <1>3, <1>4, <1>5, <2>1, <2>2 DEF l
<1> QED
  BY <1>8, <1>9, <1>10 DEF ChainOK

\* on_block_commit: the block of which the validator reports the commit is its head
\* and all that is asked of it, and set_applied makes it the last block.
LEMMA AppliesChainOK ==
  ASSUME IndInv, LogInv, NEW n \in Node, ChainOK(n), OnceIn(disk[n].log),
         KeepsChain(n), Applies(n)
  PROVE  ChainOK(n)'
<1> DEFINE l == disk[n].log
           a == disk[n].applied
           c == disk[n].commit
<1>0. PICK f, i : f = Commits(n)[1].block /\ i = Commits(n)[1].entry
  OBVIOUS
<1>1. /\ a \in Nat /\ c \in Nat /\ a <= c /\ l \in Seq(Entry) /\ c <= Len(l)
      /\ disk[n] \in Disk
  BY StorageIndices, Indices
<1>2. /\ Up(n) /\ Commits(n) # << >> /\ Commit(f) \in validator[n].inbox
      /\ disk'[n] = SetApplied(disk[n], i)
  BY <1>0 DEF Applies, Pops
<1>3. /\ i \in (a + 1)..c /\ BlockAt(l, i, f) /\ NextBlock(n, f)
  BY <1>0, <1>2, FrontIsNextBlock
<1>4. disk'[n].log = l /\ disk'[n].applied = i
  BY <1>1, <1>2 DEF SetApplied, Disk
<1>5. validator[n].head = f
  <2>1. f \in BlockId
    <3>1. i \in DOMAIN l /\ i # 0
      BY <1>1, <1>3
    <3>2. l[i] \in Entry
      BY <1>1, <3>1
    <3> QED  BY <1>3, <3>1, <3>2, BlockOfEntry DEF BlockAt
  <2>2. ASSUME NEW j \in 1..a, BlockAt(l, j, f) PROVE FALSE
    <3>1. i \in 0..Len(l) /\ j \in 0..Len(l) /\ i # j
      BY <1>1, <1>3
    <3> HIDE DEF l
    <3> QED  BY <1>1, <1>3, <2>2, <3>1, OnceAt DEF l
  <2> QED  BY <1>2, <2>1, <2>2 DEF ChainOK
<1>6. ASSUME NEW b, NextBlock(n, b) PROVE b = f
  BY <1>1, <1>3, <1>6, NextIsOne DEF NextBlock
<1>7. \A h \in DOMAIN Requested(n) : Requested(n)[h] = f
  BY <1>3, <1>5, <1>6 DEF ChainOK
<1>8. LastBlock(n, f)'
  <2>1. LastIn(l, i, f)
    <3>1. i \in Nat /\ a < i
      BY <1>1, <1>3
    <3> HIDE DEF l, a
    <3> QED  BY <1>1, <1>3, <3>1, NextBecomesLast
  <2> QED  BY <1>4, <2>1 DEF LastBlock
<1>9. /\ validator'[n].head = f
      /\ \A h \in DOMAIN Requested(n)' : Requested(n)'[h] = f
      /\ \A b : Commit(b) \in validator'[n].inbox => Commit(b) \in validator[n].inbox
  BY <1>5, <1>7 DEF KeepsChain, Requested
<1>10. ASSUME NEW b \in BlockId, Commit(b) \in validator'[n].inbox
       PROVE  \E j \in 1..i : BlockAt(l, j, b)
  <2>1. \/ \E j \in 1..a : BlockAt(l, j, b)
        \/ b = f
    BY <1>6, <1>9, <1>10 DEF ChainOK
  <2>2. i \in 1..i /\ \A j \in 1..a : j \in 1..i
    BY <1>1, <1>3
  <2> QED  BY <1>3, <2>1, <2>2
<1>11. Near(n, f)'
  BY <1>8 DEF Near
<1> HIDE DEF l
<1>12. Near(n, validator[n].head)'
  BY <1>9, <1>11 DEF Near
<1>13. \A b \in BlockId : Commit(b) \in validator'[n].inbox =>
         \E j \in 1..disk'[n].applied : BlockAt(disk'[n].log, j, b)
  BY <1>4, <1>10
<1>14. ASSUME NEW h \in DOMAIN Requested(n)'
       PROVE  /\ Near(n, Requested(n)[h])'
              /\ (NextBlock(n, validator[n].head) => NextBlock(n, Requested(n)[h]))'
              /\ \A j \in DOMAIN Requested(n)' : h < j /\ NextBlock(n, Requested(n)[h])' =>
                   NextBlock(n, Requested(n)[j])'
  BY <1>9, <1>11
<1> QED
  BY <1>12, <1>13, <1>14 DEF ChainOK

\* commit_block: the front of the queue is asked for, after all others.
LEMMA AsksChainOK ==
  ASSUME IndInv, LogInv, NEW n \in Node, ChainOK(n), AsksCommit(n)
  PROVE  ChainOK(n)'
<1> DEFINE R == Requested(n)
<1>0. PICK f : f = Commits(n)[1].block
  OBVIOUS
<1>1. /\ NextBlock(n, f) /\ R \in Seq(BlockId)
  BY <1>0, FrontIsNextBlock DEF AsksCommit, IndInv, TypeOK, ValidatorState, Requested
<1>2. /\ Requested(n)' = Append(R, f) /\ validator'[n].head = validator[n].head
      /\ validator'[n].inbox = validator[n].inbox /\ disk'[n] = disk[n]
  BY <1>0 DEF AsksCommit, Requested
<1>3. \A b : /\ NextBlock(n, b)' <=> NextBlock(n, b)
             /\ LastBlock(n, b)' <=> LastBlock(n, b)
             /\ Near(n, b)' <=> Near(n, b)
  BY <1>2 DEF NextBlock, LastBlock, Near
<1> HIDE DEF R
<1>4. /\ DOMAIN Append(R, f) = 1..(Len(R) + 1) /\ Len(R) \in Nat /\ DOMAIN R = 1..Len(R)
      /\ Append(R, f)[Len(R) + 1] = f /\ \A h \in DOMAIN R : Append(R, f)[h] = R[h]
  BY <1>1
<1>5. ASSUME NEW h \in 1..(Len(R) + 1)
      PROVE  /\ Near(n, Append(R, f)[h])
             /\ NextBlock(n, validator[n].head) => NextBlock(n, Append(R, f)[h])
             /\ \A j \in 1..(Len(R) + 1) : h < j /\ NextBlock(n, Append(R, f)[h]) =>
                  NextBlock(n, Append(R, f)[j])
  <2>1. CASE h = Len(R) + 1
    BY <1>1, <1>4, <2>1 DEF Near
  <2>2. CASE h \in DOMAIN R
    <3>1. /\ Near(n, R[h])
          /\ NextBlock(n, validator[n].head) => NextBlock(n, R[h])
          /\ \A j \in DOMAIN R : h < j /\ NextBlock(n, R[h]) => NextBlock(n, R[j])
      BY <2>2 DEF ChainOK, R
    <3>2. \A j \in 1..(Len(R) + 1) : j \in DOMAIN R \/ j = Len(R) + 1
      BY <1>4
    <3> QED  BY <1>1, <1>4, <2>2, <3>1, <3>2
  <2> QED  BY <1>4, <2>1, <2>2
<1>6. /\ Near(n, validator[n].head)
      /\ \A b \in BlockId : Commit(b) \in validator[n].inbox =>
           \/ \E i \in 1..disk[n].applied : BlockAt(disk[n].log, i, b)
           \/ NextBlock(n, b) /\ validator[n].head = b
  BY DEF ChainOK
<1>7. Near(n, validator[n].head)'
  BY <1>2, <1>3, <1>6
<1>8. \A b \in BlockId : Commit(b) \in validator'[n].inbox =>
        \/ \E i \in 1..disk'[n].applied : BlockAt(disk'[n].log, i, b)
        \/ NextBlock(n, b)' /\ validator'[n].head = b
  BY <1>2, <1>3, <1>6
<1>9. ASSUME NEW h \in DOMAIN Requested(n)'
      PROVE  /\ Near(n, Requested(n)[h])'
             /\ (NextBlock(n, validator[n].head) => NextBlock(n, Requested(n)[h]))'
             /\ \A j \in DOMAIN Requested(n)' : h < j /\ NextBlock(n, Requested(n)[h])' =>
                  NextBlock(n, Requested(n)[j])'
  BY <1>2, <1>3, <1>4, <1>5
<1> QED
  BY <1>7, <1>8, <1>9 DEF ChainOK

\* The validator commits the first block that is asked for.
LEMMA PerformsChainOK ==
  ASSUME IndInv, NEW n \in Node, ChainOK(n), OnceIn(disk[n].log), Performs(n)
  PROVE  ChainOK(n)'
<1> DEFINE R == Requested(n)
<1>0. PICK f : f = Requested(n)[1]
  OBVIOUS
<1>1. /\ R \in Seq(BlockId) /\ R # << >>
  BY DEF Performs, IndInv, TypeOK, ValidatorState, Requested
<1>2. /\ Requested(n)' = Tail(R) /\ validator'[n].head = f /\ disk'[n] = disk[n]
      /\ \A b : Commit(b) \in validator'[n].inbox => Commit(b) \in validator[n].inbox \/ b = f
  BY <1>0 DEF Performs, Requested
<1>3. \A b : /\ NextBlock(n, b)' <=> NextBlock(n, b)
             /\ LastBlock(n, b)' <=> LastBlock(n, b)
             /\ Near(n, b)' <=> Near(n, b)
  BY <1>2 DEF NextBlock, LastBlock, Near
<1>4. /\ Near(n, f)
      /\ NextBlock(n, validator[n].head) => NextBlock(n, f)
      /\ \A h \in DOMAIN R :
           /\ Near(n, R[h])
           /\ 1 < h /\ NextBlock(n, f) => NextBlock(n, R[h])
           /\ \A j \in DOMAIN R : h < j /\ NextBlock(n, R[h]) => NextBlock(n, R[j])
  <2>1. 1 \in DOMAIN R
    BY <1>1
  <2> QED  BY <1>0, <2>1 DEF ChainOK
<1>5. f \in BlockId
  BY <1>0, <1>1
<1> HIDE DEF R
<1>6. /\ DOMAIN Tail(R) = 1..(Len(R) - 1) /\ Len(R) \in Nat /\ DOMAIN R = 1..Len(R)
      /\ \A h \in 1..(Len(R) - 1) : Tail(R)[h] = R[h + 1]
  BY <1>1
<1>7. Near(n, validator[n].head)'
  BY <1>2, <1>3, <1>4
<1>8. ASSUME NEW b \in BlockId, Commit(b) \in validator'[n].inbox
      PROVE  \/ \E i \in 1..disk[n].applied : BlockAt(disk[n].log, i, b)
             \/ NextBlock(n, b) /\ f = b
  <2>1. CASE b = f
    <3>1. CASE LastBlock(n, f)
      <4>1. PICK i \in 0..disk[n].applied : BlockAt(disk[n].log, i, f)
        BY <3>1 DEF LastBlock, LastIn
      <4>2. f # Genesis
        BY <1>5, MaxBlocksAssumption DEF BlockId, Genesis
      <4>3. i # 0
        BY <4>1, <4>2 DEF BlockAt
      <4>4. i \in 1..disk[n].applied
        BY <4>3, StorageIndices
      <4> QED  BY <2>1, <4>1, <4>4
    <3> QED  BY <1>4, <2>1, <3>1 DEF Near
  <2>2. CASE Commit(b) \in validator[n].inbox
    <3>1. ASSUME NextBlock(n, b), validator[n].head = b PROVE f = b
      <4>1. NextBlock(n, f)
        BY <1>4, <3>1
      <4> QED  BY <3>1, <4>1, NextIsOne, StorageIndices DEF NextBlock
    <3> QED  BY <2>2, <3>1 DEF ChainOK
  <2> QED  BY <1>2, <1>8, <2>1, <2>2
<1>9. ASSUME NEW h \in 1..(Len(R) - 1)
      PROVE  /\ Near(n, Tail(R)[h])
             /\ NextBlock(n, f) => NextBlock(n, Tail(R)[h])
             /\ \A j \in 1..(Len(R) - 1) : h < j /\ NextBlock(n, Tail(R)[h]) =>
                  NextBlock(n, Tail(R)[j])
  <2>1. /\ h + 1 \in DOMAIN R /\ 1 < h + 1
        /\ \A j \in 1..(Len(R) - 1) : j + 1 \in DOMAIN R /\ (h < j => h + 1 < j + 1)
    BY <1>6
  <2> QED  BY <1>4, <1>6, <2>1
<1>10. \A b \in BlockId : Commit(b) \in validator'[n].inbox =>
         \/ \E i \in 1..disk'[n].applied : BlockAt(disk'[n].log, i, b)
         \/ NextBlock(n, b)' /\ validator'[n].head = b
  BY <1>2, <1>3, <1>8
<1>11. ASSUME NEW h \in DOMAIN Requested(n)'
       PROVE  /\ Near(n, Requested(n)[h])'
              /\ (NextBlock(n, validator[n].head) => NextBlock(n, Requested(n)[h]))'
              /\ \A j \in DOMAIN Requested(n)' : h < j /\ NextBlock(n, Requested(n)[h])' =>
                   NextBlock(n, Requested(n)[j])'
  BY <1>2, <1>3, <1>6, <1>9
<1> QED
  BY <1>7, <1>10, <1>11 DEF ChainOK

\* Every step
LEMMA ChainOKNext ==
  ASSUME IndInv, IndInv', LogInv, ChainInv, [Next]_vars, NEW n \in Node,
         OnceIn(disk'[n].log)
  PROVE  ChainOK(n)'
<1>1. ChainMoves(n) /\ ChainOK(n) /\ OnceIn(disk[n].log)
  BY NextChains, OnceInLogs, LogsAre DEF ChainInv
<1> QED
  BY <1>1, KeepsChainOK, AppliesChainOK, AsksChainOK, PerformsChainOK
     DEF ChainMoves, Stays

\* The head is committed in the storage.
LEMMA HeadInLog ==
  ASSUME IndInv, NEW n \in Node, ChainOK(n)
  PROVE  InLog(disk[n].log, validator[n].head, disk[n].commit)
<1>1. Near(n, validator[n].head)
  BY DEF ChainOK
<1>2. PICK i \in 0..disk[n].commit : BlockAt(disk[n].log, i, validator[n].head)
  BY <1>1, StorageIndices DEF Near, LastBlock, NextBlock, LastIn, NextIn
<1> QED  BY <1>2 DEF InLog

\* A block is built on the head.
LEMMA BuildingNext ==
  ASSUME IndInv, IndInv', LogInv, ChainInv, [Next]_vars, NEW n \in Node
  PROVE  BuildingOK(n)'
<1>1. ChainMoves(n) /\ ChainOK(n) /\ BuildingOK(n)
  BY NextChains DEF ChainInv
<1>2. validator'[n].building \in {validator[n].building, validator[n].head, NoBlock}
  BY <1>1 DEF ChainMoves, Stays, KeepsChain, AsksCommit, Performs
<1>3. ASSUME NEW b, b = validator'[n].building, b # NoBlock
      PROVE  InLog(disk'[n].log, b, disk'[n].commit)
  <2>1. InLog(disk[n].log, b, disk[n].commit)
    BY <1>1, <1>2, <1>3, HeadInLog DEF BuildingOK
  <2> QED  BY <1>1, <2>1, CommittedBlocksStay
<1> QED  BY <1>3 DEF BuildingOK

\* A block that a leader holds is held by it alone until it proposes it.
LEMMA HeldNext ==
  ASSUME IndInv, IndInv', LogInv, BlocksInv, ChainInv, [Next]_vars, NEW n \in Node
  PROVE  HeldOK(n)'
<1> SUFFICES ASSUME NEW b \in BlockId, Holds(n, b)'
             PROVE  /\ b \in DOMAIN tree'
                    /\ \A l \in Logs' : ~HasBlock(l, b)
                    /\ InLog(disk'[n].log, Parent(b)', disk'[n].commit)
                    /\ \A m \in Node \ {n} : ~Holds(m, b)'
  BY DEF HeldOK
<1>1. \A m \in Node : HeldOK(m) /\ BuildingOK(m) /\ ChainMoves(m)
  BY NextChains DEF ChainInv
<1>2. \A m \in Node : Holds(m, b)' => Holds(m, b) \/ Publishes(m, b)
  BY NextHeld DEF HeldMoves
<1>3. tree \in Seq(BlockRecord)
  BY DEF IndInv, TypeOK
<1>4. ASSUME \A l \in Logs : ~HasBlock(l, b), \A m \in Node \ {n} : ~Holds(m, b)
      PROVE  \A l \in Logs' : ~HasBlock(l, b)
  <2> SUFFICES ASSUME NEW l \in Logs', HasBlock(l, b) PROVE FALSE
    OBVIOUS
  <2>1. PICK i \in DOMAIN l : IsBlock(l[i]) /\ l[i].block = b
    BY DEF HasBlock
  <2>2. ~WasAt(i, b)
    BY <1>4 DEF HasBlock, WasAt
  <2>3. PICK m \in Node : Proposed(m, i, b)
    BY <2>1, <2>2, BlockSources
  <2>4. m = n
    BY <1>4, <2>3 DEF Proposed
  <2> QED  BY <2>3, <2>4 DEF Proposed, Holds, Awaits, Proposing, Publishing, Validating
<1>5. b = Len(tree) + 1 => b \notin DOMAIN tree
  BY <1>3
<1>6. CASE Holds(n, b)
  <2>1. /\ b \in DOMAIN tree
        /\ \A l \in Logs : ~HasBlock(l, b)
        /\ InLog(disk[n].log, Parent(b), disk[n].commit)
        /\ \A m \in Node \ {n} : ~Holds(m, b)
    BY <1>1, <1>6 DEF HeldOK
  <2>2. b \in DOMAIN tree' /\ Parent(b)' = Parent(b)
    BY <2>1, ParentStays
  <2>3. InLog(disk'[n].log, Parent(b)', disk'[n].commit)
    BY <1>1, <2>1, <2>2, CommittedBlocksStay
  <2>4. \A m \in Node \ {n} : ~Holds(m, b)'
    BY <1>2, <1>5, <2>1 DEF Publishes
  <2> QED  BY <1>4, <2>1, <2>2, <2>3, <2>4
<1>7. CASE Publishes(n, b)
  <2>1. /\ Up(n) /\ leader_state[n] = Building /\ b = Len(tree) + 1 /\ disk'[n] = disk[n]
        /\ \A m \in Node \ {n} : leader_state'[m] = leader_state[m] /\ phase'[m] = phase[m]
    BY <1>7 DEF Publishes
  <2>2. PICK x : tree' = Append(tree, x) /\ x.parent = validator[n].building
    BY <1>7 DEF Publishes
  <2>3. b \in DOMAIN tree' /\ Parent(b)' = validator[n].building
    BY <1>3, <2>1, <2>2 DEF Parent
  <2>4. \A m \in Node : ~Holds(m, b)
    BY <1>1, <1>5, <2>1 DEF HeldOK
  <2>5. \A l \in Logs : ~HasBlock(l, b)
    BY <1>5, <2>1, LogsValid DEF HasBlock
  <2>6. InLog(disk[n].log, validator[n].building, disk[n].commit)
    <3>1. BuildOK(n)
      BY <2>1 DEF IndInv, NodeOK
    <3> QED  BY <1>1, <2>1, <3>1 DEF BuildOK, BuildingOK
  <2>7. \A m \in Node \ {n} : ~Holds(m, b)'
    BY <2>1, <2>4 DEF Holds, Awaits, Up
  <2> QED  BY <1>4, <2>1, <2>3, <2>4, <2>5, <2>6, <2>7
<1> QED  BY <1>2, <1>6, <1>7

\* ChainInv is inductive.
LEMMA ChainNext ==
  ASSUME IndInv, LogInv, BlocksInv, ChainInv, [Next]_vars
  PROVE  ChainInv'
<1>1. IndInv'
  BY NextInv
<1>2. /\ \A k, l \in Logs' : SameSpots(k, l)
      /\ \A l \in Logs' : RootedIn(l)'
  BY <1>1, LogsNext
<1>3. ASSUME NEW n \in Node PROVE (HeldOK(n) /\ BuildingOK(n) /\ ChainOK(n))'
  <2>1. disk'[n].log \in Logs'
    BY DEF Logs
  <2>2. OnceIn(disk'[n].log)
    BY <1>2, <2>1 DEF SameSpots, OnceIn
  <2> QED  BY <1>1, <2>2, HeldNext, BuildingNext, ChainOKNext
<1>4. \A k, l \in Logs' : SameSpots(k, l)'
  BY <1>2 DEF SameSpots
<1> QED  BY <1>2, <1>3, <1>4 DEF ChainInv

\* At first there are no blocks but the genesis block.
LEMMA ChainInit == Init => ChainInv
<1> SUFFICES ASSUME Init PROVE ChainInv
  OBVIOUS
<1>1. ASSUME NEW k \in Logs PROVE RootedIn(k) /\ \A l \in Logs : SameSpots(k, l)
  <2>1. k = << >>
    BY DEF Logs, Init, NewRaft, NewDisk, NewMessage
  <2> QED  BY <2>1 DEF SameSpots, RootedIn
<1>2. ASSUME NEW n \in Node PROVE HeldOK(n) /\ BuildingOK(n) /\ ChainOK(n)
  <2>1. /\ leader_state[n] = None /\ disk[n].applied = 0 /\ disk[n].commit = 0
        /\ validator[n].head = Genesis /\ validator[n].building = NoBlock
        /\ validator[n].requests = << >> /\ validator[n].inbox = {}
    BY DEF Init, NewDisk, NewValidator
  <2>2. HeldOK(n)
    BY <2>1, HoldsNone DEF HeldOK, Holds, Awaits
  <2>3. BuildingOK(n)
    BY <2>1 DEF BuildingOK
  <2>4. BlockAt(disk[n].log, 0, Genesis)
    BY DEF BlockAt
  <2>5. BlocksBetween(disk[n].log, 0, 0) = {}
    BY DEF BlocksBetween
  <2>6. LastIn(disk[n].log, 0, Genesis)
    BY <2>4, <2>5 DEF LastIn
  <2>7. Near(n, validator[n].head)
    BY <2>1, <2>6 DEF Near, LastBlock
  <2>8. Requested(n) = << >>
    BY <2>1 DEF Requested
  <2>9. ChainOK(n)
    BY <2>1, <2>7, <2>8 DEF ChainOK
  <2> QED  BY <2>2, <2>3, <2>9
<1> QED  BY <1>1, <1>2 DEF ChainInv

\* Logs and chains are as ChainInv says in every state a network reaches.
LEMMA ChainInvariance == Spec => [](IndInv /\ LogInv /\ BlocksInv /\ ChainInv)
<1>1. IndInv /\ LogInv /\ BlocksInv /\ [Next]_vars => BlocksInv'
  BY BlocksNext
<1>2. IndInv /\ LogInv /\ BlocksInv /\ ChainInv /\ [Next]_vars => ChainInv'
  BY ChainNext
<1> QED
  BY <1>1, <1>2, BlocksInit, ChainInit, LogInvariance, PTL DEF Spec

-----------------------------------------------------------------------------
(* The validator is at most one block ahead *)

\* The index of the head is not after that of the front of the queue.
LEMMA HeadBeforeFront ==
  ASSUME IndInv, LogInv, ChainInv, NEW n \in Node, Up(n), Commits(n) # << >>
  PROVE  \E i \in 0..Commits(n)[1].entry : BlockAt(disk[n].log, i, validator[n].head)
<1> DEFINE l == disk[n].log
           a == disk[n].applied
           h == validator[n].head
           f == Commits(n)[1].entry
<1>1. /\ f \in (a + 1)..disk[n].commit /\ BlocksBetween(l, a, f) = {f}
      /\ a \in Nat /\ disk[n].commit \in Nat
  BY FrontIsNextBlock, StorageIndices
<1>2. LastIn(l, a, h) \/ NextIn(l, a, disk[n].commit, h)
  BY DEF ChainInv, ChainOK, Near, LastBlock, NextBlock
<1> HIDE DEF l, a, h, f
<1>3. CASE LastIn(l, a, h)
  <2>1. PICK i \in 0..a : BlockAt(l, i, h)
    BY <1>3 DEF LastIn
  <2>2. i \in 0..f
    BY <1>1
  <2> QED  BY <2>1, <2>2 DEF l, h, f
<1>4. CASE NextIn(l, a, disk[n].commit, h)
  <2>1. PICK i \in (a + 1)..disk[n].commit :
          BlockAt(l, i, h) /\ BlocksBetween(l, a, i) = {i}
    BY <1>4 DEF NextIn
  <2>2. f < i => f \in BlocksBetween(l, a, i)
    <3>1. f \in BlocksBetween(l, a, f)
      BY <1>1
    <3>2. IsBlock(l[f])
      BY <3>1 DEF BlocksBetween
    <3> QED  BY <1>1, <3>2 DEF BlocksBetween
  <2>3. ~(f < i)
    BY <1>1, <2>1, <2>2
  <2>4. i \in 0..f
    BY <1>1, <2>3
  <2> QED  BY <2>1, <2>4 DEF l, h, f
<1> QED  BY <1>2, <1>3, <1>4

\* The blocks of the queue after its front are after the head in the log.
LEMMA OnlyFrontHolds ==
  ASSUME IndInv, LogInv, BlocksInv, ChainInv
  PROVE  OnlyFrontIsInChain
<1> SUFFICES ASSUME NEW n \in Node, Up(n), NEW k \in 2..Len(Commits(n)),
                    Commits(n)[k].block \in Ancestors(validator[n].head)
             PROVE  FALSE
  BY DEF OnlyFrontIsInChain, Commits
<1> DEFINE l == disk[n].log
           c == disk[n].commit
           q == Commits(n)
<1>1. /\ l \in Seq(Entry) /\ c \in Nat /\ c <= Len(l) /\ l \in Logs
  BY StorageIndices, LogsAre
<1>2. \A k1 \in Logs : k1 \in Seq(Entry) /\ SameSpots(l, k1) /\ RootedIn(k1)
  BY <1>1, LogsValid DEF ChainInv
<1>3. /\ q \in Seq(QueueEntry) /\ SegmentOK(n) /\ AgreeOK(n)
  BY Indices DEF LogInv, LogOK
<1>4. q # << >> /\ 1 \in DOMAIN q /\ k \in DOMAIN q /\ 1 < k
  BY <1>3
<1>5. PICK i \in 0..q[1].entry : BlockAt(l, i, validator[n].head)
  BY <1>4, HeadBeforeFront
<1>6. q[1].entry \in Nat /\ q[1].entry <= c
  BY <1>4, FrontIsNextBlock, StorageIndices
<1>7. PICK e, b : e = q[k].entry /\ b = q[k].block
  OBVIOUS
<1>8. /\ e \in 1..c /\ q[1].entry < e /\ BlockAt(l, e, b)
  <2>1. e \in BlocksBetween(raft[n].log, disk[n].applied, raft[n].delivered)
    BY <1>3, <1>4, <1>7 DEF SegmentOK
  <2>2. /\ raft[n].delivered \in Nat /\ raft[n].ready \in Nat /\ disk[n].applied \in Nat
        /\ raft[n].delivered <= raft[n].ready /\ raft[n].ready <= c
    BY Indices
  <2>3. e \in 1..c /\ IsBlock(raft[n].log[e]) /\ e # 0
    <3>1. e \in (disk[n].applied + 1)..raft[n].delivered /\ IsBlock(raft[n].log[e])
      BY <2>1 DEF BlocksBetween
    <3>2. c \in Nat
      BY <1>1
    <3> HIDE DEF c
    <3> QED  BY <2>2, <3>1, <3>2, SMTT(20)
  <2>4. b = raft[n].log[e].block /\ q[1].entry < e
    BY <1>3, <1>4, <1>7 DEF SegmentOK
  <2>5. raft[n].log[e] = l[e]
    BY <1>3, <2>3 DEF AgreeOK
  <2> QED  BY <2>3, <2>4, <2>5 DEF BlockAt
<1> DEFINE S == {x \in {Genesis} \cup DOMAIN tree : x = Genesis \/ \E j \in 1..i : WasAt(j, x)}
<1> HIDE DEF l, c, q
<1>9. i \in Nat /\ i <= c /\ i < e
  BY <1>1, <1>5, <1>6, <1>8
<1>10. ASSUME NEW x, NEW k1 \in Logs, NEW j \in 0..i, j <= Len(k1), BlockAt(k1, j, x)
       PROVE  x \in S
  <2>1. CASE j = 0
    BY <1>10, <2>1 DEF BlockAt
  <2>2. CASE j # 0
    <3>1. j \in DOMAIN k1 /\ j \in 1..i
      BY <1>2, <1>9, <1>10, <2>2
    <3>2. IsBlock(k1[j]) /\ x = k1[j].block
      BY <1>10, <2>2 DEF BlockAt
    <3>3. x \in DOMAIN tree
      BY <3>1, <3>2, LogsValid
    <3> QED  BY <3>1, <3>2, <3>3 DEF WasAt
  <2> QED  BY <2>1, <2>2
<1>11. ASSUME NEW x \in S \ {Genesis} PROVE Parent(x) \in S
  <2>1. PICK j \in 1..i : WasAt(j, x)
    BY <1>11
  <2>2. Rooted(j, x)
    BY <1>2, <2>1 DEF WasAt, RootedIn
  <2>6. PICK m \in Node : \E g \in 0..disk[m].commit :
                           g < j /\ BlockAt(disk[m].log, g, Parent(x))
    BY <2>2 DEF Rooted
  <2>3. PICK g \in 0..disk[m].commit : g < j /\ BlockAt(disk[m].log, g, Parent(x))
    BY <2>6
  <2>4. disk[m].log \in Logs /\ disk[m].commit \in Nat /\ disk[m].commit <= Len(disk[m].log)
        /\ disk[m].log \in Seq(Entry)
    BY LogsAre, StorageIndices
  <2>5. g \in 0..i /\ g <= Len(disk[m].log)
    BY <1>9, <2>3, <2>4
  <2> QED  BY <1>10, <2>3, <2>4, <2>5
<1>12. validator[n].head \in S
  <2>1. i \in 0..i /\ i <= Len(l)
    BY <1>1, <1>9
  <2> QED  BY <1>1, <1>5, <1>10, <2>1
<1>13. S \in SUBSET ({Genesis} \cup DOMAIN tree)
  OBVIOUS
<1> HIDE DEF S
<1>14. b \in S
  BY <1>7, <1>11, <1>12, <1>13 DEF Ancestors, q
<1>15. e \in DOMAIN l /\ IsBlock(l[e]) /\ l[e].block = b /\ b # Genesis
  <2>1. e \in DOMAIN l /\ e # 0
    BY <1>1, <1>8
  <2>2. IsBlock(l[e]) /\ l[e].block = b
    BY <1>8, <2>1 DEF BlockAt
  <2> QED  BY <1>1, <2>1, <2>2, BlockOfEntry
<1>16. PICK j \in 1..i : WasAt(j, b)
  BY <1>14, <1>15 DEF S
<1>17. j = e
  BY <1>2, <1>15, <1>16 DEF WasAt, SameSpots
<1> QED  BY <1>9, <1>17

\* A validator has at most one of the blocks of its engine's queue in its chain,
\* and it is the front: whatever crash comes between the validator's commit and
\* set_applied, no other block is delivered again.  For any sets of peers, blocks,
\* terms and stops, with membership changes.
THEOREM OnlyFront == Spec => []OnlyFrontIsInChain
<1>1. IndInv /\ LogInv /\ BlocksInv /\ ChainInv => OnlyFrontIsInChain
  BY OnlyFrontHolds
<1> QED  BY <1>1, ChainInvariance, PTL

-----------------------------------------------------------------------------
(* The blocks of a log *)

\* What entry i of log l makes of the blocks before it, and the functions that
\* collect the blocks of the first c entries.
Collected(l, i, v) == IF IsBlock(l[i]) THEN Append(v, l[i].block) ELSE v

Collects(f, l, c) ==
  /\ f \in [0..c -> Seq(BlockId)]
  /\ f[0] = << >> /\ \A i \in 1..c : f[i] = Collected(l, i, f[i - 1])

\* There is one, and BlocksUpTo is its last value.
LEMMA CollectsUpTo ==
  ASSUME NEW l \in Seq(Entry), NEW c \in 0..Len(l)
  PROVE  \E f : Collects(f, l, c) /\ BlocksUpTo(l, c) = f[c]
<1> DEFINE V == Seq(BlockId)
           F == [i \in 1..c |-> [v \in V |-> Collected(l, i, v)]]
           Body(f) == [i \in 0..c |-> IF i = 0 THEN << >>
                                      ELSE IF IsBlock(l[i]) THEN Append(f[i - 1], l[i].block)
                                      ELSE f[i - 1]]
<1>1. c \in Nat /\ << >> \in V
  OBVIOUS
<1>2. ASSUME NEW i \in 1..c, NEW v \in V PROVE Collected(l, i, v) \in V
  <2>1. l[i] \in Entry
    OBVIOUS
  <2>2. IsBlock(l[i]) => l[i].block \in BlockId
    BY <2>1, BlockOfEntry
  <2> QED  BY <2>2 DEF Collected
<1>3. F \in Rules(c, V)
  BY <1>2 DEF Rules
<1>4. \A i \in 1..c : \A v \in V : F[i][v] = Collected(l, i, v)
  OBVIOUS
<1> HIDE DEF F, V
<1>5. PICK g : Iterates(g, c, V, << >>, F)
  BY <1>1, <1>3, Recursion
<1>6. /\ g \in [0..c -> V] /\ g[0] = << >>
      /\ \A i \in 1..c : g[i] = F[i][g[i - 1]]
  BY <1>5 DEF Iterates
<1>7. \A i \in 1..c : i - 1 \in 0..c /\ i \in 0..c /\ i # 0
  BY <1>1
<1>8. \A i \in 0..c : i = 0 \/ i \in 1..c
  BY <1>1
<1>9. \A i \in 1..c : g[i] = Collected(l, i, g[i - 1])
  BY <1>4, <1>6, <1>7
<1>10. g = Body(g)
  BY <1>6, <1>8, <1>9 DEF Collected
<1> DEFINE f == CHOOSE h : h = Body(h)
<1>11. f = Body(f)
  BY <1>10
<1>12. BlocksUpTo(l, c) = f[c]
  BY DEF BlocksUpTo
<1> HIDE DEF f
<1>13. DOMAIN f = 0..c /\ f[0] = << >> /\ \A i \in 1..c : f[i] = Collected(l, i, f[i - 1])
  <2>1. DOMAIN f = 0..c
    BY <1>11
  <2>2. \A i \in 0..c : f[i] = IF i = 0 THEN << >>
                              ELSE IF IsBlock(l[i]) THEN Append(f[i - 1], l[i].block)
                              ELSE f[i - 1]
    BY <1>11
  <2>3. 0 \in 0..c
    BY <1>1
  <2>4. f[0] = << >>
    BY <2>2, <2>3
  <2>5. \A i \in 1..c : f[i] = Collected(l, i, f[i - 1])
    BY <1>7, <2>2 DEF Collected
  <2> QED  BY <2>1, <2>4, <2>5
<1>14. ASSUME NEW i \in 0..c PROVE f[i] = g[i]
  <2> DEFINE S == {n \in Nat : n <= c => f[n] = g[n]}
  <2>1. 0 \in S
    BY <1>6, <1>13
  <2>2. ASSUME NEW n \in Nat, n \in S PROVE n + 1 \in S
    <3> SUFFICES ASSUME n + 1 <= c PROVE f[n + 1] = g[n + 1]
      OBVIOUS
    <3>1. f[n] = g[n] /\ n + 1 \in 1..c /\ (n + 1) - 1 = n
      BY <1>1, <2>2
    <3> QED  BY <1>9, <1>13, <3>1
  <2> HIDE DEF S
  <2>3. Nat \subseteq S
    BY <2>1, <2>2, SetInd
  <2>4. \A n \in Nat : n <= c => f[n] = g[n]
    BY <2>3 DEF S
  <2> QED  BY <1>1, <2>4
<1>15. f = [i \in 0..c |-> f[i]]
  BY <1>11
<1>16. f \in [0..c -> V]
  BY <1>6, <1>14, <1>15
<1> QED  BY <1>12, <1>13, <1>16 DEF Collects, V

\* Logs with the same first entries give the same values.
LEMMA CollectsSame ==
  ASSUME NEW k, NEW l, NEW c \in Nat, NEW d \in Nat, NEW e \in Nat, e <= c, e <= d,
         NEW f, NEW g, Collects(f, k, c), Collects(g, l, d),
         \A i \in 1..e : k[i] = l[i]
  PROVE  f[e] = g[e]
<1> DEFINE S == {n \in Nat : n <= e => f[n] = g[n]}
<1>1. 0 \in S
  BY DEF Collects
<1>2. ASSUME NEW n \in Nat, n \in S PROVE n + 1 \in S
  <2> SUFFICES ASSUME n + 1 <= e PROVE f[n + 1] = g[n + 1]
    OBVIOUS
  <2>1. /\ f[n] = g[n] /\ n + 1 \in 1..c /\ n + 1 \in 1..d /\ n + 1 \in 1..e
        /\ (n + 1) - 1 = n
    BY <1>2
  <2>2. f[n + 1] = Collected(k, n + 1, f[n]) /\ g[n + 1] = Collected(l, n + 1, g[n])
    BY <2>1 DEF Collects
  <2> QED  BY <2>1, <2>2 DEF Collected
<1> HIDE DEF S
<1>3. Nat \subseteq S
  BY <1>1, <1>2, SetInd
<1> QED  BY <1>3 DEF S

\* BlocksUpTo, entry by entry
LEMMA UpTo ==
  ASSUME NEW l \in Seq(Entry)
  PROVE  /\ BlocksUpTo(l, 0) = << >>
         /\ \A c \in 0..Len(l) : BlocksUpTo(l, c) \in Seq(BlockId)
         /\ \A c \in 1..Len(l) :
              BlocksUpTo(l, c) = Collected(l, c, BlocksUpTo(l, c - 1))
<1>0. Len(l) \in Nat
  OBVIOUS
<1>1. ASSUME NEW c \in 0..Len(l) PROVE BlocksUpTo(l, c) \in Seq(BlockId)
  <2>1. PICK f : Collects(f, l, c) /\ BlocksUpTo(l, c) = f[c]
    BY CollectsUpTo
  <2> QED  BY <1>0, <2>1 DEF Collects
<1>2. BlocksUpTo(l, 0) = << >>
  <2>1. PICK f : Collects(f, l, 0) /\ BlocksUpTo(l, 0) = f[0]
    BY <1>0, CollectsUpTo
  <2> QED  BY <2>1 DEF Collects
<1>3. ASSUME NEW c \in 1..Len(l)
      PROVE  BlocksUpTo(l, c) = Collected(l, c, BlocksUpTo(l, c - 1))
  <2>0. c \in Nat /\ c - 1 \in Nat /\ c \in 0..Len(l) /\ c - 1 \in 0..Len(l) /\ c - 1 <= c
    BY <1>0
  <2>1. PICK f : Collects(f, l, c) /\ BlocksUpTo(l, c) = f[c]
    BY <2>0, CollectsUpTo
  <2>2. PICK g : Collects(g, l, c - 1) /\ BlocksUpTo(l, c - 1) = g[c - 1]
    BY <2>0, CollectsUpTo
  <2>3. f[c - 1] = g[c - 1]
    BY <2>0, <2>1, <2>2, CollectsSame
  <2>4. f[c] = Collected(l, c, f[c - 1])
    BY <2>0, <2>1 DEF Collects
  <2> QED  BY <2>1, <2>2, <2>3, <2>4
<1> QED  BY <1>1, <1>2, <1>3

\* Logs with the same first c entries have the same blocks there.
LEMMA SameUpTo ==
  ASSUME NEW k \in Seq(Entry), NEW l \in Seq(Entry), NEW c \in Nat,
         c <= Len(k), c <= Len(l), \A i \in 1..c : k[i] = l[i]
  PROVE  BlocksUpTo(k, c) = BlocksUpTo(l, c)
<1>0. c \in 0..Len(k) /\ c \in 0..Len(l) /\ c <= c
  OBVIOUS
<1>1. PICK f : Collects(f, k, c) /\ BlocksUpTo(k, c) = f[c]
  BY <1>0, CollectsUpTo
<1>2. PICK g : Collects(g, l, c) /\ BlocksUpTo(l, c) = g[c]
  BY <1>0, CollectsUpTo
<1>3. f[c] = g[c]
  BY <1>0, <1>1, <1>2, CollectsSame
<1> QED  BY <1>1, <1>2, <1>3

\* Sequence s begins with sequence p.
Begins(p, s) == Len(p) <= Len(s) /\ \A j \in 1..Len(p) : s[j] = p[j]

\* More entries only add blocks at the end.
LEMMA UpToGrows ==
  ASSUME NEW l \in Seq(Entry), NEW i \in Nat, NEW c \in Nat, i <= c, c <= Len(l)
  PROVE  Begins(BlocksUpTo(l, i), BlocksUpTo(l, c))
<1> DEFINE B(x) == BlocksUpTo(l, x)
           S == {n \in Nat : i <= n /\ n <= c => Begins(B(i), B(n))}
<1>0. Len(l) \in Nat
  OBVIOUS
<1>1. \A x \in 0..c : B(x) \in Seq(BlockId) /\ Len(B(x)) \in Nat
  <2>1. \A x \in 0..c : B(x) \in Seq(BlockId)
    BY <1>0, UpTo
  <2> QED  BY <2>1
<1>2. \A x \in 1..c : B(x) = Collected(l, x, B(x - 1))
  BY <1>0, UpTo
<1>3. \A x \in 1..c : IsBlock(l[x]) => l[x].block \in BlockId
  BY <1>0, BlockOfEntry
<1> HIDE DEF B
<1>4. Begins(B(i), B(i))
  BY <1>1 DEF Begins
<1>5. 0 \in S
  BY <1>4
<1>6. ASSUME NEW n \in Nat, n \in S PROVE n + 1 \in S
  <2> SUFFICES ASSUME i <= n + 1, n + 1 <= c PROVE Begins(B(i), B(n + 1))
    OBVIOUS
  <2>1. CASE i = n + 1
    BY <1>4, <2>1
  <2>2. CASE i <= n
    <3>1. Begins(B(i), B(n)) /\ n \in 0..c /\ n + 1 \in 1..c /\ (n + 1) - 1 = n
      BY <1>6, <2>2
    <3>2. B(n) \in Seq(BlockId) /\ B(n + 1) = Collected(l, n + 1, B(n))
      BY <1>1, <1>2, <3>1
    <3>3. Begins(B(n), B(n + 1))
      <4>1. CASE IsBlock(l[n + 1])
        <5>1. B(n + 1) = Append(B(n), l[n + 1].block) /\ l[n + 1].block \in BlockId
          BY <1>3, <3>1, <3>2, <4>1 DEF Collected
        <5> QED  BY <3>2, <5>1 DEF Begins
      <4>2. CASE ~IsBlock(l[n + 1])
        BY <3>2, <4>2 DEF Begins, Collected
      <4> QED  BY <4>1, <4>2
    <3>4. Len(B(i)) \in Nat /\ Len(B(n)) \in Nat /\ Len(B(n + 1)) \in Nat
      BY <1>1, <3>1
    <3> QED  BY <3>1, <3>3, <3>4 DEF Begins
  <2> QED  BY <2>1, <2>2
<1> HIDE DEF S
<1>7. Nat \subseteq S
  BY <1>5, <1>6, SetInd
<1> QED  BY <1>7 DEF S, B

\* Entries without a block add nothing.
LEMMA UpToNone ==
  ASSUME NEW l \in Seq(Entry), NEW i \in Nat, NEW c \in Nat, i <= c, c <= Len(l),
         BlocksBetween(l, i, c) = {}
  PROVE  BlocksUpTo(l, c) = BlocksUpTo(l, i)
<1> DEFINE B(x) == BlocksUpTo(l, x)
           S == {n \in Nat : i <= n /\ n <= c => B(n) = B(i)}
<1>0. Len(l) \in Nat
  OBVIOUS
<1>1. \A x \in 1..c : B(x) = Collected(l, x, B(x - 1))
  BY <1>0, UpTo
<1>2. \A x \in (i + 1)..c : ~IsBlock(l[x])
  BY DEF BlocksBetween
<1> HIDE DEF B
<1>3. 0 \in S
  OBVIOUS
<1>4. ASSUME NEW n \in Nat, n \in S PROVE n + 1 \in S
  <2> SUFFICES ASSUME i <= n + 1, n + 1 <= c PROVE B(n + 1) = B(i)
    OBVIOUS
  <2>1. CASE i = n + 1
    BY <2>1
  <2>2. CASE i <= n
    <3>1. B(n) = B(i) /\ n + 1 \in 1..c /\ n + 1 \in (i + 1)..c /\ (n + 1) - 1 = n
      BY <1>4, <2>2
    <3> QED  BY <1>1, <1>2, <3>1 DEF Collected
  <2> QED  BY <2>1, <2>2
<1> HIDE DEF S
<1>5. Nat \subseteq S
  BY <1>3, <1>4, SetInd
<1> QED  BY <1>5 DEF S, B

\* An entry with a block adds it.
LEMMA UpToBlock ==
  ASSUME NEW l \in Seq(Entry), NEW c \in 1..Len(l), IsBlock(l[c])
  PROVE  /\ Len(BlocksUpTo(l, c)) = Len(BlocksUpTo(l, c - 1)) + 1
         /\ BlocksUpTo(l, c)[Len(BlocksUpTo(l, c))] = l[c].block
<1> DEFINE s == BlocksUpTo(l, c - 1)
           t == BlocksUpTo(l, c)
<1>1. s \in Seq(BlockId) /\ t = Collected(l, c, s)
  <2>1. c - 1 \in 0..Len(l)
    OBVIOUS
  <2> QED  BY <2>1, UpTo
<1>2. l[c] \in Entry /\ l[c].block \in BlockId
  BY BlockOfEntry
<1> HIDE DEF s, t
<1>3. t = Append(s, l[c].block)
  BY <1>1 DEF Collected
<1>4. Len(t) = Len(s) + 1 /\ t[Len(t)] = l[c].block
  BY <1>1, <1>2, <1>3
<1> QED  BY <1>4 DEF s, t

\* There are no other blocks than those of the entries.
LEMMA UpToFrom ==
  ASSUME NEW l \in Seq(Entry), NEW c \in 0..Len(l), NEW k \in DOMAIN BlocksUpTo(l, c)
  PROVE  \E i \in 1..c : /\ IsBlock(l[i]) /\ l[i].block = BlocksUpTo(l, c)[k]
                         /\ Len(BlocksUpTo(l, i)) = k
<1> DEFINE B(x) == BlocksUpTo(l, x)
           From(n, j) == \E i \in 1..n : /\ IsBlock(l[i]) /\ l[i].block = B(n)[j]
                                         /\ Len(B(i)) = j
           S == {n \in Nat : n <= Len(l) => \A j \in DOMAIN B(n) : From(n, j)}
<1>0. Len(l) \in Nat
  OBVIOUS
<1>1. \A x \in 0..Len(l) : B(x) \in Seq(BlockId)
  BY <1>0, UpTo
<1>2. \A x \in 1..Len(l) : B(x) = Collected(l, x, B(x - 1))
  BY <1>0, UpTo
<1>3. \A x \in 1..Len(l) : IsBlock(l[x]) => l[x].block \in BlockId
  BY <1>0, BlockOfEntry
<1>4. B(0) = << >>
  BY UpTo
<1>5. \A x \in 1..Len(l) : IsBlock(l[x]) =>
        Len(B(x)) = Len(B(x - 1)) + 1 /\ B(x)[Len(B(x))] = l[x].block
  BY UpToBlock
<1> HIDE DEF B
<1>6. 0 \in S
  BY <1>4
<1>7. ASSUME NEW n \in Nat, n \in S PROVE n + 1 \in S
  <2> SUFFICES ASSUME n + 1 <= Len(l), NEW j \in DOMAIN B(n + 1) PROVE From(n + 1, j)
    OBVIOUS
  <2>1. /\ n + 1 \in 1..Len(l) /\ n \in 0..Len(l) /\ (n + 1) - 1 = n /\ n + 1 \in 1..(n + 1)
        /\ \A i \in 1..n : i \in 1..(n + 1)
    BY <1>0
  <2>2. \A h \in DOMAIN B(n) : From(n, h)
    BY <1>7, <2>1
  <2>3. CASE ~IsBlock(l[n + 1])
    <3>1. B(n + 1) = B(n)
      BY <1>2, <2>1, <2>3 DEF Collected
    <3>2. From(n, j)
      BY <2>2, <3>1
    <3> QED  BY <2>1, <3>1, <3>2
  <2>4. CASE IsBlock(l[n + 1])
    <3>1. B(n) \in Seq(BlockId) /\ B(n + 1) = Append(B(n), l[n + 1].block)
      BY <1>1, <1>2, <2>1, <2>4 DEF Collected
    <3>2. l[n + 1].block \in BlockId
      BY <1>3, <2>1, <2>4
    <3>3. (j \in DOMAIN B(n) /\ B(n + 1)[j] = B(n)[j]) \/ j = Len(B(n)) + 1
      BY <3>1, <3>2
    <3>4. ASSUME j \in DOMAIN B(n), B(n + 1)[j] = B(n)[j] PROVE From(n + 1, j)
      BY <2>1, <2>2, <3>4
    <3>5. ASSUME j = Len(B(n)) + 1 PROVE From(n + 1, j)
      <4>1. Len(B(n + 1)) = j /\ B(n + 1)[j] = l[n + 1].block
        BY <1>5, <2>1, <2>4, <3>5
      <4> QED  BY <2>1, <2>4, <4>1
    <3> QED  BY <3>3, <3>4, <3>5
  <2> QED  BY <2>3, <2>4
<1> HIDE DEF S
<1>8. Nat \subseteq S
  BY <1>6, <1>7, SetInd
<1>9. c \in Nat /\ c <= Len(l) /\ k \in DOMAIN B(c)
  BY <1>0 DEF B
<1>10. From(c, k)
  BY <1>8, <1>9 DEF S
<1> QED  BY <1>10 DEF B

-----------------------------------------------------------------------------
(* Positions in the sequence of blocks *)

Position(seq, b) ==
  LET At == {k \in DOMAIN seq : seq[k] = b}
  IN  IF b = Genesis THEN 0 ELSE IF At = {} THEN -1 ELSE Max(At)

\* A block that is at index i of a log has as many blocks up to it as BlocksUpTo
\* finds there.
LEMMA PositionAt ==
  ASSUME NEW l \in Seq(Entry), OnceIn(l), NEW c \in 0..Len(l), NEW i \in 0..c, NEW b,
         BlockAt(l, i, b)
  PROVE  /\ Position(BlocksUpTo(l, c), b) = Len(BlocksUpTo(l, i))
         /\ Len(BlocksUpTo(l, i)) \in 0..Len(BlocksUpTo(l, c))
<1> DEFINE s == BlocksUpTo(l, c)
           p == Len(BlocksUpTo(l, i))
           At == {k \in DOMAIN s : s[k] = b}
<1>0. Len(l) \in Nat /\ i \in Nat /\ c \in Nat /\ i <= c /\ c <= Len(l) /\ i \in 0..Len(l)
  OBVIOUS
<1>1. s \in Seq(BlockId) /\ BlocksUpTo(l, i) \in Seq(BlockId)
  BY <1>0, UpTo
<1>2. Begins(BlocksUpTo(l, i), s)
  BY <1>0, UpToGrows
<1>3. p \in Nat /\ Len(s) \in Nat /\ p <= Len(s)
  BY <1>1, <1>2 DEF Begins
<1>4. CASE i = 0
  <2>1. b = Genesis /\ BlocksUpTo(l, 0) = << >>
    BY <1>4, UpTo DEF BlockAt
  <2>2. p = 0
    BY <1>4, <2>1
  <2> QED  BY <1>3, <2>1, <2>2 DEF Position
<1>5. CASE i # 0
  <2>1. IsBlock(l[i]) /\ l[i].block = b /\ i \in 1..Len(l)
    BY <1>0, <1>5 DEF BlockAt
  <2>2. b # Genesis
    BY <2>1, BlockOfEntry
  <2>3. Len(BlocksUpTo(l, i - 1)) \in Nat
    <3>1. BlocksUpTo(l, i - 1) \in Seq(BlockId)
      BY <1>0, <1>5, UpTo
    <3> QED  BY <3>1
  <2>4. p >= 1 /\ BlocksUpTo(l, i)[p] = b
    BY <2>1, <2>3, UpToBlock
  <2>5. p \in At
    BY <1>1, <1>2, <1>3, <2>4 DEF Begins
  <2>6. ASSUME NEW k \in At PROVE k = p
    <3>1. PICK j \in 1..c : /\ IsBlock(l[j]) /\ l[j].block = s[k]
                            /\ Len(BlocksUpTo(l, j)) = k
      BY UpToFrom
    <3>2. j = i
      BY <1>0, <2>1, <3>1 DEF OnceIn
    <3> QED  BY <3>1, <3>2
  <2>7. At = {p}
    BY <2>5, <2>6
  <2>8. Max({p}) = p
    BY <1>3 DEF Max
  <2>9. Position(s, b) = p
    <3> HIDE DEF p
    <3> QED  BY <2>2, <2>7, <2>8 DEF Position
  <2> QED  BY <1>3, <2>9
<1> QED  BY <1>4, <1>5

\* The last block up to index a, and the next one
LEMMA PositionNear ==
  ASSUME NEW l \in Seq(Entry), OnceIn(l), NEW a \in Nat, NEW d \in Nat, NEW c \in Nat,
         a <= d, d <= c, c <= Len(l), NEW b
  PROVE  LET p == Len(BlocksUpTo(l, a))
             s == BlocksUpTo(l, c)
         IN  /\ p \in Nat
             /\ LastIn(l, a, b) => Position(s, b) = p
             /\ NextIn(l, a, d, b) => Position(s, b) = p + 1 /\ p + 1 <= Len(s)
<1> DEFINE B(x) == BlocksUpTo(l, x)
           s == BlocksUpTo(l, c)
<1>0. Len(l) \in Nat /\ c \in 0..Len(l) /\ a \in 0..Len(l)
  OBVIOUS
<1>1. B(a) \in Seq(BlockId)
  BY <1>0, UpTo
<1>2. ASSUME LastIn(l, a, b) PROVE Position(s, b) = Len(B(a))
  <2>1. PICK i \in 0..a : BlockAt(l, i, b) /\ BlocksBetween(l, i, a) = {}
    BY <1>2 DEF LastIn
  <2>2. B(a) = B(i)
    BY <1>0, <2>1, UpToNone
  <2>3. i \in 0..c
    BY <2>1
  <2> QED  BY <1>0, <2>1, <2>2, <2>3, PositionAt
<1>3. ASSUME NextIn(l, a, d, b) PROVE Position(s, b) = Len(B(a)) + 1 /\ Len(B(a)) + 1 <= Len(s)
  <2>1. PICK i \in (a + 1)..d : BlockAt(l, i, b) /\ BlocksBetween(l, a, i) = {i}
    BY <1>3 DEF NextIn
  <2>2. i \in 1..Len(l) /\ i \in 0..c /\ i - 1 \in Nat /\ a <= i - 1 /\ i - 1 <= Len(l) /\ i # 0
    BY <1>0
  <2>3. IsBlock(l[i])
    BY <2>1, <2>2 DEF BlockAt
  <2>4. BlocksBetween(l, a, i - 1) = {}
    <3>1. ASSUME NEW x \in BlocksBetween(l, a, i - 1) PROVE FALSE
      <4>1. x \in BlocksBetween(l, a, i) /\ x # i
        BY <2>2, <3>1 DEF BlocksBetween
      <4> QED  BY <2>1, <4>1
    <3> QED  BY <3>1
  <2>5. B(i - 1) = B(a)
    BY <2>2, <2>4, UpToNone
  <2>6. Len(B(i)) = Len(B(a)) + 1
    BY <2>2, <2>3, <2>5, UpToBlock
  <2>7. Position(s, b) = Len(B(i)) /\ Len(B(i)) \in 0..Len(s)
    BY <1>0, <2>1, <2>2, PositionAt
  <2>8. Len(s) \in Nat
    <3>1. s \in Seq(BlockId)
      BY <1>0, UpTo
    <3> QED  BY <3>1
  <2> QED  BY <2>6, <2>7, <2>8
<1> QED  BY <1>1, <1>2, <1>3

-----------------------------------------------------------------------------
(* The highest commit index *)

\* A function from a finite set to the natural numbers is bounded, and has a
\* highest value.
LEMMA HighestValue ==
  ASSUME NEW S, IsFiniteSet(S), S # {}, NEW f \in [S -> Nat]
  PROVE  \E x \in S : \A y \in S : f[y] <= f[x]
<1>1. PICK n \in Nat : ExistsSurjection(1..n, S)
  BY FS_NatSurjection
<1>2. PICK g \in [1..n -> S] : \A x \in S : \E i \in 1..n : g[i] = x
  BY <1>1 DEF ExistsSurjection, Surjection
<1> DEFINE T == {k \in Nat : k <= n => \E u \in Nat : \A i \in 1..k : f[g[i]] <= u}
<1>3. 0 \in T
  <2>1. \A i \in 1..0 : f[g[i]] <= 0
    OBVIOUS
  <2> QED  BY <2>1
<1>4. ASSUME NEW k \in Nat, k \in T PROVE k + 1 \in T
  <2> SUFFICES ASSUME k + 1 <= n PROVE \E u \in Nat : \A i \in 1..(k + 1) : f[g[i]] <= u
    OBVIOUS
  <2>1. PICK u \in Nat : \A i \in 1..k : f[g[i]] <= u
    BY <1>4
  <2> DEFINE w == f[g[k + 1]]
  <2>2. w \in Nat /\ \A i \in 1..k : f[g[i]] \in Nat
    OBVIOUS
  <2>3. \A i \in 1..(k + 1) : i \in 1..k \/ i = k + 1
    OBVIOUS
  <2>4. u + w \in Nat /\ \A i \in 1..(k + 1) : f[g[i]] <= u + w
    <3> HIDE DEF w
    <3>1. u + w \in Nat /\ \A i \in 1..k : f[g[i]] <= u + w
      BY <2>1, <2>2
    <3>2. f[g[k + 1]] <= u + w
      BY <2>2 DEF w
    <3> QED  BY <2>3, <3>1, <3>2
  <2> QED  BY <2>4
<1> HIDE DEF T
<1>5. Nat \subseteq T
  BY <1>3, <1>4, SetInd
<1>6. PICK u \in Nat : \A i \in 1..n : f[g[i]] <= u
  <2>1. n \in T /\ n <= n
    BY <1>5
  <2>2. \E u \in Nat : \A i \in 1..n : f[g[i]] <= u
    BY <2>1 DEF T
  <2> QED  BY <2>2
<1>7. \A x \in S : f[x] \in Nat /\ f[x] <= u
  BY <1>2, <1>6
<1> DEFINE U == {f[x] + 1 : x \in S}
<1>8. U \subseteq 1..(u + 1) /\ U # {} /\ u + 1 \in Nat
  BY <1>7
<1>9. \A x \in S : f[x] + 1 \in U
  OBVIOUS
<1>10. PICK v \in U : \A y \in U : y <= v
  <2> HIDE DEF U
  <2> QED  BY <1>8, Greatest
<1>11. PICK x \in S : v = f[x] + 1
  BY <1>10
<1>12. ASSUME NEW y \in S PROVE f[y] <= f[x]
  <2>1. f[y] + 1 <= f[x] + 1
    <3> HIDE DEF U
    <3> QED  BY <1>9, <1>10, <1>11
  <2> QED  BY <1>7, <2>1
<1> QED  BY <1>12

Highest(t) == \A m \in Node : disk[m].commit <= disk[t].commit

\* The decided sequence is the blocks of the storage with the highest commit index.
LEMMA DecidedIs ==
  ASSUME IndInv
  PROVE  \E t \in Node : Highest(t) /\ Decided = BlocksUpTo(disk[t].log, disk[t].commit)
<1>1. IsFiniteSet(Node) /\ Node # {}
  BY NodeAssumption, PeersAssumption
<1> DEFINE f == [m \in Node |-> disk[m].commit]
<1>2. f \in [Node -> Nat]
  BY StorageIndices
<1>3. PICK x \in Node : \A y \in Node : f[y] <= f[x]
  <2> HIDE DEF f
  <2> QED  BY <1>1, <1>2, HighestValue
<1>4. \A y \in Node : disk[y].commit <= disk[x].commit
  BY <1>3
<1> DEFINE t == CHOOSE z \in Node : \A y \in Node : disk[y].commit <= disk[z].commit
<1>5. t \in Node /\ \A y \in Node : disk[y].commit <= disk[t].commit
  BY <1>4
<1>6. Decided = BlocksUpTo(disk[t].log, disk[t].commit)
  BY DEF Decided
<1> HIDE DEF t
<1> QED  BY <1>5, <1>6 DEF Highest

\* The refinement mapping's positions, as a function of the heads.
LEMMA PositionsAre == Positions = [n \in Node |-> Position(Decided, validator[n].head)]
  BY DEF Positions, Position

\* The storages agree on what is committed in both.
LEMMA StoragesAgree ==
  ASSUME IndInv, RaftInv, NEW n \in Node, NEW t \in Node,
         NEW i \in 1..disk[n].commit, i <= disk[t].commit
  PROVE  disk[n].log[i] = disk[t].log[i]
<1>1. SavedOK(n) /\ SavedOK(t)
  BY DEF RaftInv
<1>2. /\ disk[n].commit \in Nat /\ disk[t].commit \in Nat
      /\ raft[n].commit \in Nat /\ raft[t].commit \in Nat
  BY Indices
<1>3. /\ i \in 1..disk[t].commit /\ i \in 1..raft[n].commit /\ i <= raft[t].commit
      /\ raft[n].log[i] = disk[n].log[i] /\ raft[t].log[i] = disk[t].log[i]
  BY <1>1, <1>2 DEF SavedOK
<1>4. raft[n].log[i] = raft[t].log[i]
  BY <1>3, AgreeHolds DEF CommittedEntriesAgree
<1> QED  BY <1>3, <1>4

\* The storage of n and the decided blocks: the blocks near the applied entry.
LEMMA DecidedNear ==
  ASSUME IndInv, RaftInv, ChainInv, NEW n \in Node, NEW b
  PROVE  LET p == Len(BlocksUpTo(disk[n].log, disk[n].applied))
         IN  /\ p \in Nat
             /\ LastBlock(n, b) => Position(Decided, b) = p
             /\ NextBlock(n, b) => Position(Decided, b) = p + 1 /\ p + 1 <= Len(Decided)
<1>1. PICK t \in Node : Highest(t) /\ Decided = BlocksUpTo(disk[t].log, disk[t].commit)
  BY DecidedIs
<1> DEFINE k == disk[n].log
           l == disk[t].log
           a == disk[n].applied
           d == disk[n].commit
           c == disk[t].commit
<1>2. /\ k \in Seq(Entry) /\ l \in Seq(Entry) /\ a \in Nat /\ d \in Nat /\ c \in Nat
      /\ a <= d /\ d <= Len(k) /\ c <= Len(l) /\ Len(k) \in Nat /\ Len(l) \in Nat
  BY StorageIndices
<1>3. d <= c /\ \A i \in 1..d : l[i] = k[i]
  <2>1. d <= c
    BY <1>1 DEF Highest
  <2> QED  BY <1>2, <2>1, StoragesAgree
<1>4. OnceIn(l)
  BY LogsAre, OnceInLogs
<1> HIDE DEF k, l, a, d, c
<1>5. a <= Len(k) /\ a <= Len(l) /\ \A i \in 1..a : k[i] = l[i]
  BY <1>2, <1>3
<1>6. BlocksUpTo(k, a) = BlocksUpTo(l, a)
  BY <1>2, <1>5, SameUpTo
<1>7. /\ LastIn(k, a, b) => LastIn(l, a, b)
      /\ NextIn(k, a, d, b) => NextIn(l, a, d, b)
  BY <1>2, <1>3, PrefixKeeps
<1>8. LET p == Len(BlocksUpTo(l, a))
          s == BlocksUpTo(l, c)
      IN  /\ p \in Nat
          /\ LastIn(l, a, b) => Position(s, b) = p
          /\ NextIn(l, a, d, b) => Position(s, b) = p + 1 /\ p + 1 <= Len(s)
  BY <1>2, <1>3, <1>4, PositionNear
<1> QED  BY <1>1, <1>6, <1>7, <1>8 DEF LastBlock, NextBlock, k, l, a, d, c

-----------------------------------------------------------------------------
(* The engines implement OrderedCommit *)

\* What the steps rely on, before and after them: the storages are prefixes of the
\* one with the highest commit index, as far as they are committed.
OrderInv ==
  /\ \A n \in Node : /\ disk[n].log \in Seq(Entry) /\ OnceIn(disk[n].log)
                     /\ disk[n].commit \in Nat /\ disk[n].commit <= Len(disk[n].log)
  /\ \A n, t \in Node : \A i \in 1..disk[n].commit :
       i <= disk[t].commit => disk[n].log[i] = disk[t].log[i]
  /\ \E t \in Node : Highest(t) /\ Decided = BlocksUpTo(disk[t].log, disk[t].commit)

\* The invariants say all that the refinement needs.
LEMMA OrderHolds ==
  ASSUME IndInv, RaftInv, ChainInv
  PROVE  OrderInv
<1>1. ASSUME NEW n \in Node
      PROVE  /\ disk[n].log \in Seq(Entry) /\ OnceIn(disk[n].log)
             /\ disk[n].commit \in Nat /\ disk[n].commit <= Len(disk[n].log)
  <2>1. OnceIn(disk[n].log)
    BY LogsAre, OnceInLogs
  <2> QED  BY <2>1, StorageIndices
<1> QED  BY <1>1, StoragesAgree, DecidedIs DEF OrderInv

\* No other step than the validators' own changes a head.  The decided sequence
\* may grow at its end: what any storage has as committed stays.
LEMMA DecideStep ==
  ASSUME IndInv, ChainInv, OrderInv, OrderInv', \A m \in Node : Stays(m)
  PROVE  Ordered!Decide \/ UNCHANGED <<Decided, Positions>>
<1>1. PICK t \in Node : Highest(t) /\ Decided = BlocksUpTo(disk[t].log, disk[t].commit)
  BY DEF OrderInv
<1>2. PICK u \in Node :
        /\ \A m \in Node : disk'[m].commit <= disk'[u].commit
        /\ Decided' = BlocksUpTo(disk'[u].log, disk'[u].commit)
  BY DEF OrderInv, Highest
<1> DEFINE k == disk[t].log
           c == disk[t].commit
           l == disk'[u].log
           d == disk'[u].commit
           s == BlocksUpTo(k, c)
           z == BlocksUpTo(l, d)
<1>3. /\ k \in Seq(Entry) /\ OnceIn(k) /\ c \in Nat /\ c <= Len(k)
      /\ l \in Seq(Entry) /\ OnceIn(l) /\ d \in Nat /\ d <= Len(l)
      /\ Len(k) \in Nat /\ Len(l) \in Nat
  BY DEF OrderInv
<1>4. ASSUME NEW m \in Node
      PROVE  /\ disk[m].commit \in Nat /\ disk[m].commit <= c /\ disk[m].commit <= d
             /\ \A i \in 1..disk[m].commit : disk[m].log[i] = k[i] /\ disk[m].log[i] = l[i]
             /\ validator'[m].head = validator[m].head
  <2>1. ChainMoves(m)
    BY DEF ChainMoves
  <2>2. /\ disk[m].commit <= disk'[m].commit
        /\ \A i \in 1..disk[m].commit : disk'[m].log[i] = disk[m].log[i]
    BY <2>1, CommittedStays
  <2>3. /\ disk[m].commit \in Nat /\ disk'[m].commit \in Nat
        /\ disk[m].commit <= c /\ disk'[m].commit <= d
    BY <1>1, <1>2 DEF OrderInv, Highest
  <2>4. ASSUME NEW i \in 1..disk[m].commit
        PROVE  disk[m].log[i] = k[i] /\ disk[m].log[i] = l[i]
    <3>1. i <= c /\ i \in 1..disk'[m].commit /\ i <= d
      BY <1>3, <2>2, <2>3
    <3>2. disk[m].log[i] = k[i]
      BY <3>1 DEF OrderInv
    <3>3. disk'[m].log[i] = l[i]
      BY <3>1 DEF OrderInv
    <3> QED  BY <2>2, <3>2, <3>3
  <2>5. validator'[m].head = validator[m].head
    BY DEF Stays, KeepsChain, AsksCommit
  <2> QED  BY <1>3, <2>2, <2>3, <2>4, <2>5
<1>5. c <= d /\ \A i \in 1..c : k[i] = l[i]
  BY <1>4
<1> HIDE DEF k, c, l, d
<1>6. s = BlocksUpTo(l, c)
  BY <1>3, <1>5, SameUpTo
<1>7. Begins(s, z)
  BY <1>3, <1>5, <1>6, UpToGrows
<1>8. s \in Seq(BlockId) /\ z \in Seq(BlockId)
  BY <1>3, UpTo
<1>9. ASSUME NEW m \in Node
      PROVE  Position(z, validator'[m].head) = Position(s, validator[m].head)
  <2> DEFINE h == validator[m].head
  <2>1. PICK i \in 0..disk[m].commit : BlockAt(disk[m].log, i, h)
    BY HeadInLog DEF ChainInv, InLog
  <2>2. i \in 0..c /\ i \in 0..d /\ c \in 0..Len(k) /\ d \in 0..Len(l)
    BY <1>3, <1>4, <2>1
  <2>3. BlockAt(k, i, h) /\ BlockAt(l, i, h)
    <3> DEFINE g == disk[m].log
               f == disk[m].commit
    <3>1. /\ f \in Nat /\ i \in 0..f /\ BlockAt(g, i, h)
          /\ \A j \in 1..f : g[j] = k[j]
          /\ \A j \in 1..f : g[j] = l[j]
      BY <1>4, <2>1
    <3> HIDE DEF g, f
    <3>2. BlockAt(k, i, h)
      BY <3>1, SameBlockAt
    <3>3. BlockAt(l, i, h)
      BY <3>1, SameBlockAt
    <3> QED  BY <3>2, <3>3
  <2>4. Position(s, h) = Len(BlocksUpTo(k, i)) /\ Position(z, h) = Len(BlocksUpTo(l, i))
    BY <1>3, <2>2, <2>3, PositionAt
  <2>5. BlocksUpTo(k, i) = BlocksUpTo(l, i)
    <3>1. i \in Nat /\ i <= Len(k) /\ i <= Len(l) /\ \A j \in 1..i : k[j] = l[j]
      BY <1>3, <1>5, <2>2
    <3> QED  BY <1>3, <3>1, SameUpTo
  <2> QED  BY <1>4, <2>4, <2>5
<1>10. Decided = s /\ Decided' = z
  BY <1>1, <1>2 DEF k, c, l, d
<1> HIDE DEF s, z
<1>11. Positions' = Positions
  <2>1. Positions' = [m \in Node |-> Position(Decided', validator'[m].head)]
    BY DEF Positions, Position
  <2> QED  BY <1>9, <1>10, <2>1, PositionsAre
<1>12. CASE Len(z) > Len(s)
  <2>1. SubSeq(z, 1, Len(s)) = s
    BY <1>7, <1>8, <1>12 DEF Begins
  <2> QED  BY <1>10, <1>11, <1>12, <2>1 DEF Ordered!Decide
<1>13. CASE ~(Len(z) > Len(s))
  <2>1. Len(z) = Len(s)
    BY <1>7, <1>8, <1>13 DEF Begins
  <2>2. z = s
    BY <1>7, <1>8, <2>1 DEF Begins
  <2> QED  BY <1>10, <1>11, <2>2
<1> QED  BY <1>12, <1>13

\* The validator's own step takes it to the block after its head in the decided
\* sequence, or repeats what an engine that has been restarted asked for again.
LEMMA CommitStep ==
  ASSUME IndInv, RaftInv, ChainInv, NEW n \in Node, Performs(n), disk' = disk,
         \A m \in Node \ {n} : Stays(m)
  PROVE  Ordered!Commit(n) \/ UNCHANGED <<Decided, Positions>>
<1> DEFINE h == validator[n].head
           f == Requested(n)[1]
           p == Len(BlocksUpTo(disk[n].log, disk[n].applied))
<1>1. Decided' = Decided
  BY DEF Decided
<1>2. Positions = [m \in Node |-> Position(Decided, validator[m].head)]
  BY PositionsAre
<1>3. Positions' = [m \in Node |-> Position(Decided, validator'[m].head)]
  BY <1>1 DEF Positions, Position
<1>4. /\ validator'[n].head = f
      /\ \A m \in Node \ {n} : validator'[m].head = validator[m].head
  BY DEF Performs, Stays, KeepsChain, AsksCommit
<1>5. 1 \in DOMAIN Requested(n)
  BY DEF Performs, Requested, IndInv, TypeOK, ValidatorState
<1>6. /\ LastBlock(n, h) \/ NextBlock(n, h)
      /\ LastBlock(n, f) \/ NextBlock(n, f)
      /\ NextBlock(n, h) => NextBlock(n, f)
  BY <1>5 DEF ChainInv, ChainOK, Near
<1>7. /\ p \in Nat
      /\ LastBlock(n, h) => Position(Decided, h) = p
      /\ NextBlock(n, h) => Position(Decided, h) = p + 1
      /\ LastBlock(n, f) => Position(Decided, f) = p
      /\ NextBlock(n, f) => Position(Decided, f) = p + 1 /\ p + 1 <= Len(Decided)
  BY DecidedNear
<1>8. Decided \in Seq(BlockId)
  <2>1. PICK t \in Node : Decided = BlocksUpTo(disk[t].log, disk[t].commit)
    BY DecidedIs
  <2>2. disk[t].log \in Seq(Entry) /\ disk[t].commit \in 0..Len(disk[t].log)
    BY StorageIndices
  <2> QED  BY <2>1, <2>2, UpTo
<1> HIDE DEF h, f, p
<1>9. \/ Position(Decided, f) = Position(Decided, h)
      \/ /\ Position(Decided, f) = Position(Decided, h) + 1
         /\ Position(Decided, h) < Len(Decided)
  BY <1>6, <1>7, <1>8
<1>10. CASE Position(Decided, f) = Position(Decided, h)
  <2>1. Positions' = Positions
    BY <1>2, <1>3, <1>4, <1>10 DEF h
  <2> QED  BY <1>1, <2>1
<1>11. CASE /\ Position(Decided, f) = Position(Decided, h) + 1
            /\ Position(Decided, h) < Len(Decided)
  <2>1. Positions[n] = Position(Decided, h)
    BY <1>2 DEF h
  <2>2. Positions' = [Positions EXCEPT ![n] = @ + 1]
    BY <1>2, <1>3, <1>4, <1>11, <2>1
  <2> QED  BY <1>1, <1>11, <2>1, <2>2 DEF Ordered!Commit
<1> QED  BY <1>9, <1>10, <1>11

\* The first state
LEMMA OrderInit ==
  ASSUME Init
  PROVE  Ordered!Init
<1>1. \A n \in Node : /\ disk[n].log = << >> /\ disk[n].commit = 0
                      /\ validator[n].head = Genesis
  BY DEF Init, NewDisk, NewValidator
<1>2. IndInv
  BY InitInv
<1>3. PICK t \in Node : Decided = BlocksUpTo(disk[t].log, disk[t].commit)
  BY <1>2, DecidedIs
<1>4. << >> \in Seq(Entry) /\ disk[t].log = << >> /\ disk[t].commit = 0
  BY <1>1
<1>5. Decided = << >>
  BY <1>3, <1>4, UpTo
<1>6. Positions = [n \in Node |-> 0]
  BY <1>1, PositionsAre DEF Position
<1> QED  BY <1>5, <1>6 DEF Ordered!Init

\* The engines implement OrderedCommit, for any number of peers that the settings
\* do not change, over any elections, stops and restarts, unless a crash tears an
\* append that overwrites entries: process_ready, get_next_committable and
\* on_block_commit make every validator commit the blocks of one sequence in its
\* order, none left out and none twice.
THEOREM CommitsOrdered ==
  ASSUME ManyPeers
  PROVE  Spec /\ WholeOverwrites => CommitsInOrder
<1> DEFINE Inv == IndInv /\ RaftInv /\ LogInv /\ ChainInv /\ OrderInv
<1>1. Init => Ordered!Init
  BY OrderInit
<1>2. Inv /\ Inv' /\ [Next]_vars => [Ordered!Next]_<<Decided, Positions>>
  <2> SUFFICES ASSUME Inv, Inv', [Next]_vars
               PROVE  Ordered!Next \/ UNCHANGED <<Decided, Positions>>
    OBVIOUS
  <2>1. ChainsMove
    BY NextChains
  <2>2. CASE \A m \in Node : Stays(m)
    BY <2>2, DecideStep DEF Ordered!Next
  <2>3. ASSUME NEW n \in Node, Performs(n), disk' = disk, \A m \in Node \ {n} : Stays(m)
        PROVE  Ordered!Next \/ UNCHANGED <<Decided, Positions>>
    BY <2>3, CommitStep DEF Ordered!Next
  <2> QED  BY <2>1, <2>2, <2>3 DEF ChainsMove
<1>3. Spec /\ WholeOverwrites => []Inv
  <2>1. IndInv /\ RaftInv /\ ChainInv => OrderInv
    BY OrderHolds
  <2> QED  BY <2>1, RaftInvariance, ChainInvariance, PTL
<1> HIDE DEF Inv
<1> QED  BY <1>1, <1>2, <1>3, PTL DEF Spec, CommitsInOrder, Ordered!Spec

-----------------------------------------------------------------------------
(* What a leader does *)

\* The blocks of the log that the validator has not reported as committed, and
\* the membership changes that are not applied.
Outstanding(n) == BlocksBetween(raft[n].log, disk[n].applied, Len(raft[n].log))

CaughtUp(n) == Outstanding(n) = {}

Pending(n) == {i \in (raft[n].delivered + 1)..Len(raft[n].log) : IsConf(raft[n].log[i])}

IsLeader(n) == Up(n) /\ raft[n].role = "Leader"

\* An engine with a leader's state goes on: its block under construction stays, its
\* log too if it is still the leader, and its peers unless a change is delivered.
Goes(n) ==
  /\ Up(n)
  /\ \/ leader_state'[n] = leader_state[n]
     \/ \E b \in BlockId :
          \/ leader_state[n] = Publishing(b) /\ leader_state'[n] = Validating(b)
          \/ leader_state[n] = Proposing(b) /\ leader_state'[n] = Committing(b)
  /\ disk'[n].applied = disk[n].applied
  /\ validator'[n].building = validator[n].building
  /\ IsLeader(n)' => /\ IsLeader(n) /\ raft'[n].log = raft[n].log
                     /\ raft[n].delivered <= raft'[n].delivered
  /\ \/ raft_id_to_peer_id'[n] = raft_id_to_peer_id[n]
     \/ /\ IsLeader(n) /\ leader_state[n] # ChangingConfig
        /\ raft[n].delivered + 1 \in Pending(n)

TakesLead(n) == ProcessReady(n) /\ SteppedUp(n)

LeadMoves(n) ==
  \/ Goes(n)
  \/ Tick(n) /\ Publish(n)
  \/ \E b \in BlockId : OnBlockValid(n, b) /\ Awaits(n, b)
  \/ \E b \in BlockId : LeaderOnBlockCommit(n, b)
  \/ DeliverConfChange(n) /\ leader_state[n] = ChangingConfig
  \/ TakesLead(n)

\* A step of another engine or validator.
LEMMA OtherLeads ==
  ASSUME TypeOK, NEW m \in Node, NEW n \in Node \ {m},
         \/ HandleUpdate(m) \/ Tick(m) \/ Quiet(m) \/ Ready(m) \/ Stop(m)
         \/ CrashInReady(m) \/ Restart(m) \/ \E b \in BlockId : ValidatorCommit(m, b)
  PROVE  /\ leader_state'[n] = leader_state[n]
         /\ validator'[n].building = validator[n].building
         /\ raft_id_to_peer_id'[n] = raft_id_to_peer_id[n]
<1> USE DEF TypeOK
<1>0. raft_id_to_peer_id'[n] = raft_id_to_peer_id[n]
  <2>1. CASE HandleUpdate(m) \/ Tick(m) \/ Quiet(m)
    BY <2>1 DEF HandleUpdate, OnBlockNew, OnBlockValid, OnBlockInvalid, OnBlockCommit,
                LeaderOnBlockCommit, FollowerOnBlockCommit, IgnoreBlockCommit,
                OnPeerMessage, StepMessage, Tick, Quiet, vars
  <2>2. CASE Ready(m)
    BY <2>2 DEF Ready, NothingReady, ProcessReady, DeliverEmpty, DeliverBlock,
                DeliverConfChange, DeliverOwnRemoval, FinishReady
  <2>3. CASE Stop(m) \/ CrashInReady(m) \/ Restart(m)
    BY <2>3 DEF Stop, CrashInReady, Restart, Lost
  <2>4. ASSUME NEW b \in BlockId, ValidatorCommit(m, b)
        PROVE  raft_id_to_peer_id' = raft_id_to_peer_id
    BY <2>4 DEF ValidatorCommit
  <2> QED  BY <2>1, <2>2, <2>3, <2>4
<1>1. ASSUME HandleUpdate(m)
      PROVE  leader_state'[n] = leader_state[n] /\ validator'[n] = validator[n]
  <2>1. ASSUME NEW b \in BlockId,
               OnBlockNew(m, b) \/ OnBlockValid(m, b) \/ OnBlockInvalid(m, b)
        PROVE  leader_state'[n] = leader_state[n] /\ validator'[n] = validator[n]
    BY <2>1 DEF OnBlockNew, OnBlockValid, OnBlockInvalid
  <2>2. ASSUME NEW b \in BlockId, OnBlockCommit(m, b)
        PROVE  leader_state'[n] = leader_state[n] /\ validator'[n] = validator[n]
    BY <2>2 DEF OnBlockCommit, LeaderOnBlockCommit, FollowerOnBlockCommit, IgnoreBlockCommit
  <2>3. ASSUME NEW k \in Node, StepMessage(m, k)
        PROVE  leader_state'[n] = leader_state[n] /\ validator'[n] = validator[n]
    BY <2>3 DEF StepMessage
  <2> QED  BY <1>1, <2>1, <2>2, <2>3 DEF HandleUpdate, OnPeerMessage
<1>2. CASE Tick(m)
  <2>1. CASE UNCHANGED <<tree, validator, leader_state>>
    BY <1>0, <2>1
  <2>2. CASE Publish(m)
    <3>1. leader_state'[n] = leader_state[n]
      BY <2>2 DEF Publish
    <3>2. PICK b, ok, running : validator' = FinalizedAt(m, b, ok, running)
      BY <2>2 DEF Publish
    <3> DEFINE I == IF n \in running THEN validator[n].inbox \cup {New(b), Verdict(b, ok)}
                                     ELSE validator[n].inbox
    <3>3. validator'[n] = [validator[n] EXCEPT !.building = validator[n].building,
                                               !.inbox = I]
      BY <3>2 DEF FinalizedAt
    <3> HIDE DEF I
    <3>4. validator[n] \in ValidatorState
      OBVIOUS
    <3>5. validator'[n].building = validator[n].building
      BY <3>3, <3>4 DEF ValidatorState
    <3> QED  BY <1>0, <3>1, <3>5
  <2> QED  BY <1>2, <2>1, <2>2 DEF Tick, CheckPublish
<1>3. CASE Quiet(m)
  BY <1>3 DEF Quiet, vars
<1>4. ASSUME Ready(m)
      PROVE  leader_state'[n] = leader_state[n] /\ validator'[n] = validator[n]
  <2>1. CASE NothingReady(m) \/ DeliverEmpty(m) \/ DeliverBlock(m) \/ DeliverOwnRemoval(m)
    BY <2>1 DEF NothingReady, DeliverEmpty, DeliverBlock, DeliverOwnRemoval
  <2>2. CASE ProcessReady(m)
    <3>1. TakeRole(m)
      BY <2>2 DEF ProcessReady
    <3> QED  BY <3>1 DEF TakeRole, StepUpCommitting, StepUpBuilding, StepDown, KeepRole
  <2>3. CASE DeliverConfChange(m)
    BY <2>3 DEF DeliverConfChange
  <2>4. CASE FinishReady(m)
    BY <2>4 DEF FinishReady
  <2> QED  BY <1>4, <2>1, <2>2, <2>3, <2>4 DEF Ready
<1>5. CASE Stop(m) \/ CrashInReady(m)
  <2>1. PICK d, s : Lost(m, d, s)
    BY <1>5 DEF Stop, CrashInReady
  <2> QED  BY <2>1 DEF Lost
<1>6. CASE Restart(m)
  BY <1>6 DEF Restart
<1>7. ASSUME NEW b \in BlockId, ValidatorCommit(m, b)
      PROVE  leader_state'[n] = leader_state[n] /\ validator'[n] = validator[n]
  BY <1>7 DEF ValidatorCommit
<1> QED  BY <1>0, <1>1, <1>2, <1>3, <1>4, <1>5, <1>6, <1>7

\* What is delivered is in the log.
LEMMA LibraryIndices ==
  ASSUME IndInv, NEW n \in Node, Up(n)
  PROVE  /\ raft[n].delivered \in Nat /\ raft[n].ready \in Nat
         /\ disk[n].applied \in Nat /\ Len(raft[n].log) \in Nat
         /\ raft[n].delivered <= raft[n].ready /\ raft[n].ready <= Len(raft[n].log)
<1>1. /\ raft[n].delivered \in Nat /\ raft[n].ready \in Nat /\ disk[n].commit \in Nat
      /\ raft[n].commit \in Nat /\ disk[n].applied \in Nat /\ raft[n].log \in Seq(Entry)
  BY Indices
<1>2. IndexOK(n)
  BY DEF IndInv, NodeOK
<1>3. /\ raft[n].delivered <= raft[n].ready /\ raft[n].ready <= disk[n].commit
      /\ disk[n].commit <= raft[n].commit /\ raft[n].commit <= Len(raft[n].log)
  BY <1>2 DEF IndexOK
<1>4. Len(raft[n].log) \in Nat
  BY <1>1
<1> QED  BY <1>1, <1>3, <1>4

\* A step in which the library, the applied index and the block under construction
\* stay.
LEMMA GoesOn ==
  ASSUME IndInv, NEW n \in Node, Up(n), Keeps(n),
         disk'[n].applied = disk[n].applied,
         validator'[n].building = validator[n].building,
         raft_id_to_peer_id'[n] = raft_id_to_peer_id[n],
         \/ leader_state'[n] = leader_state[n]
         \/ \E b \in BlockId :
              \/ leader_state[n] = Publishing(b) /\ leader_state'[n] = Validating(b)
              \/ leader_state[n] = Proposing(b) /\ leader_state'[n] = Committing(b)
  PROVE  Goes(n)
<1>1. raft[n].delivered \in Nat
  BY Indices
<1> QED  BY <1>1 DEF Goes, IsLeader, Keeps

\* handle_update
LEMMA HandleUpdateLead ==
  ASSUME IndInv, NEW n \in Node, HandleUpdate(n), Up(n)', leader_state'[n] # None
  PROVE  LeadMoves(n)
<1>1. /\ TypeOK /\ validator[n] \in ValidatorState /\ raft[n] \in Raft
      /\ Up(n) => RolesOK(n)
  BY DEF IndInv, TypeOK, NodeOK
<1>2. ASSUME NEW b \in BlockId, OnBlockNew(n, b) PROVE Goes(n)
  <2> DEFINE v == Receive(validator[n], New(b))
             w == CheckBlocks(v, b)
  <2>1. v \in ValidatorState /\ v.building = validator[n].building
    BY <1>1, ReceiveFields, CallFields
  <2> HIDE DEF v
  <2>2. w.building = v.building
    BY <2>1, CallFields
  <2>3. validator' = [validator EXCEPT ![n] = w]
    BY <1>2 DEF OnBlockNew, v
  <2> HIDE DEF w
  <2>4. /\ validator'[n].building = validator[n].building
        /\ leader_state'[n] =
             IF leader_state[n] = Publishing(b) THEN Validating(b) ELSE leader_state[n]
        /\ raft' = raft /\ disk' = disk /\ raft_id_to_peer_id' = raft_id_to_peer_id /\ Up(n)
    BY <1>1, <1>2, <2>1, <2>2, <2>3 DEF OnBlockNew, TypeOK, Up, Running
  <2> QED  BY <2>4, GoesOn DEF Keeps
<1>3. ASSUME NEW u, validator' = [validator EXCEPT ![n] = Receive(@, u)], Up(n), Keeps(n),
             UNCHANGED <<disk, leader_state, raft_id_to_peer_id>>
      PROVE  Goes(n)
  <2> DEFINE w == Receive(validator[n], u)
  <2>1. w.building = validator[n].building
    BY <1>1, CallFields
  <2>2. validator'[n] = w
    BY <1>1, <1>3 DEF TypeOK
  <2> HIDE DEF w
  <2> QED  BY <1>3, <2>1, <2>2, GoesOn
<1>4. ASSUME NEW b \in BlockId, OnBlockValid(n, b) PROVE LeadMoves(n)
  <2>1. CASE Awaits(n, b)
    BY <1>4, <2>1 DEF LeadMoves
  <2>2. CASE ~Awaits(n, b)
    <3>1. /\ validator' = [validator EXCEPT ![n] = Receive(@, Valid(b))]
          /\ UNCHANGED <<disk, leader_state, raft_id_to_peer_id, raft>> /\ Up(n)
      BY <1>4, <2>2 DEF OnBlockValid, Awaits, Up, Running
    <3> QED  BY <1>3, <3>1 DEF LeadMoves, Keeps
  <2> QED  BY <2>1, <2>2
<1>5. ASSUME NEW b \in BlockId, OnBlockInvalid(n, b) \/ IgnoreBlockCommit(n, b)
      PROVE  Goes(n)
  <2>1. /\ \E u : validator' = [validator EXCEPT ![n] = Receive(@, u)]
        /\ UNCHANGED <<disk, leader_state, raft_id_to_peer_id, raft>> /\ Up(n)
    BY <1>5 DEF OnBlockInvalid, IgnoreBlockCommit, Up, Running
  <2> QED  BY <1>3, <2>1 DEF Keeps
<1>6. ASSUME NEW b \in BlockId, FollowerOnBlockCommit(n, b) PROVE FALSE
  <2>1. /\ follower_state[n] = Committing(b) /\ leader_state' = leader_state /\ Up(n)
    BY <1>6 DEF FollowerOnBlockCommit, PopCommitted, Up, Running
  <2> QED  BY <1>1, <2>1 DEF RolesOK, Committing, None
<1>7. ASSUME NEW m \in Node, StepMessage(n, m) PROVE Goes(n)
  <2>1. /\ Works(n) /\ phase[n] = "recv" /\ Up(n)
        /\ UNCHANGED <<disk, validator, leader_state, raft_id_to_peer_id>>
    BY <1>7, StepMessageMoves DEF StepMessage, Up, Running
  <2>2. raft[n].role = "Leader"
    BY <1>1, <2>1 DEF RolesOK
  <2>3. Steps(n)
    <3>1. raft \in [Node -> Raft]
      BY <1>1 DEF TypeOK
    <3> QED
      BY <1>7, <3>1 DEF StepMessage, Steps, HearsCandidate, HearsLeader, Wins, Advances
  <2>4. /\ IsLeader(n)' => raft'[n].log = raft[n].log
        /\ raft'[n].delivered = raft[n].delivered
    <3>1. ASSUME NEW k \in Node, HearsCandidate(n, k)
          PROVE  raft'[n].log = raft[n].log /\ raft'[n].delivered = raft[n].delivered
      <4>1. /\ sent[k] \in Message /\ sent[k].term >= raft[n].term
            /\ raft'[n] = HandleRequestVote(raft[n], sent[k], k)
        BY <1>1, <3>1 DEF TypeOK, HearsCandidate
      <4> QED  BY <1>1, <4>1, HandleRequestVoteFields
    <3>2. ASSUME NEW k \in Node, HearsLeader(n, k)
          PROVE  ~IsLeader(n)' /\ raft'[n].delivered = raft[n].delivered
      <4>1. /\ sent[k] \in Message /\ sent[k].term >= raft[n].term
            /\ raft'[n] = HandleAppend(raft[n], sent[k])
        BY <1>1, <3>2 DEF TypeOK, HearsLeader
      <4>2. raft'[n].role = "Follower" /\ raft'[n].delivered = raft[n].delivered
        BY <1>1, <4>1, HandleAppendFields
      <4> QED  BY <4>2 DEF IsLeader
    <3>3. ~Wins(n)
      BY <2>2 DEF Wins
    <3>4. ASSUME Advances(n)
          PROVE  raft'[n].log = raft[n].log /\ raft'[n].delivered = raft[n].delivered
      <4>1. PICK i : raft'[n] = [raft[n] EXCEPT !.commit = i, !.msgs = "waiting"]
        BY <3>4 DEF Advances
      <4> QED  BY <1>1, <4>1 DEF Raft
    <3> QED  BY <2>3, <3>1, <3>2, <3>3, <3>4 DEF Steps
  <2>5. raft[n].delivered \in Nat
    BY Indices
  <2> QED  BY <2>1, <2>2, <2>4, <2>5 DEF Goes, IsLeader
<1> QED
  BY <1>2, <1>4, <1>5, <1>6, <1>7
     DEF HandleUpdate, OnBlockCommit, OnPeerMessage, LeadMoves

\* tick
LEMMA TickLead ==
  ASSUME IndInv, NEW n \in Node, Tick(n), Up(n)', leader_state'[n] # None
  PROVE  LeadMoves(n)
<1>1. /\ TypeOK /\ raft[n] \in Raft /\ Up(n) /\ disk' = disk /\ RaftTick(n) /\ CheckPublish(n)
      /\ raft_id_to_peer_id' = raft_id_to_peer_id
  BY DEF IndInv, TypeOK, Tick, Up, Running
<1>2. CASE Publish(n)
  BY <1>2 DEF LeadMoves
<1>3. CASE UNCHANGED <<tree, validator, leader_state>>
  <2>1. Keeps(n)
    <3>1. CASE UNCHANGED raft
      BY <3>1 DEF Keeps
    <3>2. CASE raft' = [raft EXCEPT ![n].msgs = "waiting"]
      BY <1>1, <3>2 DEF Keeps, TypeOK, Raft
    <3>3. leader_state[n] # None
      BY <1>3
    <3> QED  BY <1>1, <3>1, <3>2, <3>3 DEF RaftTick
  <2> QED  BY <1>1, <1>3, <2>1, GoesOn DEF LeadMoves
<1> QED  BY <1>1, <1>2, <1>3 DEF CheckPublish

\* process_ready
LEMMA ReadyLead ==
  ASSUME IndInv, NEW n \in Node, Ready(n), Up(n)', leader_state'[n] # None
  PROVE  LeadMoves(n)
<1>1. /\ TypeOK /\ validator[n] \in ValidatorState /\ raft[n] \in Raft
      /\ disk[n] \in Disk /\ leader_state[n] \in LeaderState
      /\ Up(n) => RolesOK(n)
  BY DEF IndInv, TypeOK, NodeOK
<1>2. CASE NothingReady(n)
  <2>1. Up(n) /\ UNCHANGED <<raft, disk, validator, leader_state, raft_id_to_peer_id>>
    BY <1>2 DEF NothingReady, Up, Running
  <2> QED  BY <2>1, GoesOn DEF Keeps, LeadMoves
<1>3. CASE ProcessReady(n)
  <2>1. /\ Saves(n) /\ TakeRole(n) /\ raft_id_to_peer_id' = raft_id_to_peer_id
    BY <1>3, ProcessReadyMoves DEF ProcessReady
  <2>2. CASE SteppedUp(n)
    BY <1>3, <2>2 DEF TakesLead, LeadMoves
  <2>3. ~StepDown(n)
    BY <1>1 DEF StepDown, TypeOK
  <2>4. CASE KeepRole(n)
    <3>1. leader_state' = leader_state /\ validator' = validator
      BY <2>4 DEF KeepRole
    <3>2. disk'[n].applied = disk[n].applied
      BY <1>1, <2>1, DiskFields DEF Saves
    <3> QED  BY <2>1, <3>1, <3>2, GoesOn DEF Saves, LeadMoves
  <2> QED
    BY <2>1, <2>2, <2>3, <2>4 DEF TakeRole, StepUpCommitting, StepUpBuilding
<1>4. ASSUME Delivering(n)
      PROVE  /\ Up(n) /\ raft[n].delivered + 1 \in 1..Len(raft[n].log)
             /\ raft[n].delivered \in Nat /\ Len(raft[n].log) \in Nat
  <2>1. Up(n) /\ raft[n].delivered < raft[n].ready
    BY <1>4 DEF Delivering, Up, Running
  <2> QED  BY <2>1, LibraryIndices
<1> DEFINE p == Delivered(raft[n])
<1>5. p \in Raft /\ p.log = raft[n].log /\ p.role = raft[n].role
      /\ p.delivered = raft[n].delivered + 1
  BY <1>1, DeliveredFields
<1>6. CASE DeliverEmpty(n) \/ DeliverBlock(n)
  <2>1. /\ Delivering(n) /\ raft'[n] = p
        /\ UNCHANGED <<disk, validator, leader_state, raft_id_to_peer_id>>
    BY <1>1, <1>6 DEF DeliverEmpty, DeliverBlock, TypeOK
  <2> HIDE DEF p
  <2> QED  BY <1>4, <1>5, <2>1 DEF Goes, IsLeader, LeadMoves
<1>7. CASE DeliverConfChange(n) /\ leader_state[n] # ChangingConfig
  <2>1. /\ Delivering(n) /\ raft'[n] = ApplyConfChange(n, p, NextEntry(n))
        /\ UNCHANGED <<disk, validator, leader_state>> /\ IsConf(NextEntry(n))
    BY <1>1, <1>7 DEF DeliverConfChange, TypeOK
  <2> HIDE DEF p
  <2>2. /\ raft'[n].log = raft[n].log /\ raft'[n].delivered = raft[n].delivered + 1
        /\ raft[n].role = raft'[n].role
    BY <1>5, <2>1 DEF ApplyConfChange, CommitAlone, Raft
  <2>3. raft[n].delivered + 1 \in Pending(n)
    BY <1>4, <2>1 DEF Pending, NextEntry
  <2>4. raft[n].role = "Leader"
    BY <1>1, <1>4, <2>1 DEF RolesOK, Delivering
  <2> QED  BY <1>4, <1>7, <2>1, <2>2, <2>3, <2>4 DEF Goes, IsLeader, LeadMoves
<1>8. ~DeliverOwnRemoval(n)
  BY <1>1 DEF DeliverOwnRemoval, Goto, Up, Running, TypeOK
<1>9. CASE FinishReady(n)
  <2> DEFINE b == GetNextCommittable(block_queue[n])
             w == CommitBlock(validator[n], b)
  <2>1. /\ Up(n) /\ UNCHANGED <<raft, disk, raft_id_to_peer_id>>
        /\ leader_state'[n] = IF leader_state[n] = Proposing(b) THEN Committing(b)
                                                                ELSE leader_state[n]
        /\ validator'[n] \in {validator[n], w}
    BY <1>1, <1>9 DEF FinishReady, LeaderCommits, Up, Running, TypeOK
  <2> HIDE DEF b
  <2>2. w.building = validator[n].building
    BY <1>1, CallFields
  <2> HIDE DEF w
  <2>3. leader_state[n] = Proposing(b) => b \in BlockId
    BY <1>1 DEF LeaderState, Proposing, Holding
  <2> QED  BY <2>1, <2>2, <2>3, GoesOn DEF Keeps, LeadMoves
<1> QED
  BY <1>2, <1>3, <1>6, <1>7, <1>8, <1>9 DEF Ready, LeadMoves

\* Every step
LEMMA LeaderStep ==
  ASSUME IndInv, [Next]_vars, NEW n \in Node, Up(n)', leader_state'[n] # None
  PROVE  LeadMoves(n)
<1>1. TypeOK /\ validator[n] \in ValidatorState
  BY DEF IndInv, TypeOK
<1>2. CASE UNCHANGED vars
  <2>1. /\ UNCHANGED <<raft, disk, validator, leader_state, raft_id_to_peer_id, phase>>
    BY <1>2 DEF vars
  <2>2. Up(n)
    BY <2>1 DEF Up
  <2> QED  BY <2>1, <2>2, GoesOn DEF Keeps, LeadMoves
<1>3. ASSUME NEW m \in Node \ {n},
             \/ HandleUpdate(m) \/ Tick(m) \/ Quiet(m) \/ Ready(m) \/ Stop(m)
             \/ CrashInReady(m) \/ Restart(m) \/ \E b \in BlockId : ValidatorCommit(m, b)
      PROVE  Goes(n)
  <2>1. /\ leader_state'[n] = leader_state[n]
        /\ validator'[n].building = validator[n].building
        /\ raft_id_to_peer_id'[n] = raft_id_to_peer_id[n]
    BY <1>1, <1>3, OtherLeads
  <2>2. Rests(n)
    <3>1. ASSUME NEW b \in BlockId, ValidatorCommit(m, b) PROVE Alone(m)
      BY <3>1 DEF ValidatorCommit, Alone, Rests, Commits, Up
    <3>2. ASSUME Quiet(m) PROVE Alone(m)
      BY <3>2 DEF Quiet, vars, Alone, Rests, Commits, Up
    <3>3. CASE HandleUpdate(m)
      BY <3>3, OnBlockNewMoves, OnBlockValidMoves, IgnoredMoves, LeaderOnBlockCommitMoves,
         FollowerOnBlockCommitMoves, StepMessageMoves
         DEF HandleUpdate, OnBlockCommit, OnPeerMessage, Alone
    <3>4. CASE Ready(m)
      BY <3>4, FinishMoves, ProcessReadyMoves, DeliverEmptyMoves, DeliverBlockMoves,
         DeliverConfChangeMoves, DeliverOwnRemovalMoves DEF Ready, Alone
    <3>5. CASE Tick(m) \/ Stop(m) \/ CrashInReady(m) \/ Restart(m)
      BY <3>5, TickMoves, StopMoves, RestartMoves DEF Alone
    <3> QED  BY <1>3, <3>1, <3>2, <3>3, <3>4, <3>5 DEF Alone
  <2>3. Up(n)
    BY <2>2 DEF Rests
  <2> QED  BY <2>1, <2>2, <2>3, GoesOn DEF Rests, Keeps
<1>4. CASE Stop(n) \/ CrashInReady(n) \/ Restart(n)
  <2>1. leader_state'[n] = None
    BY <1>1, <1>4 DEF Stop, CrashInReady, Restart, Lost, TypeOK
  <2> QED  BY <2>1
<1>5. CASE Quiet(n)
  BY <1>2, <1>5 DEF Quiet
<1>6. ASSUME NEW b \in BlockId, ValidatorCommit(n, b) PROVE Goes(n)
  <2>1. /\ UNCHANGED <<raft, disk, leader_state, raft_id_to_peer_id, phase>>
        /\ validator'[n] = Committed(validator[n], b, phase[n] \in Running)
    BY <1>1, <1>6 DEF ValidatorCommit, TypeOK
  <2>2. validator'[n].building = validator[n].building
    BY <1>1, <2>1 DEF Committed, ValidatorState
  <2>3. Up(n)
    BY <2>1 DEF Up
  <2> QED  BY <2>1, <2>2, <2>3, GoesOn DEF Keeps
<1> QED
  BY <1>2, <1>3, <1>4, <1>5, <1>6, HandleUpdateLead, TickLead, ReadyLead
     DEF Next, LeadMoves

-----------------------------------------------------------------------------
(* The parent of a block is the block before it *)

\* There is one last block.
LEMMA LastIsOne ==
  ASSUME NEW l, NEW a \in Nat, NEW b, NEW d, LastIn(l, a, b), LastIn(l, a, d)
  PROVE  b = d
<1>1. PICK i \in 0..a : BlockAt(l, i, b) /\ BlocksBetween(l, i, a) = {}
  BY DEF LastIn
<1>2. PICK j \in 0..a : BlockAt(l, j, d) /\ BlocksBetween(l, j, a) = {}
  BY DEF LastIn
<1>3. i < j => j \in BlocksBetween(l, i, a)
  BY <1>2 DEF BlockAt, BlocksBetween
<1>4. j < i => i \in BlocksBetween(l, j, a)
  BY <1>1 DEF BlockAt, BlocksBetween
<1>5. i = j
  BY <1>1, <1>2, <1>3, <1>4
<1> QED  BY <1>1, <1>2, <1>5 DEF BlockAt

\* It stays the last one while no block follows.
LEMMA LastMoves ==
  ASSUME NEW l, NEW a \in Nat, NEW c \in Nat, a <= c, BlocksBetween(l, a, c) = {},
         NEW b, LastIn(l, a, b)
  PROVE  LastIn(l, c, b)
<1>1. PICK i \in 0..a : BlockAt(l, i, b) /\ BlocksBetween(l, i, a) = {}
  BY DEF LastIn
<1>2. ASSUME NEW x \in BlocksBetween(l, i, c) PROVE FALSE
  <2>1. x \in (i + 1)..c /\ IsBlock(l[x])
    BY DEF BlocksBetween
  <2>2. x \in BlocksBetween(l, i, a) \/ x \in BlocksBetween(l, a, c)
    BY <2>1 DEF BlocksBetween
  <2> QED  BY <1>1, <2>2
<1>3. BlocksBetween(l, i, c) = {} /\ i \in 0..c
  BY <1>2
<1> QED  BY <1>1, <1>3 DEF LastIn

\* In a log whose blocks form one chain, the parent of a block is the block that
\* comes before it.
Linked(l) == \A i \in DOMAIN l : IsBlock(l[i]) => LastIn(l, i - 1, Parent(l[i].block))

\* What a leader that began caught up has in its log after the applied entry: the
\* block it has proposed, while it waits for its commit, and otherwise none.
HasProposed(n, b) == \E i \in Outstanding(n) : Outstanding(n) = {i} /\ raft[n].log[i].block = b

LeadOK(n) == IsLeader(n) =>
  /\ leader_state[n] \in {Building, ChangingConfig} => CaughtUp(n)
  /\ leader_state[n] = Building => validator[n].building = validator[n].head
  /\ \A b \in BlockId :
       /\ Awaits(n, b) => CaughtUp(n) /\ Parent(b) = validator[n].head
       /\ leader_state[n] \in {Proposing(b), Committing(b)} => HasProposed(n, b)

LeadInv == \A n \in Node : LeadOK(n)

LinkInv == \A l \in Logs : Linked(l)

\* The states of a leader are different.
LEMMA LeaderStates ==
  \A b, c :
    /\ Building # ChangingConfig /\ Building # None /\ ChangingConfig # None
    /\ {Building, ChangingConfig, None} \cap
         {Publishing(b), Validating(b), Proposing(b), Committing(b)} = {}
    /\ {Publishing(b), Validating(b)} \cap {Proposing(c), Committing(c)} = {}
    /\ Publishing(b) # Validating(c) /\ Proposing(b) # Committing(c)
    /\ Publishing(b) = Publishing(c) => b = c
    /\ Validating(b) = Validating(c) => b = c
    /\ Proposing(b) = Proposing(c) => b = c
    /\ Committing(b) = Committing(c) => b = c
  BY DEF Building, ChangingConfig, None, Publishing, Validating, Proposing, Committing

\* The head of a leader that is caught up is the last block of its log, and stays
\* its head.
LEMMA CaughtUpLast ==
  ASSUME IndInv, LogInv, NEW n \in Node, Up(n), CaughtUp(n), NEW b, Near(n, b)
  PROVE  /\ LastBlock(n, b)
         /\ LastIn(raft[n].log, Len(raft[n].log), b)
<1> DEFINE k == disk[n].log
           l == raft[n].log
           a == disk[n].applied
           c == disk[n].commit
<1>1. /\ a \in Nat /\ c \in Nat /\ a <= c /\ c <= Len(l) /\ Len(l) \in Nat
      /\ \A i \in 1..c : l[i] = k[i]
  <2>1. AgreeOK(n)
    BY DEF LogInv, LogOK
  <2> QED  BY <2>1, Indices DEF AgreeOK
<1>2. BlocksBetween(l, a, Len(l)) = {}
  BY DEF CaughtUp, Outstanding
<1>3. LastBlock(n, b) => LastIn(k, a, b)
  BY DEF LastBlock
<1>4. NextBlock(n, b) => NextIn(k, a, c, b)
  BY DEF NextBlock
<1> HIDE DEF k, l, a, c
<1>5. ASSUME NextIn(k, a, c, b) PROVE FALSE
  <2>1. NextIn(l, a, c, b)
    BY <1>1, <1>5, PrefixKeeps
  <2>2. PICK i \in (a + 1)..c : BlockAt(l, i, b)
    BY <2>1 DEF NextIn
  <2>3. i \in BlocksBetween(l, a, Len(l))
    BY <1>1, <2>2 DEF BlockAt, BlocksBetween
  <2> QED  BY <1>2, <2>3
<1>6. LastBlock(n, b)
  BY <1>4, <1>5 DEF Near
<1>7. LastIn(l, a, b)
  BY <1>1, <1>3, <1>6, PrefixKeeps
<1>8. LastIn(l, Len(l), b)
  BY <1>1, <1>2, <1>7, LastMoves
<1> QED  BY <1>6, <1>8 DEF l

\* Where all blocks of the log are applied, the validator has no commit to make
\* that would move its head.
LEMMA HeadKept ==
  ASSUME IndInv, LogInv, ChainInv, [Next]_vars, NEW n \in Node, Up(n), CaughtUp(n)
  PROVE  validator'[n].head = validator[n].head
<1>1. ChainMoves(n)
  BY NextChains
<1>2. CASE Performs(n)
  <2> DEFINE h == validator[n].head
             f == Requested(n)[1]
  <2>1. 1 \in DOMAIN Requested(n)
    BY <1>2 DEF Performs, Requested, IndInv, TypeOK, ValidatorState
  <2>2. Near(n, h) /\ Near(n, f)
    BY <2>1 DEF ChainInv, ChainOK
  <2>3. LastBlock(n, h) /\ LastBlock(n, f)
    BY <2>2, CaughtUpLast
  <2>4. disk[n].applied \in Nat
    BY Indices
  <2> HIDE DEF h, f
  <2>5. h = f
    BY <2>3, <2>4, LastIsOne DEF LastBlock
  <2> QED  BY <1>2, <2>5 DEF Performs, h, f
<1>3. CASE Stays(n)
  BY <1>3 DEF Stays, KeepsChain, AsksCommit
<1> QED  BY <1>1, <1>2, <1>3 DEF ChainMoves

\* The logs
LEMMA LinkedNext ==
  ASSUME IndInv, LogInv, BlocksInv, ChainInv, LeadInv, LinkInv, LogsMatch, [Next]_vars,
         [NoTornOverwrite]_vars, NEW l \in Logs'
  PROVE  Linked(l)'
<1>1. \A b \in DOMAIN tree : Parent(b)' = Parent(b)
  BY ParentStays
<1>2. ASSUME NEW k \in Logs PROVE Linked(k)'
  <2>1. /\ Linked(k) /\ \A i \in DOMAIN k : IsBlock(k[i]) => k[i].block \in DOMAIN tree
    BY LogsValid DEF LinkInv
  <2> QED  BY <1>1, <2>1 DEF Linked
<1>3. ASSUME NEW n \in Node, Extended(n, l) PROVE Linked(l)'
  <2>1. PICK k \in Logs : k = raft[n].log
    BY LogsAre
  <2>2. k \in Seq(Entry) /\ Linked(k)' /\ Up(n)
    BY <1>2, <1>3, <2>1, LogsValid DEF Extended
  <2>3. PICK e \in Entry :
          /\ Appended(l, k, e)
          /\ IsBlock(e) => Awaits(n, e.block) /\ raft[n].role = "Leader"
    BY <1>3, <2>1 DEF Extended
  <2>4. /\ l \in Seq(Entry) /\ Len(l) = Len(k) + 1 /\ l[Len(k) + 1] = e
        /\ \A i \in 1..Len(k) : l[i] = k[i]
        /\ Len(k) \in Nat /\ DOMAIN k = 1..Len(k) /\ DOMAIN l = 1..(Len(k) + 1)
    BY <2>2, <2>3, AppendedLemma
  <2>5. \A d \in 0..Len(k) : \A b : LastIn(k, d, b) => LastIn(l, d, b)
    <3> SUFFICES ASSUME NEW d \in 0..Len(k), NEW b, LastIn(k, d, b) PROVE LastIn(l, d, b)
      OBVIOUS
    <3>1. d \in Nat /\ d <= d /\ \A i \in 1..d : l[i] = k[i]
      BY <2>4
    <3> QED  BY <3>1, PrefixKeeps
  <2>6. ASSUME IsBlock(e)
        PROVE  LastIn(k, Len(k), Parent(e.block)')
    <3>1. e.block \in BlockId /\ Holds(n, e.block) /\ IsLeader(n)
      BY <2>2, <2>3, <2>6, BlockOfEntry DEF Holds, IsLeader
    <3>2. e.block \in DOMAIN tree
      BY <3>1 DEF ChainInv, HeldOK
    <3>3. CaughtUp(n) /\ Parent(e.block) = validator[n].head
      BY <2>3, <2>6, <3>1 DEF LeadInv, LeadOK
    <3>4. Near(n, validator[n].head)
      BY DEF ChainInv, ChainOK
    <3>5. LastIn(k, Len(k), validator[n].head)
      BY <2>1, <2>2, <3>3, <3>4, CaughtUpLast
    <3> QED  BY <1>1, <3>2, <3>3, <3>5
  <2> SUFFICES ASSUME NEW i \in DOMAIN l, IsBlock(l[i])
               PROVE  LastIn(l, i - 1, Parent(l[i].block)')
    BY DEF Linked
  <2>7. CASE i \in DOMAIN k
    <3>1. LastIn(k, i - 1, Parent(k[i].block)') /\ i - 1 \in 0..Len(k) /\ l[i] = k[i]
      BY <2>2, <2>4, <2>7 DEF Linked
    <3> QED  BY <2>5, <3>1
  <2>8. CASE i = Len(k) + 1
    <3>1. i - 1 = Len(k) /\ l[i] = e /\ Len(k) \in 0..Len(k)
      BY <2>4, <2>8
    <3> QED  BY <2>5, <2>6, <3>1
  <2> QED  BY <2>4, <2>7, <2>8
<1> QED  BY <1>2, <1>3, LogKept

-----------------------------------------------------------------------------
(* The steps of a leader *)

\* The library goes on as the leader it was.
LeadsOn(n) == /\ raft'[n].role = raft[n].role /\ raft'[n].delivered = raft[n].delivered
              /\ raft_id_to_peer_id'[n] = raft_id_to_peer_id[n]

\* check_publish: a block on what was under construction.
LEMMA PublishFacts ==
  ASSUME IndInv, NEW n \in Node, Tick(n), Publish(n), Up(n)'
  PROVE  /\ Up(n) /\ leader_state[n] = Building /\ disk'[n] = disk[n]
         /\ LeadsOn(n) /\ raft'[n].log = raft[n].log
         /\ \E b \in BlockId : leader_state'[n] = Publishing(b)
                               /\ Parent(b)' = validator[n].building
<1>1. /\ TypeOK /\ raft[n] \in Raft /\ Up(n) /\ leader_state[n] = Building
      /\ disk' = disk /\ raft_id_to_peer_id' = raft_id_to_peer_id /\ RaftTick(n)
      /\ Len(tree) < MaxBlocks /\ Len(tree) \in Nat
      /\ leader_state'[n] = Publishing(Len(tree) + 1)
  BY DEF IndInv, TypeOK, Tick, Publish, Up, Running
<1>2. LeadsOn(n) /\ raft'[n].log = raft[n].log
  <2>1. CASE UNCHANGED raft
    BY <1>1, <2>1 DEF LeadsOn
  <2>2. CASE raft' = [raft EXCEPT ![n].msgs = "waiting"]
    BY <1>1, <2>2 DEF LeadsOn, TypeOK, Raft
  <2> QED  BY <1>1, <2>1, <2>2, LeaderStates DEF RaftTick
<1>3. PICK b \in BlockId : b = Len(tree) + 1
  BY <1>1, MaxBlocksAssumption DEF BlockId
<1>4. Parent(b)' = validator[n].building
  <2>1. PICK P, ok :
          tree' = Append(tree, [parent |-> validator[n].building, peers |-> P, valid |-> ok])
    BY DEF Publish
  <2>2. tree'[b] = [parent |-> validator[n].building, peers |-> P, valid |-> ok]
    <3>1. tree \in Seq(BlockRecord)
      BY <1>1 DEF TypeOK
    <3> QED  BY <1>3, <2>1, <3>1
  <2> QED  BY <2>2 DEF Parent
<1> QED  BY <1>1, <1>2, <1>3, <1>4

\* on_block_valid: the block is proposed.
LEMMA ProposeFacts ==
  ASSUME IndInv, NEW n \in Node, NEW b \in BlockId, OnBlockValid(n, b), Awaits(n, b)
  PROVE  /\ IsLeader(n) /\ leader_state'[n] = Proposing(b) /\ disk'[n] = disk[n]
         /\ \E e \in Entry : /\ Appended(raft'[n].log, raft[n].log, e)
                             /\ e.block = b /\ IsBlock(e) /\ ~IsConf(e)
         /\ LeadsOn(n)
<1>1. /\ TypeOK /\ raft[n] \in Raft /\ raft[n].term \in Term /\ Up(n) /\ RolesOK(n)
      /\ phase[n] = "recv"
  BY DEF IndInv, TypeOK, Raft, OnBlockValid, Up, Running, NodeOK
<1> DEFINE e == BlockEntry(raft[n].term, b)
<1>2. e \in Entry /\ e.block = b /\ ~IsConf(e) /\ IsBlock(e)
  <2>1. e \in Entry
    BY <1>1, EntryTypes
  <2>2. b # NoBlock
    BY DEF BlockId, NoBlock
  <2> QED  BY <2>1, <2>2 DEF BlockEntry, IsConf, IsBlock
<1>3. /\ raft'[n] = AppendAsLeader(n, raft[n], e, raft_id_to_peer_id[n])
      /\ leader_state'[n] = Proposing(b)
      /\ disk' = disk /\ raft_id_to_peer_id' = raft_id_to_peer_id
  BY <1>1 DEF OnBlockValid, Awaits, Propose, TypeOK
<1> HIDE DEF e
<1>4. raft[n].commit <= Len(raft[n].log)
  BY <1>1, Indices
<1>5. /\ Appended(raft'[n].log, raft[n].log, e)
      /\ raft'[n].role = raft[n].role /\ raft'[n].delivered = raft[n].delivered
  <2> DEFINE r == raft[n]
             q == raft'[n]
             voters == raft_id_to_peer_id[n]
  <2>1. r \in Raft /\ r.commit <= Len(r.log) /\ q = AppendAsLeader(n, r, e, voters)
    BY <1>1, <1>3, <1>4
  <2> HIDE DEF r, q, voters
  <2>2. e \in Entry
    BY <1>2
  <2>3. Appended(q.log, r.log, e) /\ q.role = r.role /\ q.delivered = r.delivered
    BY <2>1, <2>2, AppendAsLeaderFields
  <2> QED  BY <2>3 DEF r, q
<1>6. raft[n].role = "Leader"
  BY <1>1, LeaderStates DEF RolesOK, Awaits
<1> QED  BY <1>1, <1>2, <1>3, <1>5, <1>6 DEF IsLeader, LeadsOn

\* on_block_commit: the next block is begun, or a change of the peers.
LEMMA CommitFacts ==
  ASSUME IndInv, NEW n \in Node, NEW b \in BlockId, LeaderOnBlockCommit(n, b)
  PROVE  /\ IsLeader(n) /\ leader_state[n] = Committing(b) /\ LeadsOn(n)
         /\ Commits(n) # << >> /\ Commits(n)[1].block = b
         /\ Commit(b) \in validator[n].inbox
         /\ disk'[n].applied = Commits(n)[1].entry
         /\ validator'[n].head = validator[n].head /\ tree' = tree
         /\ \/ /\ Difference(n, b) = {} /\ leader_state'[n] = Building
               /\ validator'[n].building = validator[n].head
               /\ raft'[n].log = raft[n].log
            \/ /\ Difference(n, b) # {} /\ leader_state'[n] = ChangingConfig
               /\ Up(n)' => Cardinality(Difference(n, b)) <= 1
               /\ \E x \in Difference(n, b), e \in Entry :
                    /\ x \in Node /\ Appended(raft'[n].log, raft[n].log, e) /\ ~IsBlock(e)
                    /\ ConfPending(raft[n]) \/ e = ConfEntry(raft[n].term, Change(n, b), x)
<1>1. /\ CommittingBlock(n, b) /\ PopCommitted(n, b) /\ phase[n] = "recv"
      /\ leader_state[n] = Committing(b) /\ Commit(b) \in validator[n].inbox
      /\ UNCHANGED <<sent, tree, follower_state, raft_id_to_peer_id, stops>>
  BY DEF LeaderOnBlockCommit, CommittingBlock, PopCommitted
<1>2. /\ TypeOK /\ Up(n) /\ RolesOK(n) /\ CommitOK(n) /\ raft[n] \in Raft
      /\ validator[n] \in ValidatorState /\ disk[n] \in Disk
  BY <1>1 DEF IndInv, TypeOK, NodeOK, Up, Running
<1>3. IsLeader(n)
  BY <1>1, <1>2, LeaderStates DEF RolesOK, IsLeader
<1>4. Commits(n) # << >> /\ Commits(n)[1].block = b
  BY <1>1, <1>2 DEF CommitOK, Commits
<1>5. disk'[n].applied = Commits(n)[1].entry
  <2>1. disk'[n] = SetApplied(disk[n], Commits(n)[1].entry)
    BY LeaderOnBlockCommitMoves DEF Pops
  <2> QED  BY <1>2, <2>1 DEF SetApplied, Disk
<1> DEFINE v == Receive(validator[n], Commit(b))
           w == InitializeBlock(v)
<1>6. /\ v.head = validator[n].head /\ w.head = validator[n].head
      /\ w.building = validator[n].head
  <2>1. v \in ValidatorState /\ v.head = validator[n].head
    BY <1>2, ReceiveFields, CallFields
  <2> HIDE DEF v
  <2> QED  BY <2>1, CallFields
<1>7. CASE Difference(n, b) = {}
  <2>1. /\ raft' = raft /\ leader_state'[n] = Building /\ validator'[n] = w
    BY <1>2, <1>7 DEF LeaderOnBlockCommit, TypeOK
  <2> HIDE DEF v, w
  <2> QED  BY <1>1, <1>3, <1>4, <1>5, <1>6, <1>7, <2>1 DEF LeadsOn
<1>8. CASE Difference(n, b) # {}
  <2> DEFINE x == CHOOSE y \in Difference(n, b) : TRUE
             e == IF ConfPending(raft[n]) THEN EmptyEntry(raft[n].term)
                                          ELSE ConfEntry(raft[n].term, Change(n, b), x)
  <2>1. x \in Node /\ x \in Difference(n, b)
    <3>1. Difference(n, b) \subseteq Node
      BY <1>2, SettingsLemma DEF Difference, TypeOK
    <3> QED  BY <1>8, <3>1
  <2>2. e \in Entry
    BY <1>2, <2>1, EntryTypes DEF Raft, Change
  <2>3. ~IsBlock(e)
    BY DEF EmptyEntry, ConfEntry, IsBlock
  <2>4. ConfPending(raft[n]) \/ e = ConfEntry(raft[n].term, Change(n, b), x)
    OBVIOUS
  <2>5. /\ raft'[n] = AppendAsLeader(n, raft[n], e, raft_id_to_peer_id[n])
        /\ leader_state'[n] = ChangingConfig /\ validator'[n] = v
    BY <1>2, <1>8 DEF LeaderOnBlockCommit, ProposeConfChange, TypeOK
  <2>6. Up(n)' => Cardinality(Difference(n, b)) <= 1
    <3>1. IsFiniteSet(Difference(n, b))
      <4>1. Difference(n, b) \subseteq Node
        BY <1>2, SettingsLemma DEF Difference, TypeOK
      <4> QED  BY <4>1, NodeAssumption, FS_Subset
    <3>2. Cardinality(Difference(n, b)) \in Nat
      BY <3>1, FS_CardinalityType
    <3>3. phase'[n] = IF Cardinality(Difference(n, b)) > 1 THEN "panicked" ELSE "handled"
      BY <1>2, <1>3, <1>8 DEF LeaderOnBlockCommit, Goto, TypeOK, IsLeader
    <3> QED  BY <3>2, <3>3 DEF Up, Running
  <2> HIDE DEF v, w, e, x
  <2>7. raft[n].commit <= Len(raft[n].log)
    BY <1>2, Indices
  <2>8. /\ Appended(raft'[n].log, raft[n].log, e)
        /\ raft'[n].role = raft[n].role /\ raft'[n].delivered = raft[n].delivered
    <3> DEFINE r == raft[n]
               q == raft'[n]
               voters == raft_id_to_peer_id[n]
    <3>1. r \in Raft /\ r.commit <= Len(r.log) /\ q = AppendAsLeader(n, r, e, voters)
      BY <1>2, <2>5, <2>7
    <3> HIDE DEF r, q, voters
    <3>2. Appended(q.log, r.log, e) /\ q.role = r.role /\ q.delivered = r.delivered
      BY <2>2, <3>1, AppendAsLeaderFields
    <3> QED  BY <3>2 DEF r, q
  <2>9. LeadsOn(n)
    BY <1>1, <2>8 DEF LeadsOn
  <2>10. \E y \in Difference(n, b), f \in Entry :
           /\ y \in Node /\ Appended(raft'[n].log, raft[n].log, f) /\ ~IsBlock(f)
           /\ ConfPending(raft[n]) \/ f = ConfEntry(raft[n].term, Change(n, b), y)
    BY <2>1, <2>2, <2>3, <2>4, <2>8
  <2> QED  BY <1>1, <1>3, <1>4, <1>5, <1>6, <1>8, <2>5, <2>6, <2>9, <2>10
<1> QED  BY <1>7, <1>8

\* apply_conf_change: the change is made and the next block begun.
LEMMA ChangeFacts ==
  ASSUME IndInv, NEW n \in Node, DeliverConfChange(n), leader_state[n] = ChangingConfig
  PROVE  /\ IsLeader(n) /\ leader_state'[n] = Building /\ disk'[n] = disk[n]
         /\ validator'[n].head = validator[n].head
         /\ validator'[n].building = validator[n].head /\ tree' = tree
         /\ raft'[n].log = raft[n].log /\ raft'[n].delivered = raft[n].delivered + 1
         /\ raft[n].delivered + 1 \in Pending(n)
         /\ raft_id_to_peer_id'[n] = ChangedPeers(n, raft[n].log[raft[n].delivered + 1])
<1>1. /\ TypeOK /\ Up(n) /\ RolesOK(n) /\ raft[n] \in Raft /\ phase[n] = "deliver"
      /\ validator[n] \in ValidatorState
  BY DEF IndInv, TypeOK, NodeOK, Up, Running, DeliverConfChange, Delivering
<1> DEFINE p == Delivered(raft[n])
           w == InitializeBlock(validator[n])
<1>2. /\ Delivering(n) /\ raft'[n] = ApplyConfChange(n, p, NextEntry(n))
      /\ disk' = disk /\ leader_state'[n] = Building /\ validator'[n] = w
      /\ tree' = tree /\ IsConf(NextEntry(n))
      /\ raft_id_to_peer_id'[n] = ChangedPeers(n, NextEntry(n))
  BY <1>1 DEF DeliverConfChange, TypeOK
<1>3. p \in Raft /\ p.log = raft[n].log /\ p.delivered = raft[n].delivered + 1
  BY <1>1, DeliveredFields
<1>4. w.head = validator[n].head /\ w.building = validator[n].head
  BY <1>1, CallFields
<1> HIDE DEF p, w
<1>5. raft'[n].log = raft[n].log /\ raft'[n].delivered = raft[n].delivered + 1
  BY <1>2, <1>3 DEF ApplyConfChange, CommitAlone, Raft
<1>6. raft[n].delivered + 1 \in Pending(n)
  <2>1. raft[n].delivered < raft[n].ready
    BY <1>2 DEF Delivering
  <2>2. raft[n].delivered + 1 \in (raft[n].delivered + 1)..Len(raft[n].log)
    BY <1>1, <2>1, LibraryIndices
  <2> QED  BY <1>2, <2>2 DEF Pending, NextEntry
<1>7. IsLeader(n)
  BY <1>1, LeaderStates DEF RolesOK, IsLeader
<1> QED  BY <1>2, <1>4, <1>5, <1>6, <1>7 DEF NextEntry

\* process_ready finds that the library leads, and no commit is under way.
LEMMA LeadFacts ==
  ASSUME IndInv, LogInv, NEW n \in Node, TakesLead(n), CaughtUp(n)
  PROVE  /\ leader_state'[n] = Building /\ LeadsOn(n)
         /\ disk'[n].applied = disk[n].applied /\ raft'[n].log = raft[n].log
         /\ validator'[n].head = validator[n].head
         /\ validator'[n].building = validator[n].head /\ tree' = tree
<1>1. /\ TypeOK /\ Up(n) /\ RolesOK(n) /\ CommitOK(n) /\ raft[n] \in Raft
      /\ validator[n] \in ValidatorState /\ follower_state[n] \in FollowerState
      /\ disk[n] \in Disk
  BY DEF IndInv, TypeOK, NodeOK, Up, Running, TakesLead, ProcessReady
<1>2. /\ Saves(n) /\ TakeRole(n) /\ SteppedUp(n)
      /\ raft_id_to_peer_id' = raft_id_to_peer_id /\ tree' = tree
  BY ProcessReadyMoves DEF TakesLead, ProcessReady
<1>3. ~StepUpCommitting(n)
  <2> SUFFICES ASSUME StepUpCommitting(n) PROVE FALSE
    OBVIOUS
  <2>1. follower_state[n].state = "Committing"
    BY DEF StepUpCommitting
  <2>2. follower_state[n] \in [state : {"Committing"}, block : BlockId]
    BY <1>1, <2>1 DEF FollowerState
  <2>3. PICK b \in BlockId : follower_state[n] = Committing(b)
    BY <2>2 DEF Committing
  <2>4. Commits(n) # << >>
    BY <1>1, <2>3 DEF CommitOK, CommittingBlock, Commits
  <2> DEFINE i == Commits(n)[1].entry
  <2>5. SegmentOK(n) /\ 1 \in DOMAIN Commits(n)
    BY <1>1, <2>4, Indices DEF LogInv, LogOK
  <2>6. i \in BlocksBetween(raft[n].log, disk[n].applied, raft[n].delivered)
    BY <2>5 DEF SegmentOK
  <2>7. /\ raft[n].delivered \in Nat /\ raft[n].delivered <= Len(raft[n].log)
        /\ Len(raft[n].log) \in Nat /\ disk[n].applied \in Nat
    <3>1. /\ raft[n].delivered \in Nat /\ raft[n].ready \in Nat /\ disk[n].commit \in Nat
          /\ raft[n].commit \in Nat /\ disk[n].applied \in Nat /\ Len(raft[n].log) \in Nat
          /\ raft[n].delivered <= raft[n].ready /\ raft[n].ready <= disk[n].commit
          /\ disk[n].commit <= raft[n].commit /\ raft[n].commit <= Len(raft[n].log)
      BY <1>1, Indices
    <3> QED  BY <3>1
  <2> HIDE DEF i
  <2>8. i \in Outstanding(n)
    BY <2>6, <2>7 DEF Outstanding, BlocksBetween
  <2> QED  BY <2>8 DEF CaughtUp
<1>4. StepUpBuilding(n)
  BY <1>2, <1>3 DEF TakeRole, StepDown, SteppedDown, KeepRole, SteppedUp
<1> DEFINE w == InitializeBlock(validator[n])
<1>5. leader_state'[n] = Building /\ validator'[n] = w
  BY <1>1, <1>4 DEF StepUpBuilding, TypeOK
<1>6. w.head = validator[n].head /\ w.building = validator[n].head
  BY <1>1, CallFields
<1>7. disk'[n].applied = disk[n].applied
  BY <1>1, <1>2, DiskFields DEF Saves
<1> HIDE DEF w
<1> QED  BY <1>2, <1>5, <1>6, <1>7 DEF Saves, Keeps, LeadsOn

\* The front of the queue is one of the outstanding blocks.
LEMMA FrontOutstanding ==
  ASSUME IndInv, LogInv, NEW n \in Node, Up(n), Commits(n) # << >>
  PROVE  Commits(n)[1].entry \in Outstanding(n)
<1> DEFINE i == Commits(n)[1].entry
<1>1. SegmentOK(n) /\ 1 \in DOMAIN Commits(n)
  BY Indices DEF LogInv, LogOK
<1>2. i \in BlocksBetween(raft[n].log, disk[n].applied, raft[n].delivered)
  BY <1>1 DEF SegmentOK
<1>3. i \in (disk[n].applied + 1)..raft[n].delivered /\ IsBlock(raft[n].log[i])
  BY <1>2 DEF BlocksBetween
<1> HIDE DEF i
<1>4. i \in (disk[n].applied + 1)..Len(raft[n].log)
  BY <1>3, LibraryIndices
<1> QED  BY <1>3, <1>4 DEF Outstanding, BlocksBetween, i

\* A new entry at the end of the log, and the blocks after an index.
LEMMA BlocksAppended ==
  ASSUME NEW l \in Seq(Entry), NEW e \in Entry, NEW k, Appended(k, l, e),
         NEW a \in Nat, a <= Len(l)
  PROVE  BlocksBetween(k, a, Len(k)) =
           BlocksBetween(l, a, Len(l)) \cup (IF IsBlock(e) THEN {Len(l) + 1} ELSE {})
<1>1. /\ Len(l) \in Nat /\ Len(k) = Len(l) + 1 /\ k[Len(l) + 1] = e
      /\ \A i \in 1..Len(l) : k[i] = l[i]
  BY AppendedLemma
<1>2. \A i \in (a + 1)..Len(k) : i \in (a + 1)..Len(l) \/ i = Len(l) + 1
  BY <1>1
<1>3. \A i \in (a + 1)..Len(l) : i \in (a + 1)..Len(k) /\ k[i] = l[i] /\ i # Len(l) + 1
  BY <1>1
<1>4. Len(l) + 1 \in (a + 1)..Len(k)
  BY <1>1
<1> QED  BY <1>1, <1>2, <1>3, <1>4 DEF BlocksBetween

\* A leader that begins caught up stays so, but for the block it has proposed.
LEMMA LeadNext ==
  ASSUME IndInv, IndInv', LogInv, BlocksInv, ChainInv, LeadInv, [Next]_vars,
         NEW n \in Node, TakesLead(n) => CaughtUp(n)
  PROVE  LeadOK(n)'
<1> SUFFICES ASSUME IsLeader(n)', LeadOK(n)
             PROVE  /\ leader_state'[n] \in {Building, ChangingConfig} => CaughtUp(n)'
                    /\ leader_state'[n] = Building =>
                         validator'[n].building = validator'[n].head
                    /\ \A b \in BlockId :
                         /\ Awaits(n, b)' => CaughtUp(n)' /\ Parent(b)' = validator'[n].head
                         /\ leader_state'[n] \in {Proposing(b), Committing(b)} =>
                              HasProposed(n, b)'
  BY DEF LeadInv, LeadOK
<1> DEFINE l == raft[n].log
           a == disk[n].applied
<1>0. Up(n)' /\ raft'[n].role = "Leader"
  BY DEF IsLeader
<1>1. /\ l \in Seq(Entry) /\ a \in Nat /\ Len(l) \in Nat
      /\ Up(n) => a <= Len(l)
  BY Indices
<1>2. CASE leader_state'[n] = None
  BY <1>2, LeaderStates DEF Awaits
<1>3. ASSUME raft'[n].log = l, disk'[n].applied = a
      PROVE  Outstanding(n)' = Outstanding(n) /\ (CaughtUp(n)' <=> CaughtUp(n))
  BY <1>3 DEF Outstanding, CaughtUp
<1>4. CASE Goes(n)
  <2>1. /\ IsLeader(n) /\ raft'[n].log = l /\ disk'[n].applied = a /\ Up(n)
        /\ validator'[n].building = validator[n].building
        /\ \/ leader_state'[n] = leader_state[n]
           \/ \E b \in BlockId :
                \/ leader_state[n] = Publishing(b) /\ leader_state'[n] = Validating(b)
                \/ leader_state[n] = Proposing(b) /\ leader_state'[n] = Committing(b)
    BY <1>4 DEF Goes
  <2>2. Outstanding(n)' = Outstanding(n) /\ (CaughtUp(n)' <=> CaughtUp(n))
    BY <1>3, <2>1
  <2>3. CaughtUp(n) => validator'[n].head = validator[n].head
    BY <2>1, HeadKept
  <2>4. ASSUME leader_state'[n] \in {Building, ChangingConfig}
        PROVE  /\ CaughtUp(n)'
               /\ leader_state'[n] = Building => validator'[n].building = validator'[n].head
    <3>1. leader_state[n] = leader_state'[n]
      BY <2>1, <2>4, LeaderStates
    <3> QED  BY <2>1, <2>2, <2>3, <2>4, <3>1 DEF LeadOK
  <2>5. ASSUME NEW b \in BlockId, Awaits(n, b)'
        PROVE  CaughtUp(n)' /\ Parent(b)' = validator'[n].head
    <3>1. Awaits(n, b)
      <4>1. CASE leader_state'[n] = leader_state[n]
        BY <2>5, <4>1 DEF Awaits
      <4>2. ASSUME NEW c \in BlockId, leader_state[n] = Publishing(c),
                   leader_state'[n] = Validating(c)
            PROVE  Awaits(n, b)
        <5>1. b = c
          BY <2>5, <4>2 DEF Awaits, Publishing, Validating
        <5> QED  BY <4>2, <5>1 DEF Awaits
      <4>3. ASSUME NEW c \in BlockId, leader_state'[n] = Committing(c) PROVE FALSE
        BY <2>5, <4>3 DEF Awaits, Publishing, Validating, Committing
      <4> QED  BY <2>1, <4>1, <4>2, <4>3
    <3>2. CaughtUp(n) /\ Parent(b) = validator[n].head
      BY <2>1, <3>1 DEF LeadOK
    <3>3. b \in DOMAIN tree
      BY <2>1, <3>1 DEF ChainInv, HeldOK, Holds
    <3>4. Parent(b)' = Parent(b)
      BY <3>3, ParentStays
    <3> QED  BY <2>2, <2>3, <3>2, <3>4
  <2>6. ASSUME NEW b \in BlockId, leader_state'[n] \in {Proposing(b), Committing(b)}
        PROVE  HasProposed(n, b)'
    <3>1. leader_state[n] \in {Proposing(b), Committing(b)}
      BY <2>1, <2>6, LeaderStates
    <3>2. HasProposed(n, b)
      BY <2>1, <3>1 DEF LeadOK
    <3> QED  BY <2>1, <2>2, <3>2 DEF HasProposed
  <2> QED  BY <2>4, <2>5, <2>6
<1>5. CASE Tick(n) /\ Publish(n)
  <2>1. PICK b \in BlockId : leader_state'[n] = Publishing(b)
                             /\ Parent(b)' = validator[n].building
    BY <1>0, <1>5, PublishFacts
  <2>2. /\ Up(n) /\ leader_state[n] = Building /\ disk'[n] = disk[n]
        /\ LeadsOn(n) /\ raft'[n].log = l
    BY <1>0, <1>5, PublishFacts
  <2>3. CaughtUp(n) /\ validator[n].building = validator[n].head
    BY <1>0, <2>2 DEF LeadOK, LeadsOn, IsLeader
  <2>4. CaughtUp(n)' /\ Parent(b)' = validator'[n].head
    BY <1>3, <2>1, <2>2, <2>3, HeadKept
  <2>5. \A c \in BlockId : Awaits(n, c)' => c = b
    BY <2>1, LeaderStates DEF Awaits
  <2> QED  BY <2>1, <2>4, <2>5, LeaderStates
<1>6. ASSUME NEW b \in BlockId, OnBlockValid(n, b), Awaits(n, b)
      PROVE  HasProposed(n, b)' /\ leader_state'[n] = Proposing(b)
  <2>1. /\ IsLeader(n) /\ leader_state'[n] = Proposing(b) /\ disk'[n] = disk[n] /\ Up(n)
    BY <1>6, ProposeFacts DEF IsLeader
  <2>2. PICK e \in Entry : Appended(raft'[n].log, l, e) /\ e.block = b /\ IsBlock(e)
    BY <1>6, ProposeFacts
  <2>3. BlocksBetween(l, a, Len(l)) = {}
    BY <1>6, <2>1 DEF LeadOK, CaughtUp, Outstanding
  <2> DEFINE k == raft'[n].log
  <2> HIDE DEF l, a, k
  <2>4. /\ BlocksBetween(k, a, Len(k)) = {Len(l) + 1} /\ k[Len(l) + 1] = e
    <3>1. Appended(k, l, e) /\ l \in Seq(Entry) /\ a \in Nat /\ a <= Len(l)
      BY <1>1, <2>1, <2>2 DEF k
    <3>2. k[Len(l) + 1] = e
      BY <3>1, AppendedLemma
    <3> QED  BY <2>2, <2>3, <3>1, <3>2, BlocksAppended
  <2>5. Outstanding(n)' = {Len(l) + 1} /\ raft'[n].log[Len(l) + 1].block = b
    BY <2>1, <2>2, <2>4 DEF Outstanding, k, a
  <2> QED  BY <2>1, <2>5 DEF HasProposed
<1>7. ASSUME NEW b \in BlockId, LeaderOnBlockCommit(n, b)
      PROVE  /\ CaughtUp(n)' /\ leader_state'[n] \in {Building, ChangingConfig}
             /\ leader_state'[n] = Building => validator'[n].building = validator'[n].head
  <2> DEFINE j == Commits(n)[1].entry
             k == raft'[n].log
  <2>1. /\ IsLeader(n) /\ Up(n) /\ leader_state[n] = Committing(b) /\ Commits(n) # << >>
        /\ disk'[n].applied = j
    BY <1>7, CommitFacts DEF IsLeader
  <2>2. k = l \/ \E e \in Entry : Appended(k, l, e) /\ ~IsBlock(e)
    BY <1>7, CommitFacts
  <2>3. /\ leader_state'[n] \in {Building, ChangingConfig}
        /\ leader_state'[n] = Building => validator'[n].building = validator'[n].head
    BY <1>7, CommitFacts, LeaderStates
  <2>4. j \in Outstanding(n)
    BY <2>1, FrontOutstanding
  <2>5. PICK i \in Outstanding(n) : Outstanding(n) = {i}
    BY <2>1 DEF LeadOK, HasProposed
  <2>6. BlocksBetween(l, a, Len(l)) = {j}
    BY <2>4, <2>5 DEF Outstanding
  <2>7. l \in Seq(Entry) /\ a \in Nat /\ Len(l) \in Nat
    BY <1>1, <2>1
  <2> HIDE DEF j, l, a, k
  <2>8. j \in (a + 1)..Len(l)
    BY <2>6 DEF BlocksBetween
  <2>9. BlocksBetween(l, j, Len(l)) = {}
    <3>1. ASSUME NEW x \in BlocksBetween(l, j, Len(l)) PROVE FALSE
      <4>1. x \in BlocksBetween(l, a, Len(l)) /\ x # j
        BY <2>7, <2>8, <3>1 DEF BlocksBetween
      <4> QED  BY <2>6, <4>1
    <3> QED  BY <3>1
  <2>10. BlocksBetween(k, j, Len(k)) = {}
    <3>1. j \in Nat /\ j <= Len(l)
      BY <2>7, <2>8
    <3>2. ASSUME NEW e \in Entry, Appended(k, l, e), ~IsBlock(e)
          PROVE  BlocksBetween(k, j, Len(k)) = {}
      BY <2>7, <2>9, <3>1, <3>2, BlocksAppended
    <3> QED  BY <2>2, <2>9, <3>2
  <2>11. CaughtUp(n)'
    BY <2>1, <2>10 DEF CaughtUp, Outstanding, k
  <2> QED  BY <2>3, <2>11
<1>8. ASSUME DeliverConfChange(n), leader_state[n] = ChangingConfig
      PROVE  /\ CaughtUp(n)' /\ leader_state'[n] = Building
             /\ validator'[n].building = validator'[n].head
  <2>1. /\ IsLeader(n) /\ leader_state'[n] = Building /\ disk'[n] = disk[n]
        /\ validator'[n].building = validator'[n].head /\ raft'[n].log = l
    BY <1>8, ChangeFacts
  <2>2. CaughtUp(n)
    BY <1>8, <2>1 DEF LeadOK
  <2> QED  BY <1>3, <2>1, <2>2
<1>9. ASSUME TakesLead(n)
      PROVE  /\ CaughtUp(n)' /\ leader_state'[n] = Building
             /\ validator'[n].building = validator'[n].head
  BY <1>3, <1>9, LeadFacts
<1>10. CASE leader_state'[n] # None
  <2>1. LeadMoves(n)
    BY <1>0, <1>10, LeaderStep
  <2>2. ASSUME NEW b \in BlockId, OnBlockValid(n, b), Awaits(n, b),
               NEW c \in BlockId
        PROVE  /\ ~Awaits(n, c)' /\ leader_state'[n] \notin {Building, ChangingConfig}
               /\ leader_state'[n] \in {Proposing(c), Committing(c)} => HasProposed(n, c)'
    <3>1. leader_state'[n] = Proposing(b) /\ HasProposed(n, b)'
      BY <1>6, <2>2
    <3>2. ~Awaits(n, c)'
      BY <3>1 DEF Awaits, Publishing, Validating, Proposing
    <3>3. leader_state'[n] \notin {Building, ChangingConfig}
      BY <3>1 DEF Building, ChangingConfig, Proposing
    <3>4. leader_state'[n] \in {Proposing(c), Committing(c)} => c = b
      BY <3>1 DEF Proposing, Committing
    <3> QED  BY <3>1, <3>2, <3>3, <3>4
  <2>3. ASSUME NEW c \in BlockId, leader_state'[n] \in {Building, ChangingConfig}
        PROVE  ~Awaits(n, c)' /\ leader_state'[n] \notin {Proposing(c), Committing(c)}
    BY <2>3, LeaderStates DEF Awaits
  <2>4. CASE \E b \in BlockId : OnBlockValid(n, b) /\ Awaits(n, b)
    <3>1. leader_state'[n] \notin {Building, ChangingConfig}
      BY <1>6, <2>4, LeaderStates
    <3> QED  BY <2>2, <2>4, <3>1
  <2>5. CASE \E b \in BlockId : LeaderOnBlockCommit(n, b)
    BY <1>7, <2>3, <2>5
  <2>6. CASE DeliverConfChange(n) /\ leader_state[n] = ChangingConfig
    BY <1>8, <2>3, <2>6
  <2>7. CASE TakesLead(n)
    BY <1>9, <2>3, <2>7
  <2> QED  BY <1>4, <1>5, <2>1, <2>4, <2>5, <2>6, <2>7 DEF LeadMoves
<1> QED  BY <1>2, <1>10

-----------------------------------------------------------------------------
(* Without failovers into an unfinished log, the chains do not fork *)

\* Every leader begins with a validator that has committed all the blocks of its
\* log.  Nothing in process_ready sees to that: it holds until the first failover,
\* and after it as long as the new leader is not behind.
LeadersCaughtUp == [][\A n \in Node : TakesLead(n) => CaughtUp(n)]_vars

\* No log has a block at first, and nobody leads.
LEMMA LinkInit == Init => LeadInv /\ LinkInv
<1> SUFFICES ASSUME Init PROVE LeadInv /\ LinkInv
  OBVIOUS
<1>1. \A m \in Node : /\ raft[m].log = << >> /\ disk[m].log = << >> /\ sent[m].log = << >>
                      /\ raft[m].role = "Follower"
  BY DEF Init, NewDisk, NewRaft, NewMessage
<1>2. \A l \in Logs : l = << >>
  BY <1>1 DEF Logs
<1>3. LinkInv
  BY <1>2 DEF LinkInv, Linked
<1>4. LeadInv
  BY <1>1 DEF LeadInv, LeadOK, IsLeader
<1> QED  BY <1>3, <1>4

\* Every step of a leader that began caught up leaves it so.
LEMMA LeadsNext ==
  ASSUME IndInv, IndInv', LogInv, BlocksInv, ChainInv, LeadInv, [Next]_vars,
         [\A n \in Node : TakesLead(n) => CaughtUp(n)]_vars
  PROVE  LeadInv'
<1>1. CASE UNCHANGED vars
  <2>1. UNCHANGED <<raft, disk, sent, validator, tree, leader_state, phase>>
    BY <1>1 DEF vars
  <2>2. ASSUME NEW n \in Node PROVE LeadOK(n)'
    <3>1. /\ IsLeader(n)' <=> IsLeader(n)
          /\ CaughtUp(n)' <=> CaughtUp(n)
      BY <2>1 DEF IsLeader, Up, CaughtUp, Outstanding
    <3>2. ASSUME NEW b
          PROVE  /\ Awaits(n, b)' <=> Awaits(n, b)
                 /\ HasProposed(n, b)' <=> HasProposed(n, b)
                 /\ Parent(b)' = Parent(b)
      BY <2>1 DEF Awaits, HasProposed, Outstanding, Parent
    <3>3. LeadOK(n)
      BY DEF LeadInv
    <3> QED  BY <2>1, <3>1, <3>2, <3>3 DEF LeadOK
  <2> QED  BY <2>2 DEF LeadInv
<1>2. CASE \A n \in Node : TakesLead(n) => CaughtUp(n)
  BY <1>2, LeadNext DEF LeadInv
<1> QED  BY <1>1, <1>2

\* Leaders propose on top of their logs
LEMMA LeadInvariance == Spec /\ LeadersCaughtUp => []LeadInv
<1> DEFINE Inv == IndInv /\ LogInv /\ BlocksInv /\ ChainInv
           H == \A n \in Node : TakesLead(n) => CaughtUp(n)
<1>1. Inv /\ Inv' /\ LeadInv /\ [Next]_vars /\ [H]_vars => LeadInv'
  BY LeadsNext
<1> HIDE DEF Inv
<1>2. Spec => []Inv
  BY ChainInvariance DEF Inv
<1> QED  BY <1>1, <1>2, LinkInit, PTL DEF Spec, LeadersCaughtUp

\* and the logs hold one chain each.
LEMMA LinkInvariance == Spec /\ LeadersCaughtUp /\ WholeOverwrites /\ []LogsMatch => []LinkInv
<1> DEFINE Inv == IndInv /\ LogInv /\ BlocksInv /\ ChainInv
<1>1. Inv /\ LeadInv /\ LinkInv /\ LogsMatch /\ [Next]_vars /\ [NoTornOverwrite]_vars => LinkInv'
  BY LinkedNext DEF LinkInv
<1> HIDE DEF Inv
<1>2. Spec => []Inv
  BY ChainInvariance DEF Inv
<1> QED  BY <1>1, <1>2, LinkInit, LeadInvariance, PTL DEF Spec, WholeOverwrites

\* A validator takes the next block of the log only after the one before it, which
\* is its parent.
LEMMA HeadMoves ==
  ASSUME IndInv, LogInv, ChainInv, LinkInv, [Next]_vars, NEW n \in Node,
         validator'[n].head # validator[n].head
  PROVE  Parent(validator'[n].head) = validator[n].head
<1> DEFINE h == validator[n].head
           f == Requested(n)[1]
           k == disk[n].log
           a == disk[n].applied
           c == disk[n].commit
<1>1. ChainMoves(n)
  BY NextChains
<1>2. Performs(n)
  BY <1>1 DEF ChainMoves, Stays, KeepsChain, AsksCommit
<1>3. 1 \in DOMAIN Requested(n)
  BY <1>2 DEF Performs, Requested, IndInv, TypeOK, ValidatorState
<1>4. /\ LastIn(k, a, h) \/ NextIn(k, a, c, h)
      /\ LastIn(k, a, f) \/ NextIn(k, a, c, f)
      /\ NextIn(k, a, c, h) => NextIn(k, a, c, f)
  BY <1>3 DEF ChainInv, ChainOK, Near, LastBlock, NextBlock
<1>5. /\ k \in Seq(Entry) /\ a \in Nat /\ c \in Nat /\ a <= c /\ c <= Len(k)
      /\ DOMAIN k = 1..Len(k) /\ Len(k) \in Nat
  BY StorageIndices
<1>6. Linked(k)
  BY LogsAre DEF LinkInv
<1>7. validator'[n].head = f /\ h # f
  BY <1>2 DEF Performs
<1> HIDE DEF h, f, k, a, c
<1>8. ~NextIn(k, a, c, h)
  BY <1>4, <1>5, <1>7, NextIsOne
<1>9. LastIn(k, a, h) /\ ~LastIn(k, a, f)
  BY <1>4, <1>5, <1>7, <1>8, LastIsOne
<1>10. PICK i \in (a + 1)..c : BlockAt(k, i, f) /\ BlocksBetween(k, a, i) = {i}
  BY <1>4, <1>9 DEF NextIn
<1>11. /\ i \in DOMAIN k /\ i - 1 \in Nat /\ a <= i - 1 /\ i # 0
  BY <1>5, <1>10
<1>12. LastIn(k, i - 1, Parent(f))
  BY <1>6, <1>10, <1>11 DEF Linked, BlockAt
<1>13. BlocksBetween(k, a, i - 1) = {}
  <2>1. ASSUME NEW x \in BlocksBetween(k, a, i - 1) PROVE FALSE
    <3>1. x \in BlocksBetween(k, a, i) /\ x # i
      BY <1>5, <1>10, <2>1 DEF BlocksBetween
    <3> QED  BY <1>10, <3>1
  <2> QED  BY <2>1
<1>14. LastIn(k, i - 1, h)
  BY <1>5, <1>9, <1>11, <1>13, LastMoves
<1>15. Parent(f) = h
  BY <1>11, <1>12, <1>14, LastIsOne
<1> QED  BY <1>7, <1>15 DEF h

\* Raft is non-forking as long as every leader begins caught up, for any number of
\* peers, blocks, elections, stops and membership changes: a validator only ever
\* moves from a block to one of its children.  This is for logs that match, as the
\* library means them to, and appends that no crash tears; the engine's own part in
\* a fork is the leader that process_ready lets build on a head behind its log.
THEOREM ForkFree ==
  Spec /\ LeadersCaughtUp /\ WholeOverwrites /\ []LogsMatch => NonForking
<1> DEFINE Inv == IndInv /\ LogInv /\ BlocksInv /\ ChainInv
           Child == \A n \in Node : validator'[n].head # validator[n].head =>
                      Parent(validator'[n].head) = validator[n].head
<1>1. Inv /\ LinkInv /\ [Next]_vars => Child
  BY HeadMoves
<1> HIDE DEF Inv
<1>2. Spec => []Inv
  BY ChainInvariance DEF Inv
<1> HIDE DEF Child
<1>3. Spec /\ LeadersCaughtUp /\ WholeOverwrites /\ []LogsMatch => [][Child]_vars
  BY <1>1, <1>2, LinkInvariance, PTL DEF Spec
<1> QED  BY <1>3 DEF NonForking, Child

\* As long as the settings do not change the peers, the logs match: whatever the
\* elections, stops and restarts, leaders that begin caught up do not fork the chain.
THEOREM FixedForkFree ==
  ASSUME ManyPeers
  PROVE  Spec /\ LeadersCaughtUp /\ WholeOverwrites => NonForking
<1>1. IndInv /\ RaftInv => LogsMatch
  BY LogsMatching DEF RaftInv
<1> QED  BY <1>1, RaftInvariance, Invariance, ForkFree, PTL

-----------------------------------------------------------------------------
(* The peers a leader builds with *)

Settled(n) == /\ CaughtUp(n) /\ Pending(n) = {}
              /\ raft_id_to_peer_id[n] = Settings(validator[n].head)

\* Every leader begins caught up, without a membership change under way and with
\* the peers its chain asks for.
LeadersSettled == [][\A n \in Node : TakesLead(n) => Settled(n)]_vars

\* A leader has a change under way only in the ChangingConfig state, and it is the
\* one that leads to the peers of its head.
ConfOK(n) == Up(n) =>
  /\ leader_state[n] = Building => raft_id_to_peer_id[n] = Settings(validator[n].building)
  /\ IsLeader(n) /\ leader_state[n] \notin {None, ChangingConfig} => Pending(n) = {}
  /\ IsLeader(n) /\ leader_state[n] = ChangingConfig => \A i \in Pending(n) :
       Pending(n) = {i} /\ ChangedPeers(n, raft[n].log[i]) = Settings(validator[n].head)

ConfInv == \A n \in Node : ConfOK(n)

\* The settings of a block of the chain stay.
LEMMA SettingsStay ==
  ASSUME IndInv, IndInv', BlocksInv, ChainInv, [Next]_vars, NEW n \in Node,
         NEW b, InLog(disk[n].log, b, disk[n].commit)
  PROVE  Settings(b)' = Settings(b)
<1>1. TreeGrows
  BY NextValidators DEF ValidatorsMove
<1>2. b = Genesis \/ b \in DOMAIN tree
  <2>1. PICK i \in 0..disk[n].commit : BlockAt(disk[n].log, i, b)
    BY DEF InLog
  <2>2. /\ disk[n].log \in Seq(Entry)
        /\ \A j \in DOMAIN disk[n].log :
             IsBlock(disk[n].log[j]) => disk[n].log[j].block \in DOMAIN tree
    BY LogsAre, LogsValid
  <2>3. i # 0 => i \in DOMAIN disk[n].log
    BY <2>1, <2>2, StorageIndices
  <2> QED  BY <2>1, <2>2, <2>3 DEF BlockAt
<1>3. Genesis \notin DOMAIN tree /\ Genesis \notin DOMAIN tree'
  <2>1. tree \in Seq(BlockRecord) /\ tree' \in Seq(BlockRecord)
    BY DEF IndInv, TypeOK
  <2> QED  BY <2>1 DEF Genesis
<1> QED  BY <1>1, <1>2, <1>3 DEF TreeGrows, Settings

\* The head of a leader whose block is committed is that block.
LEMMA CommittedIsHead ==
  ASSUME IndInv, LogInv, ChainInv, NEW n \in Node, NEW b \in BlockId, Up(n),
         Commits(n) # << >>, Commits(n)[1].block = b, Commit(b) \in validator[n].inbox
  PROVE  validator[n].head = b
<1> DEFINE j == Commits(n)[1].entry
           k == disk[n].log
<1>1. j \in (disk[n].applied + 1)..disk[n].commit /\ BlockAt(k, j, b)
  BY FrontIsNextBlock
<1>2. /\ k \in Seq(Entry) /\ OnceIn(k)
      /\ disk[n].applied \in Nat /\ disk[n].commit \in Nat
      /\ disk[n].applied <= disk[n].commit /\ disk[n].commit <= Len(k) /\ Len(k) \in Nat
  <2>1. OnceIn(k)
    BY LogsAre, OnceInLogs
  <2> QED  BY <2>1, StorageIndices
<1> HIDE DEF j
<1>3. ASSUME NEW i \in 1..disk[n].applied, BlockAt(k, i, b) PROVE FALSE
  <2>1. i \in 0..Len(k) /\ j \in 0..Len(k) /\ i # j
    BY <1>1, <1>2
  <2> HIDE DEF k
  <2> QED  BY <1>1, <1>2, <1>3, <2>1, OnceAt
<1> QED  BY <1>3 DEF ChainInv, ChainOK

\* The change that check_for_conf_change proposes for a block leads to the peers of
\* its settings.
LEMMA ChangeLeadsTo ==
  ASSUME IndInv, NEW n \in Node, NEW b \in BlockId, NEW x \in Difference(n, b),
         Cardinality(Difference(n, b)) <= 1, NEW t
  PROVE  ChangedPeers(n, ConfEntry(t, Change(n, b), x)) = Settings(b)
<1> DEFINE P == raft_id_to_peer_id[n]
           S == Settings(b)
           D == Difference(n, b)
<1>1. P \subseteq Node /\ S \subseteq Node /\ D = (S \ P) \cup (P \ S)
  BY SettingsLemma DEF IndInv, TypeOK, Difference
<1>2. IsFiniteSet(P) /\ IsFiniteSet(S) /\ IsFiniteSet(D)
  BY <1>1, NodeAssumption, FS_Subset
<1> HIDE DEF P, S, D
<1>3. Cardinality(P) \in Nat /\ Cardinality(S) \in Nat /\ Cardinality(D) \in Nat
  BY <1>2, FS_CardinalityType
<1>4. x \in D /\ Cardinality(D) <= 1
  BY DEF D
<1>5. D = {x}
  <2>1. Cardinality(D \ {x}) = Cardinality(D) - 1 /\ IsFiniteSet(D \ {x})
    BY <1>2, <1>4, FS_RemoveElement
  <2>2. Cardinality(D \ {x}) \in Nat
    BY <2>1, FS_CardinalityType
  <2>3. Cardinality(D \ {x}) = 0
    BY <1>3, <1>4, <2>1, <2>2
  <2>4. D \ {x} = {}
    BY <2>1, <2>3, FS_EmptySet
  <2> QED  BY <1>4, <2>4
<1>6. CASE x \in S
  <2>1. x \notin P /\ S = P \cup {x}
    BY <1>1, <1>5, <1>6
  <2>2. Cardinality(S) = Cardinality(P) + 1
    BY <1>2, <2>1, FS_AddElement
  <2>3. Change(n, b) = "AddNode"
    BY <1>3, <2>2 DEF Change, P, S
  <2> QED  BY <2>1, <2>3 DEF ChangedPeers, ConfEntry, P, S
<1>7. CASE x \notin S
  <2>1. x \in P /\ P = S \cup {x} /\ S = P \ {x}
    BY <1>1, <1>5, <1>7
  <2>2. Cardinality(P) = Cardinality(S) + 1
    BY <1>2, <1>7, <2>1, FS_AddElement
  <2>3. Change(n, b) = "RemoveNode"
    BY <1>3, <2>2 DEF Change, P, S
  <2> QED  BY <2>1, <2>3 DEF ChangedPeers, ConfEntry, P, S
<1> QED  BY <1>6, <1>7

\* A new entry at the end of the log, and the changes that are not applied.
LEMMA PendingAppended ==
  ASSUME NEW n, NEW l \in Seq(Entry), NEW e \in Entry, NEW d \in Nat, d <= Len(l),
         raft[n].log = l, raft[n].delivered = d,
         Appended(raft'[n].log, l, e), raft'[n].delivered = d, Pending(n) = {}
  PROVE  /\ Pending(n)' \subseteq {Len(l) + 1} /\ raft'[n].log[Len(l) + 1] = e
         /\ ~IsConf(e) => Pending(n)' = {}
<1> DEFINE k == raft'[n].log
<1>1. /\ Len(l) \in Nat /\ Len(k) = Len(l) + 1 /\ k[Len(l) + 1] = e
      /\ \A i \in 1..Len(l) : k[i] = l[i]
  BY AppendedLemma
<1>2. Pending(n)' = {i \in (d + 1)..Len(k) : IsConf(k[i])}
  BY DEF Pending
<1>3. \A i \in (d + 1)..Len(l) : ~IsConf(l[i])
  BY DEF Pending
<1> HIDE DEF k
<1>4. ASSUME NEW i \in Pending(n)' PROVE i = Len(l) + 1 /\ IsConf(e)
  <2>1. i \in (d + 1)..Len(k) /\ IsConf(k[i])
    BY <1>2
  <2>2. i \notin (d + 1)..Len(l)
    <3>1. ASSUME i \in (d + 1)..Len(l) PROVE FALSE
      <4>1. i \in 1..Len(l)
        BY <1>1, <3>1
      <4> QED  BY <1>1, <1>3, <2>1, <3>1, <4>1
    <3> QED  BY <3>1
  <2>3. i = Len(l) + 1
    BY <1>1, <2>1, <2>2
  <2> QED  BY <1>1, <2>1, <2>3
<1> QED  BY <1>1, <1>4 DEF k

\* A leader that begins settled builds with the peers of the block it builds on.
LEMMA ConfNext ==
  ASSUME IndInv, IndInv', LogInv, BlocksInv, ChainInv, LeadInv, ConfInv, [Next]_vars,
         NEW n \in Node, TakesLead(n) => Settled(n)
  PROVE  ConfOK(n)'
<1> SUFFICES ASSUME Up(n)', leader_state'[n] # None
             PROVE  ConfOK(n)'
  BY LeaderStates DEF ConfOK
<1> DEFINE l == raft[n].log
           d == raft[n].delivered
           P == raft_id_to_peer_id[n]
<1>1. LeadMoves(n) /\ ConfOK(n) /\ LeadOK(n)
  BY LeaderStep DEF ConfInv, LeadInv
<1>2. Up(n) => l \in Seq(Entry) /\ d \in Nat /\ d <= Len(l) /\ Len(l) \in Nat
  <2>1. l \in Seq(Entry)
    BY Indices
  <2>2. Up(n) => d \in Nat /\ d <= Len(l) /\ Len(l) \in Nat
    BY LibraryIndices
  <2> QED  BY <2>1, <2>2
<1>3. CASE Goes(n)
  <2>1. /\ Up(n) /\ validator'[n].building = validator[n].building
        /\ IsLeader(n)' => IsLeader(n) /\ raft'[n].log = l /\ d <= raft'[n].delivered
        /\ \/ leader_state'[n] = leader_state[n]
           \/ \E b \in BlockId :
                \/ leader_state[n] = Publishing(b) /\ leader_state'[n] = Validating(b)
                \/ leader_state[n] = Proposing(b) /\ leader_state'[n] = Committing(b)
    BY <1>3 DEF Goes
  <2>2. /\ leader_state'[n] = Building => leader_state[n] = Building
        /\ leader_state'[n] = ChangingConfig => leader_state[n] = ChangingConfig
        /\ leader_state'[n] # ChangingConfig =>
             leader_state[n] \notin {None, ChangingConfig}
    BY <2>1, LeaderStates
  <2>3. raft_id_to_peer_id'[n] = P
    <3>1. CASE IsLeader(n) /\ leader_state[n] # ChangingConfig /\ d + 1 \in Pending(n)
      <4>1. leader_state[n] # None
        BY <2>1, LeaderStates
      <4> QED  BY <1>1, <2>1, <3>1, <4>1 DEF ConfOK
    <3> QED  BY <1>3, <3>1 DEF Goes
  <2>4. IsLeader(n)' => Pending(n)' \subseteq Pending(n)
    <3>1. raft'[n].delivered \in Nat
      BY DEF IndInv, TypeOK, Raft
    <3> QED  BY <1>2, <2>1, <3>1 DEF Pending
  <2>5. ASSUME leader_state'[n] = Building
        PROVE  raft_id_to_peer_id'[n] = Settings(validator[n].building)'
    <3>1. PICK h : h = validator[n].building
      OBVIOUS
    <3>2. P = Settings(h)
      BY <1>1, <2>1, <2>2, <2>5, <3>1 DEF ConfOK
    <3>3. h # NoBlock
      <4>1. BuildOK(n)
        BY <2>1 DEF IndInv, NodeOK
      <4> QED  BY <2>2, <2>5, <3>1, <4>1 DEF BuildOK
    <3>4. InLog(disk[n].log, h, disk[n].commit)
      BY <3>1, <3>3 DEF ChainInv, BuildingOK
    <3>5. Settings(h)' = Settings(h)
      BY <3>4, SettingsStay
    <3> QED  BY <2>1, <2>3, <3>1, <3>2, <3>5
  <2>6. ASSUME IsLeader(n)', leader_state'[n] # ChangingConfig PROVE Pending(n)' = {}
    <3>1. Pending(n) = {}
      BY <1>1, <2>1, <2>2, <2>6 DEF ConfOK
    <3> QED  BY <2>4, <2>6, <3>1
  <2>7. ASSUME IsLeader(n)', leader_state'[n] = ChangingConfig, NEW i \in Pending(n)'
        PROVE  Pending(n)' = {i} /\ ChangedPeers(n, raft[n].log[i])'
                                      = Settings(validator[n].head)'
    <3>1. /\ IsLeader(n) /\ leader_state[n] = ChangingConfig /\ raft'[n].log = l
          /\ i \in Pending(n)
      BY <2>1, <2>2, <2>4, <2>7
    <3>2. Pending(n) = {i} /\ ChangedPeers(n, l[i]) = Settings(validator[n].head)
      BY <1>1, <2>1, <3>1 DEF ConfOK
    <3>3. CaughtUp(n)
      BY <1>1, <3>1 DEF LeadOK
    <3>4. validator'[n].head = validator[n].head
      BY <2>1, <3>3, HeadKept
    <3>5. PICK h : h = validator[n].head
      OBVIOUS
    <3>6. InLog(disk[n].log, h, disk[n].commit)
      BY <3>5, HeadInLog DEF ChainInv
    <3>7. Settings(h)' = Settings(h)
      BY <3>6, SettingsStay
    <3>8. Settings(validator[n].head)' = Settings(validator[n].head)
      BY <3>4, <3>5, <3>7
    <3>9. ChangedPeers(n, raft[n].log[i])' = ChangedPeers(n, l[i])
      BY <2>3, <3>1 DEF ChangedPeers
    <3> QED  BY <2>4, <2>7, <3>2, <3>8, <3>9
  <2> QED  BY <2>5, <2>6, <2>7 DEF ConfOK
<1>4. CASE Tick(n) /\ Publish(n)
  <2>1. /\ Up(n) /\ leader_state[n] = Building /\ LeadsOn(n) /\ raft'[n].log = l
        /\ \E b \in BlockId : leader_state'[n] = Publishing(b)
    BY <1>4, PublishFacts
  <2>2. IsLeader(n)' => Pending(n)' = {}
    <3> SUFFICES ASSUME IsLeader(n)' PROVE Pending(n)' = {}
      OBVIOUS
    <3>1. IsLeader(n)
      BY <2>1 DEF IsLeader, LeadsOn
    <3>2. Pending(n) = {}
      BY <1>1, <2>1, <3>1, LeaderStates DEF ConfOK
    <3> QED  BY <2>1, <3>2 DEF Pending, LeadsOn
  <2> QED  BY <2>1, <2>2, LeaderStates DEF ConfOK
<1>5. ASSUME NEW b \in BlockId, OnBlockValid(n, b), Awaits(n, b) PROVE ConfOK(n)'
  <2>1. /\ IsLeader(n) /\ Up(n) /\ leader_state'[n] = Proposing(b) /\ LeadsOn(n)
    BY <1>5, ProposeFacts DEF IsLeader
  <2>2. PICK e \in Entry : Appended(raft'[n].log, l, e) /\ ~IsConf(e)
    BY <1>5, ProposeFacts
  <2>3. Pending(n) = {}
    BY <1>1, <1>5, <2>1, LeaderStates DEF ConfOK, Awaits
  <2>4. Pending(n)' = {}
    BY <1>2, <2>1, <2>2, <2>3, PendingAppended DEF LeadsOn
  <2> QED  BY <2>1, <2>4, LeaderStates DEF ConfOK
<1>6. ASSUME NEW b \in BlockId, LeaderOnBlockCommit(n, b) PROVE ConfOK(n)'
  <2>1. /\ IsLeader(n) /\ Up(n) /\ leader_state[n] = Committing(b) /\ LeadsOn(n)
        /\ Commits(n) # << >> /\ Commits(n)[1].block = b
        /\ Commit(b) \in validator[n].inbox
        /\ validator'[n].head = validator[n].head /\ tree' = tree
    BY <1>6, CommitFacts DEF IsLeader
  <2>2. validator[n].head = b
    BY <2>1, CommittedIsHead
  <2>3. Pending(n) = {}
    <3>1. leader_state[n] \notin {None, ChangingConfig}
      BY <2>1, LeaderStates
    <3> QED  BY <1>1, <2>1, <3>1 DEF ConfOK
  <2>4. Settings(b)' = Settings(b) /\ validator'[n].head = b
    BY <2>1, <2>2 DEF Settings
  <2>5. CASE Difference(n, b) = {}
    <3>1. /\ leader_state'[n] = Building /\ validator'[n].building = b
          /\ raft'[n].log = l
      BY <1>6, <2>2, <2>5, CommitFacts
    <3>2. P = Settings(b)
      BY <2>5 DEF Difference
    <3>3. Pending(n)' = {}
      BY <2>1, <2>3, <3>1 DEF Pending, LeadsOn
    <3>4. raft_id_to_peer_id'[n] = Settings(validator[n].building)'
      BY <2>1, <2>4, <3>1, <3>2 DEF LeadsOn
    <3> QED  BY <3>1, <3>3, <3>4, LeaderStates DEF ConfOK
  <2>6. CASE Difference(n, b) # {}
    <3>1. leader_state'[n] = ChangingConfig /\ Cardinality(Difference(n, b)) <= 1
      BY <1>6, <2>6, CommitFacts
    <3>2. PICK x \in Difference(n, b), e \in Entry :
            /\ Appended(raft'[n].log, l, e)
            /\ ConfPending(raft[n]) \/ e = ConfEntry(raft[n].term, Change(n, b), x)
      BY <1>6, <2>6, CommitFacts
    <3>3. ~ConfPending(raft[n])
      BY <2>3 DEF ConfPending, Pending
    <3>4. ChangedPeers(n, e) = Settings(b)
      BY <3>1, <3>2, <3>3, ChangeLeadsTo
    <3>5. Pending(n)' \subseteq {Len(l) + 1} /\ raft'[n].log[Len(l) + 1] = e
      BY <1>2, <2>1, <2>3, <3>2, PendingAppended DEF LeadsOn
    <3>6. ASSUME NEW i \in Pending(n)'
          PROVE  Pending(n)' = {i} /\ ChangedPeers(n, raft[n].log[i])'
                                        = Settings(validator[n].head)'
      <4>1. i = Len(l) + 1 /\ Pending(n)' = {i} /\ raft'[n].log[i] = e
        BY <3>5, <3>6
      <4>2. ChangedPeers(n, raft[n].log[i])' = ChangedPeers(n, e)
        BY <2>1, <4>1 DEF ChangedPeers, LeadsOn
      <4> QED  BY <2>4, <3>4, <4>1, <4>2
    <3> QED  BY <3>1, <3>6, LeaderStates DEF ConfOK
  <2> QED  BY <2>5, <2>6
<1>7. CASE DeliverConfChange(n) /\ leader_state[n] = ChangingConfig
  <2>1. /\ IsLeader(n) /\ leader_state'[n] = Building
        /\ validator'[n].building = validator[n].head /\ tree' = tree
        /\ raft'[n].log = l /\ raft'[n].delivered = d + 1 /\ d + 1 \in Pending(n)
        /\ raft_id_to_peer_id'[n] = ChangedPeers(n, l[d + 1])
    BY <1>7, ChangeFacts
  <2>2. Up(n)
    BY <2>1 DEF IsLeader
  <2>3. Pending(n) = {d + 1} /\ ChangedPeers(n, l[d + 1]) = Settings(validator[n].head)
    BY <1>1, <1>7, <2>1, <2>2 DEF ConfOK
  <2>4. Pending(n)' = {}
    <3>1. ASSUME NEW i \in Pending(n)' PROVE FALSE
      <4>1. i \in (d + 1 + 1)..Len(l) /\ IsConf(l[i])
        BY <2>1, <3>1 DEF Pending
      <4>2. i \in Pending(n) /\ i # d + 1
        BY <1>2, <2>2, <4>1 DEF Pending
      <4> QED  BY <2>3, <4>2
    <3> QED  BY <3>1
  <2>5. raft_id_to_peer_id'[n] = Settings(validator[n].building)'
    BY <2>1, <2>3 DEF Settings
  <2> QED  BY <2>1, <2>4, <2>5, LeaderStates DEF ConfOK
<1>8. CASE TakesLead(n)
  <2>1. Settled(n) /\ CaughtUp(n)
    BY <1>8 DEF Settled
  <2>2. /\ leader_state'[n] = Building /\ LeadsOn(n) /\ raft'[n].log = l
        /\ validator'[n].building = validator[n].head /\ tree' = tree
    BY <1>8, <2>1, LeadFacts
  <2>3. Pending(n)' = {}
    BY <2>1, <2>2 DEF Pending, LeadsOn, Settled
  <2>4. raft_id_to_peer_id'[n] = Settings(validator[n].building)'
    BY <2>1, <2>2 DEF Settled, LeadsOn, Settings
  <2> QED  BY <2>2, <2>3, <2>4, LeaderStates DEF ConfOK
<1> QED  BY <1>1, <1>3, <1>4, <1>5, <1>6, <1>7, <1>8 DEF LeadMoves

\* Nobody builds at first.
LEMMA ConfInit == Init => ConfInv
<1> SUFFICES ASSUME Init PROVE ConfInv
  OBVIOUS
<1>1. \A n \in Node : leader_state[n] = None
  BY DEF Init
<1> QED  BY <1>1, LeaderStates DEF ConfInv, ConfOK

\* A leader that on_block_commit or apply_conf_change lets build has the peers that
\* the block it builds on asks for, for any number of peers, blocks, elections,
\* stops and membership changes, as long as every leader begins settled.
THEOREM BuildsInstalled == Spec /\ LeadersSettled => []BuildingOnInstalledPeers
<1> DEFINE Inv == IndInv /\ LogInv /\ BlocksInv /\ ChainInv
           H == \A n \in Node : TakesLead(n) => Settled(n)
           G == \A n \in Node : TakesLead(n) => CaughtUp(n)
<1>1. Inv /\ Inv' /\ LeadInv /\ ConfInv /\ [Next]_vars /\ [H]_vars => ConfInv'
  <2> SUFFICES ASSUME Inv, Inv', LeadInv, ConfInv, [Next]_vars, [H]_vars PROVE ConfInv'
    OBVIOUS
  <2>1. CASE UNCHANGED vars
    <3>1. UNCHANGED <<raft, validator, tree, leader_state, raft_id_to_peer_id, phase>>
      BY <2>1 DEF vars
    <3>2. ASSUME NEW n \in Node PROVE ConfOK(n)'
      <4>1. /\ Up(n)' <=> Up(n)
            /\ IsLeader(n)' <=> IsLeader(n)
            /\ Pending(n)' = Pending(n)
            /\ Settings(validator[n].building)' = Settings(validator[n].building)
            /\ Settings(validator[n].head)' = Settings(validator[n].head)
            /\ \A i : ChangedPeers(n, raft[n].log[i])' = ChangedPeers(n, raft[n].log[i])
        BY <3>1 DEF Up, IsLeader, Pending, Settings, ChangedPeers
      <4>2. ConfOK(n)
        BY DEF ConfInv
      <4> QED  BY <3>1, <4>1, <4>2 DEF ConfOK
    <3> QED  BY <3>2 DEF ConfInv
  <2>2. CASE H
    BY <2>2, ConfNext DEF ConfInv
  <2> QED  BY <2>1, <2>2
<1>2. [H]_vars => [G]_vars
  BY DEF Settled
<1>3. ConfInv => BuildingOnInstalledPeers
  BY DEF ConfInv, ConfOK, BuildingOnInstalledPeers
<1> HIDE DEF Inv, H, G
<1>4. Spec => []Inv
  BY ChainInvariance DEF Inv
<1>5. LeadersSettled <=> [][H]_vars
  BY DEF LeadersSettled, H
<1>6. LeadersCaughtUp <=> [][G]_vars
  BY DEF LeadersCaughtUp, G
<1> QED
  BY <1>1, <1>2, <1>3, <1>4, <1>5, <1>6, ConfInit, LeadInvariance, PTL DEF Spec

-----------------------------------------------------------------------------
(* The first election *)

\* No engine campaigns more than once, and none is stopped (it may panic and be
\* started again).
OneElection == MaxTerm <= 2 /\ MaxStops = 0

\* An engine that has not heard of the first election, or takes part in it, has an
\* empty log and the first peers; one that has won it has no more than its own
\* empty entry.
NewLog(n) == raft[n].log = << >> /\ raft_id_to_peer_id[n] = InitPeers

FirstLog(n) == /\ raft_id_to_peer_id[n] = InitPeers
               /\ \A i \in DOMAIN raft[n].log :
                    ~IsBlock(raft[n].log[i]) /\ ~IsConf(raft[n].log[i])

FirstOK(n) ==
  /\ disk[n].term = 1 => disk[n].log = << >>
  /\ sent[n].term = 1 => sent[n].log = << >>
  /\ Up(n) => /\ raft[n].role # "Follower" => raft[n].term # 1
              /\ raft[n].term = 1 \/ raft[n].role = "Candidate" => NewLog(n)
              /\ SteppedUp(n) => FirstLog(n)

FirstInv == \A n \in Node : FirstOK(n)

\* The part about the library, after a step of it that keeps the peers.
LibraryOK(n) ==
  /\ raft[n].role # "Follower" => raft[n].term # 1
  /\ raft[n].term = 1 \/ raft[n].role = "Candidate" => NewLog(n)
  /\ SteppedUp(n) => FirstLog(n)

\* The library's memory stays
LEMMA KeepsFirst ==
  ASSUME NEW n \in Node, LibraryOK(n),
         raft'[n].role = raft[n].role, raft'[n].term = raft[n].term,
         raft'[n].log = raft[n].log, raft_id_to_peer_id'[n] = raft_id_to_peer_id[n],
         raft'[n].role = "Leader" /\ leader_state'[n] = None => leader_state[n] = None
  PROVE  LibraryOK(n)'
<1>1. NewLog(n)' <=> NewLog(n)
  BY DEF NewLog
<1>2. FirstLog(n)' <=> FirstLog(n)
  BY DEF FirstLog
<1>3. SteppedUp(n)' => SteppedUp(n)
  BY DEF SteppedUp
<1> QED  BY <1>1, <1>2, <1>3 DEF LibraryOK

\* A leader appends what is no business of this invariant
LEMMA AppendsFirst ==
  ASSUME IndInv, NEW n \in Node, Up(n), LibraryOK(n), Appends(n), leader_state'[n] # None
  PROVE  LibraryOK(n)'
<1> DEFINE r == raft[n]
           q == raft'[n]
           voters == raft_id_to_peer_id[n]
<1>1. r \in Raft /\ r.commit <= Len(r.log)
  BY Indices
<1>2. PICK e : e \in Entry /\ r.role = "Leader" /\ q = AppendAsLeader(n, r, e, voters)
  BY DEF Appends, Fresh
<1> HIDE DEF r, q, voters
<1>3. q.role = "Leader" /\ q.term = r.term
  <2>1. e \in Entry /\ r \in Raft /\ r.commit <= Len(r.log)
    BY <1>1, <1>2
  <2>2. q = AppendAsLeader(n, r, e, voters) /\ r.role = "Leader"
    BY <1>2
  <2>3. q.role = r.role
    BY <2>1, <2>2 DEF AppendAsLeader, CommitAlone, Raft
  <2>4. q.term = r.term
    BY <2>1, <2>2, AppendAsLeaderFields
  <2> QED  BY <2>2, <2>3, <2>4
<1>4. raft'[n].role = "Leader" /\ raft'[n].term # 1
  BY <1>2, <1>3 DEF LibraryOK, r, q
<1> QED  BY <1>4 DEF LibraryOK, SteppedUp

\* A leader's first entry
LEMMA FirstEntry ==
  ASSUME NEW k, NEW t \in Term, Appended(k, << >>, EmptyEntry(t))
  PROVE  \A i \in DOMAIN k : ~IsBlock(k[i]) /\ ~IsConf(k[i])
<1>1. << >> \in Seq(Entry) /\ EmptyEntry(t) \in Entry
  BY EntryTypes
<1>2. k \in Seq(Entry) /\ Len(k) = 1 /\ k[1] = EmptyEntry(t)
  <2> DEFINE e == EmptyEntry(t)
  <2>1. e \in Entry /\ Appended(k, << >>, e)
    BY <1>1
  <2> HIDE DEF e
  <2>2. k \in Seq(Entry) /\ Len(k) = Len(<< >>) + 1 /\ k[Len(<< >>) + 1] = e
    BY <1>1, <2>1, AppendedLemma
  <2>3. k \in Seq(Entry) /\ Len(k) = 1 /\ k[1] = e
    BY <2>2
  <2> QED  BY <2>3 DEF e
<1> QED  BY <1>2, EmptyEntryLemma

\* step
LEMMA StepsFirst ==
  ASSUME IndInv, FirstInv, NEW n \in Node, Up(n), Steps(n),
         leader_state'[n] = leader_state[n],
         raft_id_to_peer_id'[n] = raft_id_to_peer_id[n]
  PROVE  LibraryOK(n)'
<1> DEFINE r == raft[n]
           q == raft'[n]
           voters == raft_id_to_peer_id[n]
<1>1. r \in Raft /\ r.commit <= Len(r.log) /\ r.term \in Term
  BY Indices DEF Raft
<1>2. LibraryOK(n)
  BY DEF FirstInv, FirstOK, LibraryOK
<1>3. r.term \in Nat /\ r.term >= 1
  BY <1>1 DEF Term
<1> HIDE DEF r, q, voters
<1>4. ASSUME NEW m \in Node, HearsCandidate(n, m) PROVE LibraryOK(n)'
  <2>1. sent[m] \in Message /\ sent[m].term >= r.term /\ q = HandleRequestVote(r, sent[m], m)
    BY <1>4 DEF IndInv, TypeOK, HearsCandidate, r, q
  <2>2. /\ q.role = IF sent[m].term > r.term THEN "Follower" ELSE r.role
        /\ q.term = sent[m].term /\ q.log = r.log
    BY <1>1, <2>1, HandleRequestVoteFields
  <2>3. sent[m].term \in Nat
    BY <2>1 DEF Message, Term
  <2>4. CASE sent[m].term > r.term
    <3>1. q.role = "Follower" /\ q.term # 1
      BY <1>3, <2>2, <2>3, <2>4
    <3> QED  BY <3>1 DEF LibraryOK, SteppedUp, q
  <2>5. CASE ~(sent[m].term > r.term)
    <3>1. q.role = r.role /\ q.term = r.term /\ q.log = r.log
      BY <1>3, <2>1, <2>2, <2>3, <2>5
    <3> QED  BY <1>2, <3>1, KeepsFirst DEF r, q
  <2> QED  BY <2>4, <2>5
<1>5. ASSUME NEW m \in Node, HearsLeader(n, m) PROVE LibraryOK(n)'
  <2>1. sent[m] \in Message /\ sent[m].term >= r.term /\ q = HandleAppend(r, sent[m])
    BY <1>5 DEF IndInv, TypeOK, HearsLeader, r, q
  <2>2. /\ q.role = "Follower" /\ q.term = sent[m].term
        /\ q.log = Received(r.log, sent[m].log)
    BY <1>1, <2>1, HandleAppendFields
  <2>3. sent[m].term \in Nat
    BY <2>1 DEF Message, Term
  <2>4. ASSUME q.term = 1 PROVE NewLog(n)'
    <3>1. r.term = 1 /\ sent[m].term = 1
      BY <1>3, <2>1, <2>2, <2>3, <2>4
    <3>2. sent[m].log = << >>
      BY <3>1 DEF FirstInv, FirstOK
    <3>3. r.log = << >> /\ raft_id_to_peer_id[n] = InitPeers
      BY <1>2, <3>1 DEF LibraryOK, NewLog, r
    <3>4. q.log = << >>
      BY <2>2, <3>2, <3>3 DEF Received, UpToLast
    <3> QED  BY <3>3, <3>4 DEF NewLog, q
  <2> QED  BY <2>2, <2>4 DEF LibraryOK, SteppedUp, q
<1>6. CASE Wins(n)
  <2>1. r.role = "Candidate" /\ q = BecomeLeader(n, r, voters)
    BY <1>6 DEF Wins, r, q, voters
  <2>2. q.role = "Leader" /\ q.term = r.term /\ Appended(q.log, r.log, EmptyEntry(r.term))
    <3>1. r \in Raft /\ r.commit <= Len(r.log) /\ q = BecomeLeader(n, r, voters)
      BY <1>1, <2>1
    <3>2. q.role = "Leader"
      BY <3>1, BecomeLeaderFields
    <3>3. q.term = r.term
      BY <3>1, BecomeLeaderFields
    <3>4. Appended(q.log, r.log, EmptyEntry(r.term))
      BY <3>1, BecomeLeaderFields
    <3> QED  BY <3>2, <3>3, <3>4
  <2>3. r.term # 1 /\ r.log = << >> /\ raft_id_to_peer_id[n] = InitPeers
    BY <1>2, <2>1 DEF LibraryOK, NewLog, r
  <2>4. \A i \in DOMAIN q.log : ~IsBlock(q.log[i]) /\ ~IsConf(q.log[i])
    BY <1>1, <2>2, <2>3, FirstEntry
  <2>5. FirstLog(n)'
    BY <2>3, <2>4 DEF FirstLog, q
  <2> QED  BY <2>2, <2>3, <2>5 DEF LibraryOK, q
<1>7. CASE Advances(n)
  <2>1. PICK i : q = [r EXCEPT !.commit = i, !.msgs = "waiting"]
    BY <1>7 DEF Advances, r, q
  <2>2. q.role = r.role /\ q.term = r.term /\ q.log = r.log
    BY <1>1, <2>1 DEF Raft
  <2> QED  BY <1>2, <2>2, KeepsFirst DEF r, q
<1> QED  BY <1>4, <1>5, <1>6, <1>7 DEF Steps

\* handle_update
LEMMA HandleUpdateFirst ==
  ASSUME IndInv, FirstInv, NEW n \in Node, HandleUpdate(n)
  PROVE  LibraryOK(n)'
<1>1. /\ TypeOK /\ Up(n) /\ raft[n] \in Raft
      /\ raft_id_to_peer_id' = raft_id_to_peer_id
  BY DEF IndInv, TypeOK, HandleUpdate, OnBlockNew, OnBlockValid, OnBlockInvalid,
         OnBlockCommit, LeaderOnBlockCommit, FollowerOnBlockCommit, IgnoreBlockCommit,
         PopCommitted, OnPeerMessage, StepMessage, Up, Running
<1>2. LibraryOK(n)
  BY <1>1 DEF FirstInv, FirstOK, LibraryOK
<1>3. ASSUME NEW b \in BlockId, OnBlockNew(n, b) PROVE LibraryOK(n)'
  <2>1. raft' = raft /\ leader_state'[n] =
          IF leader_state[n] = Publishing(b) THEN Validating(b) ELSE leader_state[n]
    BY <1>1, <1>3 DEF OnBlockNew, TypeOK
  <2> QED  BY <1>1, <1>2, <2>1, LeaderStates, KeepsFirst
<1>4. ASSUME raft' = raft, leader_state' = leader_state PROVE LibraryOK(n)'
  BY <1>1, <1>2, <1>4, KeepsFirst
<1>5. ASSUME NEW b \in BlockId, OnBlockValid(n, b) PROVE LibraryOK(n)'
  <2>1. CASE Awaits(n, b)
    <3>1. leader_state'[n] = Proposing(b) /\ IsLeader(n)
      BY <1>5, <2>1, ProposeFacts
    <3>2. Appends(n)
      <4>1. BlockEntry(raft[n].term, b) \in Entry
        BY <1>1, EntryTypes DEF Raft
      <4>2. raft'[n] = AppendAsLeader(n, raft[n], BlockEntry(raft[n].term, b),
                                      raft_id_to_peer_id[n])
        BY <1>1, <1>5, <2>1 DEF OnBlockValid, Awaits, Propose, TypeOK
      <4>3. Fresh(n, BlockEntry(raft[n].term, b))
        BY <1>5, <2>1, <3>1, <4>1 DEF Fresh, OnBlockValid, BlockEntry, IsConf
      <4> QED  BY <3>1, <4>2, <4>3 DEF Appends, IsLeader
    <3> QED  BY <1>1, <1>2, <3>1, <3>2, LeaderStates, AppendsFirst
  <2>2. CASE ~Awaits(n, b)
    BY <1>4, <1>5, <2>2 DEF OnBlockValid, Awaits
  <2> QED  BY <2>1, <2>2
<1>6. ASSUME NEW b \in BlockId, LeaderOnBlockCommit(n, b) PROVE LibraryOK(n)'
  <2>1. leader_state'[n] # None
    BY <1>6, CommitFacts, LeaderStates
  <2>2. Keeps(n) \/ Appends(n)
    BY <1>6, LeaderOnBlockCommitMoves DEF Pops
  <2>3. CASE Keeps(n)
    BY <1>1, <1>2, <2>1, <2>3, KeepsFirst DEF Keeps
  <2>4. CASE Appends(n)
    BY <1>1, <1>2, <2>1, <2>4, AppendsFirst
  <2> QED  BY <2>2, <2>3, <2>4
<1>7. ASSUME NEW b \in BlockId,
             OnBlockInvalid(n, b) \/ FollowerOnBlockCommit(n, b) \/ IgnoreBlockCommit(n, b)
      PROVE  LibraryOK(n)'
  BY <1>4, <1>7 DEF OnBlockInvalid, FollowerOnBlockCommit, IgnoreBlockCommit
<1>8. ASSUME NEW m \in Node, StepMessage(n, m) PROVE LibraryOK(n)'
  <2>1. Steps(n) /\ leader_state' = leader_state
    <3>1. raft \in [Node -> Raft]
      BY <1>1 DEF TypeOK
    <3> QED
      BY <1>8, <3>1 DEF StepMessage, Steps, HearsCandidate, HearsLeader, Wins, Advances
  <2> QED  BY <1>1, <2>1, StepsFirst
<1> QED
  BY <1>3, <1>5, <1>6, <1>7, <1>8 DEF HandleUpdate, OnBlockCommit, OnPeerMessage

\* tick: an engine that campaigns has not heard of the election.
LEMMA TickFirst ==
  ASSUME OneElection, IndInv, FirstInv, NEW n \in Node, Tick(n)
  PROVE  LibraryOK(n)'
<1>1. /\ TypeOK /\ Up(n) /\ raft[n] \in Raft /\ RaftTick(n) /\ CheckPublish(n)
      /\ raft_id_to_peer_id' = raft_id_to_peer_id
  BY DEF IndInv, TypeOK, Tick, Up, Running
<1>2. LibraryOK(n)
  BY <1>1 DEF FirstInv, FirstOK, LibraryOK
<1>3. leader_state'[n] = None => leader_state[n] = None
  BY <1>1, LeaderStates DEF CheckPublish, Publish, TypeOK
<1>4. CASE raft' = raft \/ raft' = [raft EXCEPT ![n].msgs = "waiting"]
  <2>1. /\ raft'[n].role = raft[n].role /\ raft'[n].term = raft[n].term
        /\ raft'[n].log = raft[n].log
    BY <1>1, <1>4 DEF TypeOK, Raft
  <2> QED  BY <1>1, <1>2, <1>3, <2>1, KeepsFirst
<1>5. CASE /\ raft[n].term < MaxTerm
           /\ raft' = [raft EXCEPT ![n] = Campaign(n, @, raft_id_to_peer_id[n])]
  <2> DEFINE r == raft[n]
             q == raft'[n]
             voters == raft_id_to_peer_id[n]
  <2>1. /\ r \in Raft /\ r.commit <= Len(r.log) /\ r.term < MaxTerm
        /\ q = Campaign(n, r, voters)
    BY <1>1, <1>5, Indices DEF TypeOK
  <2>2. r.term = 1
    BY <2>1, MaxTermAssumption DEF Raft, Term, OneElection
  <2>3. r.log = << >> /\ raft_id_to_peer_id[n] = InitPeers
    BY <1>2, <2>2 DEF LibraryOK, NewLog
  <2> HIDE DEF r, q, voters
  <2>4. /\ q.term = r.term + 1
        /\ voters = {n} => /\ q.role = "Leader"
                           /\ Appended(q.log, r.log, EmptyEntry(r.term + 1))
        /\ voters # {n} => q.role = "Candidate" /\ q.log = r.log
    BY <2>1, CampaignFields
  <2>5. q.term # 1 /\ r.term + 1 \in Term
    BY <2>1, <2>2, <2>4, MaxTermAssumption DEF Term
  <2>6. CASE voters = {n}
    <3>1. \A i \in DOMAIN q.log : ~IsBlock(q.log[i]) /\ ~IsConf(q.log[i])
      BY <2>3, <2>4, <2>5, <2>6, FirstEntry
    <3>2. FirstLog(n)'
      BY <1>1, <2>3, <3>1 DEF FirstLog, q
    <3> QED  BY <2>4, <2>5, <2>6, <3>2 DEF LibraryOK, q
  <2>7. CASE voters # {n}
    <3>1. NewLog(n)'
      BY <1>1, <2>3, <2>4, <2>7 DEF NewLog, q
    <3> QED  BY <2>4, <2>5, <2>7, <3>1 DEF LibraryOK, SteppedUp, q
  <2> QED  BY <2>6, <2>7
<1> QED  BY <1>1, <1>4, <1>5 DEF RaftTick

\* Without stops there are none.
LEMMA NoStops ==
  ASSUME OneElection, TypeOK, NEW n \in Node
  PROVE  ~Stop(n) /\ ~CrashInReady(n)
<1>1. ~(stops < MaxStops)
  BY DEF OneElection, TypeOK
<1> QED  BY <1>1 DEF Stop, CrashInReady, Lost

\* process_ready: an entry is delivered only from a log that has one.
LEMMA ReadyFirst ==
  ASSUME IndInv, FirstInv, NEW n \in Node, Ready(n)
  PROVE  LibraryOK(n)'
<1>1. /\ TypeOK /\ Up(n) /\ raft[n] \in Raft /\ RolesOK(n)
  BY DEF IndInv, TypeOK, NodeOK, Ready, NothingReady, ProcessReady, DeliverEmpty,
         DeliverBlock, DeliverConfChange, DeliverOwnRemoval, FinishReady, Delivering,
         Up, Running
<1>2. LibraryOK(n)
  BY <1>1 DEF FirstInv, FirstOK, LibraryOK
<1>3. CASE NothingReady(n) \/ DeliverOwnRemoval(n)
  BY <1>2, <1>3, KeepsFirst DEF NothingReady, DeliverOwnRemoval
<1>4. CASE ProcessReady(n)
  <2>1. /\ Keeps(n) /\ TakeRole(n) /\ raft_id_to_peer_id' = raft_id_to_peer_id
    BY <1>4, ProcessReadyMoves DEF ProcessReady, Saves
  <2>2. raft'[n].role = "Leader" /\ leader_state'[n] = None => FALSE
    <3>1. raft'[n].role = raft[n].role
      BY <2>1 DEF Keeps
    <3>2. CASE StepUpCommitting(n)
      BY <1>1, <3>2 DEF StepUpCommitting, None, TypeOK
    <3>3. CASE StepUpBuilding(n)
      BY <1>1, <3>3 DEF StepUpBuilding, None, Building, TypeOK
    <3>4. CASE StepDown(n)
      BY <3>1, <3>4 DEF StepDown, SteppedDown
    <3>5. CASE KeepRole(n)
      BY <3>1, <3>5 DEF KeepRole, SteppedUp
    <3> QED  BY <2>1, <3>2, <3>3, <3>4, <3>5 DEF TakeRole
  <2> QED  BY <1>2, <2>1, <2>2, KeepsFirst DEF Keeps
<1>5. CASE DeliverEmpty(n) \/ DeliverBlock(n) \/ DeliverConfChange(n)
  <2>1. /\ phase[n] = "deliver" /\ raft[n].delivered < raft[n].ready
    BY <1>5 DEF DeliverEmpty, DeliverBlock, DeliverConfChange, Delivering
  <2>2. raft[n].log # << >>
    <3>1. Len(raft[n].log) > 0
      BY <1>1, <2>1, Indices
    <3> QED  BY <3>1
  <2> DEFINE p == Delivered(raft[n])
  <2>3. p \in Raft /\ p.log = raft[n].log /\ p.role = raft[n].role /\ p.term = raft[n].term
    BY <1>1, DeliveredFields
  <2>4. raft'[n] \in {p, ApplyConfChange(n, p, NextEntry(n))}
    BY <1>1, <1>5 DEF DeliverEmpty, DeliverBlock, DeliverConfChange, TypeOK
  <2> HIDE DEF p
  <2>5. /\ raft'[n].log = raft[n].log /\ raft'[n].role = raft[n].role
        /\ raft'[n].term = raft[n].term
    BY <2>3, <2>4 DEF ApplyConfChange, CommitAlone, Raft
  <2>6. raft[n].term # 1 /\ raft[n].role # "Candidate"
    BY <1>2, <2>2 DEF LibraryOK, NewLog
  <2>7. leader_state'[n] = None => leader_state[n] = None
    BY <1>1, <1>5, LeaderStates DEF DeliverEmpty, DeliverBlock, DeliverConfChange, TypeOK
  <2>8. ~SteppedUp(n)'
    BY <1>1, <2>1, <2>5, <2>7 DEF RolesOK, SteppedUp
  <2> QED  BY <2>5, <2>6, <2>8 DEF LibraryOK
<1>6. CASE FinishReady(n)
  <2> DEFINE b == GetNextCommittable(block_queue[n])
  <2>1. /\ UNCHANGED <<raft, raft_id_to_peer_id>>
        /\ leader_state'[n] = IF leader_state[n] = Proposing(b) THEN Committing(b)
                                                                ELSE leader_state[n]
    BY <1>1, <1>6 DEF FinishReady, LeaderCommits, TypeOK
  <2> HIDE DEF b
  <2>2. leader_state'[n] = None => leader_state[n] = None
    BY <2>1 DEF Committing, None
  <2> QED  BY <1>2, <2>1, <2>2, KeepsFirst
<1> QED  BY <1>3, <1>4, <1>5, <1>6 DEF Ready

\* start: a Storage that has not heard of the election has an empty log, and the
\* validator's chain is empty too.
LEMMA RestartFirst ==
  ASSUME IndInv, ChainInv, BlocksInv, FirstInv, NEW n \in Node, Restart(n)
  PROVE  LibraryOK(n)'
<1>1. /\ TypeOK /\ disk[n] \in Disk
      /\ raft'[n] = NewRaft(disk[n])
      /\ raft_id_to_peer_id'[n] = Settings(validator[n].head)
  BY DEF IndInv, TypeOK, Restart
<1>2. /\ raft'[n].role = "Follower" /\ raft'[n].term = disk[n].term
      /\ raft'[n].log = disk[n].log
  BY <1>1 DEF NewRaft
<1>3. ASSUME disk[n].term = 1 PROVE NewLog(n)'
  <2>1. disk[n].log = << >>
    BY <1>3 DEF FirstInv, FirstOK
  <2>2. disk[n].commit = 0
    BY <2>1, StorageIndices
  <2>3. InLog(disk[n].log, validator[n].head, disk[n].commit)
    BY HeadInLog DEF ChainInv
  <2>4. validator[n].head = Genesis
    BY <2>2, <2>3 DEF InLog, BlockAt
  <2>5. Settings(validator[n].head) = InitPeers
    BY <1>1, <2>4 DEF Settings, Genesis, TypeOK
  <2> QED  BY <1>1, <1>2, <2>1, <2>5 DEF NewLog
<1> QED  BY <1>2, <1>3 DEF LibraryOK, SteppedUp

\* The part about the Storage and the messages.
LEMMA StoredFirst ==
  ASSUME IndInv, FirstInv, NEW n \in Node,
         Works(n) \/ Pops(n) \/ Saves(n) \/ Delivers(n) \/ Starts(n) \/ Rests(n)
  PROVE  /\ disk'[n].term = 1 => disk'[n].log = << >>
         /\ sent'[n].term = 1 => sent'[n].log = << >>
<1>1. /\ disk[n].term = 1 => disk[n].log = << >>
      /\ sent[n].term = 1 => sent[n].log = << >>
  BY DEF FirstInv, FirstOK
<1>2. disk[n] \in Disk /\ raft[n] \in Raft
  BY Indices
<1>3. CASE Works(n) \/ Delivers(n) \/ Starts(n) \/ Rests(n)
  BY <1>1, <1>3 DEF Works, Delivers, Starts, Rests
<1>4. CASE Pops(n)
  <2>1. Commits(n)[1].entry \in Nat
    BY <1>4, Indices DEF Pops
  <2>2. disk'[n].log = disk[n].log /\ disk'[n].term = disk[n].term /\ sent'[n] = sent[n]
    BY <1>2, <1>4, <2>1, DiskFields DEF Pops
  <2> QED  BY <1>1, <2>2
<1>5. CASE Saves(n)
  <2>1. /\ disk'[n].log = raft[n].log /\ disk'[n].term = raft[n].term
        /\ sent'[n].log = raft[n].log /\ sent'[n].term = raft[n].term
    BY <1>2, <1>5, DiskFields DEF Saves, Outgoing
  <2>2. raft[n].term = 1 => raft[n].log = << >>
    BY <1>5 DEF Saves, FirstInv, FirstOK, NewLog
  <2> QED  BY <2>1, <2>2
<1> QED  BY <1>3, <1>4, <1>5

\* A step of engine or validator m, which is not a stop.
Acts(m) == \/ HandleUpdate(m) \/ Tick(m) \/ Quiet(m) \/ Ready(m) \/ Restart(m)
           \/ \E b \in BlockId : ValidatorCommit(m, b)

\* Such a step is of a kind that leaves the other engines alone.
LEMMA ActsMoves ==
  ASSUME IndInv, NEW m \in Node, Acts(m)
  PROVE  /\ Alone(m)
         /\ Works(m) \/ Pops(m) \/ Saves(m) \/ Delivers(m) \/ Starts(m) \/ Rests(m)
<1>1. ASSUME NEW b \in BlockId, ValidatorCommit(m, b) PROVE Alone(m) /\ Rests(m)
  BY <1>1 DEF ValidatorCommit, Alone, Rests, Commits, Up
<1>2. ASSUME Quiet(m) PROVE Alone(m) /\ Rests(m)
  BY <1>2 DEF Quiet, vars, Alone, Rests, Commits, Up
<1>3. CASE HandleUpdate(m)
  BY <1>3, OnBlockNewMoves, OnBlockValidMoves, IgnoredMoves, LeaderOnBlockCommitMoves,
     FollowerOnBlockCommitMoves, StepMessageMoves DEF HandleUpdate, OnBlockCommit, OnPeerMessage
<1>4. CASE Ready(m)
  BY <1>4, FinishMoves, ProcessReadyMoves, DeliverEmptyMoves, DeliverBlockMoves,
     DeliverConfChangeMoves, DeliverOwnRemovalMoves DEF Ready
<1>5. CASE Tick(m) \/ Restart(m)
  BY <1>5, TickMoves, RestartMoves
<1> QED  BY <1>1, <1>2, <1>3, <1>4, <1>5 DEF Acts

\* Every step keeps the invariant.
LEMMA FirstNext ==
  ASSUME OneElection, IndInv, BlocksInv, ChainInv, FirstInv, [Next]_vars
  PROVE  FirstInv'
<1>0. TypeOK
  BY DEF IndInv
<1>1. ASSUME NEW n \in Node, Rests(n), leader_state'[n] = leader_state[n],
             raft_id_to_peer_id'[n] = raft_id_to_peer_id[n]
      PROVE  FirstOK(n)'
  <2>1. FirstOK(n)
    BY DEF FirstInv
  <2>2. Up(n) => LibraryOK(n)'
    BY <1>1, <2>1, KeepsFirst DEF FirstOK, LibraryOK, Rests
  <2>3. /\ disk'[n].term = 1 => disk'[n].log = << >>
        /\ sent'[n].term = 1 => sent'[n].log = << >>
    BY <1>1, StoredFirst
  <2> QED  BY <1>1, <2>2, <2>3 DEF FirstOK, LibraryOK, Rests
<1>2. CASE UNCHANGED vars
  <2>1. ASSUME NEW n \in Node PROVE FirstOK(n)'
    BY <1>1, <1>2 DEF vars, Rests, Commits, Up
  <2> QED  BY <2>1 DEF FirstInv
<1>3. ASSUME NEW m \in Node, Acts(m) PROVE FirstInv'
  <2>1. ASSUME NEW n \in Node \ {m} PROVE FirstOK(n)'
    <3>1. Rests(n)
      BY <1>3, ActsMoves DEF Alone
    <3>2. /\ leader_state'[n] = leader_state[n]
          /\ raft_id_to_peer_id'[n] = raft_id_to_peer_id[n]
      BY <1>0, <1>3, OtherLeads DEF Acts
    <3> QED  BY <1>1, <3>1, <3>2
  <2>2. FirstOK(m)'
    <3>1. /\ disk'[m].term = 1 => disk'[m].log = << >>
          /\ sent'[m].term = 1 => sent'[m].log = << >>
      BY <1>3, ActsMoves, StoredFirst
    <3>2. CASE HandleUpdate(m) \/ Tick(m) \/ Ready(m) \/ Restart(m)
      BY <3>1, <3>2, HandleUpdateFirst, TickFirst, ReadyFirst, RestartFirst
         DEF FirstOK, LibraryOK
    <3>3. CASE Quiet(m)
      BY <1>1, <3>3 DEF Quiet, vars, Rests, Commits, Up
    <3>4. ASSUME NEW b \in BlockId, ValidatorCommit(m, b) PROVE FirstOK(m)'
      BY <1>1, <3>4 DEF ValidatorCommit, Rests, Commits, Up
    <3> QED  BY <1>3, <3>2, <3>3, <3>4 DEF Acts
  <2> QED  BY <2>1, <2>2 DEF FirstInv
<1> QED  BY <1>0, <1>2, <1>3, NoStops DEF Next, Acts

\* At first all logs are empty and all have the first peers.
LEMMA FirstInit == Init => FirstInv
  BY DEF Init, FirstInv, FirstOK, NewLog, FirstLog, SteppedUp, NewDisk, NewRaft, NewMessage

\* The winner of the first election begins with an empty chain and the first peers.
LEMMA FirstSettled ==
  ASSUME IndInv, LogInv, ChainInv, FirstInv, NEW n \in Node, TakesLead(n)
  PROVE  Settled(n)
<1>1. Up(n) /\ SteppedUp(n) /\ TypeOK
  BY DEF TakesLead, ProcessReady, Up, Running, IndInv
<1>2. FirstLog(n)
  BY <1>1 DEF FirstInv, FirstOK
<1>3. /\ raft[n].log \in Seq(Entry) /\ raft[n].delivered \in Nat /\ disk[n].applied \in Nat
  BY Indices
<1>4. \A i \in Nat : BlocksBetween(raft[n].log, i, Len(raft[n].log)) = {}
  BY <1>2, <1>3 DEF BlocksBetween, FirstLog
<1>5. CaughtUp(n) /\ Pending(n) = {}
  BY <1>2, <1>3, <1>4 DEF CaughtUp, Outstanding, Pending, FirstLog
<1>6. LastIn(raft[n].log, Len(raft[n].log), validator[n].head)
  BY <1>1, <1>5, CaughtUpLast DEF ChainInv, ChainOK
<1>7. PICK i \in 0..Len(raft[n].log) : BlockAt(raft[n].log, i, validator[n].head)
  BY <1>6 DEF LastIn
<1>8. i = 0
  BY <1>2, <1>3, <1>7 DEF BlockAt, FirstLog
<1>9. validator[n].head = Genesis
  BY <1>7, <1>8 DEF BlockAt
<1>10. Settings(validator[n].head) = InitPeers
  BY <1>1, <1>9 DEF Settings, Genesis, TypeOK
<1> QED  BY <1>2, <1>5, <1>10 DEF Settled, FirstLog

\* The hypotheses of the two theorems above hold through the first election.
LEMMA FirstInvariance == ASSUME OneElection PROVE Spec => LeadersSettled /\ LeadersCaughtUp
<1> DEFINE Inv == IndInv /\ LogInv /\ BlocksInv /\ ChainInv
           H == \A n \in Node : TakesLead(n) => Settled(n)
           G == \A n \in Node : TakesLead(n) => CaughtUp(n)
<1>1. Inv /\ FirstInv /\ [Next]_vars => FirstInv'
  BY FirstNext
<1>2. Inv /\ FirstInv => H /\ G
  BY FirstSettled DEF Settled
<1> HIDE DEF Inv, H, G
<1>3. Spec => []Inv
  BY ChainInvariance DEF Inv
<1>4. LeadersSettled <=> [][H]_vars
  BY DEF LeadersSettled, H
<1>5. LeadersCaughtUp <=> [][G]_vars
  BY DEF LeadersCaughtUp, G
<1> QED  BY <1>1, <1>2, <1>3, <1>4, <1>5, FirstInit, PTL DEF Spec

-----------------------------------------------------------------------------
(* There is one leader, and the logs are its own *)

\* w is the only peer, or has a majority of the votes that are written and sent, its
\* own among them.
Led(w) == \/ InitPeers = {w}
          \/ /\ disk[w].vote = w
             /\ Quorum({m \in Node : sent[m].vote = w} \cup {w}, InitPeers)

\* A vote is written before it is sent, and is not given twice; one for another is
\* the answer to a message.
BallotOK(n) ==
  /\ sent[n].vote # NoNode => disk[n].vote = sent[n].vote /\ sent[n].term # 1
  /\ disk[n].vote # NoNode => raft[n].vote = disk[n].vote /\ disk[n].term # 1
  /\ raft[n].vote # NoNode => raft[n].vote \in InitPeers /\ raft[n].term # 1
  /\ raft[n].vote \in {NoNode, n} \/ sent[raft[n].vote].vote = raft[n].vote
  /\ raft[n].role # "Follower" => raft[n].vote = n
  /\ sent[n].role # "Follower" => sent[n].vote = n
  /\ raft[n].role = "Leader" \/ sent[n].role = "Leader" => Led(n)

BallotInv == \A n \in Node : BallotOK(n)

\* What others know of the leader's log it has written.
LogsBegin(w) == /\ Begins(disk[w].log, raft[w].log)
                /\ \A l \in OtherLogs(w) : Begins(l, disk[w].log)

OneLog == /\ \A w \in Node : Led(w) => LogsBegin(w)
          /\ (\A w \in Node : ~Led(w)) => \A l \in Logs : l = << >>

LedByOne == \A v, w \in Node : Led(v) /\ Led(w) => v = w

\* Two do not have a majority.
LEMMA LedOnce ==
  ASSUME BallotInv, NEW v \in Node, NEW w \in Node, Led(v), Led(w)
  PROVE  v = w
<1>1. \A m \in Node : /\ sent[m].vote # NoNode => disk[m].vote = sent[m].vote
                      /\ disk[m].vote # NoNode => disk[m].vote \in InitPeers
  BY DEF BallotInv, BallotOK
<1>2. v # NoNode /\ w # NoNode
  BY NodeAssumption
<1>3. CASE InitPeers = {v}
  BY <1>1, <1>2, <1>3 DEF Led
<1>4. CASE InitPeers = {w}
  BY <1>1, <1>2, <1>4 DEF Led
<1>5. CASE InitPeers # {v} /\ InitPeers # {w}
  <2>1. /\ disk[v].vote = v /\ Quorum({m \in Node : sent[m].vote = v} \cup {v}, InitPeers)
        /\ disk[w].vote = w /\ Quorum({m \in Node : sent[m].vote = w} \cup {w}, InitPeers)
    BY <1>5 DEF Led
  <2>2. PICK m \in InitPeers : /\ m \in {x \in Node : sent[x].vote = v} \cup {v}
                               /\ m \in {x \in Node : sent[x].vote = w} \cup {w}
    BY <2>1, QuorumsMeet
  <2>3. disk[m].vote = v /\ disk[m].vote = w
    BY <1>1, <1>2, <2>1, <2>2
  <2> QED  BY <2>3
<1> QED  BY <1>3, <1>4, <1>5

\* ... so at most one leads.
LEMMA BallotsLed == BallotInv => LedByOne
  BY LedOnce DEF LedByOne

\* A candidate with the votes of a majority
LEMMA WinnerLed ==
  ASSUME IndInv, FirstInv, BallotInv, NEW n \in Node, Up(n), Wins(n)
  PROVE  Led(n)
<1> DEFINE A == {m \in Node : sent[m].vote = n} \cup {n}
<1>1. raft[n].role = "Candidate" /\ Quorum(Votes(n, raft[n]), InitPeers)
  BY DEF Wins, FirstInv, FirstOK, NewLog
<1>2. Votes(n, raft[n]) \subseteq A
  BY DEF Votes, Replies
<1>3. Quorum(A, InitPeers)
  BY <1>1, <1>2, QuorumGrows
<1>4. CASE A = {n}
  <2>1. IsFiniteSet(InitPeers) /\ IsFiniteSet({n}) /\ Cardinality({n}) = 1
    BY NodeAssumption, PeersAssumption, FS_Subset, FS_Singleton
  <2>2. Cardinality(InitPeers) \in Nat
    BY <2>1, FS_CardinalityType
  <2>3. 2 * Cardinality({n} \cap InitPeers) > Cardinality(InitPeers)
    BY <1>3, <1>4 DEF Quorum
  <2>4. CASE n \in InitPeers
    <3>1. {n} \cap InitPeers = {n} /\ {n} \in SUBSET InitPeers
      BY <2>4
    <3>2. Cardinality({n}) <= Cardinality(InitPeers)
          /\ (Cardinality(InitPeers) = Cardinality({n}) => InitPeers = {n})
      BY <2>1, <3>1, FS_Subset
    <3>3. Cardinality(InitPeers) = 1
      BY <2>1, <2>2, <2>3, <3>1, <3>2
    <3> QED  BY <2>1, <3>2, <3>3 DEF Led
  <2>5. CASE n \notin InitPeers
    <3>1. {n} \cap InitPeers = {}
      BY <2>5
    <3>2. Cardinality({n} \cap InitPeers) = 0
      BY <3>1, FS_EmptySet
    <3> QED  BY <2>2, <2>3, <3>2
  <2> QED  BY <2>4, <2>5
<1>5. ASSUME NEW m \in Node \ {n}, sent[m].vote = n PROVE Led(n)
  <2>1. n # NoNode
    BY NodeAssumption
  <2>2. raft[m].vote = n
    BY <1>5, <2>1 DEF BallotInv, BallotOK
  <2>3. sent[n].vote = n
    BY <1>5, <2>1, <2>2 DEF BallotInv, BallotOK
  <2>4. disk[n].vote = n
    BY <2>1, <2>3 DEF BallotInv, BallotOK
  <2> QED  BY <1>3, <2>4 DEF Led
<1> QED  BY <1>4, <1>5

\* What an engine holds after a step.
Polled(n) ==
  /\ disk[n].vote # NoNode => raft'[n].vote = disk[n].vote
  /\ raft'[n].vote # NoNode => raft'[n].vote \in InitPeers /\ raft'[n].term # 1
  /\ raft'[n].vote \in {NoNode, n} \/ sent[raft'[n].vote].vote = raft'[n].vote
  /\ raft'[n].role # "Follower" => raft'[n].vote = n
  /\ raft'[n].role = "Leader" => Led(n)
  /\ \/ raft'[n].log \in {raft[n].log, disk[n].log}
     \/ \E m \in Node \ {n} :
          sent[m].role = "Leader" /\ raft'[n].log = Received(raft[n].log, sent[m].log)
     \/ Led(n) /\ \E e \in Entry : Appended(raft'[n].log, raft[n].log, e)

\* The library does not change its vote: it gives it once, in the only election.
LEMMA LibraryPolled ==
  ASSUME OneElection, IndInv, FirstInv, BallotInv, NEW n \in Node, Up(n), LibraryMoves(n)
  PROVE  Polled(n)
<1> DEFINE r == raft[n]
           q == raft'[n]
           voters == raft_id_to_peer_id[n]
<1>1. /\ r \in Raft /\ r.commit <= Len(r.log) /\ r.term \in Term /\ r.term \in Nat
      /\ r.term >= 1 /\ r.term <= 2 /\ n # NoNode
  BY Indices, MaxTermAssumption, NodeAssumption DEF Raft, Term, OneElection
<1>2. BallotOK(n) /\ LibraryOK(n)
  BY DEF BallotInv, FirstInv, FirstOK, LibraryOK
<1>3. ASSUME q.vote = r.vote, q.term = r.term, q.role \in {r.role, "Follower"},
             \/ q.log \in {r.log, disk[n].log}
             \/ \E m \in Node \ {n} :
                  sent[m].role = "Leader" /\ q.log = Received(r.log, sent[m].log)
             \/ Led(n) /\ \E e \in Entry : Appended(q.log, r.log, e)
      PROVE  Polled(n)
  BY <1>2, <1>3 DEF Polled, BallotOK
<1>4. ASSUME r.term = 1 PROVE /\ r.vote = NoNode /\ disk[n].vote = NoNode /\ voters = InitPeers
  BY <1>2, <1>4 DEF BallotOK, LibraryOK, NewLog
<1>5. CASE Keeps(n)
  BY <1>3, <1>5 DEF Keeps
<1>6. CASE Appends(n)
  <2>1. PICK e \in Entry : r.role = "Leader" /\ q = AppendAsLeader(n, r, e, voters)
    BY <1>6 DEF Appends, Fresh
  <2>2. Led(n)
    BY <1>2, <2>1 DEF BallotOK
  <2> HIDE DEF r, q, voters
  <2>3. /\ q.role = r.role /\ q.term = r.term /\ q.vote = r.vote /\ Appended(q.log, r.log, e)
    BY <1>1, <2>1, AppendAsLeaderFields
  <2> QED  BY <1>3, <2>2, <2>3
<1>7. CASE Campaigns(n)
  <2>1. r.term < MaxTerm /\ n \in voters /\ q = Campaign(n, r, voters)
    BY <1>7 DEF Campaigns
  <2>2. r.term = 1
    BY <1>1, <2>1, MaxTermAssumption DEF OneElection
  <2>3. disk[n].vote = NoNode /\ n \in InitPeers /\ voters = InitPeers
    BY <1>4, <2>1, <2>2
  <2> HIDE DEF r, q, voters
  <2>4. /\ q.term = r.term + 1 /\ q.vote = n
        /\ voters = {n} => q.role = "Leader" /\ Appended(q.log, r.log, EmptyEntry(r.term + 1))
        /\ voters # {n} => q.role = "Candidate" /\ q.log = r.log
    BY <1>1, <2>1, CampaignFields
  <2>5. q.term # 1 /\ EmptyEntry(r.term + 1) \in Entry
    BY <2>1, <2>2, <2>4, EntryTypes, MaxTermAssumption DEF Term
  <2>6. CASE voters = {n}
    BY <2>3, <2>4, <2>5, <2>6 DEF Polled, Led, q, r
  <2>7. CASE voters # {n}
    BY <2>3, <2>4, <2>5, <2>7 DEF Polled, q, r
  <2> QED  BY <2>6, <2>7
<1>8. ASSUME NEW m \in Node \ {n}, HearsCandidate(n, m) PROVE Polled(n)
  <2>1. /\ sent[m] \in Message /\ sent[m].term >= r.term /\ sent[m].role = "Candidate"
        /\ q = HandleRequestVote(r, sent[m], m)
    BY <1>8 DEF IndInv, TypeOK, HearsCandidate
  <2>2. /\ sent[m].vote = m /\ m # NoNode /\ m \in InitPeers
    BY <2>1, NodeAssumption DEF BallotInv, BallotOK
  <2>3. sent[m].term \in Nat /\ sent[m].term <= 2
    BY <2>1, MaxTermAssumption DEF Message, Term, OneElection
  <2> HIDE DEF r, q, voters
  <2>4. /\ q.role = IF sent[m].term > r.term THEN "Follower" ELSE r.role
        /\ q.term = sent[m].term /\ q.log = r.log
        /\ q.vote = IF sent[m].term > r.term \/ r.vote = NoNode
                    THEN IF UpToDate(sent[m].log, r.log) THEN m ELSE NoNode
                    ELSE r.vote
    BY <1>1, <2>1, HandleRequestVoteFields
  <2>5. CASE sent[m].term > r.term
    <3>1. disk[n].vote = NoNode /\ q.role = "Follower" /\ q.term # 1 /\ q.vote \in {m, NoNode}
      BY <1>1, <1>4, <2>3, <2>4, <2>5
    <3> QED  BY <2>2, <2>4, <3>1 DEF Polled, q, r
  <2>6. CASE ~(sent[m].term > r.term)
    <3>1. q.role = r.role /\ q.term = r.term
      BY <1>1, <2>1, <2>3, <2>4, <2>6
    <3>2. CASE q.vote = r.vote
      BY <1>3, <2>4, <3>1, <3>2
    <3>3. CASE q.vote # r.vote
      <4>1. r.vote = NoNode /\ q.vote = m
        BY <2>4, <2>6, <3>3
      <4>2. disk[n].vote = NoNode /\ q.role = "Follower"
        BY <1>1, <1>2, <3>1, <4>1 DEF BallotOK, r
      <4>3. q.term # 1
        <5>1. sent[m].vote # NoNode
          BY <2>2
        <5>2. sent[m].term # 1
          BY <2>1, <2>2 DEF BallotInv, BallotOK
        <5> QED  BY <2>4, <5>2
      <4> QED  BY <2>2, <2>4, <4>1, <4>2, <4>3 DEF Polled, q, r
    <3> QED  BY <3>2, <3>3
  <2> QED  BY <2>5, <2>6
<1>9. ASSUME NEW m \in Node \ {n}, HearsLeader(n, m) PROVE Polled(n)
  <2>1. /\ sent[m] \in Message /\ sent[m].term >= r.term /\ sent[m].role = "Leader"
        /\ q = HandleAppend(r, sent[m])
    BY <1>9 DEF IndInv, TypeOK, HearsLeader
  <2>2. sent[m].term \in Nat /\ sent[m].term <= 2
    BY <2>1, MaxTermAssumption DEF Message, Term, OneElection
  <2> HIDE DEF r, q, voters
  <2>3. /\ q.role = "Follower" /\ q.term = sent[m].term
        /\ q.log = Received(r.log, sent[m].log)
        /\ q.vote = IF sent[m].term > r.term THEN NoNode ELSE r.vote
    BY <1>1, <2>1, HandleAppendFields
  <2>4. CASE sent[m].term > r.term
    <3>1. disk[n].vote = NoNode /\ q.vote = NoNode
      BY <1>1, <1>4, <2>2, <2>3, <2>4
    <3> QED  BY <2>1, <2>3, <3>1 DEF Polled, q, r
  <2>5. CASE ~(sent[m].term > r.term)
    <3>1. q.vote = r.vote /\ q.term = r.term
      BY <1>1, <2>1, <2>2, <2>3, <2>5
    <3> QED  BY <1>3, <2>1, <2>3, <3>1
  <2> QED  BY <2>4, <2>5
<1>10. CASE Wins(n)
  <2>1. r.role = "Candidate" /\ q = BecomeLeader(n, r, voters) /\ Led(n)
    BY <1>10, WinnerLed DEF Wins
  <2>2. r.vote = n
    BY <1>2, <2>1 DEF BallotOK
  <2>3. BallotOK(n)
    BY <1>2
  <2> HIDE DEF r, q, voters
  <2>4. /\ q.role = "Leader" /\ q.term = r.term /\ q.vote = r.vote
        /\ Appended(q.log, r.log, EmptyEntry(r.term)) /\ EmptyEntry(r.term) \in Entry
    BY <1>1, <2>1, BecomeLeaderFields, EntryTypes
  <2> QED  BY <2>1, <2>2, <2>3, <2>4 DEF Polled, BallotOK, q, r
<1>11. CASE Advances(n)
  <2>1. PICK c : q = [r EXCEPT !.commit = c, !.msgs = "waiting"]
    BY <1>11 DEF Advances
  <2> HIDE DEF r, q, voters
  <2>2. q.log = r.log /\ q.role = r.role /\ q.vote = r.vote /\ q.term = r.term
    BY <1>1, <2>1 DEF Raft
  <2> QED  BY <1>3, <2>2
<1> QED
  BY <1>5, <1>6, <1>7, <1>8, <1>9, <1>10, <1>11 DEF LibraryMoves, Steps

\* What it writes and sends in a step: nothing, or what the library has.
Stored(n) ==
  \/ SameDisk(n) /\ SameSent(n)
  \/ /\ Writes(n) /\ Sends(n)
     /\ raft'[n].role = raft[n].role /\ raft'[n].term = raft[n].term
     /\ raft'[n].vote = raft[n].vote /\ raft'[n].log = raft[n].log

\* A step of any kind but a stop
LEMMA StepPolled ==
  ASSUME OneElection, IndInv, FirstInv, BallotInv, [Next]_vars, NEW n \in Node
  PROVE  Polled(n) /\ Stored(n)
<1>1. TypeOK /\ raft[n] \in Raft /\ disk[n] \in Disk /\ BallotOK(n)
  BY Indices DEF IndInv, BallotInv
<1>2. Works(n) \/ Pops(n) \/ Saves(n) \/ Delivers(n) \/ Starts(n) \/ Rests(n)
  <2>1. CASE UNCHANGED vars
    BY <2>1 DEF vars, Rests, Commits, Up
  <2>2. ASSUME NEW m \in Node, Acts(m)
        PROVE  Works(n) \/ Pops(n) \/ Saves(n) \/ Delivers(n) \/ Starts(n) \/ Rests(n)
    BY <2>2, ActsMoves DEF Alone
  <2> QED  BY <1>1, <2>1, <2>2, NoStops DEF Next, Acts
<1>3. ASSUME raft'[n].role = raft[n].role, raft'[n].term = raft[n].term,
             raft'[n].vote = raft[n].vote, raft'[n].log = raft[n].log
      PROVE  Polled(n)
  BY <1>1, <1>3 DEF Polled, BallotOK
<1>4. CASE Works(n)
  BY <1>4, LibraryPolled DEF Works, Stored, SameDisk, SameSent
<1>5. CASE Pops(n)
  <2>1. Commits(n)[1].entry \in Nat
    BY <1>5, Indices DEF Pops
  <2>2. SameDisk(n) /\ SameSent(n)
    BY <1>1, <1>5, <2>1, DiskFields DEF Pops, SameDisk, SameSent
  <2> QED  BY <1>5, <2>2, LibraryPolled DEF Pops, LibraryMoves, Stored
<1>6. CASE Saves(n)
  <2>1. /\ raft'[n].role = raft[n].role /\ raft'[n].term = raft[n].term
        /\ raft'[n].vote = raft[n].vote /\ raft'[n].log = raft[n].log
    BY <1>6 DEF Saves, Keeps
  <2>2. Writes(n) /\ Sends(n)
    BY <1>1, <1>6, DiskFields DEF Saves, Writes, Sends, Outgoing
  <2> QED  BY <1>3, <2>1, <2>2 DEF Stored
<1>7. CASE Delivers(n)
  <2>1. /\ raft'[n].role = raft[n].role /\ raft'[n].term = raft[n].term
        /\ raft'[n].vote = raft[n].vote /\ raft'[n].log = raft[n].log
    <3> DEFINE p == Delivered(raft[n])
    <3>1. /\ p \in Raft /\ p.log = raft[n].log
          /\ p.role = raft[n].role /\ p.term = raft[n].term /\ p.vote = raft[n].vote
      BY <1>1, DeliveredFields
    <3>2. raft'[n] = p \/ \E P : raft'[n] = CommitAlone(n, p, P)
      BY <1>7 DEF Delivers
    <3> HIDE DEF p
    <3> QED  BY <3>1, <3>2 DEF CommitAlone, Raft
  <2> QED  BY <1>3, <1>7, <2>1 DEF Delivers, Stored, SameDisk, SameSent
<1>8. CASE Starts(n)
  <2>1. /\ raft'[n].role = "Follower" /\ raft'[n].term = disk[n].term
        /\ raft'[n].vote = disk[n].vote /\ raft'[n].log = disk[n].log
    BY <1>8 DEF Starts, NewRaft
  <2>2. Polled(n)
    BY <1>1, <2>1 DEF Polled, BallotOK
  <2> QED  BY <1>8, <2>2 DEF Starts, Stored, SameDisk, SameSent
<1>9. CASE Rests(n)
  BY <1>3, <1>9 DEF Rests, Stored, SameDisk, SameSent
<1> QED  BY <1>2, <1>4, <1>5, <1>6, <1>7, <1>8, <1>9

\* A vote that is written or sent stays, and so does a majority of them.
LEMMA VotesStay ==
  ASSUME BallotInv, \A n \in Node : Stored(n)
  PROVE  /\ \A n \in Node : /\ sent[n].vote # NoNode => sent'[n].vote = sent[n].vote
                            /\ disk[n].vote # NoNode => disk'[n].vote = disk[n].vote
         /\ \A n \in Node : Led(n) => Led(n)'
<1>1. ASSUME NEW n \in Node
      PROVE  /\ sent[n].vote # NoNode => sent'[n].vote = sent[n].vote
             /\ disk[n].vote # NoNode => disk'[n].vote = disk[n].vote
  <2>1. BallotOK(n) /\ Stored(n)
    BY DEF BallotInv
  <2> QED  BY <2>1 DEF BallotOK, Stored, SameDisk, SameSent, Writes, Sends
<1>2. ASSUME NEW w \in Node, Led(w) PROVE Led(w)'
  <2>1. w # NoNode
    BY NodeAssumption
  <2>2. CASE InitPeers = {w}
    BY <2>2 DEF Led
  <2>3. CASE InitPeers # {w}
    <3> DEFINE A == {m \in Node : sent[m].vote = w} \cup {w}
               B == {m \in Node : sent'[m].vote = w} \cup {w}
    <3>1. disk[w].vote = w /\ Quorum(A, InitPeers)
      BY <1>2, <2>3 DEF Led
    <3>2. A \subseteq B
      BY <1>1, <2>1
    <3>3. Quorum(B, InitPeers)
      BY <3>1, <3>2, QuorumGrows
    <3>4. disk'[w].vote = w
      BY <1>1, <2>1, <3>1
    <3> QED  BY <3>3, <3>4 DEF Led
  <2> QED  BY <2>2, <2>3
<1> QED  BY <1>1, <1>2

\* An engine takes what it has written for its vote, and writes it before it sends it.
LEMMA BallotNext ==
  ASSUME BallotInv, \A n \in Node : Polled(n) /\ Stored(n)
  PROVE  BallotInv'
<1> SUFFICES ASSUME NEW n \in Node PROVE BallotOK(n)'
  BY DEF BallotInv
<1>1. BallotOK(n) /\ Polled(n) /\ Stored(n)
  BY DEF BallotInv
<1>2. /\ \A m \in Node : sent[m].vote # NoNode => sent'[m].vote = sent[m].vote
      /\ Led(n) => Led(n)'
  BY VotesStay
<1>3. InitPeers \subseteq Node /\ n # NoNode
  BY NodeAssumption, PeersAssumption
<1>4. /\ raft'[n].vote # NoNode => raft'[n].vote \in InitPeers /\ raft'[n].term # 1
      /\ raft'[n].role # "Follower" => raft'[n].vote = n
  BY <1>1 DEF Polled
<1>5. raft'[n].vote \in {NoNode, n} \/ sent'[raft'[n].vote].vote = raft'[n].vote
  BY <1>1, <1>2, <1>3, <1>4 DEF Polled
<1>6. CASE SameDisk(n) /\ SameSent(n)
  <2>1. /\ sent'[n].vote # NoNode => disk'[n].vote = sent'[n].vote /\ sent'[n].term # 1
        /\ disk'[n].vote # NoNode => raft'[n].vote = disk'[n].vote /\ disk'[n].term # 1
        /\ sent'[n].role # "Follower" => sent'[n].vote = n
    BY <1>1, <1>6 DEF BallotOK, Polled, SameDisk, SameSent
  <2>2. raft'[n].role = "Leader" \/ sent'[n].role = "Leader" => Led(n)'
    BY <1>1, <1>2, <1>6 DEF BallotOK, Polled, SameSent
  <2> QED  BY <1>4, <1>5, <2>1, <2>2 DEF BallotOK
<1>7. CASE ~(SameDisk(n) /\ SameSent(n))
  <2>1. /\ disk'[n].term = raft'[n].term /\ disk'[n].vote = raft'[n].vote
        /\ sent'[n].role = raft'[n].role /\ sent'[n].term = raft'[n].term
        /\ sent'[n].vote = raft'[n].vote
    BY <1>1, <1>7 DEF Stored, Writes, Sends
  <2>2. raft'[n].role = "Leader" => Led(n)'
    BY <1>1, <1>2 DEF Polled
  <2> QED  BY <1>4, <1>5, <2>1, <2>2 DEF BallotOK
<1> QED  BY <1>6, <1>7

\* Of two beginnings of a log, a follower's and what it receives, it keeps one.
LEMMA ReceivedBegins ==
  ASSUME NEW k \in Seq(Entry), NEW l \in Seq(Entry), NEW s \in Seq(Entry),
         Begins(k, s), Begins(l, s)
  PROVE  Begins(Received(k, l), s)
<1>1. Matching(k, l)
  BY DEF Matching, Begins
<1>2. Received(k, l) \in {k, l}
  BY <1>1, ReceivedMatching
<1> QED  BY <1>2

\* The leader's own step, and those of the others, under its leadership
LEMMA LedLogs ==
  ASSUME IndInv, BallotInv, \A n \in Node : Polled(n) /\ Stored(n), NEW w \in Node,
         Led(w), LogsBegin(w)
  PROVE  LogsBegin(w)'
<1> DEFINE s == disk[w].log
           t == disk'[w].log
<1>1. \A n \in Node : raft[n].log \in Seq(Entry) /\ disk[n].log \in Seq(Entry)
                      /\ sent[n].log \in Seq(Entry)
  BY DEF IndInv, TypeOK, Raft, Disk, Message
<1>2. /\ Begins(s, raft[w].log)
      /\ \A n \in Node : /\ n # w => Begins(raft[n].log, s)
                         /\ Begins(disk[n].log, s) /\ Begins(sent[n].log, s)
  BY DEF LogsBegin, OtherLogs
<1>3. \A n \in Node : Led(n) \/ sent[n].role = "Leader" => n = w
  BY LedOnce DEF BallotInv, BallotOK
<1>4. ASSUME NEW n \in Node
      PROVE  \/ raft'[n].log \in {raft[n].log, disk[n].log}
             \/ n # w /\ raft'[n].log = Received(raft[n].log, sent[w].log)
             \/ n = w /\ \E e \in Entry : Appended(raft'[n].log, raft[n].log, e)
  BY <1>3 DEF Polled
<1>5. ASSUME NEW n \in Node
      PROVE  \/ disk'[n].log = disk[n].log /\ sent'[n].log = sent[n].log
             \/ /\ disk'[n].log = raft[n].log /\ sent'[n].log = raft[n].log
                /\ raft'[n].log = raft[n].log
  BY DEF Stored, SameDisk, SameSent, Writes, Sends
<1>6. Begins(t, raft'[w].log) /\ t \in Seq(Entry)
  <2>1. CASE t = s
    <3>1. CASE raft'[w].log \in {raft[w].log, s}
      BY <1>1, <1>2, <2>1, <3>1 DEF Begins
    <3>2. ASSUME NEW e \in Entry, Appended(raft'[w].log, raft[w].log, e)
          PROVE  Begins(t, raft'[w].log)
      <4>1. /\ Len(raft'[w].log) = Len(raft[w].log) + 1
            /\ \A i \in 1..Len(raft[w].log) : raft'[w].log[i] = raft[w].log[i]
        BY <1>1, <3>2, AppendedLemma
      <4> QED  BY <1>1, <1>2, <2>1, <4>1 DEF Begins
    <3> QED  BY <1>1, <1>4, <2>1, <3>1, <3>2
  <2>2. CASE t = raft[w].log /\ raft'[w].log = raft[w].log
    BY <1>1, <2>2 DEF Begins
  <2> QED  BY <1>5, <2>1, <2>2
<1>7. Begins(s, t)
  BY <1>1, <1>2, <1>5 DEF Begins
<1>8. ASSUME NEW l \in Seq(Entry), Begins(l, s) PROVE Begins(l, t)
  BY <1>1, <1>6, <1>7, <1>8 DEF Begins
<1>9. ASSUME NEW n \in Node
      PROVE  /\ n # w => Begins(raft'[n].log, t)
             /\ Begins(disk'[n].log, t) /\ Begins(sent'[n].log, t)
  <2>1. CASE n = w
    <3>1. Begins(t, t)
      BY <1>6 DEF Begins
    <3>2. Begins(sent[w].log, t)
      BY <1>1, <1>2, <1>8
    <3>3. sent'[w].log \in {sent[w].log, t}
      BY <1>5
    <3> QED  BY <2>1, <3>1, <3>2, <3>3
  <2>2. CASE n # w
    <3>1. Begins(raft[n].log, s) /\ Begins(disk[n].log, s) /\ Begins(sent[n].log, s)
          /\ Begins(sent[w].log, s)
      BY <1>2, <2>2
    <3>2. Begins(Received(raft[n].log, sent[w].log), s)
      BY <1>1, <3>1, ReceivedBegins
    <3>3. Received(raft[n].log, sent[w].log) \in Seq(Entry)
      BY <1>1, ReceivedLemma
    <3>4. raft'[n].log \in {raft[n].log, disk[n].log, Received(raft[n].log, sent[w].log)}
      BY <1>4, <2>2
    <3>5. /\ disk'[n].log \in {disk[n].log, raft[n].log}
          /\ sent'[n].log \in {sent[n].log, raft[n].log}
      BY <1>5
    <3> HIDE DEF s, t
    <3> QED  BY <1>1, <1>8, <3>1, <3>2, <3>3, <3>4, <3>5
  <2> QED  BY <2>1, <2>2
<1> HIDE DEF s
<1> QED  BY <1>6, <1>9 DEF LogsBegin, OtherLogs

\* All logs are empty until there is a leader
LEMMA OneLogNext ==
  ASSUME IndInv, BallotInv, LedByOne', OneLog, \A n \in Node : Polled(n) /\ Stored(n)
  PROVE  OneLog'
<1>1. \A n \in Node : Led(n) => Led(n)'
  BY VotesStay
<1>2. CASE \E v \in Node : Led(v)
  <2>1. PICK v \in Node : Led(v)
    BY <1>2
  <2>2. LogsBegin(v)' /\ Led(v)'
    BY <1>1, <2>1, LedLogs DEF OneLog
  <2>3. \A w \in Node : Led(w)' => w = v
    BY <2>2 DEF LedByOne
  <2> QED  BY <2>2, <2>3 DEF OneLog
<1>3. CASE \A v \in Node : ~Led(v)
  <2>1. \A n \in Node : raft[n].log = << >> /\ disk[n].log = << >> /\ sent[n].log = << >>
    BY <1>3 DEF OneLog, Logs
  <2>2. \A n \in Node : sent[n].role # "Leader"
    BY <1>3 DEF BallotInv, BallotOK
  <2>3. ASSUME NEW n \in Node
        PROVE  raft'[n].log = << >> /\ disk'[n].log = << >> /\ sent'[n].log = << >>
    BY <1>3, <2>1, <2>2 DEF Polled, Stored, SameDisk, SameSent, Writes, Sends
  <2>4. \A w \in Node : LogsBegin(w)'
    BY <2>3 DEF LogsBegin, OtherLogs, Begins
  <2> QED  BY <2>3, <2>4 DEF OneLog, Logs
<1> QED  BY <1>2, <1>3

\* At first there is no leader, unless there is only one peer.
LEMMA OneLogInit == Init => BallotInv /\ OneLog
<1> SUFFICES ASSUME Init PROVE BallotInv /\ OneLog
  OBVIOUS
<1>1. \A n \in Node : /\ disk[n] = NewDisk /\ raft[n] = NewRaft(NewDisk)
                      /\ sent[n] = NewMessage
  BY DEF Init
<1>2. \A n \in Node : raft[n].log = << >> /\ disk[n].log = << >> /\ sent[n].log = << >>
  BY <1>1 DEF NewDisk, NewRaft, NewMessage
<1>3. BallotInv
  BY <1>1 DEF BallotInv, BallotOK, NewDisk, NewRaft, NewMessage
<1>4. OneLog
  BY <1>2 DEF OneLog, LogsBegin, OtherLogs, Logs, Begins
<1> QED  BY <1>3, <1>4

\* Beginnings of one log match.
LEMMA OneLogMatches ==
  ASSUME IndInv, OneLog
  PROVE  LogsMatch
<1>1. \A l \in Logs : l \in Seq(Entry)
  BY DEF Logs, IndInv, TypeOK, Raft, Disk, Message
<1>2. ASSUME NEW w \in Node, Led(w) PROVE LogsMatch
  <2>1. Begins(disk[w].log, raft[w].log) /\ \A l \in OtherLogs(w) : Begins(l, disk[w].log)
    BY <1>2 DEF OneLog, LogsBegin
  <2>2. /\ raft[w].log \in Seq(Entry) /\ disk[w].log \in Seq(Entry)
    BY Indices
  <2>3. \A l \in Logs : l = raft[w].log \/ l \in OtherLogs(w)
    BY DEF Logs, OtherLogs
  <2>4. ASSUME NEW l \in Logs PROVE Begins(l, raft[w].log)
    <3>1. l \in Seq(Entry)
      BY <1>1
    <3> QED  BY <2>1, <2>2, <2>3, <3>1 DEF Begins
  <2>5. ASSUME NEW k \in Logs, NEW l \in Logs PROVE Matching(k, l)
    <3>1. k \in Seq(Entry) /\ l \in Seq(Entry)
      BY <1>1
    <3>2. Begins(k, raft[w].log) /\ Begins(l, raft[w].log)
      BY <2>4
    <3> QED  BY <2>2, <3>1, <3>2 DEF Begins, Matching
  <2> QED  BY <2>5 DEF LogsMatch
<1>3. ASSUME \A w \in Node : ~Led(w) PROVE LogsMatch
  BY <1>3 DEF OneLog, LogsMatch, Matching
<1> QED  BY <1>2, <1>3

\* So the hypotheses about the logs hold as well.
LEMMA FirstLogs == ASSUME OneElection PROVE Spec => WholeOverwrites /\ []LogsMatch
<1> DEFINE Inv == IndInv /\ LogInv /\ BlocksInv /\ ChainInv
           Ballot == FirstInv /\ BallotInv /\ OneLog
<1>0. BallotInv' => LedByOne'
  BY BallotsLed, PTL
<1>1. Inv /\ Ballot /\ [Next]_vars => Ballot'
  <2> SUFFICES ASSUME Inv, Ballot, [Next]_vars PROVE Ballot'
    OBVIOUS
  <2>1. \A n \in Node : Polled(n) /\ Stored(n)
    BY StepPolled
  <2>2. BallotInv'
    BY <2>1, BallotNext
  <2> QED  BY <1>0, <2>1, <2>2, FirstNext, OneLogNext
<1>2. Init => Ballot
  BY FirstInit, OneLogInit
<1>3. Inv /\ Ballot => LogsMatch
  BY OneLogMatches
<1>4. Inv => NoTornOverwrite
  BY NoStops DEF NoTornOverwrite, IndInv
<1> HIDE DEF Inv, Ballot
<1>5. Spec => []Inv
  BY ChainInvariance DEF Inv
<1> QED  BY <1>1, <1>2, <1>3, <1>4, <1>5, PTL DEF Spec, WholeOverwrites

-----------------------------------------------------------------------------
(* Nothing forks after the first election *)

\* With one election and no stop (an engine may still panic and be started again),
\* the chains do not fork, whatever the peers, the blocks and the memberships they
\* ask for: the leader that process_ready makes of the winner has nothing to catch
\* up with, all logs are beginnings of its own, and no append is interrupted.
THEOREM FirstForkFree == ASSUME OneElection PROVE Spec => NonForking
  BY FirstInvariance, FirstLogs, ForkFree, PTL

\* Nor does the leader then build with peers other than those its chain asks for:
\* on_block_commit waits in ChangingConfig for each change it starts.
THEOREM FirstBuildsInstalled == ASSUME OneElection PROVE Spec => []BuildingOnInstalledPeers
  BY FirstInvariance, BuildsInstalled, PTL
=============================================================================
