----------------------------- MODULE LogProofs ------------------------------
(***************************************************************************)
(* The Raft log, the storage and the commit queue of an engine, for any    *)
(* number of peers, blocks, terms, stops and membership changes.           *)
(*                                                                         *)
(* NextMoves describes a step of the network as seen from one engine: the  *)
(* step is one of seven kinds, whatever the action.  The invariants below  *)
(* it need these kinds only.                                               *)
(***************************************************************************)
EXTENDS NodeProofs, FiniteSetTheorems, InductionLemmas

-----------------------------------------------------------------------------
(* The kinds of step *)

\* The leader waits for the verdict on a block it has published.
Awaits(n, b) == leader_state[n] \in {Publishing(b), Validating(b)}

\* An entry that a leader may append: the block it has been waiting for, which the
\* validator has found valid, a change of the peers that some block's settings ask
\* for, or an empty entry.
Fresh(n, e) ==
  /\ e \in Entry /\ e.term = raft[n].term
  /\ IsBlock(e) => /\ Valid(e.block) \in validator[n].inbox
                   /\ Awaits(n, e.block) /\ leader_state'[n] = Proposing(e.block)
  /\ IsConf(e) => \E b \in BlockId : Difference(n, b) # {}

\* The parts of the library's state that matter to other nodes stay the same.
Keeps(n) == /\ raft'[n].role = raft[n].role /\ raft'[n].term = raft[n].term
            /\ raft'[n].vote = raft[n].vote /\ raft'[n].log = raft[n].log
            /\ raft'[n].commit = raft[n].commit
            /\ raft'[n].delivered = raft[n].delivered

Appends(n) ==
  /\ raft[n].role = "Leader"
  /\ \E e : /\ Fresh(n, e)
            /\ raft'[n] = AppendAsLeader(n, raft[n], e, raft_id_to_peer_id[n])

Campaigns(n) ==
  /\ raft[n].role # "Leader" /\ raft[n].term < MaxTerm
  /\ n \in raft_id_to_peer_id[n]
  /\ raft'[n] = Campaign(n, raft[n], raft_id_to_peer_id[n])

HearsCandidate(n, m) ==
  /\ sent[m].role = "Candidate" /\ sent[m].term >= raft[n].term
  /\ raft'[n] = HandleRequestVote(raft[n], sent[m], m)

HearsLeader(n, m) ==
  /\ sent[m].role = "Leader" /\ sent[m].term >= raft[n].term
  /\ Consistent(raft[n], sent[m])
  /\ raft'[n] = HandleAppend(raft[n], sent[m])

Wins(n) ==
  /\ raft[n].role = "Candidate"
  /\ Quorum(Votes(n, raft[n]), raft_id_to_peer_id[n])
  /\ raft'[n] = BecomeLeader(n, raft[n], raft_id_to_peer_id[n])

Advances(n) ==
  /\ raft[n].role = "Leader"
  /\ \E i \in Acknowledged(n, raft[n], raft_id_to_peer_id[n]) :
       raft'[n] = [raft[n] EXCEPT !.commit = i, !.msgs = "waiting"]

Steps(n) == \/ \E m \in Node \ {n} : HearsCandidate(n, m) \/ HearsLeader(n, m)
            \/ Wins(n)
            \/ Advances(n)

LibraryMoves(n) == Keeps(n) \/ Appends(n) \/ Campaigns(n) \/ Steps(n)

Commits(n) == block_queue[n].commit_queue

Works(n) ==
  /\ Up(n) /\ LibraryMoves(n)
  /\ disk'[n] = disk[n] /\ sent'[n] = sent[n] /\ Commits(n)' = Commits(n)

Pops(n) ==
  /\ Up(n) /\ (Keeps(n) \/ Appends(n))
  /\ Commits(n) # << >> /\ Commits(n)' = Tail(Commits(n))
  /\ disk'[n] = SetApplied(disk[n], Commits(n)[1].entry)
  /\ sent'[n] = sent[n]

Saves(n) ==
  /\ Up(n) /\ Keeps(n)
  /\ disk'[n] = SetHardState(AppendEntries(disk[n], raft[n]), raft[n])
  /\ sent'[n] = Outgoing(n, raft_id_to_peer_id[n])
  /\ Commits(n)' = Commits(n)

Delivers(n) ==
  /\ Up(n) /\ raft[n].delivered < raft[n].ready
  /\ disk'[n] = disk[n] /\ sent'[n] = sent[n]
  /\ \/ raft'[n] = Delivered(raft[n])
     \/ /\ raft[n].role = "Leader" /\ IsConf(NextEntry(n))
        /\ \E P : raft'[n] = CommitAlone(n, Delivered(raft[n]), P)
  /\ Commits(n)' =
       IF IsBlock(NextEntry(n))
       THEN Append(Commits(n), [block |-> NextEntry(n).block,
                                entry |-> raft[n].delivered + 1])
       ELSE Commits(n)
  /\ IsConf(NextEntry(n)) => DeliverConfChange(n)

Stops(n) ==
  /\ Up(n) /\ ~Up(n)'
  /\ disk'[n] \in WrittenSoFar(n)
  /\ disk'[n] = disk[n] \/ CrashInReady(n)
  /\ sent'[n] \in {sent[n], SentSoFar(n)}
  /\ raft'[n] = NewRaft(disk'[n])

Starts(n) ==
  /\ ~Up(n) /\ raft'[n] = NewRaft(disk[n])
  /\ disk'[n] = disk[n] /\ sent'[n] = sent[n] /\ Commits(n)' = << >>

Rests(n) ==
  /\ Up(n)' <=> Up(n)
  /\ raft'[n] = raft[n] /\ disk'[n] = disk[n] /\ sent'[n] = sent[n]
  /\ Commits(n)' = Commits(n)

Moves(n) == \/ Works(n) \/ Pops(n) \/ Saves(n) \/ Delivers(n)
            \/ Stops(n) \/ Starts(n) \/ Rests(n)

-----------------------------------------------------------------------------
(* Every step is of one of these kinds *)

\* A step of n is no business of the others.
Alone(n) == \A m \in Node \ {n} : Rests(m)

\* handle_update, but for on_block_commit
LEMMA OnBlockNewMoves ==
  ASSUME IndInv, NEW n \in Node, NEW b \in BlockId, OnBlockNew(n, b)
  PROVE  Works(n) /\ Alone(n)
<1> USE DEF OnBlockNew, Goto
<1>1. TypeOK /\ Up(n) /\ block_queue[n] \in Queue
  BY DEF IndInv, TypeOK, Up, Running
<1>2. BlockNew(block_queue[n], b).commit_queue = block_queue[n].commit_queue
  BY <1>1, BacklogLemma
<1>3. Works(n)
  BY <1>1, <1>2 DEF Works, LibraryMoves, Keeps, Commits, TypeOK
<1>4. Alone(n)
  BY <1>1 DEF Alone, Rests, Commits, TypeOK, Up
<1> QED  BY <1>3, <1>4

\* The leader proposes the block only when it is told that it is valid.
LEMMA OnBlockValidMoves ==
  ASSUME IndInv, NEW n \in Node, NEW b \in BlockId, OnBlockValid(n, b)
  PROVE  Works(n) /\ Alone(n)
<1> USE DEF OnBlockValid, Goto
<1>1. /\ TypeOK /\ Up(n) /\ block_queue[n] \in Queue /\ raft[n] \in Raft
      /\ RolesOK(n) /\ phase[n] = "recv"
  BY DEF IndInv, TypeOK, Up, Running, NodeOK
<1>2. BlockValid(block_queue[n], b).commit_queue = block_queue[n].commit_queue
  BY <1>1, BacklogLemma
<1> DEFINE awaited == leader_state[n] \in {Publishing(b), Validating(b)}
           e == BlockEntry(raft[n].term, b)
<1>3. CASE ~awaited
  BY <1>1, <1>2, <1>3 DEF Works, LibraryMoves, Keeps, Commits, TypeOK, Alone, Rests, Up
<1>4. CASE awaited
  <2>1. raft[n].role = "Leader"
    BY <1>1, <1>4 DEF RolesOK, None, Publishing, Validating
  <2>2. Fresh(n, e)
    <3>1. e \in Entry
      BY <1>1, EntryTypes DEF Raft
    <3>2. e.term = raft[n].term /\ ~IsConf(e) /\ e.block = b
      BY DEF BlockEntry, IsConf
    <3>3. leader_state'[n] = Proposing(b)
      BY <1>1, <1>4 DEF TypeOK
    <3> HIDE DEF e
    <3> QED  BY <1>4, <3>1, <3>2, <3>3 DEF Fresh, Awaits
  <2>3. raft' = [raft EXCEPT ![n] = AppendAsLeader(n, raft[n], e, raft_id_to_peer_id[n])]
    BY <1>4 DEF Propose
  <2> HIDE DEF e
  <2>4. Appends(n)
    BY <1>1, <2>1, <2>2, <2>3 DEF Appends, TypeOK
  <2>5. Works(n)
    BY <1>1, <1>2, <2>4 DEF Works, LibraryMoves, Commits, TypeOK
  <2>6. Alone(n)
    BY <1>1, <2>3 DEF Alone, Rests, Commits, TypeOK, Up
  <2> QED  BY <2>5, <2>6
<1> QED  BY <1>3, <1>4

\* Updates that are only logged, and those about commits nobody waits for
LEMMA IgnoredMoves ==
  ASSUME IndInv, NEW n \in Node, NEW b \in BlockId,
         OnBlockInvalid(n, b) \/ IgnoreBlockCommit(n, b)
  PROVE  Works(n) /\ Alone(n)
  BY DEF IndInv, OnBlockInvalid, IgnoreBlockCommit, Goto, Works, LibraryMoves, Keeps,
         Commits, TypeOK, Alone, Rests, Up, Running

\* on_block_commit at a leader
LEMMA LeaderOnBlockCommitMoves ==
  ASSUME IndInv, NEW n \in Node, NEW b \in BlockId, LeaderOnBlockCommit(n, b)
  PROVE  Pops(n) /\ Alone(n)
<1>1. /\ CommittingBlock(n, b) /\ PopCommitted(n, b) /\ phase[n] = "recv"
      /\ leader_state[n] = Committing(b)
      /\ UNCHANGED <<sent, tree, follower_state, raft_id_to_peer_id, stops>>
  BY DEF LeaderOnBlockCommit, CommittingBlock, PopCommitted
<1>2. /\ TypeOK /\ Up(n) /\ RolesOK(n) /\ CommitOK(n) /\ block_queue[n] \in Queue
      /\ raft[n] \in Raft
  BY <1>1 DEF IndInv, TypeOK, NodeOK, Up, Running
<1>3. raft[n].role = "Leader"
  BY <1>1, <1>2 DEF RolesOK, None, Committing
<1>4. Commits(n) # << >>
  BY <1>1, <1>2 DEF CommitOK, Commits
<1>5. /\ Commits(n)' = Tail(Commits(n))
      /\ disk'[n] = SetApplied(disk[n], Commits(n)[1].entry)
  <2>1. /\ BlockCommitted(block_queue[n]).commit_queue = Tail(block_queue[n].commit_queue)
        /\ CommittedEntry(block_queue[n]) = block_queue[n].commit_queue[1].entry
    BY <1>2, <1>4, BlockCommittedLemma DEF Commits
  <2> QED  BY <1>1, <1>2, <2>1 DEF PopCommitted, Commits, TypeOK
<1>6. Keeps(n) \/ Appends(n)
  <2>1. CASE Difference(n, b) = {}
    BY <2>1 DEF LeaderOnBlockCommit, Keeps
  <2>2. CASE Difference(n, b) # {}
    <3> DEFINE x == CHOOSE y \in Difference(n, b) : TRUE
               e == IF ConfPending(raft[n]) THEN EmptyEntry(raft[n].term)
                                            ELSE ConfEntry(raft[n].term, Change(n, b), x)
    <3>1. x \in Node
      <4>1. Difference(n, b) \subseteq Node
        BY <1>2, SettingsLemma DEF Difference, TypeOK
      <4> QED  BY <2>2, <4>1
    <3>2. Fresh(n, e)
      <4>1. e \in Entry
        BY <1>2, <3>1, EntryTypes DEF Raft, Change
      <4>2. e.term = raft[n].term /\ ~IsBlock(e)
        BY DEF EmptyEntry, ConfEntry, IsBlock
      <4> HIDE DEF e
      <4> QED  BY <2>2, <4>1, <4>2 DEF Fresh
    <3>3. raft' = [raft EXCEPT ![n] = AppendAsLeader(n, raft[n], e, raft_id_to_peer_id[n])]
      BY <2>2 DEF LeaderOnBlockCommit, ProposeConfChange
    <3> HIDE DEF e
    <3> QED  BY <1>2, <1>3, <3>2, <3>3 DEF Appends, TypeOK
  <2> QED  BY <2>1, <2>2
<1>7. Pops(n)
  BY <1>1, <1>2, <1>4, <1>5, <1>6 DEF Pops
<1>8. Alone(n)
  <2>1. \/ raft' = raft
        \/ \E r : raft' = [raft EXCEPT ![n] = r]
    BY DEF LeaderOnBlockCommit
  <2>2. \E p : phase' = [phase EXCEPT ![n] = p]
    BY DEF LeaderOnBlockCommit, Goto
  <2>3. \E q, d : block_queue' = [block_queue EXCEPT ![n] = q] /\ disk' = [disk EXCEPT ![n] = d]
    BY <1>1 DEF PopCommitted
  <2> QED  BY <1>1, <1>2, <2>1, <2>2, <2>3 DEF Alone, Rests, Commits, TypeOK, Up
<1> QED  BY <1>7, <1>8

\* on_block_commit at a follower
LEMMA FollowerOnBlockCommitMoves ==
  ASSUME IndInv, NEW n \in Node, NEW b \in BlockId, FollowerOnBlockCommit(n, b)
  PROVE  Pops(n) /\ Alone(n)
<1>1. /\ CommittingBlock(n, b) /\ PopCommitted(n, b) /\ phase[n] = "recv"
      /\ UNCHANGED <<raft, sent>> /\ phase' = [phase EXCEPT ![n] = "handled"]
  BY DEF FollowerOnBlockCommit, CommittingBlock, PopCommitted, Goto
<1>2. /\ TypeOK /\ Up(n) /\ CommitOK(n) /\ block_queue[n] \in Queue
  BY <1>1 DEF IndInv, TypeOK, NodeOK, Up, Running
<1>3. Commits(n) # << >>
  BY <1>1, <1>2 DEF CommitOK, Commits
<1>4. /\ Commits(n)' = Tail(Commits(n))
      /\ disk'[n] = SetApplied(disk[n], Commits(n)[1].entry)
  <2>1. /\ BlockCommitted(block_queue[n]).commit_queue = Tail(block_queue[n].commit_queue)
        /\ CommittedEntry(block_queue[n]) = block_queue[n].commit_queue[1].entry
    BY <1>2, <1>3, BlockCommittedLemma DEF Commits
  <2> QED  BY <1>1, <1>2, <2>1 DEF PopCommitted, Commits, TypeOK
<1>5. Pops(n)
  BY <1>1, <1>2, <1>3, <1>4 DEF Pops, Keeps
<1>6. Alone(n)
  BY <1>1, <1>2 DEF PopCommitted, Alone, Rests, Commits, TypeOK, Up
<1> QED  BY <1>5, <1>6

\* on_peer_message
LEMMA StepMessageMoves ==
  ASSUME IndInv, NEW n \in Node, NEW m \in Node, StepMessage(n, m)
  PROVE  Works(n) /\ Alone(n)
<1>1. TypeOK /\ Up(n) /\ m \in Node \ {n}
  BY DEF IndInv, StepMessage, Up, Running
<1>2. /\ phase' = [phase EXCEPT ![n] = "handled"]
      /\ UNCHANGED <<disk, sent, block_queue>>
  BY DEF StepMessage, Goto
<1>3. \E r : raft' = [raft EXCEPT ![n] = r]
  BY DEF StepMessage
<1>4. Steps(n)
  <2>1. raft \in [Node -> Raft]
    BY <1>1 DEF TypeOK
  <2> QED
    BY <1>1, <2>1
       DEF StepMessage, Steps, HearsCandidate, HearsLeader, Wins, Advances
<1>5. Works(n)
  BY <1>1, <1>2, <1>4 DEF Works, LibraryMoves, Commits
<1>6. Alone(n)
  BY <1>1, <1>2, <1>3 DEF Alone, Rests, Commits, TypeOK, Up
<1> QED  BY <1>5, <1>6

\* tick
LEMMA TickMoves ==
  ASSUME IndInv, NEW n \in Node, Tick(n)
  PROVE  Works(n) /\ Alone(n)
<1>1. /\ TypeOK /\ Up(n) /\ RaftTick(n) /\ raft[n] \in Raft
      /\ phase' = [phase EXCEPT ![n] = "ticked"]
      /\ UNCHANGED <<disk, sent, block_queue>>
  BY DEF IndInv, TypeOK, Tick, Up, Running, Goto
<1>2. Keeps(n) \/ Campaigns(n)
  <2>1. CASE UNCHANGED raft
    BY <2>1 DEF Keeps
  <2>2. CASE raft' = [raft EXCEPT ![n].msgs = "waiting"]
    BY <1>1, <2>2 DEF Keeps, TypeOK, Raft
  <2>3. CASE /\ raft[n].role # "Leader" /\ n \in raft_id_to_peer_id[n]
             /\ raft[n].term < MaxTerm
             /\ raft' = [raft EXCEPT ![n] = Campaign(n, @, raft_id_to_peer_id[n])]
    BY <1>1, <2>3 DEF Campaigns, TypeOK
  <2> QED  BY <1>1, <2>1, <2>2, <2>3 DEF RaftTick
<1>3. Works(n)
  BY <1>1, <1>2 DEF Works, LibraryMoves, Commits
<1>4. Alone(n)
  BY <1>1 DEF RaftTick, Alone, Rests, Commits, TypeOK, Up
<1> QED  BY <1>3, <1>4

\* The ends of process_ready
LEMMA FinishMoves ==
  ASSUME IndInv, NEW n \in Node, NothingReady(n) \/ FinishReady(n)
  PROVE  Works(n) /\ Alone(n)
<1>1. /\ TypeOK /\ Up(n) /\ UNCHANGED <<raft, disk, sent, block_queue>>
      /\ phase' = [phase EXCEPT ![n] = "recv"]
  BY DEF IndInv, NothingReady, FinishReady, Goto, Up, Running
<1> QED
  BY <1>1 DEF Works, LibraryMoves, Keeps, Commits, TypeOK, Alone, Rests, Up

\* The writes of process_ready
LEMMA ProcessReadyMoves ==
  ASSUME IndInv, NEW n \in Node, ProcessReady(n)
  PROVE  Saves(n) /\ Alone(n)
<1>1. /\ TypeOK /\ Up(n) /\ TakeRole(n) /\ raft[n] \in Raft
      /\ disk' = [disk EXCEPT ![n] = SetHardState(AppendEntries(@, raft[n]), raft[n])]
      /\ sent' = [sent EXCEPT ![n] = Outgoing(n, raft_id_to_peer_id[n])]
      /\ raft' = [raft EXCEPT ![n].ready = raft[n].commit, ![n].msgs = "none"]
      /\ UNCHANGED block_queue
  BY DEF IndInv, TypeOK, ProcessReady, Up, Running
<1>2. RoleTaken(n)
  BY <1>1, TakeRoleLemma
<1>3. Keeps(n)
  BY <1>1 DEF Keeps, TypeOK, Raft
<1>4. /\ disk'[n] = SetHardState(AppendEntries(disk[n], raft[n]), raft[n])
      /\ sent'[n] = Outgoing(n, raft_id_to_peer_id[n])
  BY <1>1 DEF TypeOK
<1>5. Saves(n)
  BY <1>1, <1>3, <1>4 DEF Saves, Commits
<1>6. Alone(n)
  BY <1>1, <1>2 DEF RoleTaken, Alone, Rests, Commits, TypeOK, Up
<1> QED  BY <1>5, <1>6

\* An entry without a block leaves the queue alone.
LEMMA DeliverEmptyMoves ==
  ASSUME IndInv, NEW n \in Node, DeliverEmpty(n)
  PROVE  Delivers(n) /\ Alone(n)
<1>1. /\ TypeOK /\ Up(n) /\ raft[n].delivered < raft[n].ready
      /\ ~IsBlock(NextEntry(n)) /\ ~IsConf(NextEntry(n))
      /\ raft' = [raft EXCEPT ![n] = Delivered(raft[n])]
      /\ UNCHANGED <<disk, sent, block_queue, phase>>
  BY DEF IndInv, DeliverEmpty, Delivering, Up, Running
<1>2. Delivers(n)
  BY <1>1 DEF Delivers, Commits, TypeOK
<1>3. Alone(n)
  BY <1>1 DEF Alone, Rests, Commits, TypeOK, Up
<1> QED  BY <1>2, <1>3

\* A block entry goes to the end of the queue.
LEMMA DeliverBlockMoves ==
  ASSUME IndInv, NEW n \in Node, DeliverBlock(n)
  PROVE  Delivers(n) /\ Alone(n)
<1> DEFINE b == NextEntry(n).block
           i == raft[n].delivered + 1
<1>1. /\ TypeOK /\ Up(n) /\ raft[n].delivered < raft[n].ready /\ IsBlock(NextEntry(n))
      /\ raft' = [raft EXCEPT ![n] = Delivered(raft[n])]
      /\ block_queue' = [block_queue EXCEPT ![n] = AddBlockCommit(@, b, i)]
      /\ UNCHANGED <<disk, sent, phase>>
  BY DEF IndInv, DeliverBlock, Delivering, Up, Running
<1>2. NextEntry(n) \in Entry /\ i \in Nat /\ block_queue[n] \in Queue
  BY <1>1, NextEntryLemma DEF DeliverBlock, TypeOK
<1>3. b \in BlockId /\ ~IsConf(NextEntry(n))
  BY <1>1, <1>2 DEF IsBlock, IsConf, Entry
<1> HIDE DEF b, i
<1>4. Commits(n)' = Append(Commits(n), [block |-> b, entry |-> i])
  BY <1>1, <1>2, <1>3, AddBlockCommitLemma DEF Commits, TypeOK
<1>5. Delivers(n)
  BY <1>1, <1>3, <1>4 DEF Delivers, TypeOK, b, i
<1>6. Alone(n)
  BY <1>1 DEF Alone, Rests, Commits, TypeOK, Up
<1> QED  BY <1>5, <1>6

\* apply_conf_change: a leader left alone has committed its whole log.
LEMMA DeliverConfChangeMoves ==
  ASSUME IndInv, NEW n \in Node, DeliverConfChange(n)
  PROVE  Delivers(n) /\ Alone(n)
<1> DEFINE e == NextEntry(n)
           r == Delivered(raft[n])
<1>1. /\ TypeOK /\ Up(n) /\ raft[n].delivered < raft[n].ready /\ IsConf(e)
      /\ raft' = [raft EXCEPT ![n] = ApplyConfChange(n, r, e)]
      /\ UNCHANGED <<disk, sent, block_queue>>
      /\ raft[n] \in Raft /\ e \in Entry
  BY NextEntryLemma DEF IndInv, DeliverConfChange, Delivering, Up, Running
<1>2. ~IsBlock(e)
  BY <1>1 DEF IsConf, IsBlock, Entry
<1>3. r.role = raft[n].role
  BY <1>1, DeliveredLemma
<1>4. raft'[n] = IF raft[n].role = "Leader" THEN CommitAlone(n, r, ChangedPeers(n, e)) ELSE r
  BY <1>1, <1>3 DEF ApplyConfChange, TypeOK
<1>5. Delivers(n)
  BY <1>1, <1>2, <1>4 DEF Delivers, Commits
<1>6. Alone(n)
  <2>1. \E p : phase' = [phase EXCEPT ![n] = p]
    BY DEF DeliverConfChange, Goto
  <2> QED  BY <1>1, <2>1 DEF Alone, Rests, Commits, TypeOK, Up
<1> QED  BY <1>5, <1>6

\* The engine's own removal
LEMMA DeliverOwnRemovalMoves ==
  ASSUME IndInv, NEW n \in Node, DeliverOwnRemoval(n)
  PROVE  Works(n) /\ Alone(n)
<1>1. /\ TypeOK /\ Up(n) /\ UNCHANGED <<raft, disk, sent, block_queue>>
      /\ phase' = [phase EXCEPT ![n] = "removed"]
  BY DEF IndInv, DeliverOwnRemoval, Delivering, Goto, Up, Running
<1> QED
  BY <1>1 DEF Works, LibraryMoves, Keeps, Commits, TypeOK, Alone, Rests, Up

\* A stop between two iterations, or between the writes of process_ready
LEMMA StopMoves ==
  ASSUME IndInv, NEW n \in Node, Stop(n) \/ CrashInReady(n)
  PROVE  Stops(n) /\ Alone(n)
<1>1. TypeOK /\ Up(n)
  BY DEF IndInv, Stop, CrashInReady, Up, Running
<1>2. PICK d \in WrittenSoFar(n), s \in {sent[n], SentSoFar(n)} :
        Lost(n, d, s) /\ (d = disk[n] \/ CrashInReady(n))
  BY DEF Stop, CrashInReady, WrittenSoFar
<1>3. /\ disk' = [disk EXCEPT ![n] = d] /\ sent' = [sent EXCEPT ![n] = s]
      /\ raft' = [raft EXCEPT ![n] = NewRaft(d)]
      /\ block_queue' = [block_queue EXCEPT ![n] = NewBlockQueue]
      /\ phase' = [phase EXCEPT ![n] = "down"]
  BY <1>2 DEF Lost, Goto
<1>4. disk'[n] = d /\ sent'[n] = s /\ raft'[n] = NewRaft(d) /\ phase'[n] = "down"
  BY <1>1, <1>3 DEF TypeOK
<1>5. Stops(n)
  BY <1>1, <1>2, <1>4 DEF Stops, Up, Running
<1>6. Alone(n)
  BY <1>1, <1>3 DEF Alone, Rests, Commits, TypeOK, Up
<1> QED  BY <1>5, <1>6

\* start
LEMMA RestartMoves ==
  ASSUME IndInv, NEW n \in Node, Restart(n)
  PROVE  Starts(n) /\ Alone(n)
<1>1. /\ TypeOK /\ ~Up(n)
      /\ raft' = [raft EXCEPT ![n] = NewRaft(disk[n])]
      /\ block_queue' = [block_queue EXCEPT ![n] = NewBlockQueue]
      /\ phase' = [phase EXCEPT ![n] = "recv"]
      /\ UNCHANGED <<disk, sent>>
  BY DEF IndInv, Restart, Up, Running, Goto
<1>2. Starts(n)
  BY <1>1, NewBlockQueueLemma DEF Starts, Commits, TypeOK
<1>3. Alone(n)
  BY <1>1 DEF Alone, Rests, Commits, TypeOK, Up
<1> QED  BY <1>2, <1>3

OneMoves == \/ \A m \in Node : Rests(m)
            \/ \E n \in Node : Alone(n) /\ Moves(n)

\* Every step of the network is a step of one engine, or changes none of this.
LEMMA NextAlone ==
  ASSUME IndInv, [Next]_vars
  PROVE  OneMoves
<1>1. ASSUME NEW n \in Node, Alone(n),
             \/ Works(n) \/ Pops(n) \/ Saves(n) \/ Delivers(n) \/ Stops(n) \/ Starts(n)
      PROVE  OneMoves
  BY <1>1 DEF Moves, OneMoves
<1>2. ASSUME UNCHANGED <<raft, disk, sent, block_queue, phase>> PROVE OneMoves
  BY <1>2 DEF Rests, Commits, Up, OneMoves
<1>3. CASE UNCHANGED vars
  BY <1>2, <1>3 DEF vars
<1>4. ASSUME NEW n \in Node, HandleUpdate(n) PROVE OneMoves
  BY <1>1, <1>4, OnBlockNewMoves, OnBlockValidMoves, IgnoredMoves, LeaderOnBlockCommitMoves,
     FollowerOnBlockCommitMoves, StepMessageMoves DEF HandleUpdate, OnBlockCommit, OnPeerMessage
<1>5. ASSUME NEW n \in Node, Ready(n) PROVE OneMoves
  BY <1>1, <1>5, FinishMoves, ProcessReadyMoves, DeliverEmptyMoves, DeliverBlockMoves,
     DeliverConfChangeMoves, DeliverOwnRemovalMoves DEF Ready
<1>6. ASSUME NEW n \in Node, Tick(n) \/ Stop(n) \/ CrashInReady(n) \/ Restart(n)
      PROVE  OneMoves
  BY <1>1, <1>6, TickMoves, StopMoves, RestartMoves
<1>7. ASSUME NEW n \in Node, NEW b \in BlockId, ValidatorCommit(n, b) PROVE OneMoves
  BY <1>2, <1>7 DEF ValidatorCommit
<1>8. ASSUME NEW n \in Node, Quiet(n) PROVE OneMoves
  BY <1>2, <1>8 DEF Quiet, vars
<1> QED  BY <1>3, <1>4, <1>5, <1>6, <1>7, <1>8 DEF Next

\* Every step of the network is, for every engine, of one of the seven kinds.
LEMMA NextMoves ==
  ASSUME IndInv, [Next]_vars, NEW m \in Node
  PROVE  Moves(m)
<1>1. CASE \A k \in Node : Rests(k)
  BY <1>1 DEF Moves
<1>2. ASSUME NEW n \in Node, Alone(n), Moves(n) PROVE Moves(m)
  BY <1>2 DEF Alone, Moves
<1> QED  BY <1>1, <1>2, NextAlone DEF OneMoves

-----------------------------------------------------------------------------
(* What the library's memory may do between two states *)

\* From r to q: what is committed stays, the term does not go back, and a vote
\* is not changed within its term.
Grows(r, q) ==
  /\ r.commit <= q.commit
  /\ \A i \in 1..r.commit : q.log[i] = r.log[i]
  /\ r.term <= q.term
  /\ q.term = r.term /\ r.vote # NoNode => q.vote = r.vote

\* Log k is log l with entry e at its end.
Appended(k, l, e) == k = Append(l, e)

\* A leader's append changes nothing but the end of the log, and the commit index
\* of a leader that is the only voter.
LEMMA AppendAsLeaderFields ==
  ASSUME NEW n, NEW r \in Raft, NEW e \in Entry, NEW voters, r.commit <= Len(r.log)
  PROVE  LET q == AppendAsLeader(n, r, e, voters)
         IN  /\ q.role = r.role /\ q.term = r.term /\ q.vote = r.vote
             /\ Appended(q.log, r.log, e)
             /\ voters = {n} => q.commit = Len(r.log) + 1
             /\ voters # {n} => q.commit = r.commit
             /\ q.delivered = r.delivered
<1> DEFINE p == [r EXCEPT !.log = Append(@, e), !.msgs = "waiting"]
<1>1. r.log \in Seq(Entry) /\ Len(Append(r.log, e)) = Len(r.log) + 1
  BY DEF Raft
<1>2. /\ p.role = r.role /\ p.term = r.term /\ p.vote = r.vote
      /\ p.log = Append(r.log, e) /\ p.commit = r.commit /\ p.delivered = r.delivered
  BY DEF Raft
<1>3. p \in Raft
  <2>1. Append(r.log, e) \in Seq(Entry)
    BY <1>1
  <2> QED  BY <2>1 DEF Raft
<1>4. AppendAsLeader(n, r, e, voters)
        = IF voters = {n} THEN [p EXCEPT !.commit = Len(p.log)] ELSE p
  BY DEF AppendAsLeader, CommitAlone
<1> HIDE DEF p
<1>5. CASE voters = {n}
  BY <1>1, <1>2, <1>3, <1>4, <1>5 DEF Raft, Appended
<1>6. CASE voters # {n}
  BY <1>2, <1>4, <1>6 DEF Appended
<1> QED  BY <1>5, <1>6

\* An election won: the leader's empty entry is appended.
LEMMA BecomeLeaderFields ==
  ASSUME NEW n, NEW r \in Raft, NEW voters, r.commit <= Len(r.log)
  PROVE  LET q == BecomeLeader(n, r, voters)
         IN  /\ q.role = "Leader" /\ q.term = r.term /\ q.vote = r.vote
             /\ Appended(q.log, r.log, EmptyEntry(r.term))
             /\ voters = {n} => q.commit = Len(r.log) + 1
             /\ voters # {n} => q.commit = r.commit
             /\ q.delivered = r.delivered
<1> DEFINE p == [r EXCEPT !.role = "Leader"]
<1>1. p \in Raft /\ EmptyEntry(r.term) \in Entry
  BY EntryTypes DEF Raft, Role
<1>2. /\ p.role = "Leader" /\ p.term = r.term /\ p.vote = r.vote /\ p.log = r.log
      /\ p.commit = r.commit /\ p.delivered = r.delivered
  BY DEF Raft
<1>3. BecomeLeader(n, r, voters) = AppendAsLeader(n, p, EmptyEntry(r.term), voters)
  BY DEF BecomeLeader
<1> HIDE DEF p
<1>4. p.commit <= Len(p.log)
  BY <1>2
<1> DEFINE q == AppendAsLeader(n, p, EmptyEntry(r.term), voters)
<1>5. /\ q.role = p.role /\ q.term = p.term /\ q.vote = p.vote
      /\ Appended(q.log, p.log, EmptyEntry(r.term))
      /\ voters = {n} => q.commit = Len(p.log) + 1
      /\ voters # {n} => q.commit = p.commit
      /\ q.delivered = p.delivered
  BY <1>1, <1>4, AppendAsLeaderFields
<1> HIDE DEF q
<1> QED  BY <1>2, <1>3, <1>5 DEF q

\* A campaign: a new term, a vote for oneself, and leadership if nobody else votes.
LEMMA CampaignFields ==
  ASSUME NEW n \in Node, NEW r \in Raft, NEW voters, r.commit <= Len(r.log),
         r.term < MaxTerm
  PROVE  LET q == Campaign(n, r, voters)
         IN  /\ q.term = r.term + 1 /\ q.vote = n
             /\ voters = {n} => /\ q.role = "Leader"
                                /\ Appended(q.log, r.log, EmptyEntry(r.term + 1))
                                /\ q.commit = Len(r.log) + 1
             /\ voters # {n} => /\ q.role = "Candidate"
                                /\ q.log = r.log
                                /\ q.commit = r.commit
             /\ q.delivered = r.delivered
<1> DEFINE p == [r EXCEPT !.role = "Candidate", !.term = @ + 1, !.vote = n, !.msgs = "waiting"]
<1>1. r.term + 1 \in Term
  BY MaxTermAssumption DEF Raft, Term
<1>2. p \in Raft
  BY <1>1 DEF Raft, Role
<1>3. /\ p.role = "Candidate" /\ p.term = r.term + 1 /\ p.vote = n /\ p.log = r.log
      /\ p.commit = r.commit /\ p.delivered = r.delivered
  BY DEF Raft
<1>4. Campaign(n, r, voters) = IF voters = {n} THEN BecomeLeader(n, p, voters) ELSE p
  BY DEF Campaign
<1> HIDE DEF p
<1>5. p.commit <= Len(p.log)
  BY <1>3
<1>6. CASE voters = {n}
  <2> DEFINE q == BecomeLeader(n, p, voters)
  <2>1. /\ q.role = "Leader" /\ q.term = p.term /\ q.vote = p.vote
        /\ Appended(q.log, p.log, EmptyEntry(p.term))
        /\ q.commit = Len(p.log) + 1
        /\ q.delivered = p.delivered
    BY <1>2, <1>5, <1>6, BecomeLeaderFields
  <2> HIDE DEF q
  <2> QED  BY <1>3, <1>4, <1>6, <2>1 DEF q
<1>7. CASE voters # {n}
  BY <1>3, <1>4, <1>7
<1> QED  BY <1>6, <1>7

\* A message of a later term makes a follower without a vote.
LEMMA AtTermFields ==
  ASSUME NEW r \in Raft, NEW t \in Term, t >= r.term
  PROVE  LET p == AtTerm(r, t)
         IN  /\ p \in Raft
             /\ p.role = IF t > r.term THEN "Follower" ELSE r.role
             /\ p.term = t /\ p.log = r.log /\ p.commit = r.commit
             /\ p.delivered = r.delivered
             /\ p.vote = IF t > r.term THEN NoNode ELSE r.vote
<1>1. r.term \in Int /\ t \in Int
  BY MaxTermAssumption DEF Raft, Term
<1>2. CASE t > r.term
  <2>1. AtTerm(r, t) = [r EXCEPT !.role = "Follower", !.term = t, !.vote = NoNode]
    BY <1>2 DEF AtTerm
  <2> QED  BY <1>2, <2>1 DEF Raft, Role
<1>3. CASE ~(t > r.term)
  <2>1. AtTerm(r, t) = r /\ r.term = t
    BY <1>1, <1>3 DEF AtTerm
  <2> QED  BY <1>3, <2>1
<1> QED  BY <1>2, <1>3

\* A vote request: the term follows the candidate's, and a vote is given only by
\* a node that has none in that term, to a log as good as its own.
LEMMA HandleRequestVoteFields ==
  ASSUME NEW r \in Raft, NEW s \in Message, NEW m \in Node, s.term >= r.term
  PROVE  LET q == HandleRequestVote(r, s, m)
         IN  /\ q.role = IF s.term > r.term THEN "Follower" ELSE r.role
             /\ q.term = s.term /\ q.log = r.log /\ q.commit = r.commit
             /\ q.delivered = r.delivered
             /\ q.vote = IF s.term > r.term \/ r.vote = NoNode
                         THEN IF UpToDate(s.log, r.log) THEN m ELSE NoNode
                         ELSE r.vote
<1> DEFINE p == AtTerm(r, s.term)
           v == IF p.vote = NoNode /\ UpToDate(s.log, p.log) THEN m ELSE p.vote
<1>1. s.term \in Term
  BY DEF Message
<1>2. /\ p \in Raft
      /\ p.role = IF s.term > r.term THEN "Follower" ELSE r.role
      /\ p.term = s.term /\ p.log = r.log /\ p.commit = r.commit
      /\ p.delivered = r.delivered
      /\ p.vote = IF s.term > r.term THEN NoNode ELSE r.vote
  BY <1>1, AtTermFields
<1>3. HandleRequestVote(r, s, m) = [p EXCEPT !.vote = v, !.msgs = "waiting"]
  BY DEF HandleRequestVote
<1>4. v = IF s.term > r.term \/ r.vote = NoNode
          THEN IF UpToDate(s.log, r.log) THEN m ELSE NoNode
          ELSE r.vote
  BY <1>2
<1> HIDE DEF p, v
<1> QED  BY <1>2, <1>3, <1>4 DEF Raft

\* A leader's message: the receiver follows it in its term and takes the entries it
\* does not have.
LEMMA HandleAppendFields ==
  ASSUME NEW r \in Raft, NEW s \in Message, s.term >= r.term
  PROVE  LET q == HandleAppend(r, s)
         IN  /\ q.role = "Follower" /\ q.term = s.term
             /\ q.log = Received(r.log, s.log)
             /\ q.commit = IF r.commit > s.commit THEN r.commit ELSE s.commit
             /\ q.delivered = r.delivered
             /\ q.vote = IF s.term > r.term THEN NoNode ELSE r.vote
<1> DEFINE p == AtTerm(r, s.term)
           log == Received(r.log, s.log)
           commit == IF r.commit > s.commit THEN r.commit ELSE s.commit
<1>1. s.term \in Term
  BY DEF Message
<1>2. /\ p \in Raft /\ p.term = s.term /\ p.log = r.log /\ p.commit = r.commit
      /\ p.delivered = r.delivered
      /\ p.vote = IF s.term > r.term THEN NoNode ELSE r.vote
  BY <1>1, AtTermFields
<1>3. HandleAppend(r, s) = [p EXCEPT !.role = "Follower", !.log = log,
                                     !.commit = commit, !.msgs = "waiting"]
  BY <1>2 DEF HandleAppend, Higher
<1> HIDE DEF p, log, commit
<1>4. /\ HandleAppend(r, s).role = "Follower" /\ HandleAppend(r, s).log = log
      /\ HandleAppend(r, s).commit = commit /\ HandleAppend(r, s).term = p.term
      /\ HandleAppend(r, s).vote = p.vote /\ HandleAppend(r, s).delivered = p.delivered
  BY <1>2, <1>3 DEF Raft
<1> QED  BY <1>2, <1>4 DEF log, commit

\* The delivery of an entry changes nothing else.
LEMMA DeliveredFields ==
  ASSUME NEW r \in Raft
  PROVE  LET p == Delivered(r)
         IN  /\ p \in Raft /\ p.delivered = r.delivered + 1 /\ p.log = r.log
             /\ p.role = r.role /\ p.term = r.term /\ p.vote = r.vote
             /\ p.commit = r.commit
<1>1. Delivered(r) = [r EXCEPT !.delivered = r.delivered + 1]
  BY DEF Delivered
<1> QED  BY <1>1 DEF Raft

\* What a log shares with a prefix of it.
LEMMA PrefixLemma ==
  ASSUME NEW S, NEW s \in Seq(S), NEW t \in Seq(S), IsPrefix(s, t)
  PROVE  Len(s) <= Len(t) /\ \A i \in 1..Len(s) : t[i] = s[i]
<1>1. Len(s) <= Len(t) /\ SubSeq(s, 1, Len(s)) = SubSeq(t, 1, Len(s))
  BY DEF IsPrefix
<1>2. Len(s) \in Nat /\ Len(t) \in Nat
  OBVIOUS
<1>3. ASSUME NEW i \in 1..Len(s) PROVE t[i] = s[i]
  <2>1. SubSeq(s, 1, Len(s))[i] = s[i]
    BY <1>2
  <2>2. SubSeq(t, 1, Len(s))[i] = t[i]
    BY <1>1, <1>2
  <2> QED  BY <1>1, <2>1, <2>2
<1> QED  BY <1>1, <1>3

\* The elements of a log with an entry at its end.
LEMMA AppendedLemma ==
  ASSUME NEW l \in Seq(Entry), NEW e \in Entry, NEW k, Appended(k, l, e)
  PROVE  /\ k \in Seq(Entry) /\ Len(k) = Len(l) + 1 /\ k[Len(l) + 1] = e
         /\ \A i \in 1..Len(l) : k[i] = l[i]
  BY DEF Appended

\* Every move of the library keeps what is committed, its term and its vote.
LEMMA LibraryGrows ==
  ASSUME IndInv, NEW n \in Node, Up(n), LibraryMoves(n)
  PROVE  Grows(raft[n], raft'[n]) /\ raft'[n].delivered = raft[n].delivered
<1> DEFINE r == raft[n]
           q == raft'[n]
           voters == raft_id_to_peer_id[n]
<1>1. /\ r \in Raft /\ r.commit <= Len(r.log)
      /\ r.log \in Seq(Entry) /\ Len(r.log) \in Nat /\ r.commit \in Nat
      /\ r.term \in Int /\ r.term \in Term
  BY MaxTermAssumption DEF IndInv, TypeOK, NodeOK, IndexOK, Raft, Term
<1> HIDE DEF r, q, voters
<1>2. ASSUME q.commit = r.commit \/ q.commit = Len(r.log) + 1,
             NEW e \in Entry, Appended(q.log, r.log, e)
      PROVE  r.commit <= q.commit /\ \A i \in 1..r.commit : q.log[i] = r.log[i]
  <2>1. \A i \in 1..Len(r.log) : q.log[i] = r.log[i]
    BY <1>1, <1>2, AppendedLemma
  <2> QED  BY <1>1, <1>2, <2>1
<1>3. CASE Keeps(n)
  BY <1>1, <1>3 DEF Keeps, Grows, r, q
<1>4. CASE Appends(n)
  <2>1. PICK e : Fresh(n, e) /\ q = AppendAsLeader(n, r, e, voters)
    BY <1>4 DEF Appends, r, q, voters
  <2>2. e \in Entry
    BY <2>1 DEF Fresh
  <2>3. /\ q.term = r.term /\ q.vote = r.vote /\ Appended(q.log, r.log, e)
        /\ voters = {n} => q.commit = Len(r.log) + 1
        /\ voters # {n} => q.commit = r.commit
        /\ q.delivered = r.delivered
    <3>1. q = AppendAsLeader(n, r, e, voters) /\ r \in Raft /\ r.commit <= Len(r.log)
      BY <1>1, <2>1
    <3>2. q.term = r.term
      BY <2>2, <3>1, AppendAsLeaderFields
    <3>3. q.vote = r.vote
      BY <2>2, <3>1, AppendAsLeaderFields
    <3>4. q.delivered = r.delivered
      BY <2>2, <3>1, AppendAsLeaderFields
    <3>5. Appended(q.log, r.log, e)
      BY <2>2, <3>1, AppendAsLeaderFields
    <3>6. /\ voters = {n} => q.commit = Len(r.log) + 1
          /\ voters # {n} => q.commit = r.commit
      BY <2>2, <3>1, AppendAsLeaderFields
    <3> QED  BY <3>2, <3>3, <3>4, <3>5, <3>6
  <2>4. r.commit <= q.commit /\ \A i \in 1..r.commit : q.log[i] = r.log[i]
    BY <1>2, <2>2, <2>3
  <2> QED  BY <1>1, <2>3, <2>4 DEF Grows, r, q
<1>5. CASE Campaigns(n)
  <2>0. r.term < MaxTerm /\ q = Campaign(n, r, voters)
    BY <1>5 DEF Campaigns, r, q, voters
  <2>1. r.term + 1 \in Term
    BY <1>1, <2>0, MaxTermAssumption DEF Term
  <2>2. /\ q.term = r.term + 1 /\ q.delivered = r.delivered
        /\ voters = {n} => /\ Appended(q.log, r.log, EmptyEntry(r.term + 1))
                           /\ q.commit = Len(r.log) + 1
        /\ voters # {n} => q.log = r.log /\ q.commit = r.commit
    BY <1>1, <2>0, CampaignFields
  <2>3. EmptyEntry(r.term + 1) \in Entry
    BY <2>1, EntryTypes
  <2>4. r.commit <= q.commit /\ \A i \in 1..r.commit : q.log[i] = r.log[i]
    <3>1. CASE voters = {n}
      BY <1>2, <2>2, <2>3, <3>1
    <3>2. CASE voters # {n}
      BY <1>1, <2>2, <3>2
    <3> QED  BY <3>1, <3>2
  <2> QED  BY <1>1, <2>2, <2>4 DEF Grows, r, q
<1>6. ASSUME NEW m \in Node, HearsCandidate(n, m) PROVE Grows(r, q) /\ q.delivered = r.delivered
  <2> DEFINE s == sent[m]
  <2>1. s \in Message /\ s.term \in Int
    BY MaxTermAssumption DEF IndInv, TypeOK, Message, Term
  <2>2. s.term >= r.term /\ q = HandleRequestVote(r, s, m)
    BY <1>6 DEF HearsCandidate, r, q
  <2> HIDE DEF s
  <2>3. /\ q.term = s.term /\ q.log = r.log /\ q.commit = r.commit
        /\ q.delivered = r.delivered
        /\ ~(s.term > r.term) /\ r.vote # NoNode => q.vote = r.vote
    BY <1>1, <2>1, <2>2, HandleRequestVoteFields
  <2> QED  BY <1>1, <2>1, <2>2, <2>3 DEF Grows
<1>7. ASSUME NEW m \in Node, HearsLeader(n, m) PROVE Grows(r, q) /\ q.delivered = r.delivered
  <2> DEFINE s == sent[m]
  <2>1. s \in Message /\ s.term \in Int /\ s.log \in Seq(Entry) /\ s.commit \in Nat
    BY MaxTermAssumption DEF IndInv, TypeOK, Message, Term
  <2>2. s.term >= r.term /\ Consistent(r, s) /\ q = HandleAppend(r, s)
    BY <1>7 DEF HearsLeader, r, q
  <2> HIDE DEF s
  <2>3. /\ q.term = s.term /\ q.delivered = r.delivered
        /\ ~(s.term > r.term) => q.vote = r.vote
        /\ q.log = Received(r.log, s.log)
        /\ q.commit = r.commit \/ q.commit = s.commit
        /\ ~(r.commit > s.commit) => q.commit = s.commit
        /\ r.commit > s.commit => q.commit = r.commit
    BY <1>1, <2>1, <2>2, HandleAppendFields
  <2>4. r.commit <= q.commit
    BY <1>1, <2>1, <2>3
  <2>5. \A i \in 1..r.commit : q.log[i] = r.log[i]
    BY <1>1, <2>1, <2>2, <2>3, ReceivedKeeps
  <2> QED  BY <1>1, <2>1, <2>2, <2>3, <2>4, <2>5 DEF Grows
<1>8. CASE Wins(n)
  <2>1. q = BecomeLeader(n, r, voters) /\ EmptyEntry(r.term) \in Entry
    BY <1>1, <1>8, EntryTypes DEF Wins, r, q, voters
  <2>2. /\ q.term = r.term /\ q.vote = r.vote /\ Appended(q.log, r.log, EmptyEntry(r.term))
        /\ voters = {n} => q.commit = Len(r.log) + 1
        /\ voters # {n} => q.commit = r.commit
        /\ q.delivered = r.delivered
    <3>1. q = BecomeLeader(n, r, voters) /\ r \in Raft /\ r.commit <= Len(r.log)
      BY <1>1, <2>1
    <3> QED  BY <3>1, BecomeLeaderFields
  <2>3. r.commit <= q.commit /\ \A i \in 1..r.commit : q.log[i] = r.log[i]
    BY <1>2, <2>1, <2>2
  <2> QED  BY <1>1, <2>2, <2>3 DEF Grows, r, q
<1>9. CASE Advances(n)
  <2>1. PICK i \in Acknowledged(n, r, voters) :
          q = [r EXCEPT !.commit = i, !.msgs = "waiting"]
    BY <1>9 DEF Advances, r, q, voters
  <2>2. i \in (r.commit + 1)..Len(r.log)
    BY <2>1 DEF Acknowledged
  <2>3. /\ q.term = r.term /\ q.vote = r.vote /\ q.log = r.log /\ q.commit = i
        /\ q.delivered = r.delivered
    BY <1>1, <2>1 DEF Raft
  <2> QED  BY <1>1, <2>2, <2>3 DEF Grows, r, q
<1> QED
  BY <1>3, <1>4, <1>5, <1>6, <1>7, <1>8, <1>9 DEF LibraryMoves, Steps, r, q

-----------------------------------------------------------------------------
(* The storage against the library's memory, and the queue against the log *)

\* The queue is the segment of the log between the applied and the delivered
\* entry.
SegmentOK(n) ==
  /\ disk[n].applied <= raft[n].delivered
  /\ {Commits(n)[k].entry : k \in DOMAIN Commits(n)}
       = BlocksBetween(raft[n].log, disk[n].applied, raft[n].delivered)
  /\ \A k \in DOMAIN Commits(n) :
       Commits(n)[k].block = raft[n].log[Commits(n)[k].entry].block
  /\ \A k, l \in DOMAIN Commits(n) : k < l => Commits(n)[k].entry < Commits(n)[l].entry

\* The committed entries of the storage are those of the library.
AgreeOK(n) == \A i \in 1..disk[n].commit : raft[n].log[i] = disk[n].log[i]

\* The library has not forgotten the term and the vote of the storage.
VoteOK(n) ==
  /\ disk[n].term <= raft[n].term
  /\ raft[n].term = disk[n].term /\ disk[n].vote # NoNode => raft[n].vote = disk[n].vote

LogOK(n) == Up(n) => SegmentOK(n) /\ AgreeOK(n) /\ VoteOK(n)

LogInv == \A n \in Node : LogOK(n)

\* The fields that set_applied, append and set_hardstate write.
LEMMA DiskFields ==
  ASSUME NEW d \in Disk, NEW r \in Raft, NEW i \in Nat
  PROVE  /\ LET c == SetApplied(d, i)
            IN  /\ c.applied = i /\ c.log = d.log /\ c.commit = d.commit
                /\ c.term = d.term /\ c.vote = d.vote
         /\ LET c == AppendEntries(d, r)
            IN  /\ c.applied = d.applied /\ c.log = r.log /\ c.commit = d.commit
                /\ c.term = d.term /\ c.vote = d.vote
         /\ LET c == SetHardState(AppendEntries(d, r), r)
            IN  /\ c.applied = d.applied /\ c.log = r.log /\ c.commit = r.commit
                /\ c.term = r.term /\ c.vote = r.vote
<1>1. LET c == SetApplied(d, i)
      IN  /\ c.applied = i /\ c.log = d.log /\ c.commit = d.commit
          /\ c.term = d.term /\ c.vote = d.vote
  BY DEF SetApplied, Disk
<1> DEFINE a == AppendEntries(d, r)
<1>2. /\ a \in Disk /\ a.applied = d.applied /\ a.log = r.log /\ a.commit = d.commit
      /\ a.term = d.term /\ a.vote = d.vote
  BY DEF AppendEntries, Disk, Raft
<1> HIDE DEF a
<1>3. LET c == SetHardState(a, r)
      IN  /\ c.applied = a.applied /\ c.log = a.log /\ c.commit = r.commit
          /\ c.term = r.term /\ c.vote = r.vote
  BY <1>2 DEF SetHardState, Disk
<1> QED  BY <1>1, <1>2, <1>3 DEF a

\* What an engine that runs knows of its indices.
LEMMA Indices ==
  ASSUME IndInv, NEW n \in Node
  PROVE  /\ raft[n] \in Raft /\ disk[n] \in Disk
         /\ raft[n].log \in Seq(Entry) /\ disk[n].log \in Seq(Entry)
         /\ raft[n].commit \in Nat /\ raft[n].delivered \in Nat /\ raft[n].ready \in Nat
         /\ disk[n].commit \in Nat /\ disk[n].applied \in Nat
         /\ raft[n].term \in Nat /\ disk[n].term \in Nat
         /\ Commits(n) \in Seq(QueueEntry)
         /\ \A k \in DOMAIN Commits(n) : Commits(n)[k].entry \in Nat
         /\ disk[n].applied <= disk[n].commit
         /\ Up(n) => /\ raft[n].delivered <= raft[n].ready
                     /\ raft[n].ready <= disk[n].commit
                     /\ disk[n].commit <= raft[n].commit
                     /\ raft[n].commit <= Len(raft[n].log)
<1>1. /\ raft[n] \in Raft /\ disk[n] \in Disk /\ block_queue[n] \in Queue
      /\ NodeOK(n)
  BY DEF IndInv, TypeOK
<1>2. Commits(n) \in Seq(QueueEntry)
  BY <1>1 DEF Commits, Queue
<1>3. ASSUME NEW k \in DOMAIN Commits(n) PROVE Commits(n)[k].entry \in Nat
  <2>1. Commits(n)[k] \in QueueEntry
    BY <1>2
  <2> QED  BY <2>1 DEF QueueEntry
<1>4. raft[n].term \in Nat /\ disk[n].term \in Nat
  BY <1>1, MaxTermAssumption DEF Raft, Disk, Term
<1>5. /\ raft[n].log \in Seq(Entry) /\ disk[n].log \in Seq(Entry)
      /\ raft[n].commit \in Nat /\ raft[n].delivered \in Nat /\ raft[n].ready \in Nat
      /\ disk[n].commit \in Nat /\ disk[n].applied \in Nat
  BY <1>1 DEF Raft, Disk
<1>6. /\ disk[n].applied <= disk[n].commit
      /\ Up(n) => /\ raft[n].delivered <= raft[n].ready
                  /\ raft[n].ready <= disk[n].commit
                  /\ disk[n].commit <= raft[n].commit
                  /\ raft[n].commit <= Len(raft[n].log)
  BY <1>1 DEF NodeOK, DurableOK, IndexOK
<1> QED  BY <1>1, <1>2, <1>3, <1>4, <1>5, <1>6

\* A library that only grows keeps the storage and the queue in step with it.
LEMMA WorksLog ==
  ASSUME IndInv, IndInv', NEW n \in Node, LogOK(n), Works(n)
  PROVE  SegmentOK(n)' /\ AgreeOK(n)' /\ VoteOK(n)'
<1>1. /\ Up(n) /\ SegmentOK(n) /\ AgreeOK(n) /\ VoteOK(n)
      /\ disk'[n] = disk[n] /\ Commits(n)' = Commits(n)
      /\ Grows(raft[n], raft'[n]) /\ raft'[n].delivered = raft[n].delivered
  BY LibraryGrows DEF LogOK, Works
<1>2. /\ raft[n].commit \in Nat /\ raft[n].delivered \in Nat /\ disk[n].commit \in Nat
      /\ disk[n].applied \in Nat /\ raft[n].term \in Nat /\ disk[n].term \in Nat
      /\ raft[n].ready \in Nat /\ raft[n].delivered <= raft[n].ready
      /\ raft[n].ready <= disk[n].commit /\ disk[n].commit <= raft[n].commit
      /\ \A k \in DOMAIN Commits(n) : Commits(n)[k].entry \in Nat
  BY <1>1, Indices
<1>3. \A i \in 1..raft[n].commit : raft'[n].log[i] = raft[n].log[i]
  BY <1>1 DEF Grows
<1>4. SegmentOK(n)'
  <2>1. BlocksBetween(raft'[n].log, disk[n].applied, raft[n].delivered)
          = BlocksBetween(raft[n].log, disk[n].applied, raft[n].delivered)
    <3>1. \A x \in 1..raft[n].delivered : raft'[n].log[x] = raft[n].log[x]
      BY <1>2, <1>3
    <3> QED  BY <1>2, <3>1 DEF BlocksBetween
  <2>2. \A k \in DOMAIN Commits(n) :
          raft'[n].log[Commits(n)[k].entry] = raft[n].log[Commits(n)[k].entry]
    <3>1. ASSUME NEW k \in DOMAIN Commits(n) PROVE Commits(n)[k].entry \in 1..raft[n].commit
      <4>1. Commits(n)[k].entry
              \in BlocksBetween(raft[n].log, disk[n].applied, raft[n].delivered)
        BY <1>1 DEF SegmentOK
      <4> QED  BY <1>2, <4>1 DEF BlocksBetween
    <3> QED  BY <1>3, <3>1
  <2> QED  BY <1>1, <2>1, <2>2 DEF SegmentOK
<1>5. AgreeOK(n)'
  BY <1>1, <1>2, <1>3 DEF AgreeOK
<1>6. VoteOK(n)'
  <2>1. raft'[n].term \in Nat
    BY MaxTermAssumption DEF IndInv, TypeOK, Raft, Term
  <2> QED  BY <1>1, <1>2, <2>1 DEF VoteOK, Grows
<1> QED  BY <1>4, <1>5, <1>6

\* The front of the queue is the next block of the log after the applied entry.
LEMMA FrontIsNext ==
  ASSUME IndInv, NEW n \in Node, Up(n), SegmentOK(n), AgreeOK(n), Commits(n) # << >>
  PROVE  LET i == Commits(n)[1].entry
         IN  /\ i \in Nat /\ disk[n].applied < i /\ i <= raft[n].delivered
             /\ BlocksBetween(disk[n].log, disk[n].applied, i) = {i}
<1> DEFINE i == Commits(n)[1].entry
<1>1. /\ raft[n].delivered \in Nat /\ disk[n].commit \in Nat /\ disk[n].applied \in Nat
      /\ raft[n].ready \in Nat /\ raft[n].delivered <= raft[n].ready
      /\ raft[n].ready <= disk[n].commit
      /\ Commits(n) \in Seq(QueueEntry)
      /\ \A k \in DOMAIN Commits(n) : Commits(n)[k].entry \in Nat
  BY Indices
<1>2. 1 \in DOMAIN Commits(n) /\ \A k \in DOMAIN Commits(n) : k \in Nat /\ (k = 1 \/ 1 < k)
  BY <1>1
<1>3. i \in BlocksBetween(raft[n].log, disk[n].applied, raft[n].delivered)
  BY <1>2 DEF SegmentOK
<1>4. /\ i \in Nat /\ disk[n].applied < i /\ i <= raft[n].delivered
      /\ IsBlock(raft[n].log[i])
  BY <1>1, <1>3 DEF BlocksBetween
<1>5. \A k \in DOMAIN Commits(n) : i <= Commits(n)[k].entry
  BY <1>1, <1>2 DEF SegmentOK
<1> HIDE DEF i
<1>6. \A j \in 1..i : raft[n].log[j] = disk[n].log[j]
  BY <1>1, <1>4 DEF AgreeOK
<1>7. BlocksBetween(disk[n].log, disk[n].applied, i) = {i}
  <2>1. i \in BlocksBetween(disk[n].log, disk[n].applied, i)
    BY <1>1, <1>4, <1>6 DEF BlocksBetween
  <2>2. ASSUME NEW j \in BlocksBetween(disk[n].log, disk[n].applied, i) PROVE j = i
    <3>1. /\ j \in (disk[n].applied + 1)..raft[n].delivered /\ j <= i /\ j \in 1..i
          /\ IsBlock(disk[n].log[j])
      BY <1>1, <1>4, <2>2 DEF BlocksBetween
    <3>2. IsBlock(raft[n].log[j])
      BY <1>6, <3>1
    <3>3. j \in BlocksBetween(raft[n].log, disk[n].applied, raft[n].delivered)
      BY <3>1, <3>2 DEF BlocksBetween
    <3>4. PICK k \in DOMAIN Commits(n) : j = Commits(n)[k].entry
      BY <3>3 DEF SegmentOK
    <3> QED  BY <1>1, <1>4, <1>5, <3>1, <3>4
  <2> QED  BY <2>1, <2>2
<1> QED  BY <1>4, <1>7 DEF i

\* The committed block leaves the queue as set_applied moves past its entry.
LEMMA PopsLog ==
  ASSUME IndInv, IndInv', NEW n \in Node, LogOK(n), Pops(n)
  PROVE  SegmentOK(n)' /\ AgreeOK(n)' /\ VoteOK(n)'
<1> DEFINE i == Commits(n)[1].entry
           q == Commits(n)
<1>1. /\ Up(n) /\ SegmentOK(n) /\ AgreeOK(n) /\ VoteOK(n)
      /\ q # << >> /\ Commits(n)' = Tail(q)
      /\ disk'[n] = SetApplied(disk[n], i)
      /\ Grows(raft[n], raft'[n]) /\ raft'[n].delivered = raft[n].delivered
  BY LibraryGrows DEF LogOK, Pops, LibraryMoves
<1>2. /\ raft[n].commit \in Nat /\ raft[n].delivered \in Nat /\ disk[n].commit \in Nat
      /\ disk[n].applied \in Nat /\ raft[n].term \in Nat /\ disk[n].term \in Nat
      /\ raft[n].ready \in Nat /\ raft[n].delivered <= raft[n].ready
      /\ raft[n].ready <= disk[n].commit /\ disk[n].commit <= raft[n].commit
      /\ q \in Seq(QueueEntry)
      /\ \A k \in DOMAIN q : q[k].entry \in Nat
      /\ raft[n] \in Raft /\ disk[n] \in Disk
  BY <1>1, Indices
<1>3. i \in Nat /\ disk[n].applied < i /\ i <= raft[n].delivered
  BY <1>1, FrontIsNext
<1>4. /\ disk'[n].applied = i /\ disk'[n].log = disk[n].log
      /\ disk'[n].commit = disk[n].commit
      /\ disk'[n].term = disk[n].term /\ disk'[n].vote = disk[n].vote
  BY <1>1, <1>2, <1>3, DiskFields
<1>5. \A x \in 1..raft[n].commit : raft'[n].log[x] = raft[n].log[x]
  BY <1>1 DEF Grows
<1> DEFINE t == Tail(q)
           B == BlocksBetween(raft[n].log, disk[n].applied, raft[n].delivered)
<1>6. /\ \A k \in DOMAIN t : k \in Nat /\ k + 1 \in DOMAIN q /\ t[k] = q[k + 1]
      /\ \A k \in DOMAIN q : k \in Nat /\ (k = 1 \/ (k - 1 \in DOMAIN t /\ t[k - 1] = q[k]))
      /\ 1 \in DOMAIN q
  BY SMTT(20), <1>1, <1>2
<1>7. /\ {q[k].entry : k \in DOMAIN q} = B
      /\ \A k \in DOMAIN q : q[k].block = raft[n].log[q[k].entry].block
      /\ \A k, l \in DOMAIN q : k < l => q[k].entry < q[l].entry
  BY <1>1 DEF SegmentOK
<1> HIDE DEF q, t
<1>8. \A k \in DOMAIN q : q[k].entry \in 1..raft[n].delivered
  <2>1. \A x \in B : x \in 1..raft[n].delivered
    BY <1>2 DEF BlocksBetween
  <2> QED  BY <1>7, <2>1
<1>9. {t[k].entry : k \in DOMAIN t} = BlocksBetween(raft'[n].log, i, raft[n].delivered)
  <2>1. ASSUME NEW k \in DOMAIN t
        PROVE  t[k].entry \in BlocksBetween(raft'[n].log, i, raft[n].delivered)
    <3>1. k + 1 \in DOMAIN q /\ t[k] = q[k + 1] /\ 1 < k + 1
      <4>1. k \in Nat /\ k + 1 \in DOMAIN q /\ t[k] = q[k + 1]
        BY <1>6
      <4>2. k + 1 # 1 => 1 < k + 1
        BY <4>1
      <4>3. k # 0
        BY <1>2, <1>6 DEF t, q
      <4> QED  BY <4>1, <4>3
    <3>2. i < q[k + 1].entry /\ q[k + 1].entry \in B
      BY <1>6, <1>7, <3>1 DEF q
    <3>3. q[k + 1].entry \in 1..raft[n].delivered /\ IsBlock(raft[n].log[q[k + 1].entry])
      BY <1>8, <3>1, <3>2 DEF BlocksBetween
    <3>4. raft'[n].log[q[k + 1].entry] = raft[n].log[q[k + 1].entry]
      BY SMTT(20), <1>2, <1>5, <3>3
    <3> QED  BY <1>2, <1>3, <3>1, <3>2, <3>3, <3>4 DEF BlocksBetween
  <2>2. ASSUME NEW x \in BlocksBetween(raft'[n].log, i, raft[n].delivered)
        PROVE  \E k \in DOMAIN t : x = t[k].entry
    <3>1. /\ x \in (i + 1)..raft[n].delivered /\ IsBlock(raft'[n].log[x])
      BY <2>2 DEF BlocksBetween
    <3>2. x \in 1..raft[n].commit /\ x \in (disk[n].applied + 1)..raft[n].delivered /\ i < x
      BY SMTT(20), <1>2, <1>3, <3>1
    <3>3. x \in B
      BY <1>5, <3>1, <3>2 DEF BlocksBetween
    <3>4. PICK k \in DOMAIN q : x = q[k].entry
      BY <1>7, <3>3
    <3>5. k # 1
      BY <1>3, <3>2, <3>4 DEF q
    <3> QED  BY <1>6, <3>4, <3>5
  <2> QED  BY <2>1, <2>2
<1>10. \A k \in DOMAIN t : t[k].block = raft'[n].log[t[k].entry].block
  <2>1. \A k \in DOMAIN q : q[k].entry \in 1..raft[n].commit
    BY <1>2, <1>8
  <2> QED  BY <1>5, <1>6, <1>7, <2>1
<1>11. \A k, l \in DOMAIN t : k < l => t[k].entry < t[l].entry
  <2>1. ASSUME NEW k \in DOMAIN t, NEW l \in DOMAIN t, k < l PROVE t[k].entry < t[l].entry
    <3>1. k + 1 < l + 1
      BY <1>6, <2>1
    <3> QED  BY <1>6, <1>7, <3>1
  <2> QED  BY <2>1
<1>12. SegmentOK(n)'
  <2>1. Commits(n)' = t
    BY <1>1 DEF t
  <2> QED  BY <1>1, <1>3, <1>4, <1>9, <1>10, <1>11, <2>1 DEF SegmentOK
<1>13. AgreeOK(n)'
  BY <1>1, <1>2, <1>4, <1>5 DEF AgreeOK
<1>14. VoteOK(n)'
  <2>1. raft'[n].term \in Nat
    BY MaxTermAssumption DEF IndInv, TypeOK, Raft, Term
  <2> QED  BY <1>1, <1>2, <1>4, <2>1 DEF VoteOK, Grows
<1> QED  BY <1>12, <1>13, <1>14

\* process_ready brings the storage up to the library.
LEMMA SavesLog ==
  ASSUME IndInv, NEW n \in Node, LogOK(n), Saves(n)
  PROVE  SegmentOK(n)' /\ AgreeOK(n)' /\ VoteOK(n)'
<1>1. /\ Up(n) /\ SegmentOK(n) /\ Keeps(n) /\ Commits(n)' = Commits(n)
      /\ disk'[n] = SetHardState(AppendEntries(disk[n], raft[n]), raft[n])
  BY DEF LogOK, Saves
<1>2. raft[n] \in Raft /\ disk[n] \in Disk /\ raft[n].term \in Nat
  BY Indices
<1>3. /\ disk'[n].applied = disk[n].applied /\ disk'[n].log = raft[n].log
      /\ disk'[n].commit = raft[n].commit
      /\ disk'[n].term = raft[n].term /\ disk'[n].vote = raft[n].vote
  BY <1>1, <1>2, DiskFields
<1>4. SegmentOK(n)'
  BY <1>1, <1>3 DEF SegmentOK, Keeps
<1>5. AgreeOK(n)' /\ VoteOK(n)'
  BY <1>1, <1>2, <1>3 DEF AgreeOK, VoteOK, Keeps
<1> QED  BY <1>4, <1>5

\* An entry that is delivered extends the segment by one, and the queue by its
\* block if it has one.
LEMMA DeliversLog ==
  ASSUME IndInv, NEW n \in Node, LogOK(n), Delivers(n)
  PROVE  SegmentOK(n)' /\ AgreeOK(n)' /\ VoteOK(n)'
<1> DEFINE r == raft[n]
           i == raft[n].delivered + 1
           e == [block |-> NextEntry(n).block, entry |-> i]
           q == Commits(n)
           B == BlocksBetween(r.log, disk[n].applied, r.delivered)
           C == BlocksBetween(r.log, disk[n].applied, i)
<1>1. /\ Up(n) /\ SegmentOK(n) /\ AgreeOK(n) /\ VoteOK(n) /\ disk'[n] = disk[n]
      /\ r.delivered < r.ready
      /\ Commits(n)' = IF IsBlock(NextEntry(n)) THEN Append(q, e) ELSE q
  BY DEF LogOK, Delivers
<1>2. /\ r \in Raft /\ r.delivered \in Nat /\ disk[n].commit \in Nat
      /\ disk[n].applied \in Nat /\ r.ready \in Nat /\ r.ready <= disk[n].commit
      /\ q \in Seq(QueueEntry)
      /\ \A k \in DOMAIN q : q[k].entry \in Nat
      /\ r.commit \in Nat /\ r.commit <= Len(r.log)
  BY <1>1, Indices
<1>3. /\ raft'[n].log = r.log /\ raft'[n].delivered = i
      /\ raft'[n].term = r.term /\ raft'[n].vote = r.vote
  <2> DEFINE p == Delivered(r)
  <2>1. /\ p \in Raft /\ p.log = r.log /\ p.delivered = i /\ p.term = r.term
        /\ p.vote = r.vote /\ p.commit = r.commit
    BY <1>2, DeliveredFields
  <2> HIDE DEF p
  <2>2. CASE raft'[n] = p
    BY <2>1, <2>2
  <2>3. ASSUME NEW P, raft'[n] = CommitAlone(n, p, P)
        PROVE  /\ raft'[n].log = p.log /\ raft'[n].delivered = p.delivered
               /\ raft'[n].term = p.term /\ raft'[n].vote = p.vote
    <3>1. CASE P = {n}
      <4>1. raft'[n] = [p EXCEPT !.commit = Len(p.log)]
        BY <2>3, <3>1 DEF CommitAlone
      <4> QED  BY <2>1, <4>1 DEF Raft
    <3>2. CASE P # {n}
      BY <2>3, <3>2 DEF CommitAlone
    <3> QED  BY <3>1, <3>2
  <2> QED  BY <2>1, <2>2, <2>3 DEF Delivers, p
<1>4. /\ disk[n].applied <= r.delivered
      /\ {q[k].entry : k \in DOMAIN q} = B
      /\ \A k \in DOMAIN q : q[k].block = r.log[q[k].entry].block
      /\ \A k, l \in DOMAIN q : k < l => q[k].entry < q[l].entry
  BY <1>1 DEF SegmentOK
<1>5. \A k \in DOMAIN q : q[k].entry < i
  <2>1. \A x \in B : x < i
    BY <1>2 DEF BlocksBetween
  <2> QED  BY <1>4, <2>1
<1>6. SegmentOK(n)'
  <2>1. disk[n].applied <= i
    BY <1>2, <1>4
  <2>2. CASE ~IsBlock(NextEntry(n))
    <3>1. C = B
      BY <1>2, <1>4, <2>2 DEF BlocksBetween, NextEntry
    <3>2. Commits(n)' = q
      BY <1>1, <2>2
    <3> QED  BY <1>1, <1>3, <1>4, <2>1, <3>1, <3>2 DEF SegmentOK
  <2>3. CASE IsBlock(NextEntry(n))
    <3>1. C = B \cup {i}
      BY SMTT(20), <1>2, <1>4, <2>3 DEF BlocksBetween, NextEntry
    <3> DEFINE t == Append(q, e)
    <3>2. Commits(n)' = t
      BY <1>1, <2>3
    <3> HIDE DEF q
    <3>3. /\ DOMAIN t = DOMAIN q \cup {Len(q) + 1} /\ t[Len(q) + 1] = e
          /\ \A k \in DOMAIN q : t[k] = q[k] /\ k \in Nat /\ k < Len(q) + 1
          /\ Len(q) \in Nat
      BY <1>2
    <3>4. e.entry = i /\ e.block = r.log[i].block
      BY DEF NextEntry
    <3> HIDE DEF t, e, i, B, C, r
    <3>5. {t[k].entry : k \in DOMAIN t} = C
      <4>1. \A k \in DOMAIN t : t[k].entry \in C
        BY <1>4, <3>1, <3>3, <3>4
      <4>2. ASSUME NEW x \in C PROVE \E k \in DOMAIN t : t[k].entry = x
        <5>1. CASE x = i
          BY <3>3, <3>4, <5>1
        <5>2. CASE x \in B
          <6>1. PICK k \in DOMAIN q : q[k].entry = x
            BY <1>4, <5>2
          <6> QED  BY <3>3, <6>1
        <5> QED  BY <3>1, <5>1, <5>2
      <4> QED  BY <4>1, <4>2
    <3>6. \A k \in DOMAIN t : t[k].block = r.log[t[k].entry].block
      BY <1>4, <3>3, <3>4
    <3>7. \A k, l \in DOMAIN t : k < l => t[k].entry < t[l].entry
      <4>1. ASSUME NEW k \in DOMAIN t, NEW l \in DOMAIN t, k < l
            PROVE  t[k].entry < t[l].entry
        <5>1. k \in DOMAIN q
          BY <3>3, <4>1
        <5>2. CASE l = Len(q) + 1
          BY <1>5, <3>3, <3>4, <5>1, <5>2
        <5>3. CASE l \in DOMAIN q
          BY <1>4, <3>3, <4>1, <5>1, <5>3
        <5> QED  BY <3>3, <5>2, <5>3
      <4> QED  BY <4>1
    <3>8. /\ disk'[n].applied <= raft'[n].delivered
          /\ C = BlocksBetween(raft'[n].log, disk'[n].applied, raft'[n].delivered)
          /\ raft'[n].log = r.log
      BY <1>1, <1>3, <2>1 DEF C, r, i
    <3> QED  BY <3>2, <3>5, <3>6, <3>7, <3>8 DEF SegmentOK
  <2> QED  BY <2>2, <2>3
<1>7. AgreeOK(n)' /\ VoteOK(n)'
  BY <1>1, <1>3 DEF AgreeOK, VoteOK
<1> QED  BY <1>6, <1>7

\* An engine that starts begins after the applied entry with an empty queue.
LEMMA StartsLog ==
  ASSUME IndInv, NEW n \in Node, Starts(n)
  PROVE  SegmentOK(n)' /\ AgreeOK(n)' /\ VoteOK(n)'
<1>1. /\ disk[n] \in Disk /\ disk[n].applied \in Nat /\ disk[n].term \in Nat
      /\ disk'[n] = disk[n] /\ raft'[n] = NewRaft(disk[n]) /\ Commits(n)' = << >>
  BY Indices DEF Starts
<1>2. /\ raft'[n].delivered = disk[n].applied /\ raft'[n].log = disk[n].log
      /\ raft'[n].term = disk[n].term /\ raft'[n].vote = disk[n].vote
  BY <1>1 DEF NewRaft, Disk
<1>3. BlocksBetween(disk[n].log, disk[n].applied, disk[n].applied) = {}
  BY <1>1 DEF BlocksBetween
<1>4. SegmentOK(n)'
  BY <1>1, <1>2, <1>3 DEF SegmentOK
<1>5. AgreeOK(n)' /\ VoteOK(n)'
  BY <1>1, <1>2 DEF AgreeOK, VoteOK
<1> QED  BY <1>4, <1>5

\* The invariant of the logs survives every step.
LEMMA LogNext ==
  ASSUME IndInv, LogInv, [Next]_vars
  PROVE  LogInv'
<1>1. IndInv'
  BY NextInv
<1>2. ASSUME NEW n \in Node PROVE LogOK(n)'
  <2>1. Moves(n) /\ LogOK(n)
    BY NextMoves DEF LogInv
  <2>2. CASE Works(n) \/ Pops(n) \/ Saves(n) \/ Delivers(n)
    BY <1>1, <2>1, <2>2, WorksLog, PopsLog, SavesLog, DeliversLog DEF LogOK
  <2>3. CASE Starts(n)
    BY <2>3, StartsLog DEF LogOK
  <2>4. CASE Stops(n)
    BY <2>4 DEF Stops, LogOK
  <2>5. CASE Rests(n)
    <3>1. ASSUME Up(n)' PROVE SegmentOK(n)' /\ AgreeOK(n)' /\ VoteOK(n)'
      <4>1. Up(n) /\ SegmentOK(n) /\ AgreeOK(n) /\ VoteOK(n)
        BY <2>1, <2>5, <3>1 DEF Rests, LogOK
      <4> QED  BY <2>5, <4>1 DEF Rests, SegmentOK, AgreeOK, VoteOK
    <3> QED  BY <3>1 DEF LogOK
  <2> QED  BY <2>1, <2>2, <2>3, <2>4, <2>5 DEF Moves
<1> QED  BY <1>2 DEF LogInv

\* A network that starts has empty logs and queues.
LEMMA LogInit == Init => LogInv
<1> SUFFICES ASSUME Init, NEW n \in Node PROVE LogOK(n)
  BY DEF LogInv
<1>1. /\ disk[n] = NewDisk /\ raft[n] = NewRaft(NewDisk) /\ Commits(n) = << >>
  BY DEF Init, Commits, NewBlockQueue
<1>2. /\ NewDisk.applied = 0 /\ NewDisk.commit = 0 /\ NewDisk.term = 1
      /\ raft[n].delivered = 0 /\ raft[n].term = 1 /\ raft[n].vote = NoNode
      /\ NewDisk.vote = NoNode
  BY <1>1 DEF NewDisk, NewRaft
<1>3. BlocksBetween(raft[n].log, 0, 0) = {}
  BY DEF BlocksBetween
<1> QED  BY <1>1, <1>2, <1>3 DEF LogOK, SegmentOK, AgreeOK, VoteOK

\* Storage, library and queue stay in step in every state a network reaches.
LEMMA LogInvariance == Spec => [](IndInv /\ LogInv)
<1>1. Init => IndInv /\ LogInv
  BY InitInv, LogInit
<1>2. (IndInv /\ LogInv) /\ [Next]_vars => (IndInv /\ LogInv)'
  BY NextInv, LogNext
<1> QED  BY <1>1, <1>2, PTL DEF Spec

\* The commit queue holds exactly the blocks of the log between the applied and
\* the delivered entry, in log order: whatever the stops, restarts and changes
\* of role, process_ready and on_block_commit lose no block and take none twice.
THEOREM QueueFollowsLog == Spec => []QueueIsLogSegment
<1>1. LogInv => QueueIsLogSegment
  BY DEF LogInv, LogOK, SegmentOK, QueueIsLogSegment, Commits
<1> QED  BY <1>1, LogInvariance, PTL

\* What a step of any kind does to the storage of an engine.
LEMMA StorageStep ==
  ASSUME IndInv, LogInv, [Next]_vars, NEW n \in Node
  PROVE  /\ disk'[n].term >= disk[n].term
         /\ disk'[n].commit >= disk[n].commit
         /\ disk'[n].term = disk[n].term /\ disk[n].vote # NoNode =>
              disk'[n].vote = disk[n].vote
         /\ disk'[n].applied # disk[n].applied =>
              BlocksBetween(disk[n].log, disk[n].applied, disk'[n].applied)
                = {disk'[n].applied}
<1>1. /\ raft[n] \in Raft /\ disk[n] \in Disk
      /\ disk[n].term \in Nat /\ disk[n].commit \in Nat /\ raft[n].term \in Nat
      /\ raft[n].commit \in Nat
      /\ Up(n) => disk[n].commit <= raft[n].commit
  BY Indices
<1>2. Moves(n) /\ (Up(n) => SegmentOK(n) /\ AgreeOK(n) /\ VoteOK(n))
  BY NextMoves DEF LogInv, LogOK
<1>3. CASE disk'[n] = disk[n]
  BY <1>1, <1>3
<1>4. CASE Up(n) /\ disk'[n] = AppendEntries(disk[n], raft[n])
  BY <1>1, <1>4, DiskFields
<1>5. CASE Up(n) /\ disk'[n] = SetHardState(AppendEntries(disk[n], raft[n]), raft[n])
  <2>1. /\ disk'[n].applied = disk[n].applied /\ disk'[n].commit = raft[n].commit
        /\ disk'[n].term = raft[n].term /\ disk'[n].vote = raft[n].vote
    BY <1>1, <1>5, DiskFields
  <2> QED  BY <1>1, <1>2, <1>5, <2>1 DEF VoteOK
<1>6. CASE Pops(n)
  <2> DEFINE i == Commits(n)[1].entry
  <2>1. /\ i \in Nat /\ BlocksBetween(disk[n].log, disk[n].applied, i) = {i}
        /\ disk'[n] = SetApplied(disk[n], i)
    BY <1>2, <1>6, FrontIsNext DEF Pops
  <2> HIDE DEF i
  <2>2. /\ disk'[n].applied = i /\ disk'[n].commit = disk[n].commit
        /\ disk'[n].term = disk[n].term /\ disk'[n].vote = disk[n].vote
    BY <1>1, <2>1, DiskFields
  <2> QED  BY <1>1, <2>1, <2>2
<1>7. ASSUME NEW j \in DOMAIN disk[n].log, disk'[n] = InterruptedAppend(disk[n], raft[n], j)
      PROVE  /\ disk'[n].term = disk[n].term /\ disk'[n].commit = disk[n].commit
             /\ disk'[n].vote = disk[n].vote /\ disk'[n].applied = disk[n].applied
             /\ disk[n].term >= disk[n].term /\ disk[n].commit >= disk[n].commit
  <2>1. j \in Nat /\ disk[n] \in Disk /\ raft[n] \in Raft
    BY <1>1 DEF Disk
  <2>2. /\ disk'[n].term = disk[n].term /\ disk'[n].commit = disk[n].commit
        /\ disk'[n].vote = disk[n].vote /\ disk'[n].applied = disk[n].applied
    BY <1>7, <2>1, InterruptedLemma
  <2> QED  BY <1>1, <2>2
<1>8. CASE Stops(n)
  <2>1. Up(n) /\ disk'[n] \in WrittenSoFar(n)
    BY <1>8 DEF Stops
  <2> QED  BY <1>3, <1>4, <1>5, <1>7, <2>1 DEF WrittenSoFar
<1> QED
  BY <1>2, <1>3, <1>5, <1>6, <1>8 DEF Moves, Works, Saves, Delivers, Starts, Rests

\* Storage keeps its promises: term and commit index never go back, a vote is not
\* changed within its term, and set_applied moves from one block entry to the
\* next, over any sequence of writes, crashes and restarts.
THEOREM StorageMonotonic == Spec => StorageIsMonotonic
<1>1. (IndInv /\ LogInv) /\ [Next]_vars =>
        [\A n \in Node :
           /\ disk'[n].term >= disk[n].term
           /\ disk'[n].commit >= disk[n].commit
           /\ disk'[n].term = disk[n].term /\ disk[n].vote # NoNode =>
                disk'[n].vote = disk[n].vote
           /\ disk'[n].applied # disk[n].applied =>
                BlocksBetween(disk[n].log, disk[n].applied, disk'[n].applied)
                  = {disk'[n].applied}]_vars
  BY StorageStep
<1> QED  BY <1>1, LogInvariance, PTL DEF Spec, StorageIsMonotonic

-----------------------------------------------------------------------------
(* Where the blocks of the logs come from *)

Carries(l, e) == \E j \in DOMAIN l : e = l[j]

\* An entry of the library's log that is not new to the network, or is what a
\* leader may append.
Source(n, e) ==
  \/ \E j \in DOMAIN raft[n].log : e = raft[n].log[j]
  \/ \E m \in Node : \E j \in DOMAIN sent[m].log : e = sent[m].log[j]
  \/ Fresh(n, e)
  \/ ~IsBlock(e) /\ ~IsConf(e)

\* An empty entry carries nothing.
LEMMA EmptyEntryLemma == \A t : ~IsBlock(EmptyEntry(t)) /\ ~IsConf(EmptyEntry(t))
  BY DEF EmptyEntry, IsBlock, IsConf

\* The library's entries are its own, those of a leader, or new ones.
LEMMA LibrarySources ==
  ASSUME IndInv, NEW n \in Node, Up(n), LibraryMoves(n), NEW i \in DOMAIN raft'[n].log
  PROVE  Source(n, raft'[n].log[i])
<1> DEFINE r == raft[n]
           q == raft'[n]
           voters == raft_id_to_peer_id[n]
<1>1. r \in Raft /\ r.log \in Seq(Entry) /\ r.commit <= Len(r.log) /\ r.term \in Term
  BY Indices DEF Raft
<1> HIDE DEF r, q, voters
<1>2. ASSUME q.log = r.log PROVE Source(n, q.log[i])
  BY <1>2 DEF Source, r, q
<1>3. ASSUME NEW e \in Entry, Appended(q.log, r.log, e), Source(n, e)
      PROVE  Source(n, q.log[i])
  <2>1. /\ q.log \in Seq(Entry) /\ Len(q.log) = Len(r.log) + 1 /\ q.log[Len(r.log) + 1] = e
        /\ \A j \in 1..Len(r.log) : q.log[j] = r.log[j]
        /\ Len(r.log) \in Nat /\ DOMAIN r.log = 1..Len(r.log)
    BY <1>1, <1>3, AppendedLemma
  <2>2. i \in 1..(Len(r.log) + 1)
    BY <2>1 DEF q
  <2>3. CASE i = Len(r.log) + 1
    BY <1>3, <2>1, <2>3
  <2>4. CASE i \in 1..Len(r.log)
    BY <2>1, <2>4 DEF Source, r
  <2> QED  BY <2>1, <2>2, <2>3, <2>4
<1>4. CASE Keeps(n)
  BY <1>2, <1>4 DEF Keeps, r, q
<1>5. CASE Appends(n)
  <2>1. PICK e : Fresh(n, e) /\ q = AppendAsLeader(n, r, e, voters)
    BY <1>5 DEF Appends, r, q, voters
  <2>2. e \in Entry /\ Source(n, e)
    BY <2>1 DEF Fresh, Source
  <2>3. Appended(q.log, r.log, e)
    BY <1>1, <2>1, <2>2, AppendAsLeaderFields
  <2> QED  BY <1>3, <2>2, <2>3 DEF q
<1>6. CASE Campaigns(n)
  <2>1. r.term < MaxTerm /\ q = Campaign(n, r, voters)
    BY <1>6 DEF Campaigns, r, q, voters
  <2>2. r.term + 1 \in Term
    BY <1>1, <2>1, MaxTermAssumption DEF Term
  <2>3. EmptyEntry(r.term + 1) \in Entry /\ Source(n, EmptyEntry(r.term + 1))
    BY <2>2, EntryTypes, EmptyEntryLemma DEF Source
  <2>4. /\ voters = {n} => Appended(q.log, r.log, EmptyEntry(r.term + 1))
        /\ voters # {n} => q.log = r.log
    BY <1>1, <2>1, CampaignFields
  <2> QED  BY <1>2, <1>3, <2>3, <2>4 DEF q
<1>7. ASSUME NEW m \in Node, HearsCandidate(n, m) PROVE Source(n, q.log[i])
  <2>1. sent[m] \in Message
    BY DEF IndInv, TypeOK
  <2>2. sent[m].term >= r.term /\ q = HandleRequestVote(r, sent[m], m)
    BY <1>7 DEF HearsCandidate, r, q
  <2>3. q.log = r.log
    BY <1>1, <2>1, <2>2, HandleRequestVoteFields
  <2> QED  BY <1>2, <2>3
<1>8. ASSUME NEW m \in Node, HearsLeader(n, m) PROVE Source(n, q.log[i])
  <2>1. sent[m] \in Message
    BY DEF IndInv, TypeOK
  <2>2. sent[m].term >= r.term /\ q = HandleAppend(r, sent[m])
    BY <1>8 DEF HearsLeader, r, q
  <2>3. q.log = Received(r.log, sent[m].log)
    BY <1>1, <2>1, <2>2, HandleAppendFields
  <2>4. \/ i \in DOMAIN r.log /\ q.log[i] = r.log[i]
        \/ i \in DOMAIN sent[m].log /\ q.log[i] = sent[m].log[i]
    <3>1. sent[m].log \in Seq(Entry) /\ i \in DOMAIN q.log
      BY <2>1 DEF Message, q
    <3> QED  BY <1>1, <2>3, <3>1, ReceivedSources
  <2> QED  BY <2>4 DEF Source, r
<1>9. CASE Wins(n)
  <2>1. q = BecomeLeader(n, r, voters)
    BY <1>9 DEF Wins, r, q, voters
  <2>2. EmptyEntry(r.term) \in Entry /\ Source(n, EmptyEntry(r.term))
    BY <1>1, EntryTypes, EmptyEntryLemma DEF Source
  <2>3. Appended(q.log, r.log, EmptyEntry(r.term))
    BY <1>1, <2>1, BecomeLeaderFields
  <2> QED  BY <1>3, <2>2, <2>3 DEF q
<1>10. CASE Advances(n)
  <2>1. PICK c : q = [r EXCEPT !.commit = c, !.msgs = "waiting"]
    BY <1>10 DEF Advances, r, q
  <2>2. q.log = r.log
    BY <1>1, <2>1 DEF Raft
  <2> QED  BY <1>2, <2>2 DEF q
<1> QED
  BY <1>4, <1>5, <1>6, <1>7, <1>8, <1>9, <1>10 DEF LibraryMoves, Steps, q

\* The logs after a step: the library's own entries, the storage's, or new ones;
\* what is written and sent is the library's.
LEMMA LogSources ==
  ASSUME IndInv, [Next]_vars, NEW n \in Node
  PROVE  /\ \A i \in DOMAIN raft'[n].log :
              Source(n, raft'[n].log[i]) \/ Carries(disk[n].log, raft'[n].log[i])
         /\ \A i \in DOMAIN disk'[n].log :
              Carries(raft[n].log, disk'[n].log[i]) \/ Carries(disk[n].log, disk'[n].log[i])
         /\ sent'[n].log \in {sent[n].log, raft[n].log}
<1>1. Moves(n) /\ raft[n] \in Raft /\ disk[n] \in Disk
  BY NextMoves, Indices
<1>2. ASSUME raft'[n].log = raft[n].log
      PROVE  \A i \in DOMAIN raft'[n].log : Source(n, raft'[n].log[i])
  BY <1>2 DEF Source
<1>0. ASSUME disk'[n].log = disk[n].log \/ disk'[n].log = raft[n].log
      PROVE  \A i \in DOMAIN disk'[n].log :
               Carries(raft[n].log, disk'[n].log[i]) \/ Carries(disk[n].log, disk'[n].log[i])
  BY <1>0 DEF Carries
<1>3. CASE Works(n)
  BY <1>0, <1>3, LibrarySources DEF Works
<1>4. CASE Pops(n)
  <2>1. disk'[n].log = disk[n].log
    BY <1>1, <1>4 DEF Pops, SetApplied, Disk
  <2> QED  BY <1>0, <1>4, <2>1, LibrarySources DEF Pops, LibraryMoves
<1>5. Outgoing(n, raft_id_to_peer_id[n]).log = raft[n].log
  BY DEF Outgoing
<1>6. CASE Saves(n)
  <2>1. disk'[n].log = raft[n].log
    BY <1>1, <1>6, DiskFields DEF Saves
  <2> QED  BY <1>0, <1>2, <1>5, <1>6, <2>1 DEF Saves, Keeps
<1>7. CASE Delivers(n)
  <2> DEFINE p == Delivered(raft[n])
  <2>1. p \in Raft /\ p.log = raft[n].log
    BY <1>1, DeliveredFields
  <2> HIDE DEF p
  <2>2. raft'[n] = p \/ \E P : raft'[n] = CommitAlone(n, p, P)
    BY <1>7 DEF Delivers, p
  <2>3. raft'[n].log = p.log
    BY <2>1, <2>2 DEF CommitAlone, Raft
  <2> QED  BY <1>0, <1>2, <1>7, <2>1, <2>3 DEF Delivers
<1>8. CASE Stops(n)
  <2>1. \A i \in DOMAIN disk'[n].log :
          Carries(raft[n].log, disk'[n].log[i]) \/ Carries(disk[n].log, disk'[n].log[i])
    <3>1. CASE disk'[n].log = disk[n].log \/ disk'[n].log = raft[n].log
      BY <1>0, <3>1
    <3>2. ASSUME NEW j \in DOMAIN disk[n].log,
                 disk'[n] = InterruptedAppend(disk[n], raft[n], j)
          PROVE  \A i \in DOMAIN disk'[n].log :
                   Carries(raft[n].log, disk'[n].log[i]) \/ Carries(disk[n].log, disk'[n].log[i])
      <4>1. j \in Nat /\ DOMAIN disk[n].log = 1..Len(disk[n].log)
        BY <1>1 DEF Disk
      <4>2. /\ disk'[n] \in Disk /\ Len(disk'[n].log) = Len(disk[n].log)
            /\ \A i \in 1..Len(disk[n].log) :
                 \/ disk'[n].log[i] = disk[n].log[i]
                 \/ i \in DOMAIN raft[n].log /\ disk'[n].log[i] = raft[n].log[i]
        BY <1>1, <3>2, <4>1, InterruptedLemma
      <4>3. DOMAIN disk'[n].log = 1..Len(disk[n].log)
        BY <4>2 DEF Disk
      <4> QED  BY <4>1, <4>2, <4>3 DEF Carries
    <3> QED  BY <1>1, <1>8, <3>1, <3>2, DiskFields DEF Stops, WrittenSoFar
  <2>2. sent'[n].log \in {sent[n].log, raft[n].log}
    BY <1>5, <1>8 DEF Stops, SentSoFar
  <2>3. raft'[n].log = disk'[n].log
    BY <1>8 DEF Stops, NewRaft
  <2>4. \A e : Carries(raft[n].log, e) => Source(n, e)
    BY DEF Carries, Source
  <2> QED  BY <2>1, <2>2, <2>3, <2>4
<1>9. CASE Starts(n)
  BY <1>0, <1>9 DEF Starts, NewRaft, Carries
<1>10. CASE Rests(n)
  BY <1>0, <1>2, <1>10 DEF Rests
<1> QED
  BY <1>1, <1>3, <1>4, <1>6, <1>7, <1>8, <1>9, <1>10 DEF Moves

-----------------------------------------------------------------------------
(* Log matching, and writes that take it away *)

\* Two logs are the same up to every entry whose term they share.
Matching(k, l) == \A i \in DOMAIN k \cap DOMAIN l :
                    k[i].term = l[i].term => \A h \in 1..i : k[h] = l[h]

\* Where it is given, what a follower makes of the leader's entries is its own log or
\* the leader's.
LEMMA ReceivedMatching ==
  ASSUME NEW k \in Seq(Entry), NEW l \in Seq(Entry), Matching(k, l)
  PROVE  /\ IsPrefix(l, k) => Received(k, l) = k
         /\ ~IsPrefix(l, k) => Received(k, l) = l
<1>1. /\ Len(k) \in Nat /\ Len(l) \in Nat /\ DOMAIN k = 1..Len(k) /\ DOMAIN l = 1..Len(l)
  OBVIOUS
<1>2. ASSUME NEW i \in 1..Len(l), Common(k, l, i)
      PROVE  i \in DOMAIN k /\ \A h \in 1..i : k[h] = l[h]
  <2>1. PICK j \in DOMAIN l : i <= j /\ j \in DOMAIN k /\ k[j].term = l[j].term
    BY <1>2 DEF Common
  <2>2. \A h \in 1..j : k[h] = l[h]
    BY <2>1 DEF Matching
  <2> QED  BY <1>1, <2>1, <2>2
<1>3. UpToLast(k, l) => IsPrefix(l, k)
  <2>1. CASE l = << >>
    BY <1>1, <2>1 DEF IsPrefix
  <2>2. CASE l # << >> /\ Common(k, l, Len(l))
    <3>1. Len(l) \in 1..Len(l)
      BY <1>1, <2>2
    <3>2. Len(l) <= Len(k) /\ \A h \in 1..Len(l) : k[h] = l[h]
      BY <1>1, <1>2, <2>2, <3>1
    <3>3. SubSeq(l, 1, Len(l)) = SubSeq(k, 1, Len(l))
      BY <1>1, <3>2
    <3> QED  BY <3>2, <3>3 DEF IsPrefix
  <2> QED  BY <2>1, <2>2 DEF UpToLast
<1>4. IsPrefix(l, k) => UpToLast(k, l)
  <2> SUFFICES ASSUME IsPrefix(l, k), l # << >> PROVE Common(k, l, Len(l))
    BY DEF UpToLast
  <2>1. Len(l) <= Len(k) /\ \A i \in 1..Len(l) : k[i] = l[i]
    BY PrefixLemma
  <2>2. Len(l) \in DOMAIN l /\ Len(l) \in DOMAIN k /\ k[Len(l)] = l[Len(l)]
    BY <1>1, <2>1
  <2> QED  BY <1>1, <2>2 DEF Common
<1>5. ~UpToLast(k, l) => Received(k, l) = l
  <2> DEFINE q == Received(k, l)
  <2> SUFFICES ASSUME ~UpToLast(k, l) PROVE q = l
    OBVIOUS
  <2>1. /\ q \in Seq(Entry) /\ Len(q) = Len(l)
        /\ \A i \in 1..Len(l) : /\ Common(k, l, i) => i \in DOMAIN k /\ q[i] = k[i]
                                /\ ~Common(k, l, i) => q[i] = l[i]
    BY ReceivedLemma
  <2> HIDE DEF q
  <2>2. ASSUME NEW i \in 1..Len(l) PROVE q[i] = l[i]
    <3>1. CASE Common(k, l, i)
      BY <1>1, <1>2, <2>1, <3>1
    <3>2. CASE ~Common(k, l, i)
      BY <2>1, <3>2
    <3> QED  BY <3>1, <3>2
  <2> QED  BY <1>1, <2>1, <2>2
<1>6. UpToLast(k, l) => Received(k, l) = k
  BY ReceivedLemma
<1> QED  BY <1>3, <1>4, <1>5, <1>6

\* FsStorage::append writes over old entries one by one.  The step of an engine that
\* crashes is not in the middle of that: append has had only new entries to add, has
\* not begun, or has written its last index.  The code has nothing that would make it
\* so.
NoTornOverwrite ==
  \A n \in Node : CrashInReady(n) /\ ~IsPrefix(disk[n].log, raft[n].log) =>
    disk'[n].log \in {disk[n].log, raft[n].log}

WholeOverwrites == [][NoTornOverwrite]_vars

\* An interrupted append that only adds entries leaves the old log.
LEMMA InterruptedPrefix ==
  ASSUME NEW d \in Disk, NEW r \in Raft, NEW j \in Nat, IsPrefix(d.log, r.log)
  PROVE  InterruptedAppend(d, r, j).log = d.log
<1> DEFINE w == [i \in 1..Len(d.log) |->
                   IF i <= j /\ i <= Len(r.log) THEN r.log[i] ELSE d.log[i]]
<1>1. d.log \in Seq(Entry) /\ r.log \in Seq(Entry) /\ Len(d.log) \in Nat
  BY DEF Disk, Raft
<1>2. Len(d.log) <= Len(r.log) /\ \A i \in 1..Len(d.log) : r.log[i] = d.log[i]
  BY <1>1, PrefixLemma
<1>3. w = [i \in 1..Len(d.log) |-> d.log[i]]
  BY <1>2
<1>4. d.log = [i \in 1..Len(d.log) |-> d.log[i]]
  BY <1>1
<1>5. InterruptedAppend(d, r, j).log = w
  BY DEF InterruptedAppend, Disk
<1> QED  BY <1>3, <1>4, <1>5

\* Where no overwriting is torn, a storage keeps its log or takes the library's.
LEMMA WholeLogs ==
  ASSUME IndInv, [Next]_vars, [NoTornOverwrite]_vars, NEW n \in Node
  PROVE  disk'[n].log \in {disk[n].log, raft[n].log}
<1>1. Moves(n) /\ raft[n] \in Raft /\ disk[n] \in Disk
  BY NextMoves, Indices
<1>2. CASE Pops(n)
  BY <1>1, <1>2 DEF Pops, SetApplied, Disk
<1>3. CASE Saves(n)
  BY <1>1, <1>3, DiskFields DEF Saves
<1>4. CASE Stops(n)
  <2>1. CASE \/ disk'[n] \in {disk[n], AppendEntries(disk[n], raft[n])}
             \/ disk'[n] = SetHardState(AppendEntries(disk[n], raft[n]), raft[n])
    BY <1>1, <2>1, DiskFields
  <2>2. ASSUME NEW j \in DOMAIN disk[n].log, disk'[n] = InterruptedAppend(disk[n], raft[n], j)
        PROVE  disk'[n].log \in {disk[n].log, raft[n].log}
    <3>1. CASE IsPrefix(disk[n].log, raft[n].log)
      <4>1. j \in Nat
        BY <1>1 DEF Disk
      <4> QED  BY <1>1, <2>2, <3>1, <4>1, InterruptedPrefix
    <3>2. CASE ~IsPrefix(disk[n].log, raft[n].log)
      <4>1. disk'[n] = disk[n] \/ CrashInReady(n)
        BY <1>4 DEF Stops
      <4>2. vars' # vars
        BY <1>4 DEF Stops, Up, vars
      <4> QED  BY <3>2, <4>1, <4>2 DEF NoTornOverwrite
    <3> QED  BY <3>1, <3>2
  <2> QED  BY <1>4, <2>1, <2>2 DEF Stops, WrittenSoFar
<1> QED
  BY <1>1, <1>2, <1>3, <1>4 DEF Moves, Works, Delivers, Starts, Rests

-----------------------------------------------------------------------------
(* Only valid blocks are proposed *)

ValidBlock(b) == b \in DOMAIN tree /\ tree[b].valid

\* An update about a block of the tree; a BlockValid tells the truth.
TrueUpdate(u) ==
  /\ u.type \in {"BlockNew", "BlockValid"} => u.block \in DOMAIN tree
  /\ u.type = "BlockValid" => ValidBlock(u.block)

ValidLog(l) == \A i \in DOMAIN l : IsBlock(l[i]) => ValidBlock(l[i].block)

BlocksOK(n) ==
  /\ ValidLog(raft[n].log) /\ ValidLog(disk[n].log) /\ ValidLog(sent[n].log)
  /\ \A u \in validator[n].inbox : TrueUpdate(u)
  /\ \A b \in Range(validator[n].requests) : ValidBlock(b)

BlocksInv == \A n \in Node : BlocksOK(n)

TreeGrows == \A b \in DOMAIN tree : b \in DOMAIN tree' /\ tree'[b] = tree[b]

\* What a step may add to the updates and the requests of a validator.
ValidatorMoves(m) ==
  /\ \A u \in validator'[m].inbox : u \in validator[m].inbox \/ TrueUpdate(u)'
  /\ \A b \in Range(validator'[m].requests) :
       \/ b \in Range(validator[m].requests)
       \/ Up(m) /\ \E k \in DOMAIN Commits(m) : b = Commits(m)[k].block

ValidatorsMove == TreeGrows /\ \A m \in Node : ValidatorMoves(m)

\* A step that concerns one validator, and adds no request.
LEMMA OneValidator ==
  ASSUME TypeOK, NEW n \in Node, NEW v, tree' = tree,
         validator' = [validator EXCEPT ![n] = v],
         Range(v.requests) \subseteq Range(validator[n].requests),
         \A u \in v.inbox : u \in validator[n].inbox \/ TrueUpdate(u)
  PROVE  ValidatorsMove
<1>1. TreeGrows
  BY DEF TreeGrows
<1>2. ASSUME NEW m \in Node PROVE ValidatorMoves(m)
  <2>1. \A u : TrueUpdate(u) <=> TrueUpdate(u)'
    BY DEF TrueUpdate, ValidBlock
  <2>2. CASE m = n
    <3>1. validator'[m] = v
      BY <2>2 DEF TypeOK
    <3> QED  BY <2>1, <2>2, <3>1 DEF ValidatorMoves
  <2>3. CASE m # n
    <3>1. validator'[m] = validator[m]
      BY <2>3 DEF TypeOK
    <3> QED  BY <3>1 DEF ValidatorMoves
  <2> QED  BY <2>2, <2>3
<1> QED  BY <1>1, <1>2 DEF ValidatorsMove

\* A step that concerns no validator
LEMMA NoValidator ==
  ASSUME UNCHANGED <<validator, tree>>
  PROVE  ValidatorsMove
  BY DEF ValidatorsMove, TreeGrows, ValidatorMoves

\* The updates and requests of a validator after a call of the engine.
LEMMA ValidatorFields ==
  ASSUME NEW v \in ValidatorState, NEW b
  PROVE  /\ CheckBlocks(v, b).inbox = v.inbox \cup {Verdict(b, tree[b].valid)}
         /\ CheckBlocks(v, b).requests = v.requests
         /\ InitializeBlock(v).inbox = v.inbox /\ InitializeBlock(v).requests = v.requests
         /\ CancelBlock(v).inbox = v.inbox /\ CancelBlock(v).requests = v.requests
         /\ CommitBlock(v, b).inbox = v.inbox
         /\ CommitBlock(v, b).requests = Append(v.requests, b)
<1>1. /\ CheckBlocks(v, b).inbox = v.inbox \cup {Verdict(b, tree[b].valid)}
      /\ CheckBlocks(v, b).requests = v.requests
  BY DEF CheckBlocks, ValidatorState
<1>2. InitializeBlock(v).inbox = v.inbox /\ InitializeBlock(v).requests = v.requests
  BY DEF InitializeBlock, ValidatorState
<1>3. CancelBlock(v).inbox = v.inbox /\ CancelBlock(v).requests = v.requests
  BY DEF CancelBlock, ValidatorState
<1>4. /\ CommitBlock(v, b).inbox = v.inbox
      /\ CommitBlock(v, b).requests = Append(v.requests, b)
  BY DEF CommitBlock, ValidatorState
<1> QED  BY <1>1, <1>2, <1>3, <1>4

\* An update that is received is gone.
LEMMA ReceiveFields ==
  ASSUME NEW v \in ValidatorState, NEW u
  PROVE  /\ Receive(v, u) \in ValidatorState
         /\ Receive(v, u).inbox \subseteq v.inbox /\ Receive(v, u).requests = v.requests
  BY DEF Receive, ValidatorState

\* What a validator finds out about a block of the tree is true.
LEMMA VerdictIsTrue ==
  ASSUME tree \in Seq(BlockRecord), NEW b \in DOMAIN tree
  PROVE  TrueUpdate(New(b)) /\ TrueUpdate(Verdict(b, tree[b].valid))
  BY DEF TrueUpdate, ValidBlock, New, Verdict, Valid, Invalid

\* handle_update
LEMMA HandleUpdateValidators ==
  ASSUME IndInv, BlocksInv, NEW n \in Node, HandleUpdate(n)
  PROVE  ValidatorsMove
<1>1. /\ TypeOK /\ validator[n] \in ValidatorState /\ tree \in Seq(BlockRecord)
      /\ \A u \in validator[n].inbox : TrueUpdate(u)
  BY DEF IndInv, TypeOK, BlocksInv, BlocksOK
<1>2. ASSUME NEW b \in BlockId, OnBlockNew(n, b) PROVE ValidatorsMove
  <2> DEFINE w == Receive(validator[n], New(b))
             v == CheckBlocks(w, b)
  <2>1. w \in ValidatorState
    BY <1>1, ValidatorLemma
  <2>2. /\ w.inbox \subseteq validator[n].inbox /\ w.requests = validator[n].requests
    BY <1>1, ReceiveFields
  <2>3. New(b) \in validator[n].inbox /\ New(b).type = "BlockNew" /\ New(b).block = b
    BY <1>2 DEF OnBlockNew, New
  <2>4. b \in DOMAIN tree
    BY <1>1, <2>3 DEF TrueUpdate
  <2>5. TrueUpdate(Verdict(b, tree[b].valid))
    BY <1>1, <2>4, VerdictIsTrue
  <2> HIDE DEF w
  <2>6. /\ v.inbox = w.inbox \cup {Verdict(b, tree[b].valid)} /\ v.requests = w.requests
    BY <2>1, ValidatorFields
  <2>7. validator' = [validator EXCEPT ![n] = v] /\ tree' = tree
    BY <1>2 DEF OnBlockNew, w
  <2> HIDE DEF v
  <2> QED  BY ZenonT(30), <1>1, <2>2, <2>5, <2>6, <2>7, OneValidator
<1>3. ASSUME NEW u, tree' = tree, validator' = [validator EXCEPT ![n] = Receive(@, u)]
      PROVE  ValidatorsMove
  <2> DEFINE v == Receive(validator[n], u)
  <2>1. v.inbox \subseteq validator[n].inbox /\ v.requests = validator[n].requests
    BY <1>1, ReceiveFields
  <2>2. validator' = [validator EXCEPT ![n] = v]
    BY <1>3
  <2> HIDE DEF v
  <2> QED  BY <1>1, <1>3, <2>1, <2>2, OneValidator
<1>4. ASSUME NEW b \in BlockId, OnBlockValid(n, b) PROVE ValidatorsMove
  BY <1>3, <1>4 DEF OnBlockValid
<1>5. ASSUME NEW b \in BlockId,
             OnBlockInvalid(n, b) \/ FollowerOnBlockCommit(n, b) \/ IgnoreBlockCommit(n, b)
      PROVE  ValidatorsMove
  BY <1>3, <1>5 DEF OnBlockInvalid, FollowerOnBlockCommit, IgnoreBlockCommit
<1>6. ASSUME NEW b \in BlockId, LeaderOnBlockCommit(n, b) PROVE ValidatorsMove
  <2>1. CASE validator' = [validator EXCEPT ![n] = Receive(@, Commit(b))]
    BY <1>3, <1>6, <2>1 DEF LeaderOnBlockCommit
  <2>2. CASE validator' = [validator EXCEPT ![n] = InitializeBlock(Receive(@, Commit(b)))]
    <3> DEFINE w == Receive(validator[n], Commit(b))
               v == InitializeBlock(w)
    <3>1. w \in ValidatorState
      BY <1>1, ValidatorLemma
    <3>2. /\ w.inbox \subseteq validator[n].inbox /\ w.requests = validator[n].requests
      BY <1>1, ReceiveFields
    <3> HIDE DEF w
    <3>3. v.inbox = w.inbox /\ v.requests = w.requests
      BY <3>1, ValidatorFields
    <3>4. validator' = [validator EXCEPT ![n] = v] /\ tree' = tree
      BY <1>6, <2>2 DEF LeaderOnBlockCommit, w
    <3> HIDE DEF v
    <3> QED  BY <1>1, <3>2, <3>3, <3>4, OneValidator
  <2> QED  BY <1>6, <2>1, <2>2 DEF LeaderOnBlockCommit
<1>7. ASSUME NEW m \in Node, StepMessage(n, m) PROVE ValidatorsMove
  BY <1>7, NoValidator DEF StepMessage
<1> QED
  BY <1>2, <1>4, <1>5, <1>6, <1>7 DEF HandleUpdate, OnBlockCommit, OnPeerMessage

\* tick: a published block is a new block of the tree, and what the validators
\* are told of it is true.
LEMMA TickValidators ==
  ASSUME IndInv, NEW n \in Node, Tick(n)
  PROVE  ValidatorsMove
<1>1. TypeOK /\ CheckPublish(n) /\ tree \in Seq(BlockRecord)
  BY DEF IndInv, TypeOK, Tick
<1>2. CASE UNCHANGED <<tree, validator, leader_state>>
  BY <1>2, NoValidator
<1>3. CASE Publish(n)
  <2> DEFINE running == {m \in Node : phase[m] \in Running}
  <2>0. PICK b \in Nat : b = Len(tree) + 1
    BY <1>1
  <2>1. PICK P \in NextPeers(validator[n].building), ok \in Verdicts :
          /\ tree' = Append(tree, [parent |-> validator[n].building, peers |-> P, valid |-> ok])
          /\ validator' = FinalizedAt(n, b, ok, running)
    BY <1>3, <2>0 DEF Publish
  <2>2. /\ TreeGrows /\ b \in DOMAIN tree' /\ (tree'[b].valid <=> ok)
    <3> DEFINE x == [parent |-> validator[n].building, peers |-> P, valid |-> ok]
    <3>1. x.valid = ok
      OBVIOUS
    <3> HIDE DEF x
    <3>2. tree' = Append(tree, x)
      BY <2>1 DEF x
    <3>3. TreeGrows
      BY <1>1, <3>2 DEF TreeGrows
    <3>4. b \in DOMAIN tree' /\ tree'[b] = x
      BY <1>1, <2>0, <3>2
    <3> QED  BY <3>1, <3>3, <3>4
  <2> HIDE DEF running
  <2>3. TrueUpdate(New(b))' /\ TrueUpdate(Verdict(b, ok))'
    BY <2>2 DEF TrueUpdate, ValidBlock, New, Verdict, Valid, Invalid
  <2>4. ASSUME NEW m \in Node PROVE ValidatorMoves(m)
    <3>1. validator[m] \in ValidatorState
      BY <1>1 DEF TypeOK
    <3> DEFINE B == IF m = n THEN NoBlock ELSE validator[m].building
               I == IF m \in running THEN validator[m].inbox \cup {New(b), Verdict(b, ok)}
                                     ELSE validator[m].inbox
    <3>2. validator'[m] = [validator[m] EXCEPT !.building = B, !.inbox = I]
      BY <2>1 DEF FinalizedAt
    <3> HIDE DEF B, I
    <3>3. validator'[m].inbox = I /\ validator'[m].requests = validator[m].requests
      BY <3>1, <3>2 DEF ValidatorState
    <3>4. \A u \in I : u \in validator[m].inbox \/ u \in {New(b), Verdict(b, ok)}
      BY DEF I
    <3>5. \A u \in I : u \in validator[m].inbox \/ TrueUpdate(u)'
      BY <2>3, <3>4
    <3> QED  BY <3>3, <3>5 DEF ValidatorMoves
  <2> QED  BY <2>2, <2>4 DEF ValidatorsMove
<1> QED  BY <1>1, <1>2, <1>3 DEF CheckPublish

\* process_ready: only commit_block asks the validator for something, the front
\* of the queue.
LEMMA ReadyValidators ==
  ASSUME IndInv, NEW n \in Node, Ready(n)
  PROVE  ValidatorsMove
<1>1. TypeOK /\ validator[n] \in ValidatorState /\ tree \in Seq(BlockRecord)
  BY DEF IndInv, TypeOK
<1>2. CASE NothingReady(n) \/ DeliverEmpty(n) \/ DeliverBlock(n) \/ DeliverOwnRemoval(n)
  BY <1>2, NoValidator DEF NothingReady, DeliverEmpty, DeliverBlock, DeliverOwnRemoval
<1>3. CASE ProcessReady(n)
  <2>1. RoleTaken(n) /\ tree' = tree
    BY <1>3, TakeRoleLemma DEF ProcessReady, Up, Running
  <2>2. ASSUME NEW m \in Node PROVE ValidatorMoves(m)
    BY <2>1 DEF RoleTaken, ValidatorMoves
  <2> QED  BY <2>1, <2>2 DEF ValidatorsMove, TreeGrows
<1>4. CASE DeliverConfChange(n)
  <2>1. CASE UNCHANGED validator
    BY <1>4, <2>1, NoValidator DEF DeliverConfChange
  <2>2. CASE validator' = [validator EXCEPT ![n] = InitializeBlock(@)]
    <3> DEFINE v == InitializeBlock(validator[n])
    <3>1. v.inbox = validator[n].inbox /\ v.requests = validator[n].requests
      BY <1>1, ValidatorFields
    <3>2. validator' = [validator EXCEPT ![n] = v] /\ tree' = tree
      BY <1>4, <2>2 DEF DeliverConfChange
    <3> HIDE DEF v
    <3> QED  BY <1>1, <3>1, <3>2, OneValidator
  <2> QED  BY <1>4, <2>1, <2>2 DEF DeliverConfChange
<1>5. CASE FinishReady(n)
  <2> DEFINE b == GetNextCommittable(block_queue[n])
             v == CommitBlock(validator[n], b)
  <2>1. /\ Up(n) /\ tree' = tree /\ block_queue[n] \in Queue
        /\ validator' = [validator EXCEPT ![n] = IF Requests(n, b) THEN v ELSE validator[n]]
    BY <1>1, <1>5 DEF FinishReady, Up, Running, TypeOK
  <2>2. CASE ~Requests(n, b)
    <3>1. validator' = validator
      BY <1>1, <2>1, <2>2 DEF TypeOK
    <3> QED  BY <2>1, <3>1, NoValidator
  <2>3. CASE Requests(n, b)
    <3>1. b # NoBlock
      <4>1. leader_state[n] \in LeaderState /\ NoBlock \notin BlockId
        BY <1>1, MaxBlocksAssumption DEF TypeOK, NoBlock, BlockId
      <4> QED
        BY <2>3, <4>1
           DEF Requests, LeaderCommits, FollowerCommits, Proposing, LeaderState, Holding
    <3>2. 1 \in DOMAIN Commits(n) /\ b = Commits(n)[1].block
      BY <2>1, <3>1 DEF GetNextCommittable, Commits, Queue
    <3> HIDE DEF b
    <3>3. /\ v.inbox = validator[n].inbox
          /\ Range(v.requests) = Range(validator[n].requests) \cup {b}
      <4>1. v.inbox = validator[n].inbox /\ v.requests = Append(validator[n].requests, b)
        BY <1>1, ValidatorFields
      <4>2. validator[n].requests \in Seq(BlockId) /\ b \in BlockId
        BY <1>1, <2>1, <3>1, GetNextCommittableLemma DEF ValidatorState, b
      <4> QED  BY <4>1, <4>2, RangeLemma
    <3>4. validator' = [validator EXCEPT ![n] = v]
      BY <2>1, <2>3
    <3> HIDE DEF v
    <3>5. ASSUME NEW m \in Node PROVE ValidatorMoves(m)
      <4>1. CASE m = n
        BY <1>1, <2>1, <3>2, <3>3, <3>4, <4>1 DEF ValidatorMoves, TypeOK
      <4>2. CASE m # n
        BY <1>1, <3>4, <4>2 DEF ValidatorMoves, TypeOK
      <4> QED  BY <4>1, <4>2
    <3> QED  BY <2>1, <3>5 DEF ValidatorsMove, TreeGrows
  <2> QED  BY <2>2, <2>3
<1> QED  BY <1>2, <1>3, <1>4, <1>5 DEF Ready

\* Stops lose updates and requests; a validator that an engine registers with
\* tells it about the blocks outside its chain.
LEMMA RestartValidators ==
  ASSUME IndInv, NEW n \in Node, Stop(n) \/ CrashInReady(n) \/ Restart(n)
  PROVE  ValidatorsMove
<1>1. TypeOK /\ validator[n] \in ValidatorState /\ tree \in Seq(BlockRecord)
  BY DEF IndInv, TypeOK
<1>2. ASSUME NEW d, NEW s, Lost(n, d, s) PROVE ValidatorsMove
  <2>1. PICK kept \in {<< >>, validator[n].requests} :
          validator' = [validator EXCEPT ![n] = Disconnected(@, kept)]
    BY <1>2 DEF Lost
  <2> DEFINE v == Disconnected(validator[n], kept)
  <2>2. v.inbox = {} /\ v.requests = kept
    BY DEF Disconnected
  <2>3. validator' = [validator EXCEPT ![n] = v] /\ tree' = tree
    BY <1>2, <2>1 DEF Lost
  <2>4. Range(v.requests) \subseteq Range(validator[n].requests)
    BY <2>1, <2>2 DEF Range
  <2> HIDE DEF v
  <2> QED  BY <1>1, <2>2, <2>3, <2>4, OneValidator
<1>3. CASE Stop(n) \/ CrashInReady(n)
  BY <1>2, <1>3 DEF Stop, CrashInReady
<1>4. CASE Restart(n)
  <2> DEFINE w == Disconnected(validator[n], validator[n].requests)
             v == Reconnected(w)
             S == DOMAIN tree \ Ancestors(w.head)
             I == UNION {{New(b), Verdict(b, tree[b].valid)} : b \in S}
  <2>1. w.requests = validator[n].requests
    BY DEF Disconnected
  <2>2. v.inbox = I /\ v.requests = w.requests
    BY DEF Reconnected, Disconnected
  <2>3. \A u \in I : TrueUpdate(u)
    <3> SUFFICES ASSUME NEW u \in I PROVE TrueUpdate(u)
      OBVIOUS
    <3>1. PICK b \in DOMAIN tree : u \in {New(b), Verdict(b, tree[b].valid)}
      OBVIOUS
    <3> QED  BY <1>1, <3>1, VerdictIsTrue
  <2>4. validator' = [validator EXCEPT ![n] = v] /\ tree' = tree
    BY <1>4 DEF Restart
  <2> HIDE DEF v, I, w
  <2> QED  BY <1>1, <2>1, <2>2, <2>3, <2>4, OneValidator
<1> QED  BY <1>3, <1>4

\* The validator's own step
LEMMA CommitValidators ==
  ASSUME IndInv, NEW n \in Node, NEW b \in BlockId, ValidatorCommit(n, b)
  PROVE  ValidatorsMove
<1>1. TypeOK /\ validator[n] \in ValidatorState
  BY DEF IndInv, TypeOK
<1> DEFINE v == Committed(validator[n], b, phase[n] \in Running)
<1>2. TrueUpdate(Commit(b))
  BY DEF TrueUpdate, Commit
<1>3. Range(v.requests) \subseteq Range(validator[n].requests)
  <2>1. v.requests = Tail(validator[n].requests) /\ validator[n].requests \in Seq(BlockId)
    BY <1>1 DEF Committed, ValidatorState
  <2> QED  BY <2>1, RangeLemma DEF ValidatorCommit
<1>4. \A u \in v.inbox : u \in validator[n].inbox \/ TrueUpdate(u)
  <2>1. \A u \in v.inbox : u \in validator[n].inbox \/ u = Commit(b)
    BY <1>1 DEF Committed, ValidatorState
  <2> QED  BY <1>2, <2>1
<1>5. validator' = [validator EXCEPT ![n] = v] /\ tree' = tree
  BY DEF ValidatorCommit
<1> HIDE DEF v
<1> QED  BY <1>1, <1>3, <1>4, <1>5, OneValidator

\* Every step
LEMMA NextValidators ==
  ASSUME IndInv, BlocksInv, [Next]_vars
  PROVE  ValidatorsMove
<1>1. CASE UNCHANGED vars
  BY <1>1, NoValidator DEF vars
<1>2. ASSUME NEW n \in Node, Quiet(n) PROVE ValidatorsMove
  BY <1>2, NoValidator DEF Quiet, vars
<1> QED
  BY <1>1, <1>2, HandleUpdateValidators, TickValidators, ReadyValidators,
     RestartValidators, CommitValidators DEF Next

\* A block that has been found valid remains so.
LEMMA ValidStays ==
  ASSUME TreeGrows
  PROVE  /\ \A b : ValidBlock(b) => ValidBlock(b)'
         /\ \A u : TrueUpdate(u) => TrueUpdate(u)'
<1>1. \A b : ValidBlock(b) => ValidBlock(b)'
  BY DEF TreeGrows, ValidBlock
<1> QED  BY <1>1 DEF TreeGrows, TrueUpdate

\* The queue holds blocks of the log.
LEMMA QueuedIsValid ==
  ASSUME IndInv, LogInv, BlocksInv, NEW n \in Node, Up(n), NEW k \in DOMAIN Commits(n)
  PROVE  ValidBlock(Commits(n)[k].block)
<1> DEFINE i == Commits(n)[k].entry
<1>1. SegmentOK(n) /\ ValidLog(raft[n].log)
  BY DEF LogInv, LogOK, BlocksInv, BlocksOK
<1>2. i \in BlocksBetween(raft[n].log, disk[n].applied, raft[n].delivered)
  BY <1>1 DEF SegmentOK
<1>3. Commits(n)[k].block = raft[n].log[i].block
  BY <1>1 DEF SegmentOK
<1> HIDE DEF i
<1>4. /\ raft[n] \in Raft /\ disk[n] \in Disk /\ IndexOK(n)
  BY DEF IndInv, TypeOK, NodeOK
<1>5. i \in DOMAIN raft[n].log /\ IsBlock(raft[n].log[i])
  <2>1. /\ raft[n].delivered \in Nat /\ raft[n].ready \in Nat /\ raft[n].commit \in Nat
        /\ raft[n].log \in Seq(Entry) /\ disk[n].applied \in Nat /\ disk[n].commit \in Nat
    BY <1>4 DEF Raft, Disk
  <2>2. raft[n].delivered <= Len(raft[n].log)
    BY <1>4, <2>1 DEF IndexOK
  <2>3. i \in Int /\ disk[n].applied + 1 <= i /\ i <= raft[n].delivered
        /\ IsBlock(raft[n].log[i])
    BY <1>2, <2>1 DEF BlocksBetween
  <2> QED  BY <2>1, <2>2, <2>3
<1> QED  BY <1>1, <1>3, <1>5 DEF ValidLog

\* BlocksInv is inductive.
LEMMA BlocksNext ==
  ASSUME IndInv, LogInv, BlocksInv, [Next]_vars
  PROVE  BlocksInv'
<1>1. ValidatorsMove
  BY NextValidators
<1>2. /\ \A b : ValidBlock(b) => ValidBlock(b)'
      /\ \A u : TrueUpdate(u) => TrueUpdate(u)'
  BY <1>1, ValidStays DEF ValidatorsMove
<1>3. \A l : ValidLog(l) =>
        \A i \in DOMAIN l : IsBlock(l[i]) => ValidBlock(l[i].block)'
  BY <1>2 DEF ValidLog
<1>4. ASSUME NEW n \in Node PROVE BlocksOK(n)'
  <2>1. /\ ValidLog(raft[n].log) /\ ValidLog(disk[n].log) /\ ValidLog(sent[n].log)
        /\ \A u \in validator[n].inbox : TrueUpdate(u)
        /\ \A b \in Range(validator[n].requests) : ValidBlock(b)
    BY DEF BlocksInv, BlocksOK
  <2>2. /\ \A i \in DOMAIN raft'[n].log :
             Source(n, raft'[n].log[i]) \/ Carries(disk[n].log, raft'[n].log[i])
        /\ \A i \in DOMAIN disk'[n].log :
             Carries(raft[n].log, disk'[n].log[i]) \/ Carries(disk[n].log, disk'[n].log[i])
        /\ sent'[n].log \in {sent[n].log, raft[n].log}
    BY LogSources
  <2>3. ValidLog(disk[n].log)' /\ ValidLog(sent[n].log)'
    <3>1. \A e : Carries(raft[n].log, e) \/ Carries(disk[n].log, e) =>
            (IsBlock(e) => ValidBlock(e.block)')
      BY <1>3, <2>1 DEF Carries
    <3>2. ValidLog(disk[n].log)'
      BY <2>2, <3>1 DEF ValidLog
    <3>3. ValidLog(sent[n].log)'
      BY <1>3, <2>1, <2>2 DEF ValidLog
    <3> QED  BY <3>2, <3>3
  <2>4. ValidLog(raft[n].log)'
    <3>1. ASSUME NEW e, Carries(disk[n].log, e), IsBlock(e) PROVE ValidBlock(e.block)
      BY <2>1, <3>1 DEF Carries, ValidLog
    <3>2. ASSUME NEW e, Source(n, e), IsBlock(e) PROVE ValidBlock(e.block)
      <4>1. ASSUME Fresh(n, e) PROVE ValidBlock(e.block)
        BY <2>1, <3>2, <4>1 DEF Fresh, TrueUpdate, Valid
      <4>2. \A m \in Node : ValidLog(sent[m].log)
        BY DEF BlocksInv, BlocksOK
      <4> QED  BY <2>1, <3>2, <4>1, <4>2 DEF Source, ValidLog
    <3>3. ASSUME NEW i \in DOMAIN raft'[n].log, IsBlock(raft'[n].log[i])
          PROVE  ValidBlock(raft'[n].log[i].block)
      BY <2>2, <3>1, <3>2, <3>3
    <3> QED  BY <1>2, <3>3 DEF ValidLog
  <2>5. (\A u \in validator[n].inbox : TrueUpdate(u))'
    BY <1>1, <1>2, <2>1 DEF ValidatorsMove, ValidatorMoves
  <2>6. (\A b \in Range(validator[n].requests) : ValidBlock(b))'
    <3>1. \A b \in Range(validator'[n].requests) : ValidBlock(b)
      BY <1>1, <2>1, QueuedIsValid DEF ValidatorsMove, ValidatorMoves
    <3> QED  BY <1>2, <3>1
  <2> QED  BY <2>3, <2>4, <2>5, <2>6 DEF BlocksOK
<1> QED  BY <1>4 DEF BlocksInv

\* There is nothing to vouch for at first.
LEMMA BlocksInit == Init => BlocksInv
<1> SUFFICES ASSUME Init, NEW n \in Node PROVE BlocksOK(n)
  BY DEF BlocksInv
<1>1. raft[n].log = << >> /\ disk[n].log = << >> /\ sent[n].log = << >>
  BY DEF Init, NewRaft, NewDisk, NewMessage
<1>2. validator[n].inbox = {} /\ validator[n].requests = << >>
  BY DEF Init, NewValidator
<1> QED  BY <1>1, <1>2 DEF BlocksOK, ValidLog, Range

\* A block that the validators reject is never in a log nor requested of a
\* validator (on_block_valid, commit_block), for any sets of peers, blocks and
\* stops.
THEOREM OnlyValid == Spec => []OnlyValidBlocks
<1>1. IndInv /\ LogInv /\ BlocksInv /\ [Next]_vars => BlocksInv'
  BY BlocksNext
<1>2. IndInv /\ BlocksInv => OnlyValidBlocks
  BY DEF BlocksInv, BlocksOK, ValidLog, ValidBlock, OnlyValidBlocks
<1> QED  BY <1>1, <1>2, BlocksInit, LogInvariance, PTL DEF Spec

-----------------------------------------------------------------------------
(* Networks whose settings never change the peers *)

FixedMembership == Memberships \subseteq {InitPeers}

NoConf(l) == \A i \in DOMAIN l : ~IsConf(l[i])

FixedOK(n) ==
  /\ NoConf(raft[n].log) /\ NoConf(disk[n].log) /\ NoConf(sent[n].log)
  /\ raft_id_to_peer_id[n] = InitPeers
  /\ phase[n] # "panicked"

FixedInv == /\ \A b \in DOMAIN tree : tree[b].peers = InitPeers
            /\ \A n \in Node : FixedOK(n)

\* No block asks for other peers.
LEMMA FixedSettings ==
  ASSUME FixedInv, NEW b
  PROVE  Settings(b) = InitPeers /\ \A n \in Node : Difference(n, b) = {}
<1>1. Settings(b) = InitPeers
  BY DEF FixedInv, Settings
<1> QED  BY <1>1 DEF FixedInv, FixedOK, Difference

\* The peers an engine knows come from the settings or from an entry of its log.
LEMMA PeersStep ==
  ASSUME TypeOK, [Next]_vars, NEW m \in Node
  PROVE  \/ raft_id_to_peer_id'[m] = raft_id_to_peer_id[m]
         \/ Restart(m) /\ \E b : raft_id_to_peer_id'[m] = Settings(b)
         \/ DeliverConfChange(m) /\ Delivering(m) /\ IsConf(NextEntry(m))
<1> USE DEF TypeOK
<1>1. CASE UNCHANGED vars
  BY <1>1 DEF vars
<1>2. ASSUME NEW n \in Node, HandleUpdate(n) \/ Tick(n) \/ Quiet(n)
      PROVE  raft_id_to_peer_id' = raft_id_to_peer_id
  BY <1>2 DEF HandleUpdate, OnBlockNew, OnBlockValid, OnBlockInvalid, OnBlockCommit,
              LeaderOnBlockCommit, FollowerOnBlockCommit, IgnoreBlockCommit,
              OnPeerMessage, StepMessage, Tick, Quiet, vars
<1>3. ASSUME NEW n \in Node, DeliverConfChange(n)
      PROVE  \/ raft_id_to_peer_id'[m] = raft_id_to_peer_id[m]
             \/ DeliverConfChange(m) /\ Delivering(m) /\ IsConf(NextEntry(m))
  <2>1. CASE m = n
    BY <1>3, <2>1 DEF DeliverConfChange
  <2>2. CASE m # n
    BY <1>3, <2>2 DEF DeliverConfChange
  <2> QED  BY <2>1, <2>2
<1>4. ASSUME NEW n \in Node, Ready(n), ~DeliverConfChange(n)
      PROVE  raft_id_to_peer_id' = raft_id_to_peer_id
  BY <1>4 DEF Ready, NothingReady, ProcessReady, DeliverEmpty, DeliverBlock,
              DeliverOwnRemoval, FinishReady
<1>5. ASSUME NEW n \in Node, Stop(n) \/ CrashInReady(n)
      PROVE  raft_id_to_peer_id' = raft_id_to_peer_id
  BY <1>5 DEF Stop, CrashInReady, Lost
<1>6. ASSUME NEW n \in Node, Restart(n)
      PROVE  \/ raft_id_to_peer_id'[m] = raft_id_to_peer_id[m]
             \/ Restart(m) /\ \E b : raft_id_to_peer_id'[m] = Settings(b)
  <2>1. CASE m = n
    BY <1>6, <2>1 DEF Restart
  <2>2. CASE m # n
    BY <1>6, <2>2 DEF Restart
  <2> QED  BY <2>1, <2>2
<1>7. ASSUME NEW n \in Node, NEW b \in BlockId, ValidatorCommit(n, b)
      PROVE  raft_id_to_peer_id' = raft_id_to_peer_id
  BY <1>7 DEF ValidatorCommit
<1> QED  BY <1>1, <1>2, <1>3, <1>4, <1>5, <1>6, <1>7 DEF Next

\* The tree grows by blocks that keep the settings or take an allowed value.
LEMMA TreeStep ==
  ASSUME [Next]_vars
  PROVE  \/ tree' = tree
         \/ \E x, p : tree' = Append(tree, x) /\ x.peers \in Memberships \cup {Settings(p)}
<1>1. CASE UNCHANGED vars
  BY <1>1 DEF vars
<1>2. ASSUME NEW n \in Node, HandleUpdate(n) \/ Quiet(n) PROVE tree' = tree
  BY <1>2 DEF HandleUpdate, OnBlockNew, OnBlockValid, OnBlockInvalid, OnBlockCommit,
              LeaderOnBlockCommit, FollowerOnBlockCommit, IgnoreBlockCommit,
              OnPeerMessage, StepMessage, Quiet, vars
<1>3. ASSUME NEW n \in Node, Ready(n) PROVE tree' = tree
  BY <1>3 DEF Ready, NothingReady, ProcessReady, DeliverEmpty, DeliverBlock,
              DeliverConfChange, DeliverOwnRemoval, FinishReady
<1>4. ASSUME NEW n \in Node, Stop(n) \/ CrashInReady(n) \/ Restart(n) PROVE tree' = tree
  BY <1>4 DEF Stop, CrashInReady, Lost, Restart
<1>5. ASSUME NEW n \in Node, NEW b \in BlockId, ValidatorCommit(n, b) PROVE tree' = tree
  BY <1>5 DEF ValidatorCommit
<1>6. ASSUME NEW n \in Node, Tick(n), tree' # tree
      PROVE  \E x, p : tree' = Append(tree, x)
                         /\ x.peers \in Memberships \cup {Settings(p)}
  <2>1. Publish(n)
    BY <1>6 DEF Tick, CheckPublish
  <2>2. PICK P \in NextPeers(validator[n].building), ok \in Verdicts :
          tree' = Append(tree, [parent |-> validator[n].building, peers |-> P, valid |-> ok])
    BY <2>1 DEF Publish
  <2>3. P \in Memberships \cup {Settings(validator[n].building)}
    BY <2>2 DEF NextPeers
  <2> DEFINE x == [parent |-> validator[n].building, peers |-> P, valid |-> ok]
  <2>4. x.peers = P /\ tree' = Append(tree, x)
    BY <2>2
  <2> HIDE DEF x
  <2> QED  BY <2>3, <2>4
<1> QED  BY <1>1, <1>2, <1>3, <1>4, <1>5, <1>6 DEF Next

\* An engine that does not run can only be restarted.
LEMMA DownStep ==
  ASSUME TypeOK, [Next]_vars, NEW m \in Node, ~Up(m)
  PROVE  phase'[m] = phase[m] \/ (Restart(m) /\ phase'[m] = "recv")
<1>1. CASE UNCHANGED vars
  BY <1>1 DEF vars
<1>2. ASSUME NEW n \in Node, NEW p, Up(n), phase' = [phase EXCEPT ![n] = p]
      PROVE  phase'[m] = phase[m]
  BY <1>2 DEF TypeOK
<1>3. ASSUME NEW n \in Node, HandleUpdate(n) PROVE phase'[m] = phase[m]
  <2>1. Up(n)
    BY <1>3 DEF HandleUpdate, OnBlockNew, OnBlockValid, OnBlockInvalid, OnBlockCommit,
                LeaderOnBlockCommit, FollowerOnBlockCommit, IgnoreBlockCommit,
                PopCommitted, OnPeerMessage, StepMessage, Up, Running
  <2>2. \E p : phase' = [phase EXCEPT ![n] = p]
    BY <1>3 DEF HandleUpdate, OnBlockNew, OnBlockValid, OnBlockInvalid, OnBlockCommit,
                LeaderOnBlockCommit, FollowerOnBlockCommit, IgnoreBlockCommit,
                OnPeerMessage, StepMessage, Goto
  <2> QED  BY <1>2, <2>1, <2>2
<1>4. ASSUME NEW n \in Node, Ready(n) PROVE phase'[m] = phase[m]
  <2>1. Up(n)
    BY <1>4 DEF Ready, NothingReady, ProcessReady, DeliverEmpty, DeliverBlock,
                DeliverConfChange, DeliverOwnRemoval, FinishReady, Delivering, Up, Running
  <2>2. \/ phase' = phase
        \/ \E p : phase' = [phase EXCEPT ![n] = p]
    BY <1>4 DEF Ready, NothingReady, ProcessReady, DeliverEmpty, DeliverBlock,
                DeliverConfChange, DeliverOwnRemoval, FinishReady, TakeRole,
                StepUpCommitting, StepUpBuilding, StepDown, KeepRole, Goto
  <2> QED  BY <1>2, <2>1, <2>2
<1>5. ASSUME NEW n \in Node, Tick(n) \/ Stop(n) \/ CrashInReady(n)
      PROVE  phase'[m] = phase[m]
  <2>1. Up(n)
    BY <1>5 DEF Tick, Stop, CrashInReady, Up, Running
  <2>2. \E p : phase' = [phase EXCEPT ![n] = p]
    BY <1>5 DEF Tick, Stop, CrashInReady, Lost, Goto
  <2> QED  BY <1>2, <2>1, <2>2
<1>6. ASSUME NEW n \in Node, Restart(n)
      PROVE  phase'[m] = phase[m] \/ (Restart(m) /\ phase'[m] = "recv")
  <2>1. phase' = [phase EXCEPT ![n] = "recv"]
    BY <1>6 DEF Restart, Goto
  <2> QED  BY <1>6, <2>1 DEF TypeOK
<1>7. ASSUME NEW n \in Node, Quiet(n) \/ \E b \in BlockId : ValidatorCommit(n, b)
      PROVE  phase' = phase
  BY <1>7 DEF Quiet, ValidatorCommit, vars
<1> QED  BY <1>1, <1>3, <1>4, <1>5, <1>6, <1>7 DEF Next

\* The entry that is delivered next changes no peers, and neither does a block
\* that is committed: there is nothing to panic about.
LEMMA FixedNoPanic ==
  ASSUME IndInv, FixedInv, NEW n \in Node
  PROVE  ~MembershipPanic(n) /\ ~(Delivering(n) /\ IsConf(NextEntry(n)))
<1>1. ASSUME Delivering(n) PROVE ~IsConf(NextEntry(n))
  <2>1. raft[n].delivered + 1 \in DOMAIN raft[n].log
    <3>1. Up(n)
      BY <1>1 DEF Delivering, Up, Running
    <3>2. /\ raft[n].log \in Seq(Entry)
          /\ raft[n].commit \in Nat /\ raft[n].delivered \in Nat /\ raft[n].ready \in Nat
          /\ disk[n].commit \in Nat
          /\ raft[n].ready <= disk[n].commit
          /\ disk[n].commit <= raft[n].commit
          /\ raft[n].commit <= Len(raft[n].log)
      BY <3>1, Indices
    <3>3. raft[n].delivered < raft[n].ready
      BY <1>1 DEF Delivering
    <3> QED  BY <3>2, <3>3
  <2> QED  BY <2>1 DEF FixedInv, FixedOK, NoConf, NextEntry
<1>2. ASSUME NEW b PROVE ~(Cardinality(Difference(n, b)) > 1)
  <2>1. Difference(n, b) = {}
    BY FixedSettings
  <2>2. Cardinality(Difference(n, b)) = 0
    BY <2>1, FS_EmptySet
  <2> QED  BY <2>2
<1>3. ASSUME MembershipPanic(n) PROVE FALSE
  <2>1. ASSUME Delivering(n), NextEntry(n).type = "RemoveNode" PROVE FALSE
    BY <1>1, <2>1 DEF IsConf
  <2> QED  BY <1>2, <1>3, <2>1 DEF MembershipPanic
<1> QED  BY <1>1, <1>3

\* FixedInv is inductive.
LEMMA FixedNext ==
  ASSUME FixedMembership, IndInv, FixedInv, [Next]_vars
  PROVE  FixedInv'
<1>1. TypeOK /\ tree \in Seq(BlockRecord)
  BY DEF IndInv, TypeOK
<1>2. \A b \in DOMAIN tree' : tree'[b].peers = InitPeers
  <2>1. CASE tree' = tree
    BY <2>1 DEF FixedInv
  <2>2. ASSUME NEW x, NEW p, tree' = Append(tree, x),
               x.peers \in Memberships \cup {Settings(p)}
        PROVE  \A b \in DOMAIN tree' : tree'[b].peers = InitPeers
    <3>1. x.peers = InitPeers
      BY <2>2, FixedSettings DEF FixedMembership
    <3>2. \A b \in DOMAIN tree' : tree'[b] = x \/ (b \in DOMAIN tree /\ tree'[b] = tree[b])
      BY <1>1, <2>2
    <3> QED  BY <3>1, <3>2 DEF FixedInv
  <2> QED  BY <2>1, <2>2, TreeStep
<1>3. ASSUME NEW n \in Node PROVE FixedOK(n)'
  <2>1. /\ NoConf(raft[n].log) /\ NoConf(disk[n].log)
        /\ \A m \in Node : NoConf(sent[m].log)
        /\ raft_id_to_peer_id[n] = InitPeers /\ phase[n] # "panicked"
    BY DEF FixedInv, FixedOK
  <2>2. /\ \A i \in DOMAIN raft'[n].log :
             Source(n, raft'[n].log[i]) \/ Carries(disk[n].log, raft'[n].log[i])
        /\ \A i \in DOMAIN disk'[n].log :
             Carries(raft[n].log, disk'[n].log[i]) \/ Carries(disk[n].log, disk'[n].log[i])
        /\ sent'[n].log \in {sent[n].log, raft[n].log}
    BY LogSources
  <2>3. ASSUME NEW e, Source(n, e) PROVE ~IsConf(e)
    <3>1. ~(Fresh(n, e) /\ IsConf(e))
      BY FixedSettings DEF Fresh
    <3> QED  BY <2>1, <2>3, <3>1 DEF Source, NoConf
  <2>4. NoConf(raft'[n].log) /\ NoConf(disk'[n].log) /\ NoConf(sent'[n].log)
    <3>1. \A e : Carries(raft[n].log, e) \/ Carries(disk[n].log, e) => ~IsConf(e)
      BY <2>1 DEF Carries, NoConf
    <3> QED  BY <2>1, <2>2, <2>3, <3>1 DEF NoConf
  <2>5. raft_id_to_peer_id'[n] = InitPeers
    BY <1>1, <2>1, PeersStep, FixedSettings, FixedNoPanic
  <2>6. phase'[n] # "panicked"
    <3>1. CASE Up(n)
      BY <3>1, PanicStep, FixedNoPanic
    <3>2. CASE ~Up(n)
      BY <1>1, <2>1, <3>2, DownStep
    <3> QED  BY <3>1, <3>2
  <2> QED  BY <2>4, <2>5, <2>6 DEF FixedOK, NoConf
<1> QED  BY <1>2, <1>3 DEF FixedInv

\* The first state
LEMMA FixedInit == Init => FixedInv
<1> SUFFICES ASSUME Init PROVE FixedInv
  OBVIOUS
<1>1. ASSUME NEW n \in Node PROVE FixedOK(n)
  <2>1. raft[n].log = << >> /\ disk[n].log = << >> /\ sent[n].log = << >>
    BY DEF Init, NewRaft, NewDisk, NewMessage
  <2>2. raft_id_to_peer_id[n] = InitPeers /\ phase[n] = "recv"
    BY DEF Init
  <2> QED  BY <2>1, <2>2 DEF FixedOK, NoConf
<1>2. DOMAIN tree = {}
  BY DEF Init
<1> QED  BY <1>1, <1>2 DEF FixedInv

\* Without membership changes no engine ever panics, over any elections, stops
\* and restarts of any number of peers: the unwraps of node.rs never fail.
THEOREM NeverPanics ==
  ASSUME FixedMembership
  PROVE  Spec => []NoPanic
<1>1. IndInv /\ FixedInv /\ [Next]_vars => FixedInv'
  BY FixedNext
<1>2. FixedInv => NoPanic
  BY DEF FixedInv, FixedOK, NoPanic
<1> QED  BY <1>1, <1>2, FixedInit, Invariance, PTL DEF Spec

-----------------------------------------------------------------------------
(* The peers of an engine that does not start again *)

About(l, d, x) == {i \in 1..d : IsConf(l[i]) /\ l[i].node = x}

\* Whether x is a peer after the first d entries of log l.
IsPeer(l, d, x) == IF About(l, d, x) = {} THEN x \in InitPeers
                   ELSE l[Max(About(l, d, x))].type = "AddNode"

PeersOK(n) == Up(n) => \A x \in Node :
  x \in raft_id_to_peer_id[n] <=> IsPeer(raft[n].log, raft[n].delivered, x)

\* Two logs with the same first d entries make the same peers.
LEMMA SamePeers ==
  ASSUME NEW k, NEW l, NEW d \in Nat, \A i \in 1..d : k[i] = l[i], NEW x
  PROVE  IsPeer(k, d, x) <=> IsPeer(l, d, x)
<1>1. About(k, d, x) = About(l, d, x)
  BY DEF About
<1>2. ASSUME About(l, d, x) # {}
      PROVE  Max(About(l, d, x)) \in 1..d
  <2>1. About(l, d, x) \subseteq 1..d
    BY DEF About
  <2>2. \E i \in About(l, d, x) : \A j \in About(l, d, x) : i >= j
    <3>1. PICK i \in About(l, d, x) : \A j \in About(l, d, x) : j <= i
      BY <1>2, <2>1, Greatest
    <3> QED  BY <2>1, <3>1
  <2> QED  BY <2>1, <2>2 DEF Max
<1> QED  BY <1>1, <1>2 DEF IsPeer

\* One more entry decides about the peer it names, and about no other.
LEMMA OneMorePeer ==
  ASSUME NEW l, NEW d \in Nat, NEW x
  PROVE  IsPeer(l, d + 1, x) <=>
           IF IsConf(l[d + 1]) /\ l[d + 1].node = x THEN l[d + 1].type = "AddNode"
                                                    ELSE IsPeer(l, d, x)
<1>0. \A i : i \in 1..(d + 1) <=> (i \in 1..d \/ i = d + 1)
  OBVIOUS
<1>1. CASE IsConf(l[d + 1]) /\ l[d + 1].node = x
  <2> DEFINE S == About(l, d + 1, x)
  <2>1. d + 1 \in S /\ \A j \in S : j \in Int /\ d + 1 >= j
    BY <1>1 DEF About
  <2> HIDE DEF S
  <2>2. Max(S) \in S /\ \A j \in S : Max(S) >= j
    BY <2>1 DEF Max
  <2>3. Max(S) = d + 1
    BY <2>1, <2>2
  <2> QED  BY <1>1, <2>1, <2>3 DEF IsPeer, S
<1>2. CASE ~(IsConf(l[d + 1]) /\ l[d + 1].node = x)
  <2>1. About(l, d + 1, x) = About(l, d, x)
    BY <1>0, <1>2 DEF About
  <2> QED  BY <1>2, <2>1 DEF IsPeer
<1> QED  BY <1>1, <1>2

\* apply_conf_change makes the change of the entry that is delivered; no other
\* step changes the peers, or the entries delivered so far.
LEMMA PeersNext ==
  ASSUME IndInv, [Next]_vars, NEW n \in Node, ~Restart(n), PeersOK(n)
  PROVE  PeersOK(n)'
<1> DEFINE r == raft[n]
           d == raft[n].delivered
           P == raft_id_to_peer_id[n]
<1> SUFFICES ASSUME Up(n)' PROVE \A x \in Node :
               x \in P' <=> IsPeer(raft'[n].log, raft'[n].delivered, x)
  BY DEF PeersOK
<1>0. TypeOK /\ Moves(n)
  BY NextMoves DEF IndInv
<1>1. Up(n)
  BY <1>0, DownStep DEF Up
<1>2. /\ \A x \in Node : x \in P <=> IsPeer(r.log, d, x)
      /\ d \in Nat /\ r.commit \in Nat /\ d <= r.commit /\ r \in Raft
  <2>1. d <= r.commit
    BY <1>1, Indices
  <2> QED  BY <1>1, <2>1, Indices DEF PeersOK
<1>3. CASE DeliverConfChange(n)
  <2> DEFINE e == NextEntry(n)
             p == Delivered(r)
  <2>1. /\ raft' = [raft EXCEPT ![n] = ApplyConfChange(n, p, e)]
        /\ raft_id_to_peer_id' = [raft_id_to_peer_id EXCEPT ![n] = ChangedPeers(n, e)]
        /\ IsConf(e) /\ Delivering(n)
    BY <1>3 DEF DeliverConfChange
  <2>2. p \in Raft /\ p.log = r.log /\ p.delivered = d + 1 /\ e \in Entry
    BY <1>2, <2>1, DeliveredFields, NextEntryLemma
  <2>3. raft'[n] = ApplyConfChange(n, p, e) /\ P' = ChangedPeers(n, e)
    BY <1>0, <2>1 DEF TypeOK
  <2>4. e = r.log[d + 1]
    BY DEF NextEntry
  <2> HIDE DEF p, e
  <2>5. raft'[n].log = r.log /\ raft'[n].delivered = d + 1
    BY <2>2, <2>3 DEF ApplyConfChange, CommitAlone, Raft
  <2>6. e.type \in {"AddNode", "RemoveNode"}
    BY <2>1, <2>2 DEF Entry, IsConf
  <2> TAKE x \in Node
  <2>7. IsPeer(r.log, d + 1, x) <=> IF e.node = x THEN e.type = "AddNode"
                                                  ELSE IsPeer(r.log, d, x)
    BY <1>2, <2>1, <2>4, OneMorePeer
  <2>8. x \in P' <=> IF e.node = x THEN e.type = "AddNode" ELSE x \in P
    BY <2>3, <2>6 DEF ChangedPeers
  <2> QED  BY <1>2, <2>5, <2>7, <2>8
<1>4. CASE ~DeliverConfChange(n)
  <2>1. P' = P
    BY <1>0, <1>4, PeersStep
  <2>2. ASSUME Grows(r, raft'[n]), raft'[n].delivered = d
        PROVE  \A x \in Node : IsPeer(raft'[n].log, raft'[n].delivered, x)
                                 <=> IsPeer(r.log, d, x)
    <3>1. \A i \in 1..d : raft'[n].log[i] = r.log[i]
      BY <1>2, <2>2 DEF Grows
    <3> QED  BY <1>2, <2>2, <3>1, SamePeers
  <2>3. CASE Works(n) \/ Pops(n) \/ Saves(n)
    <3>1. LibraryMoves(n)
      BY <2>3 DEF Works, Pops, Saves, LibraryMoves
    <3> QED  BY <1>1, <1>2, <2>1, <2>2, <3>1, LibraryGrows
  <2>4. CASE Delivers(n)
    <3> DEFINE p == Delivered(r)
    <3>1. p.log = r.log /\ p.delivered = d + 1
      BY <1>2, DeliveredFields
    <3>2. raft'[n] = p /\ ~IsConf(r.log[d + 1])
      BY <1>4, <2>4 DEF Delivers, NextEntry
    <3> HIDE DEF p
    <3>3. \A x \in Node : IsPeer(r.log, d + 1, x) <=> IsPeer(r.log, d, x)
      BY <1>2, <3>2, OneMorePeer
    <3> QED  BY <1>2, <2>1, <3>1, <3>2, <3>3
  <2>5. CASE Rests(n)
    BY <1>2, <2>1, <2>5 DEF Rests
  <2>6. ~Stops(n) /\ ~Starts(n)
    BY <1>1 DEF Stops, Starts
  <2> QED  BY <1>0, <2>3, <2>4, <2>5, <2>6 DEF Moves
<1> QED  BY <1>3, <1>4

\* The peers of an engine that is not started again are the initial ones with
\* the changes delivered to it (apply_conf_change), in log order, whatever the
\* settings, the elections, the stops and the panics of the others; start takes
\* them from the settings at the chain head instead.
THEOREM MembershipFollows ==
  Spec /\ [][\A n \in Node : ~Restart(n)]_vars => []MembershipFollowsLog
<1> DEFINE PeersInv == \A n \in Node : PeersOK(n)
           NoRestart == \A n \in Node : ~Restart(n)
<1>1. Init => PeersInv
  <2> SUFFICES ASSUME Init, NEW n \in Node, NEW x \in Node
               PROVE  x \in raft_id_to_peer_id[n]
                        <=> IsPeer(raft[n].log, raft[n].delivered, x)
    BY DEF PeersOK
  <2>1. raft[n].delivered = 0 /\ raft_id_to_peer_id[n] = InitPeers
    BY DEF Init, NewRaft, NewDisk
  <2>2. About(raft[n].log, 0, x) = {}
    BY DEF About
  <2> QED  BY <2>1, <2>2 DEF IsPeer
<1>2. IndInv /\ PeersInv /\ [Next]_vars /\ [NoRestart]_vars => PeersInv'
  <2>1. ASSUME PeersInv, UNCHANGED vars PROVE PeersInv'
    <3>1. raft' = raft /\ phase' = phase /\ raft_id_to_peer_id' = raft_id_to_peer_id
      BY <2>1 DEF vars
    <3>2. \A n \in Node : PeersOK(n)' <=> PeersOK(n)
      BY <3>1 DEF PeersOK, Up
    <3> QED  BY <2>1, <3>2
  <2> QED  BY <2>1, PeersNext
<1>3. PeersInv => MembershipFollowsLog
  BY DEF PeersOK, IsPeer, About, MembershipFollowsLog
<1> HIDE DEF PeersInv
<1> QED  BY <1>1, <1>2, <1>3, Invariance, PTL DEF Spec
=============================================================================
