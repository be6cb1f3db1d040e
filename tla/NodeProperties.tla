--------------------------- MODULE NodeProperties ---------------------------
(***************************************************************************)
(* Correctness of the engines of module SawtoothRaftNode.                  *)
(***************************************************************************)
EXTENDS SawtoothRaftNode

Up(n) == phase[n] \in Running

\* An engine is in exactly one of its two roles, and whenever it waits for
\* updates the role is the one its Raft library has: process_ready has noticed
\* every change.  The proposals in on_block_valid and on_block_commit, which
\* the library refuses to anybody but the leader, rely on it.
RoleAgreement ==
  \A n \in Node : Up(n) =>
    /\ (leader_state[n] = None) <=> (follower_state[n] # None)
    /\ phase[n] = "recv" => ((raft[n].role = "Leader") <=> (leader_state[n] # None))

\* A block an engine is committing, in either role, is the front of its queue,
\* so that block_committed in on_block_commit finds the queue not empty and
\* removes that block and no other.
CommittingIsFront ==
  \A n \in Node : \A b \in BlockId :
    Up(n) /\ Committing(b) \in {leader_state[n], follower_state[n]} =>
      /\ block_queue[n].commit_queue # << >>
      /\ Head(block_queue[n].commit_queue).block = b

\* The wait in a Committing state is never in vain: the validator still has the
\* request of commit_block, or its BlockCommit is on the way, whatever changes
\* of role happened since.
CommitInFlight ==
  \A n \in Node : \A b \in BlockId :
    Up(n) /\ Committing(b) \in {leader_state[n], follower_state[n]} =>
      b \in Range(validator[n].requests) \/ Commit(b) \in validator[n].inbox

\* The validator has a block under construction exactly while the engine is in
\* the Building state, so that initialize_block, finalize_block and
\* cancel_block never meet a validator in the wrong state.
BuildingAgreement ==
  \A n \in Node : Up(n) =>
    ((leader_state[n] = Building) <=> (validator[n].building # NoBlock))

\* No engine panics: propose and propose_conf_change find the library leading,
\* initialize_block and cancel_block find the validator in the state they need,
\* and every removed peer was known.
NoPanic == \A n \in Node : phase[n] # "panicked"

\* Indices of the block entries of log in i+1..j.
BlocksBetween(log, i, j) == {k \in (i + 1)..j : IsBlock(log[k])}

\* The commit queue holds exactly the blocks of the log between the entry
\* recorded by set_applied and the last one Raft has delivered, in log order:
\* nothing is lost or taken up twice across changes of role, stops and restarts.
QueueIsLogSegment ==
  \A n \in Node : Up(n) =>
    LET q == block_queue[n].commit_queue
    IN  /\ {q[k].entry : k \in DOMAIN q}
              = BlocksBetween(raft[n].log, disk[n].applied, raft[n].delivered)
        /\ \A k \in DOMAIN q : q[k].block = raft[n].log[q[k].entry].block
        /\ \A k, l \in DOMAIN q : k < l => q[k].entry < q[l].entry

\* A block that the validators reject is never decided, nor committed by any of
\* them, although the engine does not act on BlockInvalid: it is proposed only
\* after its BlockValid, whatever role changes and restarts came between.
OnlyValidBlocks ==
  \A n \in Node :
    /\ \A i \in DOMAIN raft[n].log : IsBlock(raft[n].log[i]) => tree[raft[n].log[i].block].valid
    /\ \A b \in Range(validator[n].requests) : tree[b].valid

\* A block may be delivered to a restarted engine whose validator has it already
\* (a crash between the validator's commit and set_applied), but only one, and it
\* is the front of the queue: the validator is never more than one block ahead.
OnlyFrontIsInChain ==
  \A n \in Node : Up(n) =>
    \A k \in 2..Len(block_queue[n].commit_queue) :
      block_queue[n].commit_queue[k].block \notin Ancestors(validator[n].head)

\* What a node finds in its storage after a crash at any point is a state from
\* which the library agrees to start: the applied entry is committed and the
\* committed entries are in the log.
RestartIsPossible ==
  \A n \in Node : /\ disk[n].applied <= disk[n].commit
                  /\ disk[n].commit <= Len(disk[n].log)

\* An entry some engine takes as committed is in the storage of a majority:
\* followers answer only after their writes, and a leader counts itself only
\* for what it will have written before its next message.
CommittedIsDurable ==
  \A n \in Node : \A i \in 1..raft[n].commit :
    Quorum({m \in Node : /\ i <= Len(disk[m].log)
                         /\ disk[m].log[i] = raft[n].log[i]}, InitPeers)

\* Two engines agree on every entry that both take as committed, whoever led when
\* they learnt of it and whatever crash came between: no commit index rests on
\* an answer that its sender has forgotten.
CommittedEntriesAgree ==
  \A n, m \in Node : \A i \in 1..raft[n].commit :
    i <= raft[m].commit => raft[n].log[i] = raft[m].log[i]

\* A leader that stays builds on its chain head only with the membership that the
\* settings of the head ask for: on_block_commit has led it through
\* ChangingConfig first.  After a failover the code does not provide this: the
\* new leader may have committed a block whose change is still to be proposed.
BuildingOnInstalledPeers ==
  \A n \in Node : Up(n) /\ leader_state[n] = Building =>
    raft_id_to_peer_id[n] = Settings(validator[n].building)

\* The peers an engine works with are the initial ones with the changes delivered to
\* it so far, in log order, also when it has joined late and the changes reach it in
\* one go.  Only start takes them from somewhere else.
MembershipFollowsLog ==
  \A n, x \in Node : Up(n) =>
    LET about == {i \in 1..raft[n].delivered :
                    IsConf(raft[n].log[i]) /\ raft[n].log[i].node = x}
    IN  x \in raft_id_to_peer_id[n] <=>
          IF about = {} THEN x \in InitPeers
                        ELSE raft[n].log[Max(about)].type = "AddNode"

\* They are so over any changes of role as long as no engine has stopped.
MembershipSinceStart == stops = 0 => MembershipFollowsLog

-----------------------------------------------------------------------------
(***************************************************************************)
(* The inductive invariant behind RoleAgreement, CommittingIsFront,        *)
(* CommitInFlight, BuildingAgreement and RestartIsPossible.                *)
(***************************************************************************)
\* The roles agree, but for a change of role in this iteration of the loop,
\* which leaves messages that make process_ready notice it.
RolesOK(n) ==
  /\ (leader_state[n] = None) <=> (follower_state[n] # None)
  /\ \/ (raft[n].role = "Leader") <=> (leader_state[n] # None)
     \/ phase[n] \in {"handled", "ticked"} /\ raft[n].msgs = "waiting"

BuildOK(n) == (leader_state[n] = Building) <=> (validator[n].building # NoBlock)

CommittingBlock(n, b) == Committing(b) \in {leader_state[n], follower_state[n]}

CommitOK(n) ==
  \A b \in BlockId : CommittingBlock(n, b) =>
    /\ block_queue[n].commit_queue # << >>
    /\ Head(block_queue[n].commit_queue).block = b
    /\ b \in Range(validator[n].requests) \/ Commit(b) \in validator[n].inbox

\* Entries are delivered only once they are committed in the storage, and the
\* library's memory is never behind the storage.
IndexOK(n) ==
  /\ \A k \in DOMAIN block_queue[n].commit_queue :
       block_queue[n].commit_queue[k].entry <= raft[n].delivered
  /\ raft[n].delivered <= raft[n].ready
  /\ raft[n].ready <= disk[n].commit
  /\ disk[n].commit <= raft[n].commit
  /\ raft[n].commit <= Len(raft[n].log)

\* What outlives the engine.
DurableOK(n) ==
  /\ disk[n].applied <= disk[n].commit
  /\ disk[n].commit <= Len(disk[n].log)
  /\ sent[n].commit <= Len(sent[n].log)

NodeOK(n) == /\ DurableOK(n)
             /\ Up(n) => RolesOK(n) /\ BuildOK(n) /\ CommitOK(n) /\ IndexOK(n)

IndInv == TypeOK /\ \A n \in Node : NodeOK(n)

-----------------------------------------------------------------------------
\* Storage keeps its promises over any sequence of writes, crashes and
\* restarts: the term and the commit index never go back, a vote is not
\* changed within its term, and the applied index moves from one block entry
\* to the next.
StorageIsMonotonic ==
  [][\A n \in Node :
       /\ disk'[n].term >= disk[n].term
       /\ disk'[n].commit >= disk[n].commit
       /\ disk'[n].term = disk[n].term /\ disk[n].vote # NoNode =>
            disk'[n].vote = disk[n].vote
       /\ disk'[n].applied # disk[n].applied =>
            BlocksBetween(disk[n].log, disk[n].applied, disk'[n].applied)
              = {disk'[n].applied}]_vars

\* Raft is non-forking: a validator only ever moves its chain head to a child
\* of the head it has, never to another branch.
NonForking ==
  [][\A n \in Node : validator'[n].head # validator[n].head =>
       Parent(validator'[n].head) = validator[n].head]_vars

\* The removal of an unknown peer in apply_conf_change, or two changed peers found
\* by check_for_conf_change in on_block_commit.
MembershipPanic(n) ==
  \/ /\ Delivering(n)
     /\ NextEntry(n).type = "RemoveNode"
     /\ NextEntry(n).node \notin raft_id_to_peer_id[n]
  \/ \E b \in BlockId : /\ LeaderOnBlockCommit(n, b)
                        /\ Cardinality(Difference(n, b)) > 1

\* The only panics of an engine are these two: the library refuses neither
\* propose nor propose_conf_change, and initialize_block and cancel_block find
\* the validator in the state they need, although the leadership may be lost
\* between a commit and the update that reports it.
PanicsAreMembershipChanges ==
  [][\A n \in Node : Up(n) /\ phase'[n] = "panicked" => MembershipPanic(n)]_vars

-----------------------------------------------------------------------------
(***************************************************************************)
(* Fairness.  The loop of engine.rs always goes on.  The update channel is *)
(* a queue, so an update in it is received; the ticker fires again and     *)
(* again, so a leader sends heartbeats and publishes a block that is       *)
(* ready; a message that the library keeps sending arrives.  The validator *)
(* carries out a commit.  Elections, stops and restarts need not happen.   *)
(***************************************************************************)
HandleValidatorUpdate(n) == \E b \in BlockId : \/ OnBlockNew(n, b)
                                               \/ OnBlockValid(n, b)
                                               \/ OnBlockInvalid(n, b)
                                               \/ OnBlockCommit(n, b)

Heartbeat(n) == Tick(n) /\ raft[n].role = "Leader" /\ raft' # raft

Fairness ==
  /\ \A n \in Node : WF_vars(Ready(n))
  /\ \A n \in Node : SF_vars(OnPeerMessage(n))
  /\ SF_vars(\E n \in Node : HandleValidatorUpdate(n))
  /\ SF_vars(\E n \in Node : Heartbeat(n))
  /\ SF_vars(\E n \in Node : Tick(n) /\ tree' # tree)
  /\ WF_vars(\E n \in Node, b \in BlockId : ValidatorCommit(n, b))

FairSpec == Spec /\ Fairness

\* Some engine keeps the leadership from some point on.
StableLeader == <>[](\E n \in Node : raft[n].role = "Leader")

\* The network makes progress under a stable leader: every block the validators
\* ever build (all MaxBlocks of them) is committed by every validator.
Progress == StableLeader => <>(\A n \in Node : validator[n].head = MaxBlocks)

\* Under a stable leader, every block Raft has decided is committed in the end:
\* no queue keeps a block forever.
QueuesDrain ==
  StableLeader => []<>(\A n \in Node : block_queue[n].commit_queue = << >>)

-----------------------------------------------------------------------------
(***************************************************************************)
(* The engines implement OrderedCommit.  The blocks decided are those up   *)
(* to the highest commit index in any storage.                             *)
(***************************************************************************)
\* The blocks of the first c entries of a log, in their order.
BlocksUpTo(log, c) ==
  LET f[i \in 0..c] == IF i = 0 THEN << >>
                       ELSE IF IsBlock(log[i]) THEN Append(f[i - 1], log[i].block)
                       ELSE f[i - 1]
  IN  f[c]

Decided ==
  LET n == CHOOSE x \in Node : \A y \in Node : disk[y].commit <= disk[x].commit
  IN  BlocksUpTo(disk[n].log, disk[n].commit)

\* How many blocks n has committed; a head outside the decided sequence maps
\* to no state of OrderedCommit.
Positions ==
  LET seq == Decided
      At(b) == {k \in DOMAIN seq : seq[k] = b}
  IN  [n \in Node |-> IF validator[n].head = Genesis THEN 0
                      ELSE IF At(validator[n].head) = {} THEN -1
                      ELSE Max(At(validator[n].head))]

Ordered == INSTANCE OrderedCommit WITH decided <- Decided, committed <- Positions

\* The commits the validators make are those of one decided sequence, in its
\* order, none left out and none twice, at every node: process_ready,
\* get_next_committable and on_block_commit together keep the order of the Raft
\* log, whatever the order in which the validators announce and validate blocks.
CommitsInOrder == Ordered!Spec
=============================================================================
