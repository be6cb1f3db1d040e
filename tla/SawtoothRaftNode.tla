-------------------------- MODULE SawtoothRaftNode --------------------------
(***************************************************************************)
(* The consensus engine of Sawtooth Raft (src/src/node.rs driven by the    *)
(* loop of src/src/engine.rs): a network of engines, each between a Raft   *)
(* library (module RaftRs) and a validator (module Validator).             *)
(*                                                                         *)
(* An engine is one thread that repeats: take an update if there is one    *)
(* and handle it, let the ticker run, process what Raft has ready.         *)
(* phase[n] says where engine n is in that loop:                           *)
(*   recv     in recv_timeout                                              *)
(*   handled  after handle_update                                          *)
(*   ticked   after the ticker's callback                                  *)
(*   deliver  in process_ready, at the loop over the committed entries     *)
(*   down     stopped; panicked: stopped by a panic; removed: has left     *)
(*            the network and returned from start                          *)
(***************************************************************************)
EXTENDS RaftRs, Validator, BlockQueue

CONSTANT MaxStops        \* bound on the engines' stops, panics not counted

ASSUME MaxStopsAssumption == MaxStops \in Nat

VARIABLES leader_state,          \* Option<LeaderState>
          follower_state,        \* Option<FollowerState>
          block_queue,
          raft_id_to_peer_id,    \* the peers an engine knows: its Raft voters
          phase,
          stops                  \* stops so far

vars == <<raft, disk, sent, validator, tree, leader_state, follower_state,
          block_queue, raft_id_to_peer_id, phase, stops>>

\* States of LeaderState that name a block, and the whole of Option<LeaderState>.
Holding == {"Publishing", "Validating", "Proposing", "Committing"}

LeaderState ==
  [state : {"None", "Building", "ChangingConfig"}, block : {NoBlock}]
    \cup [state : Holding, block : BlockId]

FollowerState ==
  [state : {"None", "Idle"}, block : {NoBlock}]
    \cup [state : {"Committing"}, block : BlockId]

None           == [state |-> "None", block |-> NoBlock]
Idle           == [state |-> "Idle", block |-> NoBlock]
Building       == [state |-> "Building", block |-> NoBlock]
ChangingConfig == [state |-> "ChangingConfig", block |-> NoBlock]
Publishing(b)  == [state |-> "Publishing", block |-> b]
Validating(b)  == [state |-> "Validating", block |-> b]
Proposing(b)   == [state |-> "Proposing", block |-> b]
Committing(b)  == [state |-> "Committing", block |-> b]

Running == {"recv", "handled", "ticked", "deliver"}
Phase   == Running \cup {"down", "panicked", "removed"}

TypeOK ==
  /\ raft \in [Node -> Raft]
  /\ disk \in [Node -> Disk]
  /\ sent \in [Node -> Message]
  /\ validator \in [Node -> ValidatorState]
  /\ tree \in Seq(BlockRecord) /\ Len(tree) <= MaxBlocks
  /\ leader_state \in [Node -> LeaderState]
  /\ follower_state \in [Node -> FollowerState]
  /\ block_queue \in [Node -> Queue]
  /\ raft_id_to_peer_id \in [Node -> SUBSET Node]
  /\ phase \in [Node -> Phase]
  /\ stops \in 0..MaxStops

Init ==
  /\ disk = [n \in Node |-> NewDisk]
  /\ raft = [n \in Node |-> NewRaft(NewDisk)]
  /\ sent = [n \in Node |-> NewMessage]
  /\ validator = [n \in Node |-> NewValidator]
  /\ tree = << >>
  /\ leader_state = [n \in Node |-> None]
  /\ follower_state = [n \in Node |-> Idle]
  /\ block_queue = [n \in Node |-> NewBlockQueue]
  /\ raft_id_to_peer_id = [n \in Node |-> InitPeers]
  /\ phase = [n \in Node |-> "recv"]
  /\ stops = 0

\* Where an engine is after a step that panics when `fault' holds.
Goto(n, fault, next) == phase' = [phase EXCEPT ![n] = IF fault THEN "panicked" ELSE next]

-----------------------------------------------------------------------------
(***************************************************************************)
(* handle_update                                                           *)
(***************************************************************************)
OnBlockNew(n, b) ==
  /\ phase[n] = "recv"
  /\ New(b) \in validator[n].inbox
  /\ leader_state' = [leader_state EXCEPT ![n] =
                        IF @ = Publishing(b) THEN Validating(b) ELSE @]
  /\ block_queue' = [block_queue EXCEPT ![n] = BlockNew(@, b)]
  /\ validator' = [validator EXCEPT ![n] = CheckBlocks(Receive(@, New(b)), b)]
  /\ Goto(n, FALSE, "handled")
  /\ UNCHANGED <<raft, disk, sent, tree, follower_state, raft_id_to_peer_id, stops>>

\* The update for the block the leader waits for makes the leader propose it.
OnBlockValid(n, b) ==
  LET awaited == leader_state[n] \in {Publishing(b), Validating(b)}
  IN  /\ phase[n] = "recv"
      /\ Valid(b) \in validator[n].inbox
      /\ block_queue' = [block_queue EXCEPT ![n] = BlockValid(@, b)]
      /\ validator' = [validator EXCEPT ![n] = Receive(@, Valid(b))]
      /\ IF awaited
         THEN /\ raft' = [raft EXCEPT ![n] = Propose(n, @, b, raft_id_to_peer_id[n])]
              /\ leader_state' = [leader_state EXCEPT ![n] = Proposing(b)]
         ELSE UNCHANGED <<raft, leader_state>>
      /\ Goto(n, awaited /\ raft[n].role # "Leader", "handled")
      /\ UNCHANGED <<disk, sent, tree, follower_state, raft_id_to_peer_id, stops>>

\* Mutant: the leader goes on to propose, whatever the verdict.
ProposeRejected(n, b) ==
  LET awaited == leader_state[n] \in {Publishing(b), Validating(b)}
  IN  /\ phase[n] = "recv"
      /\ Invalid(b) \in validator[n].inbox
      /\ validator' = [validator EXCEPT ![n] = Receive(@, Invalid(b))]
      /\ IF awaited
         THEN /\ raft' = [raft EXCEPT ![n] = Propose(n, @, b, raft_id_to_peer_id[n])]
              /\ leader_state' = [leader_state EXCEPT ![n] = Proposing(b)]
         ELSE UNCHANGED <<raft, leader_state>>
      /\ Goto(n, FALSE, "handled")
      /\ UNCHANGED <<disk, sent, tree, follower_state, block_queue, raft_id_to_peer_id,
                     stops>>

\* An update that handle_update only logs: a leader keeps waiting for its block.
OnBlockInvalid(n, b) ==
  /\ phase[n] = "recv"
  /\ Invalid(b) \in validator[n].inbox
  /\ validator' = [validator EXCEPT ![n] = Receive(@, Invalid(b))]
  /\ Goto(n, FALSE, "handled")
  /\ UNCHANGED <<raft, disk, sent, tree, leader_state, follower_state, block_queue,
                 raft_id_to_peer_id, stops>>

\* Mutant: changes of the settings go unnoticed.
NoDifference(n, b) == {}

\* check_for_conf_change: the peers that block b's settings add or remove.
Difference(n, b) == (Settings(b) \ raft_id_to_peer_id[n])
                      \cup (raft_id_to_peer_id[n] \ Settings(b))

Change(n, b) == IF Cardinality(Settings(b)) > Cardinality(raft_id_to_peer_id[n])
                THEN "AddNode" ELSE "RemoveNode"

\* What both roles do with the queue when the validator has committed b.
PopCommitted(n, b) ==
  /\ phase[n] = "recv"
  /\ Commit(b) \in validator[n].inbox
  /\ block_queue' = [block_queue EXCEPT ![n] = BlockCommitted(@)]
  /\ disk' = [disk EXCEPT ![n] = SetApplied(@, CommittedEntry(block_queue[n]))]

\* A leader that has committed b goes on to the next block, or first starts a
\* membership change; more than one changed peer, or a library that refuses the
\* proposal, makes it panic.
LeaderOnBlockCommit(n, b) ==
  LET diff == Difference(n, b)
  IN  /\ leader_state[n] = Committing(b)
      /\ PopCommitted(n, b)
      /\ \/ /\ diff = {}
            /\ leader_state' = [leader_state EXCEPT ![n] = Building]
            /\ validator' = [validator EXCEPT ![n] =
                               InitializeBlock(Receive(@, Commit(b)))]
            /\ Goto(n, validator[n].building # NoBlock, "handled")
            /\ UNCHANGED raft
         \/ /\ diff # {}
            /\ leader_state' = [leader_state EXCEPT ![n] = ChangingConfig]
            /\ raft' = [raft EXCEPT ![n] =
                          ProposeConfChange(n, @, Change(n, b), CHOOSE x \in diff : TRUE,
                                            raft_id_to_peer_id[n])]
            /\ validator' = [validator EXCEPT ![n] = Receive(@, Commit(b))]
            /\ Goto(n, Cardinality(diff) > 1 \/ raft[n].role # "Leader", "handled")
      /\ UNCHANGED <<sent, tree, follower_state, raft_id_to_peer_id, stops>>

\* Mutant: the follower stays in its Committing state.
FollowerStaysCommitting(n, b) ==
  /\ follower_state[n] = Committing(b)
  /\ PopCommitted(n, b)
  /\ validator' = [validator EXCEPT ![n] = Receive(@, Commit(b))]
  /\ Goto(n, FALSE, "handled")
  /\ UNCHANGED <<raft, sent, tree, leader_state, follower_state, raft_id_to_peer_id, stops>>

FollowerOnBlockCommit(n, b) ==
  /\ follower_state[n] = Committing(b)
  /\ PopCommitted(n, b)
  /\ follower_state' = [follower_state EXCEPT ![n] = Idle]
  /\ validator' = [validator EXCEPT ![n] = Receive(@, Commit(b))]
  /\ Goto(n, FALSE, "handled")
  /\ UNCHANGED <<raft, sent, tree, leader_state, raft_id_to_peer_id, stops>>

\* The update concerns a commit this engine has not asked for: it has been
\* restarted since.
IgnoreBlockCommit(n, b) ==
  /\ phase[n] = "recv"
  /\ Commit(b) \in validator[n].inbox
  /\ leader_state[n] # Committing(b)
  /\ follower_state[n] # Committing(b)
  /\ validator' = [validator EXCEPT ![n] = Receive(@, Commit(b))]
  /\ Goto(n, FALSE, "handled")
  /\ UNCHANGED <<raft, disk, sent, tree, leader_state, follower_state, block_queue,
                 raft_id_to_peer_id, stops>>

OnBlockCommit(n, b) == \/ LeaderOnBlockCommit(n, b)
                       \/ FollowerOnBlockCommit(n, b)
                       \/ IgnoreBlockCommit(n, b)

\* on_peer_message: the Raft library steps on a message of peer m.
StepMessage(n, m) ==
  LET r == raft[n]
      s == sent[m]
  IN  /\ phase[n] = "recv"
      /\ m # n /\ n \in s.to
      /\ \/ /\ s.role = "Candidate" /\ s.term >= r.term
            /\ raft' = [raft EXCEPT ![n] = HandleRequestVote(r, s, m)]
         \/ /\ s.role = "Leader" /\ s.term >= r.term /\ Consistent(r, s)
            /\ raft' = [raft EXCEPT ![n] = HandleAppend(r, s)]
         \/ /\ r.role = "Candidate" /\ m \in Votes(n, r)
            /\ Quorum(Votes(n, r), raft_id_to_peer_id[n])
            /\ raft' = [raft EXCEPT ![n] = BecomeLeader(n, r, raft_id_to_peer_id[n])]
         \/ /\ r.role = "Leader" /\ m \in Replies(n, r)
            /\ \E i \in Acknowledged(n, r, raft_id_to_peer_id[n]) :
                 /\ \A j \in Acknowledged(n, r, raft_id_to_peer_id[n]) : j <= i
                 /\ raft' = [raft EXCEPT ![n] = [r EXCEPT !.commit = i, !.msgs = "waiting"]]
      /\ Goto(n, FALSE, "handled")
      /\ UNCHANGED <<disk, sent, validator, tree, leader_state, follower_state,
                     block_queue, raft_id_to_peer_id, stops>>

OnPeerMessage(n) == \E m \in Node : StepMessage(n, m)

-----------------------------------------------------------------------------
(***************************************************************************)
(* tick: the library's timers, then check_publish.                         *)
(***************************************************************************)
\* A leader may send heartbeats; an engine that has not led in this iteration
\* may find its election timeout expired.
RaftTick(n) ==
  \/ UNCHANGED raft
  \/ /\ raft[n].role = "Leader"
     /\ raft' = [raft EXCEPT ![n].msgs = "waiting"]
  \/ /\ raft[n].role # "Leader" /\ leader_state[n] = None
     /\ n \in raft_id_to_peer_id[n]
     /\ raft[n].term < MaxTerm
     /\ raft' = [raft EXCEPT ![n] = Campaign(n, @, raft_id_to_peer_id[n])]

\* The block has been built long enough and the validator can finalize it: it has
\* one under construction, by BuildingAgreement.
Publish(n) ==
  /\ leader_state[n] = Building
  /\ Len(tree) < MaxBlocks
  /\ \E P \in NextPeers(validator[n].building), ok \in Verdicts :
       /\ tree' = Append(tree, [parent |-> validator[n].building, peers |-> P, valid |-> ok])
       /\ validator' =
            FinalizedAt(n, Len(tree) + 1, ok, {m \in Node : phase[m] \in Running})
  /\ leader_state' = [leader_state EXCEPT ![n] = Publishing(Len(tree) + 1)]

\* Nothing to publish, too early, or the validator says BlockNotReady.
CheckPublish(n) == \/ Publish(n)
                   \/ UNCHANGED <<tree, validator, leader_state>>

\* A tick that does nothing matters only when it lets process_ready run.
Tick(n) ==
  /\ phase[n] \in {"recv", "handled"}
  /\ RaftTick(n)
  /\ CheckPublish(n)
  /\ \/ <<raft, tree>>' # <<raft, tree>>
     \/ phase[n] = "recv" /\ HasReady(n)
  /\ Goto(n, FALSE, "ticked")
  /\ UNCHANGED <<disk, sent, follower_state, block_queue, raft_id_to_peer_id, stops>>

\* An iteration in which recv_timeout expires and nothing else happens.
Quiet(n) == phase[n] = "recv" /\ ~HasReady(n) /\ UNCHANGED vars

-----------------------------------------------------------------------------
(***************************************************************************)
(* process_ready                                                           *)
(***************************************************************************)
NothingReady(n) ==
  /\ phase[n] \in {"handled", "ticked"}
  /\ ~HasReady(n)
  /\ Goto(n, FALSE, "recv")
  /\ UNCHANGED <<raft, disk, sent, validator, tree, leader_state, follower_state,
                 block_queue, raft_id_to_peer_id, stops>>

\* The change of role the engine notices.
SteppedUp(n) == raft[n].role = "Leader" /\ leader_state[n] = None

\* Mutant: only a leader that was building notices the loss of its role.
SteppedDownBuilding(n) == raft[n].role # "Leader" /\ leader_state[n] = Building

SteppedDown(n) == raft[n].role # "Leader" /\ leader_state[n] # None

\* A commit in flight is carried over from one role to the other.
StepUpCommitting(n) ==
  /\ SteppedUp(n)
  /\ follower_state[n].state = "Committing"
  /\ leader_state' = [leader_state EXCEPT ![n] = follower_state[n]]
  /\ follower_state' = [follower_state EXCEPT ![n] = None]
  /\ Goto(n, FALSE, "deliver")
  /\ UNCHANGED validator

StepUpBuilding(n) ==
  /\ SteppedUp(n)
  /\ follower_state[n].state # "Committing"
  /\ leader_state' = [leader_state EXCEPT ![n] = Building]
  /\ follower_state' = [follower_state EXCEPT ![n] = None]
  /\ validator' = [validator EXCEPT ![n] = InitializeBlock(@)]
  /\ Goto(n, validator[n].building # NoBlock, "deliver")

CarriedOver(n) ==
  IF leader_state[n].state = "Committing" THEN leader_state[n]
  ELSE IF follower_state[n] = None THEN Idle ELSE follower_state[n]

\* Mutant: the block under construction is not cancelled.
NeverCancel(n) == FALSE

MustCancel(n) == leader_state[n] = Building

StepDown(n) ==
  /\ SteppedDown(n)
  /\ leader_state' = [leader_state EXCEPT ![n] = None]
  /\ follower_state' = [follower_state EXCEPT ![n] = CarriedOver(n)]
  /\ validator' = [validator EXCEPT ![n] = IF MustCancel(n) THEN CancelBlock(@) ELSE @]
  /\ Goto(n, MustCancel(n) /\ validator[n].building = NoBlock, "deliver")

KeepRole(n) ==
  /\ ~SteppedUp(n) /\ ~SteppedDown(n)
  /\ Goto(n, FALSE, "deliver")
  /\ UNCHANGED <<leader_state, follower_state, validator>>

TakeRole(n) ==
  StepUpCommitting(n) \/ StepUpBuilding(n) \/ StepDown(n) \/ KeepRole(n)

\* From ready() to the loop over the committed entries.
ProcessReady(n) ==
  /\ phase[n] \in {"handled", "ticked"}
  /\ HasReady(n)
  /\ TakeRole(n)
  /\ disk' = [disk EXCEPT ![n] = SetHardState(AppendEntries(@, raft[n]), raft[n])]
  /\ sent' = [sent EXCEPT ![n] = Outgoing(n, raft_id_to_peer_id[n])]
  /\ raft' = [raft EXCEPT ![n].ready = raft[n].commit, ![n].msgs = "none"]
  /\ UNCHANGED <<tree, block_queue, raft_id_to_peer_id, stops>>

NextEntry(n) == raft[n].log[raft[n].delivered + 1]

Delivered(r) == [r EXCEPT !.delivered = @ + 1]

Delivering(n) == phase[n] = "deliver" /\ raft[n].delivered < raft[n].ready

\* The empty entry with which a leader starts its term is skipped.
DeliverEmpty(n) ==
  /\ Delivering(n)
  /\ ~IsBlock(NextEntry(n)) /\ ~IsConf(NextEntry(n))
  /\ raft' = [raft EXCEPT ![n] = Delivered(@)]
  /\ UNCHANGED <<disk, sent, validator, tree, leader_state, follower_state,
                 block_queue, raft_id_to_peer_id, phase, stops>>

\* Mutant: empty entries are not skipped.
DeliverNormal(n) ==
  /\ Delivering(n)
  /\ ~IsConf(NextEntry(n))
  /\ block_queue' = [block_queue EXCEPT ![n] =
                       AddBlockCommit(@, NextEntry(n).block, raft[n].delivered + 1)]
  /\ raft' = [raft EXCEPT ![n] = Delivered(@)]
  /\ UNCHANGED <<disk, sent, validator, tree, leader_state, follower_state,
                 raft_id_to_peer_id, phase, stops>>

DeliverBlock(n) ==
  /\ Delivering(n)
  /\ IsBlock(NextEntry(n))
  /\ block_queue' = [block_queue EXCEPT ![n] =
                       AddBlockCommit(@, NextEntry(n).block, raft[n].delivered + 1)]
  /\ raft' = [raft EXCEPT ![n] = Delivered(@)]
  /\ UNCHANGED <<disk, sent, validator, tree, leader_state, follower_state,
                 raft_id_to_peer_id, phase, stops>>

\* Mutant: a peer that leaves is kept.
OnlyAdditions(n, e) == raft_id_to_peer_id[n] \cup {e.node}

\* Mutant: a peer that joins is not recorded.
OnlyRemovals(n, e) == raft_id_to_peer_id[n] \ {e.node}

\* apply_conf_change: the peers after the change; removing a peer that is not
\* there is the unwrap of None.
ChangedPeers(n, e) == IF e.type = "AddNode" THEN raft_id_to_peer_id[n] \cup {e.node}
                                            ELSE raft_id_to_peer_id[n] \ {e.node}

ApplyConfChange(n, r, e) ==
  IF r.role = "Leader" THEN CommitAlone(n, r, ChangedPeers(n, e)) ELSE r

DeliverConfChange(n) ==
  LET e == NextEntry(n)
  IN  /\ Delivering(n)
      /\ IsConf(e)
      /\ ~(e.type = "RemoveNode" /\ e.node = n)
      /\ raft_id_to_peer_id' = [raft_id_to_peer_id EXCEPT ![n] = ChangedPeers(n, e)]
      /\ raft' = [raft EXCEPT ![n] = ApplyConfChange(n, Delivered(@), e)]
      /\ IF leader_state[n] = ChangingConfig
         THEN /\ leader_state' = [leader_state EXCEPT ![n] = Building]
              /\ validator' = [validator EXCEPT ![n] = InitializeBlock(@)]
         ELSE UNCHANGED <<leader_state, validator>>
      /\ Goto(n, \/ e.type = "RemoveNode" /\ e.node \notin raft_id_to_peer_id[n]
                 \/ leader_state[n] = ChangingConfig /\ validator[n].building # NoBlock,
              "deliver")
      /\ UNCHANGED <<disk, sent, tree, follower_state, block_queue, stops>>

\* The engine's own removal: process_ready answers Shutdown and start returns.
DeliverOwnRemoval(n) ==
  /\ Delivering(n)
  /\ NextEntry(n).type = "RemoveNode" /\ NextEntry(n).node = n
  /\ Goto(n, FALSE, "removed")
  /\ UNCHANGED <<raft, disk, sent, validator, tree, leader_state, follower_state,
                 block_queue, raft_id_to_peer_id, stops>>

\* commit_block: the leader commits the block it has proposed, a follower what
\* comes next when it is not busy with another.
\* Mutant: the leader does not recognise its own block.
LeaderNeverCommits(n, b) == FALSE

LeaderCommits(n, b) == leader_state[n] = Proposing(b)

FollowerCommits(n, b) == b # NoBlock /\ follower_state[n] = Idle

\* Mutant: only the leader passes the commit on to its validator.
LeaderRequests(n, b) == LeaderCommits(n, b)

Requests(n, b) == LeaderCommits(n, b) \/ FollowerCommits(n, b)

\* commit_block for the front of the queue when it is valid; then advance.
FinishReady(n) ==
  LET b == GetNextCommittable(block_queue[n])
  IN  /\ phase[n] = "deliver"
      /\ raft[n].delivered = raft[n].ready
      /\ leader_state' = [leader_state EXCEPT ![n] =
                            IF LeaderCommits(n, b) THEN Committing(b) ELSE @]
      /\ follower_state' = [follower_state EXCEPT ![n] =
                              IF FollowerCommits(n, b) THEN Committing(b) ELSE @]
      /\ validator' = [validator EXCEPT ![n] =
                         IF Requests(n, b) THEN CommitBlock(@, b) ELSE @]
      /\ Goto(n, FALSE, "recv")
      /\ UNCHANGED <<raft, disk, sent, tree, block_queue, raft_id_to_peer_id, stops>>

-----------------------------------------------------------------------------
(***************************************************************************)
(* Stops and starts, and the validator's own step.                         *)
(***************************************************************************)
\* Engine n is gone, with d in its Storage and s as its last messages.
Lost(n, d, s) ==
  /\ stops < MaxStops
  /\ stops' = stops + 1
  /\ disk' = [disk EXCEPT ![n] = d]
  /\ sent' = [sent EXCEPT ![n] = s]
  /\ raft' = [raft EXCEPT ![n] = NewRaft(d)]
  /\ leader_state' = [leader_state EXCEPT ![n] = None]
  /\ follower_state' = [follower_state EXCEPT ![n] = Idle]
  /\ block_queue' = [block_queue EXCEPT ![n] = NewBlockQueue]
  /\ \E kept \in {<< >>, validator[n].requests} :
       validator' = [validator EXCEPT ![n] = Disconnected(@, kept)]
  /\ Goto(n, FALSE, "down")
  /\ UNCHANGED <<tree, raft_id_to_peer_id>>

\* Update::Shutdown, a closed channel, or a crash outside process_ready's
\* writes.
Stop(n) == phase[n] \in Running /\ Lost(n, disk[n], sent[n])

\* Mutant: set_hardstate comes before append.
HardStateFirst(n) == {disk[n], SetHardState(disk[n], raft[n])}

\* What a crash in process_ready finds written: nothing, some of the entries, all
\* of them, or the entries and the hard state.
WrittenSoFar(n) ==
  {disk[n],
   AppendEntries(disk[n], raft[n]),
   SetHardState(AppendEntries(disk[n], raft[n]), raft[n])}
    \cup {InterruptedAppend(disk[n], raft[n], j) : j \in DOMAIN disk[n].log}

\* Mutant: a follower answers before it has written.
EverybodySends(n) == Outgoing(n, raft_id_to_peer_id[n])

\* A leader sends before the first write, the others after the last.
SentSoFar(n) == IF raft[n].role = "Leader" THEN Outgoing(n, raft_id_to_peer_id[n])
                                           ELSE sent[n]

CrashInReady(n) ==
  /\ phase[n] \in {"handled", "ticked"}
  /\ HasReady(n)
  /\ \E d \in WrittenSoFar(n) : Lost(n, d, SentSoFar(n))

\* start: the configuration is read from the settings at the chain head, the
\* Raft state from the Storage.
Restart(n) ==
  /\ phase[n] \in {"down", "panicked"}
  /\ raft' = [raft EXCEPT ![n] = NewRaft(disk[n])]
  /\ leader_state' = [leader_state EXCEPT ![n] = None]
  /\ follower_state' = [follower_state EXCEPT ![n] = Idle]
  /\ block_queue' = [block_queue EXCEPT ![n] = NewBlockQueue]
  /\ raft_id_to_peer_id' = [raft_id_to_peer_id EXCEPT ![n] = Settings(validator[n].head)]
  /\ validator' = [validator EXCEPT ![n] = Reconnected(Disconnected(@, @.requests))]
  /\ Goto(n, FALSE, "recv")
  /\ UNCHANGED <<disk, sent, tree, stops>>

ValidatorCommit(n, b) ==
  /\ validator[n].requests # << >> /\ b = Head(validator[n].requests)
  /\ validator' = [validator EXCEPT ![n] = Committed(@, b, phase[n] \in Running)]
  /\ UNCHANGED <<raft, disk, sent, tree, leader_state, follower_state, block_queue,
                 raft_id_to_peer_id, phase, stops>>

-----------------------------------------------------------------------------
HandleUpdate(n) == \/ \E b \in BlockId : \/ OnBlockNew(n, b)
                                         \/ OnBlockValid(n, b)
                                         \/ OnBlockInvalid(n, b)
                                         \/ OnBlockCommit(n, b)
                   \/ OnPeerMessage(n)

Ready(n) == \/ NothingReady(n)
            \/ ProcessReady(n)
            \/ DeliverEmpty(n)
            \/ DeliverBlock(n)
            \/ DeliverConfChange(n)
            \/ DeliverOwnRemoval(n)
            \/ FinishReady(n)

Next == \E n \in Node : \/ HandleUpdate(n)
                        \/ Tick(n)
                        \/ Quiet(n)
                        \/ Ready(n)
                        \/ Stop(n)
                        \/ CrashInReady(n)
                        \/ Restart(n)
                        \/ \E b \in BlockId : ValidatorCommit(n, b)

Spec == Init /\ [][Next]_vars
=============================================================================
