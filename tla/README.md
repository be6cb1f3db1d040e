# A TLA+ development of Sawtooth Raft

Sawtooth Raft is a consensus engine for Hyperledger Sawtooth. It sits between a
*validator* (which builds, checks, spreads and commits blocks) and a *Raft
library* (raft-rs, which agrees with the other peers on a log). The engine's job
is the glue: the leader turns a block into a log entry, every peer turns the
entries into commits. This directory models that glue, the queue, the event loop
and its timers, the configuration and the storage, checks them with TLC and proves
their main invariants with TLAPS.

Paths below are relative to the repository (`src/node.rs` is
`src/src/node.rs` in `PROJECT.json`).

## Inventory

| Component | State | Operations | Talks to |
|---|---|---|---|
| `block_queue.rs` | `validator_backlog` (what the validator said of each block), `commit_queue` (decided blocks with their log index) | `block_new`, `block_valid`, `add_block_commit`, `block_committed`, `get_next_committable` | called by the node |
| `node.rs` | `leader_state`, `follower_state`, `block_queue`, `raft_id_to_peer_id`, the library's `RawNode` | `on_block_new/valid/commit`, `on_peer_message`, `tick`, `process_ready` | library (`propose`, `step`, `ready`, ...), validator (`initialize_block`, `finalize_block`, `check_blocks`, `commit_block`, ...), storage |
| `engine.rs` | the loop | `start`, `handle_update` | update channel, node, ticker |
| `ticker.rs` | `last`, `timeout`, `remaining` | `new`, `tick` | called by the loop, calls `node.tick` |
| `config.rs` | none | `load_raft_config`, `peer_id_to_raft_id`, `get_peers_from_settings` | settings at the chain head, storage |
| `storage.rs` | none (trait `StorageExt`) | `append`, `set_hardstate`, `set_applied`, snapshots, compaction | called by the node and the library |
| `fs_storage.rs` | one file per entry, files for hard state, indices, snapshot | the same, on files | file system |
| `cached_storage.rs` | caches of entries and terms | the same, with invalidation | storage below |
| `main.rs`, `path.rs` | none | command line, logging, directories | — |

What is hard here:

* *Concurrency.* An engine is one thread, but it shares its state with a
  validator, with a library whose role changes under it, and with the other
  peers. Every update may come between any two others.
* *Changes of role* while a block is being built, published, validated, proposed
  or committed.
* *Crashes* between the sends and the writes of `process_ready`, and restarts
  that deliver part of the log again.
* *Membership changes* that are proposed after the block that asks for them, and
  replayed at a restart and by late joiners.
* *Time*: the ticker is called at irregular moments, and heartbeats, elections and
  the publication of blocks are all counted in its ticks.
* *Settings* that are missing, malformed or refused by the library, and peer ids
  of which Raft sees eight bytes.

Correct means, per component: the queue commits in log order; the node is always
in exactly one role and in the library's; a commit that was asked for is never
forgotten and never attributed to another block; the validator's block under
construction is opened and closed in step with the node's state; storage never
goes back and is always one to start from; validators commit one sequence of
blocks, all of them valid; the network makes progress under a stable leader; every
operation of the storage happens completely or not at all; the timers are never late
and never stop.

## Modules

| Module | Models |
|---|---|
| `Identifiers` | peers and blocks, the names all modules share |
| `BlockQueue` | `block_queue.rs`; a queue is a record, each method an operator |
| `RaftRs` | the Raft library as the engine drives it (external), and the storage record `disk[n]` |
| `Validator` | the validators and the block tree (external) |
| `SawtoothRaftNode` | `node.rs` and `engine.rs`: a network of engines; composes the four above |
| `NodeProperties` | invariants, the inductive invariant, action properties, fairness, liveness, the refinement |
| `OrderedCommit` | abstract specification: one decided sequence, committed in order by every validator |
| `NodeProofs` | lemmas about the operators; the theorems about an engine, its library and its validator |
| `LogProofs` | the theorems about logs, queues, storage records and blocks |
| `RaftProofs` | the theorems about the network: what is committed is durable, and the same everywhere |
| `ChainProofs` | the theorems about the validators' chains: order, refinement of `OrderedCommit`, leaders |
| `LoopTiming` | the times of the loop: `RAFT_TIMEOUT`, how late a call may be |
| `Ticker`, `TickerProofs` | `ticker.rs` with the waits of the loop; its theorem |
| `RaftConfig` | `config.rs`: settings, defaults, Raft ids |
| `Timers`, `TimersProofs` | `start` and everything an engine does at a certain time: composes `RaftConfig` and two `Ticker`s, a leader's and a follower's; their theorems |
| `StorageExt` | abstract specification of a storage (`storage.rs`): every operation in one step |
| `FsStorage`, `StorageProofs` | `fs_storage.rs`: the files, an operation as the sequence of its writes, crashes between them; its theorems |
| `CachedStorage` | `cached_storage.rs` on top of it: both LRU caches, readers, reset; its theorems are in `StorageProofs` |
| `InductionLemmas` | induction over numbers, for the proofs about recursive functions |
| `MCNode`, `MCTimers`, `MCStorage`, `MCTornAppend` | the modules TLC runs |

### How the engine's state and actions correspond to the code

`leader_state[n]`, `follower_state[n]`, `block_queue[n]` and
`raft_id_to_peer_id[n]` are the fields of those names. `phase[n]` is the place of
the engine in its loop: `recv` (in `recv_timeout`), `handled` (after
`handle_update`), `ticked` (after the ticker's callback), `deliver` (in the loop
over the committed entries), or one of the ways of not running: `down`,
`panicked`, `removed`. One action is one handler:

* `OnBlockNew`, `OnBlockValid`, `LeaderOnBlockCommit`/`FollowerOnBlockCommit`/
  `IgnoreBlockCommit`, `OnPeerMessage` are the arms of `handle_update`;
  `OnBlockInvalid` is the last arm, which only logs.
* `Tick` is `tick`: the library's timers (`RaftTick`) and then `check_publish`.
* `ProcessReady` is `process_ready` up to the committed entries: role change,
  sends, writes. `DeliverEmpty`, `DeliverBlock`, `DeliverConfChange`,
  `DeliverOwnRemoval` are the iterations of the loop over the entries;
  `FinishReady` is the final `commit_block` and `advance`. The loop over the
  entries is split because the validator and other peers run meanwhile.
* `Stop` is a shutdown, a closed channel or a crash; `CrashInReady` is a crash
  between the sends and writes of `process_ready`: nothing written, some of the
  entries, all of them, or the entries and the hard state (`WrittenSoFar`), with
  the leader's messages already sent and a follower's not yet.
* `Restart` is `start`: peers from the settings at the chain head, Raft state
  and applied index from storage, fresh queue.
* A panic (`expect`, `unwrap`, `panic!`) sends the engine to phase `panicked`,
  from which it can be restarted. `OnBlockValid` and `LeaderOnBlockCommit` have it
  for a proposal that the library refuses. The panics of `summarize_block` and
  `finalize_block` in a validator without a block under construction are not
  branches of `Publish`: `BuildingAgreement` says that there is such a block.

### Storage

`SawtoothRaftNode` sees storage as the record `disk[n]`. `set_hardstate` and
`set_applied` are one write each. `append` is several: the entry files one after the
other, then the last index. A crash inside it (`InterruptedAppend`) leaves the new
entries up to some index followed by those of the old log; entries beyond the old
last index cannot be read, so that an append that only extends the log is
atomic all the same, and one that overwrites entries is not. `torn_append` shows what
follows from that.

`FsStorage` looks inside: `file` and `entry` are the files of `data_dir` and of
`entries_dir`, `todo` the writes the current operation has still to make. An
operation puts its whole list of writes into `todo` (an empty one if it answers
with an error), `DoWrite` makes the next one, `Halt` loses the rest, `Open` is
`with_data_dir`. One `fs::write` is atomic here. An entry is its term, the
HardState its commit index, a snapshot its index; the entries of one append have
one term. Callers append after the commit
index and compact up to the applied one, as the library does and as the comment on
`StorageExt::compact` demands. That comment speaks of the entries *prior* to the
index; the code, and the model, discard the one at the index too.

`CachedStorage` adds `cache`: the four `Option`s, the entry cache (with the
`Option` around it, `entriesOpen`) and the term cache. Readers are actions because
they fill and reorder the caches. Two positions and caches of two elements are
enough for an overwritten entry, two successive compactions, hits, evictions and
the duplicates that `entries` inserts.

`StorageExt` says what the users of a storage rely on: each operation changes what
can be read in one step, a crash anywhere notwithstanding. The mapping (`Promised` in
`FsStorage`) takes from the files what can be read: the two indices, the entries
from the first to the last, the hard state, the applied index and the snapshot. Under
it `FsStorage` implements `StorageExt` (`ImplementsStorageExt`): a write that
changes no content is a stutter, and of every operation exactly one write is the
step, the last index for an append, the first index for a compaction. Until
`init_raft_state` has written a file, the mapping takes its initial content.

The exception is part of the abstract specification, because the code provides no
more: an append that overwrites entries is not atomic, a crash inside it leaves new
entries followed by old ones, all readable. So `StorageExt` lets single uncommitted
entries change by themselves (`Overwrite`); `InterruptedAppend` in `RaftRs` is the
same at the level of the engine.

The caches are transparent in their contents: whatever value, term or entry they
hold is the one in the files (`CacheIsTransparent`). Their *answers* differ in one
case. Open again after a reset, the cache answers an empty range with no entries where
`FsStorage` answers with an error, which the comment at `cached_storage.rs:85-89` says
it must not. No caller asks for an empty range, so the readers have none.

### Timers and configuration

`Timers` starts two engines with the settings of the chain head, each setting
present, absent or malformed (`RaftConfig`). A start that meets a missing list of
peers, an undecodable one, an id of fewer than eight bytes or a configuration the
library refuses (Raft id 0, no heartbeat, an election timeout not above the
heartbeat) panics. Otherwise one of the engines leads and builds a block, the other
follows. Time passes in units; each loop calls its `Ticker` when it likes, at the
latest `MaxDelay` after the wait it was told. A tick that fires runs `node.tick`:
`heartbeat_elapsed` and `election_elapsed` are the library's counters (external),
`CheckPublish` is `check_publish`, where a block that is not ready is asked for
again at every later tick. Heartbeats (`beats`) arrive within `Latency`. When the
follower's election timeout is over, only the tickers go on.

The Raft id of a peer is computed from the last `IdBytes` bytes of its id, eight in
the code; 2 is enough for the shifts to matter (`Shift[i]` is the factor of a byte
that is shifted left by `i` bytes). `raft_id_to_peer_id` is the map
that `SawtoothRaftNode::new` collects, where a later peer replaces an earlier one
with the same Raft id. Whether the library would refuse a list with a Raft id twice is
not in this repository; `Acceptable` (external) lets it pass, so that the runs
include the collision that the map then hides.

### What the external modules assume

* *Messages.* A message is the part of the sender's state it carries, and
  `sent[m]` is what `m` has sent last. A receiver may read it at any time, any
  number of times or never: messages are lost, delayed (up to the sender's next
  message) and duplicated.
* *Library.* Elections with persisted votes, up-to-date check and quorums of the
  peers the engine knows; a leader commits entries of its own term that a quorum
  has acknowledged; at most one membership change is in flight, a second one
  becomes an empty entry. A follower is probed from the leader's last entry down to
  the first index where the terms agree; the entries up to there are taken to be
  equal without being compared (`Common`), the later ones are replaced
  (`Received`). With logs that match, this makes the follower's log the leader's; with
  a torn one it does not. The library refuses to overwrite a committed entry
  (`Consistent`). The configuration entries with which `RawNode::new` bootstraps
  an empty log (term 1, skipped by the engine's `get_term() != 1`) come before
  index 1 of the modelled logs. No code of the engine creates a snapshot or
  compacts, so `ready.snapshot` is always empty.
* *Validator.* A block is valid or not, and all validators agree on which it is
  (`Verdicts` says what a run allows); the engine is told either way. Updates reach the engine in any order. If
  the engine stops, its block under construction is dropped, updates are lost,
  and the commits already asked for are all kept or all lost. Commits are carried out
  in the order in which they were asked for. An engine that
  registers again is told of the blocks outside the validator's chain.
  An administrator changes at most one peer per block.

## Runs

All bounds are constants: `MaxTerm` (terms; the first election makes term 2, so
2 allows one leader and 3 a failover), `MaxBlocks` (blocks ever built),
`MaxStops` (stops, panics not counted); `Timeout` and `MaxDelay` of the ticker,
`Latency` of a heartbeat, `MaxClock` (where the clocks of `Timers` stop counting,
above every time a property allows).
Two peers are enough for everything that happens between an engine, its library
and its validator, and for both roles and all their changes, since with two
peers a quorum is both; the question of majorities is asked of three.
`Symmetry` permutes the peers where `InitPeers` is the set of all of them.

| Run | Bounds | Shows |
|---|---|---|
| `failover` | 2 peers, either of which may be removed, 3 terms, 1 block that may be invalid, 1 stop | `TypeOK`, `RoleAgreement`, `CommitInFlight`, `BuildingAgreement`: role changes and a stop at every point of a block's life. `OnlyValidBlocks`: `BlockInvalid` is only logged, and still no rejected block is decided. `PanicsAreMembershipChanges`: initialising, proposing and changing membership never trip over each other, leadership lost and won between them. `MembershipSinceStart`: until the stop the peers are those the log gives |
| `majority` | 3 peers, 3 terms, no block, 1 stop | `CommittedIsDurable`, `CommittedEntriesAgree`, `RestartIsPossible`: the order of sends and writes protects committed entries, also for a peer that lags behind the majority (the leaders' empty entries are the entries here). Within these bounds no append overwrites more than one entry; `torn_append` has those |
| `restart` | 2 peers, 2 terms, 2 blocks, 1 stop | `CommittingIsFront`, `QueueIsLogSegment`, `RestartIsPossible`, `StorageIsMonotonic`: a crash anywhere, then replay. `OnlyFrontIsInChain`: of the blocks delivered again, at most the first is already in the chain |
| `join` | {n1}, n2 may join with either block, 2 terms, 2 blocks | `MembershipFollowsLog`: the joiner replays the log from the beginning. `BuildingOnInstalledPeers`: true of a leader that stays; a follower that has committed the block and is elected before the change is proposed builds at once, and the change waits for its next commit. `CommitsInOrder` (refinement of `OrderedCommit`) and `NonForking`, with a single peer, with two, and while the second catches up |
| `progress` | 2 peers, 2 terms, 1 block | `Progress`, under `FairSpec` |
| `storage` | 2 log positions, 2 terms, caches of 2, any number of crashes | `TypeOK`, `OpensComplete`, `LogIsReadable`, `CacheIsTransparent`, `ImplementsStorageExt` (refinement of `StorageExt`) |
| `timers` | timeout 3, delay 1, latency 1; heartbeats every 1 or 2 ticks, period 0 or 2; ids of 1 to 3 bytes, 2 of which count | `TypeOK`, `WaitsEndInTime`, `HeartbeatsInTime`, `PublishOnTime`: nothing is late; `KeepsTicking`, under `FairSpec`; `PeersAreReachable`: peers that differ in the bytes that count have Raft ids of their own |

A timeout of 3 leaves room for a call early, in the middle and at the end of a wait,
and so for every order of two early calls; the theorems are about every timeout.

Five runs show a disagreement between the code and what its documentation says;
each checks one property and ends in a counterexample.

* `fork_on_failover` — *"Raft is non-forking"* (`docs/source/introduction.rst`).
  A leader that is elected before the last decided block of its predecessor has
  been delivered to it builds on its old chain head (`node.rs:282`). Raft decides
  both siblings, and a validator that has committed the first is asked to commit
  the second. `join` and `FirstForkFree` show that this needs a failover.
* `stuck_after_failover` — *"it can continue to make progress as long as a
  majority of its nodes are available"*. The same new leader never commits its
  predecessor's block: `commit_block` compares with the block the leader itself
  has proposed (`node.rs:392`), so the front of its queue never moves, and what
  it proposes later waits behind it.
* `restart_after_removal` — *"After you have stopped a node, you can use
  docker-compose start ... to restart the stopped node"*. The peers at a restart
  are those of the chain head; the removal that follows in the log is delivered
  again and `raft_id_to_peer_id.remove(..).unwrap()` panics (`node.rs:478`).
* `torn_append` — *"designed to be crash fault tolerant"* and *"Raft only guarantees
  safety and availability under non-Byzantine conditions"*, of which a crash is one
  (`docs/source/introduction.rst`). `FsStorage::append` overwrites entry files one by
  one (`fs_storage.rs:214`). Of five peers, n2 crashes when it has overwritten two of its
  three entries, and restarts with two entries of term 4 followed by one of term 3. A
  later leader that has the same entry of term 3 after *other* entries takes the log of n2 for its own,
  and the two commit different blocks at index 2. A breadth-first search would
  not get there: `MCTornAppend` fixes the order of campaigns, messages,
  publications and the crash (`Course`) and leaves the rest of each iteration to the
  engines. It is a restriction of `Next` and adds no step to it.
* `early_election` — *"the timeout after which nodes can start new elections if no
  messages have been received from the leader"* (`docs/source/configuring_deploying.rst`).
  `Ticker::tick` subtracts the time since the last callback at every call, so that
  updates make it fire early (`ticker.rs:44`); a follower with updates to handle
  counts its election timeout in shorter ticks than the leader its heartbeats, and
  starts an election although every heartbeat arrives in time. With a ticker that
  waits for the timeout (`Due(e) == e >= Timeout`, `Remaining(e) == Timeout - e`)
  the same run ends without one. `timers` shows the rest of it sound.

A consequence that no run shows: a leader whose block is rejected stays in
`Validating` while it leads, as no handler takes it out of that state;
`progress` therefore has valid blocks only. In the same way a block that a restarted
engine is given again after its validator has committed it waits at the front of the
queue for a `BlockValid` that need not come.

### Fairness

`FairSpec` assumes what the loop and the channel give. The loop always goes on
(`WF` of `Ready` per engine). Updates sit in a queue and are received
(`SF` of the validator's updates), a message that is sent again and again
arrives (`SF` of `OnPeerMessage` per engine), the ticker fires again and again,
so a leader sends heartbeats and, when the validator's block is ready, publishes
(`SF` of `Heartbeat` and of publishing). The validator carries out commits (`WF`).
Strong fairness is needed because an update is received only in phase `recv`,
which the engine keeps leaving. Where a condition is stated for *some* engine
rather than for each, it is the weaker assumption and keeps the liveness check
small. Elections, stops and restarts need not happen: `Progress` and
`QueuesDrain` are conditional on `StableLeader`.

`FairSpec` of `Timers` assumes that time passes and that each loop calls its ticker
again when the wait is over. It does not assume that updates pause.

## Proofs

Everything below is proved for every value of the constants; what is assumed of
them is named in the module that declares them: the peers are a finite set, the
bounds are natural numbers, `InitPeers` and `Memberships` consist of peers
(`Validator`), the timeout, the bytes of a Raft id, the default ticks and the
capacity of the caches are positive, bytes are at most 255, and a peer id is a
sequence of bytes (`PeersAssumption` of `Timers`).

| Property | Theorem | Module |
|---|---|---|
| `TypeOK`, `RoleAgreement`, `CommittingIsFront`, `CommitInFlight`, `BuildingAgreement`, `RestartIsPossible` | `TypeCorrect`, `RolesAgree`, `CommittingFront`, `CommitsArrive`, `BuildingAgrees`, `CrashSafe` | `NodeProofs` |
| `PanicsAreMembershipChanges` | `OnlyMembershipPanics` | `NodeProofs` |
| `QueueIsLogSegment`, `StorageIsMonotonic` | `QueueFollowsLog`, `StorageMonotonic` | `LogProofs` |
| `OnlyValidBlocks` | `OnlyValid` | `LogProofs` |
| `NoPanic`, if the settings never change the peers | `NeverPanics` | `LogProofs` |
| `MembershipFollowsLog`, if no engine is started again | `MembershipFollows` | `LogProofs` |
| `CommittedIsDurable`, `CommittedEntriesAgree`, for a fixed membership of two or more peers, if no crash tears an overwriting append | `CommittedDurable`, `CommittedAgree` | `RaftProofs` |
| `OnlyFrontIsInChain` | `OnlyFront` | `ChainProofs` |
| `CommitsInOrder` (refinement), under the same conditions | `CommitsOrdered` | `ChainProofs` |
| `NonForking`, if every leader begins caught up, the logs match and no crash tears an overwriting append | `ForkFree` | `ChainProofs` |
| `NonForking`, if every leader begins caught up, under the conditions of `CommittedEntriesAgree` | `FixedForkFree` | `ChainProofs` |
| `BuildingOnInstalledPeers`, if every leader begins settled | `BuildsInstalled` | `ChainProofs` |
| `NonForking`, `BuildingOnInstalledPeers`, for one election without a stop | `FirstForkFree`, `FirstBuildsInstalled` | `ChainProofs` |
| `OpensComplete`, `LogIsReadable` | `OpensCompleteAlways`, `LogIsReadableAlways` | `StorageProofs` |
| `ImplementsStorageExt` (refinement) | `FilesImplementStorageExt` | `StorageProofs` |
| `TypeOK`, `CacheIsTransparent` of the storage | `StorageTypes`, `CacheIsTransparentAlways` | `StorageProofs` |
| the ticker's type and waits | `TickerCorrect` | `TickerProofs` |
| `TypeOK`, `WaitsEndInTime`, `HeartbeatsInTime`, `PublishOnTime` of the timers | `TimersTypes`, `WaitsInTime`, `HeartbeatsSent`, `BlocksPublished` | `TimersProofs` |
| `PeersAreReachable` | `PeersReachable`, from `RaftIdsDiffer` | `TimersProofs` |

### An engine, its library and its validator (`NodeProofs`)

All the theorems follow from `Invariance`: `Spec => []IndInv`. None of the
invariants is inductive alone. `IndInv` is `TypeOK` and, for each engine, `NodeOK`:

* `RolesOK`: one role, and it is the library's, *except* between a change of role
  in `handle_update` or `tick` and the `process_ready` of the same iteration; the
  exception is harmless because such a change always leaves messages waiting, so
  `has_ready` is true and `process_ready` cannot be skipped. This is the core of
  the argument.
* `BuildOK`: building in the node if and only if building in the validator.
* `CommitOK`: the block of a Committing state is the front of the queue, and its
  request or its update exists.
* `IndexOK`: queue entries ≤ delivered ≤ ready ≤ stored commit ≤ commit ≤ length
  of the log. It is what makes `set_applied` record a committed index and every
  delivered index one of the log.
* `DurableOK`: the part of `IndexOK` that a stop leaves: applied ≤ commit ≤ length
  of the stored log, and the same for the last message.

A step of one engine changes at most its own part and adds updates to the others'
inboxes; lemma `Frame` says that the others' `NodeOK` survives that, `Compose`
that the step's own `NodeOK` and the types suffice. There is one lemma per
action; `RaftStep` covers the four cases of a message, `TakeRoleLemma` the four
cases of a role change, `LostInv` both kinds of stop. The first part of the module
holds the facts about the library, validator and queue operators they cite.

### Logs, queues and blocks (`LogProofs`)

*Kinds of step.* `NextMoves` reads the next-state relation from the side of the
log: whatever action is taken, one engine works, pops the front of its queue,
saves, delivers an entry, stops or starts, and all the others rest. `LibraryGrows`
says what the library does to a log: the committed prefix stays, the commit index
grows, terms grow and a vote is kept for its term. The arguments that follow use
these two lemmas and no action.

*Queue and storage.* `LogInv` says of an engine that is up: the queue is the
blocks of the log between the applied and the delivered entry, in their order
(`SegmentOK`), the log agrees with the stored one up to the stored commit index
(`AgreeOK`), and the library's term and vote are not behind the stored ones
(`VoteOK`). `AgreeOK` is what carries the segment over a stop: the entries that are
delivered again are those that were delivered before. The front of the queue being
the *next* block after the applied entry (`FrontIsNext`) makes `set_applied` skip
nothing.

*Valid blocks.* `LogSources` says where an entry comes from: it was in the
engine's log or storage, in another's message, or a leader has just proposed it,
and then its validator's `BlockValid` was in the inbox. `ValidatorsMove` says that
the tree of blocks only grows and that the updates a step adds are true. With
`BlocksInv` — the blocks of every log, stored log and message are valid and so are
those a `BlockValid` speaks of — `OnlyValid` follows, together with the queue being a
segment of the log.

*Panics.* `NeverPanics` needs `FixedMembership`, that no block's settings change
the peers; without it the theorem is false, as `restart_after_removal` shows.
`FixedInv`: every block has the same peers, no log contains a change, every engine's
peers are the initial ones, none has panicked. By `OnlyMembershipPanics` a panic
would have to be in a change.

*Membership.* `MembershipFollows` says that the peers an engine knows are the initial
ones with the delivered changes applied. For one peer only the last delivered change
that is about it counts (`About`), so that the invariant (`PeersOK`) speaks of each
peer alone (`IsPeer`) and needs no fold over the log; what is delivered stays in the log
because it is committed. The theorem assumes that no engine is started again: a start takes
the peers of the chain head, and in the middle of a change these are ahead of what is
delivered, which is how `restart_after_removal` ends in a panic.

### What is committed stays committed (`RaftProofs`)

`CommittedDurable` and `CommittedAgree` are the safety of Raft as this engine drives
it. Raft's own argument takes for granted that a peer has written its term, vote and
entries before it answers; here that is the work of `process_ready`, which sends
before it writes when it leads and writes before it sends when it does not, and a
stop may come after any write. The assumption `ManyPeers` is that of `NeverPanics`
and that there are at least two peers. A single peer commits an entry before it
has written it (`CommitAlone`), so that for it `CommittedIsDurable` is false.

The second condition, `WholeOverwrites`, is about the crashes themselves: none comes
inside an append that overwrites entries, between its first entry file and its last index.
A crash between any other two writes is allowed, also inside an append that only extends
the log, which leaves the old log (`InterruptedPrefix`). Nothing in `FsStorage`
makes the condition true; it is the exact part of crash safety that the engine leaves
to luck, and `torn_append` shows the theorems false without it.

*Kinds of change.* `NextChanges` reads a step of the network as a change of what one
engine holds in memory, has stored, and has sent last (`Changes`): a leader appends
(`Leads`), a candidate wins (`IsElected`) or asks (`Asks`), an engine answers a
candidate (`Answers`) or follows a leader (`Follows`), a leader counts
acknowledgements (`Decides`), everything is sent and written (`Finishes`), or a stop
leaves some of it done (`Resets`). The proof uses these kinds and no action.

*The invariant* `RaftInv`, by what it says of the network:

* `LogsOK`: terms grow in a log, and two logs with an entry of the same term agree up
  to the shorter one's. `ElectedOK`: behind every entry there is an election, by a
  majority whose last messages are of that term and vote or of a later term.
* `SavedOK`: what was sent is not ahead of what is stored, nor that of what is in
  memory. `CandidateOK` and `VotesOK`: a vote answers a message that was sent, and is
  justified by every log its voter has had since, in memory, stored and sent; so a
  restart does not leave a vote that is worth less than when it was counted.
* `LeaderOK`: a leader has stored its term and vote, is the only one of its term, and
  whatever entries of its term others have it has *stored*. This is where the order of
  its sends and writes is used: it may have sent an entry it has not written, but
  before it takes an answer it has (`Finishes` is one step up to a stop).
* `LeaderMessageOK`, `FollowerMessageOK`: the last message of a leader tells all that
  is known of its term even if the leader has stopped since; what a follower has
  acknowledged it has stored, unless a later term has replaced it.
* `ChosenOK`: at every commit index, in memory, stored or sent, the entry is `Chosen`:
  stored by a majority and present in every log with an entry of a later term.

*The steps.* `Unprecedented`: the term of a new leader is later than that of any entry
anywhere, because its voters and those of an older election share a peer.
`LogsOKStep` to `FollowerMessageOKStep` carry the first five parts over a change.
`ElectedHas`: a new leader has every chosen entry, as one of its voters stores it and
has voted for a log that is as good. `ChosenStays` follows, `DecidesChosen` shows
that an acknowledged entry is chosen, `MarksStep` that every commit index is an old
one or was decided in this step. TLC has checked the parts of `RaftInv` on the states
of `majority`.

### Chains, and the leaders that extend them (`ChainProofs`)

*A validator and its log.* `OnlyFrontIsInChain` is about a crash between the
validator's commit and `set_applied`. Behind it is `ChainInv`: the head of a chain,
and every commit asked for, is the last block up to the applied entry or the next one
after it (`ChainOK`), the ones asked for in that order. What makes this inductive is
about logs: a block has one index in all of them (`SameSpots`), and its parent is
committed in some storage at a lower one (`RootedIn`). This says nothing about two logs
having the same prefix, so it survives torn appends. For it a block that a leader has published and not yet proposed must be in no log,
be held by no other leader, and have a committed parent (`HeldOK`). `LogStep` says
which logs a step can make, `NextChains` what it can do to a validator,
`NextHeld` which blocks it lets a leader hold. None of it assumes anything of the
membership, of stops or of the moments of crashes.

*The refinement.* `CommitsOrdered`: the engines implement `OrderedCommit`. The decided
sequence is the blocks that the storage with the highest commit index has as committed, a
validator's position is where its head is in it. `DecideStep`: any step only
extends the sequence, because storages agree on what they have as committed
(`RaftProofs`) and commit indices do not go back. `CommitStep`: when a validator
commits, the head moves from the block before the applied entry to the one after it, so
its position grows by one. This holds over failovers, and is no contradiction to
`fork_on_failover`: the chains of blocks fork *along* the one decided sequence, which
then has a block that is not the parent of the next.

*Leaders.* So the question left is when the decided sequence is itself a chain.
`LinkInv`: in every log the parent of a block is the block before it. `LeadInv`: a leader
has after its applied entry no block, or exactly the one it has proposed and waits for.
Every step preserves the latter but one, the beginning of a term: `process_ready` makes
a leader that builds on its head, however many blocks of its log are not committed.
`LeadersCaughtUp` says that no leader begins with such blocks; it is exactly what
`fork_on_failover` violates. The former needs logs that match (`LogsMatch`) and are not
torn, as a log put together from two others need not be a chain where both are. `ForkFree` is that
the three suffice, over any elections, stops and membership changes;
`FixedForkFree` takes `LogsMatch` from `RaftProofs` where the peers do not change. `BuildsInstalled` is the counterpart for the peers:
if every leader begins settled — caught up, no change under way, the peers of its
head — then one that builds has the peers of the block it builds on. Its invariant is
`ConfInv`: a change is under way only in `ChangingConfig`, and it is the one that
leads to the peers of the head (an administrator changes at most one peer per block).
TLC has checked `LeadInv`, `LinkInv` and `ConfInv` over a failover and a stop, with the hypothesis
conjoined to the next-state relation, and that second leaders which meet it do occur.

*The first election.* That the hypotheses can be met, and are in the bounds of `join`,
is `FirstInvariance`: with `OneElection` (`MaxTerm <= 2`,
`MaxStops = 0`; panics and starts after them do happen), an engine that has not heard of
the election has an empty log, an empty chain and the first peers, and the winner
begins its term with its own empty entry only (`FirstInv`). That the logs match is
`FirstLogs`: a vote is written before it is sent and not given twice (`BallotInv`), so
that at most one engine has a majority (`Led`, `LedOnce`), and every log anywhere is a
beginning of that engine's (`OneLog`). `FirstForkFree` and `FirstBuildsInstalled` follow
without further hypotheses, for any number of peers, blocks and changes.

### Timers and Raft ids (`TimersProofs`, `TickerProofs`)

`TickerCorrect`: `Spec => [](TypeOK /\ WaitEndsInTime)`; the two are inductive
together. For the timers the counters are needed: `CountersOK` says that
each tick counted since the last heartbeat stands for at most
`Timeout + MaxDelay`, that the time since the last callback (`Gap`) is the rest, and
that a block which is due has become so within that gap. A call of the ticker ends
the gap or leaves it alone (`LeaderCall`), time makes it longer, but never longer than
`Timeout + MaxDelay`.

`RaftIdsDiffer` is about `peer_id_to_raft_id`: two ids that differ in their last
`IdBytes` bytes have different Raft ids. `Rounds` are the partial sums of the fold,
`Sums` shows by induction that the sum of `i` bytes is below `Shift[i]`, `Digits`
that such a sum determines the byte and the rest. `ConfigOK` then says that what
runs was accepted and that a peer missing from the collected map has a later one
with its last bytes.

### Storage (`StorageProofs`)

`FsInv` says of every moment between two writes which operation is pending and how
far it has come: the writes in `todo` are a suffix of those of `init_raft_state`
(`Fresh`), one single write, the rest of an append (`Appending`) or of a compaction
(`Compacting`); and that the files, once they exist, agree with each other
(`Consistent`), whatever a crash leaves. Each write preserves it, and each write is a
step of `StorageExt` or a stutter (`SingleStep`, `AppendStep`, `CompactStep`,
`InitWriteStep`), which is the refinement.

`CacheInv`: what is cached is what the files hold, and while an operation writes, the
cache is empty, unless all that is written is the applied index, which no cache
holds. This is why `CachedStorage` has to reset *before* the write. The two LRU
operations keep the elements they do not evict (`TouchLemma`, `InsertLemma`), and so
do their folds over a range (`TouchAllLemma`, `InsertAllLemma`).

The library's induction theorems take an operator as a parameter and cannot be
used; `InductionLemmas` states induction for a *set* of numbers, from the
well-foundedness of `<`, and derives that a function given by its first value and a
rule for the next exists (`Recursion`), which is what opens a recursive function
to proof.

### Only model-checked

* Liveness (`Progress`, `QueuesDrain`, `KeepsTicking`): fairness and `ENABLED` are
  beyond the prover.
* `CommitsInOrder` where a peer joins and for a single peer, whose commit index is ahead
  of its storage: `join` has it, the theorem does not. `CommittedIsDurable` and
  `CommittedEntriesAgree` with membership changes are in neither.
* With torn overwrites, `CommittedEntriesAgree` is false (`torn_append`).
  `RestartIsPossible`, `QueueIsLogSegment`, `StorageIsMonotonic`, `OnlyFrontIsInChain`
  and the other theorems without `WholeOverwrites` are proved over them.
* `NonForking` and `BuildingOnInstalledPeers` after a failover hold only under the
  hypotheses of their theorems; the first is false without (`fork_on_failover`).

## Not modelled, and the plan

What is left to prove:

1. The safety of Raft over membership changes, one peer at a time: `ElectedOK` and
   `Chosen` of `RaftProofs` would have to speak of the majorities of successive
   memberships that share a peer.
2. A weaker condition than `LeadersCaughtUp` for the code as it is, or `ForkFree`
   without a condition for a leader that waits until it has caught up.

What is not modelled:

* *A torn write.* One `fs::write` is atomic; in the code it truncates and then
  writes, and a crash between leaves an empty file (`fs_storage.rs:386`).
* *Snapshots in the node.* No code of the engine creates one, so `ready.snapshot` is
  always empty; the storage's operations on snapshots are modelled.
* *Empty ranges* (`cached_storage.rs:151`, see above): nobody asks for one.
* *Two membership changes over a failover.* `failover` has one. A leader that has missed
  a change sees two at its next commit and panics (`node.rs:434`); the model has it, no
  run is about it.
* *`MemStorage`*, whose `StorageExt` the repository implements in `storage.rs`: no
  build of the engine uses it.
* `main.rs` (command line, logger, driver) and `path.rs` (directories from the
  environment) are I/O without state. Reading the latter, note that the documents
  give `/var/lib/sawtooth-raft` as the data directory where the code has
  `/var/lib/sawtooth-raft-engine`.
* Logging and serialisation. In the engines' modules the timers may expire at any
  time; what their lengths mean is the subject of `Timers`.
