----------------------------- MODULE BlockQueue -----------------------------
(***************************************************************************)
(* The block queue of a Sawtooth Raft node (src/src/block_queue.rs): what  *)
(* the validator has said about each block, and the blocks Raft has        *)
(* decided, in log order, that wait for the validator.                     *)
(*                                                                         *)
(* A queue is a record.  validator_backlog is the set of blocks with an    *)
(* entry in the map of that name, valid those whose BlockStatus has        *)
(* block_valid set.  The other field of BlockStatus, `block', is written   *)
(* and never read, so it has no counterpart here.                          *)
(***************************************************************************)
EXTENDS Identifiers, Sequences

\* Elements of commit_queue: a block and the index of its Raft entry.
QueueEntry == [block : BlockId, entry : Nat]

Queue == [validator_backlog : SUBSET BlockId, valid : SUBSET BlockId,
          commit_queue : Seq(QueueEntry)]

NewBlockQueue == [validator_backlog |-> {}, valid |-> {}, commit_queue |-> << >>]

\* An entry that an out-of-order BlockValid has made stays valid.
BlockNew(q, b) == [q EXCEPT !.validator_backlog = @ \cup {b}]

BlockValid(q, b) == [q EXCEPT !.validator_backlog = @ \cup {b}, !.valid = @ \cup {b}]

AddBlockCommit(q, b, i) ==
  [q EXCEPT !.commit_queue = Append(@, [block |-> b, entry |-> i])]

\* block_committed takes the front off; an empty queue would be the panic "No
\* blocks in queue.", which invariant CommittingIsFront excludes.
\* Mutant: the entry of the last block of the queue.
LastEntry(q) == q.commit_queue[Len(q.commit_queue)].entry

\* The entry that block_committed returns.
CommittedEntry(q) == Head(q.commit_queue).entry

BlockCommitted(q) ==
  [validator_backlog |-> q.validator_backlog \ {Head(q.commit_queue).block},
   valid             |-> q.valid \ {Head(q.commit_queue).block},
   commit_queue      |-> Tail(q.commit_queue)]

\* Mutant: a validated block overtakes the front of the queue.
AnyValidBlock(q) ==
  LET blocks == {q.commit_queue[i].block : i \in DOMAIN q.commit_queue} \cap q.valid
  IN  IF blocks # {} THEN CHOOSE b \in blocks : TRUE ELSE NoBlock

\* The block at the front of the queue, when the validator has validated it.
GetNextCommittable(q) ==
  IF q.commit_queue # << >> /\ Head(q.commit_queue).block \in q.valid
  THEN Head(q.commit_queue).block
  ELSE NoBlock
=============================================================================
