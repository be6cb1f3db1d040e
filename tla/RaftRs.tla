------------------------------- MODULE RaftRs -------------------------------
(***************************************************************************)
(* The Raft library under the engine (the crate raft 0.3, external to this *)
(* repository), as far as the engine drives it: RawNode::tick, step,       *)
(* propose, propose_conf_change, ready and advance.                        *)
(*                                                                         *)
(* raft[n] is the library's memory at node n, disk[n] what the engine has  *)
(* written to n's Storage, sent[n] the messages n has last handed to the   *)
(* network.  A message is abstracted to the part of the sender's state it  *)
(* carries, so a receiver reads sent[m] at any time, any number of times,  *)
(* or never: messages are lost, delayed and duplicated.                    *)
(*                                                                         *)
(* The entries with which RawNode::new bootstraps an empty log (one        *)
(* ConfChange of term 1 per peer, committed, skipped by the engine) come   *)
(* before index 1 of the logs below.                                       *)
(***************************************************************************)
EXTENDS Identifiers, SequencesExt

CONSTANT MaxTerm         \* bound on the terms of elections

ASSUME MaxTermAssumption == MaxTerm \in Nat \ {0}

VARIABLES raft, disk, sent

Term  == 1..MaxTerm
Role  == {"Follower", "Candidate", "Leader"}

\* An entry with neither a block nor a node is the empty entry of a leader.
Entry ==
  [term : Term, type : {"Normal"}, block : BlockId \cup {NoBlock}, node : {NoNode}]
    \cup [term : Term, type : {"AddNode", "RemoveNode"}, block : {NoBlock}, node : Node]

EmptyEntry(t)      == [term |-> t, type |-> "Normal", block |-> NoBlock, node |-> NoNode]
BlockEntry(t, b)   == [term |-> t, type |-> "Normal", block |-> b, node |-> NoNode]
ConfEntry(t, c, x) == [term |-> t, type |-> c, block |-> NoBlock, node |-> x]

IsBlock(e) == e.block # NoBlock
IsConf(e)  == e.type # "Normal"

\* delivered: last entry handed to the engine; ready: last committed entry of
\* the Ready the engine is working on; msgs: whether messages wait to be sent.
Raft == [role : Role, term : Term, vote : Node \cup {NoNode}, log : Seq(Entry),
         commit : Nat, delivered : Nat, ready : Nat, msgs : {"none", "waiting"}]

\* The Storage: the log, the HardState (term, vote, commit) and the index the
\* engine records with set_applied.
Disk == [term : Term, vote : Node \cup {NoNode}, log : Seq(Entry),
         commit : Nat, applied : Nat]

Message == [role : Role, term : Term, vote : Node \cup {NoNode}, log : Seq(Entry),
            commit : Nat, to : SUBSET Node]

\* An empty Storage, to which the bootstrap gives its first term.
NewDisk == [term |-> 1, vote |-> NoNode, log |-> << >>, commit |-> 0, applied |-> 0]

\* Mutant: entries already committed are not delivered again.
NewRaftAtCommit(d) ==
  [role |-> "Follower", term |-> d.term, vote |-> d.vote, log |-> d.log,
   commit |-> d.commit, delivered |-> d.commit, ready |-> d.commit, msgs |-> "none"]

\* Mutant: Config::applied is left at its default.
NewRaftFromStart(d) ==
  [role |-> "Follower", term |-> d.term, vote |-> d.vote, log |-> d.log,
   commit |-> d.commit, delivered |-> 0, ready |-> 0, msgs |-> "none"]

\* RawNode::new: the library reads the Storage; Config::applied is the index
\* the engine stored.
NewRaft(d) ==
  [role |-> "Follower", term |-> d.term, vote |-> d.vote, log |-> d.log,
   commit |-> d.commit, delivered |-> d.applied, ready |-> d.applied, msgs |-> "none"]

NewMessage == [role |-> "Follower", term |-> 1, vote |-> NoNode, log |-> << >>,
               commit |-> 0, to |-> {}]

-----------------------------------------------------------------------------
LastTerm(log) == IF log = << >> THEN 1 ELSE log[Len(log)].term

UpToDate(l, log) == \/ LastTerm(l) > LastTerm(log)
                    \/ LastTerm(l) = LastTerm(log) /\ Len(l) >= Len(log)

Quorum(S, voters) == 2 * Cardinality(S \cap voters) > Cardinality(voters)

Higher(i, j) == IF i > j THEN i ELSE j

\* A sole voter needs nobody's acknowledgement.
CommitAlone(n, r, voters) ==
  IF voters = {n} THEN [r EXCEPT !.commit = Len(r.log)] ELSE r

AppendAsLeader(n, r, e, voters) ==
  CommitAlone(n, [r EXCEPT !.log = Append(@, e), !.msgs = "waiting"], voters)

BecomeLeader(n, r, voters) ==
  AppendAsLeader(n, [r EXCEPT !.role = "Leader"], EmptyEntry(r.term), voters)

\* The election timeout of tick; a sole voter wins at once.
Campaign(n, r, voters) ==
  LET c == [r EXCEPT !.role = "Candidate", !.term = @ + 1, !.vote = n, !.msgs = "waiting"]
  IN  IF voters = {n} THEN BecomeLeader(n, c, voters) ELSE c

Propose(n, r, b, voters) == AppendAsLeader(n, r, BlockEntry(r.term, b), voters)

\* Only one membership change may be in the log and not yet applied: a second
\* one is replaced by an empty entry.
ConfPending(r) == \E i \in (r.delivered + 1)..Len(r.log) : IsConf(r.log[i])

ProposeConfChange(n, r, c, x, voters) ==
  AppendAsLeader(n, r, IF ConfPending(r) THEN EmptyEntry(r.term)
                                         ELSE ConfEntry(r.term, c, x), voters)

-----------------------------------------------------------------------------
(***************************************************************************)
(* step: node n, in state r, receives message s of node m.  A message of   *)
(* an older term is ignored.                                               *)
(***************************************************************************)
AtTerm(r, t) ==
  IF t > r.term THEN [r EXCEPT !.role = "Follower", !.term = t, !.vote = NoNode] ELSE r

HandleRequestVote(r, s, m) ==
  LET r1 == AtTerm(r, s.term)
  IN  [r1 EXCEPT !.vote = IF @ = NoNode /\ UpToDate(s.log, r1.log) THEN m ELSE @,
                 !.msgs = "waiting"]

\* Logs k and l have the same term at index i or later.  A leader probes a follower
\* from its last entry down to the first index where the terms agree, and takes
\* it that all entries before that index agree too (Raft's Log Matching).
Common(k, l, i) == \E j \in DOMAIN l : i <= j /\ j \in DOMAIN k /\ k[j].term = l[j].term

\* A follower with log k has all that the leader sends from its log l.
UpToLast(k, l) == l = << >> \/ Common(k, l, Len(l))

\* The log of a follower after the leader's entries have replaced the suffix that
\* conflicts with them.
Received(k, l) ==
  IF UpToLast(k, l) THEN k
  ELSE [i \in 1..Len(l) |-> IF Common(k, l, i) THEN k[i] ELSE l[i]]

\* The library refuses to touch a committed entry.
Consistent(r, s) == UpToLast(r.log, s.log) \/ r.commit = 0 \/ Common(r.log, s.log, r.commit)

\* MsgAppend and MsgHeartbeat.
HandleAppend(r, s) ==
  [AtTerm(r, s.term) EXCEPT
     !.role   = "Follower",
     !.log    = Received(@, s.log),
     !.commit = Higher(@, s.commit),
     !.msgs   = "waiting"]

Replies(n, r) == {m \in Node \ {n} : /\ sent[m].role = "Follower"
                                     /\ sent[m].term = r.term
                                     /\ n \in sent[m].to}

Votes(n, r) == {n} \cup {m \in Replies(n, r) : sent[m].vote = n}

Acks(n, r, i) == {n} \cup {m \in Replies(n, r) : /\ i <= Len(sent[m].log)
                                                 /\ sent[m].log[i] = r.log[i]}

\* Entries of the leader's own term that a quorum has acknowledged.
Acknowledged(n, r, voters) ==
  {i \in (r.commit + 1)..Len(r.log) : /\ r.log[i].term = r.term
                                      /\ Quorum(Acks(n, r, i), voters)}

-----------------------------------------------------------------------------
\* What Storage::append and set_hardstate have to write before a Ready is done.
Unsaved(n) == \/ raft[n].log # disk[n].log
              \/ <<raft[n].term, raft[n].vote, raft[n].commit>>
                   # <<disk[n].term, disk[n].vote, disk[n].commit>>

HasReady(n) == \/ raft[n].msgs = "waiting"
               \/ raft[n].delivered < raft[n].commit
               \/ Unsaved(n)

AppendEntries(d, r) == [d EXCEPT !.log = r.log]

\* append writes the entry files one after the other and the last index in the
\* end: when a crash interrupts it at index j, the new entries up to j are
\* followed by those of the old log.
InterruptedAppend(d, r, j) ==
  [d EXCEPT !.log = [i \in 1..Len(d.log) |->
                       IF i <= j /\ i <= Len(r.log) THEN r.log[i] ELSE d.log[i]]]

SetHardState(d, r)  == [d EXCEPT !.term = r.term, !.vote = r.vote, !.commit = r.commit]

\* Mutant: the index of the next entry is recorded.
SetAppliedNext(d, i) == [d EXCEPT !.applied = i + 1]

SetApplied(d, i) == [d EXCEPT !.applied = i]

\* The messages of a Ready, addressed to the peers the engine knows.
Outgoing(n, peers) ==
  [role |-> raft[n].role, term |-> raft[n].term, vote |-> raft[n].vote,
   log |-> raft[n].log, commit |-> raft[n].commit, to |-> peers \ {n}]
=============================================================================
