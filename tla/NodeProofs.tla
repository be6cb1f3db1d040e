----------------------------- MODULE NodeProofs -----------------------------
(***************************************************************************)
(* The invariants of the engines, for any number of peers, blocks, terms,  *)
(* stops and membership changes.  The first lemmas say what the operators  *)
(* of RaftRs, Validator and BlockQueue return.                             *)
(***************************************************************************)
EXTENDS NodeProperties, TLAPS


-----------------------------------------------------------------------------
(* The Raft library. *)

\* The entries that propose and propose_conf_change append are entries.
LEMMA EntryTypes ==
  ASSUME NEW t \in Term
  PROVE  /\ EmptyEntry(t) \in Entry
         /\ \A b \in BlockId : BlockEntry(t, b) \in Entry
         /\ \A c \in {"AddNode", "RemoveNode"}, x \in Node : ConfEntry(t, c, x) \in Entry
  BY DEF Entry, EmptyEntry, BlockEntry, ConfEntry

\* A sole voter's commit index is the end of its log; otherwise nothing changes.
LEMMA CommitAloneLemma ==
  ASSUME NEW n, NEW r \in Raft, NEW voters, r.commit <= Len(r.log)
  PROVE  LET q == CommitAlone(n, r, voters)
         IN  /\ q \in Raft
             /\ q.log = r.log /\ q.role = r.role /\ q.msgs = r.msgs
             /\ q.delivered = r.delivered /\ q.ready = r.ready
             /\ r.commit <= q.commit /\ q.commit <= Len(q.log)
<1>1. Len(r.log) \in Nat /\ r.commit \in Nat
  BY DEF Raft
<1>2. CASE voters = {n}
  BY <1>1, <1>2 DEF CommitAlone, Raft
<1>3. CASE voters # {n}
  BY <1>1, <1>3 DEF CommitAlone
<1> QED  BY <1>2, <1>3

\* A leader's append lengthens its log and leaves messages to be sent.
LEMMA AppendAsLeaderLemma ==
  ASSUME NEW n, NEW r \in Raft, NEW e \in Entry, NEW voters, r.commit <= Len(r.log)
  PROVE  LET q == AppendAsLeader(n, r, e, voters)
         IN  /\ q \in Raft
             /\ q.role = r.role /\ q.msgs = "waiting"
             /\ q.delivered = r.delivered /\ q.ready = r.ready
             /\ r.commit <= q.commit /\ q.commit <= Len(q.log)
<1> DEFINE q == [r EXCEPT !.log = Append(@, e), !.msgs = "waiting"]
<1>1. /\ Append(r.log, e) \in Seq(Entry)
      /\ Len(Append(r.log, e)) = Len(r.log) + 1
      /\ Len(r.log) \in Nat
      /\ r.commit \in Nat
  BY DEF Raft
<1>2. q \in Raft
  BY <1>1 DEF Raft
<1>3. /\ q.role = r.role /\ q.msgs = "waiting" /\ q.log = Append(r.log, e)
      /\ q.delivered = r.delivered /\ q.ready = r.ready /\ q.commit = r.commit
  BY DEF Raft
<1>4. q.commit <= Len(q.log)
  BY <1>1, <1>3
<1>5. AppendAsLeader(n, r, e, voters) = CommitAlone(n, q, voters)
  BY DEF AppendAsLeader
<1> HIDE DEF q
<1> QED
  BY <1>2, <1>3, <1>4, <1>5, CommitAloneLemma

\* Winning an election appends the leader's empty entry.
LEMMA BecomeLeaderLemma ==
  ASSUME NEW n, NEW r \in Raft, NEW voters, r.commit <= Len(r.log)
  PROVE  LET q == BecomeLeader(n, r, voters)
         IN  /\ q \in Raft
             /\ q.role = "Leader" /\ q.msgs = "waiting"
             /\ q.delivered = r.delivered /\ q.ready = r.ready
             /\ r.commit <= q.commit /\ q.commit <= Len(q.log)
<1> DEFINE q == [r EXCEPT !.role = "Leader"]
<1>1. q \in Raft /\ EmptyEntry(r.term) \in Entry
  BY EntryTypes DEF Raft, Role
<1>2. /\ q.role = "Leader" /\ q.log = r.log
      /\ q.delivered = r.delivered /\ q.ready = r.ready /\ q.commit = r.commit
  BY DEF Raft
<1>3. BecomeLeader(n, r, voters) = AppendAsLeader(n, q, EmptyEntry(r.term), voters)
  BY DEF BecomeLeader
<1> HIDE DEF q
<1>4. q.commit <= Len(q.log)
  BY <1>2
<1> QED
  BY <1>1, <1>2, <1>3, <1>4, AppendAsLeaderLemma

\* A campaign stays within the bound on terms and leaves messages to be sent.
LEMMA CampaignLemma ==
  ASSUME NEW n \in Node, NEW r \in Raft, NEW voters, r.commit <= Len(r.log),
         r.term < MaxTerm
  PROVE  LET q == Campaign(n, r, voters)
         IN  /\ q \in Raft
             /\ q.msgs = "waiting"
             /\ q.delivered = r.delivered /\ q.ready = r.ready
             /\ r.commit <= q.commit /\ q.commit <= Len(q.log)
<1> DEFINE q == [r EXCEPT !.role = "Candidate", !.term = @ + 1, !.vote = n, !.msgs = "waiting"]
<1>1. r.term + 1 \in Term /\ r.commit \in Nat
  BY MaxTermAssumption DEF Raft, Term
<1>2. q \in Raft
  BY <1>1 DEF Raft, Role
<1>3. /\ q.msgs = "waiting" /\ q.log = r.log
      /\ q.delivered = r.delivered /\ q.ready = r.ready /\ q.commit = r.commit
  BY DEF Raft
<1> HIDE DEF q
<1>4. Campaign(n, r, voters) = IF voters = {n} THEN BecomeLeader(n, q, voters) ELSE q
  BY DEF Campaign, q
<1>5. q.commit <= Len(q.log)
  BY <1>3
<1>6. CASE voters = {n}
  BY <1>2, <1>3, <1>4, <1>5, <1>6, BecomeLeaderLemma
<1>7. CASE voters # {n}
  BY <1>1, <1>2, <1>3, <1>4, <1>5, <1>7
<1> QED
  BY <1>6, <1>7

\* Answering a vote request changes neither the log nor the indices, and leaves
\* the answer to be sent.
LEMMA HandleRequestVoteLemma ==
  ASSUME NEW r \in Raft, NEW s \in Message, NEW m \in Node
  PROVE  LET q == HandleRequestVote(r, s, m)
         IN  /\ q \in Raft
             /\ q.msgs = "waiting" /\ q.log = r.log /\ q.commit = r.commit
             /\ q.delivered = r.delivered /\ q.ready = r.ready
<1> DEFINE p == AtTerm(r, s.term)
<1>1. p \in Raft
  BY DEF AtTerm, Raft, Message, Role
<1>2. /\ p.log = r.log /\ p.commit = r.commit
      /\ p.delivered = r.delivered /\ p.ready = r.ready
  BY DEF AtTerm, Raft
<1> HIDE DEF p
<1>3. (IF p.vote = NoNode /\ UpToDate(s.log, p.log) THEN m ELSE p.vote) \in Node \cup {NoNode}
  BY <1>1 DEF Raft
<1>4. HandleRequestVote(r, s, m) =
        [p EXCEPT !.vote = IF @ = NoNode /\ UpToDate(s.log, p.log) THEN m ELSE @,
                  !.msgs = "waiting"]
  BY DEF HandleRequestVote, p
<1> QED
  BY <1>1, <1>2, <1>3, <1>4 DEF Raft

\* Common reaches down: where two logs agree, all lower indices are before it.
LEMMA CommonLemma ==
  ASSUME NEW k \in Seq(Entry), NEW l \in Seq(Entry), NEW i \in Nat, Common(k, l, i)
  PROVE  /\ i <= Len(k) /\ i <= Len(l)
         /\ \A h \in 1..i : Common(k, l, h) /\ h \in DOMAIN k /\ h \in DOMAIN l
<1>1. PICK j \in DOMAIN l : i <= j /\ j \in DOMAIN k /\ k[j].term = l[j].term
  BY DEF Common
<1>2. /\ Len(k) \in Nat /\ Len(l) \in Nat /\ DOMAIN k = 1..Len(k) /\ DOMAIN l = 1..Len(l)
  OBVIOUS
<1>3. i <= Len(k) /\ i <= Len(l)
  BY <1>1, <1>2
<1>4. ASSUME NEW h \in 1..i PROVE Common(k, l, h) /\ h \in DOMAIN k /\ h \in DOMAIN l
  <2>1. h <= j
    BY <1>1, <1>2
  <2> QED  BY <1>1, <1>2, <1>3, <2>1 DEF Common
<1> QED  BY <1>3, <1>4

\* A follower that has the leader's last entry keeps its log; another one gets a log
\* as long as the leader's, made of entries of the two.
LEMMA ReceivedLemma ==
  ASSUME NEW k \in Seq(Entry), NEW l \in Seq(Entry)
  PROVE  LET q == Received(k, l)
         IN  /\ q \in Seq(Entry)
             /\ UpToLast(k, l) => q = k /\ Len(l) <= Len(k)
             /\ ~UpToLast(k, l) => Len(q) = Len(l)
             /\ ~UpToLast(k, l) =>
                  \A i \in 1..Len(l) : /\ Common(k, l, i) => i \in DOMAIN k /\ q[i] = k[i]
                                       /\ ~Common(k, l, i) => q[i] = l[i]
<1> DEFINE w == [i \in 1..Len(l) |-> IF Common(k, l, i) THEN k[i] ELSE l[i]]
<1>1. /\ Len(k) \in Nat /\ Len(l) \in Nat /\ DOMAIN k = 1..Len(k) /\ DOMAIN l = 1..Len(l)
  OBVIOUS
<1>2. ASSUME UpToLast(k, l) PROVE Received(k, l) = k /\ Len(l) <= Len(k)
  <2>1. CASE l = << >>
    BY <1>1, <1>2, <2>1 DEF Received
  <2>2. CASE Common(k, l, Len(l))
    BY <1>1, <1>2, <2>2, CommonLemma DEF Received
  <2> QED  BY <1>2, <2>1, <2>2 DEF UpToLast
<1>3. ASSUME NEW i \in 1..Len(l), Common(k, l, i) PROVE i \in DOMAIN k
  <2>1. i \in Nat /\ i \in 1..i
    BY <1>1
  <2> QED  BY <1>3, <2>1, CommonLemma
<1>4. ASSUME NEW i \in 1..Len(l) PROVE (IF Common(k, l, i) THEN k[i] ELSE l[i]) \in Entry
  BY <1>1, <1>3
<1>5. w \in Seq(Entry) /\ Len(w) = Len(l)
  <2>1. w \in [1..Len(l) -> Entry]
    BY <1>4
  <2> HIDE DEF w
  <2> QED  BY <1>1, <2>1
<1>6. ~UpToLast(k, l) => Received(k, l) = w
  BY DEF Received
<1>7. \A i \in 1..Len(l) : /\ Common(k, l, i) => w[i] = k[i]
                           /\ ~Common(k, l, i) => w[i] = l[i]
  OBVIOUS
<1> HIDE DEF w
<1> QED  BY <1>2, <1>3, <1>5, <1>6, <1>7

\* Each entry is the follower's own or the leader's.
LEMMA ReceivedSources ==
  ASSUME NEW k \in Seq(Entry), NEW l \in Seq(Entry), NEW i \in DOMAIN Received(k, l)
  PROVE  \/ i \in DOMAIN k /\ Received(k, l)[i] = k[i]
         \/ i \in DOMAIN l /\ Received(k, l)[i] = l[i]
<1> DEFINE q == Received(k, l)
<1>1. q \in Seq(Entry) /\ Len(l) \in Nat /\ DOMAIN l = 1..Len(l)
  BY ReceivedLemma
<1>2. CASE UpToLast(k, l)
  <2>1. q = k
    BY <1>2, ReceivedLemma
  <2> QED  BY <2>1
<1>3. CASE ~UpToLast(k, l)
  <2>1. /\ Len(q) = Len(l)
        /\ \A h \in 1..Len(l) : /\ Common(k, l, h) => h \in DOMAIN k /\ q[h] = k[h]
                                /\ ~Common(k, l, h) => q[h] = l[h]
    BY <1>3, ReceivedLemma
  <2>2. DOMAIN q = 1..Len(q)
    BY <1>1
  <2>3. i \in DOMAIN q
    OBVIOUS
  <2> HIDE DEF q
  <2>4. i \in 1..Len(l) /\ i \in DOMAIN l
    BY <1>1, <2>1, <2>2, <2>3
  <2>5. (i \in DOMAIN k /\ q[i] = k[i]) \/ (i \in DOMAIN l /\ q[i] = l[i])
    BY <2>1, <2>4
  <2> QED  BY <2>5 DEF q
<1> QED  BY <1>2, <1>3

\* The committed entries of a follower stay.
LEMMA ReceivedKeeps ==
  ASSUME NEW r \in Raft, NEW s \in Message, Consistent(r, s), r.commit <= Len(r.log)
  PROVE  LET q == Received(r.log, s.log)
         IN  /\ r.commit <= Len(q)
             /\ \A i \in 1..r.commit : q[i] = r.log[i]
<1> DEFINE q == Received(r.log, s.log)
<1>1. /\ r.log \in Seq(Entry) /\ s.log \in Seq(Entry) /\ r.commit \in Nat
      /\ Len(r.log) \in Nat /\ Len(s.log) \in Nat
  BY DEF Raft, Message
<1>2. CASE UpToLast(r.log, s.log)
  BY <1>1, <1>2, ReceivedLemma
<1>3. CASE ~UpToLast(r.log, s.log) /\ Common(r.log, s.log, r.commit)
  <2>1. r.commit <= Len(s.log)
    BY <1>1, <1>3, CommonLemma
  <2>2. \A i \in 1..r.commit : Common(r.log, s.log, i) /\ i \in 1..Len(s.log)
    BY <1>1, <1>3, <2>1, CommonLemma
  <2> QED  BY <1>1, <1>3, <2>1, <2>2, ReceivedLemma
<1>4. CASE ~UpToLast(r.log, s.log) /\ r.commit = 0
  <2>1. Len(q) = Len(s.log)
    BY <1>1, <1>4, ReceivedLemma
  <2>2. 1..r.commit = {}
    BY <1>4
  <2> QED  BY <1>1, <1>4, <2>1, <2>2
<1> QED  BY <1>2, <1>3, <1>4 DEF Consistent

\* Taking a leader's entries keeps the commit index within the log and never
\* lowers it.
LEMMA HandleAppendLemma ==
  ASSUME NEW r \in Raft, NEW s \in Message, Consistent(r, s),
         r.commit <= Len(r.log), s.commit <= Len(s.log)
  PROVE  LET q == HandleAppend(r, s)
         IN  /\ q \in Raft
             /\ q.msgs = "waiting" /\ q.role = "Follower"
             /\ q.delivered = r.delivered /\ q.ready = r.ready
             /\ r.commit <= q.commit /\ q.commit <= Len(q.log)
<1> DEFINE p == AtTerm(r, s.term)
           log == Received(r.log, s.log)
           commit == Higher(r.commit, s.commit)
<1>1. p \in Raft
  BY DEF AtTerm, Raft, Message, Role
<1>2. /\ p.log = r.log /\ p.commit = r.commit
      /\ p.delivered = r.delivered /\ p.ready = r.ready
  BY DEF AtTerm, Raft
<1>3. /\ r.commit \in Nat /\ s.commit \in Nat
      /\ r.log \in Seq(Entry) /\ s.log \in Seq(Entry)
      /\ Len(r.log) \in Nat /\ Len(s.log) \in Nat
  BY DEF Raft, Message
<1>4. log \in Seq(Entry) /\ Len(s.log) <= Len(log) /\ Len(log) \in Nat
  <2>1. log \in Seq(Entry)
    BY <1>3, ReceivedLemma
  <2>2. Len(s.log) <= Len(log)
    BY <1>3, ReceivedLemma
  <2> QED  BY <2>1, <2>2
<1>5. r.commit <= Len(log)
  BY ReceivedKeeps
<1>6. HandleAppend(r, s) = [p EXCEPT !.role = "Follower", !.log = log,
                                     !.commit = commit, !.msgs = "waiting"]
  BY <1>2 DEF HandleAppend
<1> HIDE DEF p, log
<1>7. commit \in Nat /\ r.commit <= commit /\ commit <= Len(log)
  BY <1>3, <1>4, <1>5 DEF Higher
<1> HIDE DEF commit
<1> QED
  BY <1>1, <1>2, <1>4, <1>6, <1>7 DEF Raft, Role

\* A library that starts from a storage starts within the storage's indices.
LEMMA NewRaftLemma ==
  ASSUME NEW d \in Disk
  PROVE  LET q == NewRaft(d)
         IN  /\ q \in Raft
             /\ q.role = "Follower" /\ q.log = d.log /\ q.commit = d.commit
             /\ q.delivered = d.applied /\ q.ready = d.applied
  BY DEF NewRaft, Disk, Raft, Role

\* The three writes of the storage, and an append that is interrupted.
LEMMA StorageLemma ==
  ASSUME NEW d \in Disk, NEW r \in Raft, NEW i \in Nat
  PROVE  /\ AppendEntries(d, r) \in Disk
         /\ SetHardState(d, r) \in Disk
         /\ SetApplied(d, i) \in Disk
  BY DEF AppendEntries, SetHardState, SetApplied, Disk, Raft

LEMMA InterruptedLemma ==
  ASSUME NEW d \in Disk, NEW r \in Raft, NEW j \in Nat
  PROVE  LET q == InterruptedAppend(d, r, j)
         IN  /\ q \in Disk
             /\ q.term = d.term /\ q.vote = d.vote
             /\ q.commit = d.commit /\ q.applied = d.applied
             /\ Len(q.log) = Len(d.log)
             /\ \A i \in 1..Len(d.log) : \/ q.log[i] = d.log[i]
                                         \/ i \in DOMAIN r.log /\ q.log[i] = r.log[i]
<1> DEFINE w == [i \in 1..Len(d.log) |->
                   IF i <= j /\ i <= Len(r.log) THEN r.log[i] ELSE d.log[i]]
<1>1. /\ d.log \in Seq(Entry) /\ r.log \in Seq(Entry)
      /\ Len(d.log) \in Nat /\ Len(r.log) \in Nat
      /\ DOMAIN d.log = 1..Len(d.log) /\ DOMAIN r.log = 1..Len(r.log)
  BY DEF Disk, Raft
<1>2. InterruptedAppend(d, r, j) = [d EXCEPT !.log = w]
  BY DEF InterruptedAppend
<1>3. ASSUME NEW i \in 1..Len(d.log)
      PROVE  (IF i <= j /\ i <= Len(r.log) THEN r.log[i] ELSE d.log[i]) \in Entry
  BY <1>1
<1>4. w \in Seq(Entry) /\ Len(w) = Len(d.log)
  <2>1. w \in [1..Len(d.log) -> Entry]
    BY <1>3
  <2> HIDE DEF w
  <2> QED  BY <1>1, <2>1
<1>5. \A i \in 1..Len(d.log) : w[i] = d.log[i] \/ (i \in DOMAIN r.log /\ w[i] = r.log[i])
  BY <1>1
<1> HIDE DEF w
<1> QED  BY <1>2, <1>4, <1>5 DEF Disk

-----------------------------------------------------------------------------
(* The validator. *)

\* What a validator may say of a block is one of its updates.
LEMMA VerdictLemma ==
  ASSUME NEW b \in BlockId, NEW valid
  PROVE  Verdict(b, valid) \in Update
BY DEF Verdict, Valid, Invalid, Update

\* The elements of a sequence that grows at its end and shrinks at its front.
LEMMA RangeLemma ==
  ASSUME NEW S, NEW s \in Seq(S)
  PROVE  /\ \A e \in S : Range(Append(s, e)) = Range(s) \cup {e}
         /\ s # << >> => /\ Head(s) = s[1] /\ Head(s) \in S /\ Tail(s) \in Seq(S)
                         /\ Range(s) = Range(Tail(s)) \cup {Head(s)}
<1>1. ASSUME NEW e \in S PROVE Range(Append(s, e)) = Range(s) \cup {e}
  <2>1. /\ DOMAIN Append(s, e) = 1..(Len(s) + 1) /\ DOMAIN s = 1..Len(s) /\ Len(s) \in Nat
        /\ Append(s, e)[Len(s) + 1] = e
        /\ \A i \in DOMAIN s : Append(s, e)[i] = s[i]
    OBVIOUS
  <2> QED  BY <2>1 DEF Range
<1>2. ASSUME s # << >> PROVE Range(s) = Range(Tail(s)) \cup {Head(s)}
  <2>1. /\ DOMAIN Tail(s) = 1..(Len(s) - 1) /\ DOMAIN s = 1..Len(s) /\ Len(s) \in Nat \ {0}
        /\ Head(s) = s[1]
        /\ \A i \in DOMAIN Tail(s) : Tail(s)[i] = s[i + 1]
    BY <1>2
  <2>2. ASSUME NEW i \in DOMAIN s, i # 1 PROVE i - 1 \in DOMAIN Tail(s) /\ Tail(s)[i - 1] = s[i]
    BY <2>1, <2>2
  <2>3. \A i \in DOMAIN Tail(s) : i + 1 \in DOMAIN s
    BY <2>1
  <2> QED  BY <2>1, <2>2, <2>3 DEF Range
<1> QED  BY <1>1, <1>2

\* The calls of the Service trait and the validator's own steps.
LEMMA ValidatorLemma ==
  ASSUME NEW v \in ValidatorState, NEW b \in BlockId, NEW u, NEW running
  PROVE  /\ Receive(v, u) \in ValidatorState
         /\ InitializeBlock(v) \in ValidatorState
         /\ CancelBlock(v) \in ValidatorState
         /\ CheckBlocks(v, b) \in ValidatorState
         /\ CommitBlock(v, b) \in ValidatorState
         /\ v.requests # << >> => Committed(v, b, running) \in ValidatorState
         /\ \A kept \in Seq(BlockId) : Disconnected(v, kept) \in ValidatorState
<1>1. {Commit(b), Verdict(b, tree[b].valid)} \subseteq Update
  BY VerdictLemma DEF Commit, Update
<1>2. /\ v.head \in Chain \cup {NoBlock} /\ b \in Chain
      /\ v.requests \in Seq(BlockId)
  BY DEF ValidatorState, Chain
<1>3. Receive(v, u) \in ValidatorState
  BY DEF Receive, ValidatorState
<1>4. InitializeBlock(v) \in ValidatorState
  BY <1>2 DEF InitializeBlock, ValidatorState
<1>5. CancelBlock(v) \in ValidatorState
  BY DEF CancelBlock, ValidatorState
<1>6. CheckBlocks(v, b) \in ValidatorState
  BY <1>1 DEF CheckBlocks, ValidatorState
<1>7. CommitBlock(v, b) \in ValidatorState
  <2>1. Append(v.requests, b) \in Seq(BlockId)
    BY <1>2
  <2> QED  BY <2>1 DEF CommitBlock, ValidatorState
<1>8. ASSUME v.requests # << >> PROVE Committed(v, b, running) \in ValidatorState
  <2>1. Tail(v.requests) \in Seq(BlockId)
    BY <1>2, <1>8, RangeLemma
  <2> QED  BY <1>1, <1>2, <2>1 DEF Committed, ValidatorState
<1>9. \A kept \in Seq(BlockId) : Disconnected(v, kept) \in ValidatorState
  BY DEF Disconnected, ValidatorState
<1> QED  BY <1>3, <1>4, <1>5, <1>6, <1>7, <1>8, <1>9

\* An engine that registers again hears of blocks of the tree.
LEMMA ReconnectedLemma ==
  ASSUME NEW v \in ValidatorState, DOMAIN tree \subseteq BlockId
  PROVE  Reconnected(v) \in ValidatorState
<1>1. UNION {{New(b), Verdict(b, tree[b].valid)} : b \in DOMAIN tree \ Ancestors(v.head)}
        \subseteq Update
  BY VerdictLemma DEF New, Update
<1> QED  BY <1>1 DEF Reconnected, ValidatorState

\* The peers setting of any block is a set of peers.
LEMMA SettingsLemma ==
  ASSUME tree \in Seq(BlockRecord), NEW b
  PROVE  Settings(b) \subseteq Node
<1>1. CASE b \in DOMAIN tree
  <2>1. tree[b] \in BlockRecord
    BY <1>1
  <2> QED  BY <1>1, <2>1 DEF Settings, BlockRecord
<1>2. CASE b \notin DOMAIN tree
  BY <1>2, PeersAssumption DEF Settings
<1> QED  BY <1>1, <1>2

-----------------------------------------------------------------------------
(* The block queue. *)

\* The updates of the validator change what is known of a block, not the queue.
LEMMA BacklogLemma ==
  ASSUME NEW q \in Queue, NEW b \in BlockId
  PROVE  /\ BlockNew(q, b) \in Queue
         /\ BlockNew(q, b).commit_queue = q.commit_queue
         /\ BlockValid(q, b) \in Queue
         /\ BlockValid(q, b).commit_queue = q.commit_queue
  BY DEF BlockNew, BlockValid, Queue

\* A new queue is empty.
LEMMA NewBlockQueueLemma == NewBlockQueue \in Queue /\ NewBlockQueue.commit_queue = << >>
  BY DEF NewBlockQueue, Queue

\* add_block_commit leaves the front of a queue in place.
LEMMA AddBlockCommitLemma ==
  ASSUME NEW q \in Queue, NEW b \in BlockId, NEW i \in Nat
  PROVE  LET p == AddBlockCommit(q, b, i)
         IN  /\ p \in Queue
             /\ p.commit_queue = Append(q.commit_queue, [block |-> b, entry |-> i])
             /\ q.commit_queue # << >> =>
                  p.commit_queue # << >> /\ Head(p.commit_queue) = Head(q.commit_queue)
<1>1. [block |-> b, entry |-> i] \in QueueEntry
  BY DEF QueueEntry
<1>2. q.commit_queue \in Seq(QueueEntry)
  BY DEF Queue
<1>3. AddBlockCommit(q, b, i) \in Queue
  BY SMTT(20), <1>1, <1>2 DEF AddBlockCommit, Queue
<1>4. AddBlockCommit(q, b, i).commit_queue
        = Append(q.commit_queue, [block |-> b, entry |-> i])
  BY DEF AddBlockCommit, Queue
<1> QED  BY <1>1, <1>2, <1>3, <1>4

\* block_committed takes the front off a queue that is not empty.
LEMMA BlockCommittedLemma ==
  ASSUME NEW q \in Queue, q.commit_queue # << >>
  PROVE  /\ BlockCommitted(q) \in Queue
         /\ BlockCommitted(q).commit_queue = Tail(q.commit_queue)
         /\ CommittedEntry(q) \in Nat
         /\ CommittedEntry(q) = q.commit_queue[1].entry
<1>1. q.commit_queue \in Seq(QueueEntry)
  BY DEF Queue
<1>2. /\ Tail(q.commit_queue) \in Seq(QueueEntry)
      /\ Head(q.commit_queue) = q.commit_queue[1]
      /\ q.commit_queue[1] \in QueueEntry
  BY <1>1
<1>3. BlockCommitted(q) \in Queue
  BY <1>2 DEF BlockCommitted, Queue
<1> QED
  BY <1>2, <1>3 DEF BlockCommitted, CommittedEntry, QueueEntry

\* get_next_committable answers with the front of the queue or with nothing.
LEMMA GetNextCommittableLemma ==
  ASSUME NEW q \in Queue
  PROVE  LET b == GetNextCommittable(q)
         IN  \/ b = NoBlock
             \/ /\ b \in BlockId
                /\ q.commit_queue # << >>
                /\ Head(q.commit_queue).block = b
<1>1. q.valid \subseteq BlockId
  BY DEF Queue
<1> QED  BY <1>1 DEF GetNextCommittable

-----------------------------------------------------------------------------
(* One engine's step and the others *)


\* What a step of one node leaves alone at another node m: everything but the
\* updates on their way to m's engine.
Untouched(m) ==
  /\ raft'[m] = raft[m] /\ disk'[m] = disk[m] /\ sent'[m] = sent[m]
  /\ leader_state'[m] = leader_state[m] /\ follower_state'[m] = follower_state[m]
  /\ block_queue'[m] = block_queue[m] /\ phase'[m] = phase[m]
  /\ validator'[m].building = validator[m].building
  /\ validator'[m].requests = validator[m].requests
  /\ validator[m].inbox \subseteq validator'[m].inbox

\* The invariant of a node survives the steps of the others.
LEMMA Frame ==
  ASSUME NEW m, NodeOK(m), Untouched(m)
  PROVE  NodeOK(m)'
<1>1. DurableOK(m)'
  BY DEF NodeOK, DurableOK, Untouched
<1>2. ASSUME Up(m)' PROVE RolesOK(m)' /\ BuildOK(m)' /\ CommitOK(m)' /\ IndexOK(m)'
  <2>1. Up(m)
    BY <1>2 DEF Up, Untouched
  <2>2. RolesOK(m)'
    BY <2>1 DEF NodeOK, RolesOK, Untouched
  <2>3. BuildOK(m)'
    BY <2>1 DEF NodeOK, BuildOK, Untouched
  <2>4. CommitOK(m)'
    BY <2>1 DEF NodeOK, CommitOK, CommittingBlock, Untouched
  <2>5. IndexOK(m)'
    BY <2>1 DEF NodeOK, IndexOK, Untouched
  <2> QED  BY <2>2, <2>3, <2>4, <2>5
<1> QED  BY <1>1, <1>2 DEF NodeOK

\* A step of node n preserves the invariant if it keeps the types and the
\* invariant of n itself.
LEMMA Compose ==
  ASSUME IndInv, NEW n \in Node, TypeOK', NodeOK(n)',
         \A m \in Node \ {n} : Untouched(m)
  PROVE  IndInv'
<1>1. ASSUME NEW m \in Node \ {n} PROVE NodeOK(m)'
  BY Frame DEF IndInv
<1> QED  BY <1>1 DEF IndInv

-----------------------------------------------------------------------------
(* handle_update *)

\* on_block_new
LEMMA OnBlockNewInv ==
  ASSUME IndInv, NEW n \in Node, NEW b \in BlockId, OnBlockNew(n, b)
  PROVE  IndInv'
<1> USE DEF OnBlockNew, Goto
<1> DEFINE v == Receive(validator[n], New(b))
           w == CheckBlocks(v, b)
           q == BlockNew(block_queue[n], b)
<1>1. /\ TypeOK /\ NodeOK(n) /\ Up(n)
      /\ block_queue[n] \in Queue /\ validator[n] \in ValidatorState
  BY DEF IndInv, TypeOK, Up, Running
<1>2. /\ w \in ValidatorState /\ w.building = validator[n].building
      /\ w.requests = validator[n].requests
      /\ \A c \in BlockId : Commit(c) \in validator[n].inbox => Commit(c) \in w.inbox
  <2>1. v \in ValidatorState /\ w \in ValidatorState
    BY <1>1, ValidatorLemma
  <2> QED
    BY <2>1, <1>1 DEF Receive, CheckBlocks, New, Commit, ValidatorState
<1>3. q \in Queue /\ q.commit_queue = block_queue[n].commit_queue
  BY <1>1, BacklogLemma
<1> HIDE DEF v, w, q
<1>4. /\ validator' = [validator EXCEPT ![n] = w]
      /\ block_queue' = [block_queue EXCEPT ![n] = q]
  BY DEF v, w, q
<1>5. TypeOK'
  BY <1>1, <1>2, <1>3, <1>4
     DEF TypeOK, LeaderState, Holding, Validating, Phase, Running
<1>6. NodeOK(n)'
  <2>1. /\ validator'[n] = w /\ block_queue'[n] = q /\ phase'[n] = "handled"
        /\ leader_state'[n] \in {leader_state[n], Validating(b)}
        /\ leader_state'[n] = Validating(b) => leader_state[n] \in {Publishing(b), Validating(b)}
        /\ raft'[n] = raft[n] /\ disk'[n] = disk[n] /\ sent'[n] = sent[n]
        /\ follower_state'[n] = follower_state[n]
    BY <1>1, <1>4 DEF TypeOK
  <2>2. DurableOK(n)' /\ IndexOK(n)'
    BY <1>1, <1>3, <2>1 DEF NodeOK, DurableOK, IndexOK
  <2>3. RolesOK(n)'
    BY <1>1, <2>1 DEF NodeOK, RolesOK, Up, None, Publishing, Validating
  <2>4. BuildOK(n)'
    BY <1>1, <1>2, <2>1 DEF NodeOK, BuildOK, Building, Publishing, Validating
  <2>5. CommitOK(n)'
    BY <1>1, <1>2, <1>3, <2>1
       DEF NodeOK, CommitOK, CommittingBlock, Committing, Publishing, Validating
  <2> QED  BY <2>2, <2>3, <2>4, <2>5 DEF NodeOK
<1>7. ASSUME NEW m \in Node \ {n} PROVE Untouched(m)
  BY <1>1, <1>4 DEF Untouched, TypeOK
<1> QED  BY <1>5, <1>6, <1>7, Compose

\* on_block_valid: the leader's proposal keeps the library's indices in order.
LEMMA OnBlockValidInv ==
  ASSUME IndInv, NEW n \in Node, NEW b \in BlockId, OnBlockValid(n, b)
  PROVE  IndInv'
<1> USE DEF OnBlockValid, Goto
<1> DEFINE v == Receive(validator[n], Valid(b))
           q == BlockValid(block_queue[n], b)
           r == Propose(n, raft[n], b, raft_id_to_peer_id[n])
           awaited == leader_state[n] \in {Publishing(b), Validating(b)}
<1>1. /\ TypeOK /\ NodeOK(n) /\ Up(n) /\ raft[n] \in Raft
      /\ block_queue[n] \in Queue /\ validator[n] \in ValidatorState
      /\ raft[n].commit <= Len(raft[n].log)
  BY DEF IndInv, TypeOK, Up, Running, NodeOK, IndexOK
<1>2. /\ v \in ValidatorState /\ v.building = validator[n].building
      /\ v.requests = validator[n].requests
      /\ \A c \in BlockId : Commit(c) \in validator[n].inbox => Commit(c) \in v.inbox
  <2>1. v \in ValidatorState
    BY <1>1, ValidatorLemma
  <2> QED
    BY <2>1, <1>1 DEF Receive, Valid, Commit, ValidatorState
<1>3. q \in Queue /\ q.commit_queue = block_queue[n].commit_queue
  BY <1>1, BacklogLemma
<1>4. /\ r \in Raft /\ r.role = raft[n].role /\ r.msgs = "waiting"
      /\ r.delivered = raft[n].delivered /\ r.ready = raft[n].ready
      /\ raft[n].commit <= r.commit /\ r.commit <= Len(r.log)
  <2>1. BlockEntry(raft[n].term, b) \in Entry
    BY <1>1, EntryTypes DEF Raft
  <2> QED
    BY <1>1, <2>1, AppendAsLeaderLemma DEF Propose
<1> HIDE DEF v, q, r
<1>5. /\ validator' = [validator EXCEPT ![n] = v]
      /\ block_queue' = [block_queue EXCEPT ![n] = q]
      /\ raft' = IF awaited THEN [raft EXCEPT ![n] = r] ELSE raft
      /\ leader_state' = IF awaited THEN [leader_state EXCEPT ![n] = Proposing(b)]
                                    ELSE leader_state
  BY DEF v, q, r
<1>6. TypeOK'
  <2>1. Proposing(b) \in LeaderState
    BY DEF Proposing, LeaderState, Holding
  <2> QED
    BY <1>1, <1>2, <1>3, <1>4, <1>5, <2>1 DEF TypeOK, Phase, Running
<1>7. NodeOK(n)'
  <2>1. /\ validator'[n] = v /\ block_queue'[n] = q
        /\ raft'[n] = IF awaited THEN r ELSE raft[n]
        /\ leader_state'[n] = IF awaited THEN Proposing(b) ELSE leader_state[n]
        /\ disk'[n] = disk[n] /\ sent'[n] = sent[n]
        /\ follower_state'[n] = follower_state[n]
        /\ phase'[n] \in {"handled", "panicked"}
    BY <1>1, <1>5 DEF TypeOK
  <2>2. DurableOK(n)'
    BY <1>1, <2>1 DEF NodeOK, DurableOK
  <2>3. IndexOK(n)'
    <3>1. raft[n].commit \in Nat /\ r.commit \in Nat /\ disk[n].commit \in Nat
      BY <1>1, <1>4 DEF TypeOK, Raft, Disk
    <3> QED
      BY <1>1, <1>3, <1>4, <2>1, <3>1 DEF NodeOK, IndexOK
  <2>4. RolesOK(n)'
    BY <1>1, <1>4, <2>1
       DEF NodeOK, RolesOK, Up, None, Publishing, Validating, Proposing
  <2>5. BuildOK(n)'
    BY <1>1, <1>2, <2>1 DEF NodeOK, BuildOK, Building, Publishing, Validating, Proposing
  <2>6. CommitOK(n)'
    BY <1>1, <1>2, <1>3, <2>1
       DEF NodeOK, CommitOK, CommittingBlock, Committing, Publishing, Validating, Proposing
  <2> QED  BY <2>2, <2>3, <2>4, <2>5, <2>6 DEF NodeOK
<1>8. ASSUME NEW m \in Node \ {n} PROVE Untouched(m)
  BY <1>1, <1>5 DEF Untouched, TypeOK
<1> QED  BY <1>6, <1>7, <1>8, Compose

\* What LeaderOnBlockCommit and FollowerOnBlockCommit share: the front of the
\* queue is the block in question, and its entry is committed in the storage.
LEMMA PopCommittedLemma ==
  ASSUME IndInv, NEW n \in Node, NEW b \in BlockId, CommittingBlock(n, b),
         PopCommitted(n, b)
  PROVE  /\ TypeOK /\ NodeOK(n) /\ Up(n)
         /\ block_queue'[n] \in Queue /\ block_queue' \in [Node -> Queue]
         /\ disk'[n] \in Disk /\ disk' \in [Node -> Disk]
         /\ disk'[n].commit = disk[n].commit /\ disk'[n].log = disk[n].log
         /\ disk'[n].applied <= disk[n].commit
         /\ \A k \in DOMAIN block_queue'[n].commit_queue :
              block_queue'[n].commit_queue[k].entry <= raft[n].delivered
         /\ \A m \in Node \ {n} : block_queue'[m] = block_queue[m] /\ disk'[m] = disk[m]
<1> DEFINE q == block_queue[n]
           d == SetApplied(disk[n], CommittedEntry(q))
<1>1. /\ TypeOK /\ NodeOK(n) /\ Up(n) /\ raft[n] \in Raft /\ disk[n] \in Disk
      /\ block_queue[n] \in Queue /\ CommitOK(n) /\ IndexOK(n)
  BY DEF IndInv, TypeOK, Up, Running, NodeOK, PopCommitted
<1>2. q.commit_queue # << >>
  BY <1>1 DEF CommitOK
<1>3. /\ BlockCommitted(q) \in Queue
      /\ BlockCommitted(q).commit_queue = Tail(q.commit_queue)
      /\ CommittedEntry(q) \in Nat
      /\ CommittedEntry(q) = q.commit_queue[1].entry
  BY <1>1, <1>2, BlockCommittedLemma
<1>4. q.commit_queue \in Seq(QueueEntry)
  BY <1>1 DEF Queue
<1>5. /\ d \in Disk /\ d.commit = disk[n].commit /\ d.log = disk[n].log
      /\ d.applied = CommittedEntry(q)
  BY <1>1, <1>3 DEF SetApplied, Disk
<1>6. CommittedEntry(q) <= disk[n].commit
  <2>1. 1 \in DOMAIN q.commit_queue
    BY <1>2, <1>4
  <2> QED
    BY <1>1, <1>3, <2>1 DEF IndexOK, Raft, Disk
<1>7. \A k \in DOMAIN Tail(q.commit_queue) :
        Tail(q.commit_queue)[k].entry <= raft[n].delivered
  <2>1. ASSUME NEW k \in DOMAIN Tail(q.commit_queue)
        PROVE  /\ k + 1 \in DOMAIN q.commit_queue
               /\ Tail(q.commit_queue)[k] = q.commit_queue[k + 1]
    BY <1>2, <1>4
  <2> QED  BY <1>1, <2>1 DEF IndexOK
<1> HIDE DEF d
<1>8. /\ block_queue' = [block_queue EXCEPT ![n] = BlockCommitted(q)]
      /\ disk' = [disk EXCEPT ![n] = d]
  BY DEF PopCommitted, d
<1>9. /\ block_queue'[n] = BlockCommitted(q) /\ disk'[n] = d
      /\ \A m \in Node \ {n} : block_queue'[m] = block_queue[m] /\ disk'[m] = disk[m]
      /\ block_queue' \in [Node -> Queue] /\ disk' \in [Node -> Disk]
  BY <1>1, <1>3, <1>5, <1>8 DEF TypeOK
<1> QED
  BY <1>1, <1>3, <1>5, <1>6, <1>7, <1>9

\* A block under construction has a parent.
LEMMA InitializeBlockLemma ==
  ASSUME NEW v \in ValidatorState
  PROVE  /\ InitializeBlock(v) \in ValidatorState
         /\ InitializeBlock(v).building # NoBlock
         /\ InitializeBlock(v).requests = v.requests
         /\ InitializeBlock(v).inbox = v.inbox
<1>1. v.head \in Chain
  BY DEF ValidatorState
<1>2. v.head # NoBlock
  BY <1>1, MaxBlocksAssumption DEF Chain, BlockId, Genesis, NoBlock
<1> QED  BY <1>1, <1>2 DEF InitializeBlock, ValidatorState

\* on_block_commit at a leader
LEMMA LeaderOnBlockCommitInv ==
  ASSUME IndInv, NEW n \in Node, NEW b \in BlockId, LeaderOnBlockCommit(n, b)
  PROVE  IndInv'
<1> DEFINE diff == Difference(n, b)
           v == Receive(validator[n], Commit(b))
           w == InitializeBlock(v)
           x == CHOOSE y \in diff : TRUE
           r == ProposeConfChange(n, raft[n], Change(n, b), x, raft_id_to_peer_id[n])
<1>1. /\ CommittingBlock(n, b) /\ PopCommitted(n, b) /\ phase[n] = "recv"
      /\ leader_state[n] = Committing(b)
      /\ UNCHANGED <<sent, tree, follower_state, raft_id_to_peer_id, stops>>
  BY DEF LeaderOnBlockCommit, CommittingBlock, PopCommitted
<1>2. /\ TypeOK /\ NodeOK(n) /\ Up(n)
      /\ block_queue'[n] \in Queue /\ block_queue' \in [Node -> Queue]
      /\ disk'[n] \in Disk /\ disk' \in [Node -> Disk]
      /\ disk'[n].commit = disk[n].commit /\ disk'[n].log = disk[n].log
      /\ disk'[n].applied <= disk[n].commit
      /\ \A k \in DOMAIN block_queue'[n].commit_queue :
           block_queue'[n].commit_queue[k].entry <= raft[n].delivered
      /\ \A m \in Node \ {n} : block_queue'[m] = block_queue[m] /\ disk'[m] = disk[m]
  BY <1>1, PopCommittedLemma
<1>3. /\ raft[n] \in Raft /\ validator[n] \in ValidatorState
      /\ RolesOK(n) /\ BuildOK(n) /\ IndexOK(n) /\ DurableOK(n)
      /\ raft[n].commit <= Len(raft[n].log)
  BY <1>2 DEF TypeOK, NodeOK, IndexOK
<1>4. /\ follower_state[n] = None /\ raft[n].role = "Leader"
      /\ validator[n].building = NoBlock
  BY <1>1, <1>3 DEF RolesOK, BuildOK, None, Building, Committing
<1>5. v \in ValidatorState /\ v.building = NoBlock
  <2>1. v \in ValidatorState
    BY <1>3, ValidatorLemma
  <2> QED  BY <1>3, <1>4, <2>1 DEF Receive, ValidatorState
<1>6. w \in ValidatorState /\ w.building # NoBlock
  BY <1>5, InitializeBlockLemma
<1>7. CASE diff = {}
  <2> HIDE DEF diff, v, w
  <2>1. /\ leader_state' = [leader_state EXCEPT ![n] = Building]
        /\ validator' = [validator EXCEPT ![n] = w]
        /\ phase' = [phase EXCEPT ![n] = "handled"]
        /\ raft' = raft
    BY <1>4, <1>7 DEF LeaderOnBlockCommit, Goto, diff, v, w
  <2>2. TypeOK'
    BY <1>1, <1>2, <1>6, <2>1 DEF TypeOK, LeaderState, Building, Phase, Running
  <2>3. /\ leader_state'[n] = Building /\ validator'[n] = w /\ phase'[n] = "handled"
        /\ raft'[n] = raft[n] /\ follower_state'[n] = None /\ sent'[n] = sent[n]
    BY <1>1, <1>2, <1>4, <2>1 DEF TypeOK
  <2>4. NodeOK(n)'
    <3>1. DurableOK(n)'
      BY <1>2, <1>3, <2>3 DEF DurableOK
    <3>2. RolesOK(n)' /\ BuildOK(n)' /\ CommitOK(n)'
      BY <1>3, <1>4, <1>6, <2>3
         DEF RolesOK, BuildOK, CommitOK, CommittingBlock, None, Building, Committing
    <3>3. IndexOK(n)'
      BY <1>2, <1>3, <2>3 DEF IndexOK
    <3> QED  BY <3>1, <3>2, <3>3 DEF NodeOK
  <2>5. ASSUME NEW m \in Node \ {n} PROVE Untouched(m)
    BY <1>1, <1>2, <2>1 DEF Untouched, TypeOK
  <2> QED  BY <2>2, <2>4, <2>5, Compose
<1>8. CASE diff # {}
  <2>1. x \in Node
    <3>1. diff \subseteq Node
      BY <1>2, SettingsLemma DEF Difference, TypeOK
    <3> QED  BY <1>8, <3>1
  <2>2. /\ r \in Raft /\ r.role = raft[n].role
        /\ r.delivered = raft[n].delivered /\ r.ready = raft[n].ready
        /\ raft[n].commit <= r.commit /\ r.commit <= Len(r.log)
    <3>1. /\ EmptyEntry(raft[n].term) \in Entry
          /\ ConfEntry(raft[n].term, Change(n, b), x) \in Entry
      BY <1>3, <2>1, EntryTypes DEF Raft, Change
    <3> QED
      BY <1>3, <3>1, AppendAsLeaderLemma DEF ProposeConfChange
  <2> HIDE DEF diff, v, w, x, r
  <2>3. /\ leader_state' = [leader_state EXCEPT ![n] = ChangingConfig]
        /\ validator' = [validator EXCEPT ![n] = v]
        /\ phase' = [phase EXCEPT ![n] = IF Cardinality(diff) > 1 THEN "panicked"
                                                                  ELSE "handled"]
        /\ raft' = [raft EXCEPT ![n] = r]
    BY <1>4, <1>8 DEF LeaderOnBlockCommit, Goto, diff, v, x, r
  <2>4. TypeOK'
    BY <1>1, <1>2, <1>5, <2>2, <2>3 DEF TypeOK, LeaderState, ChangingConfig, Phase, Running
  <2>5. /\ leader_state'[n] = ChangingConfig /\ validator'[n] = v /\ raft'[n] = r
        /\ follower_state'[n] = None /\ sent'[n] = sent[n]
    BY <1>1, <1>2, <1>4, <2>3 DEF TypeOK
  <2>6. NodeOK(n)'
    <3>1. DurableOK(n)'
      BY <1>2, <1>3, <2>5 DEF DurableOK
    <3>2. RolesOK(n)' /\ BuildOK(n)' /\ CommitOK(n)'
      BY <1>3, <1>4, <1>5, <2>2, <2>5
         DEF RolesOK, BuildOK, CommitOK, CommittingBlock, None, Building,
             ChangingConfig, Committing
    <3>3. IndexOK(n)'
      <4>1. raft[n].commit \in Nat /\ r.commit \in Nat /\ disk[n].commit \in Nat
        BY <1>2, <1>3, <2>2 DEF TypeOK, Raft, Disk
      <4> QED  BY <1>2, <1>3, <2>2, <2>5, <4>1 DEF IndexOK
    <3> QED  BY <3>1, <3>2, <3>3 DEF NodeOK
  <2>7. ASSUME NEW m \in Node \ {n} PROVE Untouched(m)
    BY <1>1, <1>2, <2>3 DEF Untouched, TypeOK
  <2> QED  BY <2>4, <2>6, <2>7, Compose
<1> QED  BY <1>7, <1>8

\* on_block_commit at a follower
LEMMA FollowerOnBlockCommitInv ==
  ASSUME IndInv, NEW n \in Node, NEW b \in BlockId, FollowerOnBlockCommit(n, b)
  PROVE  IndInv'
<1> DEFINE v == Receive(validator[n], Commit(b))
<1>1. /\ CommittingBlock(n, b) /\ PopCommitted(n, b) /\ phase[n] = "recv"
      /\ follower_state[n] = Committing(b)
  BY DEF FollowerOnBlockCommit, CommittingBlock, PopCommitted
<1>2. /\ TypeOK /\ NodeOK(n) /\ Up(n)
      /\ block_queue'[n] \in Queue /\ block_queue' \in [Node -> Queue]
      /\ disk'[n] \in Disk /\ disk' \in [Node -> Disk]
      /\ disk'[n].commit = disk[n].commit /\ disk'[n].log = disk[n].log
      /\ disk'[n].applied <= disk[n].commit
      /\ \A k \in DOMAIN block_queue'[n].commit_queue :
           block_queue'[n].commit_queue[k].entry <= raft[n].delivered
      /\ \A m \in Node \ {n} : block_queue'[m] = block_queue[m] /\ disk'[m] = disk[m]
  BY <1>1, PopCommittedLemma
<1>3. /\ raft[n] \in Raft /\ validator[n] \in ValidatorState
      /\ RolesOK(n) /\ BuildOK(n) /\ IndexOK(n) /\ DurableOK(n)
  BY <1>2 DEF TypeOK, NodeOK
<1>4. leader_state[n] = None /\ validator[n].building = NoBlock
  BY <1>1, <1>3 DEF RolesOK, BuildOK, None, Building, Committing
<1>5. v \in ValidatorState /\ v.building = NoBlock
  <2>1. v \in ValidatorState
    BY <1>3, ValidatorLemma
  <2> QED  BY <1>3, <1>4, <2>1 DEF Receive, ValidatorState
<1> HIDE DEF v
<1>6. /\ follower_state' = [follower_state EXCEPT ![n] = Idle]
      /\ validator' = [validator EXCEPT ![n] = v]
      /\ phase' = [phase EXCEPT ![n] = "handled"]
      /\ UNCHANGED <<raft, sent, tree, leader_state, raft_id_to_peer_id, stops>>
  BY DEF FollowerOnBlockCommit, Goto, v
<1>7. TypeOK'
  BY <1>2, <1>5, <1>6 DEF TypeOK, FollowerState, Idle, Phase, Running
<1>8. /\ follower_state'[n] = Idle /\ validator'[n] = v /\ phase'[n] = "handled"
      /\ raft'[n] = raft[n] /\ leader_state'[n] = None /\ sent'[n] = sent[n]
  BY <1>2, <1>4, <1>6 DEF TypeOK
<1>9. NodeOK(n)'
  <2>1. DurableOK(n)'
    BY <1>2, <1>3, <1>8 DEF DurableOK
  <2>2. RolesOK(n)' /\ BuildOK(n)' /\ CommitOK(n)'
    BY <1>1, <1>3, <1>4, <1>5, <1>8
       DEF RolesOK, BuildOK, CommitOK, CommittingBlock, None, Idle, Building, Committing
  <2>3. IndexOK(n)'
    BY <1>2, <1>3, <1>8 DEF IndexOK
  <2> QED  BY <2>1, <2>2, <2>3 DEF NodeOK
<1>10. ASSUME NEW m \in Node \ {n} PROVE Untouched(m)
  BY <1>2, <1>6 DEF Untouched, TypeOK
<1> QED  BY <1>7, <1>9, <1>10, Compose

\* on_block_commit for a commit that is none of the engine's business
LEMMA IgnoreBlockCommitInv ==
  ASSUME IndInv, NEW n \in Node, NEW b \in BlockId, IgnoreBlockCommit(n, b)
  PROVE  IndInv'
<1> USE DEF IgnoreBlockCommit, Goto
<1> DEFINE v == Receive(validator[n], Commit(b))
<1>1. /\ TypeOK /\ NodeOK(n) /\ Up(n) /\ validator[n] \in ValidatorState
  BY DEF IndInv, TypeOK, Up, Running
<1>2. /\ v \in ValidatorState /\ v.building = validator[n].building
      /\ v.requests = validator[n].requests
      /\ \A c \in BlockId \ {b} : Commit(c) \in validator[n].inbox => Commit(c) \in v.inbox
  <2>1. v \in ValidatorState
    BY <1>1, ValidatorLemma
  <2> QED
    BY <2>1, <1>1 DEF Receive, Commit, ValidatorState
<1> HIDE DEF v
<1>3. validator' = [validator EXCEPT ![n] = v]
  BY DEF v
<1>4. TypeOK'
  BY <1>1, <1>2, <1>3 DEF TypeOK, Phase, Running
<1>5. NodeOK(n)'
  <2>1. /\ validator'[n] = v /\ phase'[n] = "handled"
        /\ ~CommittingBlock(n, b)
    BY <1>1, <1>3 DEF TypeOK, CommittingBlock
  <2>2. DurableOK(n)' /\ IndexOK(n)' /\ RolesOK(n)' /\ BuildOK(n)'
    BY <1>1, <1>2, <2>1 DEF NodeOK, DurableOK, IndexOK, RolesOK, BuildOK
  <2>3. CommitOK(n)'
    BY <1>1, <1>2, <2>1 DEF NodeOK, CommitOK, CommittingBlock
  <2> QED  BY <2>2, <2>3 DEF NodeOK
<1>6. ASSUME NEW m \in Node \ {n} PROVE Untouched(m)
  BY <1>1, <1>3 DEF Untouched, TypeOK
<1> QED  BY <1>4, <1>5, <1>6, Compose

\* A BlockInvalid, which handle_update only logs
LEMMA OnBlockInvalidInv ==
  ASSUME IndInv, NEW n \in Node, NEW b \in BlockId, OnBlockInvalid(n, b)
  PROVE  IndInv'
<1> USE DEF OnBlockInvalid, Goto
<1> DEFINE v == Receive(validator[n], Invalid(b))
<1>1. /\ TypeOK /\ NodeOK(n) /\ Up(n) /\ validator[n] \in ValidatorState
  BY DEF IndInv, TypeOK, Up, Running
<1>2. /\ v \in ValidatorState /\ v.building = validator[n].building
      /\ v.requests = validator[n].requests
      /\ \A c \in BlockId : Commit(c) \in validator[n].inbox => Commit(c) \in v.inbox
  <2>1. v \in ValidatorState
    BY <1>1, ValidatorLemma
  <2> QED
    BY <2>1, <1>1 DEF Receive, Commit, Invalid, ValidatorState
<1> HIDE DEF v
<1>3. validator' = [validator EXCEPT ![n] = v]
  BY DEF v
<1>4. TypeOK'
  BY <1>1, <1>2, <1>3 DEF TypeOK, Phase, Running
<1>5. NodeOK(n)'
  <2>1. /\ validator'[n] = v /\ phase'[n] = "handled"
    BY <1>1, <1>3 DEF TypeOK
  <2>2. DurableOK(n)' /\ IndexOK(n)' /\ RolesOK(n)' /\ BuildOK(n)'
    BY <1>1, <1>2, <2>1 DEF NodeOK, DurableOK, IndexOK, RolesOK, BuildOK
  <2>3. CommitOK(n)'
    BY <1>1, <1>2, <2>1 DEF NodeOK, CommitOK, CommittingBlock
  <2> QED  BY <2>2, <2>3 DEF NodeOK
<1>6. ASSUME NEW m \in Node \ {n} PROVE Untouched(m)
  BY <1>1, <1>3 DEF Untouched, TypeOK
<1> QED  BY <1>4, <1>5, <1>6, Compose

\* A step that changes the library's memory of n alone, keeping its indices in
\* order, and leaves messages that make process_ready look at the role.
LEMMA RaftStep ==
  ASSUME IndInv, NEW n \in Node, NEW r \in Raft, Up(n),
         raft' = [raft EXCEPT ![n] = r],
         r.msgs = "waiting", r.delivered = raft[n].delivered, r.ready = raft[n].ready,
         raft[n].commit <= r.commit, r.commit <= Len(r.log),
         NEW p \in {"handled", "ticked"}, phase' = [phase EXCEPT ![n] = p],
         UNCHANGED <<disk, sent, validator, tree, leader_state, follower_state,
                     block_queue, raft_id_to_peer_id, stops>>
  PROVE  IndInv'
<1>1. /\ TypeOK /\ NodeOK(n) /\ Up(n) /\ raft[n] \in Raft /\ disk[n] \in Disk
  BY DEF IndInv, TypeOK
<1>2. TypeOK'
  BY <1>1 DEF TypeOK, Phase, Running
<1>3. raft'[n] = r /\ phase'[n] = p
  BY <1>1 DEF TypeOK
<1>4. NodeOK(n)'
  <2>1. DurableOK(n)' /\ BuildOK(n)' /\ CommitOK(n)'
    BY <1>1 DEF NodeOK, DurableOK, BuildOK, CommitOK, CommittingBlock
  <2>2. RolesOK(n)'
    BY <1>1, <1>3 DEF NodeOK, RolesOK
  <2>3. IndexOK(n)'
    <3>1. raft[n].commit \in Nat /\ r.commit \in Nat /\ disk[n].commit \in Nat
      BY <1>1 DEF Raft, Disk
    <3> QED  BY <1>1, <1>3, <3>1 DEF NodeOK, IndexOK
  <2> QED  BY <2>1, <2>2, <2>3 DEF NodeOK
<1>5. ASSUME NEW m \in Node \ {n} PROVE Untouched(m)
  BY <1>1 DEF Untouched, TypeOK
<1> QED  BY <1>2, <1>4, <1>5, Compose

\* on_peer_message
LEMMA StepMessageInv ==
  ASSUME IndInv, NEW n \in Node, NEW m \in Node, StepMessage(n, m)
  PROVE  IndInv'
<1> DEFINE rq == HandleRequestVote(raft[n], sent[m], m)
           ra == HandleAppend(raft[n], sent[m])
           rl == BecomeLeader(n, raft[n], raft_id_to_peer_id[n])
<1>1. /\ TypeOK /\ NodeOK(n) /\ Up(n) /\ raft[n] \in Raft /\ sent[m] \in Message
      /\ raft[n].commit <= Len(raft[n].log) /\ sent[m].commit <= Len(sent[m].log)
      /\ raft[n].commit \in Nat
  BY DEF IndInv, TypeOK, Up, Running, NodeOK, IndexOK, DurableOK, StepMessage, Raft
<1>2. /\ phase' = [phase EXCEPT ![n] = "handled"]
      /\ UNCHANGED <<disk, sent, validator, tree, leader_state, follower_state,
                     block_queue, raft_id_to_peer_id, stops>>
  BY DEF StepMessage, Goto
<1>3. CASE raft' = [raft EXCEPT ![n] = rq]
  <2>1. /\ rq \in Raft /\ rq.msgs = "waiting" /\ rq.log = raft[n].log
        /\ rq.commit = raft[n].commit
        /\ rq.delivered = raft[n].delivered /\ rq.ready = raft[n].ready
    BY <1>1, HandleRequestVoteLemma
  <2> HIDE DEF rq
  <2>2. raft[n].commit <= rq.commit /\ rq.commit <= Len(rq.log)
    BY <1>1, <2>1
  <2> QED  BY <1>1, <1>2, <1>3, <2>1, <2>2, RaftStep
<1>4. CASE Consistent(raft[n], sent[m]) /\ raft' = [raft EXCEPT ![n] = ra]
  <2>1. /\ ra \in Raft /\ ra.msgs = "waiting"
        /\ ra.delivered = raft[n].delivered /\ ra.ready = raft[n].ready
        /\ raft[n].commit <= ra.commit /\ ra.commit <= Len(ra.log)
    BY <1>1, <1>4, HandleAppendLemma
  <2> HIDE DEF ra
  <2> QED  BY <1>1, <1>2, <1>4, <2>1, RaftStep
<1>5. CASE raft' = [raft EXCEPT ![n] = rl]
  <2>1. /\ rl \in Raft /\ rl.msgs = "waiting"
        /\ rl.delivered = raft[n].delivered /\ rl.ready = raft[n].ready
        /\ raft[n].commit <= rl.commit /\ rl.commit <= Len(rl.log)
    BY <1>1, BecomeLeaderLemma
  <2> HIDE DEF rl
  <2> QED  BY <1>1, <1>2, <1>5, <2>1, RaftStep
<1>6. CASE \E i \in Acknowledged(n, raft[n], raft_id_to_peer_id[n]) :
             raft' = [raft EXCEPT ![n] = [raft[n] EXCEPT !.commit = i, !.msgs = "waiting"]]
  <2>1. PICK i \in Acknowledged(n, raft[n], raft_id_to_peer_id[n]) :
               raft' = [raft EXCEPT ![n] = [raft[n] EXCEPT !.commit = i, !.msgs = "waiting"]]
    BY <1>6
  <2> DEFINE ri == [raft[n] EXCEPT !.commit = i, !.msgs = "waiting"]
  <2>2. i \in (raft[n].commit + 1)..Len(raft[n].log) /\ Len(raft[n].log) \in Nat
    BY <1>1 DEF Acknowledged, Raft
  <2>3. i \in Nat /\ raft[n].commit <= i /\ i <= Len(raft[n].log)
    BY <1>1, <2>2
  <2>4. /\ ri \in Raft /\ ri.msgs = "waiting"
        /\ ri.delivered = raft[n].delivered /\ ri.ready = raft[n].ready
        /\ raft[n].commit <= ri.commit /\ ri.commit <= Len(ri.log)
    BY <1>1, <2>3 DEF Raft
  <2>5. raft' = [raft EXCEPT ![n] = ri]
    BY <2>1
  <2> HIDE DEF ri
  <2> QED  BY <1>1, <1>2, <2>4, <2>5, RaftStep
<1> QED  BY <1>3, <1>4, <1>5, <1>6 DEF StepMessage

-----------------------------------------------------------------------------
(* tick *)

\* The library's part of a tick.
LEMMA RaftTickLemma ==
  ASSUME IndInv, NEW n \in Node, Up(n), RaftTick(n)
  PROVE  \E r \in Raft :
           /\ raft' = [raft EXCEPT ![n] = r]
           /\ r.delivered = raft[n].delivered /\ r.ready = raft[n].ready
           /\ raft[n].commit <= r.commit /\ r.commit <= Len(r.log)
           /\ \/ r.role = raft[n].role /\ r.msgs = raft[n].msgs
              \/ r.msgs = "waiting"
<1>1. /\ raft \in [Node -> Raft] /\ raft[n] \in Raft
      /\ raft[n].commit <= Len(raft[n].log) /\ raft[n].commit \in Nat
  BY DEF IndInv, TypeOK, NodeOK, IndexOK, Raft
<1>2. CASE UNCHANGED raft
  <2>1. raft' = [raft EXCEPT ![n] = raft[n]]
    BY <1>1, <1>2
  <2>2. raft[n].commit <= raft[n].commit
    BY <1>1
  <2> QED  BY <1>1, <2>1, <2>2
<1>3. CASE raft' = [raft EXCEPT ![n].msgs = "waiting"]
  <2> DEFINE r == [raft[n] EXCEPT !.msgs = "waiting"]
  <2>1. /\ r \in Raft /\ r.delivered = raft[n].delivered /\ r.ready = raft[n].ready
        /\ r.commit = raft[n].commit /\ r.log = raft[n].log
        /\ r.msgs = "waiting"
    BY <1>1 DEF Raft
  <2>2. raft' = [raft EXCEPT ![n] = r]
    BY <1>1, <1>3
  <2> HIDE DEF r
  <2>3. raft[n].commit <= r.commit /\ r.commit <= Len(r.log)
    BY <1>1, <2>1
  <2> QED  BY <2>1, <2>2, <2>3
<1>4. CASE /\ raft[n].term < MaxTerm
           /\ raft' = [raft EXCEPT ![n] = Campaign(n, @, raft_id_to_peer_id[n])]
  <2> DEFINE r == Campaign(n, raft[n], raft_id_to_peer_id[n])
  <2>1. /\ r \in Raft /\ r.delivered = raft[n].delivered /\ r.ready = raft[n].ready
        /\ raft[n].commit <= r.commit /\ r.commit <= Len(r.log)
        /\ r.msgs = "waiting"
    BY <1>1, <1>4, CampaignLemma
  <2>2. raft' = [raft EXCEPT ![n] = r]
    BY <1>1, <1>4
  <2> HIDE DEF r
  <2> QED  BY <2>1, <2>2
<1> QED  BY <1>2, <1>3, <1>4 DEF RaftTick

\* check_publish: a published block is a new one, built on the chain of the
\* leader, and the other validators only hear of it.
LEMMA CheckPublishLemma ==
  ASSUME IndInv, NEW n \in Node, Up(n), CheckPublish(n)
  PROVE  /\ tree' \in Seq(BlockRecord) /\ Len(tree') <= MaxBlocks
         /\ validator' \in [Node -> ValidatorState]
         /\ leader_state' \in [Node -> LeaderState]
         /\ \A m \in Node : /\ validator'[m].requests = validator[m].requests
                            /\ validator[m].inbox \subseteq validator'[m].inbox
         /\ \A m \in Node \ {n} : /\ validator'[m].building = validator[m].building
                                  /\ leader_state'[m] = leader_state[m]
         /\ \/ /\ leader_state'[n] = leader_state[n]
               /\ validator'[n].building = validator[n].building
            \/ /\ leader_state[n] = Building
               /\ \E b \in BlockId : leader_state'[n] = Publishing(b)
               /\ validator'[n].building = NoBlock
<1>1. TypeOK /\ NodeOK(n) /\ BuildOK(n)
  BY DEF IndInv, NodeOK
<1>2. CASE UNCHANGED <<tree, validator, leader_state>>
  BY <1>1, <1>2 DEF TypeOK
<1>3. CASE Publish(n)
  <2> DEFINE b == Len(tree) + 1
             running == {m \in Node : phase[m] \in Running}
  <2>0. PICK P \in NextPeers(validator[n].building), ok \in Verdicts :
          /\ tree' = Append(tree, [parent |-> validator[n].building, peers |-> P, valid |-> ok])
          /\ validator' = FinalizedAt(n, b, ok, running)
    BY <1>3 DEF Publish
  <2>1. tree \in Seq(BlockRecord) /\ Len(tree) \in Nat
    BY <1>1 DEF TypeOK
  <2>2. b \in BlockId
    BY <1>3, <2>1, MaxBlocksAssumption DEF Publish, BlockId
  <2>3. validator[n].building \in Chain
    <3>1. validator[n].building # NoBlock
      BY <1>1, <1>3 DEF BuildOK, Publish
    <3> QED  BY <1>1, <3>1 DEF TypeOK, ValidatorState
  <2>4. tree' \in Seq(BlockRecord) /\ Len(tree') <= MaxBlocks
    <3>1. P \subseteq Node /\ ok \in BOOLEAN
      BY <2>1, SettingsLemma, PeersAssumption, VerdictsAssumption DEF NextPeers
    <3>2. [parent |-> validator[n].building, peers |-> P, valid |-> ok] \in BlockRecord
      BY <2>3, <3>1 DEF BlockRecord
    <3> QED  BY <1>3, <2>1, <2>0, <3>2, MaxBlocksAssumption DEF Publish
  <2>5. {New(b), Verdict(b, ok)} \subseteq Update
    BY <2>2, VerdictLemma DEF New, Update
  <2> HIDE DEF b, running
  <2>6. validator' = FinalizedAt(n, b, ok, running)
    BY <2>0
  <2>7. ASSUME NEW m \in Node
        PROVE  /\ validator'[m] \in ValidatorState
               /\ validator'[m].requests = validator[m].requests
               /\ validator[m].inbox \subseteq validator'[m].inbox
               /\ validator'[m].building = IF m = n THEN NoBlock ELSE validator[m].building
    <3> DEFINE B == IF m = n THEN NoBlock ELSE validator[m].building
               I == IF m \in running THEN validator[m].inbox \cup {New(b), Verdict(b, ok)}
                                     ELSE validator[m].inbox
    <3>1. validator[m] \in ValidatorState
      BY <1>1 DEF TypeOK
    <3>2. /\ B \in Chain \cup {NoBlock} /\ I \in SUBSET Update
          /\ validator[m].inbox \subseteq I
      BY <2>5, <3>1 DEF ValidatorState
    <3>3. validator'[m] = [validator[m] EXCEPT !.building = B, !.inbox = I]
      BY <2>6 DEF FinalizedAt
    <3> HIDE DEF I
    <3> QED  BY <3>1, <3>2, <3>3 DEF ValidatorState
  <2>8. validator' \in [Node -> ValidatorState]
    <3>1. validator' = [m \in Node |-> validator'[m]]
      BY <2>6 DEF FinalizedAt
    <3> QED  BY <2>7, <3>1
  <2>9. /\ leader_state' \in [Node -> LeaderState]
        /\ leader_state'[n] = Publishing(b) /\ leader_state[n] = Building
        /\ \A m \in Node \ {n} : leader_state'[m] = leader_state[m]
    <3>1. leader_state' = [leader_state EXCEPT ![n] = Publishing(b)]
      BY <1>3 DEF Publish, b
    <3>2. Publishing(b) \in LeaderState
      BY <2>2 DEF Publishing, LeaderState, Holding
    <3> QED  BY <1>1, <1>3, <3>1, <3>2 DEF TypeOK, Publish
  <2> QED  BY <2>2, <2>4, <2>7, <2>8, <2>9
<1> QED  BY <1>2, <1>3 DEF CheckPublish

\* tick
LEMMA TickInv ==
  ASSUME IndInv, NEW n \in Node, Tick(n)
  PROVE  IndInv'
<1>1. /\ TypeOK /\ NodeOK(n) /\ Up(n) /\ RaftTick(n) /\ CheckPublish(n)
      /\ phase[n] \in {"recv", "handled"} /\ phase' = [phase EXCEPT ![n] = "ticked"]
      /\ UNCHANGED <<disk, sent, follower_state, block_queue, raft_id_to_peer_id, stops>>
  BY DEF IndInv, Tick, Up, Running, Goto
<1>2. PICK r \in Raft :
        /\ raft' = [raft EXCEPT ![n] = r]
        /\ r.delivered = raft[n].delivered /\ r.ready = raft[n].ready
        /\ raft[n].commit <= r.commit /\ r.commit <= Len(r.log)
        /\ \/ r.role = raft[n].role /\ r.msgs = raft[n].msgs
           \/ r.msgs = "waiting"
  BY <1>1, RaftTickLemma
<1>3. /\ tree' \in Seq(BlockRecord) /\ Len(tree') <= MaxBlocks
      /\ validator' \in [Node -> ValidatorState]
      /\ leader_state' \in [Node -> LeaderState]
      /\ \A m \in Node : /\ validator'[m].requests = validator[m].requests
                         /\ validator[m].inbox \subseteq validator'[m].inbox
      /\ \A m \in Node \ {n} : /\ validator'[m].building = validator[m].building
                               /\ leader_state'[m] = leader_state[m]
      /\ \/ /\ leader_state'[n] = leader_state[n]
            /\ validator'[n].building = validator[n].building
         \/ /\ leader_state[n] = Building
            /\ \E b \in BlockId : leader_state'[n] = Publishing(b)
            /\ validator'[n].building = NoBlock
  BY <1>1, CheckPublishLemma
<1>4. TypeOK'
  BY <1>1, <1>2, <1>3 DEF TypeOK, Phase, Running
<1>5. raft'[n] = r /\ phase'[n] = "ticked"
  BY <1>1, <1>2 DEF TypeOK
<1>6. NodeOK(n)'
  <2>1. DurableOK(n)'
    BY <1>1 DEF NodeOK, DurableOK
  <2>2. RolesOK(n)'
    BY <1>1, <1>2, <1>3, <1>5 DEF NodeOK, RolesOK, None, Building, Publishing
  <2>3. BuildOK(n)'
    BY <1>1, <1>3 DEF NodeOK, BuildOK, Building, Publishing
  <2>4. CommitOK(n)'
    BY <1>1, <1>3 DEF NodeOK, CommitOK, CommittingBlock, Committing, Building, Publishing
  <2>5. IndexOK(n)'
    <3>1. raft[n].commit \in Nat /\ r.commit \in Nat /\ disk[n].commit \in Nat
      BY <1>1 DEF TypeOK, Raft, Disk
    <3> QED  BY <1>1, <1>2, <1>5, <3>1 DEF NodeOK, IndexOK
  <2> QED  BY <2>1, <2>2, <2>3, <2>4, <2>5 DEF NodeOK
<1>7. ASSUME NEW m \in Node \ {n} PROVE Untouched(m)
  BY <1>1, <1>2, <1>3 DEF Untouched, TypeOK
<1> QED  BY <1>4, <1>6, <1>7, Compose

-----------------------------------------------------------------------------
(* process_ready *)

\* Nothing to process
LEMMA NothingReadyInv ==
  ASSUME IndInv, NEW n \in Node, NothingReady(n)
  PROVE  IndInv'
<1> USE DEF NothingReady, Goto
<1>1. TypeOK /\ NodeOK(n) /\ Up(n)
  BY DEF IndInv, Up, Running
<1>2. TypeOK' /\ phase'[n] = "recv"
  BY <1>1 DEF TypeOK, Phase, Running
<1>3. raft[n].msgs # "waiting"
  BY DEF HasReady
<1>4. NodeOK(n)'
  <2>1. DurableOK(n)' /\ BuildOK(n)' /\ CommitOK(n)' /\ IndexOK(n)'
    BY <1>1 DEF NodeOK, DurableOK, BuildOK, CommitOK, CommittingBlock, IndexOK
  <2>2. RolesOK(n)'
    BY <1>1, <1>3 DEF NodeOK, RolesOK
  <2> QED  BY <2>1, <2>2 DEF NodeOK
<1>5. ASSUME NEW m \in Node \ {n} PROVE Untouched(m)
  BY <1>1 DEF Untouched, TypeOK
<1> QED  BY <1>2, <1>4, <1>5, Compose

\* What a change of role leaves: an engine in one role, the one its library has,
\* with a block under construction exactly when it is building, and a commit in
\* flight carried over.
RoleTaken(n) ==
  /\ validator' \in [Node -> ValidatorState]
  /\ leader_state' \in [Node -> LeaderState]
  /\ follower_state' \in [Node -> FollowerState]
  /\ phase' \in [Node -> Phase]
  /\ \A m \in Node \ {n} : /\ validator'[m] = validator[m]
                           /\ leader_state'[m] = leader_state[m]
                           /\ follower_state'[m] = follower_state[m]
                           /\ phase'[m] = phase[m]
  /\ phase'[n] = "deliver"
  /\ (leader_state'[n] = None) <=> (follower_state'[n] # None)
  /\ (raft[n].role = "Leader") <=> (leader_state'[n] # None)
  /\ (leader_state'[n] = Building) <=> (validator'[n].building # NoBlock)
  /\ \A b \in BlockId : Committing(b) \in {leader_state'[n], follower_state'[n]} =>
                         CommittingBlock(n, b)
  /\ validator'[n].requests = validator[n].requests
  /\ validator'[n].inbox = validator[n].inbox

\* The four cases of a change of role; none of them panics.
LEMMA TakeRoleLemma ==
  ASSUME IndInv, NEW n \in Node, Up(n), TakeRole(n)
  PROVE  RoleTaken(n)
<1>1. /\ TypeOK /\ RolesOK(n) /\ BuildOK(n) /\ validator[n] \in ValidatorState
      /\ leader_state[n] \in LeaderState /\ follower_state[n] \in FollowerState
  BY DEF IndInv, NodeOK, TypeOK
<1>2. None \in LeaderState /\ Building \in LeaderState
  BY DEF None, Building, LeaderState
<1>3. None \in FollowerState /\ Idle \in FollowerState
  BY DEF None, Idle, FollowerState
<1>4. {"deliver", "panicked"} \subseteq Phase
  BY DEF Phase, Running
<1>5. CASE StepUpCommitting(n)
  <2>1. /\ raft[n].role = "Leader" /\ leader_state[n] = None
        /\ follower_state[n].state = "Committing"
        /\ leader_state' = [leader_state EXCEPT ![n] = follower_state[n]]
        /\ follower_state' = [follower_state EXCEPT ![n] = None]
        /\ phase' = [phase EXCEPT ![n] = "deliver"]
        /\ validator' = validator
    BY <1>5 DEF StepUpCommitting, SteppedUp, Goto
  <2>2. /\ follower_state[n] \in LeaderState /\ follower_state[n] # None
        /\ follower_state[n] # Building
    BY <1>1, <2>1 DEF FollowerState, LeaderState, Holding, None, Building
  <2>3. validator[n].building = NoBlock
    BY <1>1, <2>1 DEF BuildOK, None, Building
  <2>4. \A b \in BlockId : Committing(b) # None
    BY DEF Committing, None
  <2> QED
    BY <1>1, <1>3, <1>4, <2>1, <2>2, <2>3, <2>4 DEF RoleTaken, TypeOK, CommittingBlock
<1>6. CASE StepUpBuilding(n)
  <2> DEFINE v == InitializeBlock(validator[n])
  <2>1. v \in ValidatorState /\ v.building # NoBlock
        /\ v.requests = validator[n].requests /\ v.inbox = validator[n].inbox
    BY <1>1, InitializeBlockLemma
  <2>2. validator[n].building = NoBlock
    BY <1>1, <1>6 DEF BuildOK, None, Building, StepUpBuilding, SteppedUp
  <2> HIDE DEF v
  <2>3. /\ raft[n].role = "Leader" /\ leader_state[n] = None
        /\ leader_state' = [leader_state EXCEPT ![n] = Building]
        /\ follower_state' = [follower_state EXCEPT ![n] = None]
        /\ phase' = [phase EXCEPT ![n] = "deliver"]
        /\ validator' = [validator EXCEPT ![n] = v]
    BY <1>6, <2>2 DEF StepUpBuilding, SteppedUp, Goto, v
  <2>4. None # Building /\ \A b \in BlockId : Committing(b) \notin {None, Building}
    BY DEF Committing, None, Building
  <2> QED
    BY <1>1, <1>2, <1>3, <1>4, <2>1, <2>3, <2>4 DEF RoleTaken, TypeOK
<1>7. CASE StepDown(n)
  <2> DEFINE v == IF MustCancel(n) THEN CancelBlock(validator[n]) ELSE validator[n]
             f == CarriedOver(n)
  <2>1. /\ v \in ValidatorState /\ v.building = NoBlock
        /\ v.requests = validator[n].requests /\ v.inbox = validator[n].inbox
    BY <1>1 DEF MustCancel, BuildOK, CancelBlock, ValidatorState
  <2>2. /\ raft[n].role # "Leader" /\ leader_state[n] # None
        /\ follower_state[n] = None
    BY <1>1, <1>7 DEF StepDown, SteppedDown, RolesOK
  <2>3. f = IF leader_state[n].state = "Committing" THEN leader_state[n] ELSE Idle
    BY <2>2 DEF CarriedOver
  <2>4. /\ f \in FollowerState /\ f # None
        /\ \A b \in BlockId : Committing(b) = f => CommittingBlock(n, b)
    BY <1>1, <2>3 DEF LeaderState, FollowerState, Holding, None, Idle, Committing,
                      CommittingBlock
  <2> HIDE DEF v, f
  <2>5. /\ leader_state' = [leader_state EXCEPT ![n] = None]
        /\ follower_state' = [follower_state EXCEPT ![n] = f]
        /\ validator' = [validator EXCEPT ![n] = v]
        /\ phase' = [phase EXCEPT ![n] = "deliver"]
    BY <1>1, <1>7 DEF StepDown, Goto, MustCancel, BuildOK, v, f
  <2>6. None # Building /\ \A b \in BlockId : Committing(b) # None
    BY DEF Committing, None, Building
  <2> QED
    BY <1>1, <1>2, <1>4, <2>1, <2>2, <2>4, <2>5, <2>6 DEF RoleTaken, TypeOK
<1>8. CASE KeepRole(n)
  <2>1. /\ UNCHANGED <<leader_state, follower_state, validator>>
        /\ phase' = [phase EXCEPT ![n] = "deliver"]
        /\ (raft[n].role = "Leader") <=> (leader_state[n] # None)
    BY <1>8 DEF KeepRole, Goto, SteppedUp, SteppedDown
  <2> QED
    BY <1>1, <1>4, <2>1 DEF RoleTaken, TypeOK, RolesOK, BuildOK, CommittingBlock
<1> QED  BY <1>5, <1>6, <1>7, <1>8 DEF TakeRole

\* The writes of process_ready: the storage has all the library has, and the
\* library's Ready reaches to its commit index.
LEMMA ProcessReadyInv ==
  ASSUME IndInv, NEW n \in Node, ProcessReady(n)
  PROVE  IndInv'
<1> DEFINE d == SetHardState(AppendEntries(disk[n], raft[n]), raft[n])
           s == Outgoing(n, raft_id_to_peer_id[n])
           r == [raft[n] EXCEPT !.ready = raft[n].commit, !.msgs = "none"]
<1>1. /\ TypeOK /\ NodeOK(n) /\ Up(n) /\ TakeRole(n)
      /\ raft[n] \in Raft /\ disk[n] \in Disk /\ IndexOK(n) /\ DurableOK(n) /\ CommitOK(n)
      /\ raft_id_to_peer_id[n] \subseteq Node
      /\ UNCHANGED <<tree, block_queue, raft_id_to_peer_id, stops>>
  BY DEF IndInv, ProcessReady, Up, Running, TypeOK, NodeOK
<1>2. RoleTaken(n)
  BY <1>1, TakeRoleLemma
<1>3. /\ d \in Disk /\ d.log = raft[n].log /\ d.commit = raft[n].commit
      /\ d.applied = disk[n].applied
  BY <1>1 DEF SetHardState, AppendEntries, Disk, Raft
<1>4. s \in Message /\ s.log = raft[n].log /\ s.commit = raft[n].commit
  BY <1>1 DEF Outgoing, Message, Raft
<1>5. /\ r \in Raft /\ r.log = raft[n].log /\ r.commit = raft[n].commit
      /\ r.ready = raft[n].commit /\ r.delivered = raft[n].delivered
      /\ r.role = raft[n].role
  BY <1>1 DEF Raft
<1> HIDE DEF d, s, r
<1>6. /\ disk' = [disk EXCEPT ![n] = d] /\ sent' = [sent EXCEPT ![n] = s]
      /\ raft' = [raft EXCEPT ![n] = r]
  <2>1. raft' = [raft EXCEPT ![n].ready = raft[n].commit, ![n].msgs = "none"]
    BY DEF ProcessReady
  <2>2. raft' = [raft EXCEPT ![n] = r]
    BY <1>1, <2>1 DEF r, TypeOK, Raft
  <2> QED  BY <2>2 DEF ProcessReady, d, s
<1>7. TypeOK'
  BY <1>1, <1>2, <1>3, <1>4, <1>5, <1>6 DEF TypeOK, RoleTaken
<1>8. disk'[n] = d /\ sent'[n] = s /\ raft'[n] = r
  BY <1>1, <1>6 DEF TypeOK
<1>9. NodeOK(n)'
  <2>1. /\ raft[n].commit \in Nat /\ disk[n].commit \in Nat /\ disk[n].applied \in Nat
        /\ raft[n].ready \in Nat /\ raft[n].delivered \in Nat
    BY <1>1 DEF Raft, Disk
  <2>2. DurableOK(n)'
    BY <1>1, <1>3, <1>4, <1>8, <2>1 DEF DurableOK, IndexOK
  <2>3. RolesOK(n)' /\ BuildOK(n)'
    BY <1>2, <1>5, <1>8 DEF RoleTaken, RolesOK, BuildOK
  <2>4. CommitOK(n)'
    BY <1>1, <1>2 DEF RoleTaken, CommitOK, CommittingBlock
  <2>5. IndexOK(n)'
    BY <1>1, <1>3, <1>5, <1>8, <2>1 DEF IndexOK
  <2> QED  BY <2>2, <2>3, <2>4, <2>5 DEF NodeOK
<1>10. ASSUME NEW m \in Node \ {n} PROVE Untouched(m)
  BY <1>1, <1>2, <1>6 DEF Untouched, TypeOK, RoleTaken
<1> QED  BY <1>7, <1>9, <1>10, Compose

\* The entry that is delivered next is an entry of the log.
LEMMA NextEntryLemma ==
  ASSUME IndInv, NEW n \in Node, Delivering(n)
  PROVE  /\ TypeOK /\ NodeOK(n) /\ Up(n) /\ IndexOK(n) /\ raft[n] \in Raft
         /\ NextEntry(n) \in Entry
         /\ raft[n].delivered \in Nat
         /\ raft[n].delivered + 1 <= raft[n].ready
<1>1. /\ TypeOK /\ NodeOK(n) /\ Up(n) /\ IndexOK(n) /\ raft[n] \in Raft /\ disk[n] \in Disk
  BY DEF IndInv, Delivering, Up, Running, NodeOK, TypeOK
<1>2. /\ raft[n].log \in Seq(Entry) /\ Len(raft[n].log) \in Nat
      /\ raft[n].delivered \in Nat /\ raft[n].ready \in Nat /\ raft[n].commit \in Nat
      /\ disk[n].commit \in Nat
  BY <1>1 DEF Raft, Disk
<1>3. raft[n].delivered + 1 \in 1..Len(raft[n].log)
  BY SMTT(20), <1>1, <1>2 DEF IndexOK, Delivering
<1>4. NextEntry(n) \in Entry
  BY <1>2, <1>3 DEF NextEntry
<1> QED  BY <1>1, <1>2, <1>4 DEF Delivering

\* The library's memory after an entry is delivered.
LEMMA DeliveredLemma ==
  ASSUME NEW r \in Raft
  PROVE  LET p == Delivered(r)
         IN  /\ p \in Raft /\ p.delivered = r.delivered + 1 /\ p.role = r.role
             /\ p.ready = r.ready /\ p.commit = r.commit /\ p.log = r.log
<1>1. Delivered(r) = [r EXCEPT !.delivered = r.delivered + 1]
  BY DEF Delivered
<1> QED  BY <1>1 DEF Raft

\* Every element of a queue carries the index of an entry.
LEMMA QueueIndexLemma ==
  ASSUME NEW q \in Queue, NEW i \in Nat,
         \A k \in DOMAIN q.commit_queue : q.commit_queue[k].entry <= i
  PROVE  \A k \in DOMAIN q.commit_queue : q.commit_queue[k].entry <= i + 1
<1>1. q.commit_queue \in Seq(QueueEntry)
  BY DEF Queue
<1>2. ASSUME NEW k \in DOMAIN q.commit_queue PROVE q.commit_queue[k].entry <= i + 1
  <2>1. q.commit_queue[k] \in QueueEntry
    BY <1>1
  <2>2. q.commit_queue[k].entry \in Nat
    BY <2>1 DEF QueueEntry
  <2> QED  BY <2>2
<1> QED  BY <1>2

\* The leader's empty entry
LEMMA DeliverEmptyInv ==
  ASSUME IndInv, NEW n \in Node, DeliverEmpty(n)
  PROVE  IndInv'
<1> DEFINE r == Delivered(raft[n])
<1>1. /\ TypeOK /\ NodeOK(n) /\ Up(n) /\ IndexOK(n) /\ raft[n] \in Raft
      /\ raft[n].delivered \in Nat
      /\ raft[n].delivered + 1 <= raft[n].ready
  BY NextEntryLemma DEF DeliverEmpty
<1>2. /\ r \in Raft /\ r.delivered = raft[n].delivered + 1 /\ r.role = raft[n].role
      /\ r.ready = raft[n].ready /\ r.commit = raft[n].commit /\ r.log = raft[n].log
  BY <1>1, DeliveredLemma
<1>3. /\ raft' = [raft EXCEPT ![n] = r]
      /\ phase[n] = "deliver"
      /\ UNCHANGED <<disk, sent, validator, tree, leader_state, follower_state,
                     block_queue, raft_id_to_peer_id, phase, stops>>
  BY DEF DeliverEmpty, Delivering
<1> HIDE DEF r
<1>4. TypeOK' /\ raft'[n] = r
  BY <1>1, <1>2, <1>3 DEF TypeOK
<1>5. NodeOK(n)'
  <2>1. DurableOK(n)' /\ BuildOK(n)' /\ CommitOK(n)'
    BY <1>1, <1>3 DEF NodeOK, DurableOK, BuildOK, CommitOK, CommittingBlock
  <2>2. RolesOK(n)'
    BY <1>1, <1>2, <1>3, <1>4 DEF NodeOK, RolesOK
  <2>3. IndexOK(n)'
    <3>1. block_queue[n] \in Queue
      BY <1>1 DEF TypeOK
    <3>2. \A k \in DOMAIN block_queue[n].commit_queue :
            block_queue[n].commit_queue[k].entry <= raft[n].delivered + 1
      BY <1>1, <3>1, QueueIndexLemma DEF IndexOK
    <3> QED  BY <1>1, <1>2, <1>3, <1>4, <3>2 DEF IndexOK
  <2> QED  BY <2>1, <2>2, <2>3 DEF NodeOK
<1>6. ASSUME NEW m \in Node \ {n} PROVE Untouched(m)
  BY <1>1, <1>3 DEF Untouched, TypeOK
<1> QED  BY <1>4, <1>5, <1>6, Compose

\* A block entry goes to the end of the queue, so that the front, which may be
\* in the hands of the validator, stays where it is.
LEMMA DeliverBlockInv ==
  ASSUME IndInv, NEW n \in Node, DeliverBlock(n)
  PROVE  IndInv'
<1> DEFINE r == Delivered(raft[n])
           b == NextEntry(n).block
           i == raft[n].delivered + 1
           q == AddBlockCommit(block_queue[n], b, i)
<1>1. /\ TypeOK /\ NodeOK(n) /\ Up(n) /\ IndexOK(n) /\ raft[n] \in Raft
      /\ NextEntry(n) \in Entry
      /\ raft[n].delivered \in Nat
      /\ raft[n].delivered + 1 <= raft[n].ready
  BY NextEntryLemma DEF DeliverBlock
<1>2. /\ r \in Raft /\ r.delivered = raft[n].delivered + 1 /\ r.role = raft[n].role
      /\ r.ready = raft[n].ready /\ r.commit = raft[n].commit /\ r.log = raft[n].log
  BY <1>1, DeliveredLemma
<1>3. b \in BlockId /\ i \in Nat /\ block_queue[n] \in Queue
  BY <1>1 DEF DeliverBlock, IsBlock, Entry, TypeOK
<1>4. /\ raft' = [raft EXCEPT ![n] = r]
      /\ block_queue' = [block_queue EXCEPT ![n] = q]
      /\ phase[n] = "deliver"
      /\ UNCHANGED <<disk, sent, validator, tree, leader_state, follower_state,
                     raft_id_to_peer_id, phase, stops>>
  BY DEF DeliverBlock, Delivering
<1> HIDE DEF b
<1>5. /\ q \in Queue
      /\ q.commit_queue = Append(block_queue[n].commit_queue, [block |-> b, entry |-> i])
      /\ block_queue[n].commit_queue # << >> =>
           q.commit_queue # << >> /\ Head(q.commit_queue) = Head(block_queue[n].commit_queue)
  BY <1>3, AddBlockCommitLemma
<1>6. \A k \in DOMAIN q.commit_queue : q.commit_queue[k].entry <= i
  <2>1. block_queue[n].commit_queue \in Seq(QueueEntry)
    BY <1>3 DEF Queue
  <2>2. ASSUME NEW k \in DOMAIN q.commit_queue PROVE q.commit_queue[k].entry <= i
    <3>1. CASE k = Len(block_queue[n].commit_queue) + 1
      BY <1>3, <1>5, <2>1, <3>1
    <3>2. CASE k # Len(block_queue[n].commit_queue) + 1
      <4>1. /\ k \in DOMAIN block_queue[n].commit_queue
            /\ q.commit_queue[k] = block_queue[n].commit_queue[k]
            /\ block_queue[n].commit_queue[k] \in QueueEntry
        BY <1>5, <2>1, <3>2
      <4> QED  BY <1>1, <4>1 DEF IndexOK, QueueEntry
    <3> QED  BY <3>1, <3>2
  <2> QED  BY <2>2
<1> HIDE DEF r, q
<1>7. TypeOK' /\ raft'[n] = r /\ block_queue'[n] = q
  BY <1>1, <1>2, <1>4, <1>5 DEF TypeOK
<1>8. NodeOK(n)'
  <2>1. DurableOK(n)' /\ BuildOK(n)'
    BY <1>1, <1>4 DEF NodeOK, DurableOK, BuildOK
  <2>2. CommitOK(n)'
    BY <1>1, <1>4, <1>5, <1>7 DEF NodeOK, CommitOK, CommittingBlock
  <2>3. RolesOK(n)'
    BY <1>1, <1>2, <1>4, <1>7 DEF NodeOK, RolesOK
  <2>4. IndexOK(n)'
    BY <1>1, <1>2, <1>4, <1>6, <1>7 DEF IndexOK
  <2> QED  BY <2>1, <2>2, <2>3, <2>4 DEF NodeOK
<1>9. ASSUME NEW m \in Node \ {n} PROVE Untouched(m)
  BY <1>1, <1>4 DEF Untouched, TypeOK
<1> QED  BY <1>7, <1>8, <1>9, Compose

\* apply_conf_change
LEMMA DeliverConfChangeInv ==
  ASSUME IndInv, NEW n \in Node, DeliverConfChange(n)
  PROVE  IndInv'
<1> DEFINE e == NextEntry(n)
           r == Delivered(raft[n])
           t == ApplyConfChange(n, r, e)
           P == ChangedPeers(n, e)
           changing == leader_state[n] = ChangingConfig
           v == InitializeBlock(validator[n])
<1>1. /\ TypeOK /\ NodeOK(n) /\ Up(n) /\ IndexOK(n) /\ raft[n] \in Raft
      /\ NextEntry(n) \in Entry
      /\ raft[n].delivered \in Nat
      /\ raft[n].delivered + 1 <= raft[n].ready
  BY NextEntryLemma DEF DeliverConfChange
<1>2. /\ r \in Raft /\ r.delivered = raft[n].delivered + 1 /\ r.role = raft[n].role
      /\ r.ready = raft[n].ready /\ r.commit = raft[n].commit /\ r.log = raft[n].log
  BY <1>1, DeliveredLemma
<1>3. /\ raft[n].commit \in Nat /\ disk[n].commit \in Nat /\ raft[n].ready \in Nat
      /\ validator[n] \in ValidatorState
  BY <1>1 DEF TypeOK, Raft, Disk
<1>4. v \in ValidatorState /\ v.building # NoBlock
      /\ v.requests = validator[n].requests /\ v.inbox = validator[n].inbox
  BY <1>3, InitializeBlockLemma
<1>5. P \subseteq Node
  <2>1. e.node \in Node
    BY <1>1 DEF DeliverConfChange, IsConf, Entry
  <2> QED  BY <1>1, <2>1 DEF ChangedPeers, TypeOK
<1>6. /\ t \in Raft /\ t.delivered = raft[n].delivered + 1 /\ t.role = raft[n].role
      /\ t.ready = raft[n].ready /\ raft[n].commit <= t.commit /\ t.commit <= Len(t.log)
  <2>1. r.commit <= Len(r.log)
    BY <1>1, <1>2 DEF IndexOK
  <2>2. CASE r.role = "Leader"
    <3>1. t = CommitAlone(n, r, P)
      BY <2>2 DEF ApplyConfChange
    <3> HIDE DEF t, r, P
    <3> QED  BY <1>2, <2>1, <3>1, CommitAloneLemma
  <2>3. CASE r.role # "Leader"
    <3>1. t = r
      BY <2>3 DEF ApplyConfChange
    <3> HIDE DEF t, r
    <3> QED  BY <1>2, <1>3, <2>1, <3>1
  <2> QED  BY <2>2, <2>3
<1> HIDE DEF e, r, t, P, v
<1>7. /\ raft' = [raft EXCEPT ![n] = t]
      /\ raft_id_to_peer_id' = [raft_id_to_peer_id EXCEPT ![n] = P]
      /\ leader_state' = IF changing THEN [leader_state EXCEPT ![n] = Building]
                                     ELSE leader_state
      /\ validator' = IF changing THEN [validator EXCEPT ![n] = v] ELSE validator
      /\ \E p \in {"deliver", "panicked"} : phase' = [phase EXCEPT ![n] = p]
      /\ phase[n] = "deliver"
      /\ UNCHANGED <<disk, sent, tree, follower_state, block_queue, stops>>
  BY DEF DeliverConfChange, Delivering, Goto, e, r, t, P, v
<1>8. TypeOK'
  BY <1>1, <1>4, <1>5, <1>6, <1>7 DEF TypeOK, LeaderState, Building, Phase, Running
<1>9. /\ raft'[n] = t
      /\ leader_state'[n] = IF changing THEN Building ELSE leader_state[n]
      /\ validator'[n] = IF changing THEN v ELSE validator[n]
      /\ phase'[n] \in {"deliver", "panicked"}
  BY <1>1, <1>7 DEF TypeOK
<1>10. NodeOK(n)'
  <2>1. DurableOK(n)'
    BY <1>1, <1>7 DEF NodeOK, DurableOK
  <2>2. RolesOK(n)'
    BY <1>1, <1>6, <1>7, <1>9 DEF NodeOK, RolesOK, Building, ChangingConfig, None
  <2>3. BuildOK(n)'
    BY <1>1, <1>4, <1>9 DEF NodeOK, BuildOK
  <2>4. CommitOK(n)'
    BY <1>1, <1>4, <1>7, <1>9
       DEF NodeOK, CommitOK, CommittingBlock, Committing, Building, ChangingConfig
  <2>5. IndexOK(n)'
    <3>1. block_queue[n] \in Queue
      BY <1>1 DEF TypeOK
    <3>2. \A k \in DOMAIN block_queue[n].commit_queue :
            block_queue[n].commit_queue[k].entry <= raft[n].delivered + 1
      BY <1>1, <3>1, QueueIndexLemma DEF IndexOK
    <3>3. disk[n].commit <= t.commit
      <4>1. t.commit \in Nat
        BY <1>6 DEF Raft
      <4> QED  BY <1>1, <1>3, <1>6, <4>1 DEF IndexOK
    <3> QED  BY <1>1, <1>6, <1>7, <1>9, <3>2, <3>3 DEF IndexOK
  <2> QED  BY <2>1, <2>2, <2>3, <2>4, <2>5 DEF NodeOK
<1>11. ASSUME NEW m \in Node \ {n} PROVE Untouched(m)
  BY <1>1, <1>7 DEF Untouched, TypeOK
<1> QED  BY <1>8, <1>10, <1>11, Compose

\* The engine's own removal
LEMMA DeliverOwnRemovalInv ==
  ASSUME IndInv, NEW n \in Node, DeliverOwnRemoval(n)
  PROVE  IndInv'
<1> USE DEF DeliverOwnRemoval, Goto
<1>1. TypeOK /\ NodeOK(n)
  BY DEF IndInv
<1>2. TypeOK' /\ phase'[n] = "removed"
  BY <1>1 DEF TypeOK, Phase
<1>3. NodeOK(n)'
  BY <1>1, <1>2 DEF NodeOK, DurableOK, Up, Running
<1>4. ASSUME NEW m \in Node \ {n} PROVE Untouched(m)
  BY <1>1 DEF Untouched, TypeOK
<1> QED  BY <1>2, <1>3, <1>4, Compose

\* commit_block: only the front of the queue is handed to the validator.
LEMMA FinishReadyInv ==
  ASSUME IndInv, NEW n \in Node, FinishReady(n)
  PROVE  IndInv'
<1> DEFINE b == GetNextCommittable(block_queue[n])
           l == IF LeaderCommits(n, b) THEN Committing(b) ELSE leader_state[n]
           f == IF FollowerCommits(n, b) THEN Committing(b) ELSE follower_state[n]
           v == IF Requests(n, b) THEN CommitBlock(validator[n], b) ELSE validator[n]
<1>1. /\ TypeOK /\ NodeOK(n) /\ Up(n) /\ phase[n] = "deliver"
      /\ RolesOK(n) /\ BuildOK(n) /\ CommitOK(n) /\ IndexOK(n) /\ DurableOK(n)
      /\ block_queue[n] \in Queue /\ validator[n] \in ValidatorState
      /\ leader_state[n] \in LeaderState /\ follower_state[n] \in FollowerState
  BY DEF IndInv, FinishReady, Up, Running, NodeOK, TypeOK
<1>2. \/ b = NoBlock
      \/ b \in BlockId /\ block_queue[n].commit_queue # << >>
                      /\ Head(block_queue[n].commit_queue).block = b
  BY <1>1, GetNextCommittableLemma
<1> HIDE DEF b
<1>3. NoBlock \notin BlockId
  BY MaxBlocksAssumption DEF NoBlock, BlockId
<1>4. (LeaderCommits(n, b) \/ FollowerCommits(n, b)) => b \in BlockId
  <2>1. LeaderCommits(n, b) => b # NoBlock
    BY <1>1, <1>3 DEF LeaderCommits, Proposing, LeaderState, Holding
  <2> QED  BY <1>2, <2>1 DEF FollowerCommits
<1>5. /\ l \in LeaderState /\ f \in FollowerState
  BY <1>1, <1>4 DEF LeaderState, FollowerState, Holding, Committing
<1>6. /\ v \in ValidatorState /\ v.building = validator[n].building
      /\ v.inbox = validator[n].inbox
      /\ v.requests = IF Requests(n, b) THEN Append(validator[n].requests, b)
                                        ELSE validator[n].requests
  <2>1. Requests(n, b) => b \in BlockId
    BY <1>4 DEF Requests
  <2>2. Requests(n, b) => CommitBlock(validator[n], b) \in ValidatorState
    BY <1>1, <2>1, ValidatorLemma
  <2> QED  BY <1>1, <2>2 DEF CommitBlock, ValidatorState
<1>7. /\ (l = None) <=> (leader_state[n] = None)
      /\ (f = None) <=> (follower_state[n] = None)
      /\ (l = Building) <=> (leader_state[n] = Building)
  BY DEF LeaderCommits, FollowerCommits, Proposing, Committing, None, Idle, Building
<1>8. ASSUME NEW c \in BlockId, Committing(c) \in {l, f}
      PROVE  CommittingBlock(n, c) \/ (c = b /\ Requests(n, b))
  <2>1. CASE Committing(c) = Committing(b) /\ Requests(n, b)
    <3>1. Committing(c).block = Committing(b).block
      BY <2>1
    <3>2. c = b
      BY <3>1 DEF Committing
    <3> QED  BY <2>1, <3>2
  <2>2. CASE Committing(c) \in {leader_state[n], follower_state[n]}
    BY <2>2 DEF CommittingBlock
  <2> QED  BY <1>8, <2>1, <2>2 DEF Requests
<1> HIDE DEF l, f, v
<1>9. /\ leader_state' = [leader_state EXCEPT ![n] = l]
      /\ follower_state' = [follower_state EXCEPT ![n] = f]
      /\ validator' = [validator EXCEPT ![n] = v]
      /\ phase' = [phase EXCEPT ![n] = "recv"]
      /\ UNCHANGED <<raft, disk, sent, tree, block_queue, raft_id_to_peer_id, stops>>
  BY DEF FinishReady, Goto, b, l, f, v
<1>10. TypeOK'
  BY <1>1, <1>5, <1>6, <1>9 DEF TypeOK, Phase, Running
<1>11. leader_state'[n] = l /\ follower_state'[n] = f /\ validator'[n] = v
  BY <1>1, <1>9 DEF TypeOK
<1>12. NodeOK(n)'
  <2>1. DurableOK(n)' /\ IndexOK(n)'
    BY <1>1, <1>9 DEF DurableOK, IndexOK
  <2>2. RolesOK(n)' /\ BuildOK(n)'
    BY <1>1, <1>6, <1>7, <1>9, <1>11 DEF RolesOK, BuildOK
  <2>3. CommitOK(n)'
    <3>1. ASSUME NEW c \in BlockId, CommittingBlock(n, c)'
          PROVE  /\ block_queue[n].commit_queue # << >>
                 /\ Head(block_queue[n].commit_queue).block = c
                 /\ c \in Range(v.requests) \/ Commit(c) \in v.inbox
      <4>1. Committing(c) \in {l, f}
        BY <1>11, <3>1 DEF CommittingBlock
      <4>2. CommittingBlock(n, c) \/ (c = b /\ Requests(n, b))
        BY <1>8, <4>1
      <4>3. /\ Range(validator[n].requests) \subseteq Range(v.requests)
            /\ Requests(n, b) => b \in Range(v.requests)
        <5>1. validator[n].requests \in Seq(BlockId)
          BY <1>1 DEF ValidatorState
        <5> QED  BY <1>4, <1>6, <5>1, RangeLemma DEF Requests
      <4> QED  BY <1>1, <1>2, <1>3, <1>6, <4>2, <4>3 DEF CommitOK, Requests
    <3> QED  BY <1>9, <1>11, <3>1 DEF CommitOK
  <2> QED  BY <2>1, <2>2, <2>3 DEF NodeOK
<1>13. ASSUME NEW m \in Node \ {n} PROVE Untouched(m)
  BY <1>1, <1>9 DEF Untouched, TypeOK
<1> QED  BY <1>10, <1>12, <1>13, Compose

-----------------------------------------------------------------------------
(* Stops and starts, and the validator's own step *)

\* An engine that goes down leaves a storage it can start from, provided what
\* was written so far is one.
LEMMA LostInv ==
  ASSUME IndInv, NEW n \in Node, NEW d \in Disk, NEW s \in Message,
         d.applied <= d.commit, d.commit <= Len(d.log), s.commit <= Len(s.log),
         Lost(n, d, s)
  PROVE  IndInv'
<1>1. TypeOK /\ validator[n] \in ValidatorState /\ stops \in 0..MaxStops
  BY DEF IndInv, TypeOK
<1>2. PICK kept \in {<< >>, validator[n].requests} :
        validator' = [validator EXCEPT ![n] = Disconnected(@, kept)]
  BY DEF Lost
<1> DEFINE v == Disconnected(validator[n], kept)
           r == NewRaft(d)
<1>3. v \in ValidatorState
  <2>1. << >> \in Seq(BlockId)
    OBVIOUS
  <2>2. validator[n].requests \in Seq(BlockId)
    BY <1>1 DEF ValidatorState
  <2>3. kept \in Seq(BlockId)
    BY <1>2, <2>1, <2>2
  <2> QED  BY <1>1, <2>3 DEF Disconnected, ValidatorState
<1>4. r \in Raft
  BY NewRaftLemma
<1> HIDE DEF v, r
<1>5. /\ validator' = [validator EXCEPT ![n] = v]
      /\ raft' = [raft EXCEPT ![n] = r]
      /\ disk' = [disk EXCEPT ![n] = d] /\ sent' = [sent EXCEPT ![n] = s]
      /\ leader_state' = [leader_state EXCEPT ![n] = None]
      /\ follower_state' = [follower_state EXCEPT ![n] = Idle]
      /\ block_queue' = [block_queue EXCEPT ![n] = NewBlockQueue]
      /\ phase' = [phase EXCEPT ![n] = "down"]
      /\ UNCHANGED <<tree, raft_id_to_peer_id>>
  BY <1>2 DEF Lost, Goto, v, r
<1>6. stops' \in 0..MaxStops
  BY <1>1, MaxStopsAssumption DEF Lost
<1>7. /\ None \in LeaderState /\ Idle \in FollowerState /\ NewBlockQueue \in Queue
      /\ "down" \in Phase
  BY NewBlockQueueLemma DEF None, Idle, LeaderState, FollowerState, Phase
<1>8. TypeOK'
  BY <1>1, <1>3, <1>4, <1>5, <1>6, <1>7 DEF TypeOK
<1>9. NodeOK(n)'
  BY <1>1, <1>5 DEF TypeOK, NodeOK, DurableOK, Up, Running
<1>10. ASSUME NEW m \in Node \ {n} PROVE Untouched(m)
  BY <1>1, <1>5 DEF Untouched, TypeOK
<1> QED  BY <1>8, <1>9, <1>10, Compose

\* A stop between two iterations
LEMMA StopInv ==
  ASSUME IndInv, NEW n \in Node, Stop(n)
  PROVE  IndInv'
<1>1. disk[n] \in Disk /\ sent[n] \in Message /\ DurableOK(n)
  BY DEF IndInv, TypeOK, NodeOK
<1> QED  BY <1>1, LostInv DEF Stop, DurableOK

\* A crash between the writes of process_ready: the entries are written before
\* the commit index that refers to them.
LEMMA CrashInReadyInv ==
  ASSUME IndInv, NEW n \in Node, CrashInReady(n)
  PROVE  IndInv'
<1> DEFINE d1 == AppendEntries(disk[n], raft[n])
           d2 == SetHardState(d1, raft[n])
           o == Outgoing(n, raft_id_to_peer_id[n])
<1>1. /\ disk[n] \in Disk /\ sent[n] \in Message /\ raft[n] \in Raft
      /\ raft_id_to_peer_id[n] \subseteq Node
      /\ DurableOK(n) /\ IndexOK(n)
  BY DEF IndInv, TypeOK, NodeOK, CrashInReady, Up, Running
<1>2. /\ raft[n].commit \in Nat /\ disk[n].commit \in Nat /\ disk[n].applied \in Nat
      /\ Len(raft[n].log) \in Nat
  BY <1>1 DEF Raft, Disk
<1>3. d1 \in Disk /\ d1.applied = disk[n].applied /\ d1.commit = disk[n].commit
      /\ d1.log = raft[n].log
  BY <1>1 DEF AppendEntries, Disk, Raft
<1>4. d2 \in Disk /\ d2.applied = disk[n].applied /\ d2.commit = raft[n].commit
      /\ d2.log = raft[n].log
  BY <1>1, <1>3 DEF SetHardState, Disk, Raft
<1>5. o \in Message /\ o.commit = raft[n].commit /\ o.log = raft[n].log
  BY <1>1 DEF Outgoing, Message, Raft
<1> HIDE DEF d1, d2, o
<1>6. /\ WrittenSoFar(n) = {disk[n], d1, d2}
           \cup {InterruptedAppend(disk[n], raft[n], j) : j \in DOMAIN disk[n].log}
      /\ SentSoFar(n) \in {o, sent[n]}
  BY DEF WrittenSoFar, SentSoFar, d1, d2, o
<1>7. PICK d \in WrittenSoFar(n) : Lost(n, d, SentSoFar(n))
  BY DEF CrashInReady
<1>8. d \in Disk /\ d.applied <= d.commit /\ d.commit <= Len(d.log)
  <2>1. CASE d = disk[n]
    BY <1>1, <2>1 DEF DurableOK
  <2>2. CASE d = d1
    BY <1>1, <1>2, <1>3, <2>2 DEF DurableOK, IndexOK
  <2>3. CASE d = d2
    BY <1>1, <1>2, <1>4, <2>3 DEF DurableOK, IndexOK
  <2>4. ASSUME NEW j \in DOMAIN disk[n].log, d = InterruptedAppend(disk[n], raft[n], j)
        PROVE  d \in Disk /\ d.applied <= d.commit /\ d.commit <= Len(d.log)
    <3>1. j \in Nat
      BY <1>1 DEF Disk
    <3>2. /\ d \in Disk /\ d.applied = disk[n].applied /\ d.commit = disk[n].commit
          /\ Len(d.log) = Len(disk[n].log)
      BY <1>1, <2>4, <3>1, InterruptedLemma
    <3> QED  BY <1>1, <3>2 DEF DurableOK
  <2>5. \/ d \in {disk[n], d1, d2}
        \/ \E j \in DOMAIN disk[n].log : d = InterruptedAppend(disk[n], raft[n], j)
    BY <1>6, <1>7
  <2> QED  BY <2>1, <2>2, <2>3, <2>4, <2>5
<1>9. SentSoFar(n) \in Message /\ SentSoFar(n).commit <= Len(SentSoFar(n).log)
  <2>1. CASE SentSoFar(n) = o
    BY <1>1, <1>5, <2>1 DEF IndexOK
  <2>2. CASE SentSoFar(n) = sent[n]
    BY <1>1, <2>2 DEF DurableOK
  <2> QED  BY <1>6, <2>1, <2>2
<1> QED  BY <1>7, <1>8, <1>9, LostInv

\* start
LEMMA RestartInv ==
  ASSUME IndInv, NEW n \in Node, Restart(n)
  PROVE  IndInv'
<1> DEFINE r == NewRaft(disk[n])
           u == Disconnected(validator[n], validator[n].requests)
           v == Reconnected(u)
           P == Settings(validator[n].head)
<1>1. /\ TypeOK /\ DurableOK(n) /\ disk[n] \in Disk /\ validator[n] \in ValidatorState
      /\ tree \in Seq(BlockRecord) /\ Len(tree) <= MaxBlocks
  BY DEF IndInv, TypeOK, NodeOK
<1>2. /\ r \in Raft /\ r.role = "Follower" /\ r.log = disk[n].log
      /\ r.commit = disk[n].commit
      /\ r.delivered = disk[n].applied /\ r.ready = disk[n].applied
  BY <1>1, NewRaftLemma
<1>3. v \in ValidatorState /\ v.building = NoBlock
  <2>1. u \in ValidatorState /\ u.building = NoBlock
    BY <1>1 DEF Disconnected, ValidatorState
  <2>2. DOMAIN tree \subseteq BlockId
    BY <1>1, MaxBlocksAssumption DEF BlockId
  <2> HIDE DEF u
  <2> QED  BY <2>1, <2>2, ReconnectedLemma DEF Reconnected, ValidatorState
<1>4. P \subseteq Node
  BY <1>1, SettingsLemma
<1>5. /\ None \in LeaderState /\ Idle \in FollowerState
      /\ NewBlockQueue \in Queue /\ NewBlockQueue.commit_queue = << >>
      /\ "recv" \in Phase
  BY NewBlockQueueLemma DEF None, Idle, LeaderState, FollowerState, Phase, Running
<1> HIDE DEF r, v, P
<1>6. /\ raft' = [raft EXCEPT ![n] = r]
      /\ leader_state' = [leader_state EXCEPT ![n] = None]
      /\ follower_state' = [follower_state EXCEPT ![n] = Idle]
      /\ block_queue' = [block_queue EXCEPT ![n] = NewBlockQueue]
      /\ raft_id_to_peer_id' = [raft_id_to_peer_id EXCEPT ![n] = P]
      /\ validator' = [validator EXCEPT ![n] = v]
      /\ phase' = [phase EXCEPT ![n] = "recv"]
      /\ UNCHANGED <<disk, sent, tree, stops>>
  BY DEF Restart, Goto, r, v, P
<1>7. TypeOK'
  BY <1>1, <1>2, <1>3, <1>4, <1>5, <1>6 DEF TypeOK
<1>8. /\ raft'[n] = r /\ leader_state'[n] = None /\ follower_state'[n] = Idle
      /\ block_queue'[n] = NewBlockQueue /\ validator'[n] = v
  BY <1>1, <1>6 DEF TypeOK
<1>9. NodeOK(n)'
  <2>1. DurableOK(n)'
    BY <1>1, <1>6 DEF DurableOK
  <2>2. RolesOK(n)' /\ BuildOK(n)' /\ CommitOK(n)'
    BY <1>2, <1>3, <1>8
       DEF RolesOK, BuildOK, CommitOK, CommittingBlock, None, Idle, Building, Committing
  <2>3. IndexOK(n)'
    <3>1. disk[n].applied \in Nat /\ disk[n].commit \in Nat
      BY <1>1 DEF Disk
    <3> QED  BY <1>1, <1>2, <1>5, <1>6, <1>8, <3>1 DEF DurableOK, IndexOK
  <2> QED  BY <2>1, <2>2, <2>3 DEF NodeOK
<1>10. ASSUME NEW m \in Node \ {n} PROVE Untouched(m)
  BY <1>1, <1>6 DEF Untouched, TypeOK
<1> QED  BY <1>7, <1>9, <1>10, Compose

\* The validator carries out a commit: a request of an engine that runs turns
\* into an update for it.
LEMMA ValidatorCommitInv ==
  ASSUME IndInv, NEW n \in Node, NEW b \in BlockId, ValidatorCommit(n, b)
  PROVE  IndInv'
<1> USE DEF ValidatorCommit
<1> DEFINE v == Committed(validator[n], b, phase[n] \in Running)
<1>1. TypeOK /\ NodeOK(n) /\ validator[n] \in ValidatorState
  BY DEF IndInv, TypeOK
<1>2. /\ v \in ValidatorState /\ v.building = validator[n].building
      /\ Range(validator[n].requests) = Range(v.requests) \cup {b}
      /\ Up(n) => v.inbox = validator[n].inbox \cup {Commit(b)}
  <2>2. validator[n].requests \in Seq(BlockId)
    BY <1>1 DEF ValidatorState
  <2>3. v \in ValidatorState
    BY <1>1, ValidatorLemma
  <2>4. v.building = validator[n].building /\ v.requests = Tail(validator[n].requests)
    BY <1>1 DEF Committed, ValidatorState
  <2>5. Range(validator[n].requests) = Range(v.requests) \cup {b}
    BY <2>2, <2>4, RangeLemma
  <2>6. Up(n) => v.inbox = validator[n].inbox \cup {Commit(b)}
    BY <1>1 DEF Committed, ValidatorState, Up
  <2> QED  BY <2>3, <2>4, <2>5, <2>6
<1> HIDE DEF v
<1>3. validator' = [validator EXCEPT ![n] = v]
  BY DEF v
<1>4. TypeOK' /\ validator'[n] = v
  BY <1>1, <1>2, <1>3 DEF TypeOK
<1>5. NodeOK(n)'
  <2>1. DurableOK(n)'
    BY <1>1 DEF NodeOK, DurableOK
  <2>2. ASSUME Up(n)' PROVE RolesOK(n)' /\ BuildOK(n)' /\ CommitOK(n)' /\ IndexOK(n)'
    <3>1. Up(n)
      BY <2>2 DEF Up
    <3>2. RolesOK(n)' /\ IndexOK(n)' /\ BuildOK(n)'
      BY <1>1, <1>2, <1>4, <3>1 DEF NodeOK, RolesOK, IndexOK, BuildOK
    <3>3. CommitOK(n)'
      BY <1>1, <1>2, <1>4, <3>1 DEF NodeOK, CommitOK, CommittingBlock
    <3> QED  BY <3>2, <3>3
  <2> QED  BY <2>1, <2>2 DEF NodeOK
<1>6. ASSUME NEW m \in Node \ {n} PROVE Untouched(m)
  BY <1>1, <1>3 DEF Untouched, TypeOK
<1> QED  BY <1>4, <1>5, <1>6, Compose

-----------------------------------------------------------------------------
(* The theorems *)

\* A network that starts is in order.
LEMMA InitInv == Init => IndInv
<1> SUFFICES ASSUME Init PROVE IndInv
  OBVIOUS
<1> USE DEF Init
<1>1. NewDisk \in Disk /\ NewDisk.commit = 0 /\ NewDisk.applied = 0 /\ NewDisk.log = << >>
  BY MaxTermAssumption DEF NewDisk, Disk, Term
<1>2. /\ NewRaft(NewDisk) \in Raft /\ NewRaft(NewDisk).role = "Follower"
      /\ NewRaft(NewDisk).log = << >> /\ NewRaft(NewDisk).commit = 0
      /\ NewRaft(NewDisk).delivered = 0 /\ NewRaft(NewDisk).ready = 0
  BY <1>1, NewRaftLemma
<1>3. NewMessage \in Message /\ NewMessage.commit = 0 /\ NewMessage.log = << >>
  BY MaxTermAssumption DEF NewMessage, Message, Term, Role
<1>4. NewValidator \in ValidatorState /\ NewValidator.building = NoBlock
  BY DEF NewValidator, ValidatorState, Chain
<1>5. /\ None \in LeaderState /\ Idle \in FollowerState
      /\ NewBlockQueue \in Queue /\ NewBlockQueue.commit_queue = << >>
      /\ "recv" \in Phase
  BY NewBlockQueueLemma DEF None, Idle, LeaderState, FollowerState, Phase, Running
<1>6. TypeOK
  <2>1. tree \in Seq(BlockRecord) /\ Len(tree) <= MaxBlocks
    BY MaxBlocksAssumption
  <2>2. stops \in 0..MaxStops /\ InitPeers \in SUBSET Node
    BY MaxStopsAssumption, PeersAssumption
  <2> QED  BY <1>1, <1>2, <1>3, <1>4, <1>5, <2>1, <2>2 DEF TypeOK
<1>7. ASSUME NEW n \in Node PROVE NodeOK(n)
  <2>1. /\ disk[n] = NewDisk /\ raft[n] = NewRaft(NewDisk) /\ sent[n] = NewMessage
        /\ validator[n] = NewValidator /\ leader_state[n] = None
        /\ follower_state[n] = Idle /\ block_queue[n] = NewBlockQueue
    OBVIOUS
  <2>2. DurableOK(n)
    BY <1>1, <1>3, <2>1 DEF DurableOK
  <2>3. RolesOK(n) /\ BuildOK(n) /\ CommitOK(n)
    BY <1>2, <1>4, <2>1
       DEF RolesOK, BuildOK, CommitOK, CommittingBlock, None, Idle, Building, Committing
  <2>4. IndexOK(n)
    BY <1>1, <1>2, <1>5, <2>1 DEF IndexOK
  <2> QED  BY <2>2, <2>3, <2>4 DEF NodeOK
<1> QED  BY <1>6, <1>7 DEF IndInv

\* Every step of every engine and validator keeps the invariant.
LEMMA NextInv == IndInv /\ [Next]_vars => IndInv'
<1> SUFFICES ASSUME IndInv, [Next]_vars PROVE IndInv'
  OBVIOUS
<1>1. CASE UNCHANGED vars
  BY <1>1 DEF IndInv, TypeOK, NodeOK, Up, RolesOK, BuildOK, CommitOK, CommittingBlock,
              IndexOK, DurableOK, vars
<1>2. ASSUME NEW n \in Node, HandleUpdate(n) PROVE IndInv'
  BY <1>2, OnBlockNewInv, OnBlockValidInv, OnBlockInvalidInv, LeaderOnBlockCommitInv,
     FollowerOnBlockCommitInv, IgnoreBlockCommitInv, StepMessageInv DEF HandleUpdate, OnBlockCommit, OnPeerMessage
<1>3. ASSUME NEW n \in Node, Ready(n) PROVE IndInv'
  BY <1>3, NothingReadyInv, ProcessReadyInv, DeliverEmptyInv, DeliverBlockInv,
     DeliverConfChangeInv, DeliverOwnRemovalInv, FinishReadyInv DEF Ready
<1>4. ASSUME NEW n \in Node, NEW b \in BlockId, ValidatorCommit(n, b) PROVE IndInv'
  BY <1>4, ValidatorCommitInv
<1>5. ASSUME NEW n \in Node, Tick(n) \/ Stop(n) \/ CrashInReady(n) \/ Restart(n)
      PROVE  IndInv'
  BY <1>5, TickInv, StopInv, CrashInReadyInv, RestartInv
<1>6. ASSUME NEW n \in Node, Quiet(n) PROVE IndInv'
  BY <1>1, <1>6 DEF Quiet
<1> QED  BY <1>1, <1>2, <1>3, <1>4, <1>5, <1>6 DEF Next

\* The inductive invariant holds in every state any network of engines reaches.
THEOREM Invariance == Spec => []IndInv
  BY InitInv, NextInv, PTL DEF Spec

\* The state of the engines is always of its types: in particular a Holding
\* state always names a block, and no index leaves its range.
THEOREM TypeCorrect == Spec => []TypeOK
<1>1. IndInv => TypeOK
  BY DEF IndInv
<1> QED  BY <1>1, Invariance, PTL

\* Between two iterations of the loop an engine is in the role of its library.
THEOREM RolesAgree == Spec => []RoleAgreement
<1>1. IndInv => RoleAgreement
  BY DEF IndInv, NodeOK, RolesOK, RoleAgreement
<1> QED  BY <1>1, Invariance, PTL

\* on_block_commit removes the block it is told of from the queue.
THEOREM CommittingFront == Spec => []CommittingIsFront
<1>1. IndInv => CommittingIsFront
  BY DEF IndInv, NodeOK, CommitOK, CommittingBlock, CommittingIsFront
<1> QED  BY <1>1, Invariance, PTL

\* The update a Committing engine waits for is on its way.
THEOREM CommitsArrive == Spec => []CommitInFlight
<1>1. IndInv => CommitInFlight
  BY DEF IndInv, NodeOK, CommitOK, CommittingBlock, CommitInFlight
<1> QED  BY <1>1, Invariance, PTL

\* The engine and its validator agree on whether a block is being built.
THEOREM BuildingAgrees == Spec => []BuildingAgreement
<1>1. IndInv => BuildingAgreement
  BY DEF IndInv, NodeOK, BuildOK, BuildingAgreement
<1> QED  BY <1>1, Invariance, PTL

\* Whatever a crash leaves in the storage, the library can start from it.
THEOREM CrashSafe == Spec => []RestartIsPossible
<1>1. IndInv => RestartIsPossible
  BY DEF IndInv, NodeOK, DurableOK, RestartIsPossible
<1> QED  BY <1>1, Invariance, PTL

-----------------------------------------------------------------------------
\* A step that sends n to phase p, which is not a panic, panics nowhere.
LEMMA NoFault ==
  ASSUME TypeOK, NEW n \in Node, NEW p, p # "panicked",
         phase' = [phase EXCEPT ![n] = p]
  PROVE  \A m \in Node : Up(m) => phase'[m] # "panicked"
  BY DEF TypeOK, Up, Running

\* A step of n that may panic panics only at n.
LEMMA FaultAt ==
  ASSUME TypeOK, NEW n \in Node, NEW p, phase' = [phase EXCEPT ![n] = p],
         NEW m \in Node, Up(m), phase'[m] = "panicked"
  PROVE  m = n /\ p = "panicked"
  BY DEF TypeOK, Up, Running

\* The panics of handle_update
LEMMA HandleUpdatePanic ==
  ASSUME IndInv, NEW n \in Node, HandleUpdate(n),
         NEW m \in Node, Up(m), phase'[m] = "panicked"
  PROVE  MembershipPanic(m)
<1> USE DEF Goto
<1>1. TypeOK /\ NodeOK(n)
  BY DEF IndInv
<1>2. ASSUME NEW b \in BlockId, OnBlockNew(n, b) PROVE FALSE
  BY <1>1, <1>2, NoFault DEF OnBlockNew
<1>3. ASSUME NEW b \in BlockId, OnBlockValid(n, b) PROVE FALSE
  <2> DEFINE awaited == leader_state[n] \in {Publishing(b), Validating(b)}
             fault == awaited /\ raft[n].role # "Leader"
  <2>1. phase[n] = "recv" /\ Up(n)
    BY <1>3 DEF OnBlockValid, Up, Running
  <2>2. ~fault
    BY <1>1, <2>1 DEF NodeOK, RolesOK, None, Publishing, Validating
  <2>3. phase' = [phase EXCEPT ![n] = "handled"]
    BY <1>3, <2>2 DEF OnBlockValid
  <2> QED  BY <1>1, <2>3, NoFault
<1>4. ASSUME NEW b \in BlockId, LeaderOnBlockCommit(n, b) PROVE MembershipPanic(m)
  <2>1. phase[n] = "recv" /\ Up(n) /\ leader_state[n] = Committing(b)
    BY <1>4 DEF LeaderOnBlockCommit, PopCommitted, Up, Running
  <2>2. validator[n].building = NoBlock /\ raft[n].role = "Leader"
    BY <1>1, <2>1 DEF NodeOK, BuildOK, RolesOK, None, Building, Committing
  <2>3. CASE phase' = [phase EXCEPT ![n] = "handled"]
    BY <1>1, <2>3, NoFault
  <2>4. CASE Cardinality(Difference(n, b)) > 1 /\ phase' = [phase EXCEPT ![n] = "panicked"]
    <3>1. m = n
      BY <1>1, <2>4, FaultAt
    <3> QED  BY <1>4, <2>4, <3>1 DEF MembershipPanic
  <2> QED  BY <1>4, <2>2, <2>3, <2>4 DEF LeaderOnBlockCommit
<1>5. ASSUME NEW b \in BlockId, FollowerOnBlockCommit(n, b) PROVE FALSE
  BY <1>1, <1>5, NoFault DEF FollowerOnBlockCommit
<1>6. ASSUME NEW b \in BlockId, IgnoreBlockCommit(n, b) PROVE FALSE
  BY <1>1, <1>6, NoFault DEF IgnoreBlockCommit
<1>7. ASSUME NEW b \in BlockId, OnBlockInvalid(n, b) PROVE FALSE
  BY <1>1, <1>7, NoFault DEF OnBlockInvalid
<1>8. ASSUME NEW k \in Node, StepMessage(n, k) PROVE FALSE
  <2>1. phase' = [phase EXCEPT ![n] = "handled"]
    BY <1>8 DEF StepMessage
  <2> QED  BY <1>1, <2>1, NoFault
<1> QED
  BY <1>2, <1>3, <1>4, <1>5, <1>6, <1>7, <1>8
     DEF HandleUpdate, OnBlockCommit, OnPeerMessage

\* The panics of process_ready
LEMMA ReadyPanic ==
  ASSUME IndInv, NEW n \in Node, Ready(n),
         NEW m \in Node, Up(m), phase'[m] = "panicked"
  PROVE  MembershipPanic(m)
<1> USE DEF Goto
<1>1. TypeOK /\ NodeOK(n)
  BY DEF IndInv
<1>2. CASE NothingReady(n)
  BY <1>1, <1>2, NoFault DEF NothingReady
<1>3. CASE ProcessReady(n)
  <2>1. TakeRole(n) /\ Up(n)
    BY <1>3 DEF ProcessReady, Up, Running
  <2>2. RoleTaken(n)
    BY <2>1, TakeRoleLemma
  <2> QED  BY <2>2 DEF RoleTaken, Up, Running
<1>4. CASE DeliverEmpty(n) \/ DeliverBlock(n)
  BY <1>4 DEF DeliverEmpty, DeliverBlock, Up, Running
<1>5. CASE DeliverConfChange(n)
  <2> DEFINE e == NextEntry(n)
             unknown == e.type = "RemoveNode" /\ e.node \notin raft_id_to_peer_id[n]
             built == leader_state[n] = ChangingConfig /\ validator[n].building # NoBlock
  <2>1. Delivering(n) /\ Up(n)
    BY <1>5 DEF DeliverConfChange, Delivering, Up, Running
  <2>2. ~built
    BY <1>1, <2>1 DEF NodeOK, BuildOK, Building, ChangingConfig
  <2>3. CASE unknown
    <3>1. phase' = [phase EXCEPT ![n] = "panicked"]
      BY <1>5, <2>3 DEF DeliverConfChange
    <3>2. m = n
      BY <1>1, <3>1, FaultAt
    <3> QED  BY <2>1, <2>3, <3>2 DEF MembershipPanic
  <2>4. CASE ~unknown
    <3>1. phase' = [phase EXCEPT ![n] = "deliver"]
      BY <1>5, <2>2, <2>4 DEF DeliverConfChange
    <3> QED  BY <1>1, <3>1, NoFault
  <2> QED  BY <2>3, <2>4
<1>6. CASE DeliverOwnRemoval(n)
  BY <1>1, <1>6, NoFault DEF DeliverOwnRemoval
<1>7. CASE FinishReady(n)
  <2>1. phase' = [phase EXCEPT ![n] = "recv"]
    BY <1>7 DEF FinishReady
  <2> QED  BY <1>1, <2>1, NoFault
<1> QED  BY <1>2, <1>3, <1>4, <1>5, <1>6, <1>7 DEF Ready

\* The panics of a step
LEMMA PanicStep ==
  ASSUME IndInv, [Next]_vars, NEW m \in Node, Up(m), phase'[m] = "panicked"
  PROVE  MembershipPanic(m)
<1>1. TypeOK
  BY DEF IndInv
<1>2. CASE UNCHANGED vars
  BY <1>2 DEF vars, Up, Running
<1>3. ASSUME NEW n \in Node, HandleUpdate(n) PROVE MembershipPanic(m)
  BY <1>3, HandleUpdatePanic
<1>4. ASSUME NEW n \in Node, Ready(n) PROVE MembershipPanic(m)
  BY <1>4, ReadyPanic
<1>5. ASSUME NEW n \in Node, NEW p \in {"ticked", "down", "recv"},
             phase' = [phase EXCEPT ![n] = p]
      PROVE  FALSE
  BY <1>1, <1>5, NoFault
<1>6. ASSUME NEW n \in Node, Tick(n) PROVE FALSE
  BY <1>5, <1>6 DEF Tick, Goto
<1>7. ASSUME NEW n \in Node, Stop(n) \/ CrashInReady(n) PROVE FALSE
  BY <1>5, <1>7 DEF Stop, CrashInReady, Lost, Goto
<1>8. ASSUME NEW n \in Node, Restart(n) PROVE FALSE
  BY <1>5, <1>8 DEF Restart, Goto
<1>9. ASSUME NEW n \in Node, NEW b \in BlockId, ValidatorCommit(n, b) PROVE FALSE
  BY <1>9 DEF ValidatorCommit, Up, Running
<1>10. ASSUME NEW n \in Node, Quiet(n) PROVE UNCHANGED vars
  BY <1>10 DEF Quiet
<1> QED
  BY <1>2, <1>3, <1>4, <1>6, <1>7, <1>8, <1>9, <1>10 DEF Next

\* No engine panics except in a membership change.
THEOREM OnlyMembershipPanics == Spec => PanicsAreMembershipChanges
<1>1. IndInv /\ [Next]_vars =>
        [\A n \in Node : Up(n) /\ phase'[n] = "panicked" => MembershipPanic(n)]_vars
  BY PanicStep
<1> QED  BY <1>1, Invariance, PTL DEF Spec, PanicsAreMembershipChanges
=============================================================================
