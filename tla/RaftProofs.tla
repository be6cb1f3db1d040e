----------------------------- MODULE RaftProofs -----------------------------
(***************************************************************************)
(* What is committed stays committed, for any number of peers, blocks,     *)
(* terms, elections and stops: the order in which process_ready sends and  *)
(* writes keeps the promises on which Raft's argument rests.               *)
(*                                                                         *)
(* This holds as long as no crash falls into an append that writes over    *)
(* entries (WholeOverwrites in LogProofs).  The code does not give that:   *)
(* MCTornAppend shows two engines that disagree after such a crash.  The   *)
(* theorems say that there is no other way.                                *)
(***************************************************************************)
EXTENDS LogProofs

-----------------------------------------------------------------------------
(* The logs of the network *)

\* The logs that are not the library's memory at n.
OtherLogs(n) == {raft[m].log : m \in Node \ {n}}
                  \cup {disk[m].log : m \in Node} \cup {sent[m].log : m \in Node}

Logs == {raft[m].log : m \in Node}
          \cup {disk[m].log : m \in Node} \cup {sent[m].log : m \in Node}

\* Log l has an entry of term t at index i.
Has(l, i, t) == i \in DOMAIN l /\ l[i].term = t

\* ... or has gone on to a later term.
HasOrLater(l, i, t) == Has(l, i, t) \/ \E j \in DOMAIN l : l[j].term > t

\* The terms in a log grow, and the entries of one term are the beginning of what
\* its leader appended, after the same entries of earlier terms.
LogsOK ==
  /\ \A l \in Logs : \A i, j \in DOMAIN l : i <= j => l[i].term <= l[j].term
  /\ \A k, l \in Logs : \A i \in DOMAIN k, j \in DOMAIN l :
       i <= j /\ k[i].term = l[j].term => \A h \in 1..i : k[h] = l[h]

-----------------------------------------------------------------------------
(* Votes *)

\* m has answered w in term t, or is past that term.
Voted(m, t, w) == sent[m].term > t \/ (sent[m].term = t /\ sent[m].vote = w)

\* w has been elected in term t.
Elected(w, t) ==
  /\ Quorum({m \in Node : Voted(m, t, w)}, InitPeers)
  /\ disk[w].term >= t
  /\ raft[w].term = t => raft[w].role # "Candidate"

\* There is no entry without an election.
ElectedOK == \A l \in Logs : \A i \in DOMAIN l : \E w \in Node : Elected(w, l[i].term)

\* The library, the storage and the last message of n, in the order in which
\* they learn of a term, a vote, or a commit.
SavedOK(n) ==
  /\ sent[n].term <= disk[n].term /\ disk[n].term <= raft[n].term
  /\ disk[n].term = raft[n].term /\ disk[n].vote # NoNode => raft[n].vote = disk[n].vote
  /\ sent[n].term = disk[n].term /\ sent[n].vote # NoNode => disk[n].vote = sent[n].vote
  /\ disk[n].commit <= raft[n].commit /\ raft[n].commit <= Len(raft[n].log)
  /\ \A i \in 1..disk[n].commit : raft[n].log[i] = disk[n].log[i]

\* A candidate asks for votes with the log it has.
CandidateOK(n) ==
  raft[n].role = "Candidate" =>
    /\ raft[n].vote = n
    /\ sent[n].term = raft[n].term => sent[n].vote = n /\ sent[n].log = raft[n].log

\* A vote for log k, given in term t: k is as good as log l, unless l is of that
\* term by now.
Granted(k, l, t) == UpToDate(k, l) \/ \E j \in DOMAIN l : l[j].term >= t

\* The votes of m for n are answers to a message of n, and stay justified by every
\* log that m has had since.
VotesOK(n, m) ==
  /\ raft[m].vote = n => raft[m].term <= sent[n].term
  /\ disk[m].vote = n => disk[m].term <= sent[n].term
  /\ sent[m].vote = n => sent[m].term <= sent[n].term
  /\ raft[n].role = "Candidate" =>
       /\ raft[m].vote = n /\ raft[m].term = raft[n].term =>
            Granted(raft[n].log, raft[m].log, raft[n].term)
       /\ disk[m].vote = n /\ disk[m].term = raft[n].term =>
            /\ Granted(raft[n].log, raft[m].log, raft[n].term)
            /\ Granted(raft[n].log, disk[m].log, raft[n].term)
       /\ sent[m].vote = n /\ sent[m].term = raft[n].term =>
            /\ Granted(raft[n].log, raft[m].log, raft[n].term)
            /\ Granted(raft[n].log, disk[m].log, raft[n].term)
            /\ Granted(raft[n].log, sent[m].log, raft[n].term)

\* A leader has written its term and vote and is the only one of its term.  All the
\* entries of its term are its own, and those that others know of it has written.
LeaderOK(n) ==
  raft[n].role = "Leader" =>
    /\ raft[n].vote = n /\ disk[n].term = raft[n].term /\ disk[n].vote = n
    /\ \A m \in Node \ {n} : raft[m].role = "Leader" => raft[m].term # raft[n].term
    /\ Has(raft[n].log, Len(raft[n].log), raft[n].term)
    /\ \A l \in OtherLogs(n) : \A i \in DOMAIN l : l[i].term = raft[n].term =>
         Has(raft[n].log, i, raft[n].term) /\ Has(disk[n].log, i, raft[n].term)

\* The last message of a leader ends with an entry of its term and tells all that
\* others know of that term, also when the leader has stopped since.
LeaderMessageOK(n) ==
  sent[n].role = "Leader" =>
    /\ Has(sent[n].log, Len(sent[n].log), sent[n].term)
    /\ \A m \in Node \ {n} :
         /\ raft[m].role = "Leader" => raft[m].term # sent[n].term
         /\ \A l \in {raft[m].log, disk[m].log, sent[m].log} : \A i \in DOMAIN l :
              l[i].term = sent[n].term => Has(sent[n].log, i, sent[n].term)

\* What a follower acknowledges it has written, and it does not lose it to an older
\* term.
FollowerMessageOK(n) ==
  sent[n].role = "Follower" => \A i \in DOMAIN sent[n].log :
    sent[n].log[i].term = sent[n].term =>
      /\ HasOrLater(disk[n].log, i, sent[n].term)
      /\ HasOrLater(raft[n].log, i, sent[n].term)

-----------------------------------------------------------------------------
(* Decisions *)

Stores(m, i, t) ==
  /\ disk[m].term >= t
  /\ Has(disk[m].log, i, t) /\ Has(raft[m].log, i, t)
  /\ sent[m].term > t => Has(sent[m].log, i, t)

\* The entry of term t at index i is stored by a majority, and no log of a later
\* term lacks it.
Chosen(i, t) ==
  /\ Quorum({m \in Node : Stores(m, i, t)}, InitPeers)
  /\ \A l \in Logs : \A j \in DOMAIN l : l[j].term > t => Has(l, i, t)

ChosenUpTo(l, c) == c > 0 => Chosen(c, l[c].term)

ChosenOK(n) == /\ ChosenUpTo(raft[n].log, raft[n].commit)
                /\ ChosenUpTo(disk[n].log, disk[n].commit)
                /\ ChosenUpTo(sent[n].log, sent[n].commit)

RaftInv ==
  /\ LogsOK /\ ElectedOK
  /\ \A n \in Node : /\ SavedOK(n) /\ CandidateOK(n) /\ LeaderOK(n)
                     /\ LeaderMessageOK(n) /\ FollowerMessageOK(n) /\ ChosenOK(n)
                     /\ \A m \in Node \ {n} : VotesOK(n, m)

-----------------------------------------------------------------------------
(* The kinds of step, for a fixed membership of two or more peers, by the fields *)
(* that the invariant speaks of                                                   *)

ManyPeers == FixedMembership /\ Cardinality(InitPeers) >= 2

SameRaft(n) ==
  /\ raft'[n].role = raft[n].role /\ raft'[n].term = raft[n].term
  /\ raft'[n].vote = raft[n].vote /\ raft'[n].log = raft[n].log
  /\ raft'[n].commit = raft[n].commit

SameDisk(n) ==
  /\ disk'[n].term = disk[n].term /\ disk'[n].vote = disk[n].vote
  /\ disk'[n].log = disk[n].log /\ disk'[n].commit = disk[n].commit

SameSent(n) == sent'[n] = sent[n]

Idles(n) == SameRaft(n) /\ SameDisk(n) /\ SameSent(n)

\* A leader appends an entry.
Extends(n) ==
  /\ raft'[n].role = "Leader" /\ raft'[n].term = raft[n].term
  /\ raft'[n].vote = raft[n].vote /\ raft'[n].commit = raft[n].commit
  /\ \E e \in Entry : e.term = raft[n].term /\ Appended(raft'[n].log, raft[n].log, e)
  /\ SameDisk(n) /\ SameSent(n)

Leads(n) == Extends(n) /\ raft[n].role = "Leader"

IsElected(n) == /\ Extends(n) /\ raft[n].role = "Candidate"
                /\ Quorum(Votes(n, raft[n]), InitPeers)

\* A new campaign.
Asks(n) ==
  /\ raft'[n].role = "Candidate" /\ raft'[n].term = raft[n].term + 1
  /\ raft'[n].vote = n /\ raft'[n].log = raft[n].log /\ raft'[n].commit = raft[n].commit
  /\ SameDisk(n) /\ SameSent(n)

\* An answer to candidate m.
Answers(n, m) ==
  /\ sent[m].role = "Candidate" /\ sent[m].term >= raft[n].term
  /\ raft'[n].term = sent[m].term
  /\ sent[m].term > raft[n].term => raft'[n].role = "Follower"
  /\ sent[m].term = raft[n].term => raft'[n].role = raft[n].role
  /\ \/ raft'[n].vote = NoNode /\ (raft[n].vote = NoNode \/ sent[m].term > raft[n].term)
     \/ raft'[n].vote = raft[n].vote /\ sent[m].term = raft[n].term
     \/ /\ raft'[n].vote = m /\ UpToDate(sent[m].log, raft[n].log)
        /\ raft[n].vote = NoNode \/ sent[m].term > raft[n].term
  /\ raft'[n].log = raft[n].log /\ raft'[n].commit = raft[n].commit
  /\ SameDisk(n) /\ SameSent(n)

\* A message of leader m.
Follows(n, m) ==
  /\ sent[m].role = "Leader" /\ sent[m].term >= raft[n].term
  /\ raft'[n].role = "Follower" /\ raft'[n].term = sent[m].term
  /\ sent[m].term > raft[n].term => raft'[n].vote = NoNode
  /\ sent[m].term = raft[n].term => raft'[n].vote = raft[n].vote
  /\ \/ raft'[n].log = raft[n].log /\ IsPrefix(sent[m].log, raft[n].log)
     \/ raft'[n].log = sent[m].log /\ ~IsPrefix(sent[m].log, raft[n].log)
  /\ raft'[n].commit = raft[n].commit \/ raft'[n].commit = sent[m].commit
  /\ raft[n].commit <= raft'[n].commit /\ raft'[n].commit <= Len(raft'[n].log)
  /\ \A i \in 1..raft[n].commit : raft'[n].log[i] = raft[n].log[i]
  /\ SameDisk(n) /\ SameSent(n)

\* A majority has acknowledged entry i.
Decides(n, i) ==
  /\ raft[n].role = "Leader"
  /\ i \in Acknowledged(n, raft[n], InitPeers)
  /\ raft'[n].role = raft[n].role /\ raft'[n].term = raft[n].term
  /\ raft'[n].vote = raft[n].vote /\ raft'[n].log = raft[n].log
  /\ raft'[n].commit = i
  /\ SameDisk(n) /\ SameSent(n)

\* What the library holds is sent,
Sends(n) ==
  /\ sent'[n].role = raft[n].role /\ sent'[n].term = raft[n].term
  /\ sent'[n].vote = raft[n].vote /\ sent'[n].log = raft[n].log
  /\ sent'[n].commit = raft[n].commit

\* and written.
Writes(n) ==
  /\ disk'[n].term = raft[n].term /\ disk'[n].vote = raft[n].vote
  /\ disk'[n].log = raft[n].log /\ disk'[n].commit = raft[n].commit

WritesLog(n) ==
  /\ disk'[n].term = disk[n].term /\ disk'[n].vote = disk[n].vote
  /\ disk'[n].log = raft[n].log /\ disk'[n].commit = disk[n].commit

Finishes(n) == SameRaft(n) /\ Writes(n) /\ Sends(n)

\* A stop in the middle of it, or a start.
Resets(n) ==
  /\ raft'[n].role = "Follower" /\ raft'[n].term = disk'[n].term
  /\ raft'[n].vote = disk'[n].vote /\ raft'[n].log = disk'[n].log
  /\ raft'[n].commit = disk'[n].commit
  /\ SameDisk(n) \/ WritesLog(n) \/ Writes(n)
  /\ SameSent(n) \/ (raft[n].role = "Leader" /\ Sends(n))

Changes(n) ==
  \/ Idles(n) \/ Leads(n) \/ IsElected(n) \/ Asks(n)
  \/ \E m \in Node \ {n} : Answers(n, m) \/ Follows(n, m)
  \/ \E i \in Nat : Decides(n, i)
  \/ Finishes(n) \/ Resets(n)

LogsMatch == \A k, l \in Logs : Matching(k, l)

\* The logs of the invariant match: an index of a log is one of a sequence.
LEMMA LogsMatching == IndInv /\ LogsOK => LogsMatch
<1> SUFFICES ASSUME IndInv, LogsOK, NEW k \in Logs, NEW l \in Logs,
                    NEW i \in DOMAIN k \cap DOMAIN l, k[i].term = l[i].term
             PROVE  \A h \in 1..i : k[h] = l[h]
  BY DEF LogsMatch, Matching
<1>1. k \in Seq(Entry)
  BY DEF Logs, IndInv, TypeOK, Raft, Disk, Message
<1>2. i <= i
  BY <1>1
<1> QED  BY <1>2 DEF LogsOK

\* The library's part of a step.
LEMMA LibraryChanges ==
  ASSUME ManyPeers, IndInv, FixedInv, LogsOK, NEW n \in Node, Up(n), LibraryMoves(n),
         SameDisk(n), SameSent(n)
  PROVE  Changes(n)
<1> DEFINE r == raft[n]
           q == raft'[n]
<1>1. /\ r \in Raft /\ r.commit <= Len(r.log) /\ r.log \in Seq(Entry) /\ Len(r.log) \in Nat
      /\ r.commit \in Nat /\ r.term \in Term /\ r.term \in Nat
  BY Indices DEF Raft
<1>2. raft_id_to_peer_id[n] = InitPeers
  BY DEF FixedInv, FixedOK
<1>3. InitPeers # {n}
  <2>1. Cardinality({n}) = 1
    BY FS_Singleton
  <2> QED  BY <2>1 DEF ManyPeers
<1>4. Grows(r, q)
  BY LibraryGrows
<1> HIDE DEF r, q
<1>5. CASE Keeps(n)
  BY <1>5 DEF Keeps, Changes, Idles, SameRaft
<1>6. CASE Appends(n)
  <2>1. PICK e : Fresh(n, e) /\ q = AppendAsLeader(n, r, e, InitPeers)
    BY <1>2, <1>6 DEF Appends, r, q
  <2>2. e \in Entry /\ e.term = r.term /\ r.role = "Leader"
    BY <1>6, <2>1 DEF Fresh, Appends, r
  <2> DEFINE x == AppendAsLeader(n, r, e, InitPeers)
  <2>3. r \in Raft /\ e \in Entry /\ r.commit <= Len(r.log)
    BY <1>1, <2>2
  <2>4. /\ x.role = r.role /\ x.term = r.term /\ x.vote = r.vote
        /\ Appended(x.log, r.log, e)
        /\ InitPeers = {n} => x.commit = Len(r.log) + 1
        /\ InitPeers # {n} => x.commit = r.commit
        /\ x.delivered = r.delivered
    BY <2>3, AppendAsLeaderFields
  <2>5. q = x
    BY <2>1
  <2> HIDE DEF x
  <2> QED  BY <1>3, <2>2, <2>4, <2>5 DEF Changes, Leads, Extends, r, q
<1>7. CASE Campaigns(n)
  <2>1. r.term < MaxTerm /\ q = Campaign(n, r, InitPeers)
    BY <1>2, <1>7 DEF Campaigns, r, q
  <2>2. q.term = r.term + 1 /\ q.vote = n
    BY <1>1, <2>1, CampaignFields
  <2>3. q.role = "Candidate" /\ q.log = r.log /\ q.commit = r.commit
    BY <1>1, <1>3, <2>1, CampaignFields
  <2> QED  BY <2>2, <2>3 DEF Changes, Asks, r, q
<1>8. ASSUME NEW m \in Node \ {n}, HearsCandidate(n, m) PROVE Changes(n)
  <2> DEFINE s == sent[m]
  <2>1. s \in Message /\ s.term \in Nat
    BY MaxTermAssumption DEF IndInv, TypeOK, Message, Term
  <2>2. s.role = "Candidate" /\ s.term >= r.term /\ q = HandleRequestVote(r, s, m)
    BY <1>8 DEF HearsCandidate, r, q
  <2> HIDE DEF s
  <2>3. /\ q.term = s.term /\ q.log = r.log /\ q.commit = r.commit
        /\ s.term > r.term => q.role = "Follower"
        /\ ~(s.term > r.term) => q.role = r.role
        /\ (s.term > r.term \/ r.vote = NoNode) /\ UpToDate(s.log, r.log) => q.vote = m
        /\ (s.term > r.term \/ r.vote = NoNode) /\ ~UpToDate(s.log, r.log) => q.vote = NoNode
        /\ ~(s.term > r.term \/ r.vote = NoNode) => q.vote = r.vote
    BY <1>1, <2>1, <2>2, HandleRequestVoteFields
  <2>4. s.term > r.term \/ s.term = r.term
    BY <1>1, <2>1, <2>2
  <2>5. /\ s.term = r.term => ~(s.term > r.term)
        /\ s.term > r.term \/ s.term = r.term
    BY <1>1, <2>1, <2>2
  <2>6. Answers(n, m)
    BY <2>2, <2>3, <2>5 DEF Answers, r, q, s
  <2> QED  BY <2>6 DEF Changes
<1>9. ASSUME NEW m \in Node \ {n}, HearsLeader(n, m) PROVE Changes(n)
  <2> DEFINE s == sent[m]
  <2>1. s \in Message /\ s.term \in Nat /\ s.commit \in Nat
    BY MaxTermAssumption DEF IndInv, TypeOK, Message, Term
  <2>2. s.role = "Leader" /\ s.term >= r.term /\ q = HandleAppend(r, s)
    BY <1>9 DEF HearsLeader, r, q
  <2> HIDE DEF s
  <2>3. /\ q.role = "Follower" /\ q.term = s.term
        /\ q.log = Received(r.log, s.log)
        /\ q.commit = r.commit \/ q.commit = s.commit
        /\ s.term > r.term => q.vote = NoNode
        /\ ~(s.term > r.term) => q.vote = r.vote
    BY <1>1, <2>1, <2>2, HandleAppendFields
  <2>4. s.term = r.term => ~(s.term > r.term)
    BY <1>1, <2>1
  <2>5. q.commit <= Len(q.log)
    <3>1. Consistent(r, s) /\ s.commit <= Len(s.log)
      BY <1>9 DEF HearsLeader, r, s, IndInv, NodeOK, DurableOK
    <3> QED  BY <1>1, <2>1, <2>2, <3>1, HandleAppendLemma
  <2>6. /\ IsPrefix(s.log, r.log) => q.log = r.log
        /\ ~IsPrefix(s.log, r.log) => q.log = s.log
    <3>1. s.log \in Seq(Entry)
      BY <2>1 DEF Message
    <3>2. Matching(r.log, s.log)
      BY LogsMatching DEF LogsMatch, Logs, r, s
    <3> QED  BY <1>1, <2>3, <3>1, <3>2, ReceivedMatching
  <2>7. Follows(n, m)
    BY <1>4, <2>2, <2>3, <2>4, <2>5, <2>6 DEF Follows, Grows, r, q, s
  <2> QED  BY <2>7 DEF Changes
<1>10. CASE Wins(n)
  <2>1. /\ q = BecomeLeader(n, r, InitPeers) /\ EmptyEntry(r.term) \in Entry
        /\ r.role = "Candidate" /\ Quorum(Votes(n, r), InitPeers)
    BY <1>1, <1>2, <1>10, EntryTypes DEF Wins, r, q
  <2>2. /\ q.role = "Leader" /\ q.term = r.term /\ q.vote = r.vote
    <3>1. r \in Raft /\ r.commit <= Len(r.log) /\ q = BecomeLeader(n, r, InitPeers)
      BY <1>1, <2>1
    <3> QED  BY <3>1, BecomeLeaderFields
  <2>3. Appended(q.log, r.log, EmptyEntry(r.term))
    BY <1>1, <2>1, BecomeLeaderFields
  <2>4. q.commit = r.commit
    BY <1>1, <1>3, <2>1, BecomeLeaderFields
  <2>5. EmptyEntry(r.term).term = r.term
    BY DEF EmptyEntry
  <2> QED  BY <2>1, <2>2, <2>3, <2>4, <2>5 DEF Changes, IsElected, Extends, r, q
<1>11. CASE Advances(n)
  <2>1. PICK i \in Acknowledged(n, r, InitPeers) :
          q = [r EXCEPT !.commit = i, !.msgs = "waiting"]
    BY <1>2, <1>11 DEF Advances, r, q
  <2>2. i \in Nat /\ r.role = "Leader"
    BY <1>1, <1>11, <2>1 DEF Acknowledged, Advances, r
  <2>3. /\ q.role = r.role /\ q.term = r.term /\ q.vote = r.vote /\ q.log = r.log
        /\ q.commit = i
    BY <1>1, <2>1 DEF Raft
  <2>4. Decides(n, i)
    BY <2>1, <2>2, <2>3 DEF Decides, r, q
  <2> QED  BY <2>2, <2>4 DEF Changes
<1> QED
  BY <1>5, <1>6, <1>7, <1>8, <1>9, <1>10, <1>11 DEF LibraryMoves, Steps

OthersIdle(n) == \A m \in Node \ {n} : Idles(m)

\* A step of the network is a change at one engine.
LEMMA NextChanges ==
  ASSUME ManyPeers, IndInv, FixedInv, LogsOK, [Next]_vars, [NoTornOverwrite]_vars
  PROVE  \E n \in Node : Changes(n) /\ OthersIdle(n)
<1>1. ASSUME NEW m \in Node, Rests(m) PROVE Idles(m)
  BY <1>1 DEF Rests, Idles, SameRaft, SameDisk, SameSent
<1>2. CASE \A m \in Node : Rests(m)
  <2>1. PICK n : n \in Node
    <3>1. InitPeers # {}
      BY FS_EmptySet DEF ManyPeers
    <3> QED  BY <3>1, PeersAssumption
  <2> QED  BY <1>1, <1>2, <2>1 DEF Changes, OthersIdle
<1>3. ASSUME NEW n \in Node, Alone(n), Moves(n) PROVE Changes(n) /\ OthersIdle(n)
  <2>1. OthersIdle(n)
    BY <1>1, <1>3 DEF Alone, OthersIdle
  <2>2. raft[n] \in Raft /\ disk[n] \in Disk
    BY Indices
  <2>3. CASE Works(n)
    BY <2>1, <2>3, LibraryChanges DEF Works, SameDisk, SameSent
  <2>4. CASE Pops(n)
    <3>1. SameDisk(n)
      BY <2>2, <2>4 DEF Pops, SetApplied, Disk, SameDisk
    <3> QED  BY <2>1, <2>4, <3>1, LibraryChanges DEF Pops, SameSent, LibraryMoves
  <2>5. CASE Saves(n)
    <3>1. Writes(n)
      BY <2>2, <2>5, DiskFields DEF Saves, Writes
    <3>2. Sends(n)
      BY <2>5 DEF Saves, Sends, Outgoing
    <3> QED  BY <2>1, <2>5, <3>1, <3>2 DEF Saves, Keeps, SameRaft, Finishes, Changes
  <2>6. CASE Delivers(n)
    <3>1. ~IsConf(NextEntry(n))
      <4>1. raft[n].delivered + 1 \in DOMAIN raft[n].log
        <5>1. Up(n) /\ raft[n].delivered < raft[n].ready
          BY <2>6 DEF Delivers
        <5>2. /\ raft[n].log \in Seq(Entry)
              /\ raft[n].commit \in Nat /\ raft[n].delivered \in Nat /\ raft[n].ready \in Nat
              /\ disk[n].commit \in Nat
              /\ raft[n].ready <= disk[n].commit
              /\ disk[n].commit <= raft[n].commit
              /\ raft[n].commit <= Len(raft[n].log)
          BY <5>1, Indices
        <5> QED  BY <5>1, <5>2, SMTT(20)
      <4> QED  BY <4>1 DEF FixedInv, FixedOK, NoConf, NextEntry
    <3>2. raft'[n] = Delivered(raft[n])
      BY <2>6, <3>1 DEF Delivers
    <3>3. SameRaft(n)
      BY <2>2, <3>2, DeliveredFields DEF SameRaft
    <3> QED  BY <2>1, <2>6, <3>3 DEF Delivers, Changes, Idles, SameDisk, SameSent
  <2>7. CASE Stops(n)
    <3>1. SameDisk(n) \/ WritesLog(n) \/ Writes(n)
      <4>1. CASE disk'[n] = disk[n]
        BY <4>1 DEF SameDisk
      <4>2. CASE disk'[n] = AppendEntries(disk[n], raft[n])
        BY <2>2, <4>2, DiskFields DEF WritesLog
      <4>3. CASE disk'[n] = SetHardState(AppendEntries(disk[n], raft[n]), raft[n])
        BY <2>2, <4>3, DiskFields DEF Writes
      <4>4. ASSUME NEW j \in DOMAIN disk[n].log,
                   disk'[n] = InterruptedAppend(disk[n], raft[n], j)
            PROVE  SameDisk(n) \/ WritesLog(n)
        <5>1. j \in Nat
          BY <2>2 DEF Disk
        <5>2. /\ disk'[n].term = disk[n].term /\ disk'[n].vote = disk[n].vote
              /\ disk'[n].commit = disk[n].commit
          BY <2>2, <4>4, <5>1, InterruptedLemma
        <5> QED  BY <5>2, WholeLogs DEF SameDisk, WritesLog
      <4> QED  BY <2>7, <4>1, <4>2, <4>3, <4>4 DEF Stops, WrittenSoFar
    <3>2. SameSent(n) \/ (raft[n].role = "Leader" /\ Sends(n))
      BY <2>7 DEF Stops, SentSoFar, SameSent, Sends, Outgoing
    <3>3. /\ raft'[n].role = "Follower" /\ raft'[n].term = disk'[n].term
          /\ raft'[n].vote = disk'[n].vote /\ raft'[n].log = disk'[n].log
          /\ raft'[n].commit = disk'[n].commit
      BY <2>7 DEF Stops, NewRaft
    <3> QED  BY <2>1, <3>1, <3>2, <3>3 DEF Resets, Changes
  <2>8. CASE Starts(n)
    BY <2>1, <2>8 DEF Starts, NewRaft, Resets, SameDisk, SameSent, Changes
  <2>9. CASE Rests(n)
    BY <1>1, <2>1, <2>9 DEF Changes
  <2> QED
    BY <1>3, <2>1, <2>3, <2>4, <2>5, <2>6, <2>7, <2>8, <2>9 DEF Moves
<1> QED  BY <1>2, <1>3, NextAlone DEF OneMoves

-----------------------------------------------------------------------------
(* Majorities *)

\* A set with more members is still a majority.
LEMMA QuorumGrows ==
  ASSUME NEW A, NEW B, A \subseteq B, Quorum(A, InitPeers)
  PROVE  Quorum(B, InitPeers)
<1>1. IsFiniteSet(InitPeers)
  BY NodeAssumption, PeersAssumption, FS_Subset
<1>2. /\ IsFiniteSet(A \cap InitPeers) /\ IsFiniteSet(B \cap InitPeers)
      /\ Cardinality(A \cap InitPeers) <= Cardinality(B \cap InitPeers)
  <2>1. IsFiniteSet(B \cap InitPeers)
    BY <1>1, FS_Subset
  <2>2. A \cap InitPeers \subseteq B \cap InitPeers
    OBVIOUS
  <2> QED  BY <2>1, <2>2, FS_Subset
<1>3. /\ Cardinality(A \cap InitPeers) \in Nat /\ Cardinality(B \cap InitPeers) \in Nat
      /\ Cardinality(InitPeers) \in Nat
  BY <1>1, <1>2, FS_CardinalityType
<1> QED  BY <1>2, <1>3 DEF Quorum

\* Two majorities have a peer in common.
LEMMA QuorumsMeet ==
  ASSUME NEW A, NEW B, Quorum(A, InitPeers), Quorum(B, InitPeers)
  PROVE  \E m \in InitPeers : m \in A /\ m \in B
<1> DEFINE S == A \cap InitPeers
           T == B \cap InitPeers
<1>1. IsFiniteSet(InitPeers)
  BY NodeAssumption, PeersAssumption, FS_Subset
<1>2. IsFiniteSet(S) /\ IsFiniteSet(T)
  BY <1>1, FS_Subset
<1>3. /\ IsFiniteSet(S \cup T)
      /\ Cardinality(S \cup T) = Cardinality(S) + Cardinality(T) - Cardinality(S \cap T)
  BY <1>2, FS_Union
<1>4. Cardinality(S \cup T) <= Cardinality(InitPeers)
  <2>1. S \cup T \subseteq InitPeers
    OBVIOUS
  <2> QED  BY <1>1, <2>1, FS_Subset
<1>5. Cardinality(S) \in Nat /\ Cardinality(T) \in Nat /\ Cardinality(InitPeers) \in Nat
  BY <1>1, <1>2, FS_CardinalityType
<1>6. ASSUME S \cap T = {} PROVE FALSE
  <2>1. Cardinality(S \cap T) = 0
    BY <1>6, FS_EmptySet
  <2>2. 2 * Cardinality(S) > Cardinality(InitPeers) /\ 2 * Cardinality(T) > Cardinality(InitPeers)
    BY DEF Quorum
  <2> HIDE DEF S, T
  <2> QED  BY <1>3, <1>4, <1>5, <2>1, <2>2
<1> QED  BY <1>6

\* With two or more peers no engine is a majority by itself.
LEMMA QuorumOfMany ==
  ASSUME ManyPeers, NEW A, NEW n, Quorum(A, InitPeers)
  PROVE  \E m \in A : m \in InitPeers /\ m # n
<1>1. ASSUME A \cap InitPeers \subseteq {n} PROVE FALSE
  <2>1. IsFiniteSet({n}) /\ Cardinality({n}) = 1
    BY FS_Singleton
  <2>2. IsFiniteSet(A \cap InitPeers) /\ Cardinality(A \cap InitPeers) <= 1
    BY <1>1, <2>1, FS_Subset
  <2>3. Cardinality(A \cap InitPeers) \in Nat /\ Cardinality(InitPeers) \in Nat
    <3>1. IsFiniteSet(InitPeers)
      BY NodeAssumption, PeersAssumption, FS_Subset
    <3> QED  BY <2>2, <3>1, FS_CardinalityType
  <2> QED  BY <2>2, <2>3 DEF Quorum, ManyPeers
<1> QED  BY <1>1

-----------------------------------------------------------------------------
(* The types of what the invariant speaks of *)

LogType(l) == /\ l \in Seq(Entry) /\ Len(l) \in Nat /\ DOMAIN l = 1..Len(l)
              /\ \A i \in DOMAIN l : l[i].term \in Nat

ViewType(n) ==
  /\ raft[n].term \in Nat /\ disk[n].term \in Nat /\ sent[n].term \in Nat
  /\ raft[n].commit \in Nat /\ disk[n].commit \in Nat /\ sent[n].commit \in Nat
  /\ LogType(raft[n].log) /\ LogType(disk[n].log) /\ LogType(sent[n].log)
  /\ disk[n].commit <= Len(disk[n].log) /\ sent[n].commit <= Len(sent[n].log)

Views == \A n \in Node : ViewType(n)

\* Terms are numbers.
LEMMA EntryTerm == \A e \in Entry : e.term \in Nat
  BY MaxTermAssumption DEF Entry, Term

\* What a sequence of entries is, field by field.
LEMMA LogTypeLemma ==
  ASSUME NEW l \in Seq(Entry)
  PROVE  LogType(l)
<1>1. Len(l) \in Nat /\ DOMAIN l = 1..Len(l)
  OBVIOUS
<1>2. \A i \in DOMAIN l : l[i] \in Entry
  OBVIOUS
<1> QED  BY <1>1, <1>2, EntryTerm DEF LogType

\* The types follow from the invariant of the engines.
LEMMA ViewTypes == IndInv => Views
<1> SUFFICES ASSUME IndInv, NEW n \in Node PROVE ViewType(n)
  BY DEF Views
<1>1. raft[n] \in Raft /\ disk[n] \in Disk /\ sent[n] \in Message
  BY DEF IndInv, TypeOK
<1>2. /\ raft[n].log \in Seq(Entry) /\ disk[n].log \in Seq(Entry) /\ sent[n].log \in Seq(Entry)
      /\ raft[n].commit \in Nat /\ disk[n].commit \in Nat /\ sent[n].commit \in Nat
  <2>1. raft[n].log \in Seq(Entry) /\ raft[n].commit \in Nat
    BY <1>1 DEF Raft
  <2>2. disk[n].log \in Seq(Entry) /\ disk[n].commit \in Nat
    BY <1>1 DEF Disk
  <2>3. sent[n].log \in Seq(Entry) /\ sent[n].commit \in Nat
    BY <1>1 DEF Message
  <2> QED  BY <2>1, <2>2, <2>3
<1>3. raft[n].term \in Nat /\ disk[n].term \in Nat /\ sent[n].term \in Nat
  <2>1. raft[n].term \in Term /\ disk[n].term \in Term /\ sent[n].term \in Term
    BY <1>1 DEF Raft, Disk, Message
  <2> QED  BY <2>1, MaxTermAssumption DEF Term
<1>4. disk[n].commit <= Len(disk[n].log) /\ sent[n].commit <= Len(sent[n].log)
  BY DEF IndInv, NodeOK, DurableOK
<1> QED  BY <1>2, <1>3, <1>4, LogTypeLemma DEF ViewType

\* ... and hold of every log of the network.
LEMMA LogsTyped ==
  ASSUME Views, NEW l \in Logs
  PROVE  LogType(l)
  BY DEF Views, ViewType, Logs

\* The log of a leader that has appended an entry.
LEMMA ExtendedLog ==
  ASSUME Views, NEW n \in Node, Extends(n)
  PROVE  /\ LogType(raft'[n].log) /\ Len(raft'[n].log) = Len(raft[n].log) + 1
         /\ raft'[n].log[Len(raft[n].log) + 1].term = raft[n].term
         /\ \A i \in 1..Len(raft[n].log) : raft'[n].log[i] = raft[n].log[i]
<1>1. PICK e \in Entry : e.term = raft[n].term /\ Appended(raft'[n].log, raft[n].log, e)
  BY DEF Extends
<1>2. raft[n].log \in Seq(Entry)
  BY DEF Views, ViewType, LogType
<1>3. /\ raft'[n].log \in Seq(Entry) /\ Len(raft'[n].log) = Len(raft[n].log) + 1
      /\ raft'[n].log[Len(raft[n].log) + 1] = e
      /\ \A i \in 1..Len(raft[n].log) : raft'[n].log[i] = raft[n].log[i]
  BY <1>1, <1>2, AppendedLemma
<1> QED  BY <1>1, <1>3, LogTypeLemma

\* It has what it had.
LEMMA ExtendedHas ==
  ASSUME Views, NEW n \in Node, Extends(n)
  PROVE  /\ \A i, t : Has(raft[n].log, i, t) => Has(raft'[n].log, i, t)
         /\ Has(raft'[n].log, Len(raft'[n].log), raft[n].term)
<1>1. /\ LogType(raft'[n].log) /\ Len(raft'[n].log) = Len(raft[n].log) + 1
      /\ raft'[n].log[Len(raft[n].log) + 1].term = raft[n].term
      /\ \A i \in 1..Len(raft[n].log) : raft'[n].log[i] = raft[n].log[i]
  BY ExtendedLog
<1>2. /\ Len(raft[n].log) \in Nat /\ DOMAIN raft[n].log = 1..Len(raft[n].log)
      /\ DOMAIN raft'[n].log = 1..(Len(raft[n].log) + 1)
  BY <1>1 DEF Views, ViewType, LogType
<1>3. Len(raft[n].log) + 1 \in DOMAIN raft'[n].log
  BY <1>2
<1>4. ASSUME NEW i \in DOMAIN raft[n].log
      PROVE  i \in DOMAIN raft'[n].log /\ raft'[n].log[i] = raft[n].log[i]
  BY <1>1, <1>2
<1>5. \A i, t : Has(raft[n].log, i, t) => Has(raft'[n].log, i, t)
  BY <1>4 DEF Has
<1>6. Has(raft'[n].log, Len(raft'[n].log), raft[n].term)
  BY <1>1, <1>3 DEF Has
<1> QED  BY <1>5, <1>6

-----------------------------------------------------------------------------
(* Terms, votes and commit indices *)

\* The storage and the messages follow the library, whatever a stop interrupts.
LEMMA SavedStep ==
  ASSUME Views, Views', NEW n \in Node, SavedOK(n), LeaderOK(n), Changes(n)
  PROVE  SavedOK(n)'
<1>1. ViewType(n) /\ ViewType(n)'
  BY DEF Views
<1>2. CASE Idles(n)
  BY <1>2 DEF SavedOK, Idles, SameRaft, SameDisk, SameSent
<1>3. CASE Extends(n)
  <2>2. /\ Len(raft'[n].log) = Len(raft[n].log) + 1
        /\ \A i \in 1..Len(raft[n].log) : raft'[n].log[i] = raft[n].log[i]
    BY <1>3, ExtendedLog
  <2>3. /\ raft[n].commit \in Nat /\ disk[n].commit \in Nat /\ Len(raft[n].log) \in Nat
        /\ raft'[n].commit = raft[n].commit /\ disk'[n].commit = disk[n].commit
        /\ disk[n].commit <= raft[n].commit /\ raft[n].commit <= Len(raft[n].log)
    BY <1>1, <1>3 DEF ViewType, LogType, SavedOK, Extends, SameDisk
  <2>4. raft'[n].commit <= Len(raft'[n].log)
    BY <2>2, <2>3
  <2>5. \A i \in 1..disk'[n].commit : raft'[n].log[i] = disk'[n].log[i]
    BY <1>3, <2>2, <2>3 DEF SavedOK, Extends, SameDisk
  <2>6. /\ raft'[n].term = raft[n].term /\ raft'[n].vote = raft[n].vote
        /\ disk'[n].term = disk[n].term /\ disk'[n].vote = disk[n].vote
        /\ sent'[n] = sent[n]
    BY <1>3 DEF Extends, SameDisk, SameSent
  <2> QED  BY <2>3, <2>4, <2>5, <2>6 DEF SavedOK
<1>4. CASE Asks(n)
  BY <1>1, <1>4 DEF SavedOK, Asks, SameDisk, SameSent, ViewType
<1>5. ASSUME NEW m \in Node \ {n}, Answers(n, m) PROVE SavedOK(n)'
  <2>1. sent[m].term \in Nat /\ raft[n].term \in Nat /\ disk[n].term \in Nat
    BY DEF Views, ViewType
  <2>2. disk[n].term <= sent[m].term
    BY <1>5, <2>1 DEF SavedOK, Answers
  <2>3. disk[n].term = sent[m].term => raft[n].term = sent[m].term /\ ~(sent[m].term > raft[n].term)
    BY <1>5, <2>1 DEF SavedOK, Answers
  <2> QED
    BY <1>5, <2>2, <2>3 DEF SavedOK, Answers, SameDisk, SameSent
<1>6. ASSUME NEW m \in Node \ {n}, Follows(n, m) PROVE SavedOK(n)'
  <2>1. /\ sent[m].term \in Nat /\ raft[n].term \in Nat /\ disk[n].term \in Nat
        /\ raft[n].commit \in Nat /\ disk[n].commit \in Nat /\ raft'[n].commit \in Nat
    BY <1>1 DEF Views, ViewType
  <2>2. disk[n].term <= sent[m].term /\ disk[n].commit <= raft'[n].commit
    <3>1. /\ sent[m].term >= raft[n].term /\ disk[n].term <= raft[n].term
          /\ disk[n].commit <= raft[n].commit /\ raft[n].commit <= raft'[n].commit
      BY <1>6 DEF SavedOK, Follows
    <3> QED  BY <2>1, <3>1
  <2>3. disk[n].term = sent[m].term => raft[n].term = sent[m].term
    BY <1>6, <2>1 DEF SavedOK, Follows
  <2>4. \A i \in 1..disk[n].commit : raft'[n].log[i] = disk[n].log[i]
    <3>1. /\ disk[n].commit <= raft[n].commit
          /\ \A i \in 1..disk[n].commit : raft[n].log[i] = disk[n].log[i]
          /\ \A i \in 1..raft[n].commit : raft'[n].log[i] = raft[n].log[i]
      BY <1>6 DEF SavedOK, Follows
    <3> QED  BY <2>1, <3>1
  <2> QED
    BY <1>6, <2>2, <2>3, <2>4 DEF SavedOK, Follows, SameDisk, SameSent
<1>7. ASSUME NEW i \in Nat, Decides(n, i) PROVE SavedOK(n)'
  <2>1. i \in (raft[n].commit + 1)..Len(raft[n].log)
    BY <1>7 DEF Decides, Acknowledged
  <2>2. /\ raft[n].commit \in Nat /\ disk[n].commit \in Nat /\ Len(raft[n].log) \in Nat
        /\ disk[n].commit <= raft[n].commit
    BY <1>1 DEF ViewType, LogType, SavedOK
  <2>3. disk[n].commit <= i /\ i <= Len(raft[n].log)
    BY <2>1, <2>2
  <2> QED
    BY <1>7, <2>3 DEF SavedOK, Decides, SameDisk, SameSent
<1>8. CASE Finishes(n)
  BY <1>1, <1>8 DEF SavedOK, Finishes, SameRaft, Writes, Sends, ViewType
<1>9. CASE Resets(n)
  <2>1. sent'[n].term <= disk'[n].term
    BY <1>1, <1>9 DEF SavedOK, LeaderOK, Resets, SameDisk, WritesLog, Writes, SameSent, Sends,
                      ViewType
  <2>2. sent'[n].term = disk'[n].term /\ sent'[n].vote # NoNode => disk'[n].vote = sent'[n].vote
    BY <1>1, <1>9 DEF SavedOK, LeaderOK, Resets, SameDisk, WritesLog, Writes, SameSent, Sends,
                      ViewType
  <2> QED
    BY <1>1, <1>9, <2>1, <2>2 DEF SavedOK, Resets, ViewType
<1> QED
  BY <1>2, <1>3, <1>4, <1>5, <1>6, <1>7, <1>8, <1>9 DEF Changes, Leads, IsElected

\* What is sent and written does not go back to an earlier term.
LEMMA TermsGrow ==
  ASSUME Views, NEW n \in Node, SavedOK(n), Changes(n)
  PROVE  /\ sent[n].term <= sent'[n].term /\ disk[n].term <= disk'[n].term
         /\ sent'[n].term = sent[n].term /\ sent[n].vote # NoNode =>
              sent'[n].vote = sent[n].vote
<1>1. ViewType(n)
  BY DEF Views
<1>2. CASE SameDisk(n) /\ SameSent(n)
  BY <1>1, <1>2 DEF SameDisk, SameSent, ViewType
<1>3. CASE Finishes(n)
  BY <1>1, <1>3 DEF SavedOK, Finishes, Writes, Sends, ViewType
<1>4. CASE Resets(n)
  BY <1>1, <1>4 DEF SavedOK, Resets, SameDisk, WritesLog, Writes, SameSent, Sends, ViewType
<1> QED
  BY <1>2, <1>3, <1>4 DEF Changes, Idles, Leads, IsElected, Extends, Asks, Answers, Follows, Decides

-----------------------------------------------------------------------------
(* Where the logs come from *)

\* Which logs there are.
LEMMA LogsAre ==
  /\ \A m \in Node : raft[m].log \in Logs /\ disk[m].log \in Logs /\ sent[m].log \in Logs
  /\ \A n \in Node : /\ OtherLogs(n) \subseteq Logs
                     /\ \A l \in Logs : l = raft[n].log \/ l \in OtherLogs(n)
                     /\ disk[n].log \in OtherLogs(n) /\ sent[n].log \in OtherLogs(n)
                     /\ \A m \in Node \ {n} : raft[m].log \in OtherLogs(n)
                     /\ \A m \in Node : sent[m].log \in OtherLogs(n) /\ disk[m].log \in OtherLogs(n)
  BY DEF Logs, OtherLogs

\* An engine's logs are those it had, the last one that a leader has sent, or a
\* leader's with a new entry.
LEMMA LogChanges ==
  ASSUME NEW n \in Node, Changes(n)
  PROVE  /\ \/ Leads(n) \/ IsElected(n)
            \/ raft'[n].log = raft[n].log
            \/ raft'[n].log = disk[n].log
            \/ \E m \in Node \ {n} : Follows(n, m) /\ raft'[n].log = sent[m].log
         /\ disk'[n].log \in {disk[n].log, raft[n].log}
         /\ sent'[n].log \in {sent[n].log, raft[n].log}
<1> USE DEF SameRaft, SameDisk, SameSent
<1>1. CASE Idles(n)
  BY <1>1 DEF Idles
<1>2. CASE Leads(n) \/ IsElected(n)
  BY <1>2 DEF Leads, IsElected, Extends
<1>3. CASE Asks(n)
  BY <1>3 DEF Asks
<1>4. ASSUME NEW m \in Node \ {n}, Answers(n, m)
      PROVE  /\ raft'[n].log = raft[n].log /\ disk'[n].log = disk[n].log
             /\ sent'[n].log = sent[n].log
  BY <1>4 DEF Answers
<1>5. ASSUME NEW m \in Node \ {n}, Follows(n, m)
      PROVE  /\ raft'[n].log = raft[n].log \/ raft'[n].log = sent[m].log
             /\ disk'[n].log = disk[n].log /\ sent'[n].log = sent[n].log
  BY <1>5 DEF Follows
<1>6. ASSUME NEW i \in Nat, Decides(n, i)
      PROVE  /\ raft'[n].log = raft[n].log /\ disk'[n].log = disk[n].log
             /\ sent'[n].log = sent[n].log
  BY <1>6 DEF Decides
<1>7. CASE Finishes(n)
  BY <1>7 DEF Finishes, Writes, Sends
<1>8. CASE Resets(n)
  BY <1>8 DEF Resets, Writes, WritesLog, Sends
<1> QED
  BY <1>1, <1>2, <1>3, <1>4, <1>5, <1>6, <1>7, <1>8 DEF Changes

\* So the network has no log that it had not before, but for the leader's.
LEMMA LogsStep ==
  ASSUME NEW n \in Node, Changes(n), OthersIdle(n)
  PROVE  /\ \A l \in Logs' : l \in Logs \/ l = raft'[n].log
         /\ Leads(n) \/ IsElected(n) \/ raft'[n].log \in Logs
<1>1. ASSUME NEW m \in Node \ {n}
      PROVE  /\ raft'[m].log = raft[m].log /\ disk'[m].log = disk[m].log
             /\ sent'[m].log = sent[m].log
  BY <1>1 DEF OthersIdle, Idles, SameRaft, SameDisk, SameSent
<1>2. /\ \/ Leads(n) \/ IsElected(n)
         \/ raft'[n].log = raft[n].log
         \/ raft'[n].log = disk[n].log
         \/ \E m \in Node \ {n} : raft'[n].log = sent[m].log
      /\ disk'[n].log \in {disk[n].log, raft[n].log}
      /\ sent'[n].log \in {sent[n].log, raft[n].log}
  BY LogChanges
<1> QED  BY <1>1, <1>2 DEF Logs

\* Seen from another engine, the same.
LEMMA OtherLogsStep ==
  ASSUME NEW n \in Node, Changes(n), OthersIdle(n), NEW k \in Node \ {n}
  PROVE  /\ \A l \in OtherLogs(k)' : l \in OtherLogs(k) \/ l = raft'[n].log
         /\ Leads(n) \/ IsElected(n) \/ raft'[n].log \in OtherLogs(k)
<1>1. ASSUME NEW m \in Node \ {n}
      PROVE  /\ raft'[m].log = raft[m].log /\ disk'[m].log = disk[m].log
             /\ sent'[m].log = sent[m].log
  BY <1>1 DEF OthersIdle, Idles, SameRaft, SameDisk, SameSent
<1>2. /\ \/ Leads(n) \/ IsElected(n)
         \/ raft'[n].log = raft[n].log
         \/ raft'[n].log = disk[n].log
         \/ \E m \in Node \ {n} : raft'[n].log = sent[m].log
      /\ disk'[n].log \in {disk[n].log, raft[n].log}
      /\ sent'[n].log \in {sent[n].log, raft[n].log}
  BY LogChanges
<1> QED  BY <1>1, <1>2 DEF OtherLogs

-----------------------------------------------------------------------------
(* Elections *)

\* Votes that were counted are not taken back.
LEMMA VotedStays ==
  ASSUME Views, Views', NEW n \in Node, SavedOK(n), Changes(n), OthersIdle(n),
         NEW m \in Node, NEW t \in Nat, NEW w \in Node, Voted(m, t, w)
  PROVE  Voted(m, t, w)'
<1>1. sent[m].term \in Nat /\ sent'[m].term \in Nat
  BY DEF Views, ViewType
<1>2. CASE m = n
  <2>1. /\ sent[m].term <= sent'[m].term
        /\ sent'[m].term = sent[m].term /\ sent[m].vote # NoNode => sent'[m].vote = sent[m].vote
    BY <1>2, TermsGrow
  <2> QED  BY <1>1, <2>1, NodeAssumption DEF Voted
<1>3. CASE m # n
  BY <1>3 DEF OthersIdle, Idles, SameSent, Voted
<1> QED  BY <1>2, <1>3

\* An election stays won: its winner does not run again in the same term.
LEMMA ElectedStays ==
  ASSUME Views, Views', NEW n \in Node, SavedOK(n), Changes(n), OthersIdle(n),
         NEW t \in Nat, NEW w \in Node, Elected(w, t)
  PROVE  Elected(w, t)'
<1>1. Quorum({m \in Node : Voted(m, t, w)}, InitPeers)'
  <2>1. {m \in Node : Voted(m, t, w)} \subseteq {m \in Node : Voted(m, t, w)'}
    BY VotedStays
  <2> QED  BY <2>1, QuorumGrows DEF Elected
<1>2. ViewType(n) /\ ViewType(n)'
  BY DEF Views
<1>3. CASE w # n
  BY <1>1, <1>3 DEF Elected, OthersIdle, Idles, SameRaft, SameDisk
<1>4. CASE w = n
  <2>1. disk'[n].term >= t
    <3>1. disk[n].term <= disk'[n].term /\ disk[n].term >= t
      BY <1>4, TermsGrow DEF Elected
    <3> QED  BY <1>2, <3>1 DEF ViewType
  <2>2. raft[n].term >= disk[n].term /\ disk[n].term >= t
    BY <1>4 DEF SavedOK, Elected
  <2>3. raft[n].term = t => raft[n].role # "Candidate"
    BY <1>4 DEF Elected
  <2>4. raft'[n].term = t => raft'[n].role # "Candidate"
    <3>1. CASE SameRaft(n)
      BY <2>3, <3>1 DEF SameRaft
    <3>2. CASE Extends(n)
      BY <3>2 DEF Extends
    <3>3. CASE Asks(n)
      BY <1>2, <2>2, <3>3 DEF Asks, ViewType
    <3>4. ASSUME NEW m \in Node \ {n}, Answers(n, m), raft'[n].term = t
          PROVE  raft'[n].role # "Candidate"
      <4>1. sent[m].term \in Nat /\ raft[n].term \in Nat /\ disk[n].term \in Nat
        BY DEF Views, ViewType
      <4>2. sent[m].term > raft[n].term \/ sent[m].term = raft[n].term
        BY <3>4, <4>1 DEF Answers
      <4> QED  BY <2>3, <3>4, <4>2 DEF Answers
    <3>5. ASSUME NEW m \in Node \ {n}, Follows(n, m) PROVE raft'[n].role # "Candidate"
      BY <3>5 DEF Follows
    <3>6. ASSUME NEW i \in Nat, Decides(n, i) PROVE raft'[n].role # "Candidate"
      BY <3>6 DEF Decides
    <3>7. CASE Resets(n)
      BY <3>7 DEF Resets
    <3> QED
      BY <3>1, <3>2, <3>3, <3>4, <3>5, <3>6, <3>7
         DEF Changes, Idles, Finishes, Leads, IsElected
  <2> QED  BY <1>1, <1>4, <2>1, <2>4 DEF Elected
<1> QED  BY <1>3, <1>4

\* Those who vote for n have seen its request, and so n has sent and written it.
LEMMA VotesCounted ==
  ASSUME ManyPeers, Views, RaftInv, NEW n \in Node, IsElected(n)
  PROVE  /\ sent[n].term = raft[n].term /\ sent[n].vote = n
         /\ disk[n].term = raft[n].term /\ disk[n].vote = n
         /\ \A m \in Votes(n, raft[n]) : /\ m \in Node /\ sent[m].term = raft[n].term
                                         /\ sent[m].vote = n
<1>1. /\ raft[n].role = "Candidate" /\ Quorum(Votes(n, raft[n]), InitPeers)
      /\ SavedOK(n) /\ CandidateOK(n) /\ \A m \in Node \ {n} : VotesOK(n, m)
  BY DEF IsElected, RaftInv
<1>2. /\ sent[n].term \in Nat /\ disk[n].term \in Nat /\ raft[n].term \in Nat
  BY DEF Views, ViewType
<1>3. ASSUME NEW m \in Votes(n, raft[n]), m # n
      PROVE  m \in Node \ {n} /\ sent[m].term = raft[n].term /\ sent[m].vote = n
  BY <1>3 DEF Votes, Replies
<1>4. PICK m \in Votes(n, raft[n]) : m # n
  BY <1>1, QuorumOfMany
<1>5. sent[n].term = raft[n].term /\ disk[n].term = raft[n].term
  <2>1. raft[n].term <= sent[n].term
    BY <1>1, <1>3, <1>4 DEF VotesOK
  <2>2. sent[n].term <= disk[n].term /\ disk[n].term <= raft[n].term
    BY <1>1 DEF SavedOK
  <2> QED  BY <1>2, <2>1, <2>2
<1>6. sent[n].vote = n
  BY <1>1, <1>5 DEF CandidateOK
<1>7. disk[n].vote = n
  BY <1>1, <1>5, <1>6, NodeAssumption DEF SavedOK
<1> QED  BY <1>3, <1>5, <1>6, <1>7

\* The term of a new leader is later than that of any entry of any log.
LEMMA Unprecedented ==
  ASSUME ManyPeers, Views, RaftInv, NEW n \in Node, IsElected(n),
         NEW l \in Logs, NEW i \in DOMAIN l
  PROVE  l[i].term < raft[n].term
<1> DEFINE t == l[i].term
<1>1. t \in Nat /\ raft[n].term \in Nat
  BY LogsTyped DEF LogType, Views, ViewType
<1>2. PICK w \in Node : Elected(w, t)
  BY DEF RaftInv, ElectedOK
<1> HIDE DEF t
<1>3. ASSUME t >= raft[n].term PROVE FALSE
  <2>1. Quorum(Votes(n, raft[n]), InitPeers) /\ raft[n].role = "Candidate"
    BY DEF IsElected
  <2>2. PICK m \in InitPeers : m \in Votes(n, raft[n]) /\ m \in {x \in Node : Voted(x, t, w)}
    BY <1>2, <2>1, QuorumsMeet DEF Elected
  <2>3. sent[m].term = raft[n].term /\ sent[m].vote = n
    BY <2>2, VotesCounted
  <2>4. t = raft[n].term /\ w = n
    BY <1>1, <1>3, <2>2, <2>3 DEF Voted
  <2> QED  BY <1>2, <2>1, <2>4 DEF Elected
<1>4. t < raft[n].term
  BY <1>1, <1>3
<1> QED  BY <1>4 DEF t

\* A leader that appends an entry has all the entries of its term, and none of a
\* later one.
LEMMA OwnTerm ==
  ASSUME ManyPeers, Views, RaftInv, NEW n \in Node, Leads(n) \/ IsElected(n)
  PROVE  /\ \A i \in DOMAIN raft[n].log : raft[n].log[i].term <= raft[n].term
         /\ \A l \in Logs : \A i \in DOMAIN l :
              l[i].term = raft[n].term => Has(raft[n].log, i, raft[n].term)
<1>1. raft[n].log \in Logs /\ LogType(raft[n].log) /\ raft[n].term \in Nat
  BY LogsAre DEF Views, ViewType
<1>2. CASE Leads(n)
  <2>1. LeaderOK(n) /\ LogsOK /\ raft[n].role = "Leader"
    BY <1>2 DEF RaftInv, Leads
  <2>2. ASSUME NEW i \in DOMAIN raft[n].log PROVE raft[n].log[i].term <= raft[n].term
    <3>1. Has(raft[n].log, Len(raft[n].log), raft[n].term)
      BY <2>1 DEF LeaderOK
    <3>2. i <= Len(raft[n].log)
      BY <1>1 DEF LogType
    <3> QED  BY <1>1, <2>1, <3>1, <3>2 DEF Has, LogsOK
  <2>3. ASSUME NEW l \in Logs, NEW i \in DOMAIN l, l[i].term = raft[n].term
        PROVE  Has(raft[n].log, i, raft[n].term)
    <3>1. CASE l = raft[n].log
      BY <2>3, <3>1 DEF Has
    <3>2. CASE l \in OtherLogs(n)
      BY <2>1, <2>3, <3>2 DEF LeaderOK
    <3> QED  BY <3>1, <3>2, LogsAre
  <2> QED  BY <2>2, <2>3
<1>3. CASE IsElected(n)
  <2>1. \A l \in Logs : \A i \in DOMAIN l : l[i].term < raft[n].term /\ l[i].term \in Nat
    BY <1>3, Unprecedented, LogsTyped DEF LogType
  <2> QED  BY <1>1, <2>1
<1> QED  BY <1>2, <1>3

\* Terms are ordered and logs match after every step.
LEMMA LogsOKStep ==
  ASSUME ManyPeers, Views, RaftInv, NEW n \in Node, Changes(n), OthersIdle(n)
  PROVE  LogsOK'
<1>1. LogsOK
  BY DEF RaftInv
<1>2. CASE Logs' \subseteq Logs
  BY <1>1, <1>2 DEF LogsOK
<1>3. CASE Leads(n) \/ IsElected(n)
  <2> DEFINE r == raft[n].log
             q == raft'[n].log
             t == raft[n].term
             N == Len(raft[n].log)
  <2>1. /\ Extends(n) /\ r \in Logs /\ LogType(r) /\ t \in Nat
    BY <1>3, LogsAre DEF Leads, IsElected, Views, ViewType
  <2>2. /\ LogType(q) /\ Len(q) = N + 1 /\ q[N + 1].term = t
        /\ \A i \in 1..N : q[i] = r[i]
    BY <2>1, ExtendedLog
  <2>3. /\ \A i \in DOMAIN r : r[i].term <= t
        /\ \A l \in Logs : \A i \in DOMAIN l : l[i].term = t => Has(r, i, t)
    BY <1>3, OwnTerm
  <2>4. /\ N \in Nat /\ DOMAIN r = 1..N /\ DOMAIN q = 1..(N + 1)
        /\ \A i \in 1..N : r[i].term \in Nat
    BY <2>1, <2>2 DEF LogType
  <2>5. \A l \in Logs' : l \in Logs \/ l = q
    BY LogsStep
  <2>6. \A l \in Logs : LogType(l)
    BY LogsTyped
  <2> HIDE DEF r, q, t, N
  <2>7. ASSUME NEW l \in Logs', NEW i \in DOMAIN l, NEW j \in DOMAIN l, i <= j
        PROVE  l[i].term <= l[j].term
    <3>1. CASE l \in Logs
      BY <1>1, <2>7, <3>1 DEF LogsOK
    <3>2. CASE l = q /\ j \in 1..N
      <4>1. i \in 1..N
        BY <2>4, <2>7, <3>2
      <4> QED  BY <1>1, <2>1, <2>2, <2>4, <2>7, <3>2, <4>1 DEF LogsOK
    <3>3. CASE l = q /\ j = N + 1 /\ i \in 1..N
      BY <2>2, <2>3, <2>4, <3>3
    <3>4. CASE l = q /\ j = N + 1 /\ i = N + 1
      BY <2>1, <2>2, <3>4
    <3> QED  BY <2>4, <2>5, <2>7, <3>1, <3>2, <3>3, <3>4
  <2>8. ASSUME NEW k \in Logs', NEW l \in Logs', NEW i \in DOMAIN k, NEW j \in DOMAIN l,
               i <= j, k[i].term = l[j].term, NEW h \in 1..i
        PROVE  k[h] = l[h]
    <3>1. CASE k \in Logs /\ l \in Logs
      BY <1>1, <2>8, <3>1 DEF LogsOK
    <3>2. CASE k = q /\ l = q
      BY <3>2
    <3>3. CASE k = q /\ l \in Logs
      <4>1. i \in 1..N
        <5>1. ASSUME i = N + 1 PROVE FALSE
          <6>1. Has(r, j, t)
            BY <2>2, <2>3, <2>8, <3>3, <5>1
          <6> QED  BY <2>4, <2>8, <5>1, <6>1 DEF Has
        <5> QED  BY <2>4, <2>8, <3>3, <5>1
      <4>2. i \in DOMAIN r /\ r[i].term = l[j].term /\ h \in 1..N
        BY <2>2, <2>4, <2>8, <3>3, <4>1
      <4>3. r[h] = l[h]
        BY <1>1, <2>1, <2>8, <3>3, <4>2 DEF LogsOK
      <4> QED  BY <2>2, <3>3, <4>2, <4>3
    <3>4. CASE k \in Logs /\ l = q
      <4>1. DOMAIN k = 1..Len(k) /\ Len(k) \in Nat
        BY <2>6, <3>4 DEF LogType
      <4>2. CASE j \in 1..N
        <5>1. j \in DOMAIN r /\ k[i].term = r[j].term /\ h \in 1..N
          BY <2>2, <2>4, <2>8, <3>4, <4>1, <4>2
        <5>2. k[h] = r[h]
          BY <1>1, <2>1, <2>8, <3>4, <5>1 DEF LogsOK
        <5> QED  BY <2>2, <3>4, <5>1, <5>2
      <4>3. CASE j = N + 1
        <5>1. Has(r, i, t) /\ k[i].term = t
          BY <2>2, <2>3, <2>8, <3>4, <4>3
        <5>2. i \in DOMAIN r /\ r[i].term = k[i].term /\ h \in 1..N
          BY <2>4, <2>8, <5>1 DEF Has
        <5>3. i <= i
          BY <2>4, <5>2
        <5>4. k[h] = r[h]
          BY <1>1, <2>1, <2>8, <3>4, <5>2, <5>3 DEF LogsOK
        <5> QED  BY <2>2, <3>4, <5>2, <5>4
      <4> QED  BY <2>4, <2>8, <3>4, <4>2, <4>3
    <3> QED  BY <2>5, <2>8, <3>1, <3>2, <3>3, <3>4
  <2> QED  BY <2>7, <2>8 DEF LogsOK
<1> QED  BY <1>2, <1>3, LogsStep

\* There is an election behind every entry after every step.
LEMMA ElectedOKStep ==
  ASSUME ManyPeers, Views, Views', RaftInv, NEW n \in Node, Changes(n), OthersIdle(n)
  PROVE  ElectedOK'
<1>1. ASSUME NEW l \in Logs, NEW i \in DOMAIN l PROVE \E w \in Node : Elected(w, l[i].term)'
  <2>1. PICK w \in Node : Elected(w, l[i].term)
    BY DEF RaftInv, ElectedOK
  <2>2. l[i].term \in Nat
    BY LogsTyped DEF LogType
  <2>3. SavedOK(n)
    BY DEF RaftInv
  <2> QED  BY <2>1, <2>2, <2>3, ElectedStays
<1>2. CASE Logs' \subseteq Logs
  BY <1>1, <1>2 DEF ElectedOK
<1>3. CASE Leads(n) \/ IsElected(n)
  <2>1. /\ Extends(n) /\ raft[n].log \in Logs /\ LogType(raft[n].log) /\ raft[n].term \in Nat
    BY <1>3, LogsAre DEF Leads, IsElected, Views, ViewType
  <2>2. PICK t, q : t = raft[n].term /\ q = raft'[n].log
    OBVIOUS
  <2>3. /\ LogType(q) /\ Len(q) = Len(raft[n].log) + 1
        /\ q[Len(raft[n].log) + 1].term = t
        /\ \A i \in 1..Len(raft[n].log) : q[i] = raft[n].log[i]
    BY <2>1, <2>2, ExtendedLog
  <2>4. \E w \in Node : Elected(w, t)'
    <3>1. CASE Leads(n)
      <4>1. Has(raft[n].log, Len(raft[n].log), raft[n].term)
        BY <3>1 DEF RaftInv, LeaderOK, Leads
      <4>2. PICK l, i : l = raft[n].log /\ i = Len(raft[n].log)
        OBVIOUS
      <4>3. l \in Logs /\ i \in DOMAIN l /\ l[i].term = t
        BY <2>1, <2>2, <4>1, <4>2 DEF Has
      <4> QED  BY <1>1, <4>3
    <3>2. CASE IsElected(n)
      <4>1. /\ disk[n].term = raft[n].term
            /\ \A m \in Votes(n, raft[n]) : /\ m \in Node /\ sent[m].term = raft[n].term
                                            /\ sent[m].vote = n
        BY <3>2, VotesCounted
      <4>2. \A m \in Node : sent'[m] = sent[m]
        BY <2>1 DEF Extends, OthersIdle, Idles, SameSent
      <4>3. Votes(n, raft[n]) \subseteq {m \in Node : Voted(m, t, n)'}
        BY <2>2, <4>1, <4>2 DEF Voted
      <4>4. Quorum({m \in Node : Voted(m, t, n)'}, InitPeers)
        BY <3>2, <4>3, QuorumGrows DEF IsElected
      <4>5. disk'[n].term >= t /\ raft'[n].role # "Candidate"
        BY <2>1, <2>2, <4>1 DEF Extends, SameDisk
      <4>6. Elected(n, t)'
        BY <4>4, <4>5 DEF Elected
      <4> QED  BY <4>6
    <3> QED  BY <1>3, <3>1, <3>2
  <2>5. ASSUME NEW i \in DOMAIN q PROVE \E w \in Node : Elected(w, q[i].term)'
    <3>1. CASE i = Len(raft[n].log) + 1
      BY <2>3, <2>4, <3>1
    <3>2. CASE i \in 1..Len(raft[n].log)
      <4>1. PICK l : l = raft[n].log
        OBVIOUS
      <4>2. l \in Logs /\ i \in DOMAIN l /\ q[i] = l[i]
        BY <2>1, <2>3, <3>2, <4>1 DEF LogType
      <4> QED  BY <1>1, <4>2
    <3> QED  BY <2>1, <2>3, <3>1, <3>2 DEF LogType
  <2>6. \A l \in Logs' : l \in Logs \/ l = q
    BY <2>2, LogsStep
  <2> QED  BY <1>1, <2>5, <2>6 DEF ElectedOK
<1> QED  BY <1>2, <1>3, LogsStep

-----------------------------------------------------------------------------
(* Candidates and their voters *)

\* A candidate that goes on to be one has asked before or asks anew.
LEMMA CandidateMoves ==
  ASSUME Views, RaftInv, NEW n \in Node, Changes(n), raft'[n].role = "Candidate"
  PROVE  \/ /\ raft[n].role = "Candidate" /\ raft'[n].term = raft[n].term
            /\ raft'[n].vote = raft[n].vote /\ raft'[n].log = raft[n].log
            /\ SameSent(n) \/ Sends(n)
         \/ /\ Asks(n)
<1>1. CandidateOK(n) /\ raft[n].term \in Nat
  BY DEF RaftInv, Views, ViewType
<1>2. CASE Idles(n)
  BY <1>2 DEF Idles, SameRaft
<1>3. CASE Finishes(n)
  BY <1>3 DEF Finishes, SameRaft
<1>4. ASSUME NEW m \in Node \ {n}, Answers(n, m)
      PROVE  /\ raft[n].role = "Candidate" /\ raft'[n].term = raft[n].term
             /\ raft'[n].vote = raft[n].vote /\ raft'[n].log = raft[n].log /\ SameSent(n)
  <2>1. sent[m].term \in Nat
    BY DEF Views, ViewType
  <2>2. sent[m].term = raft[n].term /\ ~(sent[m].term > raft[n].term)
    BY <1>1, <1>4, <2>1 DEF Answers
  <2>3. raft[n].role = "Candidate"
    BY <1>4, <2>2 DEF Answers
  <2>4. raft[n].vote # NoNode
    BY <1>1, <2>3, NodeAssumption DEF CandidateOK
  <2> QED  BY <1>4, <2>2, <2>3, <2>4 DEF Answers
<1> QED
  BY <1>2, <1>3, <1>4
     DEF Changes, Leads, IsElected, Extends, Follows, Decides, Resets

\* A candidate has told of its campaign what is true of it.
LEMMA CandidateOKStep ==
  ASSUME Views, RaftInv, NEW n \in Node, Changes(n), OthersIdle(n), NEW k \in Node
  PROVE  CandidateOK(k)'
<1>1. CandidateOK(k) /\ SavedOK(k)
  BY DEF RaftInv
<1>2. CASE k # n
  BY <1>1, <1>2 DEF OthersIdle, Idles, SameRaft, SameSent, CandidateOK
<1>3. CASE k = n
  <2> SUFFICES ASSUME raft'[n].role = "Candidate" PROVE CandidateOK(n)'
    BY <1>3 DEF CandidateOK
  <2>1. CASE Asks(n)
    <3>1. sent[n].term \in Nat /\ disk[n].term \in Nat /\ raft[n].term \in Nat
      BY DEF Views, ViewType
    <3>2. sent'[n].term # raft'[n].term
      BY <1>1, <1>3, <2>1, <3>1 DEF SavedOK, Asks, SameSent
    <3> QED  BY <2>1, <3>2 DEF CandidateOK, Asks
  <2>2. CASE /\ raft[n].role = "Candidate" /\ raft'[n].term = raft[n].term
             /\ raft'[n].vote = raft[n].vote /\ raft'[n].log = raft[n].log
             /\ SameSent(n) \/ Sends(n)
    BY <1>1, <1>3, <2>2 DEF CandidateOK, SameSent, Sends
  <2> QED  BY <2>1, <2>2, CandidateMoves
<1> QED  BY <1>2, <1>3

\* Where the votes for another come from.
LEMMA VoteSources ==
  ASSUME Views, NEW n \in Node, Changes(n), NEW k \in Node \ {n}
  PROVE  /\ raft'[n].vote = k =>
              \/ raft[n].vote = k /\ raft'[n].term = raft[n].term
              \/ disk[n].vote = k /\ raft'[n].term = disk[n].term
              \/ Answers(n, k) /\ UpToDate(sent[k].log, raft[n].log)
         /\ \/ disk'[n].vote = disk[n].vote /\ disk'[n].term = disk[n].term
            \/ disk'[n].vote = raft[n].vote /\ disk'[n].term = raft[n].term
         /\ \/ sent'[n].vote = sent[n].vote /\ sent'[n].term = sent[n].term
            \/ sent'[n].vote = raft[n].vote /\ sent'[n].term = raft[n].term
<1> USE DEF SameRaft, SameDisk, SameSent
<1>1. k # NoNode
  BY NodeAssumption
<1>2. CASE Idles(n)
  BY <1>2 DEF Idles
<1>3. CASE Leads(n) \/ IsElected(n)
  BY <1>3 DEF Leads, IsElected, Extends
<1>4. CASE Asks(n)
  BY <1>4 DEF Asks
<1>5. ASSUME NEW m \in Node \ {n}, Answers(n, m)
      PROVE  /\ raft'[n].vote = k =>
                  \/ raft[n].vote = k /\ raft'[n].term = raft[n].term
                  \/ Answers(n, k) /\ UpToDate(sent[k].log, raft[n].log)
             /\ SameDisk(n) /\ SameSent(n)
  <2>1. CASE raft'[n].vote = m /\ UpToDate(sent[m].log, raft[n].log)
    BY <1>5, <2>1 DEF Answers
  <2>2. CASE raft'[n].vote = NoNode
    BY <1>1, <1>5, <2>2 DEF Answers
  <2>3. CASE raft'[n].vote = raft[n].vote /\ sent[m].term = raft[n].term
    BY <1>5, <2>3 DEF Answers
  <2> QED  BY <1>5, <2>1, <2>2, <2>3 DEF Answers
<1>6. ASSUME NEW m \in Node \ {n}, Follows(n, m)
      PROVE  /\ raft'[n].vote = k => raft[n].vote = k /\ raft'[n].term = raft[n].term
             /\ SameDisk(n) /\ SameSent(n)
  <2>1. sent[m].term > raft[n].term \/ sent[m].term = raft[n].term
    BY <1>6 DEF Follows, Views, ViewType
  <2> QED  BY <1>1, <1>6, <2>1 DEF Follows
<1>7. ASSUME NEW i \in Nat, Decides(n, i)
      PROVE  /\ raft'[n].vote = raft[n].vote /\ raft'[n].term = raft[n].term
             /\ SameDisk(n) /\ SameSent(n)
  BY <1>7 DEF Decides
<1>8. CASE Finishes(n)
  BY <1>8 DEF Finishes, Writes, Sends
<1>9. CASE Resets(n)
  BY <1>9 DEF Resets, Writes, WritesLog, Sends
<1> QED
  BY <1>2, <1>3, <1>4, <1>5, <1>6, <1>7, <1>8, <1>9 DEF Changes

\* A vote stays justified by the log of its voter, which changes for entries of the
\* same or a later term only.
LEMMA GrantedStays ==
  ASSUME Views, Views', RaftInv, NEW n \in Node, Changes(n), ~Resets(n),
         NEW k, NEW t \in Nat, raft[n].term >= t, Granted(k, raft[n].log, t)
  PROVE  Granted(k, raft'[n].log, t)
<1>1. raft[n].term \in Nat /\ LogType(raft[n].log)
  BY DEF Views, ViewType
<1>2. CASE raft'[n].log = raft[n].log
  BY <1>2
<1>3. CASE Extends(n)
  <2>1. /\ LogType(raft'[n].log) /\ Len(raft'[n].log) = Len(raft[n].log) + 1
        /\ raft'[n].log[Len(raft[n].log) + 1].term = raft[n].term
    BY <1>3, ExtendedLog
  <2>2. Len(raft[n].log) + 1 \in DOMAIN raft'[n].log
    BY <1>1, <2>1 DEF LogType
  <2> QED  BY <2>1, <2>2 DEF Granted
<1>4. ASSUME NEW m \in Node \ {n}, Follows(n, m), raft'[n].log = sent[m].log
      PROVE  Granted(k, raft'[n].log, t)
  <2>1. LeaderMessageOK(m) /\ sent[m].role = "Leader" /\ sent[m].term >= raft[n].term
    BY <1>4 DEF RaftInv, Follows
  <2>2. Has(sent[m].log, Len(sent[m].log), sent[m].term)
    BY <2>1 DEF LeaderMessageOK
  <2>3. sent[m].term \in Nat
    BY DEF Views, ViewType
  <2>4. sent[m].term >= t
    BY <1>1, <2>1, <2>3
  <2> QED  BY <1>4, <2>2, <2>4 DEF Has, Granted
<1>5. CASE Finishes(n) \/ Idles(n) \/ Asks(n)
  BY <1>2, <1>5 DEF Finishes, Idles, SameRaft, Asks
<1>6. ASSUME NEW m \in Node \ {n}, Answers(n, m) PROVE raft'[n].log = raft[n].log
  BY <1>6 DEF Answers
<1>7. ASSUME NEW m \in Node \ {n}, Follows(n, m)
      PROVE  raft'[n].log = raft[n].log \/ raft'[n].log = sent[m].log
  BY <1>7 DEF Follows
<1>8. ASSUME NEW i \in Nat, Decides(n, i) PROVE raft'[n].log = raft[n].log
  BY <1>8 DEF Decides
<1> QED
  BY <1>2, <1>3, <1>4, <1>5, <1>6, <1>7, <1>8 DEF Changes, Leads, IsElected

\* The votes of an engine that moves, for another that does not.
LEMMA VoterStep ==
  ASSUME Views, Views', RaftInv, NEW n \in Node, Changes(n), OthersIdle(n),
         NEW k \in Node \ {n}
  PROVE  VotesOK(k, n)'
<1>1. /\ VotesOK(k, n) /\ CandidateOK(k) /\ SavedOK(n) /\ LeaderOK(n)
      /\ raft[k].term \in Nat /\ raft[n].term \in Nat /\ disk[n].term \in Nat
      /\ sent[n].term \in Nat
  BY DEF RaftInv, Views, ViewType
<1>2. SameRaft(k) /\ sent'[k] = sent[k]
  BY DEF OthersIdle, Idles, SameSent
<1>3. /\ raft'[n].vote = k =>
              \/ raft[n].vote = k /\ raft'[n].term = raft[n].term
              \/ disk[n].vote = k /\ raft'[n].term = disk[n].term
              \/ Answers(n, k) /\ UpToDate(sent[k].log, raft[n].log)
      /\ \/ disk'[n].vote = disk[n].vote /\ disk'[n].term = disk[n].term
         \/ disk'[n].vote = raft[n].vote /\ disk'[n].term = raft[n].term
      /\ \/ sent'[n].vote = sent[n].vote /\ sent'[n].term = sent[n].term
         \/ sent'[n].vote = raft[n].vote /\ sent'[n].term = raft[n].term
  BY VoteSources
<1>4. /\ raft'[n].vote = k => raft'[n].term <= sent'[k].term
      /\ disk'[n].vote = k => disk'[n].term <= sent'[k].term
      /\ sent'[n].vote = k => sent'[n].term <= sent'[k].term
  <2>1. sent[k].term <= sent[k].term
    BY DEF Views, ViewType
  <2>2. Answers(n, k) => raft'[n].term = sent[k].term
    BY DEF Answers
  <2> QED  BY <1>1, <1>2, <1>3, <2>1, <2>2 DEF VotesOK
<1>5. ASSUME raft'[k].role = "Candidate"
      PROVE  /\ raft'[n].vote = k /\ raft'[n].term = raft'[k].term =>
                  Granted(raft'[k].log, raft'[n].log, raft'[k].term)
             /\ disk'[n].vote = k /\ disk'[n].term = raft'[k].term =>
                  /\ Granted(raft'[k].log, raft'[n].log, raft'[k].term)
                  /\ Granted(raft'[k].log, disk'[n].log, raft'[k].term)
             /\ sent'[n].vote = k /\ sent'[n].term = raft'[k].term =>
                  /\ Granted(raft'[k].log, raft'[n].log, raft'[k].term)
                  /\ Granted(raft'[k].log, disk'[n].log, raft'[k].term)
                  /\ Granted(raft'[k].log, sent'[n].log, raft'[k].term)
  <2>1. PICK l, t : l = raft[k].log /\ t = raft[k].term
    OBVIOUS
  <2>2. raft'[k].log = l /\ raft'[k].term = t /\ raft[k].role = "Candidate" /\ t \in Nat
    BY <1>1, <1>2, <1>5, <2>1 DEF SameRaft
  <2>3. /\ raft[n].vote = k /\ raft[n].term = t => Granted(l, raft[n].log, t)
        /\ disk[n].vote = k /\ disk[n].term = t =>
             Granted(l, raft[n].log, t) /\ Granted(l, disk[n].log, t)
        /\ sent[n].vote = k /\ sent[n].term = t =>
             /\ Granted(l, raft[n].log, t) /\ Granted(l, disk[n].log, t)
             /\ Granted(l, sent[n].log, t)
    BY <1>1, <2>1, <2>2 DEF VotesOK
  <2>4. sent[n].term <= raft[n].term /\ disk[n].term <= raft[n].term
    BY <1>1 DEF SavedOK
  <2>5. CASE SameDisk(n) /\ SameSent(n) /\ ~Resets(n)
    <3>1. raft[n].term >= t /\ Granted(l, raft[n].log, t) => Granted(l, raft'[n].log, t)
      BY <2>2, <2>5, GrantedStays
    <3>2. disk[n].vote = k /\ disk[n].term = t => Granted(l, raft'[n].log, t)
      BY <1>1, <2>3, <2>4, <3>1
    <3>3. sent[n].vote = k /\ sent[n].term = t => Granted(l, raft'[n].log, t)
      BY <1>1, <2>3, <2>4, <3>1
    <3>4. raft'[n].vote = k /\ raft'[n].term = t => Granted(l, raft'[n].log, t)
      <4>1. raft[n].vote = k /\ raft[n].term = t => Granted(l, raft'[n].log, t)
        BY <1>1, <2>3, <3>1
      <4>2. ASSUME Answers(n, k), UpToDate(sent[k].log, raft[n].log), raft'[n].term = t
            PROVE  Granted(l, raft'[n].log, t)
        <5>1. sent[k].term = raft[k].term /\ raft'[n].log = raft[n].log
          BY <2>1, <4>2 DEF Answers
        <5>2. sent[k].log = l
          BY <1>1, <2>1, <2>2, <5>1 DEF CandidateOK
        <5> QED  BY <4>2, <5>1, <5>2 DEF Granted
      <4> QED  BY <1>3, <3>2, <4>1, <4>2
    <3>5. /\ disk'[n].vote = disk[n].vote /\ disk'[n].term = disk[n].term
          /\ disk'[n].log = disk[n].log /\ sent'[n] = sent[n]
      BY <2>5 DEF SameDisk, SameSent
    <3> QED  BY <2>2, <2>3, <3>2, <3>3, <3>4, <3>5
  <2>6. CASE Finishes(n)
    BY <2>2, <2>3, <2>6 DEF Finishes, SameRaft, Writes, Sends
  <2>7. CASE Resets(n)
    <3>1. /\ raft'[n].term = disk'[n].term /\ raft'[n].vote = disk'[n].vote
          /\ raft'[n].log = disk'[n].log
      BY <2>7 DEF Resets
    <3>2. disk'[n].vote = k /\ disk'[n].term = t => Granted(l, disk'[n].log, t)
      BY <2>3, <2>7 DEF Resets, SameDisk, WritesLog, Writes
    <3>3. sent'[n].vote = k /\ sent'[n].term = t =>
            Granted(l, disk'[n].log, t) /\ Granted(l, sent'[n].log, t)
      <4>1. CASE SameSent(n)
        <5>1. disk'[n].log \in {disk[n].log, raft[n].log}
          BY <2>7 DEF Resets, SameDisk, WritesLog, Writes
        <5> QED  BY <2>3, <4>1, <5>1 DEF SameSent
      <4>2. CASE raft[n].role = "Leader" /\ Sends(n)
        BY <1>1, <4>2 DEF LeaderOK, Sends
      <4> QED  BY <2>7, <4>1, <4>2 DEF Resets
    <3> QED  BY <2>2, <3>1, <3>2, <3>3
  <2>8. (SameDisk(n) /\ SameSent(n)) \/ Finishes(n) \/ Resets(n)
    BY DEF Changes, Idles, Leads, IsElected, Extends, Asks, Answers, Follows, Decides
  <2> QED  BY <2>5, <2>6, <2>7, <2>8
<1> QED  BY <1>4, <1>5 DEF VotesOK

\* The votes of one that does not move.
LEMMA VotesOKStep ==
  ASSUME Views, Views', RaftInv, NEW n \in Node, Changes(n), OthersIdle(n),
         NEW k \in Node, NEW m \in Node \ {k}
  PROVE  VotesOK(k, m)'
<1>1. CASE m = n
  BY <1>1, VoterStep
<1>2. CASE m # n /\ k # n
  <2>1. VotesOK(k, m) /\ Idles(m) /\ Idles(k)
    BY <1>2 DEF RaftInv, OthersIdle
  <2> QED  BY <2>1 DEF VotesOK, Idles, SameRaft, SameDisk, SameSent
<1>3. CASE m # n /\ k = n
  <2>1. /\ VotesOK(n, m) /\ Idles(m) /\ SavedOK(n)
    BY <1>3 DEF RaftInv, OthersIdle
  <2>2. /\ raft'[m].vote = raft[m].vote /\ raft'[m].term = raft[m].term
        /\ raft'[m].log = raft[m].log
        /\ disk'[m].vote = disk[m].vote /\ disk'[m].term = disk[m].term
        /\ disk'[m].log = disk[m].log /\ sent'[m] = sent[m]
    BY <2>1 DEF Idles, SameRaft, SameDisk, SameSent
  <2>3. /\ raft[m].term \in Nat /\ disk[m].term \in Nat /\ sent[m].term \in Nat
        /\ raft[n].term \in Nat /\ disk[n].term \in Nat /\ sent[n].term \in Nat
        /\ sent'[n].term \in Nat
    BY DEF Views, ViewType
  <2>4. sent[n].term <= sent'[n].term
    BY <2>1, TermsGrow
  <2>5. /\ raft[m].vote = n => raft[m].term <= sent[n].term
        /\ disk[m].vote = n => disk[m].term <= sent[n].term
        /\ sent[m].vote = n => sent[m].term <= sent[n].term
    BY <2>1 DEF VotesOK
  <2>6. /\ raft'[m].vote = n => raft'[m].term <= sent'[n].term
        /\ disk'[m].vote = n => disk'[m].term <= sent'[n].term
        /\ sent'[m].vote = n => sent'[m].term <= sent'[n].term
    BY <2>2, <2>3, <2>4, <2>5
  <2>7. CASE raft'[n].role # "Candidate"
    BY <2>6, <2>7, <1>3 DEF VotesOK
  <2>8. CASE /\ raft[n].role = "Candidate" /\ raft'[n].term = raft[n].term
             /\ raft'[n].log = raft[n].log
    BY <1>3, <2>1, <2>2, <2>6, <2>8 DEF VotesOK
  <2>9. CASE Asks(n)
    <3>1. raft'[n].term = raft[n].term + 1 /\ sent[n].term <= raft[n].term
      BY <2>1, <2>3, <2>9 DEF Asks, SavedOK
    <3>2. /\ ~(raft'[m].vote = n /\ raft'[m].term = raft'[n].term)
          /\ ~(disk'[m].vote = n /\ disk'[m].term = raft'[n].term)
          /\ ~(sent'[m].vote = n /\ sent'[m].term = raft'[n].term)
      BY <2>2, <2>3, <2>5, <3>1
    <3> QED  BY <1>3, <2>6, <3>2 DEF VotesOK
  <2> QED  BY <2>7, <2>8, <2>9, CandidateMoves
<1> QED  BY <1>1, <1>2, <1>3

-----------------------------------------------------------------------------
(* Leaders *)

\* A leader has been one before, in the same term, or has just been elected.
LEMMA LeaderMoves ==
  ASSUME Views, RaftInv, NEW n \in Node, Changes(n), raft'[n].role = "Leader"
  PROVE  \/ IsElected(n)
         \/ /\ raft[n].role = "Leader" /\ raft'[n].term = raft[n].term
            /\ raft'[n].vote = raft[n].vote
            /\ raft'[n].log = raft[n].log \/ Leads(n)
            /\ (SameDisk(n) /\ SameSent(n)) \/ Finishes(n)
<1>1. LeaderOK(n) /\ raft[n].term \in Nat
  BY DEF RaftInv, Views, ViewType
<1>2. CASE Idles(n)
  BY <1>2 DEF Idles, SameRaft
<1>3. CASE Leads(n)
  BY <1>3 DEF Leads, Extends
<1>4. CASE Finishes(n)
  BY <1>4 DEF Finishes, SameRaft
<1>5. ASSUME NEW m \in Node \ {n}, Answers(n, m)
      PROVE  /\ raft[n].role = "Leader" /\ raft'[n].term = raft[n].term
             /\ raft'[n].vote = raft[n].vote /\ raft'[n].log = raft[n].log
             /\ SameDisk(n) /\ SameSent(n)
  <2>1. sent[m].term \in Nat
    BY DEF Views, ViewType
  <2>2. sent[m].term = raft[n].term /\ ~(sent[m].term > raft[n].term)
    BY <1>1, <1>5, <2>1 DEF Answers
  <2>3. raft[n].role = "Leader"
    BY <1>5, <2>2 DEF Answers
  <2>4. raft[n].vote # NoNode
    BY <1>1, <2>3, NodeAssumption DEF LeaderOK
  <2> QED  BY <1>5, <2>2, <2>3, <2>4 DEF Answers
<1>6. ASSUME NEW i \in Nat, Decides(n, i)
      PROVE  /\ raft[n].role = "Leader" /\ raft'[n].term = raft[n].term
             /\ raft'[n].vote = raft[n].vote /\ raft'[n].log = raft[n].log
             /\ SameDisk(n) /\ SameSent(n)
  BY <1>6 DEF Decides
<1> QED
  BY <1>2, <1>3, <1>4, <1>5, <1>6 DEF Changes, Asks, Follows, Resets

\* Nobody else appends entries in the term of a leader.
LEMMA OtherLeader ==
  ASSUME ManyPeers, Views, RaftInv, NEW n \in Node, Leads(n) \/ IsElected(n),
         NEW k \in Node \ {n}, raft[k].role = "Leader"
  PROVE  raft[n].term # raft[k].term
<1>1. LeaderOK(k)
  BY DEF RaftInv
<1>2. CASE Leads(n)
  BY <1>1, <1>2 DEF LeaderOK, Leads
<1>3. CASE IsElected(n)
  <2>1. Has(raft[k].log, Len(raft[k].log), raft[k].term)
    BY <1>1 DEF LeaderOK
  <2>2. raft[k].log \in Logs
    BY LogsAre
  <2>3. raft[k].term < raft[n].term
    BY <1>3, <2>1, <2>2, Unprecedented DEF Has
  <2> QED  BY <2>3 DEF Views, ViewType
<1> QED  BY <1>2, <1>3

\* A leader remains the only one of its term, with all the entries of the term.
LEMMA LeaderOKStep ==
  ASSUME ManyPeers, Views, Views', RaftInv, NEW n \in Node, Changes(n), OthersIdle(n),
         NEW k \in Node
  PROVE  LeaderOK(k)'
<1> SUFFICES ASSUME raft'[k].role = "Leader" PROVE LeaderOK(k)'
  BY DEF LeaderOK
<1>1. LeaderOK(k) /\ LeaderOK(n)
  BY DEF RaftInv
<1>2. ASSUME NEW m \in Node \ {n}
      PROVE  /\ raft'[m].role = raft[m].role /\ raft'[m].term = raft[m].term
             /\ raft'[m].vote = raft[m].vote
             /\ raft'[m].log = raft[m].log /\ disk'[m].log = disk[m].log
             /\ disk'[m].term = disk[m].term /\ disk'[m].vote = disk[m].vote
             /\ sent'[m].log = sent[m].log
  BY <1>2 DEF OthersIdle, Idles, SameRaft, SameDisk, SameSent
<1>3. CASE k # n
  <2>1. /\ raft[k].role = "Leader" /\ raft[k].vote = k /\ disk[k].term = raft[k].term
        /\ disk[k].vote = k
        /\ \A m \in Node \ {k} : raft[m].role = "Leader" => raft[m].term # raft[k].term
        /\ Has(raft[k].log, Len(raft[k].log), raft[k].term)
        /\ \A l \in OtherLogs(k) : \A i \in DOMAIN l : l[i].term = raft[k].term =>
             Has(raft[k].log, i, raft[k].term) /\ Has(disk[k].log, i, raft[k].term)
    BY <1>1, <1>2, <1>3 DEF LeaderOK
  <2>2. ASSUME NEW m \in Node \ {k}, raft'[m].role = "Leader"
        PROVE  raft'[m].term # raft'[k].term
    <3>1. CASE m # n
      BY <1>2, <1>3, <2>1, <2>2, <3>1
    <3>2. CASE m = n /\ IsElected(n)
      <4>1. raft'[n].term = raft[n].term
        BY <3>2 DEF IsElected, Extends
      <4> QED  BY <1>2, <1>3, <2>1, <3>2, <4>1, OtherLeader
    <3>3. CASE m = n /\ raft[n].role = "Leader" /\ raft'[n].term = raft[n].term
      BY <1>2, <1>3, <2>1, <3>3
    <3> QED  BY <2>2, <3>1, <3>2, <3>3, LeaderMoves
  <2>3. PICK t : t = raft[k].term
    OBVIOUS
  <2>4. ASSUME NEW l \in OtherLogs(k)', NEW i \in DOMAIN l, l[i].term = t
        PROVE  Has(raft[k].log, i, t) /\ Has(disk[k].log, i, t)
    <3>1. CASE l \in OtherLogs(k)
      BY <2>1, <2>3, <2>4, <3>1
    <3>2. CASE l = raft'[n].log /\ (Leads(n) \/ IsElected(n))
      <4>1. Extends(n)
        BY <3>2 DEF Leads, IsElected
      <4>2. /\ LogType(raft'[n].log) /\ Len(raft'[n].log) = Len(raft[n].log) + 1
            /\ raft'[n].log[Len(raft[n].log) + 1].term = raft[n].term
            /\ \A j \in 1..Len(raft[n].log) : raft'[n].log[j] = raft[n].log[j]
        BY <4>1, ExtendedLog
      <4>3. LogType(raft[n].log)
        BY DEF Views, ViewType
      <4>4. i # Len(raft[n].log) + 1
        BY <1>3, <2>1, <2>3, <2>4, <3>2, <4>2, OtherLeader
      <4>5. i \in DOMAIN raft[n].log /\ l[i] = raft[n].log[i]
        BY <3>2, <4>2, <4>3, <4>4 DEF LogType
      <4>6. raft[n].log \in OtherLogs(k)
        BY <1>3, LogsAre
      <4> QED  BY <2>1, <2>3, <2>4, <4>5, <4>6
    <3> QED  BY <1>3, <3>1, <3>2, OtherLogsStep
  <2> QED  BY <1>2, <1>3, <2>1, <2>2, <2>3, <2>4 DEF LeaderOK
<1>4. CASE k = n /\ IsElected(n)
  <2>1. Extends(n) /\ CandidateOK(n) /\ raft[n].role = "Candidate"
    BY <1>4 DEF IsElected, RaftInv
  <2>2. /\ disk[n].term = raft[n].term /\ disk[n].vote = n
    BY <1>4, VotesCounted
  <2>3. /\ raft'[n].term = raft[n].term /\ raft'[n].vote = n
        /\ disk'[n].term = raft[n].term /\ disk'[n].vote = n
    BY <2>1, <2>2 DEF Extends, SameDisk, CandidateOK
  <2>4. ASSUME NEW m \in Node \ {n}, raft'[m].role = "Leader"
        PROVE  raft'[m].term # raft'[n].term
    BY <1>2, <1>4, <2>3, <2>4, OtherLeader
  <2>5. Has(raft'[n].log, Len(raft'[n].log), raft[n].term)
    BY <2>1, ExtendedHas
  <2>6. OtherLogs(n)' \subseteq Logs
    BY <1>2, <2>1 DEF OtherLogs, Logs, Extends, SameDisk, SameSent
  <2>7. PICK t : t = raft[n].term
    OBVIOUS
  <2>8. \A l \in OtherLogs(n)' : \A i \in DOMAIN l : l[i].term # t
    <3>1. \A l \in Logs : \A i \in DOMAIN l : l[i].term < raft[n].term /\ l[i].term \in Nat
      BY <1>4, Unprecedented, LogsTyped DEF LogType
    <3>2. raft[n].term \in Nat
      BY DEF Views, ViewType
    <3> QED  BY <2>6, <2>7, <3>1, <3>2
  <2> QED  BY <1>4, <2>3, <2>4, <2>5, <2>7, <2>8 DEF LeaderOK
<1>5. CASE /\ k = n /\ raft[n].role = "Leader" /\ raft'[n].term = raft[n].term
           /\ raft'[n].vote = raft[n].vote
           /\ raft'[n].log = raft[n].log \/ Leads(n)
           /\ (SameDisk(n) /\ SameSent(n)) \/ Finishes(n)
  <2>1. /\ raft[n].vote = n /\ disk[n].term = raft[n].term /\ disk[n].vote = n
        /\ \A m \in Node \ {n} : raft[m].role = "Leader" => raft[m].term # raft[n].term
        /\ Has(raft[n].log, Len(raft[n].log), raft[n].term)
        /\ \A l \in OtherLogs(n) : \A i \in DOMAIN l : l[i].term = raft[n].term =>
             Has(raft[n].log, i, raft[n].term) /\ Has(disk[n].log, i, raft[n].term)
    BY <1>1, <1>5 DEF LeaderOK
  <2>2. disk'[n].term = raft[n].term /\ disk'[n].vote = n
    BY <1>5, <2>1 DEF SameDisk, Finishes, Writes
  <2>3. \A m \in Node \ {n} : raft'[m].role = "Leader" => raft'[m].term # raft'[n].term
    BY <1>2, <1>5, <2>1
  <2>4. PICK t : t = raft[n].term
    OBVIOUS
  <2>5. /\ Has(raft'[n].log, Len(raft'[n].log), t)
        /\ \A i : Has(raft[n].log, i, t) => Has(raft'[n].log, i, t)
    <3>1. CASE raft'[n].log = raft[n].log
      BY <2>1, <2>4, <3>1
    <3>2. CASE Leads(n)
      BY <2>4, <3>2, ExtendedHas DEF Leads
    <3> QED  BY <1>5, <3>1, <3>2
  <2>6. ASSUME NEW l \in OtherLogs(n)', NEW i \in DOMAIN l, l[i].term = t
        PROVE  Has(raft[n].log, i, t) /\ Has(disk'[n].log, i, t)
    <3>1. CASE SameDisk(n) /\ SameSent(n)
      <4>1. l \in OtherLogs(n)
        BY <1>2, <2>6, <3>1 DEF OtherLogs, SameDisk, SameSent
      <4> QED  BY <2>1, <2>4, <2>6, <3>1, <4>1 DEF SameDisk
    <3>2. CASE Finishes(n)
      <4>1. l \in OtherLogs(n) \/ l = raft[n].log
        BY <1>2, <2>6, <3>2 DEF OtherLogs, Finishes, Writes, Sends
      <4>2. Has(raft[n].log, i, t)
        BY <2>1, <2>4, <2>6, <4>1 DEF Has
      <4> QED  BY <3>2, <4>2 DEF Finishes, Writes
    <3> QED  BY <1>5, <3>1, <3>2
  <2> QED  BY <1>5, <2>1, <2>2, <2>3, <2>4, <2>5, <2>6 DEF LeaderOK
<1> QED  BY <1>3, <1>4, <1>5, LeaderMoves

\* A leader's last message still tells all that others know of its term.
LEMMA LeaderMessageOKStep ==
  ASSUME ManyPeers, Views, Views', RaftInv, NEW n \in Node, Changes(n), OthersIdle(n),
         NEW k \in Node
  PROVE  LeaderMessageOK(k)'
<1> SUFFICES ASSUME sent'[k].role = "Leader" PROVE LeaderMessageOK(k)'
  BY DEF LeaderMessageOK
<1>1. LeaderMessageOK(k) /\ LeaderOK(n)
  BY DEF RaftInv
<1>2. ASSUME NEW m \in Node \ {n}
      PROVE  /\ raft'[m].role = raft[m].role /\ raft'[m].term = raft[m].term
             /\ raft'[m].log = raft[m].log /\ disk'[m].log = disk[m].log
             /\ sent'[m] = sent[m]
  BY <1>2 DEF OthersIdle, Idles, SameRaft, SameDisk, SameSent
<1>3. CASE sent'[k] = sent[k]
  <2>1. PICK s, t : s = sent[k].log /\ t = sent[k].term
    OBVIOUS
  <2>2. /\ Has(s, Len(s), t)
        /\ \A m \in Node \ {k} :
             /\ raft[m].role = "Leader" => raft[m].term # t
             /\ \A l \in {raft[m].log, disk[m].log, sent[m].log} : \A i \in DOMAIN l :
                  l[i].term = t => Has(s, i, t)
    BY <1>1, <1>3, <2>1 DEF LeaderMessageOK
  <2>3. ASSUME k # n, IsElected(n) PROVE raft[n].term # t
    <3>1. s \in Logs
      BY <2>1, LogsAre
    <3>2. t < raft[n].term
      BY <2>2, <2>3, <3>1, Unprecedented DEF Has
    <3> QED  BY <2>1, <3>2 DEF Views, ViewType
  <2>4. ASSUME k # n, raft'[n].role = "Leader" PROVE raft'[n].term # t
    <3>1. CASE IsElected(n)
      BY <2>3, <2>4, <3>1 DEF IsElected, Extends
    <3>2. CASE raft[n].role = "Leader" /\ raft'[n].term = raft[n].term
      BY <2>2, <2>4, <3>2
    <3> QED  BY <2>4, <3>1, <3>2, LeaderMoves
  <2>5. ASSUME k # n, NEW l \in {raft'[n].log, disk'[n].log, sent'[n].log},
               NEW i \in DOMAIN l, l[i].term = t
        PROVE  Has(s, i, t)
    <3>1. CASE l \in {raft[n].log, disk[n].log, sent[n].log}
      BY <2>2, <2>5, <3>1
    <3>2. CASE l = raft'[n].log /\ (Leads(n) \/ IsElected(n))
      <4>1. Extends(n) /\ raft[n].term # t
        BY <2>2, <2>3, <2>5, <3>2 DEF Leads, IsElected
      <4>2. /\ LogType(raft'[n].log) /\ Len(raft'[n].log) = Len(raft[n].log) + 1
            /\ raft'[n].log[Len(raft[n].log) + 1].term = raft[n].term
            /\ \A j \in 1..Len(raft[n].log) : raft'[n].log[j] = raft[n].log[j]
        BY <4>1, ExtendedLog
      <4>3. LogType(raft[n].log)
        BY DEF Views, ViewType
      <4>4. i # Len(raft[n].log) + 1
        BY <2>5, <3>2, <4>1, <4>2
      <4>5. i \in DOMAIN raft[n].log /\ l[i] = raft[n].log[i]
        BY <3>2, <4>2, <4>3, <4>4 DEF LogType
      <4> QED  BY <2>2, <2>5, <4>5
    <3>3. ASSUME NEW m \in Node \ {n}, l = sent[m].log PROVE Has(s, i, t)
      <4>1. CASE m = k
        BY <2>1, <2>5, <3>3, <4>1 DEF Has
      <4>2. CASE m # k
        BY <2>2, <2>5, <3>3, <4>2
      <4> QED  BY <4>1, <4>2
    <3> QED  BY <3>1, <3>2, <3>3, LogChanges
  <2>6. ASSUME NEW m \in Node \ {k}
        PROVE  /\ raft'[m].role = "Leader" => raft'[m].term # t
               /\ \A l \in {raft'[m].log, disk'[m].log, sent'[m].log} : \A i \in DOMAIN l :
                    l[i].term = t => Has(s, i, t)
    <3>1. CASE m # n
      BY <1>2, <2>2, <3>1
    <3>2. CASE m = n
      BY <2>4, <2>5, <2>6, <3>2
    <3> QED  BY <3>1, <3>2
  <2> QED  BY <1>3, <2>1, <2>2, <2>6 DEF LeaderMessageOK
<1>4. CASE k = n /\ Sends(n)
  <2>1. PICK s, t : s = raft[n].log /\ t = raft[n].term
    OBVIOUS
  <2>2. /\ sent'[n].log = s /\ sent'[n].term = t /\ raft[n].role = "Leader"
    BY <1>4, <2>1 DEF Sends
  <2>3. /\ Has(s, Len(s), t)
        /\ \A m \in Node \ {n} : raft[m].role = "Leader" => raft[m].term # t
        /\ \A l \in OtherLogs(n) : \A i \in DOMAIN l : l[i].term = t => Has(s, i, t)
    BY <1>1, <2>1, <2>2 DEF LeaderOK
  <2>4. ASSUME NEW m \in Node \ {n}
        PROVE  raft[m].log \in OtherLogs(n) /\ disk[m].log \in OtherLogs(n)
               /\ sent[m].log \in OtherLogs(n)
    BY LogsAre
  <2>5. ASSUME NEW m \in Node \ {n}
        PROVE  /\ raft'[m].role = "Leader" => raft'[m].term # t
               /\ \A l \in {raft'[m].log, disk'[m].log, sent'[m].log} : \A i \in DOMAIN l :
                    l[i].term = t => Has(s, i, t)
    BY <1>2, <2>3, <2>4
  <2> QED  BY <1>4, <2>2, <2>3, <2>5 DEF LeaderMessageOK
<1>5. sent'[k] = sent[k] \/ (k = n /\ Sends(n))
  <2>1. SameSent(n) \/ Sends(n)
    BY DEF Changes, Idles, Leads, IsElected, Extends, Asks, Answers, Follows, Decides,
           Finishes, Resets
  <2> QED  BY <1>2, <2>1 DEF SameSent
<1> QED  BY <1>3, <1>4, <1>5

\* What a follower has acknowledged stays in its storage, unless a later term
\* replaces it.
LEMMA FollowerMessageOKStep ==
  ASSUME Views, Views', RaftInv, NEW n \in Node, Changes(n), OthersIdle(n), NEW k \in Node
  PROVE  FollowerMessageOK(k)'
<1>1. FollowerMessageOK(k) /\ SavedOK(n)
  BY DEF RaftInv
<1>2. CASE k # n
  BY <1>1, <1>2 DEF OthersIdle, Idles, SameRaft, SameDisk, SameSent, FollowerMessageOK
<1>3. CASE k = n /\ SameSent(n)
  <2>1. PICK s, t : s = sent[n].log /\ t = sent[n].term
    OBVIOUS
  <2>2. SUFFICES ASSUME sent[n].role = "Follower", NEW i \in DOMAIN s, s[i].term = t
                 PROVE  HasOrLater(disk'[n].log, i, t) /\ HasOrLater(raft'[n].log, i, t)
    BY <1>3, <2>1 DEF FollowerMessageOK, SameSent
  <2>3. HasOrLater(disk[n].log, i, t) /\ HasOrLater(raft[n].log, i, t)
    BY <1>1, <1>3, <2>1, <2>2 DEF FollowerMessageOK
  <2>4. t \in Nat /\ disk[n].term \in Nat /\ raft[n].term \in Nat /\ LogType(raft[n].log)
    BY <2>1 DEF Views, ViewType
  <2>5. CASE raft'[n].log = raft[n].log \/ raft'[n].log = disk[n].log
    BY <2>3, <2>5, LogChanges
  <2>6. CASE Leads(n) \/ IsElected(n)
    <3>1. \A j, u : Has(raft[n].log, j, u) => Has(raft'[n].log, j, u)
      BY <2>6, ExtendedHas DEF Leads, IsElected
    <3>2. HasOrLater(raft'[n].log, i, t)
      BY <2>3, <3>1 DEF HasOrLater, Has
    <3> QED  BY <2>3, <3>2, LogChanges
  <2>7. ASSUME NEW m \in Node \ {n}, Follows(n, m), raft'[n].log = sent[m].log
        PROVE  HasOrLater(raft'[n].log, i, t)
    <3>1. LeaderMessageOK(m) /\ sent[m].role = "Leader"
      BY <2>7 DEF RaftInv, Follows
    <3>2. sent[m].term \in Nat
      BY DEF Views, ViewType
    <3>3. sent[m].term > t \/ sent[m].term = t
      <4>1. sent[m].term >= raft[n].term /\ t <= disk[n].term /\ disk[n].term <= raft[n].term
        BY <1>1, <2>1, <2>7 DEF Follows, SavedOK
      <4> QED  BY <2>4, <3>2, <4>1
    <3>4. CASE sent[m].term > t
      BY <2>7, <3>1, <3>4 DEF LeaderMessageOK, HasOrLater, Has
    <3>5. CASE sent[m].term = t
      <4>1. \A l \in {raft[n].log, disk[n].log, sent[n].log} : \A j \in DOMAIN l :
              l[j].term = t => Has(sent[m].log, j, t)
        BY <3>1, <3>5 DEF LeaderMessageOK
      <4>2. Has(sent[m].log, i, t)
        BY <2>1, <2>2, <4>1
      <4> QED  BY <2>7, <4>2 DEF HasOrLater
    <3> QED  BY <3>3, <3>4, <3>5
  <2> QED  BY <2>3, <2>5, <2>6, <2>7, LogChanges
<1>4. CASE k = n /\ Finishes(n)
  <2>1. /\ disk'[n].log = sent'[n].log /\ raft'[n].log = sent'[n].log
    BY <1>4 DEF Finishes, SameRaft, Writes, Sends
  <2> QED  BY <1>4, <2>1 DEF FollowerMessageOK, HasOrLater, Has
<1>5. CASE k = n /\ sent'[n].role = "Leader"
  BY <1>5 DEF FollowerMessageOK
<1>6. SameSent(n) \/ Finishes(n) \/ sent'[n].role = "Leader"
  BY DEF Changes, Idles, Leads, IsElected, Extends, Asks, Answers, Follows, Decides,
         Resets, Sends
<1> QED  BY <1>2, <1>3, <1>4, <1>5, <1>6

-----------------------------------------------------------------------------
(* What is chosen stays chosen *)

\* A log that is as good as one that has a chosen entry has that entry.
LEMMA UpToDateHas ==
  ASSUME Views, LogsOK, NEW i \in Nat, NEW t \in Nat, Chosen(i, t),
         NEW k \in Logs, NEW l \in Logs, Has(l, i, t), UpToDate(k, l)
  PROVE  Has(k, i, t)
<1>1. LogType(k) /\ LogType(l)
  BY LogsTyped
<1>2. /\ Len(k) \in Nat /\ Len(l) \in Nat /\ DOMAIN k = 1..Len(k) /\ DOMAIN l = 1..Len(l)
      /\ k \in Seq(Entry) /\ l \in Seq(Entry)
  BY <1>1 DEF LogType
<1>3. Len(l) \in DOMAIN l /\ i <= Len(l) /\ i \in 1..Len(l)
  BY <1>2 DEF Has
<1>4. l # << >> /\ LastTerm(l) = l[Len(l)].term
  BY <1>2, <1>3 DEF LastTerm
<1>5. LastTerm(l) \in Nat /\ LastTerm(l) >= 1 /\ LastTerm(l) >= t
  <2>1. l[Len(l)] \in Entry
    BY <1>2, <1>3
  <2>2. l[Len(l)].term \in 1..MaxTerm
    BY <2>1 DEF Entry, Term
  <2>3. l[Len(l)].term >= t
    BY <1>3 DEF LogsOK, Has
  <2> QED  BY <1>4, <2>2, <2>3, MaxTermAssumption
<1>6. k # << >>
  <2>1. ASSUME k = << >> PROVE FALSE
    <3>1. LastTerm(k) = 1 /\ Len(k) = 0
      BY <2>1 DEF LastTerm
    <3> QED  BY <1>2, <1>3, <1>5, <3>1 DEF UpToDate
  <2> QED  BY <2>1
<1>7. Len(k) \in DOMAIN k /\ LastTerm(k) = k[Len(k)].term
  BY <1>2, <1>6 DEF LastTerm
<1>8. CASE LastTerm(k) > LastTerm(l)
  <2>1. k[Len(k)].term > t
    <3>1. k[Len(k)].term \in Nat
      BY <1>1, <1>7 DEF LogType
    <3> QED  BY <1>5, <1>7, <1>8, <3>1
  <2> QED  BY <1>7, <2>1 DEF Chosen
<1>9. CASE LastTerm(k) = LastTerm(l) /\ Len(k) >= Len(l)
  <2>1. \A h \in 1..Len(l) : l[h] = k[h]
    <3>1. Len(l) <= Len(k) /\ l[Len(l)].term = k[Len(k)].term
      BY <1>2, <1>4, <1>7, <1>9
    <3> QED  BY <1>3, <1>7, <3>1 DEF LogsOK
  <2>2. i \in DOMAIN k
    BY <1>2, <1>3, <1>9
  <2> QED  BY <1>3, <2>1, <2>2 DEF Has
<1> QED  BY <1>8, <1>9 DEF UpToDate

\* A new leader has every chosen entry of an earlier term: one of its voters has
\* stored it, and voted for a log as good as its own.
LEMMA ElectedHas ==
  ASSUME ManyPeers, Views, RaftInv, NEW n \in Node, IsElected(n),
         NEW i \in Nat, NEW t \in Nat, Chosen(i, t), raft[n].term > t
  PROVE  Has(raft[n].log, i, t)
<1>1. PICK m \in InitPeers : m \in Votes(n, raft[n]) /\ m \in {x \in Node : Stores(x, i, t)}
  BY QuorumsMeet DEF IsElected, Chosen
<1>2. CASE m = n
  BY <1>1, <1>2 DEF Stores
<1>3. CASE m # n
  <2>1. /\ m \in Node /\ sent[m].term = raft[n].term /\ sent[m].vote = n
    BY <1>1, VotesCounted
  <2>2. Has(sent[m].log, i, t)
    BY <1>1, <2>1 DEF Stores
  <2>3. raft[n].log \in Logs /\ sent[m].log \in Logs
    BY <2>1, LogsAre
  <2>4. Granted(raft[n].log, sent[m].log, raft[n].term)
    <3>1. VotesOK(n, m) /\ raft[n].role = "Candidate"
      BY <1>3, <2>1 DEF RaftInv, IsElected
    <3> QED  BY <2>1, <3>1 DEF VotesOK
  <2>5. ~ \E j \in DOMAIN sent[m].log : sent[m].log[j].term >= raft[n].term
    <3>1. \A j \in DOMAIN sent[m].log : /\ sent[m].log[j].term < raft[n].term
                                        /\ sent[m].log[j].term \in Nat
      BY <2>3, Unprecedented, LogsTyped DEF LogType
    <3>2. raft[n].term \in Nat
      BY DEF Views, ViewType
    <3> QED  BY <3>1, <3>2
  <2>6. UpToDate(raft[n].log, sent[m].log)
    BY <2>4, <2>5 DEF Granted
  <2> QED  BY <2>2, <2>3, <2>6, UpToDateHas DEF RaftInv
<1> QED  BY <1>2, <1>3

\* One who stores a chosen entry keeps it.
LEMMA StoresStays ==
  ASSUME ManyPeers, Views, Views', RaftInv, NEW n \in Node, Changes(n), OthersIdle(n),
         NEW i \in Nat, NEW t \in Nat, Chosen(i, t), NEW m \in Node, Stores(m, i, t)
  PROVE  Stores(m, i, t)'
<1>1. CASE m # n
  BY <1>1 DEF OthersIdle, Idles, SameRaft, SameDisk, SameSent, Stores
<1>2. CASE m = n
  <2>1. /\ SavedOK(n) /\ disk[n].term \in Nat /\ disk'[n].term \in Nat /\ raft[n].term \in Nat
        /\ LogType(raft[n].log)
    BY DEF RaftInv, Views, ViewType
  <2>2. /\ disk[n].term >= t /\ Has(disk[n].log, i, t) /\ Has(raft[n].log, i, t)
        /\ sent[n].term > t => Has(sent[n].log, i, t)
    BY <1>2 DEF Stores
  <2>3. disk'[n].term >= t
    <3>1. disk[n].term <= disk'[n].term
      BY <2>1, TermsGrow
    <3> QED  BY <2>1, <2>2, <3>1
  <2>4. Has(disk'[n].log, i, t)
    BY <2>2, LogChanges
  <2>5. sent'[n].term > t => Has(sent'[n].log, i, t)
    <3>1. SameSent(n) \/ Sends(n)
      BY DEF Changes, Idles, Leads, IsElected, Extends, Asks, Answers, Follows, Decides,
             Finishes, Resets
    <3> QED  BY <2>2, <3>1 DEF SameSent, Sends
  <2>6. Has(raft'[n].log, i, t)
    <3>1. CASE raft'[n].log = raft[n].log \/ raft'[n].log = disk[n].log
      BY <2>2, <3>1
    <3>2. CASE Leads(n) \/ IsElected(n)
      BY <2>2, <3>2, ExtendedHas DEF Leads, IsElected
    <3>3. ASSUME NEW x \in Node \ {n}, Follows(n, x), raft'[n].log = sent[x].log
          PROVE  Has(raft'[n].log, i, t)
      <4>1. LeaderMessageOK(x) /\ sent[x].role = "Leader" /\ sent[x].term \in Nat
        BY <3>3 DEF RaftInv, Follows, Views, ViewType
      <4>2. sent[x].term > t \/ sent[x].term = t
        <5>1. sent[x].term >= raft[n].term /\ disk[n].term <= raft[n].term
          BY <2>1, <3>3 DEF Follows, SavedOK
        <5> QED  BY <2>1, <2>2, <4>1, <5>1
      <4>3. CASE sent[x].term > t
        <5>1. Has(sent[x].log, Len(sent[x].log), sent[x].term)
          BY <4>1 DEF LeaderMessageOK
        <5>2. sent[x].log \in Logs
          BY LogsAre
        <5> QED  BY <3>3, <4>3, <5>1, <5>2 DEF Chosen, Has
      <4>4. CASE sent[x].term = t
        <5>1. \A l \in {raft[n].log, disk[n].log, sent[n].log} : \A j \in DOMAIN l :
                l[j].term = t => Has(sent[x].log, j, t)
          BY <4>1, <4>4 DEF LeaderMessageOK
        <5> QED  BY <2>2, <3>3, <5>1 DEF Has
      <4> QED  BY <4>2, <4>3, <4>4
    <3> QED  BY <3>1, <3>2, <3>3, LogChanges
  <2> QED  BY <1>2, <2>3, <2>4, <2>5, <2>6 DEF Stores
<1> QED  BY <1>1, <1>2

\* A decision is for ever.
LEMMA ChosenStays ==
  ASSUME ManyPeers, Views, Views', RaftInv, NEW n \in Node, Changes(n), OthersIdle(n),
         NEW i \in Nat, NEW t \in Nat, Chosen(i, t)
  PROVE  Chosen(i, t)'
<1>1. Quorum({m \in Node : Stores(m, i, t)}, InitPeers)'
  <2>1. {m \in Node : Stores(m, i, t)} \subseteq {m \in Node : Stores(m, i, t)'}
    BY StoresStays
  <2> QED  BY <2>1, QuorumGrows DEF Chosen
<1>2. ASSUME NEW l \in Logs', NEW j \in DOMAIN l, l[j].term > t PROVE Has(l, i, t)
  <2>1. CASE l \in Logs
    BY <1>2, <2>1 DEF Chosen
  <2>2. CASE l = raft'[n].log /\ (Leads(n) \/ IsElected(n))
    <3>1. /\ LogType(raft'[n].log) /\ Len(raft'[n].log) = Len(raft[n].log) + 1
          /\ raft'[n].log[Len(raft[n].log) + 1].term = raft[n].term
          /\ \A h \in 1..Len(raft[n].log) : raft'[n].log[h] = raft[n].log[h]
      BY <2>2, ExtendedLog DEF Leads, IsElected
    <3>2. LogType(raft[n].log) /\ raft[n].log \in Logs
      BY LogsAre DEF Views, ViewType
    <3>3. Has(raft[n].log, i, t)
      <4>1. CASE j \in 1..Len(raft[n].log)
        BY <1>2, <2>2, <3>1, <3>2, <4>1 DEF Chosen, LogType
      <4>2. CASE j = Len(raft[n].log) + 1 /\ Leads(n)
        <5>1. Has(raft[n].log, Len(raft[n].log), raft[n].term) /\ raft[n].term > t
          BY <1>2, <2>2, <3>1, <4>2 DEF RaftInv, LeaderOK, Leads
        <5> QED  BY <3>2, <5>1 DEF Chosen, Has
      <4>3. CASE j = Len(raft[n].log) + 1 /\ IsElected(n)
        BY <1>2, <2>2, <3>1, <4>3, ElectedHas
      <4> QED  BY <1>2, <2>2, <3>1, <3>2, <4>1, <4>2, <4>3 DEF LogType
    <3> QED  BY <2>2, <3>3, ExtendedHas DEF Leads, IsElected
  <2> QED  BY <2>1, <2>2, LogsStep
<1> QED  BY <1>1, <1>2 DEF Chosen

-----------------------------------------------------------------------------
(* What is marked as committed is chosen *)

\* No log is ahead of a leader that is heard by a majority.
LEMMA NoneLater ==
  ASSUME Views, RaftInv, NEW n \in Node, NEW i \in Nat, Decides(n, i),
         NEW l \in Logs, NEW j \in DOMAIN l
  PROVE  l[j].term <= raft[n].term
<1>1. PICK u : u = l[j].term
  OBVIOUS
<1>2. u \in Nat /\ raft[n].term \in Nat /\ sent[n].term \in Nat /\ disk[n].term \in Nat
  BY <1>1, LogsTyped DEF LogType, Views, ViewType
<1>3. ASSUME u > raft[n].term PROVE FALSE
  <2>1. PICK w \in Node : Elected(w, u)
    BY <1>1 DEF RaftInv, ElectedOK
  <2>2. Quorum(Acks(n, raft[n], i), InitPeers)
    BY DEF Decides, Acknowledged
  <2>3. PICK m \in InitPeers : m \in Acks(n, raft[n], i) /\ m \in {x \in Node : Voted(x, u, w)}
    BY <2>1, <2>2, QuorumsMeet DEF Elected
  <2>4. sent[m].term \in Nat
    BY <2>3 DEF Views, ViewType
  <2>5. sent[m].term >= u
    BY <1>2, <2>3, <2>4 DEF Voted
  <2>6. CASE m = n
    <3>1. sent[n].term <= disk[n].term /\ disk[n].term <= raft[n].term
      BY DEF RaftInv, SavedOK
    <3> QED  BY <1>2, <1>3, <2>5, <2>6, <3>1
  <2>7. CASE m # n
    <3>1. sent[m].term = raft[n].term
      BY <2>3, <2>7 DEF Acks, Replies
    <3> QED  BY <1>2, <1>3, <2>5, <3>1
  <2> QED  BY <2>6, <2>7
<1> QED  BY <1>1, <1>2, <1>3

\* What a majority acknowledges is chosen.  The leader counts itself, although it
\* may not have written the entry when it sends it: it has, by the time it
\* processes the answers.
LEMMA DecidesChosen ==
  ASSUME ManyPeers, Views, RaftInv, NEW n \in Node, NEW i \in Nat, Decides(n, i)
  PROVE  Chosen(i, raft[n].term) /\ raft[n].log[i].term = raft[n].term
<1>1. PICK t : t = raft[n].term
  OBVIOUS
<1>2. /\ LeaderOK(n) /\ raft[n].role = "Leader" /\ SavedOK(n)
      /\ sent[n].term \in Nat /\ disk[n].term \in Nat /\ t \in Nat
      /\ LogType(raft[n].log) /\ raft[n].commit \in Nat
  BY <1>1 DEF RaftInv, Decides, Views, ViewType
<1>3. /\ i \in (raft[n].commit + 1)..Len(raft[n].log) /\ raft[n].log[i].term = t
      /\ Quorum(Acks(n, raft[n], i), InitPeers)
  BY <1>1 DEF Decides, Acknowledged
<1>4. Has(raft[n].log, i, t)
  BY <1>2, <1>3 DEF Has, LogType
<1>5. \A l \in Logs : \A j \in DOMAIN l : l[j].term \in Nat /\ ~(l[j].term > t)
  <2>1. \A l \in Logs : \A j \in DOMAIN l : l[j].term \in Nat /\ l[j].term <= t
    BY <1>1, NoneLater, LogsTyped DEF LogType
  <2> QED  BY <1>2, <2>1
<1>6. ASSUME NEW m \in Acks(n, raft[n], i), m # n
      PROVE  m \in Node /\ Has(sent[m].log, i, t) /\ Stores(m, i, t)
  <2>1. /\ m \in Node /\ sent[m].role = "Follower" /\ sent[m].term = t
        /\ i <= Len(sent[m].log) /\ sent[m].log[i] = raft[n].log[i]
    BY <1>1, <1>6 DEF Acks, Replies
  <2>2. LogType(sent[m].log) /\ disk[m].term \in Nat
    BY <2>1 DEF Views, ViewType
  <2>3. Has(sent[m].log, i, t)
    BY <1>2, <1>3, <2>1, <2>2 DEF Has, LogType
  <2>4. HasOrLater(disk[m].log, i, t) /\ HasOrLater(raft[m].log, i, t)
    BY <2>1, <2>3 DEF RaftInv, FollowerMessageOK, Has
  <2>5. disk[m].log \in Logs /\ raft[m].log \in Logs
    BY <2>1, LogsAre
  <2>6. Has(disk[m].log, i, t) /\ Has(raft[m].log, i, t)
    BY <1>5, <2>4, <2>5 DEF HasOrLater
  <2>7. disk[m].term >= t /\ ~(sent[m].term > t)
    <3>1. sent[m].term <= disk[m].term
      BY <2>1 DEF RaftInv, SavedOK
    <3> QED  BY <1>2, <2>1, <2>2, <3>1
  <2> QED  BY <2>1, <2>3, <2>6, <2>7 DEF Stores
<1>7. Stores(n, i, t)
  <2>1. PICK m \in Acks(n, raft[n], i) : m # n
    <3> DEFINE A == Acks(n, raft[n], i)
    <3>1. Quorum(A, InitPeers)
      BY <1>3
    <3> HIDE DEF A
    <3>2. \E m \in A : m \in InitPeers /\ m # n
      BY <3>1, QuorumOfMany
    <3> QED  BY <3>2 DEF A
  <2>2. sent[m].log \in OtherLogs(n) /\ Has(sent[m].log, i, t)
    BY <1>6, <2>1, LogsAre
  <2>3. Has(disk[n].log, i, t) /\ disk[n].term = t
    BY <1>1, <1>2, <2>2 DEF LeaderOK, Has
  <2>4. disk[n].term >= t /\ ~(sent[n].term > t)
    <3>1. sent[n].term <= disk[n].term
      BY <1>2 DEF SavedOK
    <3> QED  BY <1>2, <2>3, <3>1
  <2> QED  BY <1>4, <2>3, <2>4 DEF Stores
<1>8. Acks(n, raft[n], i) \subseteq {m \in Node : Stores(m, i, t)}
  BY <1>6, <1>7
<1>9. Quorum({m \in Node : Stores(m, i, t)}, InitPeers)
  BY <1>3, <1>8, QuorumGrows
<1> QED  BY <1>1, <1>3, <1>5, <1>9 DEF Chosen

\* Index c, where a log has an entry of term t, is the commit index of somebody.
Marked(c, t) ==
  \E n \in Node : \/ c = raft[n].commit /\ t = raft[n].log[c].term
                  \/ c = disk[n].commit /\ t = disk[n].log[c].term
                  \/ c = sent[n].commit /\ t = sent[n].log[c].term

\* What is marked has been chosen.
LEMMA MarkedChosen ==
  ASSUME Views, RaftInv, NEW c, NEW t, Marked(c, t), c > 0
  PROVE  c \in Nat /\ t \in Nat /\ Chosen(c, t)
<1>1. PICK n \in Node : \/ c = raft[n].commit /\ t = raft[n].log[c].term
                        \/ c = disk[n].commit /\ t = disk[n].log[c].term
                        \/ c = sent[n].commit /\ t = sent[n].log[c].term
  BY DEF Marked
<1>2. ViewType(n) /\ SavedOK(n) /\ ChosenOK(n)
  BY DEF Views, RaftInv
<1>3. CASE c = raft[n].commit /\ t = raft[n].log[c].term
  <2>1. c \in Nat /\ c <= Len(raft[n].log) /\ LogType(raft[n].log)
    BY <1>2, <1>3 DEF ViewType, SavedOK
  <2>2. t \in Nat
    BY <1>3, <2>1 DEF LogType
  <2>3. Chosen(c, t)
    BY <1>2, <1>3 DEF ChosenOK, ChosenUpTo
  <2> QED  BY <2>1, <2>2, <2>3
<1>4. CASE c = disk[n].commit /\ t = disk[n].log[c].term
  <2>1. c \in Nat /\ c <= Len(disk[n].log) /\ LogType(disk[n].log)
    BY <1>2, <1>4 DEF ViewType
  <2>2. t \in Nat
    BY <1>4, <2>1 DEF LogType
  <2>3. Chosen(c, t)
    BY <1>2, <1>4 DEF ChosenOK, ChosenUpTo
  <2> QED  BY <2>1, <2>2, <2>3
<1>5. CASE c = sent[n].commit /\ t = sent[n].log[c].term
  <2>1. c \in Nat /\ c <= Len(sent[n].log) /\ LogType(sent[n].log)
    BY <1>2, <1>5 DEF ViewType
  <2>2. t \in Nat
    BY <1>5, <2>1 DEF LogType
  <2>3. Chosen(c, t)
    BY <1>2, <1>5 DEF ChosenOK, ChosenUpTo
  <2> QED  BY <2>1, <2>2, <2>3
<1> QED  BY <1>1, <1>3, <1>4, <1>5

\* A commit index, with the log it is for, is one that was marked before, or is
\* decided in this step.
LEMMA MarksStep ==
  ASSUME Views, Views', RaftInv, NEW n \in Node, Changes(n)
  PROVE  /\ raft'[n].commit > 0 =>
              \/ Marked(raft'[n].commit, raft'[n].log[raft'[n].commit].term)
              \/ \E i \in Nat : /\ Decides(n, i) /\ raft'[n].commit = i
                                /\ raft'[n].log[i].term = raft[n].log[i].term
         /\ disk'[n].commit > 0 =>
              Marked(disk'[n].commit, disk'[n].log[disk'[n].commit].term)
         /\ sent'[n].commit > 0 =>
              Marked(sent'[n].commit, sent'[n].log[sent'[n].commit].term)
<1> DEFINE Old(l, c) == c > 0 => Marked(c, l[c].term)
<1>1. ViewType(n) /\ ViewType(n)' /\ SavedOK(n)
  BY DEF Views, RaftInv
<1>2. /\ raft[n].commit \in Nat /\ disk[n].commit \in Nat /\ raft'[n].commit \in Nat
      /\ disk[n].commit <= raft[n].commit /\ raft[n].commit <= Len(raft[n].log)
      /\ Len(raft[n].log) \in Nat
      /\ \A i \in 1..disk[n].commit : raft[n].log[i] = disk[n].log[i]
  BY <1>1 DEF ViewType, SavedOK, LogType
<1>3. /\ Old(raft[n].log, raft[n].commit) /\ Old(disk[n].log, disk[n].commit)
      /\ Old(sent[n].log, sent[n].commit)
  BY DEF Marked
<1>4. Old(raft[n].log, disk[n].commit)
  BY <1>2, <1>3
<1>5. /\ disk'[n].commit = disk[n].commit /\ disk'[n].log = disk[n].log => Old(disk'[n].log, disk'[n].commit)
      /\ WritesLog(n) => Old(disk'[n].log, disk'[n].commit)
      /\ Writes(n) => Old(disk'[n].log, disk'[n].commit)
      /\ sent'[n] = sent[n] => Old(sent'[n].log, sent'[n].commit)
      /\ Sends(n) => Old(sent'[n].log, sent'[n].commit)
      /\ raft'[n].log = raft[n].log /\ raft'[n].commit = raft[n].commit =>
           Old(raft'[n].log, raft'[n].commit)
  BY <1>3, <1>4 DEF WritesLog, Writes, Sends
<1>6. Old(disk'[n].log, disk'[n].commit) /\ Old(sent'[n].log, sent'[n].commit)
  <2>1. SameDisk(n) \/ WritesLog(n) \/ Writes(n)
    BY DEF Changes, Idles, Leads, IsElected, Extends, Asks, Answers, Follows, Decides,
           Finishes, Resets
  <2>2. SameSent(n) \/ Sends(n)
    BY DEF Changes, Idles, Leads, IsElected, Extends, Asks, Answers, Follows, Decides,
           Finishes, Resets
  <2> QED  BY <1>5, <2>1, <2>2 DEF SameDisk, SameSent
<1>7. CASE Extends(n)
  <2>1. /\ raft'[n].commit = raft[n].commit
        /\ \A i \in 1..Len(raft[n].log) : raft'[n].log[i] = raft[n].log[i]
    BY <1>7, ExtendedLog DEF Extends
  <2>2. raft'[n].commit > 0 => raft'[n].log[raft'[n].commit] = raft[n].log[raft[n].commit]
    BY <1>2, <2>1
  <2>3. Old(raft'[n].log, raft'[n].commit)
    BY <1>3, <2>1, <2>2
  <2> QED  BY <1>6, <2>3
<1>8. ASSUME NEW m \in Node \ {n}, Follows(n, m) PROVE Old(raft'[n].log, raft'[n].commit)
  <2>1. ViewType(m)
    BY DEF Views
  <2>2. CASE raft'[n].commit = raft[n].commit
    <3>1. raft'[n].commit > 0 => raft'[n].log[raft'[n].commit] = raft[n].log[raft[n].commit]
      BY <1>2, <1>8, <2>2 DEF Follows
    <3> QED  BY <1>3, <2>2, <3>1
  <2>3. CASE raft'[n].commit = sent[m].commit
    <3>1. sent[m].commit \in Nat /\ sent[m].commit <= Len(sent[m].log) /\ Len(sent[m].log) \in Nat
      BY <2>1 DEF ViewType, LogType
    <3>2. CASE raft'[n].log = sent[m].log
      BY <2>3, <3>2 DEF Marked
    <3>3. CASE raft'[n].log = raft[n].log /\ IsPrefix(sent[m].log, raft[n].log)
      <4>1. \A i \in 1..Len(sent[m].log) : raft[n].log[i] = sent[m].log[i]
        <5>1. sent[m].log \in Seq(Entry) /\ raft[n].log \in Seq(Entry)
          BY <1>1, <2>1 DEF ViewType, LogType
        <5> QED  BY <3>3, <5>1, PrefixLemma
      <4>2. raft'[n].commit > 0 => raft'[n].log[raft'[n].commit] = sent[m].log[sent[m].commit]
        BY <2>3, <3>1, <3>3, <4>1
      <4>3. Old(sent[m].log, sent[m].commit)
        BY DEF Marked
      <4> QED  BY <2>3, <4>2, <4>3
    <3> QED  BY <1>8, <3>2, <3>3 DEF Follows
  <2> QED  BY <1>8, <2>2, <2>3 DEF Follows
<1>9. CASE Resets(n)
  <2>1. Old(raft'[n].log, raft'[n].commit)
    BY <1>6, <1>9 DEF Resets
  <2> QED  BY <1>6, <2>1
<1>10. CASE Idles(n) \/ Asks(n) \/ Finishes(n)
  <2>1. raft'[n].log = raft[n].log /\ raft'[n].commit = raft[n].commit
    BY <1>10 DEF Idles, Asks, Finishes, SameRaft
  <2> QED  BY <1>5, <1>6, <2>1
<1>11. ASSUME NEW m \in Node \ {n}, Answers(n, m)
       PROVE  raft'[n].log = raft[n].log /\ raft'[n].commit = raft[n].commit
  BY <1>11 DEF Answers
<1>12. ASSUME NEW i \in Nat, Decides(n, i)
       PROVE  raft'[n].commit = i /\ raft'[n].log[i].term = raft[n].log[i].term
  BY <1>12 DEF Decides
<1> QED
  BY <1>5, <1>6, <1>7, <1>8, <1>9, <1>10, <1>11, <1>12 DEF Changes, Leads, IsElected

\* What is marked as committed is chosen after every step.
LEMMA ChosenOKStep ==
  ASSUME ManyPeers, Views, Views', RaftInv, NEW n \in Node, Changes(n), OthersIdle(n),
         NEW k \in Node
  PROVE  ChosenOK(k)'
<1>1. ASSUME NEW c, NEW t, Marked(c, t), c > 0 PROVE Chosen(c, t)'
  BY <1>1, MarkedChosen, ChosenStays
<1>2. PICK c, t : c = raft'[k].commit /\ t = raft'[k].log[c].term
  OBVIOUS
<1>3. PICK d, u : d = disk'[k].commit /\ u = disk'[k].log[d].term
  OBVIOUS
<1>4. PICK e, v : e = sent'[k].commit /\ v = sent'[k].log[e].term
  OBVIOUS
<1>5. CASE k # n
  <2>1. Marked(c, t) /\ Marked(d, u) /\ Marked(e, v)
    BY <1>2, <1>3, <1>4, <1>5
       DEF Marked, OthersIdle, Idles, SameRaft, SameDisk, SameSent
  <2>2. /\ c > 0 => Chosen(c, t)'
        /\ d > 0 => Chosen(d, u)'
        /\ e > 0 => Chosen(e, v)'
    BY <1>1, <2>1
  <2> QED  BY <1>2, <1>3, <1>4, <2>2 DEF ChosenOK, ChosenUpTo
<1>6. CASE k = n
  <2>1. d > 0 => Marked(d, u)
    BY <1>3, <1>6, MarksStep
  <2>2. e > 0 => Marked(e, v)
    BY <1>4, <1>6, MarksStep
  <2>3. c > 0 => \/ Marked(c, t)
                 \/ \E i \in Nat : /\ Decides(n, i) /\ c = i
                                   /\ t = raft[n].log[i].term
    <3>1. raft'[n].commit > 0 =>
              \/ Marked(raft'[n].commit, raft'[n].log[raft'[n].commit].term)
              \/ \E i \in Nat : /\ Decides(n, i) /\ raft'[n].commit = i
                                /\ raft'[n].log[i].term = raft[n].log[i].term
      BY MarksStep
    <3> QED  BY <1>2, <1>6, <3>1
  <2>4. ASSUME NEW i \in Nat, Decides(n, i), c = i, t = raft[n].log[i].term
        PROVE  Chosen(c, t)'
    <3>1. Chosen(i, raft[n].term) /\ t = raft[n].term
      BY <2>4, DecidesChosen
    <3>2. Chosen(c, t) /\ t \in Nat
      BY <2>4, <3>1 DEF Views, ViewType
    <3> QED  BY <2>4, <3>2, ChosenStays
  <2>5. /\ c > 0 => Chosen(c, t)'
        /\ d > 0 => Chosen(d, u)'
        /\ e > 0 => Chosen(e, v)'
    BY <1>1, <2>1, <2>2, <2>3, <2>4
  <2> QED  BY <1>2, <1>3, <1>4, <2>5 DEF ChosenOK, ChosenUpTo
<1> QED  BY <1>5, <1>6

-----------------------------------------------------------------------------
(* The invariant *)

\* The first state: no terms, votes or entries but the initial ones.
LEMMA RaftInit == Init => RaftInv
<1> SUFFICES ASSUME Init PROVE RaftInv
  OBVIOUS
<1>1. ASSUME NEW n \in Node
      PROVE  /\ raft[n].role = "Follower" /\ raft[n].term = 1 /\ raft[n].vote = NoNode
             /\ raft[n].log = << >> /\ raft[n].commit = 0
             /\ disk[n].term = 1 /\ disk[n].vote = NoNode
             /\ disk[n].log = << >> /\ disk[n].commit = 0
             /\ sent[n].role = "Follower" /\ sent[n].term = 1 /\ sent[n].vote = NoNode
             /\ sent[n].log = << >> /\ sent[n].commit = 0
  BY <1>1 DEF Init, NewDisk, NewRaft, NewMessage
<1>2. \A l \in Logs : DOMAIN l = {}
  <2>1. \A l \in Logs : l = << >>
    BY <1>1 DEF Logs
  <2> QED  BY <2>1
<1>3. LogsOK /\ ElectedOK
  BY <1>2 DEF LogsOK, ElectedOK
<1>4. ASSUME NEW n \in Node
      PROVE  /\ SavedOK(n) /\ CandidateOK(n) /\ LeaderOK(n)
             /\ LeaderMessageOK(n) /\ FollowerMessageOK(n) /\ ChosenOK(n)
  <2>1. SavedOK(n)
    BY <1>1 DEF SavedOK
  <2>2. CandidateOK(n) /\ LeaderOK(n) /\ LeaderMessageOK(n)
    BY <1>1 DEF CandidateOK, LeaderOK, LeaderMessageOK
  <2>3. DOMAIN sent[n].log = {}
    BY <1>1
  <2>4. FollowerMessageOK(n)
    BY <2>3 DEF FollowerMessageOK
  <2>5. ChosenOK(n)
    BY <1>1 DEF ChosenOK, ChosenUpTo
  <2> QED  BY <2>1, <2>2, <2>4, <2>5
<1>5. ASSUME NEW n \in Node, NEW m \in Node \ {n} PROVE VotesOK(n, m)
  BY <1>1, NodeAssumption DEF VotesOK
<1> QED  BY <1>3, <1>4, <1>5 DEF RaftInv

\* SavedOK is kept by all.
LEMMA SavedOKStep ==
  ASSUME Views, Views', RaftInv, NEW n \in Node, Changes(n), OthersIdle(n), NEW k \in Node
  PROVE  SavedOK(k)'
<1>1. SavedOK(k) /\ SavedOK(n) /\ LeaderOK(n)
  BY DEF RaftInv
<1>2. CASE k = n
  BY <1>1, <1>2, SavedStep
<1>3. CASE k # n
  BY <1>1, <1>3 DEF OthersIdle, Idles, SameRaft, SameDisk, SameSent, SavedOK
<1> QED  BY <1>2, <1>3

\* RaftInv is inductive.
LEMMA RaftNext ==
  ASSUME ManyPeers, IndInv, IndInv', FixedInv, RaftInv, [Next]_vars, [NoTornOverwrite]_vars
  PROVE  RaftInv'
<1>1. Views
  BY ViewTypes
<1>2. Views'
  <2>1. IndInv' => Views'
    BY ViewTypes, PTL
  <2> QED  BY <2>1
<1>3. PICK n \in Node : Changes(n) /\ OthersIdle(n)
  BY NextChanges DEF RaftInv
<1>4. LogsOK' /\ ElectedOK'
  BY <1>1, <1>2, <1>3, LogsOKStep, ElectedOKStep
<1>5. ASSUME NEW k \in Node
      PROVE  /\ SavedOK(k)' /\ CandidateOK(k)' /\ LeaderOK(k)'
             /\ LeaderMessageOK(k)' /\ FollowerMessageOK(k)' /\ ChosenOK(k)'
             /\ \A m \in Node \ {k} : VotesOK(k, m)'
  BY <1>1, <1>2, <1>3, SavedOKStep, CandidateOKStep, LeaderOKStep, LeaderMessageOKStep,
     FollowerMessageOKStep, ChosenOKStep, VotesOKStep
<1> QED  BY <1>4, <1>5 DEF RaftInv

\* It holds of every state, for any fixed membership of two or more peers.
THEOREM RaftInvariance ==
  ASSUME ManyPeers
  PROVE  Spec /\ WholeOverwrites => [](IndInv /\ FixedInv /\ RaftInv)
<1>1. FixedMembership
  BY DEF ManyPeers
<1>2. Init => IndInv /\ FixedInv /\ RaftInv
  BY InitInv, FixedInit, RaftInit
<1>3. (IndInv /\ FixedInv /\ RaftInv) /\ [Next]_vars /\ [NoTornOverwrite]_vars =>
        (IndInv /\ FixedInv /\ RaftInv)'
  BY <1>1, NextInv, FixedNext, RaftNext
<1> QED  BY <1>2, <1>3, PTL DEF Spec, WholeOverwrites

-----------------------------------------------------------------------------
(* What follows from it *)

\* The storage of one who stores a chosen entry agrees with every log that has it,
\* up to there.
LEMMA StoresPrefix ==
  ASSUME Views, RaftInv, NEW n \in Node, NEW m \in Node, raft[n].commit > 0,
         Stores(m, raft[n].commit, raft[n].log[raft[n].commit].term),
         NEW i \in 1..raft[n].commit
  PROVE  i <= Len(disk[m].log) /\ disk[m].log[i] = raft[n].log[i]
<1>1. PICK c, t : c = raft[n].commit /\ t = raft[n].log[c].term
  OBVIOUS
<1>2. /\ c \in Nat /\ c > 0 /\ LogType(raft[n].log) /\ LogType(disk[m].log)
      /\ c <= Len(raft[n].log)
  BY <1>1 DEF Views, ViewType, RaftInv, SavedOK
<1>3. c \in DOMAIN disk[m].log /\ disk[m].log[c].term = t
  BY <1>1 DEF Stores, Has
<1>4. c \in DOMAIN raft[n].log /\ c <= c
  BY <1>2 DEF LogType
<1>5. disk[m].log \in Logs /\ raft[n].log \in Logs /\ LogsOK
  BY LogsAre DEF RaftInv
<1>6. \A h \in 1..c : disk[m].log[h] = raft[n].log[h]
  BY <1>1, <1>3, <1>4, <1>5 DEF LogsOK
<1> QED  BY <1>1, <1>2, <1>3, <1>6 DEF LogType

\* An entry that some engine takes as committed is in the storage of a majority,
\* and stays there: over any elections, restarts and stops of any number of peers,
\* with process_ready sending a leader's messages before its writes and a
\* follower's after them, unless a crash tears an append that overwrites entries.
THEOREM CommittedDurable ==
  ASSUME ManyPeers
  PROVE  Spec /\ WholeOverwrites => []CommittedIsDurable
<1>1. ASSUME IndInv, RaftInv PROVE CommittedIsDurable
  <2>1. Views
    BY <1>1, ViewTypes
  <2> SUFFICES ASSUME NEW n \in Node, NEW i \in 1..raft[n].commit
               PROVE  Quorum({m \in Node : /\ i <= Len(disk[m].log)
                                           /\ disk[m].log[i] = raft[n].log[i]}, InitPeers)
    BY DEF CommittedIsDurable
  <2>2. PICK c, t : c = raft[n].commit /\ t = raft[n].log[c].term
    OBVIOUS
  <2>3. c > 0
    <3>1. raft[n].commit \in Nat
      BY <2>1 DEF Views, ViewType
    <3> QED  BY <2>2, <3>1
  <2>4. Quorum({m \in Node : Stores(m, c, t)}, InitPeers)
    BY <1>1, <2>2, <2>3 DEF RaftInv, ChosenOK, ChosenUpTo, Chosen
  <2>5. {m \in Node : Stores(m, c, t)}
          \subseteq {m \in Node : i <= Len(disk[m].log) /\ disk[m].log[i] = raft[n].log[i]}
    BY <1>1, <2>1, <2>2, <2>3, StoresPrefix
  <2> QED  BY <2>4, <2>5, QuorumGrows
<1> QED  BY <1>1, RaftInvariance, PTL

\* Two engines agree on what both take as committed: a majority stores both logs
\* up to their commit indices, so that one peer has the two as prefixes of its
\* own.
LEMMA AgreeHolds ==
  ASSUME IndInv, RaftInv
  PROVE  CommittedEntriesAgree
<1>1. Views
  BY ViewTypes
<1> SUFFICES ASSUME NEW n \in Node, NEW m \in Node, NEW i \in 1..raft[n].commit,
                    i <= raft[m].commit
             PROVE  raft[n].log[i] = raft[m].log[i]
  BY DEF CommittedEntriesAgree
<1>2. ASSUME NEW x \in Node, raft[x].commit > 0
      PROVE  Quorum({y \in Node : Stores(y, raft[x].commit,
                                         raft[x].log[raft[x].commit].term)}, InitPeers)
  BY <1>2 DEF RaftInv, ChosenOK, ChosenUpTo, Chosen
<1>3. raft[n].commit > 0 /\ raft[m].commit > 0 /\ i \in 1..raft[m].commit
  BY <1>1 DEF Views, ViewType
<1>4. PICK y \in InitPeers :
        /\ y \in Node
        /\ Stores(y, raft[n].commit, raft[n].log[raft[n].commit].term)
        /\ Stores(y, raft[m].commit, raft[m].log[raft[m].commit].term)
  <2> DEFINE Storing(x) == {y \in Node : Stores(y, raft[x].commit,
                                                raft[x].log[raft[x].commit].term)}
  <2>1. Quorum(Storing(n), InitPeers) /\ Quorum(Storing(m), InitPeers)
    BY <1>2, <1>3
  <2> HIDE DEF Storing
  <2>2. \E y \in InitPeers : y \in Storing(n) /\ y \in Storing(m)
    BY <2>1, QuorumsMeet
  <2> QED  BY <2>2 DEF Storing
<1>5. disk[y].log[i] = raft[n].log[i]
  BY <1>1, <1>3, <1>4, StoresPrefix
<1>6. disk[y].log[i] = raft[m].log[i]
  BY <1>1, <1>3, <1>4, StoresPrefix
<1> QED  BY <1>5, <1>6

\* Two engines never take different entries for committed, over any elections,
\* restarts and stops of any number of peers, as long as the settings do not
\* change them and no crash tears an append that overwrites entries.
THEOREM CommittedAgree ==
  ASSUME ManyPeers
  PROVE  Spec /\ WholeOverwrites => []CommittedEntriesAgree
<1>1. IndInv /\ RaftInv => CommittedEntriesAgree
  BY AgreeHolds
<1> QED  BY <1>1, RaftInvariance, PTL
=============================================================================
