---- MODULE RaftConfig ----
(***************************************************************************)
(* The configuration of an engine (src/src/config.rs), from the settings   *)
(* at the chain head.                                                      *)
(*                                                                         *)
(* A numeric setting is a natural number, Absent, or Unparsable.  The      *)
(* setting of the peers is a sequence of peer ids, Absent, or Unparsable   *)
(* (not JSON, or not hex).  A peer id is a sequence of bytes.              *)
(***************************************************************************)
EXTENDS Integers, Sequences, FiniteSets

CONSTANTS IdBytes,       \* how many bytes make a Raft id: 8
          Byte,          \* the bytes in use
          Absent, Unparsable,
          DefaultHeartbeatTick, DefaultElectionTick,  \* of raft::Config
          DefaultPeriod                               \* of RaftEngineConfig::new

ASSUME ByteAssumption == IdBytes \in Nat \ {0} /\ Byte \subseteq 0..255
ASSUME DefaultsAssumption == /\ DefaultHeartbeatTick \in Nat \ {0}
                             /\ DefaultElectionTick \in Nat
                             /\ DefaultElectionTick > DefaultHeartbeatTick
                             /\ DefaultPeriod \in Nat
ASSUME SettingAssumption == {Absent, Unparsable} \cap Nat = {}

PeerId == Seq(Byte)

\* 1 << (i * 8)
Shift[i \in 0..IdBytes] == IF i = 0 THEN 1 ELSE 256 * Shift[i - 1]

\* Mutant: every byte is shifted by the same distance.
UnshiftedRaftId(bytes) ==
  LET u[i \in 0..IdBytes] == IF i = 0 THEN 0
                             ELSE u[i - 1] + bytes[Len(bytes) - (i - 1)]
  IN  u[IdBytes]

\* The last IdBytes bytes as a number, the last byte the least significant.
\* u[i] is the sum after i rounds of the loop.
PeerIdToRaftId(bytes) ==
  LET u[i \in 0..IdBytes] == IF i = 0 THEN 0
                             ELSE u[i - 1] + bytes[Len(bytes) - (i - 1)] * Shift[i - 1]
  IN  u[IdBytes]

\* A setting that is not there or cannot be parsed leaves the default.
Setting(s, default) == IF s \in {Absent, Unparsable} THEN default ELSE s

\* The assertion in peer_id_to_raft_id, and the two expects of
\* get_peers_from_settings.
CanLoad(peer, s) ==
  /\ s.peers \notin {Absent, Unparsable}
  /\ \A bytes \in {peer} \cup {s.peers[k] : k \in DOMAIN s.peers} : Len(bytes) >= IdBytes

LoadRaftConfig(peer, s) ==
  [id             |-> PeerIdToRaftId(peer),
   peers          |-> s.peers,
   heartbeat_tick |-> Setting(s.heartbeat_tick, DefaultHeartbeatTick),
   election_tick  |-> Setting(s.election_tick, DefaultElectionTick),
   period         |-> Setting(s.period, DefaultPeriod)]

\* What RawNode::new demands of a configuration (external).
Acceptable(c) == c.id # 0 /\ c.heartbeat_tick > 0 /\ c.election_tick > c.heartbeat_tick

\* The map raft_id_to_peer_id that SawtoothRaftNode::new makes of the peers: the
\* last of several peers with the same Raft id is kept.
PeersByRaftId(peers) ==
  LET Last(id) == CHOOSE k \in DOMAIN peers :
                    /\ PeerIdToRaftId(peers[k]) = id
                    /\ \A j \in DOMAIN peers : PeerIdToRaftId(peers[j]) = id => j <= k
  IN  [id \in {PeerIdToRaftId(peers[k]) : k \in DOMAIN peers} |-> peers[Last(id)]]
====
