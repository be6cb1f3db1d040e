---- MODULE Timers ----
(***************************************************************************)
(* Everything an engine does at a certain time: start of two engines of a  *)
(* network (src/src/engine.rs) with the settings of the chain head, and    *)
(* their timers while one of them leads and the other follows.             *)
(*                                                                         *)
(* Each engine has a Ticker, whose callback is node.tick: the Raft library *)
(* counts the ticks to its next heartbeat or election, and check_publish   *)
(* looks at how long the block has been built.  The variables lElapsed,    *)
(* lRemaining and lFired are the leader's ticker, lWait is the time since  *)
(* its loop last called it; the follower's begin with f.                   *)
(***************************************************************************)
EXTENDS LoopTiming, RaftConfig

CONSTANTS Latency,            \* bound on the time a heartbeat is under way
          MaxClock,           \* bound on the clocks sinceBeat and age
          Peers,              \* the ids the engine may have
          PeersSettings, HeartbeatSettings, ElectionSettings, PeriodSettings

ASSUME ClockAssumption == Latency \in Nat /\ MaxClock \in Nat
ASSUME TicksAssumption ==
  HeartbeatSettings \cup ElectionSettings \cup PeriodSettings \subseteq Nat \cup {Absent, Unparsable}

ASSUME PeersAssumption == /\ Peers \subseteq PeerId
                          /\ \A s \in PeersSettings : \/ s \in {Absent, Unparsable}
                                                      \/ s \in Seq(PeerId)

VARIABLES phase,              \* of the engines: starting, leading, electing, panicked
          config,             \* the configuration loaded, the same at every engine
          raft_id_to_peer_id,
          lElapsed, lRemaining, lFired, lWait,
          fElapsed, fRemaining, fFired, fWait,
          heartbeat_elapsed,  \* the leader's ticks since its last heartbeat
          election_elapsed,   \* the follower's ticks since it heard of the leader
          beats,              \* the ages of the heartbeats under way
          sinceBeat,          \* the time since the leader's last heartbeat
          age,                \* how long the leader has been building a block
          answer              \* what the validator has said when asked for that block

leaderTicker   == <<lElapsed, lRemaining, lFired, lWait>>
followerTicker == <<fElapsed, fRemaining, fFired, fWait>>
raftTimers     == <<heartbeat_elapsed, election_elapsed, beats, sinceBeat>>
building       == <<age, answer>>

vars == <<phase, config, raft_id_to_peer_id, leaderTicker, followerTicker, raftTimers,
          building>>

Leader   == INSTANCE Ticker WITH elapsed <- lElapsed, remaining <- lRemaining, fired <- lFired
Follower == INSTANCE Ticker WITH elapsed <- fElapsed, remaining <- fRemaining, fired <- fFired

NotBuilding == -1
NoConfig    == [id |-> 0, peers |-> << >>, heartbeat_tick |-> 0, election_tick |-> 0,
                period |-> 0]

Config == [id : Nat, peers : Seq(PeerId), heartbeat_tick : Nat, election_tick : Nat,
           period : Nat]

Running == phase \in {"leading", "electing"}

TypeOK ==
  /\ phase \in {"starting", "leading", "electing", "panicked"}
  /\ config \in Config
  /\ Running => Acceptable(config)
  /\ Leader!TypeOK /\ lWait \in 0..(lRemaining + MaxDelay)
  /\ Follower!TypeOK /\ fWait \in 0..(fRemaining + MaxDelay)
  /\ heartbeat_elapsed \in 0..config.heartbeat_tick
  /\ election_elapsed \in 0..(2 * config.election_tick)
  /\ beats \subseteq 0..Latency
  /\ sinceBeat \in Nat
  /\ age \in Nat \cup {NotBuilding}
  /\ answer \in {"none", "BlockNotReady"}

Init ==
  /\ phase = "starting"
  /\ config = NoConfig
  /\ raft_id_to_peer_id = << >>
  /\ Leader!Init /\ lWait = 0
  /\ Follower!Init /\ fWait = 0
  /\ heartbeat_elapsed = 0 /\ election_elapsed = 0
  /\ beats = {} /\ sinceBeat = 0
  /\ age = NotBuilding /\ answer = "none"

-----------------------------------------------------------------------------
(***************************************************************************)
(* start, up to the loop.                                                  *)
(***************************************************************************)
Settings == [peers : PeersSettings, heartbeat_tick : HeartbeatSettings,
             election_tick : ElectionSettings, period : PeriodSettings]

\* The engines find a leader, which begins its first block.
Start(peer, s) ==
  /\ phase = "starting"
  /\ CanLoad(peer, s)
  /\ Acceptable(LoadRaftConfig(peer, s))
  /\ config' = LoadRaftConfig(peer, s)
  /\ raft_id_to_peer_id' = PeersByRaftId(s.peers)
  /\ phase' = "leading"
  /\ age' = 0
  /\ UNCHANGED <<leaderTicker, followerTicker, raftTimers, answer>>

\* One of the expects, or the assertion on the length of a peer id.
StartPanics(peer, s) ==
  /\ phase = "starting"
  /\ ~(CanLoad(peer, s) /\ Acceptable(LoadRaftConfig(peer, s)))
  /\ phase' = "panicked"
  /\ UNCHANGED <<config, raft_id_to_peer_id, leaderTicker, followerTicker, raftTimers,
                 building>>

Panicked == phase = "panicked" /\ UNCHANGED vars

-----------------------------------------------------------------------------
(***************************************************************************)
(* Time, and the iterations of the two loops.                              *)
(***************************************************************************)
\* A loop calls tick no later than MaxDelay after its wait, and a heartbeat arrives
\* no later than Latency after it was sent.
MayPass == /\ lWait < lRemaining + MaxDelay
           /\ fWait < fRemaining + MaxDelay
           /\ phase = "leading" => Latency \notin beats

\* A clock one unit later, up to the bound.
Later(clock) == IF clock < MaxClock THEN clock + 1 ELSE clock

Pass ==
  /\ Running
  /\ MayPass
  /\ lWait' = lWait + 1
  /\ fWait' = fWait + 1
  /\ IF phase = "leading"
     THEN /\ beats' = {b + 1 : b \in beats}
          /\ sinceBeat' = Later(sinceBeat)
          /\ age' = IF age = NotBuilding \/ answer # "none" THEN age ELSE Later(age)
     ELSE UNCHANGED <<beats, sinceBeat, age>>
  /\ UNCHANGED <<phase, config, raft_id_to_peer_id, lElapsed, lRemaining, lFired,
                 fElapsed, fRemaining, fFired, heartbeat_elapsed, election_elapsed, answer>>

\* raw_node.tick of a leader (external).
LeaderTick ==
  LET due == heartbeat_elapsed + 1 >= config.heartbeat_tick
  IN  /\ heartbeat_elapsed' = IF due THEN 0 ELSE heartbeat_elapsed + 1
      /\ beats' = IF due THEN beats \cup {0} ELSE beats
      /\ sinceBeat' = IF due THEN 0 ELSE sinceBeat

\* Mutant: the time the block has been built must exceed twice the period.
BuiltTwiceAsLong(a) == a # NotBuilding /\ a >= 2 * config.period

BuiltLongEnough(a) == a # NotBuilding /\ a >= config.period

\* check_publish, for a block of age a.
CheckPublish(a) ==
  \/ /\ BuiltLongEnough(a)
     /\ age' = NotBuilding
     /\ answer' = "none"
  \/ /\ BuiltLongEnough(a)
     /\ age' = a
     /\ answer' = "BlockNotReady"
  \/ /\ ~BuiltLongEnough(a)
     /\ age' = a
     /\ UNCHANGED answer

\* An iteration of the leader's loop, after an update, which may come at any time,
\* or after the wait.  The update may be the one that makes it begin a block.
LeaderLoop ==
  /\ phase = "leading"
  /\ Leader!Tick(lWait) /\ lWait' = 0
  /\ \E a \in {age} \cup (IF age = NotBuilding THEN {0} ELSE {}) :
       IF lFired' THEN LeaderTick /\ CheckPublish(a)
                  ELSE age' = a /\ UNCHANGED <<heartbeat_elapsed, beats, sinceBeat, answer>>
  /\ UNCHANGED <<phase, config, raft_id_to_peer_id, followerTicker, election_elapsed>>

\* raw_node.tick of a follower that has counted e ticks (external).  Its election
\* timeout is drawn from the interval election_tick to 2 * election_tick - 1.
FollowerTick(e) ==
  \/ /\ e + 1 >= config.election_tick
     /\ phase' = "electing"
     /\ election_elapsed' = 0
  \/ /\ e + 1 < 2 * config.election_tick - 1
     /\ election_elapsed' = e + 1
     /\ UNCHANGED phase

\* An iteration of the follower's loop; the update may be a heartbeat.
FollowerLoop ==
  /\ phase = "leading"
  /\ Follower!Tick(fWait) /\ fWait' = 0
  /\ \E arrived \in {{}} \cup {{b} : b \in beats} :
       LET e == IF arrived = {} THEN election_elapsed ELSE 0
       IN  /\ beats' = beats \ arrived
           /\ IF fFired' THEN FollowerTick(e)
                         ELSE election_elapsed' = e /\ UNCHANGED phase
  /\ UNCHANGED <<config, raft_id_to_peer_id, leaderTicker, heartbeat_elapsed, sinceBeat,
                 building>>

\* During an election only the tickers matter.
LeaderElecting ==
  /\ phase = "electing"
  /\ Leader!Tick(lWait) /\ lWait' = 0
  /\ UNCHANGED <<phase, config, raft_id_to_peer_id, followerTicker, raftTimers, building>>

FollowerElecting ==
  /\ phase = "electing"
  /\ Follower!Tick(fWait) /\ fWait' = 0
  /\ UNCHANGED <<phase, config, raft_id_to_peer_id, leaderTicker, raftTimers, building>>

Next == \/ \E peer \in Peers, s \in Settings : Start(peer, s) \/ StartPanics(peer, s)
        \/ Panicked
        \/ Pass
        \/ LeaderLoop \/ LeaderElecting
        \/ FollowerLoop \/ FollowerElecting

Spec == Init /\ [][Next]_vars

-----------------------------------------------------------------------------
\* The wait that tick returns ends no later than Timeout after the last callback,
\* at both engines and however many updates came between: no Raft clock is slow.
WaitsEndInTime == Leader!WaitEndsInTime /\ Follower!WaitEndsInTime

\* A leader that has work all the time still sends a heartbeat every
\* heartbeat_tick timeouts, but for the delays of its loop.
HeartbeatsInTime ==
  phase = "leading" => sinceBeat <= config.heartbeat_tick * (Timeout + MaxDelay)

\* A block is finalized within one more timeout of the time the setting asks for,
\* if the validator is ready: check_publish, which runs only when the ticker fires,
\* is never missed.
PublishOnTime ==
  phase = "leading" /\ age # NotBuilding /\ answer = "none" =>
    age <= config.period + Timeout + MaxDelay

\* The last IdBytes bytes of a peer id.
Suffix(bytes) == SubSeq(bytes, Len(bytes) - IdBytes + 1, Len(bytes))

\* Peers that differ in those bytes have different Raft ids, so that every message
\* of the library to one of them finds it; only a peer that agrees in them with a
\* later one is lost.
PeersAreReachable ==
  \A k \in DOMAIN config.peers :
    \/ raft_id_to_peer_id[PeerIdToRaftId(config.peers[k])] = config.peers[k]
    \/ \E j \in (k + 1)..Len(config.peers) : Suffix(config.peers[j]) = Suffix(config.peers[k])

\* "nodes can start new elections if no messages have been received from the
\* leader": the leader's heartbeats all arrive, so none starts.
NoNeedlessElection == phase # "electing"

-----------------------------------------------------------------------------
\* Time goes on, and a loop calls tick again when its wait is over.
Fairness == /\ WF_vars(Pass)
            /\ WF_vars(LeaderLoop \/ LeaderElecting)
            /\ WF_vars(FollowerLoop \/ FollowerElecting)

FairSpec == Spec /\ Fairness

\* The callbacks of both engines run again and again, even if an update precedes
\* every timeout.
KeepsTicking == Running ~> ([]<>lFired /\ []<>fFired)
====
