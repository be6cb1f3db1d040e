---- MODULE TimersProofs ----
(***************************************************************************)
(* Proofs about the timers, for every timeout, delay, latency and setting. *)
(***************************************************************************)
EXTENDS Timers, InductionLemmas

\* The tickers of the two engines, each with the time since its loop called it.
LeaderClock == Leader!TypeOK /\ Leader!WaitEndsInTime /\ lWait \in 0..(lRemaining + MaxDelay)

FollowerClock ==
  Follower!TypeOK /\ Follower!WaitEndsInTime /\ fWait \in 0..(fRemaining + MaxDelay)

\* The longest time between two callbacks of a ticker, and the time since the last.
MaxGap == Timeout + MaxDelay
Gap    == Leader!SinceLast + lWait

\* What the counters say about the times: every tick the library has counted stands
\* for at most MaxGap, and a block that is due has become so since the last tick.
CountersOK ==
  /\ config.heartbeat_tick \in Nat /\ config.period \in Nat
  /\ heartbeat_elapsed \in Nat /\ sinceBeat \in Nat
  /\ age \in Nat \cup {NotBuilding}
  /\ phase = "starting" => heartbeat_elapsed = 0 /\ sinceBeat = 0
  /\ Running => heartbeat_elapsed < config.heartbeat_tick
  /\ phase = "leading" => sinceBeat <= heartbeat_elapsed * MaxGap + Gap
  /\ phase = "leading" /\ age # NotBuilding /\ answer = "none" => age <= config.period + Gap

Inv == LeaderClock /\ FollowerClock /\ CountersOK

-----------------------------------------------------------------------------
\* A call of the leader's ticker keeps its clock; it ends the gap if it runs the
\* callback, and leaves it as it is otherwise.
LEMMA LeaderCall ==
  ASSUME LeaderClock, Leader!Tick(lWait), lWait' = 0
  PROVE  /\ LeaderClock' /\ lFired' \in BOOLEAN
         /\ lFired' => Gap' = 0
         /\ ~lFired' => Gap' = Gap
<1> DEFINE e == Leader!SinceLast + lWait
<1>1. /\ Leader!SinceLast \in Nat /\ lWait \in Nat /\ lRemaining \in 1..Timeout
      /\ Leader!SinceLast + lRemaining <= Timeout /\ lWait <= lRemaining + MaxDelay
  BY TimeoutAssumption, MaxDelayAssumption
     DEF LeaderClock, Leader!TypeOK, Leader!WaitEndsInTime, Leader!SinceLast
<1>2. e \in 0..(Timeout + MaxDelay)
  BY <1>1, TimeoutAssumption, MaxDelayAssumption
<1>3. lElapsed' = e /\ (lFired' <=> lRemaining <= e)
  BY <1>1, <1>2 DEF Leader!Tick, Leader!Due
<1>4. lFired' \in BOOLEAN
  <2>1. Leader!Due(e) \in BOOLEAN
    BY <1>1, <1>2 DEF Leader!Due
  <2> QED
    BY <2>1, Zenon DEF Leader!Tick
<1>5. CASE lRemaining <= e
  <2>1. lRemaining' = Timeout
    BY <1>5, <1>1, <1>2 DEF Leader!Tick, Leader!Due
  <2>2. lFired' = TRUE
    BY <1>3, <1>4, <1>5
  <2>3. Leader!SinceLast' = 0
    BY <2>2, Zenon DEF Leader!SinceLast
  <2> QED
    BY <1>2, <1>3, <1>4, <2>1, <2>2, <2>3, TimeoutAssumption, MaxDelayAssumption
       DEF LeaderClock, Leader!TypeOK, Leader!WaitEndsInTime, Gap
<1>6. CASE ~(lRemaining <= e)
  <2>1. lRemaining' = lRemaining - e
    BY <1>6, <1>1, <1>2 DEF Leader!Tick, Leader!Due, Leader!Remaining
  <2>2. lFired' = FALSE
    BY <1>3, <1>4, <1>6
  <2>3. Leader!SinceLast' = e
    BY <1>3, <2>2, Zenon DEF Leader!SinceLast
  <2> QED
    BY <1>1, <1>2, <1>3, <1>4, <1>6, <2>1, <2>2, <2>3, TimeoutAssumption, MaxDelayAssumption
       DEF LeaderClock, Leader!TypeOK, Leader!WaitEndsInTime, Gap
<1> QED  BY <1>5, <1>6

\* A call of the follower's ticker keeps its clock.
LEMMA FollowerCall ==
  ASSUME FollowerClock, Follower!Tick(fWait), fWait' = 0
  PROVE  FollowerClock' /\ fFired' \in BOOLEAN
<1> DEFINE e == Follower!SinceLast + fWait
<1>1. /\ Follower!SinceLast \in Nat /\ fWait \in Nat /\ fRemaining \in 1..Timeout
      /\ Follower!SinceLast + fRemaining <= Timeout /\ fWait <= fRemaining + MaxDelay
  BY TimeoutAssumption, MaxDelayAssumption
     DEF FollowerClock, Follower!TypeOK, Follower!WaitEndsInTime, Follower!SinceLast
<1>2. e \in 0..(Timeout + MaxDelay)
  BY <1>1, TimeoutAssumption, MaxDelayAssumption
<1>3. fElapsed' = e /\ (fFired' <=> fRemaining <= e)
  BY <1>1, <1>2 DEF Follower!Tick, Follower!Due
<1>4. fFired' \in BOOLEAN
  <2>1. Follower!Due(e) \in BOOLEAN
    BY <1>1, <1>2 DEF Follower!Due
  <2> QED
    BY <2>1, Zenon DEF Follower!Tick
<1>5. CASE fRemaining <= e
  <2>1. fRemaining' = Timeout
    BY <1>5, <1>1, <1>2 DEF Follower!Tick, Follower!Due
  <2>2. fFired' = TRUE
    BY <1>3, <1>4, <1>5
  <2>3. Follower!SinceLast' = 0
    BY <2>2, Zenon DEF Follower!SinceLast
  <2> QED
    BY <1>2, <1>3, <1>4, <2>1, <2>2, <2>3, TimeoutAssumption, MaxDelayAssumption
       DEF FollowerClock, Follower!TypeOK, Follower!WaitEndsInTime
<1>6. CASE ~(fRemaining <= e)
  <2>1. fRemaining' = fRemaining - e
    BY <1>6, <1>1, <1>2 DEF Follower!Tick, Follower!Due, Follower!Remaining
  <2>2. fFired' = FALSE
    BY <1>3, <1>4, <1>6
  <2>3. Follower!SinceLast' = e
    BY <1>3, <2>2, Zenon DEF Follower!SinceLast
  <2> QED
    BY <1>1, <1>2, <1>3, <1>4, <1>6, <2>1, <2>2, <2>3, TimeoutAssumption, MaxDelayAssumption
       DEF FollowerClock, Follower!TypeOK, Follower!WaitEndsInTime
<1> QED  BY <1>5, <1>6

\* What lies within one gap: at most a timeout and a delay.
LEMMA GapBound ==
  ASSUME LeaderClock
  PROVE  Gap \in Nat /\ Gap <= MaxGap /\ MaxGap \in Nat
<1>1. /\ Leader!SinceLast \in Nat /\ lWait \in Nat /\ lRemaining \in 1..Timeout
      /\ Leader!SinceLast + lRemaining <= Timeout /\ lWait <= lRemaining + MaxDelay
  BY TimeoutAssumption, MaxDelayAssumption
     DEF LeaderClock, Leader!TypeOK, Leader!WaitEndsInTime, Leader!SinceLast
<1> QED  BY <1>1, TimeoutAssumption, MaxDelayAssumption DEF Gap, MaxGap

\* Ticks and gaps.
LEMMA TicksAndGaps ==
  ASSUME NEW a \in Nat, NEW b \in Nat, NEW c \in Nat
  PROVE  /\ a * c \in Nat
         /\ (a + 1) * c = a * c + c
         /\ a < b => a * c + c <= b * c
<1>1. a * c \in Nat /\ b * c \in Nat
  OBVIOUS
<1>2. (a + 1) * c = a * c + c
  OBVIOUS
<1>3. ASSUME a < b PROVE a * c + c <= b * c
  <2>1. b - (a + 1) \in Nat
    BY <1>3
  <2>2. PICK d \in Nat : b = (a + 1) + d
    BY <2>1
  <2>3. b * c = (a + 1) * c + d * c /\ d * c \in Nat
    BY <2>2
  <2> QED  BY <1>1, <1>2, <2>3
<1> QED  BY <1>1, <1>2, <1>3

-----------------------------------------------------------------------------
\* Fresh tickers, no counters yet.
LEMMA InitInv == Init => Inv
<1> SUFFICES ASSUME Init PROVE Inv
  OBVIOUS
<1>1. lFired \in BOOLEAN /\ fFired \in BOOLEAN
  BY Zenon DEF Init, Leader!Init, Follower!Init
<1>2. Leader!SinceLast = 0 /\ Follower!SinceLast = 0
  BY Zenon DEF Init, Leader!Init, Follower!Init, Leader!SinceLast, Follower!SinceLast
<1>0. /\ lElapsed = 0 /\ lRemaining = Timeout /\ lWait = 0
      /\ fElapsed = 0 /\ fRemaining = Timeout /\ fWait = 0
  BY DEF Init, Leader!Init, Follower!Init
<1>3. LeaderClock
  BY <1>0, <1>1, <1>2, TimeoutAssumption, MaxDelayAssumption
     DEF LeaderClock, Leader!TypeOK, Leader!WaitEndsInTime
<1>4. FollowerClock
  BY <1>0, <1>1, <1>2, TimeoutAssumption, MaxDelayAssumption
     DEF FollowerClock, Follower!TypeOK, Follower!WaitEndsInTime
<1>5. CountersOK
  BY DEF Init, CountersOK, NoConfig, NotBuilding, Running
<1> QED  BY <1>3, <1>4, <1>5 DEF Inv

\* start: the library accepts only a heartbeat_tick above zero, and a setting that
\* cannot be parsed leaves a default.
LEMMA StartInv ==
  ASSUME Inv, NEW peer \in Peers, NEW s \in Settings, Start(peer, s)
  PROVE  Inv'
<1>1. LeaderClock' /\ FollowerClock' /\ Gap' = Gap
  BY DEF Inv, Start, leaderTicker, followerTicker, LeaderClock, FollowerClock, Gap,
         Leader!TypeOK, Leader!WaitEndsInTime, Leader!SinceLast,
         Follower!TypeOK, Follower!WaitEndsInTime, Follower!SinceLast
<1>2. /\ config'.heartbeat_tick \in Nat /\ config'.period \in Nat
      /\ config'.heartbeat_tick > 0
  <2>1. /\ s.heartbeat_tick \in Nat \cup {Absent, Unparsable}
        /\ s.period \in Nat \cup {Absent, Unparsable}
    BY TicksAssumption DEF Settings
  <2> QED
    BY <2>1, DefaultsAssumption DEF Start, LoadRaftConfig, Acceptable, Setting
<1>3. Gap \in Nat
  BY GapBound DEF Inv
<1>4. CountersOK'
  <2>1. heartbeat_elapsed' = 0 /\ sinceBeat' = 0 /\ age' = 0 /\ phase' = "leading"
    BY DEF Inv, CountersOK, Start, raftTimers
  <2>2. MaxGap' = MaxGap /\ MaxGap \in Nat /\ 0 * MaxGap = 0
    BY TimeoutAssumption, MaxDelayAssumption DEF MaxGap
  <2> QED
    BY <1>1, <1>2, <1>3, <2>1, <2>2 DEF CountersOK, NotBuilding, Running
<1> QED  BY <1>1, <1>4 DEF Inv

\* Time passes: the gap grows with the times it bounds.
LEMMA PassInv ==
  ASSUME Inv, Pass
  PROVE  Inv'
<1>1. LeaderClock' /\ FollowerClock' /\ Gap' = Gap + 1
  <2>1. Leader!SinceLast' = Leader!SinceLast /\ Follower!SinceLast' = Follower!SinceLast
    BY Zenon DEF Pass, Leader!SinceLast, Follower!SinceLast
  <2>2. /\ Leader!SinceLast \in Nat /\ lWait \in Nat /\ fWait \in Nat
        /\ lRemaining \in Nat /\ fRemaining \in Nat
    BY TimeoutAssumption, MaxDelayAssumption
       DEF Inv, LeaderClock, FollowerClock, Leader!TypeOK, Follower!TypeOK, Leader!SinceLast
  <2>3. lWait' \in 0..(lRemaining' + MaxDelay) /\ fWait' \in 0..(fRemaining' + MaxDelay)
    BY <2>2, MaxDelayAssumption DEF Pass, MayPass
  <2>4. Leader!TypeOK' /\ Follower!TypeOK'
    BY DEF Inv, Pass, LeaderClock, FollowerClock, Leader!TypeOK, Follower!TypeOK
  <2>5. Leader!WaitEndsInTime' /\ Follower!WaitEndsInTime'
    BY <2>1 DEF Inv, Pass, LeaderClock, FollowerClock, Leader!WaitEndsInTime,
                Follower!WaitEndsInTime
  <2>6. Gap' = Gap + 1
    BY <2>1, <2>2 DEF Pass, Gap
  <2> QED  BY <2>3, <2>4, <2>5, <2>6 DEF LeaderClock, FollowerClock
<1>2. Gap \in Nat /\ MaxGap \in Nat /\ heartbeat_elapsed * MaxGap \in Nat /\ MaxGap' = MaxGap
  <2>1. Gap \in Nat /\ MaxGap \in Nat
    BY GapBound DEF Inv
  <2> QED  BY <2>1, TicksAndGaps DEF Inv, CountersOK, MaxGap
<1>3. CountersOK'
  <2> DEFINE beat == heartbeat_elapsed * MaxGap
  <2>1. beat \in Nat /\ beat' = beat
    BY <1>2 DEF Pass
  <2> HIDE DEF beat
  <2>2. /\ sinceBeat' \in Nat
        /\ phase' = "leading" => sinceBeat' <= beat' + Gap'
    BY <1>1, <1>2, <2>1, ClockAssumption DEF Inv, CountersOK, Pass, Later, beat
  <2>3. /\ age' \in Nat \cup {NotBuilding}
        /\ phase' = "leading" /\ age' # NotBuilding /\ answer' = "none" =>
             age' <= config'.period + Gap'
    BY <1>1, <1>2, ClockAssumption DEF Inv, CountersOK, Pass, Later, NotBuilding
  <2> QED
    BY <2>2, <2>3 DEF Inv, CountersOK, Pass, Running, beat
<1> QED  BY <1>1, <1>3 DEF Inv

\* An iteration of the leader's loop: a callback ends the gap and counts for it.
LEMMA LeaderLoopInv ==
  ASSUME Inv, LeaderLoop
  PROVE  Inv'
<1>1. /\ LeaderClock' /\ lFired' \in BOOLEAN
      /\ lFired' => Gap' = 0
      /\ ~lFired' => Gap' = Gap
  BY LeaderCall DEF Inv, LeaderLoop
<1>2. FollowerClock'
  BY DEF Inv, LeaderLoop, followerTicker, FollowerClock, Follower!TypeOK,
         Follower!WaitEndsInTime, Follower!SinceLast
<1>3. PICK a \in {age} \cup (IF age = NotBuilding THEN {0} ELSE {}) :
        IF lFired' THEN LeaderTick /\ CheckPublish(a)
                   ELSE age' = a /\ UNCHANGED <<heartbeat_elapsed, beats, sinceBeat, answer>>
  BY DEF LeaderLoop
<1>4. /\ Gap \in Nat /\ Gap <= MaxGap /\ MaxGap \in Nat /\ MaxGap' = MaxGap
      /\ phase = "leading" /\ phase' = "leading" /\ config' = config
  BY GapBound DEF Inv, LeaderLoop, MaxGap
<1>5. /\ heartbeat_elapsed \in Nat /\ config.heartbeat_tick \in Nat /\ config.period \in Nat
      /\ heartbeat_elapsed < config.heartbeat_tick /\ sinceBeat \in Nat
      /\ sinceBeat <= heartbeat_elapsed * MaxGap + Gap
      /\ a \in Nat \cup {NotBuilding}
      /\ a # NotBuilding /\ answer = "none" => a <= config.period + Gap
  BY <1>3, <1>4 DEF Inv, CountersOK, Running, NotBuilding
<1>6. /\ heartbeat_elapsed * MaxGap \in Nat
      /\ (heartbeat_elapsed + 1) * MaxGap = heartbeat_elapsed * MaxGap + MaxGap
      /\ 0 * MaxGap = 0
  BY <1>4, <1>5, TicksAndGaps
<1>7. CASE lFired'
  <2>1. LeaderTick /\ CheckPublish(a) /\ Gap' = 0
    BY <1>1, <1>3, <1>7
  <2>2. /\ heartbeat_elapsed' \in Nat /\ heartbeat_elapsed' < config.heartbeat_tick
        /\ sinceBeat' \in Nat
    BY <1>5, <2>1 DEF LeaderTick
  <2>3. sinceBeat' <= heartbeat_elapsed' * MaxGap
    BY <1>4, <1>5, <1>6, <2>1 DEF LeaderTick
  <2>4. /\ age' \in Nat \cup {NotBuilding}
        /\ age' # NotBuilding /\ answer' = "none" => age' <= config.period
    BY <1>5, <2>1 DEF CheckPublish, BuiltLongEnough, NotBuilding
  <2>5. heartbeat_elapsed' * MaxGap \in Nat
    BY <1>4, <2>2, TicksAndGaps
  <2>6. sinceBeat' <= heartbeat_elapsed' * MaxGap' + Gap'
    <3> DEFINE beat == heartbeat_elapsed' * MaxGap
    <3> HIDE DEF beat
    <3>1. sinceBeat' <= beat /\ beat \in Nat
      BY <2>3, <2>5 DEF beat
    <3>2. sinceBeat' <= beat + Gap'
      BY <2>1, <2>2, <3>1
    <3> QED  BY <1>4, <3>2 DEF beat
  <2>7. age' # NotBuilding /\ answer' = "none" => age' <= config'.period + Gap'
    BY <1>4, <1>5, <2>1, <2>4 DEF NotBuilding
  <2>8. CountersOK'
    BY <1>4, <1>5, <2>2, <2>4, <2>6, <2>7 DEF CountersOK, Running
  <2> QED
    BY <1>1, <1>2, <2>8 DEF Inv
<1>8. CASE ~lFired'
  BY <1>1, <1>2, <1>3, <1>4, <1>5, <1>8 DEF Inv, CountersOK, Running
<1> QED  BY <1>1, <1>7, <1>8

\* An iteration of the follower's loop, and all loops during an election, leave the
\* leader's counters alone.
LEMMA OtherLoopsInv ==
  ASSUME Inv, FollowerLoop \/ LeaderElecting \/ FollowerElecting
  PROVE  Inv'
<1>1. CASE FollowerLoop
  <2>1. FollowerClock'
    BY <1>1, FollowerCall DEF Inv, FollowerLoop
  <2>2. LeaderClock' /\ Gap' = Gap
    BY <1>1 DEF Inv, FollowerLoop, leaderTicker, LeaderClock, Leader!TypeOK,
                Leader!WaitEndsInTime, Leader!SinceLast, Gap
  <2>3. phase = "leading" /\ UNCHANGED <<config, heartbeat_elapsed, sinceBeat, age, answer>>
    BY <1>1 DEF FollowerLoop, building
  <2>4. phase' \in {"leading", "electing"}
    BY <1>1 DEF FollowerLoop, FollowerTick
  <2>5. CountersOK'
    BY <2>2, <2>3, <2>4 DEF Inv, CountersOK, Running, MaxGap
  <2> QED  BY <2>1, <2>2, <2>5 DEF Inv
<1>2. CASE LeaderElecting
  <2>1. LeaderClock'
    BY <1>2, LeaderCall DEF Inv, LeaderElecting
  <2>2. FollowerClock'
    BY <1>2 DEF Inv, LeaderElecting, followerTicker, FollowerClock, Follower!TypeOK,
                Follower!WaitEndsInTime, Follower!SinceLast
  <2>3. CountersOK'
    BY <1>2 DEF Inv, LeaderElecting, raftTimers, building, CountersOK, Running
  <2> QED  BY <2>1, <2>2, <2>3 DEF Inv
<1>3. CASE FollowerElecting
  <2>1. FollowerClock'
    BY <1>3, FollowerCall DEF Inv, FollowerElecting
  <2>2. LeaderClock'
    BY <1>3 DEF Inv, FollowerElecting, leaderTicker, LeaderClock, Leader!TypeOK,
                Leader!WaitEndsInTime, Leader!SinceLast
  <2>3. CountersOK'
    BY <1>3 DEF Inv, FollowerElecting, raftTimers, building, CountersOK, Running
  <2> QED  BY <2>1, <2>2, <2>3 DEF Inv
<1> QED  BY <1>1, <1>2, <1>3

\* Steps that leave all times alone: a panic at the start, and stuttering.
LEMMA StandingStillInv ==
  ASSUME Inv,
         \/ UNCHANGED vars
         \/ /\ phase' = "panicked"
            /\ UNCHANGED <<config, leaderTicker, followerTicker, raftTimers, building>>
  PROVE  Inv'
<1>1. UNCHANGED <<config, lElapsed, lRemaining, lFired, lWait, fElapsed, fRemaining, fFired,
                  fWait, heartbeat_elapsed, sinceBeat, age, answer>>
  BY DEF vars, leaderTicker, followerTicker, raftTimers, building
<1>2. phase' \in {phase, "panicked"}
  BY DEF vars
<1>3. LeaderClock' /\ FollowerClock' /\ Gap' = Gap
  BY <1>1 DEF Inv, LeaderClock, FollowerClock, Gap, Leader!TypeOK, Leader!WaitEndsInTime,
              Leader!SinceLast, Follower!TypeOK, Follower!WaitEndsInTime, Follower!SinceLast
<1>4. CountersOK'
  BY <1>1, <1>2, <1>3 DEF Inv, CountersOK, Running, MaxGap
<1> QED  BY <1>3, <1>4 DEF Inv

\* The invariant says what the settings promise.
LEMMA InvMeansInTime ==
  ASSUME Inv
  PROVE  WaitsEndInTime /\ HeartbeatsInTime /\ PublishOnTime
<1>1. WaitsEndInTime
  BY DEF Inv, LeaderClock, FollowerClock, WaitsEndInTime
<1>2. Gap \in Nat /\ Gap <= MaxGap /\ MaxGap \in Nat
  BY GapBound DEF Inv
<1>3. HeartbeatsInTime
  <2> SUFFICES ASSUME phase = "leading"
               PROVE  sinceBeat <= config.heartbeat_tick * (Timeout + MaxDelay)
    BY DEF HeartbeatsInTime
  <2>1. /\ heartbeat_elapsed \in Nat /\ config.heartbeat_tick \in Nat /\ sinceBeat \in Nat
        /\ heartbeat_elapsed < config.heartbeat_tick
        /\ sinceBeat <= heartbeat_elapsed * MaxGap + Gap
    BY DEF Inv, CountersOK, Running
  <2>2. /\ heartbeat_elapsed * MaxGap \in Nat /\ config.heartbeat_tick * MaxGap \in Nat
        /\ heartbeat_elapsed * MaxGap + MaxGap <= config.heartbeat_tick * MaxGap
    BY <1>2, <2>1, TicksAndGaps
  <2>3. sinceBeat <= config.heartbeat_tick * MaxGap
    BY <1>2, <2>1, <2>2
  <2> QED  BY <2>3 DEF MaxGap
<1>4. PublishOnTime
  BY <1>2, TimeoutAssumption, MaxDelayAssumption
     DEF Inv, CountersOK, PublishOnTime, MaxGap, NotBuilding
<1> QED  BY <1>1, <1>3, <1>4

\* The invariant holds in every state.
LEMMA TimersInvariance == Spec => []Inv
<1>1. Inv /\ [Next]_vars => Inv'
  <2> SUFFICES ASSUME Inv, [Next]_vars PROVE Inv'
    OBVIOUS
  <2>1. ASSUME NEW peer \in Peers, NEW s \in Settings, Start(peer, s) PROVE Inv'
    BY <2>1, StartInv
  <2>2. ASSUME NEW peer \in Peers, NEW s \in Settings, StartPanics(peer, s) PROVE Inv'
    BY <2>2, StandingStillInv DEF StartPanics
  <2>3. CASE Panicked \/ UNCHANGED vars
    BY <2>3, StandingStillInv DEF Panicked
  <2>4. CASE Pass
    BY <2>4, PassInv
  <2>5. CASE LeaderLoop
    BY <2>5, LeaderLoopInv
  <2>6. CASE FollowerLoop \/ LeaderElecting \/ FollowerElecting
    BY <2>6, OtherLoopsInv
  <2> QED  BY <2>1, <2>2, <2>3, <2>4, <2>5, <2>6 DEF Next
<1> QED  BY InitInv, <1>1, PTL DEF Spec

\* Whatever updates arrive and however late the loops run within MaxDelay, the wait
\* that Ticker::tick returns ends in time: no Raft clock is slow.
THEOREM WaitsInTime == Spec => []WaitsEndInTime
<1>1. Inv => WaitsEndInTime
  BY InvMeansInTime
<1> QED  BY <1>1, TimersInvariance, PTL

\* The leader sends a heartbeat every heartbeat_tick timeouts, but for the delays of
\* its loop.
THEOREM HeartbeatsSent == Spec => []HeartbeatsInTime
<1>1. Inv => HeartbeatsInTime
  BY InvMeansInTime
<1> QED  BY <1>1, TimersInvariance, PTL

\* check_publish asks for a block within one timeout of the time it is due.
THEOREM BlocksPublished == Spec => []PublishOnTime
<1>1. Inv => PublishOnTime
  BY InvMeansInTime
<1> QED  BY <1>1, TimersInvariance, PTL

-----------------------------------------------------------------------------
(* Raft ids *)

\* The sums after each round of the loop of peer_id_to_raft_id.
Rounds(bytes) ==
  CHOOSE u : u = [i \in 0..IdBytes |->
                    IF i = 0 THEN 0 ELSE u[i - 1] + bytes[Len(bytes) - (i - 1)] * Shift[i - 1]]

LongEnough(bytes) == bytes \in PeerId /\ Len(bytes) >= IdBytes

\* Facts about products
LEMMA Products ==
  ASSUME NEW x \in Nat, NEW y \in Nat, NEW s \in Nat
  PROVE  /\ x * s \in Nat
         /\ x <= y => x * s <= y * s
         /\ x < y => x * s + s <= y * s
<1>1. x * s \in Nat /\ y * s \in Nat
  OBVIOUS
<1>2. ASSUME NEW d \in Nat, y = x + d PROVE y * s = x * s + d * s /\ d * s \in Nat
  BY <1>2
<1>3. ASSUME x <= y PROVE x * s <= y * s
  <2>1. y - x \in Nat /\ y = x + (y - x)
    BY <1>3
  <2>2. y * s = x * s + (y - x) * s /\ (y - x) * s \in Nat
    BY <1>2, <2>1
  <2> QED  BY <1>1, <2>2
<1>4. ASSUME x < y PROVE x * s + s <= y * s
  <2>1. y - x - 1 \in Nat /\ y = (x + 1) + (y - x - 1)
    BY <1>4
  <2> DEFINE d == y - x - 1
  <2> HIDE DEF d
  <2>2. d \in Nat /\ y = (x + 1) + d
    BY <2>1 DEF d
  <2>3. y * s = x * s + s + d * s /\ d * s \in Nat
    BY <2>2
  <2> QED  BY <1>1, <2>3
<1> QED  BY <1>1, <1>3, <1>4

\* A byte times its place value
LEMMA ByteProduct ==
  ASSUME NEW x \in 0..255, NEW s \in Nat
  PROVE  x * s \in Nat /\ x * s <= 255 * s
<1>1. PICK y \in Nat : y = 255
  OBVIOUS
<1>2. x \in Nat /\ x <= y
  BY <1>1
<1>3. x * s \in Nat /\ x * s <= y * s
  BY <1>1, <1>2, Products
<1> QED  BY <1>1, <1>3

\* The place values of the bytes
LEMMA Shifts ==
  /\ Shift \in [0..IdBytes -> Nat]
  /\ Shift[0] = 1
  /\ \A i \in 1..IdBytes : Shift[i] = 256 * Shift[i - 1]
<1> DEFINE F == [i \in 1..IdBytes |-> [v \in Nat |-> 256 * v]]
<1>0. IdBytes \in Nat
  BY ByteAssumption
<1>1. F \in Rules(IdBytes, Nat)
  BY DEF Rules
<1>2. \A i \in 1..IdBytes : \A v \in Nat : F[i][v] = 256 * v
  OBVIOUS
<1> HIDE DEF F
<1>3. PICK g : Iterates(g, IdBytes, Nat, 1, F)
  BY <1>0, <1>1, Recursion
<1>31. /\ g \in [0..IdBytes -> Nat] /\ g[0] = 1
       /\ \A i \in 1..IdBytes : g[i] = F[i][g[i - 1]]
  BY <1>3 DEF Iterates
<1>4. ASSUME NEW i \in 1..IdBytes PROVE g[i] = 256 * g[i - 1]
  <2>1. i - 1 \in 0..IdBytes
    BY <1>0
  <2> QED  BY ZenonT(30), <1>2, <1>31, <2>1
<1>5. g = [i \in 0..IdBytes |-> IF i = 0 THEN 1 ELSE 256 * g[i - 1]]
  <2>1. \A i \in 0..IdBytes : i = 0 \/ i \in 1..IdBytes
    BY <1>0
  <2> QED  BY <1>31, <1>4, <2>1
<1>6. Shift = [i \in 0..IdBytes |-> IF i = 0 THEN 1 ELSE 256 * Shift[i - 1]]
  BY <1>5 DEF Shift
<1>7. \A i \in 0..IdBytes : Shift[i] = IF i = 0 THEN 1 ELSE 256 * Shift[i - 1]
  BY <1>6
<1>8. Shift[0] = 1 /\ \A i \in 1..IdBytes : Shift[i] = 256 * Shift[i - 1]
  <2>1. 0 \in 0..IdBytes /\ \A i \in 1..IdBytes : i \in 0..IdBytes /\ i # 0
    BY <1>0
  <2> QED  BY <1>7, <2>1
<1>9. \A i \in 0..IdBytes : Shift[i] \in Nat
  <2> DEFINE S == {n \in Nat : n <= IdBytes => Shift[n] \in Nat}
  <2>1. 0 \in S
    BY <1>8
  <2>2. ASSUME NEW n \in Nat, n \in S PROVE n + 1 \in S
    <3> SUFFICES ASSUME n + 1 <= IdBytes PROVE Shift[n + 1] \in Nat
      OBVIOUS
    <3>1. Shift[n] \in Nat /\ n + 1 \in 1..IdBytes /\ (n + 1) - 1 = n
      BY <1>0, <2>2
    <3>2. Shift[n + 1] = 256 * Shift[n]
      BY <1>8, <3>1
    <3> QED  BY <3>1, <3>2
  <2> HIDE DEF S
  <2>3. Nat \subseteq S
    BY <2>1, <2>2, SetInd
  <2>4. \A n \in Nat : n <= IdBytes => Shift[n] \in Nat
    BY <2>3 DEF S
  <2> QED  BY <1>0, <2>4
<1> QED  BY <1>6, <1>8, <1>9

\* The bytes of the loop
LEMMA TailBytes ==
  ASSUME NEW bytes, LongEnough(bytes), NEW i \in 1..IdBytes
  PROVE  /\ Len(bytes) - (i - 1) \in 1..Len(bytes)
         /\ bytes[Len(bytes) - (i - 1)] \in 0..255
<1>1. IdBytes \in Nat /\ Byte \subseteq 0..255
  BY ByteAssumption
<1>2. bytes \in Seq(Byte) /\ Len(bytes) >= IdBytes /\ Len(bytes) \in Nat
  BY DEF LongEnough, PeerId
<1>3. Len(bytes) - (i - 1) \in 1..Len(bytes)
  BY <1>1, <1>2
<1>4. bytes[Len(bytes) - (i - 1)] \in Byte
  BY <1>2, <1>3
<1> QED  BY <1>1, <1>3, <1>4

\* What the loop computes, round by round: a sum below the next place value.
LEMMA Sums ==
  ASSUME NEW bytes, LongEnough(bytes)
  PROVE  /\ PeerIdToRaftId(bytes) = Rounds(bytes)[IdBytes]
         /\ \A i \in 1..IdBytes :
              Rounds(bytes)[i]
                = Rounds(bytes)[i - 1] + bytes[Len(bytes) - (i - 1)] * Shift[i - 1]
         /\ \A i \in 0..IdBytes : Rounds(bytes)[i] \in Nat /\ Rounds(bytes)[i] < Shift[i]
<1> DEFINE c == [i \in 1..IdBytes |-> bytes[Len(bytes) - (i - 1)] * Shift[i - 1]]
           F == [i \in 1..IdBytes |-> [v \in Nat |-> v + c[i]]]
           R == Rounds(bytes)
<1>0. IdBytes \in Nat
  BY ByteAssumption
<1>1. ASSUME NEW i \in 1..IdBytes
      PROVE  /\ bytes[Len(bytes) - (i - 1)] \in 0..255 /\ i - 1 \in 0..IdBytes
             /\ Shift[i - 1] \in Nat /\ Shift[i] = 256 * Shift[i - 1]
             /\ c[i] \in Nat /\ c[i] <= 255 * Shift[i - 1]
             /\ c[i] = bytes[Len(bytes) - (i - 1)] * Shift[i - 1]
  <2>0. bytes[Len(bytes) - (i - 1)] \in 0..255
    BY TailBytes
  <2>1. bytes[Len(bytes) - (i - 1)] \in 0..255 /\ i - 1 \in 0..IdBytes
    BY <1>0, <2>0
  <2>2. Shift[i - 1] \in Nat /\ Shift[i] = 256 * Shift[i - 1]
    BY <2>1, Shifts
  <2>3. c[i] = bytes[Len(bytes) - (i - 1)] * Shift[i - 1]
    OBVIOUS
  <2> HIDE DEF c
  <2>4. c[i] \in Nat /\ c[i] <= 255 * Shift[i - 1]
    <3> DEFINE x == bytes[Len(bytes) - (i - 1)]
               s == Shift[i - 1]
    <3>1. x \in 0..255 /\ s \in Nat /\ c[i] = x * s
      BY <2>1, <2>2, <2>3
    <3> HIDE DEF x, s
    <3>2. x * s \in Nat /\ x * s <= 255 * s
      BY <3>1, ByteProduct
    <3>3. c[i] \in Nat /\ c[i] <= 255 * s
      BY <3>1, <3>2
    <3> QED  BY <3>3 DEF s
  <2> QED  BY <2>1, <2>2, <2>3, <2>4
<1> HIDE DEF c
<1>2. F \in Rules(IdBytes, Nat)
  BY <1>1 DEF Rules
<1>3. \A i \in 1..IdBytes : \A v \in Nat : F[i][v] = v + c[i]
  OBVIOUS
<1> HIDE DEF F
<1>4. PICK g : Iterates(g, IdBytes, Nat, 0, F)
  BY <1>0, <1>2, Recursion
<1>41. /\ g \in [0..IdBytes -> Nat] /\ g[0] = 0
       /\ \A i \in 1..IdBytes : g[i] = F[i][g[i - 1]]
  BY <1>4 DEF Iterates
<1>5. ASSUME NEW i \in 1..IdBytes
      PROVE  g[i] = g[i - 1] + bytes[Len(bytes) - (i - 1)] * Shift[i - 1]
  <2>1. i - 1 \in 0..IdBytes /\ c[i] = bytes[Len(bytes) - (i - 1)] * Shift[i - 1]
    BY <1>1
  <2>2. g[i - 1] \in Nat /\ g[i] = F[i][g[i - 1]]
    BY <1>41, <2>1
  <2>3. g[i] = g[i - 1] + c[i]
    BY <1>3, <2>2
  <2> QED  BY <2>1, <2>3
<1>6. g = [i \in 0..IdBytes |->
             IF i = 0 THEN 0 ELSE g[i - 1] + bytes[Len(bytes) - (i - 1)] * Shift[i - 1]]
  <2>1. \A i \in 0..IdBytes : i = 0 \/ i \in 1..IdBytes
    BY <1>0
  <2> QED  BY <1>41, <1>5, <2>1
<1>7. R = [i \in 0..IdBytes |->
             IF i = 0 THEN 0 ELSE R[i - 1] + bytes[Len(bytes) - (i - 1)] * Shift[i - 1]]
  BY <1>6 DEF Rounds
<1>8. PeerIdToRaftId(bytes) = R[IdBytes]
  BY DEF PeerIdToRaftId, Rounds
<1> HIDE DEF R
<1>9. R[0] = 0 /\ \A i \in 1..IdBytes : R[i] = R[i - 1] + c[i]
  <2>1. 0 \in 0..IdBytes /\ \A i \in 1..IdBytes : i \in 0..IdBytes /\ i # 0
    BY <1>0
  <2>2. \A i \in 0..IdBytes : R[i] =
          IF i = 0 THEN 0 ELSE R[i - 1] + bytes[Len(bytes) - (i - 1)] * Shift[i - 1]
    BY <1>7
  <2> QED  BY <1>1, <2>1, <2>2
<1>10. \A i \in 0..IdBytes : R[i] \in Nat /\ R[i] < Shift[i]
  <2> DEFINE S == {n \in Nat : n <= IdBytes => R[n] \in Nat /\ R[n] < Shift[n]}
  <2>1. 0 \in S
    BY <1>9, Shifts
  <2>2. ASSUME NEW n \in Nat, n \in S PROVE n + 1 \in S
    <3> SUFFICES ASSUME n + 1 <= IdBytes PROVE R[n + 1] \in Nat /\ R[n + 1] < Shift[n + 1]
      OBVIOUS
    <3>1. R[n] \in Nat /\ R[n] < Shift[n] /\ n + 1 \in 1..IdBytes /\ (n + 1) - 1 = n
      BY <1>0, <2>2
    <3>2. /\ Shift[n] \in Nat /\ Shift[n + 1] = 256 * Shift[n]
          /\ c[n + 1] \in Nat /\ c[n + 1] <= 255 * Shift[n]
      BY <1>1, <3>1
    <3>3. R[n + 1] = R[n] + c[n + 1]
      BY <1>9, <3>1
    <3> QED  BY <3>1, <3>2, <3>3
  <2> HIDE DEF S
  <2>3. Nat \subseteq S
    BY <2>1, <2>2, SetInd
  <2>4. \A n \in Nat : n <= IdBytes => R[n] \in Nat /\ R[n] < Shift[n]
    BY <2>3 DEF S
  <2> QED  BY <1>0, <2>4
<1> QED  BY <1>1, <1>8, <1>9, <1>10 DEF R

\* A sum below one place value and a digit in it are known from their total.
LEMMA Digits ==
  ASSUME NEW p \in Nat, NEW q \in Nat, NEW x \in Nat, NEW y \in Nat, NEW s \in Nat,
         p < s, q < s, p + x * s = q + y * s
  PROVE  x = y /\ p = q
<1>1. x * s \in Nat /\ y * s \in Nat
  BY Products
<1>2. ASSUME x < y PROVE FALSE
  <2>1. x * s + s <= y * s
    BY <1>2, Products
  <2> QED  BY <1>1, <2>1
<1>3. ASSUME y < x PROVE FALSE
  <2>1. y * s + s <= x * s
    BY <1>3, Products
  <2> QED  BY <1>1, <2>1
<1>4. x = y
  BY <1>2, <1>3
<1> QED  BY <1>1, <1>4

\* peer_id_to_raft_id tells apart any two ids that differ in their last IdBytes
\* bytes.
THEOREM RaftIdsDiffer ==
  ASSUME NEW a, LongEnough(a), NEW b, LongEnough(b), PeerIdToRaftId(a) = PeerIdToRaftId(b)
  PROVE  Suffix(a) = Suffix(b)
<1> DEFINE A == Rounds(a)
           B == Rounds(b)
           x(i) == a[Len(a) - (i - 1)]
           y(i) == b[Len(b) - (i - 1)]
           S == {n \in Nat : n <= IdBytes /\ A[n] = B[n] => \A i \in 1..n : x(i) = y(i)}
<1>0. IdBytes \in Nat
  BY ByteAssumption
<1>1. /\ PeerIdToRaftId(a) = A[IdBytes]
      /\ \A i \in 1..IdBytes : A[i] = A[i - 1] + x(i) * Shift[i - 1]
      /\ \A i \in 0..IdBytes : A[i] \in Nat /\ A[i] < Shift[i]
  BY Sums
<1>2. /\ PeerIdToRaftId(b) = B[IdBytes]
      /\ \A i \in 1..IdBytes : B[i] = B[i - 1] + y(i) * Shift[i - 1]
      /\ \A i \in 0..IdBytes : B[i] \in Nat /\ B[i] < Shift[i]
  BY Sums
<1>3. \A i \in 1..IdBytes : x(i) \in 0..255 /\ y(i) \in 0..255
  BY TailBytes
<1> HIDE DEF A, B, x, y
<1>4. 0 \in S
  OBVIOUS
<1>5. ASSUME NEW n \in Nat, n \in S PROVE n + 1 \in S
  <2> SUFFICES ASSUME n + 1 <= IdBytes, A[n + 1] = B[n + 1]
               PROVE  \A i \in 1..(n + 1) : x(i) = y(i)
    OBVIOUS
  <2>1. n + 1 \in 1..IdBytes /\ n \in 0..IdBytes /\ (n + 1) - 1 = n
    BY <1>0
  <2> DEFINE s == Shift[n]
             p == A[n]
             q == B[n]
             u == x(n + 1)
             v == y(n + 1)
  <2>2. /\ p \in Nat /\ q \in Nat /\ s \in Nat /\ p < s /\ q < s
    BY <1>1, <1>2, <2>1, Shifts
  <2>3. u \in Nat /\ v \in Nat
    <3>1. u \in 0..255 /\ v \in 0..255
      BY <1>3, <2>1
    <3> QED  BY <3>1
  <2>4. A[n + 1] = p + u * s /\ B[n + 1] = q + v * s
    BY <1>1, <1>2, <2>1
  <2> HIDE DEF s, p, q, u, v
  <2>5. p + u * s = q + v * s
    BY <2>4
  <2>6. u = v /\ p = q
    BY <2>2, <2>3, <2>5, Digits
  <2>7. \A i \in 1..n : x(i) = y(i)
    BY <1>0, <1>5, <2>6 DEF p, q
  <2>8. \A i \in 1..(n + 1) : i = n + 1 \/ i \in 1..n
    OBVIOUS
  <2> QED  BY <2>6, <2>7, <2>8 DEF u, v
<1>6. Nat \subseteq S
  <2> HIDE DEF S
  <2> QED  BY <1>4, <1>5, SetInd
<1>7. \A i \in 1..IdBytes : x(i) = y(i)
  <2>1. A[IdBytes] = B[IdBytes]
    BY <1>1, <1>2
  <2>2. IdBytes \in S
    BY <1>0, <1>6
  <2>3. IdBytes <= IdBytes
    BY <1>0
  <2> QED  BY <2>1, <2>2, <2>3
<1> USE DEF x, y
<1>8. /\ a \in Seq(Byte) /\ b \in Seq(Byte) /\ Len(a) \in Nat /\ Len(b) \in Nat
      /\ Len(a) >= IdBytes /\ Len(b) >= IdBytes
  BY DEF LongEnough, PeerId
<1>9. /\ Suffix(a) = [k \in 1..IdBytes |-> a[Len(a) - IdBytes + k]]
      /\ Suffix(b) = [k \in 1..IdBytes |-> b[Len(b) - IdBytes + k]]
  BY <1>0, <1>8 DEF Suffix
<1>10. ASSUME NEW k \in 1..IdBytes
       PROVE  a[Len(a) - IdBytes + k] = b[Len(b) - IdBytes + k]
  <2>1. PICK i \in 1..IdBytes : i = IdBytes - k + 1
    BY <1>0
  <2>2. /\ Len(a) - (i - 1) = Len(a) - IdBytes + k
        /\ Len(b) - (i - 1) = Len(b) - IdBytes + k
    BY <1>0, <1>8, <2>1
  <2> QED  BY <1>7, <2>2
<1> QED  BY <1>9, <1>10

\* A configuration that can be loaded has its types.
LEMMA Loaded ==
  ASSUME NEW peer \in Peers, NEW s \in Settings, CanLoad(peer, s)
  PROVE  /\ LoadRaftConfig(peer, s) \in Config
         /\ s.peers \in Seq(PeerId)
         /\ \A k \in DOMAIN s.peers : LongEnough(s.peers[k])
<1>1. /\ s.peers \in PeersSettings /\ s.heartbeat_tick \in HeartbeatSettings
      /\ s.election_tick \in ElectionSettings /\ s.period \in PeriodSettings
  BY DEF Settings
<1>2. s.peers \in Seq(PeerId)
  BY <1>1, PeersAssumption DEF CanLoad
<1>3. LongEnough(peer) /\ \A k \in DOMAIN s.peers : LongEnough(s.peers[k])
  <2>1. peer \in PeerId /\ Len(peer) >= IdBytes
    BY PeersAssumption DEF CanLoad
  <2>2. \A k \in DOMAIN s.peers : s.peers[k] \in PeerId /\ Len(s.peers[k]) >= IdBytes
    BY <1>2 DEF CanLoad
  <2> QED  BY <2>1, <2>2 DEF LongEnough
<1>4. PeerIdToRaftId(peer) \in Nat
  <2>1. IdBytes \in 0..IdBytes
    BY ByteAssumption
  <2> QED  BY <1>3, <2>1, Sums
<1>5. /\ Setting(s.heartbeat_tick, DefaultHeartbeatTick) \in Nat
      /\ Setting(s.election_tick, DefaultElectionTick) \in Nat
      /\ Setting(s.period, DefaultPeriod) \in Nat
  BY <1>1, TicksAssumption, DefaultsAssumption DEF Setting
<1> QED  BY <1>2, <1>3, <1>4, <1>5 DEF LoadRaftConfig, Config

\* Every peer is found under its Raft id, or a later one is that agrees with it in
\* the last bytes.
LEMMA LoadedPeers ==
  ASSUME NEW peers \in Seq(PeerId), \A k \in DOMAIN peers : LongEnough(peers[k]),
         NEW k \in DOMAIN peers
  PROVE  \/ PeersByRaftId(peers)[PeerIdToRaftId(peers[k])] = peers[k]
         \/ \E j \in (k + 1)..Len(peers) : Suffix(peers[j]) = Suffix(peers[k])
<1> DEFINE id == PeerIdToRaftId(peers[k])
           T == {j \in DOMAIN peers : PeerIdToRaftId(peers[j]) = id}
           IsLast(j) == /\ PeerIdToRaftId(peers[j]) = id
                        /\ \A i \in DOMAIN peers : PeerIdToRaftId(peers[i]) = id => i <= j
           last == CHOOSE j \in DOMAIN peers : IsLast(j)
<1>1. Len(peers) \in Nat /\ DOMAIN peers = 1..Len(peers) /\ k \in T
  OBVIOUS
<1>2. \E j \in DOMAIN peers : IsLast(j)
  <2>1. T \subseteq 1..Len(peers) /\ T # {}
    BY <1>1
  <2>2. PICK j \in T : \A i \in T : i <= j
    <3> HIDE DEF T
    <3> QED  BY <1>1, <2>1, Greatest
  <2> QED  BY <2>2
<1>3. last \in DOMAIN peers /\ IsLast(last)
  <2> HIDE DEF IsLast
  <2> QED  BY <1>2
<1>4. PeersByRaftId(peers)[id] = peers[last]
  <2>1. id \in {PeerIdToRaftId(peers[j]) : j \in DOMAIN peers}
    OBVIOUS
  <2> HIDE DEF id
  <2> QED  BY <2>1 DEF PeersByRaftId
<1>5. k <= last
  BY <1>1, <1>3
<1> HIDE DEF last
<1>6. CASE k = last
  BY <1>4, <1>6
<1>7. CASE k # last
  <2>1. last \in (k + 1)..Len(peers)
    BY <1>1, <1>3, <1>5, <1>7
  <2>2. LongEnough(peers[last]) /\ LongEnough(peers[k])
    BY <1>3
  <2>3. Suffix(peers[last]) = Suffix(peers[k])
    BY <1>3, <2>2, RaftIdsDiffer
  <2> QED  BY <2>1, <2>3
<1> QED  BY <1>6, <1>7

\* What the timing invariant leaves out: the configuration and the other types.
ConfigOK ==
  /\ phase \in {"starting", "leading", "electing", "panicked"}
  /\ config \in Config
  /\ Running => Acceptable(config)
  /\ PeersAreReachable
  /\ heartbeat_elapsed \in 0..config.heartbeat_tick
  /\ election_elapsed \in 0..(2 * config.election_tick)
  /\ phase = "starting" => heartbeat_elapsed = 0 /\ election_elapsed = 0
  /\ beats \subseteq 0..Latency
  /\ answer \in {"none", "BlockNotReady"}

\* The first state
LEMMA ConfigInit == Init => ConfigOK
<1> SUFFICES ASSUME Init PROVE ConfigOK
  OBVIOUS
<1>1. NoConfig \in Config
  <2>1. << >> \in Seq(PeerId)
    OBVIOUS
  <2> QED  BY <2>1 DEF NoConfig, Config
<1>2. PeersAreReachable
  BY DEF Init, NoConfig, PeersAreReachable
<1> QED  BY <1>1, <1>2, ClockAssumption DEF Init, ConfigOK, NoConfig, Running

\* start
LEMMA ConfigStart ==
  ASSUME ConfigOK, NEW peer \in Peers, NEW s \in Settings, Start(peer, s)
  PROVE  ConfigOK'
<1>1. /\ CanLoad(peer, s) /\ Acceptable(LoadRaftConfig(peer, s)) /\ phase = "starting"
      /\ config' = LoadRaftConfig(peer, s) /\ raft_id_to_peer_id' = PeersByRaftId(s.peers)
      /\ phase' = "leading" /\ UNCHANGED <<heartbeat_elapsed, election_elapsed, beats, answer>>
  BY DEF Start, raftTimers
<1>2. config' \in Config /\ config'.peers = s.peers
  BY <1>1, Loaded DEF LoadRaftConfig
<1>3. PeersAreReachable'
  <2>1. s.peers \in Seq(PeerId) /\ \A k \in DOMAIN s.peers : LongEnough(s.peers[k])
    BY <1>1, Loaded
  <2>2. \A k \in DOMAIN s.peers :
          \/ PeersByRaftId(s.peers)[PeerIdToRaftId(s.peers[k])] = s.peers[k]
          \/ \E j \in (k + 1)..Len(s.peers) : Suffix(s.peers[j]) = Suffix(s.peers[k])
    <3> DEFINE p == s.peers
    <3> HIDE DEF p
    <3>1. p \in Seq(PeerId) /\ \A k \in DOMAIN p : LongEnough(p[k])
      BY <2>1 DEF p
    <3>2. \A k \in DOMAIN p :
            \/ PeersByRaftId(p)[PeerIdToRaftId(p[k])] = p[k]
            \/ \E j \in (k + 1)..Len(p) : Suffix(p[j]) = Suffix(p[k])
      BY <3>1, LoadedPeers
    <3> QED  BY <3>2 DEF p
  <2> QED  BY <1>1, <1>2, <2>2 DEF PeersAreReachable
<1>4. /\ heartbeat_elapsed' \in 0..config'.heartbeat_tick
      /\ election_elapsed' \in 0..(2 * config'.election_tick)
  <2>1. config'.heartbeat_tick \in Nat /\ config'.election_tick \in Nat
    BY <1>2 DEF Config
  <2>2. heartbeat_elapsed' = 0 /\ election_elapsed' = 0
    BY <1>1 DEF ConfigOK
  <2> QED  BY <2>1, <2>2
<1> QED  BY <1>1, <1>2, <1>3, <1>4 DEF ConfigOK, Running

\* Every other step
LEMMA ConfigStep ==
  ASSUME Inv', ConfigOK, UNCHANGED <<config, raft_id_to_peer_id>>,
         \/ Running /\ phase' \in {"leading", "electing"}
         \/ /\ phase' \in {phase, "panicked"} /\ ~Running
            /\ UNCHANGED <<heartbeat_elapsed, election_elapsed>>,
         election_elapsed' \in 0..(2 * config.election_tick),
         beats' \subseteq 0..Latency,
         answer' \in {"none", "BlockNotReady"}
  PROVE  ConfigOK'
<1>1. PeersAreReachable'
  BY DEF ConfigOK, PeersAreReachable
<1>2. heartbeat_elapsed' \in 0..config'.heartbeat_tick
  <2>1. CASE Running /\ phase' \in {"leading", "electing"}
    <3>1. /\ heartbeat_elapsed' \in Nat /\ config'.heartbeat_tick \in Nat
          /\ heartbeat_elapsed' < config'.heartbeat_tick
      BY <2>1 DEF Inv, CountersOK, Running
    <3> QED  BY <3>1
  <2>2. CASE UNCHANGED heartbeat_elapsed
    BY <2>2 DEF ConfigOK
  <2> QED  BY <2>1, <2>2
<1>3. /\ phase' \in {"starting", "leading", "electing", "panicked"}
      /\ Running' => Acceptable(config)
      /\ phase' = "starting" => heartbeat_elapsed' = 0 /\ election_elapsed' = 0
  BY DEF ConfigOK, Running
<1> QED  BY <1>1, <1>2, <1>3 DEF ConfigOK, Running

\* ConfigOK is inductive.
LEMMA ConfigNext ==
  ASSUME Inv, Inv', ConfigOK, [Next]_vars
  PROVE  ConfigOK'
<1>1. /\ config \in Config /\ config.election_tick \in Nat /\ Latency \in Nat
      /\ election_elapsed \in 0..(2 * config.election_tick)
      /\ beats \subseteq 0..Latency /\ answer \in {"none", "BlockNotReady"}
  BY ClockAssumption DEF ConfigOK, Config
<1>2. ASSUME NEW peer \in Peers, NEW s \in Settings, StartPanics(peer, s) PROVE ConfigOK'
  BY <1>1, <1>2, ConfigStep DEF StartPanics, raftTimers, building, Running
<1>3. CASE Panicked \/ UNCHANGED vars
  <2>1. UNCHANGED <<phase, config, raft_id_to_peer_id, heartbeat_elapsed, election_elapsed,
                    beats, answer>>
    BY <1>3 DEF Panicked, vars, raftTimers, building
  <2>2. PeersAreReachable'
    BY <2>1 DEF ConfigOK, PeersAreReachable
  <2> QED  BY <2>1, <2>2 DEF ConfigOK, Running
<1>4. CASE Pass
  <2>1. /\ Running /\ phase' = phase /\ UNCHANGED <<config, raft_id_to_peer_id, answer>>
        /\ election_elapsed' = election_elapsed
    BY <1>4 DEF Pass
  <2>2. beats' \subseteq 0..Latency
    <3>1. CASE phase = "leading"
      <4>1. Latency \notin beats /\ beats' = {b + 1 : b \in beats}
        BY <1>4, <3>1 DEF Pass, MayPass
      <4> QED  BY <1>1, <4>1
    <3>2. CASE phase # "leading"
      BY <1>1, <1>4, <3>2 DEF Pass
    <3> QED  BY <3>1, <3>2
  <2> QED  BY <1>1, <2>1, <2>2, ConfigStep DEF Running
<1>5. CASE LeaderLoop
  <2>1. /\ Running /\ phase' = phase /\ UNCHANGED <<config, raft_id_to_peer_id>>
        /\ election_elapsed' = election_elapsed
    BY <1>5 DEF LeaderLoop, Running
  <2>2. answer' \in {"none", "BlockNotReady"}
    BY <1>1, <1>5 DEF LeaderLoop, CheckPublish
  <2>3. beats' \subseteq 0..Latency
    <3>1. beats' \in {beats, beats \cup {0}}
      BY <1>5 DEF LeaderLoop, LeaderTick
    <3> QED  BY <1>1, <3>1
  <2> QED  BY <1>1, <2>1, <2>2, <2>3, ConfigStep DEF Running
<1>6. CASE FollowerLoop
  <2>1. Running /\ UNCHANGED <<config, raft_id_to_peer_id, answer>> /\ phase = "leading"
    BY <1>6 DEF FollowerLoop, Running, building
  <2>2. PICK arrived : LET e == IF arrived = {} THEN election_elapsed ELSE 0
                       IN  /\ beats' = beats \ arrived
                           /\ IF fFired' THEN FollowerTick(e)
                                         ELSE election_elapsed' = e /\ UNCHANGED phase
    BY <1>6 DEF FollowerLoop
  <2> DEFINE e == IF arrived = {} THEN election_elapsed ELSE 0
  <2>3. e \in 0..(2 * config.election_tick)
    BY <1>1
  <2>4. FollowerTick(e) \/ (election_elapsed' = e /\ UNCHANGED phase)
    BY <2>2
  <2> HIDE DEF e
  <2>5. election_elapsed' \in 0..(2 * config.election_tick) /\ phase' \in {"leading", "electing"}
    BY <1>1, <2>1, <2>3, <2>4 DEF FollowerTick
  <2>6. beats' \subseteq 0..Latency
    BY <1>1, <2>2
  <2> QED  BY <1>1, <2>1, <2>5, <2>6, ConfigStep
<1>7. CASE LeaderElecting \/ FollowerElecting
  <2>1. /\ Running /\ phase' = phase /\ UNCHANGED <<config, raft_id_to_peer_id, answer>>
        /\ election_elapsed' = election_elapsed /\ beats' = beats
    BY <1>7 DEF LeaderElecting, FollowerElecting, Running, raftTimers, building
  <2> QED  BY <1>1, <2>1, ConfigStep DEF Running
<1> QED  BY <1>2, <1>3, <1>4, <1>5, <1>6, <1>7, ConfigStart DEF Next

\* The invariant with the types of the configuration holds in every state.
LEMMA ConfigInvariance == Spec => [](Inv /\ ConfigOK)
<1>1. Inv /\ Inv' /\ ConfigOK /\ [Next]_vars => ConfigOK'
  BY ConfigNext
<1> QED  BY <1>1, ConfigInit, TimersInvariance, PTL DEF Spec

\* The variables keep their types, and only an acceptable configuration runs,
\* whatever the settings (load_raft_config, RawNode::new).
THEOREM TimersTypes == Spec => []TypeOK
<1>1. Inv /\ ConfigOK => TypeOK
  BY DEF Inv, ConfigOK, TypeOK, LeaderClock, FollowerClock, CountersOK
<1> QED  BY <1>1, ConfigInvariance, PTL

\* peer_id_to_raft_id and the map of SawtoothRaftNode::new lose no peer, but one that
\* agrees in its last bytes with a later one: for ids of any length and any number
\* of peers.
THEOREM PeersReachable == Spec => []PeersAreReachable
<1>1. ConfigOK => PeersAreReachable
  BY DEF ConfigOK
<1> QED  BY <1>1, ConfigInvariance, PTL
====
