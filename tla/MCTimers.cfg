\* A timeout of three time units, calls up to one unit late, heartbeats at every
\* tick or every second one.
SPECIFICATION FairSpec
CONSTANTS
  Timeout = 3
  MaxDelay = 1
  Latency = 1
  MaxClock = 10
  IdBytes = 2
  Byte = {0, 1}
  Absent = Absent
  Unparsable = Unparsable
  DefaultHeartbeatTick = 2
  DefaultElectionTick = 3
  DefaultPeriod = 2
  Peers <- SomePeers
  PeersSettings <- SomePeersSettings
  HeartbeatSettings = {Absent, Unparsable, 0, 1}
  ElectionSettings = {Absent, 1}
  PeriodSettings = {Absent, 0}
INVARIANTS
  TypeOK
  WaitsEndInTime
  HeartbeatsInTime
  PublishOnTime
  PeersAreReachable
PROPERTY KeepsTicking
