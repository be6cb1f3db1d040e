\* A heartbeat at every tick, an election timeout of four ticks or more.
SPECIFICATION Spec
CONSTANTS
  Timeout = 3
  MaxDelay = 1
  Latency = 1
  MaxClock = 10
  IdBytes = 2
  Byte = {0, 1}
  Absent = Absent
  Unparsable = Unparsable
  DefaultHeartbeatTick = 1
  DefaultElectionTick = 4
  DefaultPeriod = 4
  Peers <- SomePeers
  PeersSettings <- SomePeersSettings
  HeartbeatSettings = {Absent}
  ElectionSettings = {Absent}
  PeriodSettings = {Absent}
INVARIANT NoNeedlessElection
