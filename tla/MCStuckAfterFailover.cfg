\* Two peers, one block, one failover.
SPECIFICATION FairSpec
CONSTANTS
  n1 = n1
  n2 = n2
  Node = {n1, n2}
  NoNode = NoNode
  InitPeers = {n1, n2}
  Memberships = {}
  Verdicts = {TRUE}
  MaxTerm = 3
  MaxBlocks = 1
  MaxStops = 0
PROPERTY QueuesDrain
