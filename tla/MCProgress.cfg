\* Two peers, one block, one leader.
SPECIFICATION FairSpec
CONSTANTS
  n1 = n1
  n2 = n2
  Node = {n1, n2}
  NoNode = NoNode
  InitPeers = {n1, n2}
  Memberships = {}
  Verdicts = {TRUE}
  MaxTerm = 2
  MaxBlocks = 1
  MaxStops = 0
PROPERTY Progress
