\* Two peers, two blocks, one failover.
SPECIFICATION Spec
CONSTANTS
  n1 = n1
  n2 = n2
  Node = {n1, n2}
  NoNode = NoNode
  InitPeers = {n1, n2}
  Memberships = {}
  Verdicts = {TRUE}
  MaxTerm = 3
  MaxBlocks = 2
  MaxStops = 0
SYMMETRY Symmetry
PROPERTY NonForking
