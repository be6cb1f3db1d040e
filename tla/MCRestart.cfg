\* Two peers, two blocks, one stop at any point.
SPECIFICATION Spec
CONSTANTS
  n1 = n1
  n2 = n2
  Node = {n1, n2}
  NoNode = NoNode
  InitPeers = {n1, n2}
  Memberships = {}
  Verdicts = {TRUE}
  MaxTerm = 2
  MaxBlocks = 2
  MaxStops = 1
SYMMETRY Symmetry
INVARIANTS
  CommittingIsFront
  QueueIsLogSegment
  OnlyFrontIsInChain
  RestartIsPossible
PROPERTY StorageIsMonotonic
