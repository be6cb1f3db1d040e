\* A single peer, two blocks, with either of which n2 may join.
SPECIFICATION Spec
CONSTANTS
  n1 = n1
  n2 = n2
  Node = {n1, n2}
  NoNode = NoNode
  InitPeers = {n1}
  Memberships = {{n1, n2}}
  Verdicts = {TRUE}
  MaxTerm = 2
  MaxBlocks = 2
  MaxStops = 0
INVARIANTS
  MembershipFollowsLog
  BuildingOnInstalledPeers
PROPERTIES
  CommitsInOrder
  NonForking
