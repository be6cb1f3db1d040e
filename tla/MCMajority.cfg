\* Three peers, two elections, one stop at any point.
SPECIFICATION Spec
CONSTANTS
  n1 = n1
  n2 = n2
  n3 = n3
  Node = {n1, n2, n3}
  NoNode = NoNode
  InitPeers = {n1, n2, n3}
  Memberships = {}
  Verdicts = {TRUE}
  MaxTerm = 3
  MaxBlocks = 0
  MaxStops = 1
SYMMETRY Symmetry
INVARIANTS
  CommittedIsDurable
  CommittedEntriesAgree
  RestartIsPossible
