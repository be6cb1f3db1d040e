\* Two peers, of which n2 may be removed, one stop.
SPECIFICATION Spec
CONSTANTS
  n1 = n1
  n2 = n2
  Node = {n1, n2}
  NoNode = NoNode
  InitPeers = {n1, n2}
  Memberships = {{n1}}
  Verdicts = {TRUE}
  MaxTerm = 2
  MaxBlocks = 1
  MaxStops = 1
INVARIANT NoPanic
