\* Two peers, of which either may be removed, one failover and one stop at any
\* point.
SPECIFICATION Spec
CONSTANTS
  n1 = n1
  n2 = n2
  Node = {n1, n2}
  NoNode = NoNode
  InitPeers = {n1, n2}
  Memberships = {{n1}, {n2}}
  Verdicts = {TRUE, FALSE}
  MaxTerm = 3
  MaxBlocks = 1
  MaxStops = 1
INVARIANTS
  TypeOK
  RoleAgreement
  CommitInFlight
  BuildingAgreement
  OnlyValidBlocks
  MembershipSinceStart
PROPERTY PanicsAreMembershipChanges
SYMMETRY Symmetry
