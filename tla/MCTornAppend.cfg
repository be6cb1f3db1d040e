\* Five peers, four elections, two blocks, one crash.
SPECIFICATION CourseSpec
CONSTANTS
  n1 = n1
  n2 = n2
  n3 = n3
  n4 = n4
  n5 = n5
  Node = {n1, n2, n3, n4, n5}
  NoNode = NoNode
  InitPeers = {n1, n2, n3, n4, n5}
  Memberships = {}
  Verdicts = {TRUE}
  MaxTerm = 5
  MaxBlocks = 2
  MaxStops = 1
INVARIANT CommittedEntriesAgree
CHECK_DEADLOCK FALSE
