SPECIFICATION FairLease
CONSTANTS
  Node = {n1, n2, n3}
  NoNode = NoNode
  LeaseDuration = 2
  RefreshInterval = 1
INVARIANTS
  TermsDisjoint
  KeepsOverOneMiss
PROPERTIES
  LoserLeaves
  TakenOver
CHECK_DEADLOCK FALSE
