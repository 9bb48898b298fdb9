SPECIFICATION FairSpec
CONSTANTS
  NumPads = 2
  NumCells = 18
  Btn = {b1, b2}
  None = None
INVARIANTS
  NeverStray
  NoLeak
  WalksAgree
PROPERTIES
  KeepsLists
  ClearEnds
