SPECIFICATION Spec
CONSTANTS
  x = x
  y = y
  NumBlocks = 2
  NumPages = 1
  PageOf <- MCPageOf
  Macro <- MCMacro
  Name = {"name"}
  NameOf <- MCNameOf
  CLEAN = CLEAN
  ERASED = ERASED
  TORN = TORN
  Pad = {0, 1}
  Header <- MCHeader
  Button = {x, y}
  JUNK = JUNK
  NULL = NULL
  NullHeader <- MCNullHeader
  HeapRoom = 12
  MaxCount = 2
SYMMETRY MCSymmetry
VIEW MCView
INVARIANTS
  StagedAsTold
  InstalledAsStored
  OnlyStorageFillsHeap
PROPERTIES
  StoredAsSent
