SPECIFICATION LinkSpec
CONSTANTS
  NumBlocks = 2
  NumPages = 1
  PageOf <- MCPageOf
  Macro <- MCMacro
  Name = {"name"}
  NameOf <- MCNameOf
  CLEAN = CLEAN
  ERASED = ERASED
  TORN = TORN
  Pad = {0}
  Header <- MCHeader
  Button = {1, 2}
  JUNK = JUNK
  NULL = NULL
  NullHeader <- MCNullHeader
  HeapRoom = 20
  MaxCount = 2
  Wanted <- MCWanted
  MaxTimeouts = 4
  MaxResets = 4
CHECK_DEADLOCK FALSE
INVARIANTS
  OnlyWanted
  DoneMeansStored
  NullNeverComplete
PROPERTY
  EventuallyDone
