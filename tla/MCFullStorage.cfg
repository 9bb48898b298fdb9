SPECIFICATION Spec
CONSTANTS
  x = x
  NumBlocks = 3
  NumPages = 2
  PageOf <- MCPageOf
  Macro <- MCMacro
  Name = {"name"}
  NameOf <- MCNameOf
  CLEAN = CLEAN
  ERASED = ERASED
  TORN = TORN
  Pad = {0, 1}
  Header <- MCHeader
  Button = {x}
  JUNK = JUNK
  NULL = NULL
  NullHeader <- MCNullHeader
  HeapRoom = 40
  MaxCount = 2
PROPERTIES
  AcceptedIsStored
