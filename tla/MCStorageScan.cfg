SPECIFICATION FairSpec
\* A scan stops when it has its result.
CHECK_DEADLOCK FALSE
CONSTANT
  Areas <- MCAreas
INVARIANTS
  FindsFirstFree
  ListsEveryBlock
PROPERTY
  ScanEnds
