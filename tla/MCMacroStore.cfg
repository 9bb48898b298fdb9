SPECIFICATION FairSpec
CONSTANTS
  m1 = m1
  m2 = m2
  n1 = n1
  n2 = n2
  NumBlocks = 4
  NumPages = 2
  PageOf <- MCPageOf
  Macro = {m1, m2}
  Name = {n1, n2}
  NameOf <- MCNameOf
  CLEAN = CLEAN
  ERASED = ERASED
  TORN = TORN
INVARIANTS
  TypeOK
  ProgramsErased
  OpInv
PROPERTIES
  RefinesMacroTable
  ClearHealsAll
  OperationsReturn
