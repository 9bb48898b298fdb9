SPECIFICATION FairSpec
CONSTANTS
  Btn <- MCBtn
  Programs <- MCPrograms
  MaxHeld = 3
  MaxTime = 2
  Leftover <- MCLeftover
  UNARMED = UNARMED
INVARIANTS
  TypeOK
  CountersOnTime
PROPERTIES
  RefinesTimeline
  NothingPressedNothingSent
  ReportsComeToRest
