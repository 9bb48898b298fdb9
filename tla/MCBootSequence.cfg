SPECIFICATION BootSpec
CONSTANTS
  UnplugMs = 1
  BlinkMs = 2
  Wrap = 16
  TicksPerUs = 2
  UsPerMs = 2
  UsDelays = {2}
  MsDelays = {1, 2}
  MaxGap = 8
INVARIANTS
  NeverLate
  WiredUp
  SeenToGo
  OnlyEarlyFaults
PROPERTIES
  NeverShort
  BootEnds
