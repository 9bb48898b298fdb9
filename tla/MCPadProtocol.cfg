SPECIFICATION Spec
CONSTANTS
  Kinds = {"three", "six"}
  Holds <- MCHolds
  GND = GND
  VCC = VCC
INVARIANT
  HostSeesSamples
PROPERTIES
  BaseReadTruly
  SixReadTruly
