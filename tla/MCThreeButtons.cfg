SPECIFICATION Spec
CONSTANTS
  Kinds = {"three"}
  Holds <- MCHolds
  GND = GND
  VCC = VCC
PROPERTY
  NoGhosts
