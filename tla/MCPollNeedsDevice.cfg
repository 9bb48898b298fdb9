SPECIFICATION Spec
\* Nothing happens after a fault.
CHECK_DEADLOCK FALSE
CONSTANTS
  NumPads = 2
  Buttons = {up, down}
  up = up
  down = down
  EMPTY = EMPTY
INVARIANT
  PollNeedsDevice
