CONSTANTS
  Devices = {keyboard, mouse}
  Readers = {r1, r2}
  NoReader = NoReader
  MaxEvents = 2
SYMMETRY Symmetry
SPECIFICATION Spec
CHECK_DEADLOCK FALSE
INVARIANT NoWatcherStops
