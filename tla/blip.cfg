\* A path that is lost for less than its grace.
SPECIFICATION Spec
CONSTANTS
  Top = 1
  MaxHeard = 0
  MaxBlips = 1
  MaxSwitches = 0
  MaxRefused = 0
INVARIANT KeptWhole
CHECK_DEADLOCK FALSE
