\* Encode thread, RTP writer and RTCP reader over a few frames: a repair that is not held.
SPECIFICATION Spec
CONSTANTS
  None = None
  SlotCount = 2
  Parts = 2
  Wrap = 4
  HistoryCap = 2
  TallyCap = 2
  LostCap = 1
  BroadcastCap = 1
  MaxFrames = 3
  MaxReports = 2
PROPERTY RepairHeld
CHECK_DEADLOCK FALSE
