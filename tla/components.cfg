\* The keyframe gate; the repair of lost frames; the audio ring; hosts on one display driver;
\* the limiter of wrong codes; the bitrate driver.
SPECIFICATION ComponentsSpec
CONSTANTS
  rtcp = rtcp
  task = task
  None = None
  Callers = {rtcp, task}
  Reader = rtcp
  Floor = 2
  Cap = 3
  Wants = {1, 4}
  BackoffFloor = 1
  BackoffCap = 2
  HealthyCap = 2
  Quiet = 3
  MaxTime = 6
  MaxSpurious = 1
  SlotCount = 2
  Parts = 2
  Wrap = 4
  HistoryCap = 2
  TallyCap = 2
  LostCap = 1
  BroadcastCap = 1
  MaxFrames = 3
  MaxReports = 2
  RingCap = 2
  Block = 3
  MaxBlocks = 3
  Hosts = {h1, h2, h3}
  h1 = h1
  h2 = h2
  h3 = h3
  Foreign = Foreign
  Released = Released
  MaxId = 2
  MaxJobs = 5
  MaxLate = 1
  Devices = {d1, d2}
  Requests = {r1, r2}
  MaxAttempts = 2
  GlobalMax = 3
  Lockout = 1
  Window = 2
  Pause = 1
  MaxTicks = 2
  MaxWrong = 4
  Top = 2
  MaxHeard = 2
  MaxBlips = 0
  MaxSwitches = 0
  MaxRefused = 0
INVARIANTS
  LostIsTrue
  InOrder
  AnchorTrue
  HostsKeepTheirs
  Reclaimable
  LockoutsEarned
  ActsOnce
PROPERTIES
  Spaced
  HeldForCause
  ForeignStays
CHECK_DEADLOCK FALSE
