\* Capture callback, encode thread and transport over the ring of three slots.
SPECIFICATION FairSpec
CONSTANTS
  Slots = {s1, s2, s3}
  None = None
  Targets = {1, 2}
  Initial = 1
  MaxFaults = 2
INVARIANTS SlotCustody NewestKept
PROPERTIES KeyframeTried
CHECK_DEADLOCK FALSE
