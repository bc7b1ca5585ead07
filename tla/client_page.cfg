\* One page against a host that edits, kicks and forgets.
SPECIFICATION FairSpec
CONSTANTS
  None = None
  Engines = {"both", "script"}
  MaxEdits = 1
  MaxEvents = 2
  MaxRows = 2
  MaxPolls = 1
INVARIANT FormQuiet
PROPERTIES NeverStuck EditSeen
CHECK_DEADLOCK FALSE
