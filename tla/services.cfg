\* The page, a command and the relay over the session id; the input of one session.
SPECIFICATION ServicesSpec
CONSTANTS
  None = None
  MaxTurns = 2
  Keys = {k1}
  SeqSpace = 8
  FirstSeqs = {6}
  FastCap = 1
  MaxFrames = 2
  MaxActs = 2
INVARIANTS
  MirrorAgrees
  ShownIsRegistered
  OneClient
PROPERTIES
  EndsAsAsked
  CursorForward
  EndsReleased
CHECK_DEADLOCK FALSE
