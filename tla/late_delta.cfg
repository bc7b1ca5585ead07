\* The input of one session: what a late delta does to the buttons.
SPECIFICATION Spec
CONSTANTS
  Keys = {k1}
  None = None
  SeqSpace = 8
  FirstSeqs = {6}
  FastCap = 1
  MaxFrames = 2
  MaxActs = 1
PROPERTY LateDeltaKeepsButtons
CHECK_DEADLOCK FALSE
