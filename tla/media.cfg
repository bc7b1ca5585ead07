\* Three forwarders share the capture; the two forwarders of one connection; two offers of one
\* join, of which the second may replace, overtake or outlive the first.
SPECIFICATION MediaSpec
CONSTANTS
  Forwarders = {f1, f2, f3}
  MaxToggles = 1
  MaxRefusals = 1
  MaxSpurious = 1
  Attempts = {a1, a2}
  MaxBlips = 2
  Top = 1
  MaxHeard = 0
  MaxSwitches = 2
  MaxRefused = 1
INVARIANTS
  RegistryTrue
  OnlyReplacedClosed
PROPERTIES
  KeepsPromise
  CallsReturn
  EndsSilent
  StepDownHeard
  EndIsSeen
  ReplacedGoes
\* Sessions end.
CHECK_DEADLOCK FALSE
