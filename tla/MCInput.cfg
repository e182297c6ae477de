CONSTANTS
  qsize = 2
  Wrap = 4
  Devices <- MCDevices
  Raw <- MCRaw
  key_names <- MCKeys
  button_names <- MCButtons
  modifier_keys <- MCModifiers
  Word = 8
  queue_max = 1
  MaxGen = 2
  MaxEvents <- MCEvents
SPECIFICATION FairSpec
INVARIANTS BuffersKept EmittedAsSent HeldAsTyped
PROPERTY EventuallyEmitted
CHECK_DEADLOCK FALSE
