\* No request times out, but the driver is attached a second time.
CONSTANTS
  v0 = v0
  v1 = v1
  Val <- MCVal
  Sectors = 2
  QSize = 4
  IdxMod = 5
  MaxTimeouts = 0
  MaxProbes = 2
  MaxDone = 3
SPECIFICATION Spec
INVARIANT OkMeansDone
\* The bounds on probes and requests end every behaviour.
CHECK_DEADLOCK FALSE
