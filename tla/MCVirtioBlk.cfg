\* Requests may time out and be answered late, and the driver be probed again.
CONSTANTS
  v0 = v0
  v1 = v1
  Val <- MCVal
  Sectors = 2
  QSize = 4
  IdxMod = 5
  MaxTimeouts = 1
  MaxProbes = 2
  MaxDone = 3
SPECIFICATION Spec
INVARIANT RingsInStep
PROPERTY ImplementsBlockDev
\* The bounds on probes and requests end every behaviour.
CHECK_DEADLOCK FALSE
