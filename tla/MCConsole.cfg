\* A ring of 2 whose counters wrap at 6: the ring wraps three times before
\* the counters do, and no counter is bounded by anything else.
CONSTANTS
  Nul = Nul
  CtrlC = CtrlC
  None = None
  Byte <- MCByte
  RingSize = 2
  Modulus = 6
  RxIrq = TRUE
SPECIFICATION Spec
INVARIANTS NoOverrun DropsTypedAhead
PROPERTY ImplementsTypeAhead
