\* Two listeners wait for one interrupt, the third for another.
CONSTANTS
  l1 = l1
  l2 = l2
  l3 = l3
  Sources <- MCSources
  MaxIrqs = 64
  Listener <- MCListener
  IrqOf <- MCIrqOf
SPECIFICATION FairSpec
INVARIANT NoSpuriousWake
PROPERTY FiredIsDispatched
\* A wait for an interrupt that nothing enabled spins for ever.
CHECK_DEADLOCK FALSE
