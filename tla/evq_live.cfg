\* Two events under a handler that runs the loop, speed changes, forfeited ticks, single steps
CONSTANTS
  Entries = {e1, e2}
  NoEntry = none
  U = 4
  CycleMaxes <- OneSpeed
  Handlers = {h1}
  Values = {1}
  Delays <- Mixed
  HandlerDelays <- Positive
  MaxInsn = 2
  Idlers = {h1}
  MaxDepth = 2
  IrqCheck = irqCheck
  IrqDelay = 0
  Disturbances = {"forfeit", "config", "trap"}
SPECIFICATION FairSpec
INVARIANTS Partition
PROPERTIES CheckLostOnlyWhenFull EventServed
