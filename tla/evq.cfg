\* Three events, two speeds; devices, handlers and the host queue and remove
CONSTANTS
  Entries = {e1, e2, e3}
  NoEntry = none
  U = 4
  CycleMaxes <- TwoSpeeds
  Handlers = {h1}
  Values = {1, 2}
  Delays <- Mixed
  HandlerDelays <- Mixed
  MaxInsn = 2
  Idlers = {}
  MaxDepth = 1
  IrqCheck = irqCheck
  IrqDelay = 0
  Disturbances = {}
SPECIFICATION HSpec
INVARIANTS Partition Sorted GrantEndsAtFirstEvent ServedOnTime
PROPERTIES ClockConserved KeepsSchedule
SYMMETRY EntrySymmetry
VIEW View
