\* PC/AT: slave controller on line 1, guest with EOIs and masks
CONSTANTS
  N = 3
  Irq2 = 1
  HasSlave = TRUE
  Pc98 = FALSE
  NeverMark = FALSE
  IgnoreCascade = FALSE
  HackIrqs = {}
  Devices <- AtDevices
  MaskValues <- AtMasks
  GuestOps = {"eoi", "seoi", "mask"}
  NmiSources = FALSE
SPECIFICATION Spec
INVARIANTS TypeOK ActiveIrqInService ActiveIrqIsHighest NoLostIrq NoLostSlaveIrq
PROPERTY DispatchInPriority
