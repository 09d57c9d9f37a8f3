\* PC/XT: one controller, re-initialized at any time; NMI mask register, machine resets
CONSTANTS
  N = 3
  Irq2 = 2
  HasSlave = FALSE
  Pc98 = FALSE
  NeverMark = FALSE
  IgnoreCascade = FALSE
  HackIrqs = {}
  Devices <- XtDevices
  MaskValues <- XtMasks
  GuestOps = {"eoi", "seoi", "mask", "smm", "reset", "icw"}
  NmiSources = TRUE
SPECIFICATION Spec
INVARIANT NoLostIrq
