\* PC/AT with NMI under a guest that ends its interrupts
CONSTANTS
  N = 3
  Irq2 = 1
  HasSlave = TRUE
  Pc98 = FALSE
  NeverMark = FALSE
  IgnoreCascade = FALSE
  HackIrqs = {}
  Devices <- GuestDevices
  MaskValues <- GuestMasks
  GuestOps = {"eoi", "mask"}
  NmiSources = TRUE
  MaxRaises = 4
  Withdraws = {0, 2}
SPECIFICATION GSpec
INVARIANT InServiceMatchesStack
PROPERTIES RequestServed NmiReachesGuest
