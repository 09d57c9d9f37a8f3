\* PC/AT: the cascade is dispatched and the slave has nothing to serve
CONSTANTS
  N = 3
  Irq2 = 1
  HasSlave = TRUE
  Pc98 = FALSE
  NeverMark = FALSE
  IgnoreCascade = FALSE
  HackIrqs = {}
  Devices <- GuestDevices
  MaskValues <- GuestMasks
  GuestOps = {"eoi", "mask"}
  NmiSources = FALSE
  MaxRaises = 4
  Withdraws <- GuestDevices
SPECIFICATION GSpec
PROPERTY SpuriousCascadeCleared
