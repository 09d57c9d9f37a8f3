\* A serial port, its program and its far end.
SPECIFICATION Spec
CONSTANTS
  FifoSize = 2
  Thresholds = {1, 2}
  Lines = {"ri"}
  IerWrites <- MCIerWrites
  McrWrites <- MCMcrWrites
  MsrWrites <- MCMsrWrites
  Careful = TRUE
  Rereads = FALSE
INVARIANTS IrqFollows NothingUntold TxGoesOn GuardHoldsByte ErrorsCounted
