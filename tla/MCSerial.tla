------------------------------ MODULE MCSerial ------------------------------
(* Two places in each fifo, and thresholds for one byte and for a full fifo. *)
EXTENDS Serial

Mcr(loopback, op2, op1) == [loopback |-> loopback, dtr |-> op1, op1 |-> op1, op2 |-> op2]

MCIerWrites == {{"TX"}, {"RX", "TX", "ERROR", "MSR"}}
MCMcrWrites ==
  {Mcr(FALSE, FALSE, FALSE), Mcr(FALSE, TRUE, TRUE), Mcr(TRUE, TRUE, FALSE)}
MCMsrWrites == {{}}
=============================================================================
