------------------------------- MODULE MCPic -------------------------------
(***************************************************************************)
(* Instances of Pic for TLC: controllers of three lines, the cascade on    *)
(* line 1 of the master (line 2 on PC-98).                                 *)
(***************************************************************************)
EXTENDS Pic

AtDevices  == {0, 2, 3, 5}       \* a line on each side of the cascade, two of the slave
AtMasks    == {{}, {0}}
Pc98Devices == {3, 5}          \* two lines of the slave, nested in each other
XtDevices  == {0, 1, 4}
XtMasks    == {{}, {1}}
=============================================================================
