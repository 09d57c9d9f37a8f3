----------------------------- MODULE MCDosFiles -----------------------------
(* The shell and a program, three entries, two or three handles each. *)
EXTENDS DosFiles

CONSTANTS shell, program, fcb1

MCProcesses == {shell, program}
MCFcbBlocks == {fcb1}
=============================================================================
