----------------------------- MODULE MCKeyboard -----------------------------
(* A ring of six bytes: a movement fits if at most one byte waits. *)
EXTENDS Keyboard

MCKeyboardCommands == {"ed", "f0", "ff"}
MCControllerCommands == {"20", "60", "d0", "d1", "d3", "d4"}
MCMouseCommands == {"f4", "eb"}
=============================================================================
