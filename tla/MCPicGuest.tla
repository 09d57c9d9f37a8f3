----------------------------- MODULE MCPicGuest -----------------------------
(***************************************************************************)
(* Instances of PicGuest: a line of the master on each side of the cascade *)
(* and two lines of the slave.                                             *)
(***************************************************************************)
EXTENDS PicGuest

GuestDevices == {0, 2, 3, 5}
GuestMasks   == {{}}
=============================================================================
