--------------------------- MODULE MCSoundBlaster ---------------------------
(* Both kinds of card, blocks of 2 and 4 units over a channel of 2 or 4, and
   rates at which every block, or none, is shorter than three milliseconds. *)
EXTENDS SoundBlaster
=============================================================================
