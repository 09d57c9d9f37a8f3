---------------------------- MODULE DeviceBytes ----------------------------
(***************************************************************************)
(* What a program may expect of the bytes that it reads from port 60h.     *)
(* The keyboard and the mouse send messages of several bytes, which come   *)
(* on offer one at a time in the order they were sent.  No device's byte   *)
(* takes the place of an unread one.  The controller's own answers do:     *)
(* they go first, before what the devices sent, so an unread byte is       *)
(* replaced only by an answer that was asked for after it came on offer.   *)
(* A program that commands the controller without a look at the port loses *)
(* that byte.  What waits is lost only all at once.                        *)
(* Keyboard implements this with a ring, a buffer of answers, two flags    *)
(* and events of the emulator's queue.                                     *)
(***************************************************************************)
EXTENDS Integers, Sequences

CONSTANTS
  Batches, \* sequences of bytes that devices send at once
  Packets, \* those of the mouse's movements
  Answer,  \* a byte of the controller
  None     \* nothing on offer

VARIABLES
  waiting, \* bytes sent and not offered yet
  answers, \* how many answers were asked for and not offered yet
  port     \* the byte on offer

bytes == <<waiting, answers, port>>

Init ==
  /\ waiting = << >>
  /\ answers = 0
  /\ port = None

Send(m) ==
  /\ waiting' = waiting \o m
  /\ UNCHANGED <<answers, port>>

Offer ==
  /\ waiting # << >> /\ answers = 0
  /\ port \in {None, Answer}
  /\ port' = Head(waiting)
  /\ waiting' = Tail(waiting)
  /\ UNCHANGED answers

Ask ==
  /\ answers' = answers + 1
  /\ UNCHANGED <<waiting, port>>

OfferAnswer ==
  /\ answers > 0
  /\ answers' = answers - 1
  /\ port' = Answer
  /\ UNCHANGED waiting

(* the one command whose answer does not wait for an event *)
AnswerAtOnce ==
  /\ port' = Answer
  /\ UNCHANGED <<waiting, answers>>

Take ==
  /\ port' = None
  /\ UNCHANGED <<waiting, answers>>

Lose ==
  /\ waiting' = << >>
  /\ answers' = 0
  /\ UNCHANGED port

(* the keyboard's reset, which it answers with two bytes *)
Reset ==
  /\ waiting' = << >>
  /\ answers' = 2
  /\ port' = None

(* The end of a message takes the place of what waited and of its own
   beginning; but no packet of the mouse is sent without its beginning. *)
LoseAndSend(m, first) ==
  /\ \A p \in Packets : \A i \in 2 .. Len(p) : m[first] # p[i]
  /\ waiting' = SubSeq(m, first, Len(m))
  /\ answers' = 0
  /\ UNCHANGED port

Next ==
  \/ \E m \in Batches : Send(m)
  \/ Offer \/ Ask \/ OfferAnswer \/ AnswerAtOnce \/ Take \/ Lose \/ Reset
  \/ \E m \in Batches : \E first \in 1 .. Len(m) : LoseAndSend(m, first)

Spec == Init /\ [][Next]_bytes

=============================================================================
