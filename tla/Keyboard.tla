------------------------------ MODULE Keyboard ------------------------------
(***************************************************************************)
(* The keyboard controller (8042) with a keyboard and a PS/2 mouse         *)
(* (src/hardware/keyboard.cpp).  Keys and movements arrive from the host   *)
(* at any time; the bytes wait in one ring and are handed to port 60h one  *)
(* by one, by events of the emulator's queue that are due .3 ms after they *)
(* were asked for.  Answers of the controller itself wait in a buffer of   *)
(* their own and go first.  Whether an event is on its way is kept in two  *)
(* flags, which eleven places test and set.                                *)
(*                                                                         *)
(* Bytes are told apart by device and by place in a message.  All events   *)
(* have one delay, so they fire in the order they were added; programs     *)
(* may run between any two, also those that are due at the same time.      *)
(* Interrupts 1 and 12, which each byte raises, are the subject of Pic:    *)
(* here, programs read the port at any time.                               *)
(***************************************************************************)
EXTENDS Integers, Sequences

CONSTANTS
  KEYBUFSIZE,   \* 96
  KeySizes,     \* bytes of a key's scan code
  PacketSize,   \* bytes of a movement: 3, or 4 with a wheel
  EnableAux,    \* keyb.enable_aux
  MaxAnswers,   \* programs let no more answers wait; buf8042 holds 8
  KeyboardCommands, \* what programs write to port 60h, of the names in Reply
  ControllerCommands, \* and to port 64h, of the values in write_p64
  MouseCommands \* and to the mouse, of the names in MouseReply

ASSUME SizesAssumption ==
  /\ KEYBUFSIZE \in Nat /\ MaxAnswers \in Nat \ {0, 1, 2}
  /\ KeySizes \subseteq Nat \ {0} /\ PacketSize \in {3, 4}
  /\ EnableAux \in BOOLEAN

Message(dev, n) == [i \in 1..n |-> [dev |-> dev, part |-> i, of |-> n]]
Answer == [dev |-> "8042", part |-> 1, of |-> 1]
None == [dev |-> "none", part |-> 0, of |-> 0]

VARIABLES
  keyb,     \* the struct, with the events it has in the queue
  resetDue  \* KEYBOARD_ResetDelay is in the queue

vars == <<keyb, resetDue>>

(* KEYBOARD_Reset and AUX_Reset: port is p60data while p60changed, repeating
   stands for repeat.wait > 0, events counts KEYBOARD_TransferBuffer *)
Fresh == [
  buffer |-> << >>, len8042 |-> 0, pos8042 |-> 0, events |-> 0, scheduled |-> FALSE,
  port |-> None, command |-> "none", reset |-> FALSE, active |-> TRUE, scanning |-> TRUE,
  auxactive |-> FALSE, repeating |-> FALSE,
  aux_command |-> FALSE, mode |-> "stream", reporting |-> FALSE]

KEYBOARD_Reset(k) ==
  [Fresh EXCEPT !.mode = k.mode, !.reporting = k.reporting]

AUX_Reset(k) == [k EXCEPT !.mode = "stream", !.reporting = FALSE]

Init ==
  /\ keyb = Fresh
  /\ resetDue = FALSE

(* mutant: the event is left in the queue *)
KEYBOARD_ClrBuffer_KeepsEvents(k) ==
  [k EXCEPT !.buffer = << >>, !.len8042 = 0, !.pos8042 = 0, !.scheduled = FALSE]

KEYBOARD_ClrBuffer(k) ==
  [k EXCEPT !.buffer = << >>, !.len8042 = 0, !.pos8042 = 0, !.events = 0, !.scheduled = FALSE]

Schedule(k) == [k EXCEPT !.scheduled = TRUE, !.events = @ + 1]

KEYBOARD_Add8042Response(k) ==
  [k EXCEPT !.pos8042 = IF @ >= k.len8042 THEN 0 ELSE @,
            !.len8042 = IF k.pos8042 >= @ THEN 1 ELSE @ + 1,
            !.events = @ + 1]

(* mutant: an event is asked for although a byte is on offer *)
KEYBOARD_AddBuffer_Hasty(k, byte) ==
  IF Len(k.buffer) >= KEYBUFSIZE THEN KEYBOARD_ClrBuffer(k)
  ELSE LET added == [k EXCEPT !.buffer = Append(@, byte)]
       IN  IF ~k.scheduled THEN Schedule(added) ELSE added

KEYBOARD_AddBuffer(k, byte) ==
  IF Len(k.buffer) >= KEYBUFSIZE THEN KEYBOARD_ClrBuffer(k)
  ELSE LET added == [k EXCEPT !.buffer = Append(@, byte)]
       IN  IF ~k.scheduled /\ k.port = None THEN Schedule(added) ELSE added

AddAll(k, message) ==
  LET f[n \in 0 .. Len(message)] ==
        IF n = 0 THEN k ELSE KEYBOARD_AddBuffer(f[n - 1], message[n])
  IN  f[Len(message)]

(* what four places do when a byte may be waiting that nobody has asked for *)
StartTransfer(k) ==
  IF k.buffer # << >> /\ ~k.scheduled /\ k.port = None THEN Schedule(k) ELSE k

-----------------------------------------------------------------------------
(* Events. *)

KEYBOARD_TransferBuffer ==
  LET k == [keyb EXCEPT !.events = @ - 1]
  IN  /\ keyb.events > 0
      /\ keyb' = IF EnableAux /\ k.len8042 # 0
                 THEN LET last == k.pos8042 + 1 >= k.len8042
                      IN  [k EXCEPT !.port = Answer,
                                    !.pos8042 = IF last THEN 0 ELSE @ + 1,
                                    !.len8042 = IF last THEN 0 ELSE @]
                 ELSE IF k.buffer = << >> THEN [k EXCEPT !.scheduled = FALSE]
                 ELSE [k EXCEPT !.scheduled = FALSE, !.port = Head(k.buffer),
                                !.buffer = Tail(@)]
      /\ UNCHANGED resetDue

(* RESETDELAY after the keyboard was reset *)
KEYBOARD_ResetDelay ==
  /\ resetDue
  /\ resetDue' = FALSE
  /\ keyb' = KEYBOARD_Add8042Response([keyb EXCEPT !.reset = FALSE])

-----------------------------------------------------------------------------
(* The host. *)

(* a key that is held repeats; the release of another leaves it so *)
KEYBOARD_AddKey(n, pressed) ==
  /\ ~keyb.reset
  /\ \E repeating \in {pressed, pressed \/ keyb.repeating} :
       keyb' = AddAll([keyb EXCEPT !.repeating = repeating], Message("key", n))
  /\ UNCHANGED resetDue

KEYBOARD_TickHandler(n) ==
  /\ ~keyb.reset /\ keyb.active /\ keyb.scanning /\ keyb.repeating
  /\ keyb' = AddAll(keyb, Message("key", n))
  /\ UNCHANGED resetDue

Movement(k) ==
  IF k.reporting /\ k.mode = "stream" /\ Len(k.buffer) + 4 < KEYBUFSIZE
  THEN AddAll(k, Message("packet", PacketSize)) ELSE k

KEYBOARD_AUX_Event ==
  /\ keyb.auxactive
  /\ keyb' = Movement(keyb)
  /\ UNCHANGED resetDue

(* the window loses the focus, or the mapper opens *)
KEYBOARD_Clear ==
  /\ keyb' = KEYBOARD_ClrBuffer([keyb EXCEPT !.repeating = FALSE])
  /\ UNCHANGED resetDue

-----------------------------------------------------------------------------
(* Programs. *)

(* mutant: the next byte is not asked for *)
read_p60_Passive ==
  /\ keyb' = [keyb EXCEPT !.port = None]
  /\ UNCHANGED resetDue

read_p60 ==
  /\ keyb' = StartTransfer([keyb EXCEPT !.port = None])
  /\ UNCHANGED resetDue

(* commands of the mouse by their first byte: how many bytes they answer *)
MouseReply == [ff |-> 3, f6 |-> 1, f5 |-> 1, f4 |-> 1, f3 |-> 1, f2 |-> 2, f0 |-> 1,
               ee |-> 1, ec |-> 1, eb |-> 1, ea |-> 1, e9 |-> 4, e8 |-> 1, e7 |-> 1]

(* what a command does once it has answered *)
MouseEffect(k, val) ==
  CASE val = "ff" \/ val = "f6" -> AUX_Reset(k)
    [] val = "f5" -> [k EXCEPT !.reporting = FALSE]
    [] val = "f4" -> [k EXCEPT !.reporting = TRUE]
    [] val = "f3" \/ val = "e8" -> [k EXCEPT !.aux_command = TRUE]
    [] val = "f0" \/ val = "ec" -> [k EXCEPT !.mode = "remote"]
    [] val = "ee" -> [k EXCEPT !.mode = "wrap"]
    [] val = "ea" -> [k EXCEPT !.mode = "stream"]
    [] val = "eb" -> Movement(k)
    [] OTHER -> k

KEYBOARD_AUX_Write(k, val) ==
  IF k.mode = "wrap" /\ val \notin {"ff", "ec"} THEN AddAll(k, Message("mouse", 1))
  ELSE IF k.aux_command THEN AddAll([k EXCEPT !.aux_command = FALSE], Message("mouse", 1))
  ELSE MouseEffect(AddAll(k, Message("mouse", MouseReply[val])), val)

(* commands of the keyboard: the bytes they answer, and the command whose
   parameter comes next *)
Reply == [ed |-> 1, ee |-> 1, f0 |-> 1, f2 |-> 3, f3 |-> 1, f4 |-> 1, f5 |-> 1, f6 |-> 1]

Parameter(val) ==
  CASE val = "ed" -> "setleds" [] val = "f0" -> "setscanset" [] val = "f3" -> "settyperate"
    [] OTHER -> "none"

write_p60_Command(val) ==
  /\ keyb.command = "none"
  /\ ~keyb.reset
  /\ LET k == KEYBOARD_ClrBuffer(keyb)
     IN  IF val = "ff"
         THEN /\ keyb' = [KEYBOARD_Add8042Response(KEYBOARD_Add8042Response(KEYBOARD_Reset(k)))
                            EXCEPT !.reset = TRUE]
              /\ resetDue' = TRUE
         ELSE /\ keyb' = AddAll([k EXCEPT !.command = Parameter(val),
                                          !.scanning = IF val \in {"f4", "f6"} THEN TRUE
                                                       ELSE IF val = "f5" THEN FALSE ELSE @],
                                Message("key", Reply[val]))
              /\ UNCHANGED resetDue

(* the byte that a command of either port asked for *)
write_p60_Parameter ==
  LET k == [keyb EXCEPT !.command = "none"]
  IN  /\ keyb.command # "none"
      /\ \/ /\ keyb.command = "setscanset"
            /\ \E n \in {1, 2} : keyb' = AddAll(k, Message("key", n))
         \/ /\ keyb.command = "writeaux"
            /\ \E val \in MouseCommands : keyb' = KEYBOARD_AUX_Write(k, val)
         \/ /\ keyb.command = "writeauxout"  \* stays in force
            /\ keyb' = AddAll(keyb, Message("mouse", 1))
         \/ /\ keyb.command = "setoutport"   \* the A20 gate
            /\ keyb' = k
         \/ /\ \/ keyb.command = "writeoutput"
               \/ keyb.command \in {"settyperate", "setleds"} /\ ~keyb.reset
            /\ keyb' = AddAll(KEYBOARD_ClrBuffer(k), Message("key", 1))
         \/ /\ keyb.command = "setcommand"
            /\ \E on, aux \in BOOLEAN :
                 LET set == [k EXCEPT !.active = on, !.auxactive = aux]
                 IN  keyb' = IF on THEN StartTransfer(set) ELSE set
      /\ UNCHANGED resetDue

(* The commands that the controller answers.  The buffer starts over when all
   its answers were handed on; KEYBOARD_Add8042Response tests the place that is
   read next, not the place it writes to, so an answer that is asked for when
   the last place is taken goes behind the buffer.  Programs ask for no more
   than it can hold. *)
Asks == {"20", "a9", "aa", "ab", "c0", "e0"}

write_p64(val) ==
  /\ ~keyb.reset
  /\ val \in Asks => keyb.len8042 < MaxAnswers
  /\ keyb' =
       CASE val \in {"aa", "ab"} -> KEYBOARD_Add8042Response([keyb EXCEPT !.active = FALSE])
         [] val \in {"20", "a9", "c0", "e0"} -> KEYBOARD_Add8042Response(keyb)
         [] val = "d0" -> [keyb EXCEPT !.port = Answer]
         [] val = "a8" -> IF EnableAux THEN StartTransfer([keyb EXCEPT !.auxactive = TRUE]) ELSE keyb
         [] val = "ad" -> [keyb EXCEPT !.active = FALSE]
         [] val = "ae" -> StartTransfer([keyb EXCEPT !.active = TRUE])
         [] val = "60" -> [keyb EXCEPT !.command = "setcommand"]
         [] val = "d1" -> [keyb EXCEPT !.command = "setoutport"]
         [] val = "d2" -> [keyb EXCEPT !.command = "writeoutput"]
         [] val = "d3" -> IF EnableAux THEN [keyb EXCEPT !.command = "writeauxout"] ELSE keyb
         [] val = "d4" -> IF EnableAux THEN [keyb EXCEPT !.command = "writeaux"] ELSE keyb
  /\ UNCHANGED resetDue

ASSUME CommandsAssumption ==
  /\ KeyboardCommands \subseteq DOMAIN Reply \cup {"ff"}
  /\ MouseCommands \subseteq DOMAIN MouseReply
  /\ ControllerCommands \subseteq
       Asks \cup {"d0", "a8", "ad", "ae", "60", "d1", "d2", "d3", "d4"}

-----------------------------------------------------------------------------
Next ==
  \/ KEYBOARD_TransferBuffer \/ KEYBOARD_ResetDelay
  \/ \E n \in KeySizes, pressed \in BOOLEAN : KEYBOARD_AddKey(n, pressed)
  \/ \E n \in KeySizes : KEYBOARD_TickHandler(n)
  \/ KEYBOARD_AUX_Event \/ KEYBOARD_Clear
  \/ read_p60
  \/ \E val \in KeyboardCommands : write_p60_Command(val)
  \/ write_p60_Parameter
  \/ \E val \in ControllerCommands : write_p64(val)

(* The queue runs what is due.  A program reads what is on offer: an interrupt
   tells it, or it looks at port 64h. *)
Fairness ==
  /\ WF_vars(KEYBOARD_TransferBuffer) /\ WF_vars(KEYBOARD_ResetDelay)
  /\ WF_vars(keyb.port # None /\ read_p60)

Spec == Init /\ [][Next]_vars /\ Fairness

-----------------------------------------------------------------------------
(* Answers that wait. *)
Answers == keyb.len8042 - keyb.pos8042

(* The events in the queue are exactly those that are needed, one for each
   answer and one for the ring if it is scheduled; and a ring that holds bytes
   is scheduled, or a byte is on offer whose reader will ask for the next.  So
   nothing gets stuck, and no event comes to an empty ring. *)
EventsMatch ==
  /\ keyb.events = Answers + (IF keyb.scheduled THEN 1 ELSE 0)
  /\ keyb.scheduled => keyb.buffer # << >>
  /\ keyb.buffer # << >> => keyb.scheduled \/ keyb.port # None

Batches ==
  {Message("key", n) : n \in KeySizes \cup {1, 2, 3}} \cup
  {Message("mouse", n) : n \in 1..4} \cup
  {Message("packet", PacketSize)} \cup
  {Message("mouse", 1) \o Message("packet", PacketSize)}

Bytes == INSTANCE DeviceBytes WITH
  waiting <- keyb.buffer, answers <- Answers, port <- keyb.port,
  Packets <- {Message("packet", PacketSize)}

(* The ring, the flags and the events hand on the bytes of the devices as
   DeviceBytes says: in order, each once, none in the place of an unread one of
   either device, movements sent to the ring whole; and answers, one for each
   that was asked for, before them.  An unread byte gives way only to an answer
   that was asked for after it came on offer, or to that of command D0h. *)
KeepsBytes == Bytes!Spec

(* From every state, once no more keys and commands come, all that was sent and
   asked for is handed on and read: no flag or event is left that keeps it. *)
LeftAlone == KEYBOARD_TransferBuffer \/ KEYBOARD_ResetDelay \/ read_p60

Idle == keyb.buffer = << >> /\ keyb.port = None /\ keyb.events = 0 /\ ~keyb.reset

Drains == <>[][LeftAlone]_vars => <>[]Idle

=============================================================================
