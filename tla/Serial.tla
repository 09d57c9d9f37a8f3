------------------------------- MODULE Serial -------------------------------
(***************************************************************************)
(* A serial port (src/hardware/serialport/serialport.cpp, with the far end *)
(* of serialdummy.cpp): a 16550 whose five causes of interrupt share one   *)
(* line, whose receiver and transmitter each have a fifo, and whose        *)
(* transmitter is driven by events of the emulator's queue.                *)
(*                                                                         *)
(* Bytes are counted, not told apart; an error is there or not.  The far   *)
(* end sends bytes and moves the modem lines at any time, as the other     *)
(* back ends do.  Events fire at any time: which of them comes first       *)
(* depends on a rate that programs set.  The divisor latch, RTS and the    *)
(* report of errors to the log are left out.                               *)
(***************************************************************************)
EXTENDS Integers, SequencesExt, FiniteSetsExt

CONSTANTS
  FifoSize,    \* 16
  Thresholds,  \* {1, 4, 8, 14}
  Lines,       \* the modem lines that the far end moves: cts, dsr, ri, cd
  IerWrites,   \* what programs write to the registers
  McrWrites,
  MsrWrites,
  Careful,     \* programs do not clear a byte that is about to be sent
  Rereads      \* programs read the empty receiver again after a byte with an error

ASSUME FifoAssumption ==
  /\ FifoSize \in Nat \ {0} /\ Careful \in BOOLEAN /\ Rereads \in BOOLEAN
  /\ Thresholds \subseteq 1..FifoSize /\ 1 \in Thresholds

ASSUME RegistersAssumption ==
  /\ Lines \subseteq {"cts", "dsr", "ri", "cd"}
  /\ IerWrites \subseteq SUBSET {"RX", "TX", "ERROR", "MSR"}
  /\ McrWrites \subseteq [loopback : BOOLEAN, dtr : BOOLEAN, op1 : BOOLEAN, op2 : BOOLEAN]
  /\ MsrWrites \subseteq SUBSET {"cts", "dsr", "ri", "cd"}

VARIABLE port

(* the causes, in the order of ComputeInterrupts *)
Causes == <<"ERROR", "TIMEOUT", "RX", "TX", "MSR">>

Sending == {"THR", "TX", "THR_LOOPBACK", "TX_LOOPBACK"}
Events == Sending \cup {"RX_TIMEOUT"}

(* Read_ISR's value; "CLEAR" when no enabled cause waits *)
Highest(causes) ==
  IF causes = {} THEN "CLEAR" ELSE Causes[SelectInSeq(Causes, LAMBDA c : c \in causes)]

(* line is the port's input of the interrupt controller; owed counts the
   bytes that wait in the fifo to be sent, untold is set from a byte until a
   program has read that there is room again *)
Init == port = [
  IER |-> {}, waiting |-> {"MSR"}, ISR |-> "CLEAR", irq_active |-> FALSE, line |-> FALSE,
  fifo |-> FALSE, threshold |-> 1, rx |-> 0, errors |-> << >>, last |-> FALSE,
  errors_in_fifo |-> 0, LSR_ERROR |-> FALSE,
  tx |-> 0, guard |-> FALSE, TX_EMPTY |-> TRUE, owed |-> 0, untold |-> FALSE,
  loopback |-> FALSE, dtr |-> FALSE, op1 |-> FALSE, op2 |-> FALSE,
  up |-> {}, delta |-> {"cts", "dsr", "ri", "cd"},
  due |-> [e \in Events |-> 0]]

-----------------------------------------------------------------------------
(* Interrupts. *)

ComputeInterrupts(p) ==
  LET val == p.IER \cap p.waiting
  IN  [p EXCEPT !.ISR = Highest(val), !.irq_active = val # {},
                !.line = IF p.op2 /\ (val # {}) # p.irq_active THEN val # {} ELSE @]

rise(p, cause) == ComputeInterrupts([p EXCEPT !.waiting = @ \cup {cause}])

clear(p, cause) == ComputeInterrupts([p EXCEPT !.waiting = @ \ {cause}])

setEvent(p, e) == [p EXCEPT !.due[e] = @ + 1]

removeEvent(p, e) == [p EXCEPT !.due[e] = 0]

Size(p) == IF p.fifo THEN FifoSize ELSE 1

-----------------------------------------------------------------------------
(* The receiver. *)

(* mutant: an error that joins another one is counted too *)
AddError_Always(p) ==
  LET n == Len(p.errors)
  IN  IF n < FifoSize
      THEN [p EXCEPT !.errors = Append(@, TRUE), !.errors_in_fifo = @ + 1, !.last = FALSE]
      ELSE [p EXCEPT !.errors[n] = TRUE, !.errors_in_fifo = @ + 1]

(* errorfifo: beyond the last place, the error joins the one in it *)
AddError(p) ==
  LET n == Len(p.errors)
  IN  IF n < FifoSize
      THEN [p EXCEPT !.errors = Append(@, TRUE), !.errors_in_fifo = @ + 1, !.last = FALSE]
      ELSE [p EXCEPT !.errors[n] = TRUE,
                     !.errors_in_fifo = IF p.errors[n] THEN @ ELSE @ + 1]

(* the head of the fifo has an error: LSR says so *)
ErrorShown(p) == rise([p EXCEPT !.LSR_ERROR = TRUE], "ERROR")

receiveByteEx(p, error) ==
  LET added == removeEvent([p EXCEPT !.rx = Min({@ + 1, Size(p)})], "RX_TIMEOUT")
      told  == IF added.rx = p.threshold THEN rise(added, "RX")
               ELSE setEvent(added, "RX_TIMEOUT")
  IN  IF ~error /\ p.rx < Size(p)
      THEN IF p.fifo THEN [told EXCEPT !.errors = Append(@, FALSE), !.last = FALSE] ELSE told
      ELSE IF ~p.fifo THEN ErrorShown(told)
      ELSE LET q == AddError(told) IN IF Head(q.errors) THEN ErrorShown(q) ELSE q

(* reading an empty fifo reads its last byte, and that byte's error, again:
   the count, unsigned in the code, then goes below what it counts *)
TakeByte(p) ==
  LET error == IF p.errors # << >> THEN Head(p.errors) ELSE p.last
      left == IF p.errors # << >> THEN Tail(p.errors) ELSE << >>
      taken == [p EXCEPT !.rx = Max({@ - 1, 0})]
      next == IF ~p.fifo THEN taken
              ELSE [taken EXCEPT !.errors = left, !.last = error /\ left = << >>,
                                 !.errors_in_fifo = IF error THEN @ - 1 ELSE @]
      shown == IF next.rx > 0 /\ p.fifo /\ Head(left) THEN ErrorShown(next) ELSE next
      quiet == clear(shown, "TIMEOUT")
  IN  IF quiet.rx < p.threshold THEN clear(quiet, "RX") ELSE quiet

(* mutant: the timeout is not started again *)
Read_RHR_NoTimeout(p) == removeEvent(TakeByte(p), "RX_TIMEOUT")

Read_RHR(p) ==
  LET q == removeEvent(TakeByte(p), "RX_TIMEOUT")
  IN  IF q.rx > 0 THEN setEvent(q, "RX_TIMEOUT") ELSE q

-----------------------------------------------------------------------------
(* The transmitter. *)

(* mutant: the byte that warmed up stays in the fifo *)
ByteTransmitting_Keeps(p) ==
  IF p.tx = 0 THEN rise([p EXCEPT !.guard = FALSE], "TX") ELSE [p EXCEPT !.guard = FALSE]

ByteTransmitting(p) ==
  LET gone == IF p.guard THEN [p EXCEPT !.guard = FALSE, !.tx = Max({@ - 1, 0})] ELSE p
  IN  IF gone.tx = 0 THEN rise(gone, "TX") ELSE gone

(* mutant: the next byte is sent while the last one is *)
ByteTransmitted_Twice(p) ==
  IF p.tx = 0 THEN [p EXCEPT !.TX_EMPTY = TRUE]
  ELSE LET sent == setEvent([p EXCEPT !.tx = @ - 1, !.owed = @ - 1],
                            IF p.loopback THEN "TX_LOOPBACK" ELSE "TX")
       IN  IF sent.tx = 0 THEN rise([sent EXCEPT !.TX_EMPTY = TRUE], "TX") ELSE sent

ByteTransmitted(p) ==
  IF p.tx = 0 THEN [p EXCEPT !.TX_EMPTY = TRUE]
  ELSE LET sent == setEvent([p EXCEPT !.tx = @ - 1, !.owed = @ - 1],
                            IF p.loopback THEN "TX_LOOPBACK" ELSE "TX")
       IN  IF sent.tx = 0 THEN rise(sent, "TX") ELSE sent

(* A byte that finds the fifo full takes the place of the last one in it,
   whose loss is only logged: as many bytes wait as before. *)
Write_THR(p) ==
  LET q == clear([p EXCEPT !.untold = TRUE], "TX")
  IN  IF p.TX_EMPTY
      THEN setEvent([q EXCEPT !.guard = TRUE, !.tx = Min({@ + 1, Size(p)}), !.TX_EMPTY = FALSE],
                    IF p.loopback THEN "THR_LOOPBACK" ELSE "THR")
      ELSE IF p.tx < Size(p) THEN [q EXCEPT !.tx = @ + 1, !.owed = @ + 1]
      ELSE q

handleEvent(p, e) ==
  CASE e = "RX_TIMEOUT"   -> rise(p, "TIMEOUT")
    [] e = "TX_LOOPBACK"  -> ByteTransmitted(receiveByteEx(p, FALSE))
    [] e = "THR_LOOPBACK" -> setEvent(ByteTransmitting(p), "TX_LOOPBACK")
    [] e = "THR"          -> setEvent(ByteTransmitting(p), "TX")
    [] e = "TX"           -> ByteTransmitted(p)

-----------------------------------------------------------------------------
(* Registers. *)

(* A program enables timeouts by switching the fifo on before it enables RX:
   in the other order TIMEOUT stays off. *)
Write_IER(p, data) ==
  ComputeInterrupts(
    [p EXCEPT !.waiting = IF p.tx = 0 /\ "TX" \in data THEN @ \cup {"TX"} ELSE @,
              !.IER = IF p.fifo /\ "RX" \in data THEN data \cup {"TIMEOUT"} ELSE data])

Read_ISR(p) ==
  IF p.ISR = "TX" THEN clear([p EXCEPT !.untold = FALSE], "TX") ELSE p

(* old is what the first place of the error fifo held when it was last used *)
Write_FCR(p, on, clearRx, clearTx, threshold, old) ==
  LET sized == IF on = p.fifo THEN p
               ELSE [p EXCEPT !.fifo = on, !.errors_in_fifo = 0, !.errors = << >>,
                              !.rx = 0, !.tx = 0, !.last = on /\ old]
      rxCleared == IF clearRx
                   THEN [sized EXCEPT !.errors_in_fifo = 0, !.errors = << >>, !.rx = 0,
                                      !.last = FALSE]
                   ELSE sized
      txEmpty == [rxCleared EXCEPT !.tx = 0, !.owed = 0, !.untold = FALSE]
  IN  [(IF clearTx \/ on # p.fifo THEN txEmpty ELSE rxCleared)
         EXCEPT !.threshold = IF on THEN threshold ELSE 1]

(* what the loopback turns into changes of the inputs; OUT1 and RI count only
   when they fall, and RTS is never looked at *)
Looped(p, mcr) ==
  IF ~mcr.loopback THEN {}
  ELSE {d \in {"dsr", "ri", "cd"} : CASE d = "dsr" -> mcr.dtr # p.dtr
                                      [] d = "ri"  -> p.op1 /\ ~mcr.op1
                                      [] d = "cd"  -> mcr.op2 # p.op2}

(* mutant: OUT2 lets an interrupt through only when the next cause comes *)
Write_MCR_NoLevel(p, mcr) ==
  LET new == Looped(p, mcr) \ p.delta
      told == IF new = {} THEN p ELSE rise([p EXCEPT !.delta = @ \cup new], "MSR")
  IN  [told EXCEPT !.line = @ /\ mcr.op2,
                   !.dtr = mcr.dtr, !.op1 = mcr.op1, !.op2 = mcr.op2,
                   !.loopback = mcr.loopback]

Write_MCR(p, mcr) ==
  LET new == Looped(p, mcr) \ p.delta
      told == IF new = {} THEN p ELSE rise([p EXCEPT !.delta = @ \cup new], "MSR")
  IN  [told EXCEPT !.line = IF mcr.op2 # p.op2 /\ told.irq_active THEN mcr.op2 ELSE @,
                   !.dtr = mcr.dtr, !.op1 = mcr.op1, !.op2 = mcr.op2,
                   !.loopback = mcr.loopback]

Read_LSR(p) == clear([p EXCEPT !.LSR_ERROR = FALSE], "ERROR")

Read_MSR(p) == clear([p EXCEPT !.delta = {}], "MSR")

Write_MSR(p, deltas) == [p EXCEPT !.delta = deltas]

-----------------------------------------------------------------------------
(* setCTS, setDSR, setRI, setCD: in loopback the level moves untold *)
SetLine(p, l) ==
  LET moved == [p EXCEPT !.up = SymDiff(@, {l})]
  IN  IF p.loopback THEN moved
      ELSE rise([moved EXCEPT !.delta = IF l = "ri" /\ l \notin p.up THEN @ ELSE @ \cup {l}],
                "MSR")

-----------------------------------------------------------------------------
Program ==
  \/ port' = Write_THR(port)
  \/ (port.rx = 0 /\ port.last => Rereads) /\ port' = Read_RHR(port)
  \/ \E data \in IerWrites : port' = Write_IER(port, data)
  \/ port' = Read_ISR(port)
  \/ \E on, clearRx, clearTx, old \in BOOLEAN, threshold \in Thresholds :
       /\ Careful /\ port.guard => ~clearTx /\ on = port.fifo
       /\ old => on /\ ~port.fifo
       /\ port' = Write_FCR(port, on, clearRx, clearTx, threshold, old)
  \/ \E mcr \in McrWrites : port' = Write_MCR(port, mcr)
  \/ port' = Read_LSR(port)
  \/ port' = Read_MSR(port)
  \/ \E deltas \in MsrWrites : port' = Write_MSR(port, deltas)

FarEnd ==
  \/ \E error \in BOOLEAN : port' = receiveByteEx(port, error)
  \/ \E l \in Lines : port' = SetLine(port, l)

Fire == \E e \in Events :
  port.due[e] > 0 /\ port' = handleEvent([port EXCEPT !.due[e] = @ - 1], e)

Next == Program \/ FarEnd \/ Fire

vars == <<port>>

Spec == Init /\ [][Next]_vars

-----------------------------------------------------------------------------
Count(errors) == Cardinality({i \in DOMAIN errors : errors[i]})

(* The interrupt line follows the causes: up while an enabled cause waits and
   OUT2 lets it through, whatever order causes, enables and OUT2 change in,
   and the register names the first of the causes (ComputeInterrupts looks at
   irq_active, Write_MCR at OUT2, and each moves the line on its own). *)
IrqFollows ==
  LET val == port.IER \cap port.waiting
  IN  /\ port.line <=> port.op2 /\ val # {}
      /\ port.ISR = Highest(val)

(* Nothing that a program must hear of is forgotten: while bytes wait RX or
   TIMEOUT waits or a timeout is due, while errors or changed lines are shown
   so do their causes, and while there is room for a byte that nobody has told
   the program about TX waits. *)
NothingUntold ==
  /\ port.rx > 0 => {"RX", "TIMEOUT"} \cap port.waiting # {} \/ port.due["RX_TIMEOUT"] > 0
  /\ port.LSR_ERROR => "ERROR" \in port.waiting
  /\ port.delta # {} => "MSR" \in port.waiting
  /\ port.tx = 0 /\ port.untold => "TX" \in port.waiting

(* The transmitter goes on: while it is busy exactly one event is due that
   takes it further, and while it is idle none is and nothing is left to send
   (the commented assertions "Serial port internal error" of Write_THR). *)
TxGoesOn ==
  LET due == port.due["THR"] + port.due["TX"]
               + port.due["THR_LOOPBACK"] + port.due["TX_LOOPBACK"]
  IN  /\ due = IF port.TX_EMPTY THEN 0 ELSE 1
      /\ port.TX_EMPTY => port.tx = 0 /\ ~port.guard

(* The fifo holds the bytes that wait and, while the first warms up, that one
   (the commented warning "FIFO empty when it should not" of
   ByteTransmitting): so no byte in the fifo is dropped from it unsent and
   none is sent twice. *)
GuardHoldsByte == port.tx = port.owed + IF port.guard THEN 1 ELSE 0

(* FIFO_ERROR of the line status is told from a count that is kept apart from
   the fifo: it is the number of waiting bytes with an error, through overrun,
   clearing and switching, and however often an empty receiver is read whose
   last byte had none. *)
ErrorsCounted ==
  /\ port.errors_in_fifo = Count(port.errors)
  /\ Len(port.errors) = IF port.fifo THEN port.rx ELSE 0
=============================================================================
