-------------------------------- MODULE Pic --------------------------------
(***************************************************************************)
(* The interrupt path of the emulated PC: the 8259 pair of                 *)
(* src/hardware/pic.cpp, the flags through which it asks the CPU core to   *)
(* look at it, and the NMI latch of src/cpu/cpu.cpp that shares the path.  *)
(*                                                                         *)
(* A request raised by a device travels  slave -> cascade line of master   *)
(* -> PIC_IRQCheckPending (a delayed event) -> PIC_IRQCheck -> PIC_runIRQs.*)
(* Every hop is edge triggered, so what can go wrong is a request that     *)
(* stays in a request register with nothing left to propagate it.          *)
(*                                                                         *)
(* The guest program is arbitrary: it may write the command and data ports *)
(* in any order and set or clear IF whenever it likes.                     *)
(***************************************************************************)
EXTENDS Integers, FiniteSets

CONSTANTS
  N,              \* lines of one controller (8 in the code)
  Irq2,           \* the line that is IRQ 2 of a PC/XT (2 in the code)
  HasSlave,       \* enable_slave_pic
  Pc98,           \* IS_PC98_ARCH
  NeverMark,      \* never_mark_cascade_in_service
  IgnoreCascade,  \* ignore_cascade_in_service
  HackIrqs,       \* IRQs configured with PIC_irq_hack_cs_equ_ds
  Devices,        \* IRQ numbers that devices raise and lower
  MaskValues,     \* values the guest writes to a mask register
  GuestOps,       \* kinds of port writes the guest makes
  NmiSources      \* TRUE if a device calls CPU_Raise_NMI

Lines == 0 .. N - 1
Irqs  == 0 .. 2 * N - 1
NoLine == -1
Master == "master"
Slave  == "slave"
Pics == {Master, Slave}

(* master_cascade_irq *)
Cascade == IF ~HasSlave THEN NoLine ELSE IF Pc98 THEN N - 1 ELSE Irq2

(* IRQ 9 of a PC/AT, to which IRQ 2 is rerouted *)
Irq9 == N + 1

ASSUME LinesAssumption ==
  /\ N \in Nat \ {0, 1}
  /\ Irq2 \in Lines
ASSUME ConfigAssumption ==
  /\ {HasSlave, Pc98, NeverMark, IgnoreCascade, NmiSources} \subseteq BOOLEAN
  /\ HackIrqs \subseteq Irqs
  /\ Devices \subseteq Irqs
  /\ MaskValues \subseteq SUBSET Lines
  /\ Pc98 => HasSlave

VARIABLES
  pic,         \* the two PIC_Controller objects
  pending,     \* PIC_IRQCheckPending: a PIC_IRQCheckDelayed event is queued
  check,       \* PIC_IRQCheck
  iflag,       \* the IF flag of the CPU
  nmiPending,  \* CPU_NMI_pending
  nmiActive,   \* CPU_NMI_active
  nmiGate      \* CPU_NMI_gate

vars == <<pic, pending, check, iflag, nmiPending, nmiActive, nmiGate>>

(***************************************************************************)
(* One PIC_Controller. imrr and isrr are redundant in the code (the        *)
(* complement of imr; the complement of isr, or'ed with isr_ignore) and    *)
(* are operators here.                                                     *)
(***************************************************************************)
Controller == [irr : SUBSET Lines, imr : SUBSET Lines, isr : SUBSET Lines,
               active_irq : 0 .. N, special : BOOLEAN, auto_eoi : BOOLEAN,
               single : BOOLEAN, icw_index : 0 .. 3, icw_words : {0, 2, 3}]

isr_ignore(p) ==
  IF p = Master /\ HasSlave /\ IgnoreCascade THEN {Cascade} ELSE {}

Serviceable(p, c) == (c.irr \ c.imr) \cap ((Lines \ c.isr) \cup isr_ignore(p))

(* mutant: the priority of the line in service is not looked at *)
Ceiling_NoPriority(p, c) == N

(* Lines below this one may interrupt the line in service. *)
Ceiling(p, c) ==
  IF c.special THEN N
  ELSE IF IgnoreCascade /\ p = Master /\ c.active_irq = Cascade
       THEN c.active_irq + 1
       ELSE c.active_irq

Ready(p, c) == \E i \in Serviceable(p, c) : i < Ceiling(p, c)

(* mutant: no line in service is encoded as line -1 *)
LeastLine_None(S) == IF S = {} THEN NoLine ELSE CHOOSE i \in S : \A j \in S : i <= j

LeastLine(S) == IF S = {} THEN N ELSE CHOOSE i \in S : \A j \in S : i <= j

(***************************************************************************)
(* The methods of PIC_Controller, as operators from chip states to chip    *)
(* states: S.pic is both controllers, S.pending is PIC_IRQCheckPending.    *)
(***************************************************************************)
Put(S, p, c) == [S EXCEPT !.pic[p] = c]

(* (bit&imrr)&isrr: not masked and not in service *)
Notices(p, c, v) ==
  /\ v \notin c.imr
  /\ v \notin c.isr \/ v \in isr_ignore(p)

(* raise_irq of line v passes the signal on *)
Forwards(p, c, v) ==
  /\ v \notin c.irr
  /\ Notices(p, c, v)
  /\ \/ c.special
     \/ v < c.active_irq
     \/ IgnoreCascade /\ p = Master /\ v = Cascade

(* lower_irq of line v looks at the controller again *)
Rechecks(p, c, v) ==
  /\ v \in c.irr
  /\ Notices(p, c, v)
  /\ c.special \/ v < c.active_irq

Requested(S, p, v) == Put(S, p, [S.pic[p] EXCEPT !.irr = @ \cup {v}])
Withdrawn(S, p, v) == Put(S, p, [S.pic[p] EXCEPT !.irr = @ \ {v}])

(* activate, raise_irq, check_for_irq and lower_irq of the master; its *)
(* deactivate does nothing                                             *)
MasterActivate(S) == [S EXCEPT !.pending = TRUE]

MasterRaise(S, v) ==
  IF Forwards(Master, S.pic[Master], v)
  THEN MasterActivate(Requested(S, Master, v)) ELSE Requested(S, Master, v)

MasterCheck(S) == IF Ready(Master, S.pic[Master]) THEN MasterActivate(S) ELSE S

MasterLower(S, v) ==
  IF Rechecks(Master, S.pic[Master], v)
  THEN MasterCheck(Withdrawn(S, Master, v)) ELSE Withdrawn(S, Master, v)

SlaveActivate(S) == MasterRaise(S, Cascade)

SlaveDeactivate(S) ==
  IF S.pic[Slave].irr \subseteq S.pic[Slave].imr THEN MasterLower(S, Cascade) ELSE S

SlaveCheck(S) ==
  IF Ready(Slave, S.pic[Slave]) THEN SlaveActivate(S) ELSE SlaveDeactivate(S)

CheckForIrq(S, p) == IF p = Master THEN MasterCheck(S) ELSE SlaveCheck(S)

RaiseIrq(S, p, v) ==
  IF p = Master THEN MasterRaise(S, v)
  ELSE IF Forwards(p, S.pic[p], v) THEN SlaveActivate(Requested(S, p, v))
  ELSE Requested(S, p, v)

LowerIrq(S, p, v) ==
  IF p = Master THEN MasterLower(S, v)
  ELSE IF Rechecks(p, S.pic[p], v) THEN SlaveCheck(Withdrawn(S, p, v))
  ELSE Withdrawn(S, p, v)

(* mutant: unmasking does not look for requests that waited *)
SetImr_NoCheck(S, p, val) == Put(S, p, [S.pic[p] EXCEPT !.imr = val])

SetImr(S, p, val) ==
  LET c == S.pic[p]
      changed == (c.imr \ val) \cup (val \ c.imr)
      S1 == Put(S, p, [c EXCEPT !.imr = val])
  IN  IF c.irr \cap changed \cap ((Lines \ c.isr) \cup isr_ignore(p)) # {}
      THEN CheckForIrq(S1, p) ELSE S1

(* mutants: check_after_EOI is forgotten; active_irq is not recomputed; an  *)
(* EOI ends every line in service                                          *)
EndOfInterrupt_NoCheck(S, p, D) ==
  Put(S, p, [S.pic[p] EXCEPT !.isr = @ \ D,
                             !.active_irq = LeastLine(S.pic[p].isr \ D)])
EndOfInterrupt_StaleActive(S, p, D) ==
  LET c1 == [S.pic[p] EXCEPT !.isr = @ \ D]
  IN  IF Serviceable(p, c1) # {} THEN CheckForIrq(Put(S, p, c1), p) ELSE Put(S, p, c1)
EndOfInterrupt_All(S, p, D) ==
  LET c1 == [S.pic[p] EXCEPT !.isr = {}, !.active_irq = N]
  IN  CheckForIrq(Put(S, p, c1), p)

(* EOI of the lines D, with check_after_EOI and update_active_irq.  In       *)
(* auto-EOI mode the code asserts that no line is in service; ICW1 leaves    *)
(* isr alone, so lines that were in service before an initialization to that *)
(* mode can make the assertion fail.  This is the build without assertions.  *)
EndOfInterrupt(S, p, D) ==
  LET c  == S.pic[p]
      c1 == [c EXCEPT !.isr = @ \ D, !.active_irq = LeastLine(c.isr \ D)]
      S1 == Put(S, p, c1)
  IN  IF Serviceable(p, c1) # {} THEN CheckForIrq(S1, p) ELSE S1

StartIrq(S, p, v) ==
  LET c == S.pic[p]
      c1 == [c EXCEPT !.irr = @ \ {v}]
  IN  Put(S, p, IF c.auto_eoi \/ (NeverMark /\ p = Master /\ v = Cascade)
                THEN c1
                ELSE [c1 EXCEPT !.active_irq = v, !.isr = @ \cup {v}])

-----------------------------------------------------------------------------
(***************************************************************************)
(* PIC_runIRQs. With the cs_equ_ds hack a line is passed over when the     *)
(* segment registers differ; segsEqual is what the CPU state says.         *)
(***************************************************************************)
IrqNumber(p, v) == IF p = Master THEN v ELSE N + v

Skips(p, v, segsEqual) == ~segsEqual /\ IrqNumber(p, v) \in HackIrqs

Candidates(p, c, segsEqual) ==
  {v \in Serviceable(p, c) : v < Ceiling(p, c) /\ ~Skips(p, v, segsEqual)}

SlaveStartIrq(S, segsEqual) ==
  LET c == S.pic[Slave]
      line == LeastLine(Candidates(Slave, c, segsEqual))
  IN  IF line < N THEN StartIrq(StartIrq(S, Slave, line), Master, Cascade)
      ELSE IF Ready(Slave, c) THEN S         \* skipped_irq
      ELSE LowerIrq(S, Slave, Cascade)

Dispatch(S, segsEqual) ==
  LET line == LeastLine(Candidates(Master, S.pic[Master], segsEqual))
  IN  IF line = N THEN S
      ELSE IF line = Cascade THEN SlaveStartIrq(S, segsEqual)
      ELSE StartIrq(S, Master, line)

AutoEoiCheck(S, p) == IF S.pic[p].auto_eoi THEN CheckForIrq(S, p) ELSE S

Chips == [pic |-> pic, pending |-> pending]
Become(S) == pic' = S.pic /\ pending' = S.pending

(* The last lines: the flag is cleared, and the event is queued again if   *)
(* the search for a line stopped before it ran out of lines.               *)
DispatchIrq(segsEqual) ==
  LET found == Candidates(Master, pic[Master], segsEqual) # {}
      S == AutoEoiCheck(AutoEoiCheck(Dispatch(Chips, segsEqual), Slave), Master)
      line == LeastLine(Candidates(Master, pic[Master], segsEqual))
      spurious == line = Cascade /\ Candidates(Slave, pic[Slave], segsEqual) = {}
  IN  /\ Become(IF found THEN MasterActivate(S) ELSE S)
      /\ check' = FALSE
      /\ iflag' = (~found \/ spurious)
      /\ UNCHANGED <<nmiPending, nmiActive, nmiGate>>

CPU_NMI_Interrupt ==
  /\ nmiActive' = TRUE
  /\ nmiPending' = FALSE
  /\ iflag' = FALSE
  /\ UNCHANGED <<pic, pending, check, nmiGate>>

PIC_runIRQs ==
  /\ iflag /\ check /\ ~nmiActive
  /\ \/ nmiPending /\ CPU_NMI_Interrupt
     \/ /\ ~nmiPending
        /\ \E segsEqual \in (IF HackIrqs = {} THEN {TRUE} ELSE BOOLEAN) :
             DispatchIrq(segsEqual)

PIC_IRQCheckDelayed ==
  /\ pending
  /\ check' = TRUE
  /\ pending' = FALSE
  /\ UNCHANGED <<pic, iflag, nmiPending, nmiActive, nmiGate>>

(* CPU_Check_NMI as Normal_Loop calls it before every run of the CPU core.   *)
(* That it also ends the grant of cycles, as CPU_Raise_NMI does, is left out *)
(* here and in EventQueue.                                                   *)
CPU_Check_NMI ==
  /\ ~nmiActive /\ nmiGate /\ nmiPending
  /\ check' = TRUE
  /\ UNCHANGED <<pic, pending, iflag, nmiPending, nmiActive, nmiGate>>

-----------------------------------------------------------------------------
(***************************************************************************)
(* Devices.                                                                *)
(***************************************************************************)
(* The IRQ number a device names, after rerouting; NoLine if it is refused *)
Route(irq) ==
  IF Pc98 THEN (IF irq = N - 1 THEN NoLine ELSE irq)
  ELSE IF HasSlave THEN (IF irq = Irq2 THEN Irq9 ELSE irq)
  ELSE IF irq = Irq9 THEN Irq2
  ELSE IF irq >= N THEN NoLine ELSE irq

Chip(irq) == IF irq < N THEN Master ELSE Slave
LineOf(irq) == IF irq < N THEN irq ELSE irq - N

PIC_ActivateIRQ(irq) ==
  /\ Route(irq) # NoLine
  /\ Become(RaiseIrq(Chips, Chip(Route(irq)), LineOf(Route(irq))))
  /\ UNCHANGED <<check, iflag, nmiPending, nmiActive, nmiGate>>

PIC_DeActivateIRQ(irq) ==
  /\ Route(irq) # NoLine
  /\ Become(LowerIrq(Chips, Chip(Route(irq)), LineOf(Route(irq))))
  /\ UNCHANGED <<check, iflag, nmiPending, nmiActive, nmiGate>>

CPU_Raise_NMI ==
  /\ NmiSources
  /\ nmiPending' = TRUE
  /\ check' = (check \/ (~nmiActive /\ nmiGate))
  /\ UNCHANGED <<pic, pending, iflag, nmiActive, nmiGate>>

-----------------------------------------------------------------------------
(***************************************************************************)
(* The guest program.                                                      *)
(***************************************************************************)
Ports == IF HasSlave THEN Pics ELSE {Master}

PortWrite(S) == Become(S) /\ UNCHANGED <<check, iflag, nmiPending, nmiActive, nmiGate>>

(* write_command, val & 0x10: ICW1 *)
Icw1(p, single, ic4) ==
  /\ "icw" \in GuestOps
  /\ LET S == SetImr(Chips, p, {})
     IN  PortWrite(Put(S, p, [S.pic[p] EXCEPT !.single = single,
                                              !.icw_index = 1,
                                              !.icw_words = IF ic4 THEN 3 ELSE 2]))

(* write_command, OCW3 with the special mask select bit *)
SetSpecialMask(p, on) ==
  /\ "smm" \in GuestOps
  /\ PortWrite(CheckForIrq(Put(Chips, p, [pic[p] EXCEPT !.special = on]), p))

(* write_command, OCW2 with the EOI bit *)
SpecificEoi(p, v) ==
  /\ "seoi" \in GuestOps
  /\ PortWrite(EndOfInterrupt(Chips, p, {v}))

NonspecificEoi(p) ==
  /\ "eoi" \in GuestOps
  /\ pic[p].active_irq # N
  /\ PortWrite(EndOfInterrupt(Chips, p, {pic[p].active_irq}))

(* write_data outside an initialization sequence: the mask register *)
WriteMask(p, val) ==
  /\ "mask" \in GuestOps
  /\ pic[p].icw_index = 0
  /\ PortWrite(SetImr(Chips, p, val))

(* write_data inside one: icw_index++ >= icw_words ends it *)
NextIcw(c) == IF c.icw_index >= c.icw_words THEN 0 ELSE c.icw_index + 1

WriteIcw(p, aeoi) ==
  /\ pic[p].icw_index # 0
  /\ LET c == pic[p]
         c1 == [c EXCEPT !.icw_index =
                  IF c.icw_index = 1 /\ NextIcw(c) # 0 /\ c.single
                  THEN 3 ELSE NextIcw(c)]
     IN  PortWrite(Put(Chips, p,
           IF c.icw_index = 3 THEN [c1 EXCEPT !.auto_eoi = aeoi] ELSE c1))

(* CLI, STI, POPF *)
SetIF(on) ==
  /\ iflag' = on
  /\ UNCHANGED <<pic, pending, check, nmiPending, nmiActive, nmiGate>>

(* mutant: IRET does not end the NMI *)
CPU_IRET_KeepsNmi ==
  /\ \E f \in BOOLEAN : iflag' = f
  /\ UNCHANGED <<pic, pending, check, nmiPending, nmiActive, nmiGate>>

CPU_IRET ==
  /\ nmiActive' = FALSE
  /\ \E f \in BOOLEAN : iflag' = f
  /\ UNCHANGED <<pic, pending, check, nmiPending, nmiGate>>

(* The two ports that hold the NMI mask bit. A0h (pc_xt_nmi_write) is only *)
(* there when it is not the slave's port, and looks for a pending NMI.     *)
pc_xt_nmi_write(on) ==
  /\ ~HasSlave /\ ~Pc98 /\ NmiSources
  /\ nmiGate' = on
  /\ check' = (check \/ (~nmiActive /\ on /\ nmiPending))
  /\ UNCHANGED <<pic, pending, iflag, nmiPending, nmiActive>>

cmos_selreg(on) ==
  /\ ~Pc98 /\ NmiSources
  /\ nmiGate' = on
  /\ UNCHANGED <<pic, pending, check, iflag, nmiPending, nmiActive>>

-----------------------------------------------------------------------------
ResetController(unmasked) ==
  [irr |-> {}, imr |-> Lines \ unmasked, isr |-> {}, active_irq |-> N,
   special |-> FALSE, auto_eoi |-> FALSE, single |-> FALSE,
   icw_index |-> 0, icw_words |-> 0]

ResetPic == [p \in Pics |-> IF p = Master THEN ResetController({0, 1, Cascade})
                                          ELSE ResetController({0})]

(* A machine reset: the queued event and its flag survive it. *)
PIC_Reset ==
  /\ "reset" \in GuestOps
  /\ pic' = ResetPic
  /\ check' = FALSE
  /\ UNCHANGED <<pending, iflag, nmiPending, nmiActive, nmiGate>>

Init ==
  /\ pic = ResetPic
  /\ pending = FALSE
  /\ check = FALSE
  /\ iflag = FALSE
  /\ nmiPending = FALSE
  /\ nmiActive = FALSE
  /\ nmiGate = TRUE

Device ==
  \/ \E irq \in Devices : PIC_ActivateIRQ(irq)
  \/ \E irq \in Devices : PIC_DeActivateIRQ(irq)
  \/ CPU_Raise_NMI

GuestPort ==
  \/ \E p \in Ports, single, ic4 \in BOOLEAN : Icw1(p, single, ic4)
  \/ \E p \in Ports, on \in BOOLEAN : SetSpecialMask(p, on)
  \/ \E p \in Ports, v \in Lines : SpecificEoi(p, v)
  \/ \E p \in Ports : NonspecificEoi(p)
  \/ \E p \in Ports, val \in MaskValues : WriteMask(p, val)
  \/ \E p \in Ports, aeoi \in BOOLEAN : WriteIcw(p, aeoi)

GuestCpu ==
  \/ \E on \in BOOLEAN : SetIF(on)
  \/ CPU_IRET
  \/ \E on \in BOOLEAN : pc_xt_nmi_write(on) \/ cmos_selreg(on)

Emulator == PIC_runIRQs \/ PIC_IRQCheckDelayed \/ CPU_Check_NMI \/ PIC_Reset

Next == Device \/ GuestPort \/ GuestCpu \/ Emulator

Spec == Init /\ [][Next]_vars

-----------------------------------------------------------------------------
(***************************************************************************)
(* Properties.                                                             *)
(***************************************************************************)
TypeOK ==
  /\ pic \in [Pics -> Controller]
  /\ {pending, check, iflag, nmiPending, nmiActive, nmiGate} \subseteq BOOLEAN

(* active_irq, the cached priority that every decision of the controller   *)
(* is taken with, always names a line that is in service, and names none   *)
(* exactly when no line is.                                                *)
ActiveIrqInService ==
  \A p \in Pics :
    /\ pic[p].active_irq = N <=> pic[p].isr = {}
    /\ pic[p].active_irq # N => pic[p].active_irq \in pic[p].isr

(* While no special mask mode is in use, active_irq is the line of highest *)
(* priority in service, so a nested interrupt never has a lower priority   *)
(* than the one it interrupts.                                             *)
ActiveIrqIsHighest ==
  \A p \in Pics : pic[p].active_irq = LeastLine(pic[p].isr)

(* No lost interrupt, master: when the controller has a request it could   *)
(* deliver, PIC_IRQCheck is set or the event that sets it is on its way.   *)
(* Nothing polls the request register, so this is all that wakes the CPU.  *)
NoLostIrq == Ready(Master, pic[Master]) => check \/ pending

(* No lost interrupt, slave: a deliverable request of the slave has its    *)
(* cascade request standing at the master.  Not so in special mask mode:   *)
(* the cascade request goes with the line that is dispatched, and another  *)
(* that stands, though deliverable, waits for the slave's next EOI.        *)
NoLostSlaveIrq ==
  Ready(Slave, pic[Slave]) /\ ~pic[Slave].special => Cascade \in pic[Master].irr

(* A line enters service only by a request that is standing and unmasked,  *)
(* and, outside special mask mode, only over lines of lower priority.      *)
DispatchInPriority ==
  [][\A p \in Pics : \A v \in pic'[p].isr \ pic[p].isr :
       /\ v \in pic[p].irr \ pic[p].imr
       /\ pic[p].special \/ \A w \in pic[p].isr : v < w]_vars

(* When the master dispatches a cascade request and the slave has no line  *)
(* to serve, the comment of slave_startIRQ says it will "clear it": the    *)
(* request at the master does not survive the pass.                        *)
SpuriousCascadeCleared ==
  [][(/\ check /\ ~check' /\ iflag'
      /\ LeastLine(Candidates(Master, pic[Master], TRUE)) = Cascade
      /\ Candidates(Slave, pic[Slave], TRUE) = {})
        => Cascade \notin pic'[Master].irr]_vars
=============================================================================
