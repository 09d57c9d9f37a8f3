------------------------------ MODULE PicGuest ------------------------------
(***************************************************************************)
(* Pic under a guest that behaves: an interrupt handler ends its interrupt *)
(* at the slave and then at the master, and returns. What the interrupt    *)
(* path promises such a guest is liveness: a request is served.            *)
(*                                                                         *)
(* Requests are bounded by MaxRaises, so that a line of low priority can   *)
(* not be starved by devices that raise a higher one for ever.             *)
(***************************************************************************)
EXTENDS Pic, Sequences

CONSTANTS
  MaxRaises,   \* bound on the requests and NMIs raised
  Withdraws    \* the devices that may withdraw a request

ASSUME GuestAssumption == MaxRaises \in Nat /\ Withdraws \subseteq Devices

VARIABLES
  stack,   \* one frame per interrupt being handled: the lines to end
  raises   \* requests the devices may still make

gvars == <<pic, pending, check, iflag, nmiPending, nmiActive, nmiGate, stack, raises>>

Top == stack[Len(stack)]

GInit == Init /\ stack = <<>> /\ raises = MaxRaises

(* CPU_HW_Interrupt and CPU_NMI_Interrupt leave the guest in a handler. *)
GInterrupt ==
  /\ PIC_runIRQs
  /\ LET started == {p \in Pics : pic'[p].isr # pic[p].isr}
     IN  stack' = IF started # {} \/ (nmiActive' /\ ~nmiActive)
                  THEN Append(stack, started) ELSE stack
  /\ UNCHANGED raises

GRaise ==
  /\ raises > 0
  /\ raises' = raises - 1
  /\ (\E irq \in Devices : PIC_ActivateIRQ(irq)) \/ CPU_Raise_NMI
  /\ UNCHANGED stack

GLower ==
  /\ \E irq \in Withdraws : PIC_DeActivateIRQ(irq)
  /\ UNCHANGED <<stack, raises>>

(* A handler ends its interrupt at the slave, then at the master. *)
GEoi ==
  /\ stack # <<>>
  /\ \E p \in Top :
       /\ p = Master => Slave \notin Top
       /\ NonspecificEoi(p)
       /\ stack' = [stack EXCEPT ![Len(stack)] = @ \ {p}]
  /\ UNCHANGED raises

(* Interrupts are only taken with IF set, so IRET sets it again. *)
GIret ==
  /\ stack # <<>> /\ Top = {}
  /\ CPU_IRET /\ iflag'
  /\ stack' = SubSeq(stack, 1, Len(stack) - 1)
  /\ UNCHANGED raises

(* CLI and STI, also inside a handler *)
GSetIF ==
  /\ \E on \in BOOLEAN : SetIF(on)
  /\ iflag' = ~iflag
  /\ UNCHANGED <<stack, raises>>

GMask ==
  /\ \E p \in Ports, val \in MaskValues : WriteMask(p, val)
  /\ UNCHANGED <<stack, raises>>

GEmulator ==
  /\ PIC_IRQCheckDelayed \/ CPU_Check_NMI
  /\ UNCHANGED <<stack, raises>>

GNext == GInterrupt \/ GRaise \/ GLower \/ GEoi \/ GIret \/ GSetIF \/ GMask \/ GEmulator

(* The emulator's loop is fair as in Pic. The guest's handlers make        *)
(* progress, and a guest that runs with IF clear sets it again.            *)
GFairness ==
  /\ SF_gvars(GInterrupt)
  /\ WF_gvars(PIC_IRQCheckDelayed /\ GEmulator)
  /\ WF_gvars(CPU_Check_NMI /\ GEmulator)
  /\ WF_gvars(GEoi)
  /\ WF_gvars(GIret)
  /\ WF_gvars(~iflag /\ GSetIF)

GSpec == GInit /\ [][GNext]_gvars /\ GFairness

(* What the chip and the chip's driver agree on: the lines in service are  *)
(* those of the handlers that have not ended them, one frame each.         *)
InServiceMatchesStack ==
  \A p \in Pics :
    Cardinality(pic[p].isr) = Cardinality({i \in 1 .. Len(stack) : p \in stack[i]})

(* A request that stands at an unmasked line is eventually served (or      *)
(* withdrawn, or masked): nothing in the path raise -> cascade -> event -> *)
(* PIC_runIRQs forgets it, whatever is in service when it comes.           *)
RequestServed ==
  \A irq \in Devices :
    LET p == Chip(Route(irq))
        v == LineOf(Route(irq))
        waiting == v \in pic[p].irr \ pic[p].imr
    IN  waiting ~> ~waiting

(* A pending NMI behind an open gate reaches a guest that does not keep IF *)
(* clear: raised while another NMI is being handled, it is remembered.     *)
NmiReachesGuest == nmiPending ~> (~nmiPending \/ ~nmiGate)
=============================================================================
