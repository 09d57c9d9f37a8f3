----------------------------- MODULE EventQueue -----------------------------
(***************************************************************************)
(* The event queue of src/hardware/pic.cpp and the emulator loop that      *)
(* drives it (Normal_Loop of src/dosbox.cpp).                              *)
(*                                                                         *)
(* Devices queue events a number of milliseconds ahead.  The queue is a    *)
(* list sorted by time; the CPU is only granted the cycles that remain     *)
(* before its first entry, and an event queued while the CPU runs cuts the *)
(* grant short.  Time inside a millisecond is derived from the cycles that *)
(* are left of it, so the two must agree whatever the order in which       *)
(* events, port writes, event handlers and ticks come.                     *)
(*                                                                         *)
(* A handler may add and remove events, and one of them                    *)
(* (PauseWithInterruptsEnabled) runs the whole emulator loop inside itself.*)
(***************************************************************************)
EXTENDS Integers, SequencesExt

CONSTANTS
  Entries,    \* the PIC_QUEUESIZE entries
  NoEntry,    \* none of them
  U,          \* units of time in a millisecond: an index is a number of them
  CycleMaxes, \* the values CPU_CycleMax takes
  Handlers,   \* event handlers (PIC_EventHandler)
  Values,     \* the values they are queued with
  Delays,     \* delays passed to PIC_AddEvent, in units
  HandlerDelays, \* those passed by event handlers
  MaxInsn,    \* cycles the longest instruction takes
  Idlers,     \* handlers that call CALLBACK_Idle
  MaxDepth,   \* bound on the nesting of PIC_RunQueue
  IrqCheck,   \* PIC_IRQCheckDelayed, the handler queued by an interrupt request
  IrqDelay,   \* PIC_irq_delay_ns, in units
  Disturbances \* which of "forfeit", "config", "trap" happen

ASSUME QueueAssumption ==
  /\ IsFiniteSet(Entries) /\ NoEntry \notin Entries
  /\ {U, MaxInsn, MaxDepth} \subseteq Nat \ {0}
  /\ CycleMaxes \subseteq 1 .. U
  /\ \A c \in CycleMaxes : U % c = 0
  /\ Delays \cup HandlerDelays \subseteq Nat
  /\ Idlers \subseteq Handlers
  /\ IrqCheck \notin Handlers
  /\ IrqDelay \in Nat

VARIABLES
  entry,      \* the array pic_queue.entries: index, pic_event and value
  queue,      \* the list of next_entry
  free,       \* the list of free_entry
  passes,     \* the activations of PIC_RunQueue: its local variables
  inService,  \* InEventService
  srv_lag,    \* srv_lag
  left,       \* CPU_CycleLeft
  cyc,        \* CPU_Cycles
  cmax,       \* CPU_CycleMax
  irqPending, \* PIC_IRQCheckPending
  oldCycles,  \* oldCycles of CPU_Core_Normal_Trap_Run
  mode        \* where the innermost Normal_Loop is

lists == <<entry, queue, free>>
clock == <<left, cyc, cmax>>
vars  == <<entry, queue, free, passes, inService, srv_lag, left, cyc, cmax,
           irqPending, oldCycles, mode>>

Modes == {"loop",   \* about to call PIC_RunQueue
          "serve",  \* in the while loop of PIC_RunQueue
          "cpu",    \* PIC_RunQueue returned true: the CPU core runs
          "trap",   \* ... one instruction with the trap flag set
          "idle"}   \* PIC_RunQueue returned false: GFX_Events, TIMER_AddTick

TickIndexND == cmax - left - cyc

(* PIC_TickIndex, exact because every CPU_CycleMax divides U *)
TickIndex == TickIndexND * (U \div cmax)

(* the cast to an integer truncates towards zero *)
MakeCycles(amount) ==
  IF amount >= 0 THEN (amount * cmax) \div U ELSE -((-amount * cmax) \div U)

(* mutant: the entry goes to the front of the entries of its time *)
Place_BeforeEqual(en, q, index) ==
  CHOOSE i \in 1 .. Len(q) + 1 :
    /\ i <= Len(q) => en[q[i]].index >= index
    /\ \A j \in 1 .. i - 1 : en[q[j]].index < index

(* mutant: only the first entry is compared with *)
Place_FirstOnly(en, q, index) ==
  IF q # <<>> /\ en[q[1]].index > index THEN 1 ELSE Len(q) + 1

(* where AddEntry puts an entry: before the first one that is later *)
Place(en, q, index) ==
  CHOOSE i \in 1 .. Len(q) + 1 :
    /\ i <= Len(q) => en[q[i]].index > index
    /\ \A j \in 1 .. i - 1 : en[q[j]].index <= index

(* mutant: the cycles already granted are not cut *)
CutGrant_Never(first) == UNCHANGED clock

(* mutant: the cycles taken back are lost *)
CutGrant_Loses(first) ==
  IF MakeCycles(first - TickIndex) < cyc
    THEN cyc' = 0 /\ UNCHANGED <<left, cmax>>
    ELSE UNCHANGED clock

(* the end of AddEntry: the CPU stops before the first event *)
CutGrant(first) ==
  IF MakeCycles(first - TickIndex) < cyc
    THEN left' = left + cyc /\ cyc' = 0 /\ UNCHANGED cmax
    ELSE UNCHANGED clock

(* the time a delay counts from *)
EventBase == IF inService THEN srv_lag ELSE TickIndex

(* mutant: the entry stays in the free list *)
AddEntry_StaysFree(h, v, index) ==
  LET e == Head(free)
      en == [entry EXCEPT ![e] = [index |-> index, handler |-> h, value |-> v]]
      q == InsertAt(queue, Place(en, queue, index), e)
  IN  entry' = en /\ queue' = q /\ free' = free /\ CutGrant(en[Head(q)].index)

AddEntry(h, v, index) ==
  LET e == Head(free)
      en == [entry EXCEPT ![e] = [index |-> index, handler |-> h, value |-> v]]
      q == InsertAt(queue, Place(en, queue, index), e)
  IN  entry' = en /\ queue' = q /\ free' = Tail(free) /\ CutGrant(en[Head(q)].index)

(* PIC_AddEvent: with no free entry the event is dropped *)
AddEvent(h, v, delay) ==
  IF free = <<>> THEN UNCHANGED <<lists, clock>>
                 ELSE AddEntry(h, v, EventBase + delay)

(* the elements of s that are in keep, in their order *)
Kept(s, keep) ==
  LET f[n \in 0 .. Len(s)] ==
        IF n = 0 THEN <<>> ELSE IF s[n] \in keep THEN Append(f[n - 1], s[n]) ELSE f[n - 1]
  IN  f[Len(s)]

(* entries are unlinked in order, each is pushed on the free list *)
Unlink(victims) ==
  /\ queue' = Kept(queue, Entries \ victims)
  /\ free' = Reverse(Kept(queue, victims)) \o free
  /\ UNCHANGED entry
-----------------------------------------------------------------------------
(***************************************************************************)
(* Device code runs in the CPU core (port handlers), in an event handler,  *)
(* and between passes (host events, tick handlers): everywhere but between *)
(* two events of a pass and in PIC_IRQCheckDelayed.                        *)
(***************************************************************************)
Top == Last(passes)
DeviceRuns ==
  mode = "serve" => Top.entry # NoEntry /\ entry[Top.entry].handler # IrqCheck

PIC_AddEvent(h, v, delay) ==
  /\ DeviceRuns
  /\ delay \in IF mode = "serve" THEN HandlerDelays ELSE Delays
  /\ AddEvent(h, v, delay)
  /\ UNCHANGED <<passes, inService, srv_lag, irqPending, oldCycles, mode>>

(* PIC_Controller::activate of the master: one check is queued at a time *)
Activate ==
  /\ DeviceRuns
  /\ ~irqPending
  /\ irqPending' = TRUE
  /\ AddEvent(IrqCheck, 0, IrqDelay)
  /\ UNCHANGED <<passes, inService, srv_lag, oldCycles, mode>>

PIC_RemoveEvents(h) ==
  /\ DeviceRuns
  /\ Unlink({e \in Entries : entry[e].handler = h})
  /\ UNCHANGED <<passes, inService, srv_lag, clock, irqPending, oldCycles, mode>>

PIC_RemoveSpecificEvents(h, v) ==
  /\ DeviceRuns
  /\ Unlink({e \in Entries : entry[e].handler = h /\ entry[e].value = v})
  /\ UNCHANGED <<passes, inService, srv_lag, clock, irqPending, oldCycles, mode>>
-----------------------------------------------------------------------------
(* PIC_RunQueue up to its while loop *)
BeginPass ==
  /\ mode = "loop"
  /\ left' = left + cyc
  /\ cyc' = 0
  /\ IF left' > 0
       THEN /\ mode' = "serve"
            /\ passes' = Append(passes, [nd |-> cmax - left', entry |-> NoEntry])
            /\ inService' = TRUE
       ELSE mode' = "idle" /\ UNCHANGED <<passes, inService>>
  /\ UNCHANGED <<lists, srv_lag, cmax, irqPending, oldCycles>>

(* mutant: an event is served up to one cycle early *)
Due_Early(nd) == queue # <<>> /\ entry[Head(queue)].index * cmax <= (nd + 1) * U

Due(nd) == queue # <<>> /\ entry[Head(queue)].index * cmax <= nd * U

(* mutant: PIC_IRQCheckDelayed leaves PIC_IRQCheckPending set *)
Serve_KeepsPending ==
  /\ mode = "serve" /\ Top.entry = NoEntry /\ Due(Top.nd)
  /\ passes' = [passes EXCEPT ![Len(passes)].entry = Head(queue)]
  /\ srv_lag' = entry[Head(queue)].index
  /\ queue' = Tail(queue)
  /\ UNCHANGED <<entry, free, inService, clock, irqPending, oldCycles, mode>>

(* the first entry is unlinked and its handler entered *)
Serve ==
  /\ mode = "serve" /\ Top.entry = NoEntry /\ Due(Top.nd)
  /\ LET e == Head(queue) IN
       /\ passes' = [passes EXCEPT ![Len(passes)].entry = e]
       /\ srv_lag' = entry[e].index
       /\ irqPending' = (irqPending /\ entry[e].handler # IrqCheck)
  /\ queue' = Tail(queue)
  /\ UNCHANGED <<entry, free, inService, clock, oldCycles, mode>>

(* the handler returns: its entry is free again *)
HandlerReturns ==
  /\ mode = "serve" /\ Top.entry # NoEntry
  /\ free' = <<Top.entry>> \o free
  /\ passes' = [passes EXCEPT ![Len(passes)].entry = NoEntry]
  /\ UNCHANGED <<entry, queue, inService, srv_lag, clock, irqPending, oldCycles, mode>>

(* mutant: a fraction of a cycle grants none *)
Grant_Zero(nd) ==
  IF queue = <<>> THEN left
  ELSE Min({(entry[Head(queue)].index * cmax - nd * U) \div U, left})

(* the cycles the CPU is granted at the end of a pass *)
Grant(nd) ==
  IF queue = <<>> THEN left
  ELSE LET cycles == (entry[Head(queue)].index * cmax - nd * U) \div U
       IN  Min({IF cycles = 0 THEN 1 ELSE cycles, left})

EndPass ==
  /\ mode = "serve" /\ Top.entry = NoEntry /\ ~Due(Top.nd)
  /\ inService' = FALSE
  /\ cyc' = Grant(Top.nd)
  /\ left' = left - cyc'
  /\ passes' = Front(passes)
  /\ mode' = IF left > 0 THEN "cpu" ELSE "idle"
  /\ UNCHANGED <<lists, srv_lag, cmax, irqPending, oldCycles>>
-----------------------------------------------------------------------------
(* An instruction; one that is still running at its end takes cycles below 0.
   The core's loop leaves CPU_Cycles at -1 where it stops on a cut or at the end;
   here it is what the instructions took.  CPU_Check_NMI before a run of the core,
   which gives the grant back to CPU_CycleLeft but keeps one cycle, is left out. *)
Execute(n) ==
  /\ mode = "cpu" /\ cyc > 0
  /\ cyc' = cyc - n
  /\ UNCHANGED <<lists, passes, inService, srv_lag, left, cmax, irqPending, oldCycles, mode>>

(* HLT: the rest of the grant passes *)
CPU_HLT ==
  /\ mode = "cpu" /\ cyc > 0
  /\ cyc' = 0
  /\ UNCHANGED <<lists, passes, inService, srv_lag, left, cmax, irqPending, oldCycles, mode>>

(* the core returns to Normal_Loop, at the end of the grant or for a callback *)
CpuReturns ==
  /\ mode = "cpu"
  /\ mode' = "loop"
  /\ UNCHANGED <<lists, passes, inService, srv_lag, clock, irqPending, oldCycles>>

(* the guest changes the cycles setting (CPU::Change_Config) *)
Change_Config(c) ==
  /\ mode = "cpu" /\ "config" \in Disturbances
  /\ cmax' = c
  /\ cyc' = 0
  /\ UNCHANGED <<lists, passes, inService, srv_lag, left, irqPending, oldCycles, mode>>

(* the guest enters protected mode or ends a program under cycles=auto *)
ForfeitTick ==
  /\ mode = "cpu" /\ "forfeit" \in Disturbances
  /\ left' = 0
  /\ cyc' = 0
  /\ UNCHANGED <<lists, passes, inService, srv_lag, cmax, irqPending, oldCycles, mode>>

(* CPU_Core_Normal_Trap_Run hides the grant while one instruction runs ... *)
BeginTrap ==
  /\ mode = "cpu" /\ cyc > 0 /\ "trap" \in Disturbances
  /\ oldCycles' = cyc
  /\ cyc' = 0
  /\ mode' = "trap"
  /\ UNCHANGED <<lists, passes, inService, srv_lag, left, cmax, irqPending>>

(* ... and returns to Normal_Loop with the rest of it *)
EndTrap ==
  /\ mode = "trap"
  /\ cyc' = oldCycles - 1
  /\ oldCycles' = 0
  /\ mode' = "loop"
  /\ UNCHANGED <<lists, passes, inService, srv_lag, left, cmax, irqPending>>

TIMER_AddTick ==
  /\ mode = "idle"
  /\ left' = left + cmax + cyc
  /\ cyc' = 0
  /\ entry' = [e \in Entries |-> IF Contains(queue, e)
                                   THEN [entry[e] EXCEPT !.index = @ - U]
                                   ELSE entry[e]]
  /\ mode' = "loop"
  /\ UNCHANGED <<queue, free, passes, inService, srv_lag, cmax, irqPending, oldCycles>>

(* increaseticks adjusts the speed when a tick is over *)
AdjustCycles(c) ==
  /\ mode = "idle"
  /\ cmax' = c
  /\ UNCHANGED <<lists, passes, inService, srv_lag, left, cyc, irqPending, oldCycles, mode>>
-----------------------------------------------------------------------------
(* a handler runs the emulator loop inside itself ... *)
CALLBACK_Idle ==
  /\ mode = "serve" /\ Top.entry # NoEntry /\ entry[Top.entry].handler \in Idlers
  /\ Len(passes) < MaxDepth
  /\ mode' = "loop"
  /\ UNCHANGED <<lists, passes, inService, srv_lag, clock, irqPending, oldCycles>>

(* ... and ends with the instruction of the idle callback; CALLBACK_Idle    *)
(* drops what is left of the grant unless the speed adjusts itself          *)
IdleReturns ==
  /\ mode = "cpu" /\ passes # <<>> /\ cyc > 0
  /\ mode' = "serve"
  /\ cyc' \in {cyc - 1, 0}
  /\ UNCHANGED <<lists, passes, inService, srv_lag, left, cmax, irqPending, oldCycles>>

Init ==
  /\ entry = [e \in Entries |-> [index |-> 0, handler |-> IrqCheck, value |-> 0]]
  /\ queue = <<>>
  /\ free \in SetToSeqs(Entries)
  /\ passes = <<>>
  /\ inService = FALSE
  /\ srv_lag = 0
  /\ cmax \in CycleMaxes
  /\ left = cmax
  /\ cyc = 0
  /\ irqPending = FALSE
  /\ oldCycles = 0
  /\ mode = "loop"

Device ==
  \/ \E h \in Handlers, v \in Values, d \in Delays \cup HandlerDelays : PIC_AddEvent(h, v, d)
  \/ Activate
  \/ \E h \in Handlers : PIC_RemoveEvents(h)
  \/ \E h \in Handlers, v \in Values : PIC_RemoveSpecificEvents(h, v)

RunQueue == BeginPass \/ Serve \/ HandlerReturns \/ EndPass

Cpu == (\E n \in 1 .. MaxInsn : Execute(n)) \/ CPU_HLT \/ CpuReturns

Disturb ==
  \/ \E c \in CycleMaxes : Change_Config(c)
  \/ ForfeitTick
  \/ BeginTrap
  \/ EndTrap

Tick == TIMER_AddTick \/ \E c \in CycleMaxes : AdjustCycles(c)

Next == Device \/ RunQueue \/ Cpu \/ Disturb \/ Tick \/ CALLBACK_Idle \/ IdleReturns

(***************************************************************************)
(* Fairness.  Normal_Loop calls PIC_RunQueue, the core and TIMER_AddTick   *)
(* in turn for as long as the emulator runs; handlers and the instruction  *)
(* that is single stepped return.  The core takes a cycle before an        *)
(* instruction can call a device, so it cannot be kept from executing by   *)
(* the events it queues.                                                   *)
(***************************************************************************)
Fairness ==
  /\ WF_vars(BeginPass) /\ WF_vars(Serve) /\ WF_vars(HandlerReturns) /\ WF_vars(EndPass)
  /\ SF_vars(\E n \in 1 .. MaxInsn : Execute(n))
  /\ WF_vars(CpuReturns) /\ WF_vars(EndTrap)
  /\ WF_vars(TIMER_AddTick)

Spec == Init /\ [][Next]_vars
FairSpec == Spec /\ Fairness
-----------------------------------------------------------------------------
InService == {passes[i].entry : i \in DOMAIN passes} \ {NoEntry}

TypeOK ==
  /\ \A e \in Entries : /\ entry[e].index \in Int
                        /\ entry[e].handler \in Handlers \cup {IrqCheck}
  /\ queue \in Seq(Entries) /\ free \in Seq(Entries)
  /\ InService \subseteq Entries /\ Len(passes) <= MaxDepth
  /\ inService => passes # <<>>
  /\ {left, cyc, srv_lag} \subseteq Int /\ cmax \in CycleMaxes
  /\ {inService, irqPending} \subseteq BOOLEAN
  /\ oldCycles \in Nat /\ mode \in Modes

(***************************************************************************)
(* Every entry is in exactly one place: the queue, the free list or the    *)
(* hands of the pass that runs its handler.  An entry in two lists would   *)
(* be reused while it is still queued, one in none is lost for good.       *)
(***************************************************************************)
Partition ==
  /\ ToSet(queue) \cup ToSet(free) \cup InService = Entries
  /\ Len(queue) + Len(free) + Cardinality({i \in DOMAIN passes : passes[i].entry # NoEntry})
       = Cardinality(Entries)

(* The list is sorted by time: PIC_RunQueue and AddEntry only look at its head. *)
Sorted == \A i, j \in DOMAIN queue : i < j => entry[queue[i]].index <= entry[queue[j]].index

(***************************************************************************)
(* "PIC_AddEvent by design caps CPU_Cycles to make the event happen on     *)
(* time" (pic.cpp:166): the cycles granted to the CPU end less than one    *)
(* cycle after the first event, whatever was queued and removed since.     *)
(***************************************************************************)
GrantEndsAtFirstEvent ==
  mode = "cpu" /\ cyc > 0 /\ queue # <<>> =>
    entry[Head(queue)].index * cmax - TickIndexND * U > (cyc - 1) * U

(***************************************************************************)
(* An event is never served before its time, nor later than the longest    *)
(* instruction takes at the slowest speed.                                 *)
(***************************************************************************)
ServedOnTime ==
  mode = "serve" /\ Top.entry # NoEntry =>
    /\ srv_lag * cmax <= Top.nd * U
    /\ Top.nd * (U \div cmax) - srv_lag < MaxInsn * (U \div Min(CycleMaxes))

(***************************************************************************)
(* Only the CPU moves time: queueing an event and running the queue move   *)
(* cycles between CPU_Cycles and CPU_CycleLeft and lose none.              *)
(***************************************************************************)
ClockConserved == [][Device \/ RunQueue => TickIndexND' = TickIndexND]_vars

(***************************************************************************)
(* PIC_IRQCheckPending keeps every later interrupt from asking for a       *)
(* check, so its event must not get lost while it is set.  The one step    *)
(* that loses it is the request itself, when PIC_AddEvent finds the queue  *)
(* full and returns: no removal, nested pass, tick or service does.        *)
(***************************************************************************)
CheckWaits == \E i \in DOMAIN queue : entry[queue[i]].handler = IrqCheck

CheckLostOnlyWhenFull ==
  [][(irqPending => CheckWaits) /\ irqPending' /\ ~CheckWaits'
       => ~irqPending /\ free = <<>>]_vars

(* Every event is served or removed in the end. *)
EventServed == \A e \in Entries : Contains(queue, e) ~> ~Contains(queue, e)
=============================================================================
