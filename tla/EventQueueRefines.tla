------------------------- MODULE EventQueueRefines -------------------------
(***************************************************************************)
(* The event queue implements EventSchedule.  The list does not say in     *)
(* which order its entries were queued, so a history variable does.        *)
(***************************************************************************)
EXTENDS EventQueue

VARIABLE arrivals  \* the queued entries in the order they were queued

hvars == <<vars, arrivals>>

HInit == Init /\ arrivals = <<>>

(* what leaves the queue leaves the history, what is new in it arrived last *)
HNext ==
  /\ Next
  /\ arrivals' = Kept(arrivals, ToSet(queue')) \o Kept(queue', Entries \ ToSet(arrivals))

HSpec == HInit /\ [][HNext]_hvars

Task(e) == <<entry[e].handler, entry[e].value>>
Event(e) == [at |-> entry[e].index, task |-> Task(e)]
Nobody == [at |-> 0, task |-> <<>>]

Waiting == [i \in DOMAIN arrivals |-> Event(arrivals[i])]
Current == IF InService = {} THEN Nobody ELSE Event(Top.entry)

Schedule == INSTANCE EventSchedule WITH
  Capacity <- Cardinality(Entries),
  Tasks    <- (Handlers \X Values) \cup {<<IrqCheck, 0>>},
  Delays   <- Delays \cup HandlerDelays \cup {IrqDelay},
  Msec     <- U,
  Late     <- MaxInsn * (U \div Min(CycleMaxes)),
  None     <- Nobody,
  waiting  <- Waiting,
  current  <- Current,
  now      <- TickIndex

(***************************************************************************)
(* The sorted list, the cut of the CPU's grant, the lag of a late pass and *)
(* the shift at a tick together keep the promise of EventSchedule: events  *)
(* are served once, on time, in order of time and of arrival.              *)
(***************************************************************************)
KeepsSchedule == Schedule!Spec
=============================================================================
