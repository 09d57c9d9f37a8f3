--------------------------- MODULE EventSchedule ---------------------------
(***************************************************************************)
(* What the event queue promises to the devices: each event queued is      *)
(* served once, at its time or at most Late units after it, in the order   *)
(* of their times and, among equal times, in the order they were queued;   *)
(* a delay counts from the event being served, outside of events from now; *)
(* an event is refused only when Capacity events are outstanding.          *)
(***************************************************************************)
EXTENDS Integers, SequencesExt

CONSTANTS Capacity, Tasks, Delays, Msec, Late, None

VARIABLES
  waiting,  \* the events queued, in the order they were: [at, task]
  current,  \* the event being served
  now       \* time since the start of the millisecond

svars == <<waiting, current, now>>

Earliest(i) ==
  \A j \in DOMAIN waiting : /\ waiting[i].at <= waiting[j].at
                            /\ waiting[i].at = waiting[j].at => i <= j

(* no event may be Late at time t *)
InTime(t) == \A i \in DOMAIN waiting : t - waiting[i].at < Late

Outstanding == Len(waiting) + IF current = None THEN 0 ELSE 1

(* the events of w that are in some, in their order *)
Only(w, some) ==
  LET f[n \in 0 .. Len(w)] ==
        IF n = 0 THEN <<>> ELSE IF w[n] \in some THEN Append(f[n - 1], w[n]) ELSE f[n - 1]
  IN  f[Len(w)]

Init == waiting = <<>> /\ current = None /\ now = 0

Add(task, delay) ==
  /\ Outstanding < Capacity
  /\ waiting' = Append(waiting, [at |-> delay + IF current = None THEN now ELSE current.at,
                                 task |-> task])
  /\ UNCHANGED <<current, now>>

Cancel(tasks) ==
  /\ waiting' = Only(waiting, {w \in ToSet(waiting) : w.task \notin tasks})
  /\ UNCHANGED <<current, now>>

Serve ==
  /\ current = None
  /\ \E i \in DOMAIN waiting :
       /\ Earliest(i) /\ waiting[i].at <= now
       /\ current' = waiting[i]
       /\ waiting' = RemoveAt(waiting, i)
  /\ UNCHANGED now

Finish == current # None /\ current' = None /\ UNCHANGED <<waiting, now>>

Advance ==
  /\ current = None
  /\ now' > now /\ InTime(now')
  /\ UNCHANGED <<waiting, current>>

(* the millisecond is over *)
Tick ==
  /\ current = None /\ now >= Msec
  /\ now' = now - Msec
  /\ waiting' = [i \in DOMAIN waiting |-> [waiting[i] EXCEPT !.at = @ - Msec]]
  /\ UNCHANGED current

(* at the end of a millisecond the speed of the clock may change *)
Rescale ==
  /\ current = None /\ now >= Msec
  /\ now' >= Msec /\ InTime(now')
  /\ UNCHANGED <<waiting, current>>

Next ==
  \/ \E task \in Tasks, delay \in Delays : Add(task, delay)
  \/ \E tasks \in SUBSET Tasks : Cancel(tasks)
  \/ Serve \/ Finish \/ Advance \/ Tick \/ Rescale

Spec == Init /\ [][Next]_svars
=============================================================================
