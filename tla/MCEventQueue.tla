---------------------------- MODULE MCEventQueue ----------------------------
(* Small instances of EventQueue for TLC. *)
EXTENDS EventQueue

OneSpeed == {2}
TwoSpeeds == {2, 4}
Mixed == {0, 1, 5}
Positive == {1, 5}

(* entries are interchangeable *)
EntrySymmetry == Permutations(Entries)

(* what a free entry last held and a lag that is not in use are never read *)
View ==
  <<[e \in ToSet(queue) \cup InService |-> entry[e]], queue, free, passes, inService,
    IF inService THEN srv_lag ELSE 0, clock, irqPending, oldCycles, mode>>
=============================================================================
