------------------------ MODULE MCEventQueueRefines ------------------------
(* A small instance of EventQueueRefines for TLC. *)
EXTENDS EventQueueRefines

TwoSpeeds == {2, 4}
Mixed == {0, 1, 5}

EntrySymmetry == Permutations(Entries)

(* what a free entry last held and a lag that is not in use are never read *)
View ==
  <<[e \in ToSet(queue) \cup InService |-> entry[e]], queue, free, passes, inService,
    IF inService THEN srv_lag ELSE 0, clock, irqPending, oldCycles, mode, arrivals>>
=============================================================================
