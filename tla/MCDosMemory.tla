---------------------------- MODULE MCDosMemory ----------------------------
(* A small instance of DosMemory for TLC. *)
EXTENDS DosMemory

(* every way to fit, every area *)
SomeStrategies ==
  {[fit |-> "first", area |-> "low"], [fit |-> "best", area |-> "high then low"],
   [fit |-> "last", area |-> "high"], [fit |-> "last", area |-> "low"]}

PspSymmetry == Permutations(Psps)

(* headers that no chain reaches are never read *)
View == <<[s \in Blocks |-> mcb[s]], linked, strategy, held>>
=============================================================================
