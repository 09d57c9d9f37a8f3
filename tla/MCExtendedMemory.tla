-------------------------- MODULE MCExtendedMemory --------------------------
(* A small instance of ExtendedMemory for TLC. *)
EXTENDS ExtendedMemory

(* what free pages still hold is never read *)
View == <<table, xms, emm, vcpi, stopped,
          [p \in {q \in Memory : table[q] # FreePage} |-> content[p]]>>
=============================================================================
