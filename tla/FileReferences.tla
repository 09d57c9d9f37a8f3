--------------------------- MODULE FileReferences ---------------------------
(***************************************************************************)
(* What DOS promises programs about open files, without counts: a          *)
(* reference (a handle of a process, or a file control block) refers to an *)
(* entry of the system's table until its owner closes it or makes it refer *)
(* to another; and an entry is open exactly while something refers to it.  *)
(* DosFiles implements this with a counter in each entry.                  *)
(***************************************************************************)
EXTENDS Integers

CONSTANTS
  Processes, \* programs
  Handles,   \* numbers of the handles that a process may have
  FcbBlocks, \* file control blocks
  Entries,   \* the system's table of files
  Closed     \* what a reference holds that refers to nothing

VARIABLES
  refersTo, \* the entry that each handle and each block refers to
  opened    \* the entries whose file is open

References == (Processes \X Handles) \cup FcbBlocks

Referred(t) == {t[r] : r \in References} \ {Closed}

Init ==
  /\ refersTo = [r \in References |-> Closed]
  /\ opened = {}

Open(r, e) ==
  /\ refersTo[r] = Closed
  /\ e \notin opened
  /\ refersTo' = [refersTo EXCEPT ![r] = e]
  /\ opened' = opened \cup {e}

(* r comes to refer to what s refers to; what only r referred to is closed *)
Duplicate(r, s) ==
  /\ refersTo[s] # Closed
  /\ refersTo' = [refersTo EXCEPT ![r] = refersTo[s]]
  /\ opened' = Referred(refersTo')

Close(r) ==
  /\ refersTo' = [refersTo EXCEPT ![r] = Closed]
  /\ opened' = Referred(refersTo')

Exit(p) ==
  /\ refersTo' = [r \in References |->
                    IF r \in {p} \X Handles THEN Closed ELSE refersTo[r]]
  /\ opened' = Referred(refersTo')

(* A new process q gets handles on open files; one by whose number p has a
   file is on that file. *)
Inherit(p, q) ==
  /\ UNCHANGED opened
  /\ \A h \in Handles : refersTo[<<q, h>>] = Closed
  /\ \E given \in [Handles -> opened \cup {Closed}] :
       /\ \A h \in Handles : refersTo[<<p, h>>] # Closed
                              => given[h] \in {refersTo[<<p, h>>], Closed}
       /\ refersTo' = [r \in References |->
                         IF r \in {q} \X Handles THEN given[r[2]] ELSE refersTo[r]]

Next ==
  \/ \E r \in References : Close(r)
  \/ \E p \in Processes : Exit(p)
  \/ \E r \in References, e \in Entries : Open(r, e)
  \/ \E r, s \in References : Duplicate(r, s)
  \/ \E p, q \in Processes : Inherit(p, q)

Spec == Init /\ [][Next]_<<refersTo, opened>>

=============================================================================
