------------------------------ MODULE DosFiles ------------------------------
(***************************************************************************)
(* Open files of DOS programs (src/dos/dos_files.cpp, dos_classes.cpp,     *)
(* dos_execute.cpp).  The table Files[] holds one object for each open     *)
(* file, with a count of what refers to it: handles in the job file tables *)
(* of processes, and file control blocks (FCBs).  Processes inherit,       *)
(* duplicate and close handles in any order, and the count alone decides   *)
(* when the file is closed and its entry may be used for another.          *)
(*                                                                         *)
(* A file closes its host file with the last reference, when its entry is  *)
(* deleted too, so an entry in use is open.  Job file tables and FCBs lie  *)
(* in guest memory; programs write to them only through DOS.               *)
(*                                                                         *)
(* DOS_OpenFile writes the number of an entry into the job file table also *)
(* when it opens for an FCB.  Such a byte is a handle that nobody was      *)
(* given and that is not counted; it is kept in fcbBytes, and refersTo has *)
(* what was given.                                                         *)
(***************************************************************************)
EXTENDS Integers, FiniteSets

CONSTANTS
  DOS_FILES,    \* entries of Files[]
  Processes,    \* program segment prefixes
  Root,         \* the shell, its own parent
  FcbBlocks,    \* file control blocks
  Names,        \* names of files and devices
  DefaultFiles, \* handles of a new process, and handles that are inherited: 20
  Spare,        \* handles that SetNumFiles adds "for safety": 2
  MaxFiles,     \* bound: handles of a process
  HandleCounts, \* handle counts that programs ask for
  Misuses       \* requests that programs make and the code gets wrong, of
                \* {"regrow", "dup2", "volume", "fcb", "int20", "orphan"}:
                \* a second change of the number of handles; DUP2 to a
                \* handle beyond the table; a volume label created through
                \* a handle; an FCB opened in an entry with the number of a
                \* handle in use, or a handle used that was written for an
                \* FCB; INT 20h of another process; an end after the parent's

Closed == 255        \* 0xff in a job file table or FCB
Unused == [refs |-> 0, name |-> "", private |-> FALSE]  \* Files[i] == NULL

ASSUME SizesAssumption ==
  /\ DOS_FILES \in 1..255
  /\ DefaultFiles \in Nat /\ Spare \in Nat /\ MaxFiles \in Nat
  /\ DefaultFiles <= MaxFiles
  /\ HandleCounts \subseteq Nat

ASSUME OwnersAssumption ==
  /\ Root \in Processes
  /\ IsFiniteSet(Processes) /\ IsFiniteSet(FcbBlocks)
  /\ FcbBlocks \cap (Processes \X (0 .. MaxFiles - 1)) = {}

Entries == 0 .. DOS_FILES - 1
Handles == 0 .. MaxFiles - 1
References == (Processes \X Handles) \cup FcbBlocks

VARIABLES
  files,    \* Files[]: the references counted, the name, and DOS_NOT_INHERIT
  refersTo, \* bytes of the job file tables, and file_handle of the FCBs
  fcbBytes, \* the bytes of job file tables that were written for an FCB
  maxFiles, \* max_files of each process
  parent,   \* psp_parent of each process
  live,     \* processes whose memory is not freed
  psp       \* dos.psp()

vars == <<files, refersTo, fcbBytes, maxFiles, parent, live, psp>>

Init ==
  /\ files = [s \in Entries |-> Unused]
  /\ refersTo = [r \in References |-> Closed]
  /\ fcbBytes = {}
  /\ maxFiles = [p \in Processes |-> DefaultFiles]
  /\ parent = [p \in Processes |-> Root]
  /\ live = {Root}
  /\ psp = Root

(* a byte of the current process's table; one written for an FCB holds its
   own number *)
Byte(h) == IF <<psp, h>> \in fcbBytes THEN h ELSE refersTo[<<psp, h>>]

(* the entry, or none, that a handle of the current process stands for *)
GetFileHandle(h) == IF h < maxFiles[psp] THEN Byte(h) ELSE Closed

SetFileHandle(t, h, s) == IF h < maxFiles[psp] THEN [t EXCEPT ![<<psp, h>>] = s] ELSE t

(* a program names no handle that it was not given *)
Given(h) == <<psp, h>> \notin fcbBytes \/ "fcb" \in Misuses

(* what is left of fcbBytes when the byte of a handle is written *)
Rewritten(h) == IF h < maxFiles[psp] THEN fcbBytes \ {<<psp, h>>} ELSE fcbBytes

FirstFreeEntry(s) ==
  /\ files[s] = Unused
  /\ \A t \in 0 .. s - 1 : files[t] # Unused

FindFreeFileEntry(h) ==
  /\ h < maxFiles[psp]
  /\ Byte(h) = Closed
  /\ \A g \in 0 .. h - 1 : Byte(g) # Closed

Opened(name, private) == [refs |-> 1, name |-> name, private |-> private]

AddRef(f, s) == [f EXCEPT ![s].refs = @ + 1]

(* mutant: the entry is kept for one reference more *)
RemoveRef_Late(f, s) ==
  IF f[s].refs <= 0 THEN [f EXCEPT ![s] = Unused] ELSE [f EXCEPT ![s].refs = @ - 1]

(* DOS_CloseFile after the handle was looked up *)
RemoveRef(f, s) ==
  IF f[s].refs <= 1 THEN [f EXCEPT ![s] = Unused] ELSE [f EXCEPT ![s].refs = @ - 1]

-----------------------------------------------------------------------------
(* Functions 3Dh and 6Ch, and 3Ch and 5Bh; 6Ch opens, or closes again and
   creates, with the same entry and the same handle. *)

DOS_OpenFile(name, private) ==
  \E s \in Entries, h \in Handles :
    /\ FirstFreeEntry(s) /\ FindFreeFileEntry(h)
    /\ files' = [files EXCEPT ![s] = Opened(name, private)]
    /\ refersTo' = SetFileHandle(refersTo, h, s)
    /\ UNCHANGED <<fcbBytes, maxFiles, parent, live, psp>>

(* FileCreate makes no file when it is asked for a volume label *)
DOS_CreateFile(name, volume) ==
  \E s \in Entries, h \in Handles :
    /\ volume => "volume" \in Misuses
    /\ FirstFreeEntry(s) /\ FindFreeFileEntry(h)
    /\ files' = IF volume THEN files ELSE [files EXCEPT ![s] = Opened(name, FALSE)]
    /\ refersTo' = SetFileHandle(refersTo, h, s)
    /\ UNCHANGED <<fcbBytes, maxFiles, parent, live, psp>>

InUse(s) == s \in Entries /\ files[s] # Unused

DOS_CloseFile(h) ==
  LET s == GetFileHandle(h)
  IN  /\ InUse(s)
      /\ Given(h)
      /\ files' = RemoveRef(files, s)
      /\ refersTo' = SetFileHandle(refersTo, h, Closed)
      /\ fcbBytes' = Rewritten(h)
      /\ UNCHANGED <<maxFiles, parent, live, psp>>

DOS_DuplicateEntry(h) ==
  LET s == GetFileHandle(h)
  IN  \E new \in Handles :
        /\ InUse(s) /\ Given(h)
        /\ FindFreeFileEntry(new)
        /\ files' = AddRef(files, s)
        /\ refersTo' = SetFileHandle(refersTo, new, s)
        /\ UNCHANGED <<fcbBytes, maxFiles, parent, live, psp>>

(* the new handle is closed first if it is in use, and counted even if it is
   none of the process's *)
DOS_ForceDuplicateEntry(h, new) ==
  LET orig   == GetFileHandle(h)
      old    == GetFileHandle(new)
      closed == IF InUse(old) THEN RemoveRef(files, old) ELSE files
  IN  /\ h # new
      /\ new < maxFiles[psp] \/ "dup2" \in Misuses
      /\ InUse(orig) /\ Given(h)
      /\ InUse(old) => Given(new)
      /\ files' = AddRef(closed, orig)
      /\ refersTo' = SetFileHandle(refersTo, new, orig)
      /\ fcbBytes' = Rewritten(new)
      /\ UNCHANGED <<maxFiles, parent, live, psp>>

-----------------------------------------------------------------------------
(* File control blocks; a program opens one that is closed. *)

(* DOS_OpenFile takes the number of the entry for a handle and writes it into
   the job file table too, whatever that handle stood for *)
FcbOpensAnew(b, name) ==
  \E s \in Entries :
    /\ FirstFreeEntry(s)
    /\ s < maxFiles[psp] /\ refersTo[<<psp, s>>] # Closed => "fcb" \in Misuses
    /\ files' = [files EXCEPT ![s] = Opened(name, FALSE)]
    /\ refersTo' = [SetFileHandle(refersTo, s, Closed) EXCEPT ![b] = s]
    /\ fcbBytes' = IF s < maxFiles[psp] THEN fcbBytes \cup {<<psp, s>>} ELSE fcbBytes

FcbCreatesAnew(b, name) ==
  \E s \in Entries :
    /\ FirstFreeEntry(s)
    /\ files' = [files EXCEPT ![s] = Opened(name, FALSE)]
    /\ refersTo' = [refersTo EXCEPT ![b] = s]
    /\ UNCHANGED fcbBytes

(* a device is not created but opened *)
DOS_FCBCreate(b, name) ==
  /\ refersTo[b] = Closed
  /\ FcbCreatesAnew(b, name) \/ FcbOpensAnew(b, name)
  /\ UNCHANGED <<maxFiles, parent, live, psp>>

(* a file that is open already is shared *)
FcbShares(b, name) ==
  \E s \in Entries :
    /\ InUse(s) /\ files[s].name = name
    /\ \A t \in 0 .. s - 1 : InUse(t) => files[t].name # name
    /\ files' = AddRef(files, s)
    /\ refersTo' = [refersTo EXCEPT ![b] = s]
    /\ UNCHANGED fcbBytes

DOS_FCBOpen(b, name) ==
  /\ refersTo[b] = Closed
  /\ \/ FcbShares(b, name)
     \/ /\ \A t \in Entries : InUse(t) => files[t].name # name
        /\ FcbOpensAnew(b, name)
  /\ UNCHANGED <<maxFiles, parent, live, psp>>

DOS_FCBClose(b) ==
  /\ refersTo[b] # Closed
  /\ files' = IF InUse(refersTo[b]) THEN RemoveRef(files, refersTo[b]) ELSE files
  /\ refersTo' = [refersTo EXCEPT ![b] = Closed]
  /\ UNCHANGED <<fcbBytes, maxFiles, parent, live, psp>>

-----------------------------------------------------------------------------
(* Processes.  The memory of a process that is not live holds nothing. *)

(* CopyFileTable: what the current process hands to a child *)
Inherited(h) ==
  /\ h < DefaultFiles
  /\ InUse(Byte(h))
  /\ ~files[Byte(h)].private

HandlesOn(s, some) == {h \in some : Byte(h) = s}

(* mutant: a file inherited through two handles is counted once *)
DOS_ChildPSP_Once(child) ==
  LET some == {h \in Handles : Inherited(h)}
  IN  /\ child \notin live
      /\ files' = [s \in Entries |->
                     IF HandlesOn(s, some) = {} THEN files[s]
                     ELSE [files[s] EXCEPT !.refs = @ + 1]]
      /\ refersTo' = [r \in References |->
                        IF r \in {child} \X some THEN Byte(r[2])
                        ELSE refersTo[r]]
      /\ parent' = [parent EXCEPT ![child] = psp]
      /\ live' = live \cup {child}
      /\ psp' = child
      /\ UNCHANGED <<fcbBytes, maxFiles>>

(* function 55h; with DOS_Execute, 4Bh *)
DOS_ChildPSP(child) ==
  LET some == {h \in Handles : Inherited(h)}
  IN  /\ child \notin live
      /\ files' = [s \in Entries |->
                     IF HandlesOn(s, some) = {} THEN files[s]
                     ELSE [files[s] EXCEPT !.refs = @ + Cardinality(HandlesOn(s, some))]]
      /\ refersTo' = [r \in References |->
                        IF r \in {child} \X some THEN Byte(r[2])
                        ELSE refersTo[r]]
      /\ parent' = [parent EXCEPT ![child] = psp]
      /\ live' = live \cup {child}
      /\ psp' = child
      /\ UNCHANGED <<fcbBytes, maxFiles>>

(* the program's file is opened before, and closed before the tables are copied *)
DOS_Execute(child) ==
  /\ \E s \in Entries : FirstFreeEntry(s)
  /\ \E h \in Handles : FindFreeFileEntry(h)
  /\ DOS_ChildPSP(child)

(* function 50h *)
SetPSP(p) ==
  /\ p \in live
  /\ psp' = p
  /\ UNCHANGED <<files, refersTo, fcbBytes, maxFiles, parent, live>>

(* CloseFiles goes through as many handles as p has, but of the current
   process; a file whose count is exhausted on the way is gone for the rest *)
Closes(p, h) ==
  LET s == GetFileHandle(h)
  IN  /\ h < maxFiles[p]
      /\ InUse(s)
      /\ Cardinality(HandlesOn(s, 0 .. h)) <= files[s].refs

(* through a byte written for an FCB it closes what the process was not given *)
ClosesMore(some) ==
  /\ \E h \in Handles : <<psp, h>> \in fcbBytes
  /\ \E s \in Entries :
       Cardinality(HandlesOn(s, some)) # Cardinality({h \in Handles : refersTo[<<psp, h>>] = s})

DOS_Terminate(p, tsr) ==
  LET some == {h \in Handles : Closes(p, h)}
  IN  /\ p \in live /\ parent[p] # p
      /\ p = psp \/ "int20" \in Misuses
      /\ parent[p] \in live \/ "orphan" \in Misuses
      /\ ~tsr /\ ClosesMore(some) => "fcb" \in Misuses
      /\ files' = [s \in Entries |->
                     LET n == Cardinality(HandlesOn(s, some))
                     IN  IF tsr \/ n = 0 THEN files[s]
                         ELSE IF files[s].refs <= n THEN Unused
                         ELSE [files[s] EXCEPT !.refs = @ - n]]
      /\ refersTo' = [r \in References |->
                        IF ~tsr /\ r \in ({psp} \X some) \cup ({p} \X Handles) THEN Closed
                        ELSE refersTo[r]]
      /\ IF tsr THEN UNCHANGED <<fcbBytes, maxFiles, parent, live>>
         ELSE /\ fcbBytes' = fcbBytes \ (({psp} \X some) \cup ({p} \X Handles))
              /\ maxFiles' = [maxFiles EXCEPT ![p] = DefaultFiles]
              /\ parent' = [parent EXCEPT ![p] = Root]
              /\ live' = live \ {p}
      /\ psp' = parent[p]

(* Function 67h.  A table that grows is copied, but only its first handles; one
   that does not grow far enough shrinks. *)
SetNumFiles(n) ==
  LET asked == IF n < DefaultFiles THEN DefaultFiles ELSE n
      grows == asked > DefaultFiles /\ asked + Spare > maxFiles[psp]
      new   == IF grows THEN asked + Spare ELSE asked
  IN  /\ new <= MaxFiles
      /\ maxFiles[psp] = DefaultFiles \/ "regrow" \in Misuses
      /\ maxFiles' = [maxFiles EXCEPT ![psp] = new]
      /\ refersTo' = IF grows
                     THEN [r \in References |->
                             IF r \in {psp} \X (DefaultFiles .. MaxFiles - 1) THEN Closed
                             ELSE refersTo[r]]
                     ELSE refersTo
      /\ fcbBytes' = IF grows THEN fcbBytes \ ({psp} \X (DefaultFiles .. MaxFiles - 1))
                     ELSE fcbBytes
      /\ UNCHANGED <<files, parent, live, psp>>

Next ==
  \/ \E name \in Names, private \in BOOLEAN : DOS_OpenFile(name, private)
  \/ \E name \in Names, volume \in BOOLEAN : DOS_CreateFile(name, volume)
  \/ \E h \in Handles : DOS_CloseFile(h) \/ DOS_DuplicateEntry(h)
  \/ \E h, new \in Handles : DOS_ForceDuplicateEntry(h, new)
  \/ \E b \in FcbBlocks, name \in Names : DOS_FCBCreate(b, name) \/ DOS_FCBOpen(b, name)
  \/ \E b \in FcbBlocks : DOS_FCBClose(b)
  \/ \E p \in Processes : DOS_ChildPSP(p) \/ DOS_Execute(p) \/ SetPSP(p)
  \/ \E p \in Processes, tsr \in BOOLEAN : DOS_Terminate(p, tsr)
  \/ \E n \in HandleCounts : SetNumFiles(n)

Spec == Init /\ [][Next]_vars

-----------------------------------------------------------------------------
TypeOK ==
  /\ files \in [Entries -> {Unused} \cup [refs : Nat \ {0}, name : Names, private : BOOLEAN]]
  /\ refersTo \in [References -> Entries \cup {Closed}]
  /\ fcbBytes \in SUBSET (Processes \X (Handles \cap Entries))
  /\ maxFiles \in [Processes -> DefaultFiles .. MaxFiles]
  /\ parent \in [Processes -> Processes]
  /\ live \in SUBSET Processes /\ psp \in Processes

(* what a program can still use or close *)
Reachable(r) == r \in FcbBlocks \/ (r[1] \in live /\ r[2] < maxFiles[r[1]])

Holders(t, s) == {r \in References : t[r] = s}

(* Every entry is counted by exactly the handles and blocks that were given
   it, and none refers to an entry that is not in use: no order of opening,
   duplicating, inheriting, closing and exiting closes a file that something
   refers to, keeps one open that nothing refers to, or leaves a handle that
   was given and comes to mean the next file opened. *)
RefsCounted ==
  /\ \A s \in Entries : files[s].refs = Cardinality(Holders(refersTo, s))
  /\ \A r \in References : refersTo[r] # Closed => Reachable(r)

-----------------------------------------------------------------------------
Refs == INSTANCE FileReferences WITH
  opened <- {s \in Entries : files[s] # Unused}

(* Counting implements references: a handle refers to the same open file from
   the call that gave it to the one that takes it back, whatever other
   processes do with their own handles of that file. *)
KeepsReferences == Refs!Spec

=============================================================================
