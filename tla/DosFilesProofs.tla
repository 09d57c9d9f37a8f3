--------------------------- MODULE DosFilesProofs ---------------------------
(***************************************************************************)
(* Theorems about open files: for every number of processes, handles,      *)
(* blocks and entries, counting references implements FileReferences, as   *)
(* long as no program makes one of the requests named in Misuses.          *)
(***************************************************************************)
EXTENDS DosFiles, FiniteSetTheorems, TLAPS

FileTable == [Entries -> {Unused} \cup [refs : Nat \ {0}, name : Names, private : BOOLEAN]]
RefTable == [References -> Entries \cup {Closed}]

Counted(f, t) == \A s \in Entries : f[s].refs = Cardinality(Holders(t, s))

(* A table that counts nothing else than it did but for one entry, by d.   *)
Shifted(f, g, s, d) ==
  /\ g \in FileTable
  /\ g[s].refs = f[s].refs + d
  /\ \A e \in Entries \ {s} : g[e].refs = f[e].refs

(***************************************************************************)
(* References are finitely many.                                           *)
(***************************************************************************)
LEMMA HandlesFinite == IsFiniteSet(Handles) /\ Handles \subseteq Nat
<1>1. MaxFiles - 1 \in Int /\ 0 \in Int
  BY SizesAssumption
<1> QED
  BY <1>1, FS_Interval DEF Handles

LEMMA ReferencesFinite == IsFiniteSet(References)
<1>1. IsFiniteSet(Processes \X Handles)
  BY HandlesFinite, OwnersAssumption, FS_Product
<1> QED
  BY <1>1, OwnersAssumption, FS_Union DEF References

LEMMA HoldersFinite ==
  ASSUME NEW t, NEW s
  PROVE  IsFiniteSet(Holders(t, s)) /\ Cardinality(Holders(t, s)) \in Nat
<1>1. Holders(t, s) \in SUBSET References
  BY DEF Holders
<1>2. IsFiniteSet(Holders(t, s))
  BY <1>1, ReferencesFinite, FS_Subset
<1> QED
  BY <1>2, FS_CardinalityType

(***************************************************************************)
(* Entries.                                                                *)
(***************************************************************************)
LEMMA EntryCount ==
  ASSUME NEW f \in FileTable, NEW s \in Entries
  PROVE  f[s].refs \in Nat /\ (f[s] = Unused <=> f[s].refs = 0)
<1>1. CASE f[s] = Unused
  <2>1. Unused.refs = 0
    BY DEF Unused
  <2> QED
    BY <1>1, <2>1
<1>2. CASE f[s] # Unused
  <2>1. f[s] \in [refs : Nat \ {0}, name : Names, private : BOOLEAN]
    BY <1>2 DEF FileTable
  <2> QED
    BY <1>2, <2>1
<1> QED
  BY <1>1, <1>2

LEMMA ClosedIsNone == Closed \notin Entries
  BY SizesAssumption DEF Closed, Entries

(* An entry that something refers to is in use, and the other way round.   *)
LEMMA HeldIsUsed ==
  ASSUME NEW f \in FileTable, NEW t, Counted(f, t), NEW s \in Entries
  PROVE  f[s] # Unused <=> \E r \in References : t[r] = s
<1>1. f[s] # Unused <=> Cardinality(Holders(t, s)) # 0
  BY EntryCount DEF Counted
<1>2. Cardinality(Holders(t, s)) = 0 <=> Holders(t, s) = {}
  BY HoldersFinite, FS_EmptySet
<1> QED
  BY <1>1, <1>2 DEF Holders

LEMMA OpenShifts ==
  ASSUME NEW f \in FileTable, NEW s \in Entries, f[s] = Unused,
         NEW name \in Names, NEW private \in BOOLEAN
  PROVE  Shifted(f, [f EXCEPT ![s] = Opened(name, private)], s, 1)
<1>1. Opened(name, private) \in [refs : Nat \ {0}, name : Names, private : BOOLEAN]
  BY DEF Opened
<1>2. Opened(name, private).refs = 1
  BY DEF Opened
<1>3. f[s].refs = 0
  BY EntryCount
<1> QED
  BY <1>1, <1>2, <1>3 DEF Shifted, FileTable

LEMMA AddRefShifts ==
  ASSUME NEW f \in FileTable, NEW s \in Entries, f[s] # Unused
  PROVE  Shifted(f, AddRef(f, s), s, 1)
<1>1. f[s] \in [refs : Nat \ {0}, name : Names, private : BOOLEAN]
  BY DEF FileTable
<1>2. [f[s] EXCEPT !.refs = @ + 1] \in [refs : Nat \ {0}, name : Names, private : BOOLEAN]
  BY <1>1
<1>3. AddRef(f, s) = [f EXCEPT ![s] = [f[s] EXCEPT !.refs = @ + 1]]
  BY DEF AddRef
<1>4. [f[s] EXCEPT !.refs = @ + 1].refs = f[s].refs + 1
  BY <1>1
<1> QED
  BY <1>1, <1>2, <1>3, <1>4 DEF Shifted, FileTable

LEMMA RemoveRefShifts ==
  ASSUME NEW f \in FileTable, NEW s \in Entries, f[s] # Unused
  PROVE  Shifted(f, RemoveRef(f, s), s, -1)
<1>1. f[s] \in [refs : Nat \ {0}, name : Names, private : BOOLEAN]
  BY DEF FileTable
<1>2. CASE f[s].refs <= 1
  <2>1. RemoveRef(f, s) = [f EXCEPT ![s] = Unused]
    BY <1>2 DEF RemoveRef
  <2>2. f[s].refs = 1
    BY <1>1, <1>2
  <2>3. Unused.refs = 0
    BY DEF Unused
  <2> QED
    BY <2>1, <2>2, <2>3 DEF Shifted, FileTable
<1>3. CASE ~ (f[s].refs <= 1)
  <2>1. RemoveRef(f, s) = [f EXCEPT ![s] = [f[s] EXCEPT !.refs = @ - 1]]
    BY <1>3 DEF RemoveRef
  <2>2. [f[s] EXCEPT !.refs = @ - 1] \in [refs : Nat \ {0}, name : Names, private : BOOLEAN]
    BY <1>1, <1>3
  <2>3. [f[s] EXCEPT !.refs = @ - 1].refs = f[s].refs - 1
    BY <1>1
  <2> QED
    BY <1>1, <2>1, <2>2, <2>3 DEF Shifted, FileTable
<1> QED
  BY <1>2, <1>3

(***************************************************************************)
(* One reference is given or taken back.                                   *)
(***************************************************************************)
LEMMA Give ==
  ASSUME NEW f \in FileTable, NEW t \in RefTable, Counted(f, t),
         NEW r \in References, t[r] = Closed, NEW s \in Entries,
         NEW g, Shifted(f, g, s, 1)
  PROVE  /\ [t EXCEPT ![r] = s] \in RefTable
         /\ Counted(g, [t EXCEPT ![r] = s])
<1> DEFINE u == [t EXCEPT ![r] = s]
<1>1. u \in RefTable
  BY DEF RefTable
<1>2. Holders(u, s) = Holders(t, s) \cup {r} /\ r \notin Holders(t, s)
  BY ClosedIsNone DEF Holders, RefTable
<1>3. Cardinality(Holders(u, s)) = Cardinality(Holders(t, s)) + 1
  BY <1>2, HoldersFinite, FS_AddElement
<1>4. \A e \in Entries \ {s} : Holders(u, e) = Holders(t, e)
  BY ClosedIsNone DEF Holders, RefTable
<1> QED
  BY <1>1, <1>3, <1>4 DEF Counted, Shifted

LEMMA TakeBack ==
  ASSUME NEW f \in FileTable, NEW t \in RefTable, Counted(f, t),
         NEW r \in References, NEW s \in Entries, t[r] = s,
         NEW g, Shifted(f, g, s, -1)
  PROVE  /\ [t EXCEPT ![r] = Closed] \in RefTable
         /\ Counted(g, [t EXCEPT ![r] = Closed])
<1> DEFINE u == [t EXCEPT ![r] = Closed]
<1>1. u \in RefTable
  BY DEF RefTable
<1>2. Holders(u, s) = Holders(t, s) \ {r} /\ r \in Holders(t, s)
  BY ClosedIsNone DEF Holders, RefTable
<1>3. Cardinality(Holders(u, s)) = Cardinality(Holders(t, s)) - 1
  BY <1>2, HoldersFinite, FS_RemoveElement
<1>4. \A e \in Entries \ {s} : Holders(u, e) = Holders(t, e)
  BY ClosedIsNone DEF Holders, RefTable
<1> QED
  BY <1>1, <1>3, <1>4, HoldersFinite DEF Counted, Shifted


(***************************************************************************)
(* The inductive invariant.  Handles are given to the current process, so  *)
(* it has to be live; a process that is not live starts with a table of    *)
(* the default size; and a byte written for an FCB is not a reference, and *)
(* lies in a table that a process can use.                                 *)
(***************************************************************************)
IInv ==
  /\ TypeOK
  /\ RefsCounted
  /\ psp \in live
  /\ \A p \in Processes \ live : maxFiles[p] = DefaultFiles
  /\ \A w \in fcbBytes : Reachable(w) /\ refersTo[w] = Closed

LEMMA TypesOfTables ==
  ASSUME IInv
  PROVE  /\ files \in FileTable /\ refersTo \in RefTable
         /\ Counted(files, refersTo)
         /\ psp \in Processes /\ maxFiles[psp] \in Nat
<1>1. maxFiles[psp] \in DefaultFiles .. MaxFiles
  BY DEF IInv, TypeOK
<1> QED
  BY <1>1, SizesAssumption DEF IInv, TypeOK, FileTable, RefTable, RefsCounted, Counted

LEMMA OwnHandle ==
  ASSUME IInv, NEW h \in Handles
  PROVE  /\ <<psp, h>> \in References
         /\ h < maxFiles[psp] => Reachable(<<psp, h>>)
BY TypesOfTables DEF References, Reachable, IInv

LEMMA BytesOfTables ==
  ASSUME IInv, NEW w \in fcbBytes
  PROVE  /\ w \in Processes \X (Handles \cap Entries) /\ w \in References
         /\ Reachable(w) /\ refersTo[w] = Closed
BY DEF IInv, TypeOK, References

LEMMA FreeHandle ==
  ASSUME IInv, NEW h \in Handles, FindFreeFileEntry(h)
  PROVE  h < maxFiles[psp] /\ refersTo[<<psp, h>>] = Closed /\ <<psp, h>> \notin fcbBytes
<1>1. h < maxFiles[psp] /\ Byte(h) = Closed
  BY DEF FindFreeFileEntry
<1>2. <<psp, h>> \notin fcbBytes
  <2> SUFFICES ASSUME <<psp, h>> \in fcbBytes PROVE FALSE
    OBVIOUS
  <2>1. h \in Entries
    BY BytesOfTables
  <2> QED
    BY <1>1, <2>1, ClosedIsNone DEF Byte
<1> QED
  BY <1>1, <1>2 DEF Byte

LEMMA BlockReachable ==
  ASSUME NEW b \in FcbBlocks
  PROVE  b \in References /\ Reachable(b)
BY DEF References, Reachable

(* A handle that names an entry in use is one of the process's own.        *)
LEMMA HandleInUse ==
  ASSUME IInv, Misuses = {}, NEW h \in Handles, InUse(GetFileHandle(h)), Given(h)
  PROVE  /\ h < maxFiles[psp]
         /\ GetFileHandle(h) = refersTo[<<psp, h>>]
         /\ GetFileHandle(h) \in Entries
<1>1. h < maxFiles[psp] /\ GetFileHandle(h) \in Entries
  BY ClosedIsNone DEF InUse, GetFileHandle
<1>2. <<psp, h>> \notin fcbBytes
  BY DEF Given
<1> QED
  BY <1>1, <1>2 DEF GetFileHandle, Byte

(* What is left to show of a step that moves references only.              *)
LEMMA Moved ==
  ASSUME IInv, UNCHANGED <<maxFiles, parent, live, psp>>,
         files' \in FileTable, refersTo' \in RefTable, Counted(files', refersTo'),
         \A r \in References : refersTo'[r] # Closed => refersTo[r] # Closed \/ Reachable(r),
         \A w \in fcbBytes' : /\ w \in Processes \X (Handles \cap Entries)
                              /\ Reachable(w) /\ refersTo'[w] = Closed
  PROVE  IInv'
<1>1. TypeOK'
  BY DEF IInv, TypeOK, FileTable, RefTable
<1>2. \A r \in References : Reachable(r) => Reachable(r)'
  BY DEF Reachable
<1>3. RefsCounted'
  BY <1>2 DEF IInv, RefsCounted, Counted
<1>4. \A w \in fcbBytes' : Reachable(w)' /\ refersTo'[w] = Closed
  BY DEF Reachable
<1> QED
  BY <1>1, <1>3, <1>4 DEF IInv

(* No byte that is left is that of r.                                      *)
BytesWithout(r) ==
  \A w \in fcbBytes' : /\ w # r /\ w \in Processes \X (Handles \cap Entries)
                       /\ Reachable(w) /\ refersTo[w] = Closed

LEMMA BytesLeft ==
  ASSUME IInv, NEW r, fcbBytes' \subseteq fcbBytes \ {r}
  PROVE  BytesWithout(r)
BY BytesOfTables DEF BytesWithout

LEMMA NoBlockIsAByte ==
  ASSUME NEW b \in FcbBlocks
  PROVE  b \notin Processes \X (Handles \cap Entries)
BY OwnersAssumption DEF Handles

LEMMA BlockBytesLeft ==
  ASSUME IInv, NEW b \in FcbBlocks, fcbBytes' = fcbBytes
  PROVE  BytesWithout(b)
BY BytesOfTables, NoBlockIsAByte DEF BytesWithout

(* One reference that was closed is given an entry.                        *)
LEMMA GiveStep ==
  ASSUME IInv, UNCHANGED <<maxFiles, parent, live, psp>>,
         NEW r \in References, Reachable(r), refersTo[r] = Closed, BytesWithout(r),
         NEW s \in Entries, Shifted(files, files', s, 1),
         refersTo' = [refersTo EXCEPT ![r] = s]
  PROVE  IInv'
<1>1. refersTo' \in RefTable /\ Counted(files', refersTo')
  BY TypesOfTables, Give
<1>2. \A q \in References : refersTo'[q] # Closed => refersTo[q] # Closed \/ Reachable(q)
  BY TypesOfTables DEF RefTable
<1>3. files' \in FileTable
  BY DEF Shifted
<1>4. \A w \in fcbBytes' : /\ w \in Processes \X (Handles \cap Entries)
                           /\ Reachable(w) /\ refersTo'[w] = Closed
  BY DEF BytesWithout
<1> QED
  BY <1>1, <1>2, <1>3, <1>4, Moved

LEMMA TakeStep ==
  ASSUME IInv, UNCHANGED <<maxFiles, parent, live, psp>>,
         NEW r \in References, NEW s \in Entries, refersTo[r] = s, BytesWithout(r),
         Shifted(files, files', s, -1),
         refersTo' = [refersTo EXCEPT ![r] = Closed]
  PROVE  IInv'
<1>1. refersTo' \in RefTable /\ Counted(files', refersTo')
  BY TypesOfTables, TakeBack
<1>2. \A q \in References : refersTo'[q] # Closed => refersTo[q] # Closed \/ Reachable(q)
  BY TypesOfTables DEF RefTable
<1>3. files' \in FileTable
  BY DEF Shifted
<1>4. \A w \in fcbBytes' : /\ w \in Processes \X (Handles \cap Entries)
                           /\ Reachable(w) /\ refersTo'[w] = Closed
  BY DEF BytesWithout
<1> QED
  BY <1>1, <1>2, <1>3, <1>4, Moved

(***************************************************************************)
(* The calls on handles.                                                   *)
(***************************************************************************)
LEMMA OpenStep ==
  ASSUME IInv, NEW name \in Names, NEW private \in BOOLEAN, DOS_OpenFile(name, private)
  PROVE  IInv'
<1>1. PICK s \in Entries, h \in Handles :
        /\ FirstFreeEntry(s) /\ FindFreeFileEntry(h)
        /\ files' = [files EXCEPT ![s] = Opened(name, private)]
        /\ refersTo' = SetFileHandle(refersTo, h, s)
        /\ UNCHANGED <<fcbBytes, maxFiles, parent, live, psp>>
  BY DEF DOS_OpenFile
<1>2. refersTo' = [refersTo EXCEPT ![<<psp, h>>] = s] /\ h < maxFiles[psp]
  BY <1>1 DEF SetFileHandle, FindFreeFileEntry
<1>3. Shifted(files, files', s, 1)
  BY <1>1, TypesOfTables, OpenShifts DEF FirstFreeEntry
<1>4. refersTo[<<psp, h>>] = Closed /\ BytesWithout(<<psp, h>>)
  BY <1>1, FreeHandle, BytesLeft
<1> QED
  BY <1>1, <1>2, <1>3, <1>4, OwnHandle, GiveStep

LEMMA CreateStep ==
  ASSUME IInv, Misuses = {}, NEW name \in Names, NEW volume \in BOOLEAN,
         DOS_CreateFile(name, volume)
  PROVE  IInv'
<1>1. PICK s \in Entries, h \in Handles :
        /\ volume => "volume" \in Misuses
        /\ FirstFreeEntry(s) /\ FindFreeFileEntry(h)
        /\ files' = IF volume THEN files ELSE [files EXCEPT ![s] = Opened(name, FALSE)]
        /\ refersTo' = SetFileHandle(refersTo, h, s)
        /\ UNCHANGED <<fcbBytes, maxFiles, parent, live, psp>>
  BY DEF DOS_CreateFile
<1>2. refersTo' = [refersTo EXCEPT ![<<psp, h>>] = s] /\ h < maxFiles[psp]
  BY <1>1 DEF SetFileHandle, FindFreeFileEntry
<1>3. Shifted(files, files', s, 1)
  BY <1>1, TypesOfTables, OpenShifts DEF FirstFreeEntry
<1>4. refersTo[<<psp, h>>] = Closed /\ BytesWithout(<<psp, h>>)
  BY <1>1, FreeHandle, BytesLeft
<1> QED
  BY <1>1, <1>2, <1>3, <1>4, OwnHandle, GiveStep

LEMMA CloseStep ==
  ASSUME IInv, Misuses = {}, NEW h \in Handles, DOS_CloseFile(h)
  PROVE  IInv'
<1> DEFINE s == GetFileHandle(h)
<1>1. /\ InUse(s) /\ Given(h)
      /\ files' = RemoveRef(files, s)
      /\ refersTo' = SetFileHandle(refersTo, h, Closed)
      /\ fcbBytes' = Rewritten(h)
      /\ UNCHANGED <<maxFiles, parent, live, psp>>
  BY DEF DOS_CloseFile
<1>2. h < maxFiles[psp] /\ refersTo[<<psp, h>>] = s /\ s \in Entries
  BY <1>1, HandleInUse
<1>3. refersTo' = [refersTo EXCEPT ![<<psp, h>>] = Closed]
  BY <1>1, <1>2 DEF SetFileHandle
<1>4. Shifted(files, files', s, -1)
  BY <1>1, <1>2, TypesOfTables, RemoveRefShifts DEF InUse
<1>5. BytesWithout(<<psp, h>>)
  BY <1>1, <1>2, BytesLeft DEF Rewritten
<1> HIDE DEF s
<1> QED
  BY <1>1, <1>2, <1>3, <1>4, <1>5, OwnHandle, TakeStep

LEMMA DuplicateStep ==
  ASSUME IInv, Misuses = {}, NEW h \in Handles, DOS_DuplicateEntry(h)
  PROVE  IInv'
<1> DEFINE s == GetFileHandle(h)
<1>1. PICK new \in Handles :
        /\ InUse(s) /\ Given(h)
        /\ FindFreeFileEntry(new)
        /\ files' = AddRef(files, s)
        /\ refersTo' = SetFileHandle(refersTo, new, s)
        /\ UNCHANGED <<fcbBytes, maxFiles, parent, live, psp>>
  BY DEF DOS_DuplicateEntry
<1>2. s \in Entries
  BY <1>1, HandleInUse
<1>3. refersTo' = [refersTo EXCEPT ![<<psp, new>>] = s] /\ new < maxFiles[psp]
  BY <1>1 DEF SetFileHandle, FindFreeFileEntry
<1>4. Shifted(files, files', s, 1)
  BY <1>1, <1>2, TypesOfTables, AddRefShifts DEF InUse
<1>5. refersTo[<<psp, new>>] = Closed /\ BytesWithout(<<psp, new>>)
  BY <1>1, FreeHandle, BytesLeft
<1> HIDE DEF s
<1> QED
  BY <1>1, <1>2, <1>3, <1>4, <1>5, OwnHandle, GiveStep

LEMMA ForceDuplicateStep ==
  ASSUME IInv, Misuses = {}, NEW h \in Handles, NEW new \in Handles,
         DOS_ForceDuplicateEntry(h, new)
  PROVE  IInv'
<1> DEFINE orig == GetFileHandle(h)
           old  == GetFileHandle(new)
           r    == <<psp, new>>
<1>1. /\ h # new /\ new < maxFiles[psp] /\ InUse(orig) /\ Given(h)
      /\ InUse(old) => Given(new)
      /\ fcbBytes' = fcbBytes \ {r}
      /\ files' = AddRef(IF InUse(old) THEN RemoveRef(files, old) ELSE files, orig)
      /\ refersTo' = [refersTo EXCEPT ![r] = orig]
      /\ UNCHANGED <<maxFiles, parent, live, psp>>
  BY DEF DOS_ForceDuplicateEntry, SetFileHandle, Rewritten
<1>2. orig \in Entries /\ refersTo[<<psp, h>>] = orig
  BY <1>1, HandleInUse
<1>3. r \in References /\ Reachable(r) /\ <<psp, h>> \in References
  BY <1>1, OwnHandle
<1>4. InUse(old) => old = refersTo[r]
  BY <1>1, HandleInUse
<1>5. r # <<psp, h>> /\ BytesWithout(r)
  BY <1>1, BytesLeft
<1> HIDE DEF orig, old, r
<1>6. CASE InUse(old)
  <2> DEFINE f == RemoveRef(files, old)
             t == [refersTo EXCEPT ![r] = Closed]
  <2>1. old \in Entries /\ files[old] # Unused
    BY <1>6 DEF InUse
  <2>2. Shifted(files, f, old, -1)
    BY <2>1, TypesOfTables, RemoveRefShifts
  <2>3. f \in FileTable /\ t \in RefTable /\ Counted(f, t)
    BY <1>3, <1>4, <1>6, <2>1, <2>2, TypesOfTables, TakeBack DEF Shifted
  <2>4. t[r] = Closed /\ t[<<psp, h>>] = orig
    BY <1>2, <1>3, <1>5, TypesOfTables DEF RefTable
  <2>5. [t EXCEPT ![r] = orig] = [refersTo EXCEPT ![r] = orig]
    BY TypesOfTables, <1>3 DEF RefTable
  <2> HIDE DEF f, t
  <2>6. f[orig] # Unused
    BY <1>2, <1>3, <2>3, <2>4, HeldIsUsed
  <2>7. Shifted(f, AddRef(f, orig), orig, 1)
    BY <1>2, <2>3, <2>6, AddRefShifts
  <2>8. files' = AddRef(f, orig)
    BY <1>1, <1>6 DEF f
  <2>9. refersTo' \in RefTable /\ Counted(files', refersTo')
    BY <1>1, <1>2, <1>3, <2>3, <2>4, <2>5, <2>7, <2>8, Give
  <2>10. \A q \in References : refersTo'[q] # Closed => refersTo[q] # Closed \/ Reachable(q)
    BY <1>1, <1>3, TypesOfTables DEF RefTable
  <2>11. \A w \in fcbBytes' : /\ w \in Processes \X (Handles \cap Entries)
                              /\ Reachable(w) /\ refersTo'[w] = Closed
    BY <1>1, <1>5 DEF BytesWithout
  <2> QED
    BY <1>1, <2>7, <2>8, <2>9, <2>10, <2>11, Moved DEF Shifted
<1>7. CASE ~ InUse(old)
  <2>1. refersTo[r] = Closed
    <3>1. refersTo[r] \in Entries \cup {Closed}
      BY <1>3, TypesOfTables DEF RefTable
    <3>2. refersTo[r] \in Entries => files[refersTo[r]] # Unused
      BY <1>3, TypesOfTables, HeldIsUsed
    <3>3. CASE r \in fcbBytes
      BY <3>3, BytesOfTables
    <3>4. CASE r \notin fcbBytes
      <4>1. old = refersTo[r]
        BY <1>1, <3>4 DEF GetFileHandle, Byte, old, r
      <4> QED
        BY <1>7, <3>1, <3>2, <4>1 DEF InUse
    <3> QED
      BY <3>3, <3>4
  <2>2. files' = AddRef(files, orig)
    BY <1>1, <1>7
  <2>3. Shifted(files, files', orig, 1)
    BY <1>1, <1>2, <2>2, TypesOfTables, AddRefShifts DEF InUse
  <2> QED
    BY <1>1, <1>2, <1>3, <1>5, <2>1, <2>3, GiveStep
<1> QED
  BY <1>6, <1>7

(***************************************************************************)
(* The calls on blocks.                                                    *)
(***************************************************************************)
(* A byte is written for the block into the table of the process, where no
   handle was.                                                             *)
LEMMA OpensAnewTables ==
  ASSUME IInv, Misuses = {}, NEW b \in FcbBlocks, NEW name \in Names,
         FcbOpensAnew(b, name)
  PROVE  \E s \in Entries :
           /\ FirstFreeEntry(s)
           /\ files' = [files EXCEPT ![s] = Opened(name, FALSE)]
           /\ refersTo' = [refersTo EXCEPT ![b] = s]
           /\ BytesWithout(b)
<1>1. PICK s \in Entries :
        /\ FirstFreeEntry(s)
        /\ ~ (s < maxFiles[psp] /\ refersTo[<<psp, s>>] # Closed)
        /\ files' = [files EXCEPT ![s] = Opened(name, FALSE)]
        /\ refersTo' = [SetFileHandle(refersTo, s, Closed) EXCEPT ![b] = s]
        /\ fcbBytes' = IF s < maxFiles[psp] THEN fcbBytes \cup {<<psp, s>>} ELSE fcbBytes
  BY DEF FcbOpensAnew
<1>2. CASE s < maxFiles[psp]
  <2>1. s \in Handles
    <3>1. maxFiles[psp] \in DefaultFiles .. MaxFiles
      BY TypesOfTables DEF IInv, TypeOK
    <3> QED
      BY <1>2, <3>1, SizesAssumption DEF Entries, Handles
  <2>2. <<psp, s>> \in References /\ Reachable(<<psp, s>>) /\ refersTo[<<psp, s>>] = Closed
    BY <1>1, <1>2, <2>1, OwnHandle
  <2>3. SetFileHandle(refersTo, s, Closed) = refersTo
    BY <1>2, <2>2, TypesOfTables DEF SetFileHandle, RefTable
  <2>4. <<psp, s>> \in Processes \X (Handles \cap Entries)
    BY <2>1, TypesOfTables
  <2>5. BytesWithout(b)
    BY <1>1, <1>2, <2>2, <2>4, BytesOfTables, NoBlockIsAByte DEF BytesWithout
  <2> QED
    BY <1>1, <2>3, <2>5
<1>3. CASE ~ (s < maxFiles[psp])
  <2>1. SetFileHandle(refersTo, s, Closed) = refersTo
    BY <1>3 DEF SetFileHandle
  <2>2. BytesWithout(b)
    BY <1>1, <1>3, BlockBytesLeft
  <2> QED
    BY <1>1, <2>1, <2>2
<1> QED
  BY <1>2, <1>3

LEMMA OpensAnewStep ==
  ASSUME IInv, Misuses = {}, NEW b \in FcbBlocks, NEW name \in Names,
         refersTo[b] = Closed, FcbOpensAnew(b, name) \/ FcbCreatesAnew(b, name),
         UNCHANGED <<maxFiles, parent, live, psp>>
  PROVE  IInv'
<1>1. PICK s \in Entries :
        /\ FirstFreeEntry(s)
        /\ files' = [files EXCEPT ![s] = Opened(name, FALSE)]
        /\ refersTo' = [refersTo EXCEPT ![b] = s]
        /\ BytesWithout(b)
  <2>1. CASE FcbOpensAnew(b, name)
    BY <2>1, OpensAnewTables
  <2>2. CASE FcbCreatesAnew(b, name)
    BY <2>2, BlockBytesLeft DEF FcbCreatesAnew
  <2> QED
    BY <2>1, <2>2
<1>2. Shifted(files, files', s, 1)
  BY <1>1, TypesOfTables, OpenShifts DEF FirstFreeEntry
<1> QED
  BY <1>1, <1>2, BlockReachable, GiveStep

LEMMA FcbCreateStep ==
  ASSUME IInv, Misuses = {}, NEW b \in FcbBlocks, NEW name \in Names, DOS_FCBCreate(b, name)
  PROVE  IInv'
BY OpensAnewStep DEF DOS_FCBCreate

LEMMA FcbOpenStep ==
  ASSUME IInv, Misuses = {}, NEW b \in FcbBlocks, NEW name \in Names, DOS_FCBOpen(b, name)
  PROVE  IInv'
<1>1. /\ refersTo[b] = Closed
      /\ FcbShares(b, name) \/ FcbOpensAnew(b, name)
      /\ UNCHANGED <<maxFiles, parent, live, psp>>
  BY DEF DOS_FCBOpen
<1>2. CASE FcbShares(b, name)
  <2>1. PICK s \in Entries :
          /\ InUse(s)
          /\ files' = AddRef(files, s)
          /\ refersTo' = [refersTo EXCEPT ![b] = s]
          /\ fcbBytes' = fcbBytes
    BY <1>2 DEF FcbShares
  <2>2. Shifted(files, files', s, 1)
    BY <2>1, TypesOfTables, AddRefShifts DEF InUse
  <2>3. BytesWithout(b)
    BY <2>1, BlockBytesLeft
  <2> QED
    BY <1>1, <2>1, <2>2, <2>3, BlockReachable, GiveStep
<1>3. CASE FcbOpensAnew(b, name)
  BY <1>1, <1>3, OpensAnewStep
<1> QED
  BY <1>1, <1>2, <1>3

LEMMA FcbCloseStep ==
  ASSUME IInv, NEW b \in FcbBlocks, DOS_FCBClose(b)
  PROVE  IInv'
<1> DEFINE s == refersTo[b]
<1>1. /\ s # Closed
      /\ files' = IF InUse(s) THEN RemoveRef(files, s) ELSE files
      /\ refersTo' = [refersTo EXCEPT ![b] = Closed]
      /\ UNCHANGED <<fcbBytes, maxFiles, parent, live, psp>>
  BY DEF DOS_FCBClose
<1>2. s \in Entries /\ files[s] # Unused
  BY <1>1, BlockReachable, TypesOfTables, HeldIsUsed DEF RefTable
<1>3. Shifted(files, files', s, -1)
  BY <1>1, <1>2, TypesOfTables, RemoveRefShifts DEF InUse
<1> HIDE DEF s
<1>4. s = refersTo[b]
  BY DEF s
<1>5. BytesWithout(b)
  BY <1>1, BlockBytesLeft
<1> QED
  BY <1>1, <1>2, <1>3, <1>4, <1>5, BlockReachable, TakeStep

(***************************************************************************)
(* Processes.  Handles are handed over, or closed, all at once.            *)
(***************************************************************************)
LEMMA OwnedCount ==
  ASSUME NEW p, NEW some \in SUBSET Handles
  PROVE  /\ IsFiniteSet({p} \X some) /\ IsFiniteSet(some)
         /\ Cardinality({p} \X some) = Cardinality(some)
         /\ Cardinality(some) \in Nat
         /\ Cardinality(some) = 0 <=> some = {}
<1>1. IsFiniteSet(some)
  BY HandlesFinite, FS_Subset
<1>2. IsFiniteSet({p}) /\ Cardinality({p}) = 1
  BY FS_Singleton
<1>3. Cardinality(some) \in Nat
  BY <1>1, FS_CardinalityType
<1> QED
  BY <1>1, <1>2, <1>3, FS_Product, FS_EmptySet

(* A file that is inherited through n handles is counted n times more.     *)
LEMMA InheritShift ==
  ASSUME NEW f \in FileTable, NEW s \in Entries, NEW n \in Nat, f[s] # Unused
  PROVE  /\ [f[s] EXCEPT !.refs = @ + n] \in [refs : Nat \ {0}, name : Names, private : BOOLEAN]
         /\ [f[s] EXCEPT !.refs = @ + n].refs = f[s].refs + n
<1>1. f[s] \in [refs : Nat \ {0}, name : Names, private : BOOLEAN]
  BY DEF FileTable
<1> QED
  BY <1>1

LEMMA ChildStep ==
  ASSUME IInv, NEW child \in Processes, DOS_ChildPSP(child)
  PROVE  IInv'
<1> DEFINE some == {h \in Handles : Inherited(h)}
           on(s) == HandlesOn(s, some)
<1>1. /\ child \notin live
      /\ files' = [s \in Entries |->
                     IF on(s) = {} THEN files[s]
                     ELSE [files[s] EXCEPT !.refs = @ + Cardinality(on(s))]]
      /\ refersTo' = [r \in References |->
                        IF r \in {child} \X some THEN Byte(r[2])
                        ELSE refersTo[r]]
      /\ parent' = [parent EXCEPT ![child] = psp]
      /\ live' = live \cup {child}
      /\ psp' = child
      /\ UNCHANGED <<fcbBytes, maxFiles>>
  BY DEF DOS_ChildPSP
<1>2. \A h \in some : /\ h < DefaultFiles
                      /\ Byte(h) \in Entries
                      /\ files[Byte(h)] # Unused
  BY DEF Inherited, InUse
<1>3. some \subseteq Handles /\ \A s : on(s) \subseteq Handles /\ on(s) \subseteq some
  BY DEF HandlesOn
<1>4. \A h \in Handles : <<child, h>> \in References /\ refersTo[<<child, h>>] = Closed
  <2> SUFFICES ASSUME NEW h \in Handles, refersTo[<<child, h>>] # Closed PROVE FALSE
    BY DEF References
  <2>1. <<child, h>> \in References
    BY DEF References
  <2>2. Reachable(<<child, h>>)
    BY <2>1 DEF IInv, RefsCounted
  <2>3. <<child, h>> \notin FcbBlocks
    BY OwnersAssumption DEF Handles
  <2> QED
    BY <1>1, <2>2, <2>3 DEF Reachable
<1>5. refersTo' \in RefTable
  <2> SUFFICES ASSUME NEW r \in References PROVE refersTo'[r] \in Entries \cup {Closed}
    BY <1>1 DEF RefTable
  <2> QED
    BY <1>1, <1>2, TypesOfTables DEF RefTable
<1>6. ASSUME NEW s \in Entries
      PROVE  /\ Holders(refersTo', s) = Holders(refersTo, s) \cup ({child} \X on(s))
             /\ Holders(refersTo, s) \cap ({child} \X on(s)) = {}
  <2>1. s # Closed
    BY ClosedIsNone
  <2>2. \A r \in References : r \in {child} \X some => refersTo[r] # s
    BY <1>3, <1>4, <2>1
  <2>3. \A h \in some : <<child, h>> \in References /\ refersTo'[<<child, h>>] = Byte(h)
    BY <1>1, <1>3, <1>4
  <2>4. \A r \in References : r \notin {child} \X some => refersTo'[r] = refersTo[r]
    BY <1>1
  <2>5. on(s) = {h \in some : Byte(h) = s}
    BY DEF HandlesOn
  <2> HIDE DEF some, on
  <2>6. ASSUME NEW r \in References, r \in {child} \X some
        PROVE  r \in Holders(refersTo', s) <=> r \in {child} \X on(s)
    <3>1. PICK h \in some : r = <<child, h>>
      BY <2>6
    <3>2. r \in {child} \X on(s) <=> h \in on(s)
      BY <3>1
    <3> QED
      BY <2>3, <2>5, <3>1, <3>2 DEF Holders
  <2>7. {child} \X on(s) \subseteq {child} \X some /\ {child} \X some \subseteq References
    <3>1. on(s) \subseteq some
      BY <2>5
    <3>2. some \subseteq Handles
      BY <1>3
    <3> QED
      BY <3>1, <3>2 DEF References
  <2>8. \A r \in References : r \notin {child} \X some =>
           (r \in Holders(refersTo', s) <=> r \in Holders(refersTo, s))
    BY <2>4 DEF Holders
  <2>9. \A r \in References : r \in {child} \X some => r \notin Holders(refersTo, s)
    BY <2>2 DEF Holders
  <2>10. Holders(refersTo', s) \subseteq References /\ Holders(refersTo, s) \subseteq References
    BY DEF Holders
  <2> DEFINE A == {child} \X some
             B == {child} \X on(s)
  <2>11. B \subseteq A /\ A \subseteq References
    BY <2>7
  <2>12. \A r \in References : r \in A => (r \in Holders(refersTo', s) <=> r \in B)
    BY <2>6
  <2> HIDE DEF A, B
  <2>13. /\ Holders(refersTo', s) = Holders(refersTo, s) \cup B
         /\ Holders(refersTo, s) \cap B = {}
    BY <2>8, <2>9, <2>10, <2>11, <2>12 DEF A
  <2> QED
    BY <2>13 DEF B
<1> HIDE DEF on
<1>7. ASSUME NEW s \in Entries
      PROVE  Cardinality(Holders(refersTo', s)) = files[s].refs + Cardinality(on(s))
  <2>1. Cardinality(Holders(refersTo', s))
          = Cardinality(Holders(refersTo, s)) + Cardinality({child} \X on(s)) - Cardinality({})
    <3> DEFINE S == Holders(refersTo, s)
               T == {child} \X on(s)
    <3>1. IsFiniteSet(S)
      BY HoldersFinite
    <3>2. on(s) \in SUBSET Handles
      BY <1>3
    <3>3. IsFiniteSet(T)
      BY <3>2, OwnedCount
    <3>4. Holders(refersTo', s) = S \cup T /\ S \cap T = {}
      BY <1>6
    <3> HIDE DEF S, T
    <3>5. Cardinality(S \cup T) = Cardinality(S) + Cardinality(T) - Cardinality(S \cap T)
      BY <3>1, <3>3, FS_Union
    <3> QED
      BY <3>4, <3>5 DEF S, T
  <2>2. Cardinality({child} \X on(s)) = Cardinality(on(s)) /\ Cardinality(on(s)) \in Nat
    BY <1>3, OwnedCount
  <2>3. Cardinality({}) = 0
    BY FS_EmptySet
  <2>4. Cardinality(Holders(refersTo, s)) = files[s].refs
    BY TypesOfTables DEF Counted
  <2> QED
    BY <2>1, <2>2, <2>3, <2>4, HoldersFinite
<1>8. ASSUME NEW s \in Entries
      PROVE  /\ files'[s] \in {Unused} \cup [refs : Nat \ {0}, name : Names, private : BOOLEAN]
             /\ files'[s].refs = Cardinality(Holders(refersTo', s))
             /\ files'[s] # Unused <=> files[s] # Unused
  <2>1. CASE on(s) = {}
    <3>1. files'[s] = files[s] /\ Cardinality(on(s)) = 0
      BY <1>1, <2>1, FS_EmptySet
    <3>2. files[s].refs \in Nat
      BY TypesOfTables, EntryCount
    <3> QED
      BY <1>7, <3>1, <3>2, TypesOfTables DEF FileTable
  <2>2. CASE on(s) # {}
    <3>1. files[s] # Unused
      BY <1>2, <2>2 DEF on, HandlesOn
    <3>2. Cardinality(on(s)) \in Nat
      BY <1>3, OwnedCount
    <3>3. files'[s] = [files[s] EXCEPT !.refs = @ + Cardinality(on(s))]
      BY <1>1, <2>2
    <3>4. /\ files'[s] \in [refs : Nat \ {0}, name : Names, private : BOOLEAN]
          /\ files'[s].refs = files[s].refs + Cardinality(on(s))
      BY <3>1, <3>2, <3>3, TypesOfTables, InheritShift
    <3>5. files'[s].refs # 0 /\ Unused.refs = 0
      BY <3>4 DEF Unused
    <3> QED
      BY <1>7, <3>1, <3>4, <3>5
  <2> QED
    BY <2>1, <2>2
<1>9. files' \in FileTable
  BY <1>1, <1>8 DEF FileTable
<1>10. TypeOK'
  BY <1>1, <1>5, <1>9, TypesOfTables DEF IInv, TypeOK, FileTable, RefTable
<1>11. \A r \in References : refersTo'[r] # Closed => Reachable(r)'
  <2> SUFFICES ASSUME NEW r \in References, refersTo'[r] # Closed PROVE Reachable(r)'
    OBVIOUS
  <2>1. CASE r \in {child} \X some
    <3>1. r[1] = child /\ r[2] < DefaultFiles
      BY <1>2, <2>1
    <3>2. maxFiles[child] = DefaultFiles
      BY <1>1 DEF IInv
    <3> QED
      BY <1>1, <3>1, <3>2 DEF Reachable
  <2>2. CASE r \notin {child} \X some
    <3>1. Reachable(r)
      BY <1>1, <2>2 DEF IInv, RefsCounted
    <3> QED
      BY <1>1, <3>1 DEF Reachable
  <2> QED
    BY <2>1, <2>2
<1>12. RefsCounted'
  BY <1>8, <1>11 DEF RefsCounted
<1>13. ASSUME NEW w \in fcbBytes PROVE Reachable(w)' /\ refersTo'[w] = Closed
  <2>1. w \in References /\ w \notin FcbBlocks /\ Reachable(w) /\ refersTo[w] = Closed
    BY BytesOfTables, NoBlockIsAByte
  <2>2. w[1] \in live
    BY <2>1 DEF Reachable
  <2>3. w \notin {child} \X some
    BY <1>1, <2>2
  <2> QED
    BY <1>1, <2>1, <2>3 DEF Reachable
<1> QED
  BY <1>1, <1>10, <1>12, <1>13 DEF IInv

LEMMA SetPspStep ==
  ASSUME IInv, NEW p \in Processes, SetPSP(p)
  PROVE  IInv'
BY DEF SetPSP, IInv, TypeOK, RefsCounted, Reachable

(* Every handle of a process that ends is closed, whatever is counted, when
   no byte of its table was written for an FCB.                            *)
LEMMA AllCloses ==
  ASSUME IInv, \A g \in Handles : <<psp, g>> \notin fcbBytes, NEW h \in Handles
  PROVE  Closes(psp, h) <=> refersTo[<<psp, h>>] # Closed
<1>1. <<psp, h>> \in References /\ refersTo[<<psp, h>>] \in Entries \cup {Closed}
  BY OwnHandle, TypesOfTables DEF RefTable
<1>2. CASE refersTo[<<psp, h>>] = Closed
  BY <1>2, ClosedIsNone DEF Closes, GetFileHandle, Byte, InUse
<1>3. CASE refersTo[<<psp, h>>] # Closed
  <2> DEFINE s == refersTo[<<psp, h>>]
             upTo == HandlesOn(s, 0 .. h)
  <2>1. s \in Entries /\ files[s] # Unused
    BY <1>1, <1>3, TypesOfTables, HeldIsUsed
  <2>2. h < maxFiles[psp]
    <3>1. Reachable(<<psp, h>>)
      BY <1>1, <1>3 DEF IInv, RefsCounted
    <3>2. <<psp, h>> \notin FcbBlocks
      BY TypesOfTables, OwnersAssumption DEF Handles
    <3> QED
      BY <3>1, <3>2 DEF Reachable
  <2>3. GetFileHandle(h) = s
    BY <2>2 DEF GetFileHandle, Byte
  <2>4. upTo \in SUBSET Handles
    BY SizesAssumption DEF HandlesOn, Handles
  <2>5. {psp} \X upTo \subseteq Holders(refersTo, s)
    <3>1. \A g \in upTo : <<psp, g>> \in References /\ refersTo[<<psp, g>>] = s
      BY <2>4, TypesOfTables DEF HandlesOn, Byte, References
    <3> HIDE DEF upTo, s
    <3> QED
      BY <3>1 DEF Holders
  <2> HIDE DEF upTo, s
  <2>6. Cardinality({psp} \X upTo) <= Cardinality(Holders(refersTo, s))
    BY <2>5, HoldersFinite, FS_Subset
  <2>7. Cardinality(upTo) <= files[s].refs
    BY <2>1, <2>4, <2>6, OwnedCount, TypesOfTables DEF Counted
  <2> QED
    BY <1>3, <2>1, <2>2, <2>3, <2>7 DEF Closes, InUse, upTo, s
<1> QED
  BY <1>2, <1>3

LEMMA ExitShift ==
  ASSUME NEW f \in FileTable, NEW s \in Entries, NEW n \in Nat, n <= f[s].refs
  PROVE  LET e == IF n = 0 THEN f[s]
                  ELSE IF f[s].refs <= n THEN Unused
                  ELSE [f[s] EXCEPT !.refs = @ - n]
         IN  /\ e \in {Unused} \cup [refs : Nat \ {0}, name : Names, private : BOOLEAN]
             /\ e.refs = f[s].refs - n
<1> DEFINE R == [refs : Nat \ {0}, name : Names, private : BOOLEAN]
           e == IF n = 0 THEN f[s]
                ELSE IF f[s].refs <= n THEN Unused
                ELSE [f[s] EXCEPT !.refs = @ - n]
<1>1. f[s] \in {Unused} \cup R /\ f[s].refs \in Nat
  BY EntryCount DEF FileTable
<1>2. CASE n = 0
  BY <1>1, <1>2
<1>3. CASE n # 0 /\ f[s].refs <= n
  <2>1. e = Unused /\ f[s].refs = n
    BY <1>1, <1>3
  <2>2. Unused.refs = 0
    BY DEF Unused
  <2> QED
    BY <2>1, <2>2
<1>4. CASE n # 0 /\ ~ (f[s].refs <= n)
  <2>1. f[s] # Unused
    BY <1>1, <1>4, EntryCount
  <2>2. f[s] \in R
    BY <1>1, <2>1
  <2>3. e = [f[s] EXCEPT !.refs = @ - n]
    BY <1>4
  <2>4. e \in R /\ e.refs = f[s].refs - n
    BY <1>1, <1>4, <2>2, <2>3
  <2> QED
    BY <2>4
<1> QED
  BY <1>2, <1>3, <1>4

(* What an exit leaves of the tables.                                      *)
LEMMA ExitTables ==
  ASSUME IInv, Misuses = {}, NEW p \in Processes, DOS_Terminate(p, FALSE)
  PROVE  /\ p = psp
         /\ files' \in FileTable
         /\ refersTo' = [r \in References |->
                           IF r \in {p} \X Handles THEN Closed ELSE refersTo[r]]
         /\ refersTo' \in RefTable
         /\ Counted(files', refersTo')
<1> DEFINE some == {h \in Handles : Closes(p, h)}
           on(s) == HandlesOn(s, some)
<1>1. /\ p = psp
      /\ files' = [s \in Entries |->
                     IF Cardinality(on(s)) = 0 THEN files[s]
                     ELSE IF files[s].refs <= Cardinality(on(s)) THEN Unused
                     ELSE [files[s] EXCEPT !.refs = @ - Cardinality(on(s))]]
      /\ refersTo' = [r \in References |->
                        IF r \in ({psp} \X some) \cup ({p} \X Handles) THEN Closed
                        ELSE refersTo[r]]
      /\ ~ ClosesMore(some)
  BY DEF DOS_Terminate
<1>2. some \subseteq Handles /\ \A s : on(s) \subseteq Handles
  BY DEF HandlesOn
<1>3. refersTo' = [r \in References |->
                     IF r \in {p} \X Handles THEN Closed ELSE refersTo[r]]
  <2>1. {psp} \X some \subseteq {p} \X Handles
    BY <1>1, <1>2
  <2> QED
    BY <1>1, <2>1
<1>4. refersTo' \in RefTable
  BY <1>3, TypesOfTables DEF RefTable
<1> DEFINE own(s) == {h \in Handles : refersTo[<<p, h>>] = s}
<1>5. ASSUME NEW s \in Entries PROVE Cardinality(on(s)) = Cardinality(own(s))
  <2>1. CASE \A h \in Handles : <<psp, h>> \notin fcbBytes
    <3>1. on(s) = own(s)
      BY <1>1, <2>1, AllCloses, ClosedIsNone DEF HandlesOn, Byte
    <3> QED
      BY <3>1
  <2>2. CASE \E h \in Handles : <<psp, h>> \in fcbBytes
    BY <1>1, <2>2 DEF ClosesMore
  <2> QED
    BY <2>1, <2>2
<1>6. ASSUME NEW s \in Entries
      PROVE  /\ Holders(refersTo', s) = Holders(refersTo, s) \ ({p} \X own(s))
             /\ {p} \X own(s) \subseteq Holders(refersTo, s)
  <2>1. own(s) = {h \in Handles : refersTo[<<p, h>>] = s}
    OBVIOUS
  <2> HIDE DEF own
  <2>2. {p} \X own(s) \subseteq Holders(refersTo, s)
    <3>1. \A h \in own(s) : <<p, h>> \in References /\ refersTo[<<p, h>>] = s
      BY <2>1 DEF References
    <3> QED
      BY <3>1 DEF Holders
  <2>3. ASSUME NEW r \in References
        PROVE  r \in Holders(refersTo', s) <=> r \in Holders(refersTo, s) /\ r \notin {p} \X own(s)
    <3>1. CASE r \in {p} \X Handles
      <4>1. PICK h \in Handles : r = <<p, h>>
        BY <3>1
      <4>2. refersTo'[r] = Closed
        BY <1>3, <3>1
      <4>3. r \notin Holders(refersTo', s)
        BY <4>2, ClosedIsNone DEF Holders
      <4>4. r \in Holders(refersTo, s) => h \in own(s)
        BY <2>1, <4>1 DEF Holders
      <4>5. r \in Holders(refersTo, s) => r \in {p} \X own(s)
        BY <4>1, <4>4
      <4> QED
        BY <4>3, <4>5
    <3>2. CASE r \notin {p} \X Handles
      <4>1. refersTo'[r] = refersTo[r]
        BY <1>3, <3>2
      <4>2. own(s) \subseteq Handles
        BY <2>1
      <4>3. r \notin {p} \X own(s)
        BY <3>2, <4>2
      <4> QED
        BY <4>1, <4>3 DEF Holders
    <3> QED
      BY <3>1, <3>2
  <2>4. Holders(refersTo', s) \subseteq References /\ Holders(refersTo, s) \subseteq References
    BY DEF Holders
  <2> QED
    BY <2>2, <2>3, <2>4
<1> HIDE DEF on, own
<1>7. ASSUME NEW s \in Entries
      PROVE  /\ Cardinality(on(s)) \in Nat
             /\ Cardinality(on(s)) <= files[s].refs
             /\ Cardinality(Holders(refersTo', s)) = files[s].refs - Cardinality(on(s))
  <2> DEFINE S == Holders(refersTo, s)
             T == {p} \X own(s)
  <2>1. own(s) \in SUBSET Handles
    BY DEF own
  <2>2. Cardinality(T) = Cardinality(on(s)) /\ Cardinality(on(s)) \in Nat
    BY <1>5, <2>1, OwnedCount
  <2>3. IsFiniteSet(S) /\ Cardinality(S) = files[s].refs /\ Cardinality(S) \in Nat
    BY HoldersFinite, TypesOfTables DEF Counted
  <2>4. T \subseteq S /\ Holders(refersTo', s) = S \ T
    BY <1>6
  <2> HIDE DEF S, T
  <2>5. Cardinality(T) <= Cardinality(S)
    BY <2>3, <2>4, FS_Subset
  <2>6. S \cap T = T
    BY <2>4
  <2>7. Cardinality(S \ T) = Cardinality(S) - Cardinality(S \cap T)
    BY <2>3, FS_Difference
  <2> QED
    BY <2>2, <2>3, <2>4, <2>5, <2>6, <2>7
<1>8. ASSUME NEW s \in Entries
      PROVE  /\ files'[s] \in {Unused} \cup [refs : Nat \ {0}, name : Names, private : BOOLEAN]
             /\ files'[s].refs = Cardinality(Holders(refersTo', s))
  <2>1. files'[s] = IF Cardinality(on(s)) = 0 THEN files[s]
                    ELSE IF files[s].refs <= Cardinality(on(s)) THEN Unused
                    ELSE [files[s] EXCEPT !.refs = @ - Cardinality(on(s))]
    BY <1>1
  <2> QED
    BY <1>7, <2>1, TypesOfTables, ExitShift
<1>9. files' \in FileTable
  BY <1>1, <1>8 DEF FileTable
<1> QED
  BY <1>1, <1>3, <1>4, <1>8, <1>9 DEF Counted

LEMMA TerminateStep ==
  ASSUME IInv, Misuses = {}, NEW p \in Processes, NEW tsr \in BOOLEAN, DOS_Terminate(p, tsr)
  PROVE  IInv'
<1>1. p \in live /\ parent[p] # p /\ parent[p] \in live /\ p = psp /\ psp' = parent[p]
  BY DEF DOS_Terminate
<1>2. CASE tsr
  <2>1. UNCHANGED <<fcbBytes, maxFiles, parent, live>>
    BY <1>2 DEF DOS_Terminate
  <2>2. files' = [s \in Entries |-> files[s]]
    BY <1>2 DEF DOS_Terminate
  <2>3. refersTo' = [r \in References |-> refersTo[r]]
    BY <1>2 DEF DOS_Terminate
  <2>4. files' = files /\ refersTo' = refersTo
    BY <2>2, <2>3, TypesOfTables DEF FileTable, RefTable
  <2> QED
    BY <1>1, <2>1, <2>4 DEF IInv, TypeOK, RefsCounted, Reachable
<1>3. CASE ~ tsr
  <2>1. DOS_Terminate(p, FALSE)
    BY <1>3
  <2>2. /\ maxFiles' = [maxFiles EXCEPT ![p] = DefaultFiles]
        /\ parent' = [parent EXCEPT ![p] = Root]
        /\ live' = live \ {p}
        /\ fcbBytes' \subseteq fcbBytes \ ({p} \X Handles)
    BY <1>3 DEF DOS_Terminate
  <2>3. DefaultFiles \in DefaultFiles .. MaxFiles
    BY SizesAssumption
  <2>4. TypeOK'
    BY <1>1, <2>1, <2>2, <2>3, ExitTables, OwnersAssumption
       DEF IInv, TypeOK, FileTable, RefTable
  <2>5. \A r \in References : refersTo'[r] # Closed => Reachable(r)'
    <3> SUFFICES ASSUME NEW r \in References, refersTo'[r] # Closed PROVE Reachable(r)'
      OBVIOUS
    <3>1. r \notin {p} \X Handles /\ refersTo'[r] = refersTo[r]
      BY <2>1, ExitTables
    <3>2. Reachable(r)
      BY <3>1 DEF IInv, RefsCounted
    <3>3. CASE r \in FcbBlocks
      BY <3>3 DEF Reachable
    <3>4. CASE r \notin FcbBlocks
      <4>1. r \in Processes \X Handles /\ r[1] \in live /\ r[2] < maxFiles[r[1]]
        BY <3>2, <3>4 DEF Reachable, References
      <4>2. r[1] # p
        BY <3>1, <4>1
      <4> QED
        BY <2>2, <4>1, <4>2 DEF Reachable, IInv, TypeOK
    <3> QED
      BY <3>3, <3>4
  <2>6. RefsCounted'
    BY <2>1, <2>5, ExitTables DEF RefsCounted, Counted
  <2>7. ASSUME NEW w \in fcbBytes' PROVE Reachable(w)' /\ refersTo'[w] = Closed
    <3>1. /\ w \in Processes \X (Handles \cap Entries) /\ w \in References
          /\ Reachable(w) /\ refersTo[w] = Closed /\ w \notin {p} \X Handles
      BY <2>2, BytesOfTables
    <3>2. w \notin FcbBlocks /\ w[1] # p
      BY <3>1, NoBlockIsAByte
    <3>3. w[1] \in live' /\ maxFiles'[w[1]] = maxFiles[w[1]]
      BY <2>2, <3>1, <3>2 DEF Reachable, IInv, TypeOK
    <3> QED
      BY <2>1, <3>1, <3>2, <3>3, ExitTables DEF Reachable
  <2> QED
    BY <1>1, <2>2, <2>4, <2>6, <2>7 DEF IInv, TypeOK
<1> QED
  BY <1>2, <1>3

(* The table of a process grows once, and nothing lies in the part that is
   not copied.                                                             *)
LEMMA SetNumFilesStep ==
  ASSUME IInv, Misuses = {}, NEW n \in HandleCounts, SetNumFiles(n)
  PROVE  IInv' /\ UNCHANGED <<files, refersTo>>
<1> DEFINE asked == IF n < DefaultFiles THEN DefaultFiles ELSE n
           grows == asked > DefaultFiles /\ asked + Spare > maxFiles[psp]
           new == IF grows THEN asked + Spare ELSE asked
<1>1. /\ new <= MaxFiles
      /\ maxFiles[psp] = DefaultFiles
      /\ maxFiles' = [maxFiles EXCEPT ![psp] = new]
      /\ refersTo' = IF grows
                     THEN [r \in References |->
                             IF r \in {psp} \X (DefaultFiles .. MaxFiles - 1) THEN Closed
                             ELSE refersTo[r]]
                     ELSE refersTo
      /\ fcbBytes' \subseteq fcbBytes
      /\ UNCHANGED <<files, parent, live, psp>>
  BY DEF SetNumFiles
<1>2. n \in Nat
  BY SizesAssumption
<1>3. new \in DefaultFiles .. MaxFiles /\ DefaultFiles \in Nat
  BY <1>1, <1>2, SizesAssumption
<1>4. refersTo' = refersTo
  <2>1. \A r \in {psp} \X (DefaultFiles .. MaxFiles - 1) : r \in References /\ refersTo[r] = Closed
    <3> SUFFICES ASSUME NEW h \in DefaultFiles .. MaxFiles - 1
                 PROVE  <<psp, h>> \in References /\ refersTo[<<psp, h>>] = Closed
      OBVIOUS
    <3>1. h \in Handles
      BY SizesAssumption DEF Handles
    <3>2. <<psp, h>> \in References /\ <<psp, h>> \notin FcbBlocks
      BY <3>1, OwnHandle, TypesOfTables, OwnersAssumption DEF Handles
    <3>3. ~ Reachable(<<psp, h>>)
      BY <1>1, <1>3, <3>2 DEF Reachable
    <3> QED
      BY <3>2, <3>3 DEF IInv, RefsCounted
  <2>2. CASE grows
    <3>1. \A r \in References : refersTo'[r] = refersTo[r]
      BY <1>1, <2>1, <2>2
    <3>2. refersTo' = [r \in References |-> refersTo'[r]]
      BY <1>1, <2>2
    <3> QED
      BY <3>1, <3>2, TypesOfTables DEF RefTable
  <2>3. CASE ~ grows
    BY <1>1, <2>3
  <2> QED
    BY <2>2, <2>3
<1> HIDE DEF asked, grows, new
<1>5. TypeOK'
  BY <1>1, <1>3, <1>4 DEF IInv, TypeOK
<1>6. \A p \in Processes : maxFiles'[p] \in Int /\ maxFiles[p] \in Int /\ maxFiles'[p] >= maxFiles[p]
  BY <1>1, <1>3, SizesAssumption DEF IInv, TypeOK
<1>7. \A r \in References : Reachable(r) => Reachable(r)'
  <2> SUFFICES ASSUME NEW r \in References, Reachable(r) PROVE Reachable(r)'
    OBVIOUS
  <2>1. CASE r \in FcbBlocks
    BY <2>1 DEF Reachable
  <2>2. CASE r \notin FcbBlocks
    <3>1. r \in Processes \X Handles /\ r[1] \in live /\ r[2] < maxFiles[r[1]]
      BY <2>2 DEF Reachable, References
    <3>2. r[2] \in Int /\ r[1] \in Processes
      BY <3>1 DEF Handles
    <3>3. r[2] < maxFiles'[r[1]]
      BY <1>6, <3>1, <3>2
    <3> QED
      BY <1>1, <3>1, <3>3 DEF Reachable
  <2> QED
    BY <2>1, <2>2
<1>8. RefsCounted'
  BY <1>1, <1>4, <1>7 DEF IInv, RefsCounted
<1>9. \A p \in Processes \ live' : maxFiles'[p] = DefaultFiles
  BY <1>1 DEF IInv, TypeOK
<1>10. \A w \in fcbBytes' : Reachable(w)' /\ refersTo'[w] = Closed
  BY <1>1, <1>4, <1>7, BytesOfTables
<1> QED
  BY <1>1, <1>4, <1>5, <1>8, <1>9, <1>10 DEF IInv

(***************************************************************************)
(* The invariant holds.                                                    *)
(***************************************************************************)
LEMMA InitInv == Init => IInv
<1> SUFFICES ASSUME Init PROVE IInv
  OBVIOUS
<1>1. TypeOK
  BY SizesAssumption, OwnersAssumption DEF Init, TypeOK
<1>2. \A s \in Entries : Holders(refersTo, s) = {}
  BY ClosedIsNone DEF Init, Holders
<1>3. RefsCounted
  BY <1>2, FS_EmptySet DEF Init, RefsCounted, Unused
<1> QED
  BY <1>1, <1>3 DEF Init, IInv

LEMMA StepInv == Misuses = {} /\ IInv /\ [Next]_vars => IInv'
<1> SUFFICES ASSUME Misuses = {}, IInv, [Next]_vars PROVE IInv'
  OBVIOUS
<1>1. ASSUME NEW name \in Names, NEW private \in BOOLEAN, DOS_OpenFile(name, private) PROVE IInv'
  BY <1>1, OpenStep
<1>2. ASSUME NEW name \in Names, NEW volume \in BOOLEAN, DOS_CreateFile(name, volume) PROVE IInv'
  BY <1>2, CreateStep
<1>3. ASSUME NEW h \in Handles, DOS_CloseFile(h) \/ DOS_DuplicateEntry(h) PROVE IInv'
  BY <1>3, CloseStep, DuplicateStep
<1>4. ASSUME NEW h \in Handles, NEW new \in Handles, DOS_ForceDuplicateEntry(h, new) PROVE IInv'
  BY <1>4, ForceDuplicateStep
<1>5. ASSUME NEW b \in FcbBlocks, NEW name \in Names, DOS_FCBCreate(b, name) \/ DOS_FCBOpen(b, name)
      PROVE  IInv'
  BY <1>5, FcbCreateStep, FcbOpenStep
<1>6. ASSUME NEW b \in FcbBlocks, DOS_FCBClose(b) PROVE IInv'
  BY <1>6, FcbCloseStep
<1>7. ASSUME NEW p \in Processes, DOS_ChildPSP(p) \/ DOS_Execute(p) \/ SetPSP(p) PROVE IInv'
  BY <1>7, ChildStep, SetPspStep DEF DOS_Execute
<1>8. ASSUME NEW p \in Processes, NEW tsr \in BOOLEAN, DOS_Terminate(p, tsr) PROVE IInv'
  BY <1>8, TerminateStep
<1>9. ASSUME NEW n \in HandleCounts, SetNumFiles(n) PROVE IInv'
  BY <1>9, SetNumFilesStep
<1>10. CASE UNCHANGED vars
  BY <1>10 DEF vars, IInv, TypeOK, RefsCounted, Reachable
<1> QED
  BY <1>1, <1>2, <1>3, <1>4, <1>5, <1>6, <1>7, <1>8, <1>9, <1>10 DEF Next

(* Each entry of the table of files is counted by what refers to it, for
   programs that make none of the requests in Misuses.                     *)
THEOREM ReferencesCounted ==
  ASSUME Misuses = {}
  PROVE  Spec => [](TypeOK /\ RefsCounted)
<1>1. Misuses = {}
  OBVIOUS
<1>2. IInv /\ [Next]_vars => IInv'
  BY <1>1, StepInv
<1>3. IInv => TypeOK /\ RefsCounted
  BY DEF IInv
<1> QED
  BY <1>2, <1>3, InitInv, PTL DEF Spec

(***************************************************************************)
(* Counting implements references: each call is a step of FileReferences.  *)
(***************************************************************************)
InTable(f) == {s \in Entries : f[s] # Unused}

LEMMA InTableIsReferred ==
  ASSUME NEW f \in FileTable, NEW t \in RefTable, Counted(f, t)
  PROVE  InTable(f) = Refs!Referred(t)
<1>1. \A s \in Entries : f[s] # Unused <=> \E r \in References : t[r] = s
  BY HeldIsUsed
<1>2. Refs!References = References
  BY DEF Refs!References, References
<1>3. \A r \in References : t[r] \in Entries \cup {Closed}
  BY DEF RefTable
<1> QED
  BY <1>1, <1>2, <1>3, ClosedIsNone DEF InTable, Refs!Referred

LEMMA OpenedIsReferred ==
  ASSUME IInv
  PROVE  InTable(files) = Refs!Referred(refersTo)
BY TypesOfTables, InTableIsReferred

LEMMA OpenedIsReferredAfter ==
  ASSUME IInv'
  PROVE  InTable(files') = Refs!Referred(refersTo')
<1>1. files' \in FileTable /\ refersTo' \in RefTable /\ Counted(files', refersTo')
  BY DEF IInv, TypeOK, FileTable, RefTable, RefsCounted, Counted
<1> QED
  BY <1>1, InTableIsReferred

LEMMA SameReferences == Refs!References = References
BY DEF Refs!References, References

(* One entry that was free is opened for one reference.                    *)
LEMMA AbstractOpen ==
  ASSUME IInv, NEW r \in References, refersTo[r] = Closed,
         NEW s \in Entries, files[s] = Unused,
         NEW e, e # Unused, files' = [files EXCEPT ![s] = e],
         refersTo' = [refersTo EXCEPT ![r] = s]
  PROVE  Refs!Next
<1>1. InTable(files') = InTable(files) \cup {s} /\ s \notin InTable(files)
  BY TypesOfTables DEF InTable, FileTable
<1>2. Refs!Open(r, s)
  BY <1>1 DEF Refs!Open, InTable
<1> QED
  BY <1>2, SameReferences DEF Refs!Next

LEMMA OpenedUsed ==
  ASSUME NEW name, NEW private
  PROVE  Opened(name, private) # Unused
<1>1. Opened(name, private).refs = 1 /\ Unused.refs = 0
  BY DEF Opened, Unused
<1> QED
  BY <1>1

LEMMA AbstractDuplicate ==
  ASSUME IInv', NEW r \in References, NEW q \in References, refersTo[q] # Closed,
         refersTo' = [refersTo EXCEPT ![r] = refersTo[q]]
  PROVE  Refs!Next
<1>1. InTable(files') = Refs!Referred(refersTo')
  BY OpenedIsReferredAfter
<1>2. Refs!Duplicate(r, q)
  BY <1>1 DEF Refs!Duplicate, InTable
<1> QED
  BY <1>2, SameReferences DEF Refs!Next

LEMMA AbstractClose ==
  ASSUME IInv', NEW r \in References, refersTo' = [refersTo EXCEPT ![r] = Closed]
  PROVE  Refs!Next
<1>1. InTable(files') = Refs!Referred(refersTo')
  BY OpenedIsReferredAfter
<1>2. Refs!Close(r)
  BY <1>1 DEF Refs!Close, InTable
<1> QED
  BY <1>2, SameReferences DEF Refs!Next

LEMMA AbstractOpenCalls ==
  ASSUME IInv, NEW name \in Names, NEW flag \in BOOLEAN, Misuses = {},
         DOS_OpenFile(name, flag) \/ DOS_CreateFile(name, flag)
  PROVE  Refs!Next
<1>1. PICK s \in Entries, g \in Handles :
        /\ FirstFreeEntry(s) /\ FindFreeFileEntry(g)
        /\ \E e : e # Unused /\ files' = [files EXCEPT ![s] = e]
        /\ refersTo' = SetFileHandle(refersTo, g, s)
  <2>1. CASE DOS_OpenFile(name, flag)
    <3>1. PICK s \in Entries, g \in Handles :
            /\ FirstFreeEntry(s) /\ FindFreeFileEntry(g)
            /\ files' = [files EXCEPT ![s] = Opened(name, flag)]
            /\ refersTo' = SetFileHandle(refersTo, g, s)
      BY <2>1 DEF DOS_OpenFile
    <3> QED
      BY <3>1, OpenedUsed
  <2>2. CASE DOS_CreateFile(name, flag)
    <3>1. PICK s \in Entries, g \in Handles :
            /\ FirstFreeEntry(s) /\ FindFreeFileEntry(g)
            /\ files' = [files EXCEPT ![s] = Opened(name, FALSE)]
            /\ refersTo' = SetFileHandle(refersTo, g, s)
      BY <2>2 DEF DOS_CreateFile
    <3> QED
      BY <3>1, OpenedUsed
  <2> QED
    BY <2>1, <2>2
<1>2. refersTo' = [refersTo EXCEPT ![<<psp, g>>] = s]
  BY <1>1 DEF SetFileHandle, FindFreeFileEntry
<1>3. PICK e : e # Unused /\ files' = [files EXCEPT ![s] = e]
  BY <1>1
<1>4. files[s] = Unused /\ refersTo[<<psp, g>>] = Closed /\ <<psp, g>> \in References
  BY <1>1, OwnHandle, FreeHandle DEF FirstFreeEntry
<1> QED
  BY <1>2, <1>3, <1>4, AbstractOpen

LEMMA AbstractHandleClose ==
  ASSUME IInv, IInv', Misuses = {}, NEW h \in Handles, DOS_CloseFile(h)
  PROVE  Refs!Next
<1>1. InUse(GetFileHandle(h)) /\ Given(h) /\ refersTo' = SetFileHandle(refersTo, h, Closed)
  BY DEF DOS_CloseFile
<1>2. refersTo' = [refersTo EXCEPT ![<<psp, h>>] = Closed]
  BY <1>1, HandleInUse DEF SetFileHandle
<1> QED
  BY <1>2, OwnHandle, AbstractClose

LEMMA AbstractHandleCopy ==
  ASSUME IInv, IInv', Misuses = {}, NEW h \in Handles, NEW g \in Handles,
         DOS_DuplicateEntry(h) \/ DOS_ForceDuplicateEntry(h, g)
  PROVE  Refs!Next
<1>1. InUse(GetFileHandle(h)) /\ Given(h)
  BY DEF DOS_DuplicateEntry, DOS_ForceDuplicateEntry
<1>2. PICK new \in Handles : refersTo' = [refersTo EXCEPT ![<<psp, new>>] = GetFileHandle(h)]
  <2>1. CASE DOS_DuplicateEntry(h)
    <3>1. PICK new \in Handles :
            /\ FindFreeFileEntry(new)
            /\ refersTo' = SetFileHandle(refersTo, new, GetFileHandle(h))
      BY <2>1 DEF DOS_DuplicateEntry
    <3> QED
      BY <3>1 DEF SetFileHandle, FindFreeFileEntry
  <2>2. CASE DOS_ForceDuplicateEntry(h, g)
    <3>1. g < maxFiles[psp] /\ refersTo' = SetFileHandle(refersTo, g, GetFileHandle(h))
      BY <2>2 DEF DOS_ForceDuplicateEntry
    <3> QED
      BY <3>1 DEF SetFileHandle
  <2> QED
    BY <2>1, <2>2
<1>3. refersTo[<<psp, h>>] = GetFileHandle(h) /\ refersTo[<<psp, h>>] # Closed
  BY <1>1, HandleInUse, ClosedIsNone
<1> QED
  BY <1>2, <1>3, OwnHandle, AbstractDuplicate

LEMMA AbstractBlockCalls ==
  ASSUME IInv, IInv', Misuses = {}, NEW b \in FcbBlocks, NEW name \in Names,
         DOS_FCBCreate(b, name) \/ DOS_FCBOpen(b, name)
  PROVE  Refs!Next
<1>1. ASSUME FcbOpensAnew(b, name) \/ FcbCreatesAnew(b, name), refersTo[b] = Closed
      PROVE  Refs!Next
  <2>1. PICK s \in Entries :
          /\ FirstFreeEntry(s)
          /\ files' = [files EXCEPT ![s] = Opened(name, FALSE)]
          /\ refersTo' = [refersTo EXCEPT ![b] = s]
    BY <1>1, OpensAnewTables DEF FcbCreatesAnew
  <2> QED
    BY <1>1, <2>1, BlockReachable, OpenedUsed, AbstractOpen DEF FirstFreeEntry
<1>2. CASE DOS_FCBCreate(b, name)
  BY <1>2, <1>1 DEF DOS_FCBCreate
<1>3. CASE DOS_FCBOpen(b, name)
  <2>1. CASE FcbShares(b, name)
    <3>1. PICK s \in Entries : InUse(s) /\ refersTo' = [refersTo EXCEPT ![b] = s]
      BY <2>1 DEF FcbShares
    <3>2. PICK q \in References : refersTo[q] = s
      BY <3>1, TypesOfTables, HeldIsUsed DEF InUse
    <3> QED
      BY <3>1, <3>2, ClosedIsNone, BlockReachable, AbstractDuplicate
  <2>2. CASE FcbOpensAnew(b, name)
    BY <1>3, <1>1, <2>2 DEF DOS_FCBOpen
  <2> QED
    BY <1>3, <2>1, <2>2 DEF DOS_FCBOpen
<1> QED
  BY <1>2, <1>3

LEMMA AbstractBlockClose ==
  ASSUME IInv', NEW b \in FcbBlocks, DOS_FCBClose(b)
  PROVE  Refs!Next
BY AbstractClose DEF DOS_FCBClose, References

LEMMA AbstractChild ==
  ASSUME IInv, IInv', NEW child \in Processes, DOS_ChildPSP(child)
  PROVE  Refs!Next
<1> DEFINE some == {h \in Handles : Inherited(h)}
<1>1. /\ child \notin live
      /\ refersTo' = [r \in References |->
                        IF r \in {child} \X some THEN Byte(r[2])
                        ELSE refersTo[r]]
  BY DEF DOS_ChildPSP
<1>2. ASSUME NEW h \in Handles PROVE <<child, h>> \in References /\ refersTo[<<child, h>>] = Closed
  <2>1. <<child, h>> \in References /\ <<child, h>> \notin FcbBlocks
    BY OwnersAssumption DEF References, Handles
  <2>2. ~ Reachable(<<child, h>>)
    BY <1>1, <2>1 DEF Reachable
  <2> QED
    BY <2>1, <2>2 DEF IInv, RefsCounted
<1>3. Refs!Referred(refersTo') = Refs!Referred(refersTo)
  <2>1. ASSUME NEW r \in References
        PROVE  \E q \in References : refersTo'[r] = refersTo[q]
    <3>1. CASE r \in {child} \X some
      <4>1. refersTo'[r] \in Entries /\ files[refersTo'[r]] # Unused
        BY <1>1, <3>1 DEF Inherited, InUse
      <4> QED
        BY <4>1, TypesOfTables, HeldIsUsed
    <3>2. CASE r \notin {child} \X some
      BY <1>1, <3>2
    <3> QED
      BY <3>1, <3>2
  <2>2. ASSUME NEW r \in References, refersTo[r] # Closed
        PROVE  refersTo'[r] = refersTo[r]
    <3>1. r \notin {child} \X some
      BY <1>2, <2>2
    <3> QED
      BY <1>1, <3>1
  <2> QED
    BY <2>1, <2>2, SameReferences DEF Refs!Referred
<1>4. InTable(files') = InTable(files)
  BY <1>3, OpenedIsReferred, OpenedIsReferredAfter
<1> DEFINE given == [h \in Handles |-> refersTo'[<<child, h>>]]
<1>5. ASSUME NEW h \in Handles
      PROVE  /\ given[h] \in InTable(files) \cup {Closed}
             /\ refersTo[<<psp, h>>] # Closed => given[h] \in {refersTo[<<psp, h>>], Closed}
  <2>1. CASE h \in some
    <3>1. given[h] = Byte(h)
      BY <1>1, <1>2, <2>1
    <3>2. Byte(h) \in Entries /\ files[Byte(h)] # Unused
      BY <2>1 DEF Inherited, InUse
    <3>3. refersTo[<<psp, h>>] # Closed => Byte(h) = refersTo[<<psp, h>>]
      BY BytesOfTables DEF Byte
    <3> QED
      BY <3>1, <3>2, <3>3 DEF InTable
  <2>2. CASE h \notin some
    <3>1. given[h] = refersTo[<<child, h>>]
      BY <1>1, <1>2, <2>2
    <3> QED
      BY <1>2, <3>1
  <2> QED
    BY <2>1, <2>2
<1>6. given \in [Handles -> InTable(files) \cup {Closed}]
  BY <1>5
<1>7. refersTo' = [r \in References |->
                     IF r \in {child} \X Handles THEN given[r[2]] ELSE refersTo[r]]
  <2>1. ASSUME NEW r \in References
        PROVE  refersTo'[r] = IF r \in {child} \X Handles THEN given[r[2]] ELSE refersTo[r]
    <3>1. CASE r \in {child} \X Handles
      BY <3>1
    <3>2. CASE r \notin {child} \X Handles
      <4>1. r \notin {child} \X some
        BY <3>2
      <4> QED
        BY <1>1, <3>2, <4>1
    <3> QED
      BY <3>1, <3>2
  <2> HIDE DEF given, some
  <2> QED
    BY <1>1, <2>1
<1> HIDE DEF given, some
<1>8. \A h \in Handles : refersTo[<<child, h>>] = Closed
  BY <1>2
<1>9. Refs!Inherit(psp, child)
  BY <1>4, <1>5, <1>6, <1>7, <1>8, SameReferences DEF Refs!Inherit, InTable
<1> QED
  BY <1>9, TypesOfTables DEF Refs!Next

LEMMA AbstractExit ==
  ASSUME IInv, IInv', Misuses = {}, NEW p \in Processes, NEW tsr \in BOOLEAN,
         DOS_Terminate(p, tsr)
  PROVE  Refs!Next \/ (files' = files /\ refersTo' = refersTo)
<1>1. CASE tsr
  <2>1. files' = [s \in Entries |-> files[s]]
    BY <1>1 DEF DOS_Terminate
  <2>2. refersTo' = [r \in References |-> refersTo[r]]
    BY <1>1 DEF DOS_Terminate
  <2> QED
    BY <2>1, <2>2, TypesOfTables DEF FileTable, RefTable
<1>2. CASE ~ tsr
  <2>1. DOS_Terminate(p, FALSE)
    BY <1>2
  <2>2. refersTo' = [r \in References |-> IF r \in {p} \X Handles THEN Closed ELSE refersTo[r]]
    BY <2>1, ExitTables
  <2>3. InTable(files') = Refs!Referred(refersTo')
    BY OpenedIsReferredAfter
  <2>4. Refs!Exit(p)
    BY <2>2, <2>3, SameReferences DEF Refs!Exit, InTable
  <2> QED
    BY <2>4 DEF Refs!Next
<1> QED
  BY <1>1, <1>2

LEMMA AbstractInit == Init => Refs!Init
<1> SUFFICES ASSUME Init PROVE Refs!Init
  OBVIOUS
<1>1. {s \in Entries : files[s] # Unused} = {}
  BY DEF Init
<1> QED
  BY <1>1, SameReferences DEF Init, Refs!Init

LEMMA AbstractStep ==
  Misuses = {} /\ IInv /\ IInv' /\ [Next]_vars
    => [Refs!Next]_<<refersTo, {s \in Entries : files[s] # Unused}>>
<1> SUFFICES ASSUME Misuses = {}, IInv, IInv', [Next]_vars
             PROVE  Refs!Next \/ (files' = files /\ refersTo' = refersTo)
  OBVIOUS
<1>1. ASSUME NEW name \in Names, NEW flag \in BOOLEAN,
             DOS_OpenFile(name, flag) \/ DOS_CreateFile(name, flag)
      PROVE  Refs!Next
  BY <1>1, AbstractOpenCalls
<1>2. ASSUME NEW h \in Handles, DOS_CloseFile(h) PROVE Refs!Next
  BY <1>2, AbstractHandleClose
<1>3. ASSUME NEW h \in Handles, DOS_DuplicateEntry(h) PROVE Refs!Next
  BY <1>3, AbstractHandleCopy
<1>4. ASSUME NEW h \in Handles, NEW new \in Handles, DOS_ForceDuplicateEntry(h, new)
      PROVE  Refs!Next
  BY <1>4, AbstractHandleCopy
<1>5. ASSUME NEW b \in FcbBlocks, NEW name \in Names, DOS_FCBCreate(b, name) \/ DOS_FCBOpen(b, name)
      PROVE  Refs!Next
  BY <1>5, AbstractBlockCalls
<1>6. ASSUME NEW b \in FcbBlocks, DOS_FCBClose(b) PROVE Refs!Next
  BY <1>6, AbstractBlockClose
<1>7. ASSUME NEW p \in Processes, DOS_ChildPSP(p) \/ DOS_Execute(p) PROVE Refs!Next
  BY <1>7, AbstractChild DEF DOS_Execute
<1>8. ASSUME NEW p \in Processes, SetPSP(p) PROVE files' = files /\ refersTo' = refersTo
  BY <1>8 DEF SetPSP
<1>9. ASSUME NEW p \in Processes, NEW tsr \in BOOLEAN, DOS_Terminate(p, tsr)
      PROVE  Refs!Next \/ (files' = files /\ refersTo' = refersTo)
  BY <1>9, AbstractExit
<1>10. ASSUME NEW n \in HandleCounts, SetNumFiles(n) PROVE files' = files /\ refersTo' = refersTo
  BY <1>10, SetNumFilesStep
<1>11. CASE UNCHANGED vars
  BY <1>11 DEF vars
<1> QED
  BY <1>1, <1>2, <1>3, <1>4, <1>5, <1>6, <1>7, <1>8, <1>9, <1>10, <1>11 DEF Next

(* What DosFiles counts is what FileReferences promises, for the same
   programs.                                                               *)
THEOREM CountingImplements ==
  ASSUME Misuses = {}
  PROVE  Spec => KeepsReferences
<1>1. Misuses = {}
  OBVIOUS
<1>2. IInv /\ [Next]_vars => IInv'
  BY <1>1, StepInv
<1>3. IInv /\ IInv' /\ [Next]_vars
        => [Refs!Next]_<<refersTo, {s \in Entries : files[s] # Unused}>>
  BY <1>1, AbstractStep
<1> QED
  BY <1>2, <1>3, InitInv, AbstractInit, PTL DEF Spec, KeepsReferences, Refs!Spec

=============================================================================
