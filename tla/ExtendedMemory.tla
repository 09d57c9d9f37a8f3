--------------------------- MODULE ExtendedMemory ---------------------------
(***************************************************************************)
(* Extended memory as programs share it: XMS blocks (src/ints/xms.cpp),    *)
(* EMS handles and VCPI pages (src/ints/ems.cpp), all out of one table of  *)
(* pages (PageHandles).  XMS blocks are pages in a row and are moved, with *)
(* their contents, when they cannot grow; EMS handles are gathered from    *)
(* wherever pages are free.                                                *)
(*                                                                         *)
(* Each program fills every page it is given at once, so that the contents *)
(* of a page tell whose it is.                                             *)
(***************************************************************************)
EXTENDS PageHandles

CONSTANTS
  XmsHandles,  \* 1 .. XMS_HANDLES - 1
  EmsHandles,  \* 1 .. EMM_MAX_HANDLES - 1
  PerEmsPage,  \* pages of memory in one of EMS (4)
  MaxLock,     \* what a lock count goes up to (255)
  XmsSizes,    \* sizes in KB that programs give XMS blocks
  Strays,      \* TRUE if programs use stray XMS handles as the code does not foresee
  EmsSizes     \* sizes in EMS pages that programs give EMS handles

Unused == -1   \* NULL_HANDLE

ASSUME HandlesAssumption ==
  /\ XmsHandles \subseteq Nat \ {0} /\ EmsHandles \subseteq Nat \ {0}
  /\ {PerEmsPage, MaxLock} \subseteq Nat \ {0}
  /\ XmsSizes \subseteq Nat /\ EmsSizes \subseteq Nat
  /\ Strays \in BOOLEAN

VARIABLES
  table,    \* memory.mhandles
  xms,      \* xms_handles
  emm,      \* emm_handles
  vcpi,     \* pages that VCPI clients hold
  content,  \* what a page holds: whose it is and which of theirs
  stopped   \* the E_Exit that ended the emulator, or "no"

vars == <<table, xms, emm, vcpi, content, stopped>>

PagesFor(size) == (size + 3) \div 4

Fill(c, kind, h, pages, from) ==
  [p \in Memory |->
     IF \E i \in from .. Len(pages) : pages[i] = p
       THEN <<kind, h, CHOOSE i \in from .. Len(pages) : pages[i] = p>> ELSE c[p]]

(* MEM_BlockCopy of pages in a row *)
Copied(c, to, from, n) ==
  [p \in Memory |-> IF p \in to .. to + n - 1 THEN c[from + p - to] ELSE c[p]]
-----------------------------------------------------------------------------
FreeXms == {h \in XmsHandles : xms[h].free}

XMS_AllocateMemory(size) ==
  LET h     == Min(FreeXms)
      pages == MEM_AllocatePages(table, PagesFor(size), TRUE)
      mem   == IF size = 0 THEN MEM_GetNextFreePage(table) ELSE pages[1]
  IN  /\ FreeXms # {}
      /\ size # 0 => pages # <<>>
      /\ table' = Linked(table, pages)
      /\ xms' = [xms EXCEPT ![h] = [free |-> FALSE, mem |-> mem, size |-> size, locked |-> 0]]
      /\ content' = Fill(content, "xms", h, pages, 1)
      /\ UNCHANGED <<emm, vcpi, stopped>>

(***************************************************************************)
(* A block of no size names the page that was free when it was allocated,  *)
(* but is not given it.  The drivers then treat that page as a block of    *)
(* one page, which goes wrong if it has become somebody else's, if it is   *)
(* all that the block is resized to (nothing seems to change, so it is not *)
(* taken), or if the block moves over it (it is released after the move).  *)
(***************************************************************************)
Strayed(h, pages) ==
  LET page == xms[h].mem
  IN  /\ xms[h].size = 0 /\ page > 0
      /\ \/ table[page] # FreePage
         \/ pages = <<page>>
         \/ \E i \in 2 .. Len(pages) : pages[i] = page

XMS_FreeMemory(h) ==
  /\ ~xms[h].free /\ xms[h].locked = 0
  /\ Strayed(h, <<>>) => Strays
  /\ table' = MEM_ReleasePages(table, xms[h].mem)
  /\ xms' = [xms EXCEPT ![h] = [free |-> TRUE, mem |-> LastPage, size |-> 0, locked |-> 0]]
  /\ UNCHANGED <<emm, vcpi, content, stopped>>

XMS_ResizeMemory(h, size) ==
  LET old   == xms[h].mem
      n     == PagesFor(size)
      had   == PagesFor(xms[h].size)
      moved(pages) == old > 0 /\ pages[1] # old
  IN  /\ ~xms[h].free /\ xms[h].locked = 0
      /\ \E pages \in {Reallocated(table, old, n, TRUE)} :
           \/ /\ n > 0 /\ pages # <<>> /\ (Strayed(h, pages) => Strays)
              /\ table' = MEM_ReAllocatePages(table, old, pages)
              /\ xms' = [xms EXCEPT ![h].mem = pages[1], ![h].size = size]
              /\ content' = Fill(IF moved(pages)
                                   THEN Copied(content, pages[1], old, Len(PagesOf(table, old)))
                                   ELSE content,
                                 "xms", h, pages, had + 1)
           \/ /\ n = 0 /\ (Strayed(h, <<>>) => Strays)
              /\ table' = MEM_ReleasePages(table, old)
              /\ xms' = [xms EXCEPT ![h].mem = IF old > 0 THEN LastPage ELSE old, ![h].size = size]
              /\ UNCHANGED content
           \/ /\ n > 0 /\ pages = <<>>
              /\ xms' = [xms EXCEPT ![h].mem = IF old > 0 THEN old ELSE None]
              /\ UNCHANGED <<table, content>>
      /\ UNCHANGED <<emm, vcpi, stopped>>

XMS_LockMemory(h) ==
  /\ ~xms[h].free
  /\ xms' = [xms EXCEPT ![h].locked = Min({@ + 1, MaxLock})]
  /\ UNCHANGED <<table, emm, vcpi, content, stopped>>

XMS_UnlockMemory(h) ==
  /\ ~xms[h].free /\ xms[h].locked > 0
  /\ xms' = [xms EXCEPT ![h].locked = @ - 1]
  /\ UNCHANGED <<table, emm, vcpi, content, stopped>>
-----------------------------------------------------------------------------
FreeEms == {h \in EmsHandles : emm[h].pages = Unused}

(* mutant: pages of memory are taken for pages of EMS *)
EMM_GetFreePages_4K == MEM_FreeTotal(table)

EMM_GetFreePages == MEM_FreeTotal(table) \div PerEmsPage

(* function 43h, and 5Ah, which allows handles without pages *)
EMM_AllocateMemory(size) ==
  LET h == Min(FreeEms)
  IN  /\ EMM_GetFreePages >= size /\ FreeEms # {}
      /\ \E pages \in {MEM_AllocatePages(table, size * PerEmsPage, FALSE)} :
           IF Len(pages) = size * PerEmsPage
             THEN /\ table' = Linked(table, pages)
                  /\ emm' = [emm EXCEPT ![h] = [pages |-> size,
                                                mem |-> IF size = 0 THEN None ELSE pages[1]]]
                  /\ content' = Fill(content, "ems", h, pages, 1)
                  /\ UNCHANGED stopped
             ELSE /\ stopped' = "allocation"
                  /\ UNCHANGED <<table, emm, content>>
      /\ UNCHANGED <<xms, vcpi>>

EMM_ReallocatePages(h, size) ==
  LET had == emm[h].pages
      n   == size * PerEmsPage
  IN  /\ had # Unused
      /\ \E pages \in {IF had = 0 THEN MEM_AllocatePages(table, n, FALSE)
                                  ELSE Reallocated(table, emm[h].mem, n, FALSE)} :
           \/ /\ had # 0 /\ (n = 0 \/ pages # <<>>)
              /\ table' = IF n = 0 THEN MEM_ReleasePages(table, emm[h].mem)
                                   ELSE MEM_ReAllocatePages(table, emm[h].mem, pages)
              /\ emm' = [emm EXCEPT ![h] = [pages |-> size,
                                            mem |-> IF n = 0 THEN LastPage ELSE pages[1]]]
              /\ content' = Fill(content, "ems", h, pages, had * PerEmsPage + 1)
              /\ UNCHANGED stopped
           \/ /\ had = 0 /\ pages # <<>>
              /\ table' = Linked(table, pages)
              /\ emm' = [emm EXCEPT ![h] = [pages |-> size, mem |-> pages[1]]]
              /\ content' = Fill(content, "ems", h, pages, 1)
              /\ UNCHANGED stopped
           \/ /\ had = 0 /\ pages = <<>>
              /\ stopped' = "reallocation"
              /\ UNCHANGED <<table, emm, content>>
      /\ UNCHANGED <<xms, vcpi>>

EMM_ReleaseMemory(h) ==
  /\ emm[h].pages # Unused
  /\ table' = IF emm[h].pages # 0 THEN MEM_ReleasePages(table, emm[h].mem) ELSE table
  /\ emm' = [emm EXCEPT ![h] = [pages |-> Unused, mem |-> None]]
  /\ UNCHANGED <<xms, vcpi, content, stopped>>

VCPI_AllocatePage ==
  LET pages == MEM_AllocatePages(table, 1, FALSE)
  IN  /\ pages # <<>>
      /\ table' = Linked(table, pages)
      /\ vcpi' = vcpi \cup {pages[1]}
      /\ content' = Fill(content, "vcpi", pages[1], pages, 1)
      /\ UNCHANGED <<xms, emm, stopped>>

VCPI_FreePage(p) ==
  /\ table' = MEM_ReleasePages(table, p)
  /\ vcpi' = vcpi \ {p}
  /\ UNCHANGED <<xms, emm, content, stopped>>
-----------------------------------------------------------------------------
Init ==
  /\ table = [p \in Words |-> IF p = Pages + Past + 1 THEN LastPage ELSE FreePage]
  /\ xms = [h \in XmsHandles |-> [free |-> TRUE, mem |-> LastPage, size |-> 0, locked |-> 0]]
  /\ emm = [h \in EmsHandles |-> [pages |-> Unused, mem |-> None]]
  /\ vcpi = {}
  /\ content = [p \in Memory |-> <<>>]
  /\ stopped = "no"

Step ==
  \/ \E size \in XmsSizes : XMS_AllocateMemory(size)
  \/ \E h \in XmsHandles : XMS_FreeMemory(h)
  \/ \E h \in XmsHandles, size \in XmsSizes : XMS_ResizeMemory(h, size)
  \/ \E h \in XmsHandles : XMS_LockMemory(h) \/ XMS_UnlockMemory(h)
  \/ \E size \in EmsSizes : EMM_AllocateMemory(size)
  \/ \E h \in EmsHandles, size \in EmsSizes : EMM_ReallocatePages(h, size)
  \/ \E h \in EmsHandles : EMM_ReleaseMemory(h)
  \/ VCPI_AllocatePage
  \/ \E p \in vcpi : VCPI_FreePage(p)

Next == stopped = "no" /\ Step

Spec == Init /\ [][Next]_vars
-----------------------------------------------------------------------------
TypeOK ==
  /\ table \in [Words -> {LastPage, FreePage} \cup Words]
  /\ \A h \in XmsHandles :
       /\ xms[h].free \in BOOLEAN /\ xms[h].mem \in {LastPage, None} \cup Memory
       /\ xms[h].size \in Nat /\ xms[h].locked \in 0 .. MaxLock
  /\ \A h \in EmsHandles :
       emm[h].pages \in Nat \cup {Unused} /\ emm[h].mem \in {LastPage, None} \cup Words
  /\ vcpi \subseteq Words
  /\ stopped \in {"no", "allocation", "reallocation"}

(* the blocks programs hold: whose, where, and how many pages they think it has *)
Held ==
  {<<"xms", h, xms[h].mem, PagesFor(xms[h].size)>> : h \in {g \in XmsHandles : xms[g].size > 0}}
    \cup {<<"ems", h, emm[h].mem, emm[h].pages * PerEmsPage>> :
            h \in {g \in EmsHandles : emm[g].pages > 0}}
    \cup {<<"vcpi", p, p, 1>> : p \in vcpi}

(***************************************************************************)
(* What a program puts into a page of a block is what it finds there,      *)
(* however other blocks come and go and however often its own is resized   *)
(* and moved: no page has two owners, and moves take along what they must. *)
(***************************************************************************)
DataKept ==
  \A b \in Held :
    LET pages == PagesOf(table, b[3])
    IN  /\ Len(pages) = b[4]
        /\ \A i \in 1 .. Len(pages) : pages[i] \in Memory /\ content[pages[i]] = <<b[1], b[2], i>>

(* No page is lost: each page taken in the table belongs to a block held,  *)
(* so that all memory can be had again when programs free what they hold.  *)
NoPageLost ==
  {p \in Memory : table[p] # FreePage} =
    UNION {{PagesOf(table, b[3])[i] : i \in 1 .. b[4]} : b \in Held}

(* The linear address that a lock returns holds for the whole XMS block:   *)
(* its pages are in a row after any sequence of resizes.                   *)
XmsInARow ==
  \A h \in XmsHandles :
    xms[h].size > 0 =>
      PagesOf(table, xms[h].mem)
        = [i \in 1 .. PagesFor(xms[h].size) |-> xms[h].mem + i - 1]

(* EMM_AllocateMemory checks that there are enough pages before it takes   *)
(* any, so its "EMS:Memory allocation failure" and the "corruption during  *)
(* allocate" of MEM_AllocatePages never end the emulator.                  *)
AllocationSucceeds == stopped # "allocation"
=============================================================================
