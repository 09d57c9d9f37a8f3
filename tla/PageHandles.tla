---------------------------- MODULE PageHandles ----------------------------
(***************************************************************************)
(* The page allocator under XMS and EMS (src/hardware/memory.cpp): every   *)
(* page of extended memory has a word that is 0 while the page is free, -1 *)
(* at the end of a block, and else the number of the block's next page; a  *)
(* handle is the number of a block's first page.  Operators take such a    *)
(* table and return what the functions return and the table they leave.    *)
(***************************************************************************)
EXTENDS Integers, Sequences, FiniteSetsExt

CONSTANTS
  Pages, \* reported_pages - XMS_START
  Past   \* words behind the table that are 0, the next is not: what happens to lie
         \* there, or the words that MEM_cut_RAM_up_to took off the table

ASSUME PagesAssumption == Pages \in Nat \ {0} /\ Past \in Nat

FreePage == 0
LastPage == -1
None     == 0  \* no page: what an allocation that fails returns

Memory == 1 .. Pages            \* page 1 stands for XMS_START
Words  == 1 .. Pages + Past + 1

(* MEM_NextHandle repeatedly: the pages of a block in order *)
PagesOf(t, handle) ==
  LET upto[n \in 0 .. Pages + Past] ==
        IF n = 0 THEN IF handle > 0 THEN <<handle>> ELSE <<>>
        ELSE LET s == upto[n - 1]
             IN  IF Len(s) = n /\ t[s[n]] > 0 THEN Append(s, t[s[n]]) ELSE s
  IN  upto[Pages + Past]

FreePages(t) == {p \in Memory : t[p] = FreePage}

(* the maximal runs of free pages, as <<first, length>> *)
Runs(t) ==
  {<<r[1], r[2] - r[1] + 1>> : r \in
     {q \in Memory \X Memory :
        /\ q[1] <= q[2] /\ q[1] .. q[2] \subseteq FreePages(t)
        /\ {q[1] - 1, q[2] + 1} \cap FreePages(t) = {}}}

MEM_FreeTotal(t) == Cardinality(FreePages(t))

MEM_FreeLargest(t) == Max({0} \cup {r[2] : r \in Runs(t)})

(* the earliest of the smallest runs that are big enough *)
BestMatch(t, size) ==
  LET fit == {r \in Runs(t) : r[2] >= size}
  IN  IF fit = {} THEN None
      ELSE Min({r[1] : r \in {q \in fit : \A o \in fit : q[2] <= o[2]}})

(* pages in a row, the last marked as the end *)
Linked(t, pages) ==
  [p \in DOMAIN t |->
     IF \E i \in 1 .. Len(pages) : pages[i] = p
       THEN LET i == CHOOSE i \in 1 .. Len(pages) : pages[i] = p
            IN  IF i = Len(pages) THEN LastPage ELSE pages[i + 1]
       ELSE t[p]]

(* the free words from a run's beginning on, at most so many: the walk     *)
(* does not look where memory ends                                         *)
Walk(t, from, n) ==
  LET stop == Min({w \in Words : w >= from /\ t[w] # FreePage} \cup {from + n})
  IN  [i \in 1 .. stop - from |-> from + i - 1]

(* MEM_AllocatePages without "sequence": run after run, the smallest first *)
Gathered(t, n) ==
  LET step[k \in 0 .. Pages] ==
        IF k = 0 THEN [got |-> <<>>, table |-> t]
        ELSE LET s == step[k - 1]
                 w == Walk(s.table, BestMatch(s.table, 1), n - Len(s.got))
             IN  IF Len(s.got) = n \/ BestMatch(s.table, 1) = None THEN s
                 ELSE [got |-> s.got \o w, table |-> Linked(s.table, w)]
  IN  step[Pages].got

(* the pages that MEM_AllocatePages takes, <<>> if it fails *)
MEM_AllocatePages(t, n, sequence) ==
  IF n = 0 THEN <<>>
  ELSE IF sequence
    THEN LET first == BestMatch(t, n)
         IN  IF first = None THEN <<>> ELSE [i \in 1 .. n |-> first + i - 1]
    ELSE IF MEM_FreeTotal(t) < n THEN <<>> ELSE Gathered(t, n)

(* MEM_GetNextFreePage: a page is found but not taken *)
MEM_GetNextFreePage(t) == BestMatch(t, 1)

MEM_ReleasePages(t, handle) ==
  LET pages == PagesOf(t, handle)
  IN  [p \in DOMAIN t |-> IF \E i \in 1 .. Len(pages) : pages[i] = p THEN FreePage ELSE t[p]]

(* mutant: the last page that a block grows by is not looked at *)
GrowsInPlace_OneShort(t, pages, n) ==
  LET last == pages[Len(pages)]
  IN  \A p \in last + 1 .. last + n - Len(pages) - 1 : p \in FreePages(t)

(* a block in a row has the room it needs right behind it *)
GrowsInPlace(t, pages, n) ==
  LET last == pages[Len(pages)]
  IN  \A p \in last + 1 .. last + n - Len(pages) : p \in FreePages(t)

(* mutant: a block that must be in a row grows by any pages *)
Reallocated_Gathers(t, handle, n, sequence) ==
  LET pages == PagesOf(t, handle)
      old   == Len(pages)
      more  == MEM_AllocatePages(t, n - old, FALSE)
  IN  IF old >= n THEN SubSeq(pages, 1, n)
      ELSE IF more = <<>> THEN <<>> ELSE pages \o more

(* the pages a block has after MEM_ReAllocatePages, <<>> if it fails *)
Reallocated(t, handle, n, sequence) ==
  LET pages == PagesOf(t, handle)
      old   == Len(pages)
      more  == MEM_AllocatePages(t, n - old, FALSE)
  IN  CASE old >= n -> SubSeq(pages, 1, n)
        [] old < n /\ sequence ->
             IF old > 0 /\ GrowsInPlace(t, pages, n)
               THEN pages \o [i \in 1 .. n - old |-> pages[old] + i]
               ELSE MEM_AllocatePages(t, n, TRUE)
        [] OTHER -> IF more = <<>> THEN <<>> ELSE pages \o more

(* mutant: the pages cut off a block stay taken *)
MEM_ReAllocatePages_NoCut(t, handle, pages) ==
  IF Len(PagesOf(t, handle)) = Len(pages) THEN t
  ELSE IF pages # <<>> /\ pages[1] = handle THEN Linked(t, pages)
  ELSE MEM_ReleasePages(Linked(t, pages), handle)

(* the table when a block is given other pages: it keeps its own, or moves *)
MEM_ReAllocatePages(t, handle, pages) ==
  IF Len(PagesOf(t, handle)) = Len(pages) THEN t
  ELSE IF pages # <<>> /\ pages[1] = handle
    THEN Linked(MEM_ReleasePages(t, handle), pages)
  ELSE MEM_ReleasePages(Linked(t, pages), handle)
=============================================================================
