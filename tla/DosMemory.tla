----------------------------- MODULE DosMemory -----------------------------
(***************************************************************************)
(* The memory arena of DOS (src/dos/dos_memory.cpp): memory control blocks *)
(* (MCBs) that lie in the guest's memory, one before each block, and form  *)
(* two chains: conventional memory from dos.firstMCB and upper memory from *)
(* UMB_START_SEG, which may be linked into one.  Nothing but the headers   *)
(* says where a block ends, so every operation is surgery on the chain.    *)
(*                                                                         *)
(* Headers of merged blocks stay behind in memory and are never cleared.   *)
(* Programs are well behaved: they resize and free only blocks they hold   *)
(* and write to no header.                                                 *)
(***************************************************************************)
EXTENDS Integers, SequencesExt

CONSTANTS
  FirstMCB,  \* dos.firstMCB
  UmbStart,  \* UMB_START_SEG: the MCB that covers video memory and ROMs
  FirstUmb,  \* first_umb_seg
  Top,       \* first_umb_seg + first_umb_size
  HasUmb,    \* DOS_BuildUMBChain found room for upper memory
  Psps,      \* program segment prefixes: owners of blocks
  Requests,  \* sizes programs ask for
  MaxHeld,   \* bound: blocks held at a time
  Strategies \* allocation strategies programs set: [fit, area]

Free == "free"   \* MCB_FREE
Dos  == "dos"    \* MCB_DOS

ASSUME ArenaAssumption ==
  /\ {FirstMCB, UmbStart, FirstUmb, Top} \subseteq Nat
  /\ 0 < FirstMCB /\ FirstMCB < UmbStart /\ UmbStart < FirstUmb /\ FirstUmb < Top
  /\ HasUmb \in BOOLEAN
  /\ Requests \subseteq Nat /\ MaxHeld \in Nat
  /\ Psps \cap {Free, Dos} = {}
  /\ Strategies \subseteq [fit : {"first", "best", "last"},
                           area : {"low", "high", "high then low"}]

Paras == FirstMCB .. Top - 1

VARIABLES
  mcb,       \* the header that each paragraph holds or once held
  linked,    \* dos_infoblock.GetUMBChainState()
  strategy,  \* memAllocStrategy
  held       \* the blocks programs hold, as they were told: segment -> size and owner

vars == <<mcb, linked, strategy, held>>

Header(type, owner, size) == [type |-> type, owner |-> owner, size |-> size]

After(m, s) == s + m[s].size + 1

(* the headers met on the way from one to the end of its chain *)
Chain(m, from) ==
  LET rest[s \in Paras] ==
        {s} \cup IF m[s].type = "M" /\ After(m, s) \in Paras THEN rest[After(m, s)] ELSE {}
  IN  rest[from]

(* mutant: adjacent free blocks stay apart *)
Compress_None(m, from) == m

(* DOS_CompressMemory: runs of free blocks from a segment on become one *)
Compress(m, from) ==
  LET chain == Chain(m, FirstMCB)
      LastOfRun(s) == Max({t \in chain : t >= s /\ \A u \in chain \cap s .. t : m[u].owner = Free})
      starts == {s \in chain : /\ s >= from /\ m[s].owner = Free
                               /\ \A p \in chain : After(m, p) = s => m[p].owner # Free \/ p < from}
  IN  [s \in Paras |-> IF s \in starts
                         THEN Header(m[LastOfRun(s)].type, Free, After(m, LastOfRun(s)) - s - 1)
                         ELSE m[s]]
-----------------------------------------------------------------------------
(* the chains that an allocation walks, in order *)
Passes(m) ==
  CASE strategy.area = "low" \/ ~HasUmb -> <<Chain(m, FirstMCB)>>
    [] strategy.area = "high" /\ HasUmb -> <<Chain(m, UmbStart)>>
    [] OTHER -> <<Chain(m, UmbStart), Chain(m, FirstMCB)>>

Fitting(m, passes, blocks) ==
  {s \in UNION ToSet(passes) : m[s].owner = Free /\ m[s].size >= blocks}

(* first fit, the earliest of the smallest, or the last *)
Chosen(m, passes, blocks) ==
  LET fits == Fitting(m, passes, blocks)
      best == {s \in fits : \A t \in fits : m[s].size <= m[t].size}
      With(set) == {i \in DOMAIN passes : passes[i] \cap set # {}}
  IN  CASE strategy.fit = "first" -> Min(passes[Min(With(fits))] \cap fits)
        [] strategy.fit = "best"  -> Min(passes[Min(With(best))] \cap best)
        [] strategy.fit = "last"  -> Max(passes[Max(With(fits))] \cap fits)

(* the beginning of a free block is given away *)
CarveFront(m, s, blocks, psp) ==
  IF m[s].size = blocks THEN [m EXCEPT ![s].owner = psp]
  ELSE [m EXCEPT ![s + blocks + 1] = Header(m[s].type, Free, m[s].size - blocks - 1),
                 ![s] = Header("M", psp, blocks)]

(* the end of a free block is given away *)
CarveBack(m, s, blocks, psp) ==
  IF m[s].size = blocks THEN [m EXCEPT ![s].owner = psp]
  ELSE [m EXCEPT ![s + m[s].size - blocks] = Header(m[s].type, psp, blocks),
                 ![s] = Header("M", Free, m[s].size - blocks - 1)]

Hold(seg, size, psp) ==
  [s \in DOMAIN held \cup {seg} |-> IF s = seg THEN [size |-> size, owner |-> psp] ELSE held[s]]

DOS_AllocateMemory(psp, blocks) ==
  /\ \E m \in {Compress(mcb, 0)} :
       LET s  == Chosen(m, Passes(m), blocks)
           at == IF strategy.fit = "last" THEN s + m[s].size - blocks ELSE s
       IN  IF Fitting(m, Passes(m), blocks) # {}
             THEN /\ mcb' = IF strategy.fit = "last" THEN CarveBack(m, s, blocks, psp)
                                                     ELSE CarveFront(m, s, blocks, psp)
                  /\ held' = Hold(at + 1, blocks, psp)
             ELSE mcb' = m /\ UNCHANGED held
  /\ UNCHANGED <<linked, strategy>>
-----------------------------------------------------------------------------
(* a block gives its end back *)
Shrink(m, seg, blocks, psp) ==
  LET h == seg - 1
  IN  Compress([m EXCEPT ![seg + blocks] = Header(m[h].type, Free, m[h].size - blocks - 1),
                         ![h] = Header("M", psp, blocks)], 0)

(* what a block of a size could have with the free block after it *)
Reach(m, h, size) ==
  LET next == h + size + 1
  IN  IF m[h].type # "Z" /\ m[next].owner = Free THEN size + m[next].size + 1 ELSE size

(* mutant: the joined block keeps its own type *)
Grow_KeepsType(m, seg, size, blocks, psp) ==
  LET h    == seg - 1
      all  == Reach(m, h, size)
  IN  IF blocks < all
        THEN [m EXCEPT ![seg + blocks] = Header(m[h].type, Free, all - blocks - 1),
                       ![h] = Header("M", psp, blocks)]
        ELSE [m EXCEPT ![h] = Header(m[h].type, psp, all)]

(* a block takes what it needs of the free block after it, or all of it *)
Grow(m, seg, size, blocks, psp) ==
  LET h    == seg - 1
      all  == Reach(m, h, size)
      type == IF all # size THEN m[seg + size].type ELSE m[h].type
  IN  IF blocks < all
        THEN [m EXCEPT ![seg + blocks] = Header(type, Free, all - blocks - 1),
                       ![h] = Header("M", psp, blocks)]
        ELSE [m EXCEPT ![h] = Header(type, psp, all)]

DOS_ResizeMemory(psp, seg, blocks) ==
  LET size == mcb[seg - 1].size
  IN  /\ seg \in DOMAIN held
      /\ \E m \in {Compress(mcb, IF blocks > size THEN seg - 1 ELSE 0)} :
           \/ /\ blocks = size
              /\ mcb' = m /\ UNCHANGED held
           \/ /\ blocks < size
              /\ mcb' = Shrink(m, seg, blocks, psp)
              /\ held' = Hold(seg, blocks, psp)
           \/ /\ blocks > size
              /\ mcb' = Grow(m, seg, size, blocks, psp)
              /\ held' = Hold(seg, Min({blocks, Reach(m, seg - 1, size)}), psp)
      /\ UNCHANGED <<linked, strategy>>

DOS_FreeMemory(seg) ==
  /\ seg \in DOMAIN held
  /\ mcb' = [mcb EXCEPT ![seg - 1].owner = Free]
  /\ held' = [s \in DOMAIN held \ {seg} |-> held[s]]
  /\ UNCHANGED <<linked, strategy>>

(* mutant: only the first chain is looked at *)
Released_LowOnly(m, psp) ==
  [s \in Paras |-> IF s \in Chain(m, FirstMCB) /\ m[s].owner = psp
                     THEN [m[s] EXCEPT !.owner = Free] ELSE m[s]]

(* every block of a process, in both chains, becomes free *)
Released(m, psp) ==
  LET chains == Chain(m, FirstMCB) \cup IF HasUmb THEN Chain(m, UmbStart) ELSE {}
  IN  [s \in Paras |-> IF s \in chains /\ m[s].owner = psp
                         THEN [m[s] EXCEPT !.owner = Free] ELSE m[s]]

DOS_FreeProcessMemory(psp) ==
  /\ \E m \in {Released(mcb, psp)} : mcb' = Compress(m, 0)
  /\ held' = [s \in {t \in DOMAIN held : held[t].owner # psp} |-> held[s]]
  /\ UNCHANGED <<linked, strategy>>

(* DOS_Execute hands the blocks it allocated to the new program *)
SetPSPSeg(seg, psp) ==
  /\ seg \in DOMAIN held
  /\ mcb' = [mcb EXCEPT ![seg - 1].owner = psp]
  /\ held' = Hold(seg, held[seg].size, psp)
  /\ UNCHANGED <<linked, strategy>>
-----------------------------------------------------------------------------
(* the chain ends again with the last block below the UMBs *)
Unlinked(m) ==
  LET before == {s \in Chain(m, FirstMCB) : s < UmbStart}
  IN  IF UmbStart \in Chain(m, FirstMCB) THEN [m EXCEPT ![Max(before)].type = "Z"] ELSE m

DOS_LinkUMBsToMemChain(on) ==
  LET last == Max(Chain(mcb, FirstMCB))
  IN  /\ HasUmb /\ on # linked
      /\ IF on THEN /\ After(mcb, last) = UmbStart
                    /\ mcb' = [mcb EXCEPT ![last].type = "M"]
               ELSE mcb' = Unlinked(mcb)
      /\ linked' = on
      /\ UNCHANGED <<strategy, held>>

DOS_SetMemAllocStrategy(s) == strategy' = s /\ UNCHANGED <<mcb, linked, held>>

(* DOS_SetupMemory and DOS_BuildUMBChain *)
Init ==
  /\ mcb = [s \in Paras |->
       CASE s = FirstMCB -> Header("Z", Free, UmbStart - FirstMCB - 1)
         [] s = UmbStart /\ HasUmb -> Header("M", Dos, FirstUmb - UmbStart - 1)
         [] s = FirstUmb /\ HasUmb -> Header("Z", Free, Top - FirstUmb - 1)
         [] OTHER -> Header("-", Free, 0)]
  /\ linked = FALSE
  /\ strategy = [fit |-> "first", area |-> "low"]
  /\ held = <<>>

Next ==
  \/ /\ Cardinality(DOMAIN held) < MaxHeld
     /\ \E psp \in Psps, blocks \in Requests : DOS_AllocateMemory(psp, blocks)
  \/ \E psp \in Psps, blocks \in Requests, seg \in DOMAIN held : DOS_ResizeMemory(psp, seg, blocks)
  \/ \E seg \in DOMAIN held : DOS_FreeMemory(seg)
  \/ \E psp \in Psps : DOS_FreeProcessMemory(psp)
  \/ \E psp \in Psps, seg \in DOMAIN held : SetPSPSeg(seg, psp)
  \/ \E on \in BOOLEAN : DOS_LinkUMBsToMemChain(on)
  \/ \E s \in Strategies : DOS_SetMemAllocStrategy(s)

Spec == Init /\ [][Next]_vars
-----------------------------------------------------------------------------
Blocks == Chain(mcb, FirstMCB) \cup IF HasUmb THEN Chain(mcb, UmbStart) ELSE {}

TypeOK ==
  /\ mcb \in [Paras -> [type : {"M", "Z", "-"}, owner : Psps \cup {Free, Dos}, size : 0 .. Top]]
  /\ linked \in BOOLEAN
  /\ strategy.fit \in {"first", "best", "last"}
  /\ DOMAIN held \subseteq FirstMCB + 1 .. Top
  /\ \A s \in DOMAIN held : held[s].owner \in Psps /\ held[s].size \in 0 .. Top

(***************************************************************************)
(* The chains tile memory: conventional memory from the first MCB to the   *)
(* UMBs, and the UMBs to the top, each ended by its only Z; linked, they   *)
(* are one.  The MCB over video memory and ROMs is never touched.          *)
(***************************************************************************)
ChainsTile ==
  LET low == Chain(mcb, FirstMCB)
      high == Chain(mcb, UmbStart)
  IN  /\ mcb[Max(low)].type = "Z"
      /\ After(mcb, Max(low)) = IF linked THEN Top ELSE UmbStart
      /\ linked => UmbStart \in low
      /\ HasUmb => /\ mcb[UmbStart] = Header("M", Dos, FirstUmb - UmbStart - 1)
                   /\ mcb[Max(high)].type = "Z" /\ After(mcb, Max(high)) = Top

(***************************************************************************)
(* What programs were told is what the chain says: a block keeps its place *)
(* and size until its holder changes them, whatever others allocate,       *)
(* resize, free and merge around it, and no block is left without holder.  *)
(***************************************************************************)
HeldIntact ==
  {<<s + 1, mcb[s].size, mcb[s].owner>> : s \in {t \in Blocks : mcb[t].owner \notin {Free, Dos}}}
    = {<<s, held[s].size, held[s].owner>> : s \in DOMAIN held}

(* the paragraphs of conventional memory that no held block and no header of one takes *)
Gap(p, q) ==
  \A s \in DOMAIN held : s + held[s].size - 1 < p \/ q < s - 1

(***************************************************************************)
(* Whatever was allocated, freed and merged before, an allocation in       *)
(* conventional memory fails exactly when no gap between the held blocks   *)
(* takes the block and its header: freed neighbours are joined in time.    *)
(***************************************************************************)
NoFalseFailure ==
  strategy.area = "low" /\ ~linked =>
    \A m \in {Compress(mcb, 0)}, blocks \in Requests :
      Fitting(m, Passes(m), blocks) # {} <=>
        \E p \in FirstMCB .. UmbStart - 1 - blocks : Gap(p, p + blocks)

(* a resize that fails leaves no gap behind the blocks of a region *)
LeavesNoGap(region) ==
  \A psp \in Psps, seg \in DOMAIN held \cap region, blocks \in Requests :
    /\ DOMAIN held' = DOMAIN held /\ held'[seg].size < blocks
    /\ DOS_ResizeMemory(psp, seg, blocks)
    => LET end == seg + held'[seg].size
       IN  end \in {UmbStart, Top} \/ ~Gap(end, end)

(***************************************************************************)
(* A block of conventional memory that cannot grow as asked gets all there *)
(* is up to the next held block, although the chain is read, compressed    *)
(* and read again on the way.                                              *)
(***************************************************************************)
ResizedToMaximumLow == [][LeavesNoGap(FirstMCB .. UmbStart)]_vars

=============================================================================
