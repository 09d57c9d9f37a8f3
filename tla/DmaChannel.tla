----------------------------- MODULE DmaChannel -----------------------------
(***************************************************************************)
(* One channel of the 8237 (src/hardware/dma.cpp): how many units a device *)
(* may still take, and what happens when the count runs out.  Addresses,   *)
(* the pages they wrap in and the bytes themselves are left out.           *)
(***************************************************************************)
EXTENDS Integers, FiniteSetsExt

CONSTANT Counts  \* 2^16: a count is one less than the units it stands for

ASSUME CountsAssumption == Counts \in Nat \ {0}

Unused == [masked |-> TRUE, autoinit |-> FALSE, basecnt |-> 0, currcnt |-> 0]

SetCount(c, count) == [c EXCEPT !.basecnt = count, !.currcnt = count]

SetMode(c, autoinit) == [c EXCEPT !.autoinit = autoinit]

(* mutant: the count is taken for a number of units *)
UpToTC_OneShort(c) == c.currcnt

(* the units up to the terminal count *)
UpToTC(c) == c.currcnt + 1

(* how many of the units wanted a device gets *)
Done(c, want) ==
  IF c.masked THEN 0
  ELSE IF c.autoinit THEN want
  ELSE Min({want, UpToTC(c)})

(* Read: at the terminal count the channel starts again or masks itself *)
Read(c, want) ==
  LET done == Done(c, want)
  IN  IF done < UpToTC(c) THEN [c EXCEPT !.currcnt = @ - done]
      ELSE IF c.autoinit
      THEN [c EXCEPT !.currcnt = c.basecnt - ((done - UpToTC(c)) % (c.basecnt + 1))]
      ELSE [c EXCEPT !.currcnt = Counts - 1, !.masked = TRUE]
=============================================================================
