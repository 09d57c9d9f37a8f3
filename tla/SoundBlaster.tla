---------------------------- MODULE SoundBlaster ----------------------------
(***************************************************************************)
(* The Sound Blaster playing 8-bit blocks over a channel of the 8237       *)
(* (src/hardware/sblaster.cpp).  Whoever needs samples takes them: the     *)
(* mixer as it renders, an END event that ends a short block on time, and, *)
(* while the speaker of an old card is off and the mixer does not ask, a   *)
(* chain of Silent events.  The channel masks itself and is masked by      *)
(* programs, which pauses the card through a callback.                     *)
(*                                                                         *)
(* Units of samples are counted.  A rate is the units that three           *)
(* milliseconds take (dma.min).  Other formats, recording, direct output,  *)
(* single-unit channels (Goldplay), ESS and Reveal cards, high speed, the  *)
(* busy times of the DSP and the option that sets dsp.require_irq_ack      *)
(* apart from the kind of card are left out.                               *)
(***************************************************************************)
EXTENDS DmaChannel, SequencesExt

CONSTANTS
  Sb16,          \* the kinds of card: a Sound Blaster 16 or an older one
  Sizes,         \* of blocks, in units
  ChannelCounts, \* what programs count the channel from
  Rates,
  Careful        \* programs keep to the rules below

ASSUME SoundAssumption ==
  /\ Sb16 \subseteq BOOLEAN /\ Careful \in BOOLEAN
  /\ Sizes \subseteq Nat \ {0} /\ Rates \subseteq Nat \ {0}
  /\ ChannelCounts \subseteq 1..(Counts - 1)

VARIABLES
  sb,
  aligned  \* blocks and the channel's memory started together

vars == <<sb, aligned>>

(* mode is sb.mode, dma stands for sb.dma.mode # DSP_DMA_NONE; ends, silents
   and irqs are queued events *)
Init ==
  /\ sb \in [chan : {Unused}, cb : {FALSE}, sb16 : Sb16, mode : {"NONE"}, dma : {FALSE},
             left : {0}, total : {0}, autoinit : {FALSE},
             freq : Rates, min : {0}, speaker : {FALSE}, pending : {FALSE}, line : {FALSE},
             ends : {{}}, silents : {<<>>}, irqs : {0}]
  /\ aligned = FALSE

(* the mixer asks for samples: chan->enabled *)
Heard(s) == s.sb16 \/ s.speaker

-----------------------------------------------------------------------------
(* Events that end a block, and the interrupt. *)

SB_RaiseIRQ(s) == [s EXCEPT !.pending = TRUE, !.line = @ \/ ~s.pending]

NextSilent(s) == [s EXCEPT !.silents = Append(@, Min({s.left, s.min}))]

CheckDMAEnd(s) ==
  IF s.left = 0 THEN s
  ELSE IF ~Heard(s) THEN NextSilent(s)
  ELSE IF s.left < s.min THEN [s EXCEPT !.ends = @ \cup {s.left}]
  ELSE s

(* DSP_DMA_CallBack: the samples "up to current time" are never taken, for
   the channel is masked by now; ChangeMode's FillUp finds the card masked *)
OnMask(s) ==
  IF ~s.cb THEN s
  ELSE IF s.chan.masked
  THEN IF s.mode = "DMA" THEN [s EXCEPT !.mode = "DMA_MASKED"] ELSE s
  ELSE IF s.mode = "DMA_MASKED" /\ s.dma THEN CheckDMAEnd([s EXCEPT !.mode = "DMA"])
  ELSE s

Register_Callback(s) == OnMask([s EXCEPT !.cb = TRUE])

SetMask(s, mask) == OnMask([s EXCEPT !.chan.masked = mask])

(* the channel's callback comes before the units are counted *)
Take(s, want) ==
  LET read == [s EXCEPT !.chan = Read(s.chan, want)]
      told == IF read.chan.masked /\ ~s.chan.masked THEN OnMask(read) ELSE read
  IN  [told EXCEPT !.left = @ - Done(s.chan, want)]

(* no block has size 0, so the auto-init block that ends at once is left out *)
SB_OnEndOfDMA(s) ==
  LET told == SB_RaiseIRQ([s EXCEPT !.ends = {}])
  IN  IF ~s.autoinit THEN [told EXCEPT !.mode = "NONE", !.dma = FALSE]
      ELSE [told EXCEPT !.left = s.total,
                        !.mode = IF s.sb16 /\ s.pending THEN "DMA_REQUIRE_IRQ_ACK" ELSE @]

GenerateDMASound(s, size) ==
  IF s.chan.masked THEN s
  ELSE IF ~s.dma THEN [s EXCEPT !.mode = "NONE"]
  ELSE LET units == IF s.autoinit THEN Min({size, s.left})
                    ELSE IF s.left <= s.min THEN s.left ELSE size
           taken == Take(s, units)
       IN  IF taken.left = 0 THEN SB_OnEndOfDMA(taken) ELSE taken

DMA_Silent_Event(s, val) ==
  LET taken == Take(s, Min({val, s.left}))
      ended == IF taken.left > 0 THEN taken
               ELSE LET told == SB_RaiseIRQ(taken)
                    IN  IF s.autoinit THEN [told EXCEPT !.left = s.total]
                        ELSE [told EXCEPT !.mode = "NONE", !.dma = FALSE]
  IN  IF ended.left > 0 THEN NextSilent(ended) ELSE ended

SBLASTER_CallBack(s, len) ==
  IF s.mode = "DMA" THEN GenerateDMASound(s, Min({len, s.left})) ELSE s

(* FillUp: the mixer may need samples up to now, or have them already *)
FillUp(s) ==
  {s} \cup IF Heard(s) THEN {SBLASTER_CallBack(s, len) : len \in 1..Counts} ELSE {}

-----------------------------------------------------------------------------
(* Commands of the DSP. *)

DSP_DoDMATransfer(s) ==
  Register_Callback(
    [s EXCEPT !.mode = "DMA_MASKED", !.left = s.total, !.dma = TRUE, !.pending = FALSE,
              !.min = s.freq, !.ends = {}])

(* 0x14 brings its size; 0x1c takes whatever two bytes of parameters came last,
   those of 0x48 or of another command *)
DSP_PrepareDMA_Old(s, size, autoinit) ==
  DSP_DoDMATransfer([s EXCEPT !.total = size, !.autoinit = autoinit])

(* 0xb0 to 0xcf: a Sound Blaster 16 that plays goes on with the new block *)
DSP_PrepareDMA_New(s, length, autoinit) ==
  IF s.mode = "DMA"
  THEN LET total == IF autoinit THEN s.total ELSE length
       IN  [s EXCEPT !.total = total, !.left = total, !.autoinit = autoinit]
  ELSE DSP_DoDMATransfer([s EXCEPT !.total = length, !.autoinit = autoinit])

(* 0x40 *)
DSP_ChangeRate(s, freq) ==
  {[t EXCEPT !.freq = freq, !.min = IF s.dma THEN freq ELSE @] :
     t \in IF freq # s.freq /\ s.dma THEN FillUp(s) ELSE {s}}

(* 0x48 *)
SetBlockSize(s, size) == [s EXCEPT !.total = size]

(* mutant: the chain of Silent events goes on beside the mixer *)
DSP_SetSpeaker_KeepsSilent(s, how) ==
  IF s.speaker = how THEN s
  ELSE LET set == [s EXCEPT !.speaker = how]
       IN  IF s.sb16 \/ ~how THEN set ELSE CheckDMAEnd(set)

DSP_SetSpeaker(s, how) ==
  IF s.speaker = how THEN s
  ELSE LET set == [s EXCEPT !.speaker = how]
       IN  IF s.sb16 \/ ~how THEN set ELSE CheckDMAEnd([set EXCEPT !.silents = <<>>])

(* mutant: the event that ends a short block still comes *)
Halt_KeepsEnd(s) == {[t EXCEPT !.mode = "DMA_PAUSE"] : t \in FillUp(s)}

(* 0xd0 *)
Halt(s) == {[t EXCEPT !.mode = "DMA_PAUSE", !.ends = {}] : t \in FillUp(s)}

(* 0xd4; before the first transfer there is no channel to register with, and
   a callback there is then changes nothing: DSP_DoDMATransfer registers it *)
Continue(s) ==
  {IF t.mode = "DMA_PAUSE" THEN Register_Callback([t EXCEPT !.mode = "DMA_MASKED"]) ELSE t :
     t \in FillUp(s)}

(* 0x45, of the Sound Blaster 16 *)
ContinueAutoinit(s) == {[t EXCEPT !.autoinit = TRUE] : t \in FillUp(s)}

(* 0xda *)
ExitAutoinit(s) == FillUp([s EXCEPT !.autoinit = FALSE])

(* a reset does not forget Silent and IRQ events *)
DSP_Reset(s) ==
  {[t EXCEPT !.mode = "NONE", !.left = 0, !.total = 0, !.autoinit = FALSE, !.dma = FALSE,
             !.pending = FALSE, !.ends = {}] :
     t \in LET lowered == [s EXCEPT !.line = FALSE]
           IN  IF s.mode = "NONE" THEN {lowered} ELSE FillUp(lowered)}

(* reading DSP_READ_STATUS *)
Acknowledge(s) ==
  [s EXCEPT !.pending = FALSE, !.line = @ /\ ~s.pending,
            !.mode = IF @ = "DMA_REQUIRE_IRQ_ACK" THEN "DMA" ELSE @]
-----------------------------------------------------------------------------
(* What programs do, and the rules that the careful ones keep: a transfer in
   the dark, with the speaker of an old card off, is left to its end or
   heard; the speaker is not switched off while a transfer lasts nor on while
   one is halted; the rate is not lowered when the end of a short block is
   due; and a channel is programmed for more than one unit. *)

Dark(s) == s.silents # <<>>

StartsWell(s) == s.chan.basecnt > 0 /\ (Careful => ~Dark(s))

InStepNow(s) == (s.chan.currcnt + 1) % s.total = 0 /\ (s.chan.basecnt + 1) % s.total = 0

Begins(s) == sb' = s /\ aligned' = InStepNow(s)

Moves(s) == sb' = s /\ aligned' = FALSE

Goes(results) == sb' \in results /\ UNCHANGED aligned

Start ==
  /\ StartsWell(sb)
  /\ \E size \in Sizes, autoinit \in BOOLEAN :
       \/ Begins(DSP_PrepareDMA_Old(sb, size, autoinit))
       \/ sb.sb16 /\ Begins(DSP_PrepareDMA_New(sb, size, autoinit))

SetSize == \E size \in Sizes : Moves(SetBlockSize(sb, size))

SetRate == \E freq \in Rates :
  /\ Careful => freq >= sb.freq \/ sb.ends = {}
  /\ Goes(DSP_ChangeRate(sb, freq))

(* 0xd1 and 0xd3; a Sound Blaster 16 only remembers them *)
Speaker == \E how \in BOOLEAN, s \in FillUp(sb) :
  /\ ~sb.sb16
  /\ Careful => IF how THEN sb.mode # "DMA_PAUSE" ELSE ~sb.dma
  /\ Goes({DSP_SetSpeaker(s, how)})

HaltDMA == (Careful => Heard(sb)) /\ Goes(Halt(sb))

ContinueDMA == (Careful => ~Dark(sb)) /\ Goes(Continue(sb))

Autoinit == Goes(ExitAutoinit(sb) \cup IF sb.sb16 THEN ContinueAutoinit(sb) ELSE {})

(* 0x80 and 0xf2: an interrupt, after a while *)
Ask == sb.irqs = 0 /\ Goes({[sb EXCEPT !.irqs = 1]})

ReadStatus == Goes({Acknowledge(sb)})

Reset == (Careful => ~Dark(sb)) /\ Goes(DSP_Reset(sb))

Channel ==
  \/ Goes({SetMask(sb, TRUE)})
  \/ (Careful => ~Dark(sb)) /\ Goes({SetMask(sb, FALSE)})
  \/ \E autoinit \in BOOLEAN : Goes({[sb EXCEPT !.chan = SetMode(sb.chan, autoinit)]})
  \/ \E count \in ChannelCounts : Moves([sb EXCEPT !.chan = SetCount(sb.chan, count)])

Program ==
  \/ Start \/ SetSize \/ SetRate \/ Speaker \/ HaltDMA \/ ContinueDMA \/ Autoinit
  \/ Ask \/ ReadStatus \/ Reset \/ Channel

(* the mixer renders *)
Mixer == Heard(sb) /\ Goes(FillUp(sb) \ {sb})

EndEvent == \E val \in sb.ends :
  Goes({GenerateDMASound([sb EXCEPT !.ends = @ \ {val}], val)})

SilentEvent == \E i \in DOMAIN sb.silents :
  Goes({DMA_Silent_Event([sb EXCEPT !.silents = RemoveAt(@, i)], sb.silents[i])})

IrqEvent == sb.irqs > 0 /\ Goes({SB_RaiseIRQ([sb EXCEPT !.irqs = @ - 1])})

Next == Program \/ Mixer \/ EndEvent \/ SilentEvent \/ IrqEvent

(* the mixer renders and the events come while the emulator runs *)
Fairness == WF_vars(Mixer) /\ WF_vars(SilentEvent)

Spec == Init /\ [][Next]_vars /\ Fairness

-----------------------------------------------------------------------------
Playing(s) == s.mode = "DMA" /\ s.dma /\ ~s.chan.masked

(* While a block plays exactly one thing drives it: the mixer while it is
   heard, one chain of Silent events while it is not; and no such event is
   left over (a second one plays twice as fast, and one without a block calls
   an interrupt that nobody waits for). *)
Driven ==
  /\ Playing(sb) => sb.left > 0 /\ (Heard(sb) \/ Dark(sb))
  /\ Dark(sb) => ~Heard(sb) /\ sb.left > 0 /\ Len(sb.silents) = 1

(* A block and the part of the memory that the channel goes through end
   together, again and again, when they started together: so a program that
   refills one half of its buffer at each interrupt refills the half that is
   not playing, whatever pauses, masks and rates came between. *)
InStep ==
  sb.dma /\ aligned => (sb.chan.currcnt + 1) % sb.total = sb.left % sb.total

Block == INSTANCE BlockTransfer WITH
  block <- [playing |-> Playing(sb), left |-> sb.left, size |-> sb.total,
            again |-> sb.autoinit, signal |-> sb.pending, asked |-> sb.irqs > 0]

(***************************************************************************)
(* The mixer, the events, the channel's masks and the DSP's modes together *)
(* keep the promise of BlockTransfer: units are taken only while the card  *)
(* plays, each block ends with one interrupt, at its last unit, and a card *)
(* that plays goes on.                                                     *)
(***************************************************************************)
Transfers == Block!Spec
=============================================================================
