------------------------- MODULE SoundBlasterProofs -------------------------
(***************************************************************************)
(* Theorems about the Sound Blaster: for every counter, every size of      *)
(* block, every rate and both kinds of card, a transfer of a careful       *)
(* program is driven by exactly one of the mixer and the Silent events,    *)
(* and stays in step with the channel.                                     *)
(***************************************************************************)
EXTENDS SoundBlaster, SequenceTheorems, TLAPS

Modes == {"NONE", "DMA", "DMA_MASKED", "DMA_PAUSE", "DMA_REQUIRE_IRQ_ACK"}

Chan == [masked : BOOLEAN, autoinit : BOOLEAN,
         basecnt : 0 .. (Counts - 1), currcnt : 0 .. (Counts - 1)]

Card == [
  chan : Chan, cb : BOOLEAN, sb16 : BOOLEAN, mode : Modes, dma : BOOLEAN,
  left : Nat, total : Sizes \cup {0}, autoinit : BOOLEAN,
  freq : Rates, min : Rates \cup {0}, speaker : BOOLEAN, pending : BOOLEAN,
  line : BOOLEAN, ends : SUBSET Nat, silents : Seq(Nat), irqs : Nat]

(***************************************************************************)
(* What a transfer of a careful program is like between two steps: its     *)
(* events are those of one driver, and without a transfer there are none.  *)
(***************************************************************************)
Ordered(s) ==
  /\ s.mode \in {"DMA", "DMA_REQUIRE_IRQ_ACK"} => s.dma
  /\ s.mode = "DMA_REQUIRE_IRQ_ACK" => s.sb16
  /\ s.dma => s.left > 0 /\ s.total > 0 /\ s.min = s.freq
  /\ ~s.dma => s.left = 0
  /\ Dark(s) => ~Heard(s) /\ s.dma /\ Len(s.silents) = 1
  /\ s.ends # {} => s.dma /\ Heard(s)
  /\ \A v \in s.ends : 0 < v /\ v < s.min

(* A transfer that plays has a driver.                                     *)
Fed(s) == s.mode = "DMA" => Heard(s) \/ Dark(s)

Good(s) == s \in Card /\ Ordered(s) /\ Fed(s)

(* What block and channel have left goes into the same parts of a block.   *)
Stepped(s) ==
  /\ (s.chan.currcnt + 1) % s.total = s.left % s.total
  /\ (s.chan.basecnt + 1) % s.total = 0

(* The counter runs over at the end of a block, whatever their size.       *)
Fits == \A size \in Sizes : Counts % size = 0

Inv == Good(sb) /\ (Fits /\ sb.dma /\ aligned => Stepped(sb))

(* A transfer that is still there after a step was there, and in step.     *)
Keeps(s, q) ==
  /\ Good(q)
  /\ q.dma => s.dma
  /\ Fits /\ q.dma /\ Stepped(s) => Stepped(q)

(* What the channel's callback leaves alone, and those who take units.     *)
Units(s) == <<s.chan, s.left, s.total, s.dma>>
Rest(s)  == <<s.cb, s.sb16, s.autoinit, s.freq, s.min, s.speaker, s.irqs>>
Queues(s) == <<s.ends, s.silents, s.pending, s.line>>

-----------------------------------------------------------------------------
(* Arithmetic. *)

LEMMA MinOfTwo == \A a, b \in Int : Min({a, b}) = IF a <= b THEN a ELSE b
BY DEF Min

LEMMA Divides ==
  ASSUME NEW a \in Int, NEW t \in Nat \ {0}
  PROVE  /\ a \div t \in Int /\ a % t \in 0 .. (t - 1)
         /\ a = t * (a \div t) + (a % t)
OBVIOUS

LEMMA ModIsUnique ==
  ASSUME NEW t \in Nat \ {0}, NEW a \in Int, NEW k \in Int, NEW r \in 0 .. (t - 1),
         a = t * k + r
  PROVE  a % t = r
<1> DEFINE d == a \div t
           m == a % t
<1>1. d \in Int /\ m \in 0 .. (t - 1) /\ a = t * d + m
  BY Divides
<1> HIDE DEF d, m
<1>2. t * (k - d) = m - r
  BY <1>1
<1>3. k - d >= 1 => t * (k - d) >= t
  BY <1>1
<1>4. k - d <= -1 => t * (k - d) <= -t
  BY <1>1
<1>5. k = d
  BY <1>1, <1>2, <1>3, <1>4
<1>6. m = r
  BY <1>1, <1>5
<1> QED
  BY <1>6 DEF m

LEMMA SameMod ==
  ASSUME NEW t \in Nat \ {0}, NEW a \in Int, NEW b \in Int, NEW k \in Int, a = t * k + b
  PROVE  a % t = b % t
<1> DEFINE d == b \div t
           m == b % t
<1>1. d \in Int /\ m \in 0 .. (t - 1) /\ b = t * d + m
  BY Divides
<1> HIDE DEF d, m
<1>2. a = t * (k + d) + m /\ k + d \in Int
  BY <1>1
<1>3. a % t = m
  BY <1>1, <1>2, ModIsUnique
<1> QED
  BY <1>3 DEF m

LEMMA ModApart ==
  ASSUME NEW t \in Nat \ {0}, NEW a \in Int, NEW b \in Int, a % t = b % t
  PROVE  \E k \in Int : a = t * k + b
<1> DEFINE i == a \div t
           j == b \div t
           m == b % t
<1>1. i \in Int /\ j \in Int /\ m \in Int /\ a = t * i + m /\ b = t * j + m
  BY Divides
<1> HIDE DEF i, j, m
<1>2. a = t * (i - j) + b /\ i - j \in Int
  BY <1>1
<1> QED
  BY <1>2

LEMMA ModMinus ==
  ASSUME NEW t \in Nat \ {0}, NEW a \in Int, NEW b \in Int, NEW c \in Int, a % t = b % t
  PROVE  (a - c) % t = (b - c) % t
<1>1. PICK k \in Int : a = t * k + b
  BY ModApart
<1> DEFINE x == a - c
           y == b - c
<1>2. x \in Int /\ y \in Int /\ x = t * k + y
  BY <1>1
<1> HIDE DEF x, y
<1>3. x % t = y % t
  BY <1>1, <1>2, SameMod
<1> QED
  BY <1>3 DEF x, y

LEMMA ZeroMod == \A t \in Nat \ {0} : 0 % t = 0 /\ t % t = 0
<1> TAKE t \in Nat \ {0}
<1>1. 0 % t = 0
  OBVIOUS
<1>2. t = t * 1 + 0
  OBVIOUS
<1> QED
  BY <1>1, <1>2, SameMod

-----------------------------------------------------------------------------
(* The channel. *)

LEMMA SizesAre ==
  /\ Counts \in Nat \ {0} /\ Sizes \subseteq Nat \ {0} /\ Rates \subseteq Nat \ {0}
  /\ ChannelCounts \subseteq 1 .. (Counts - 1) /\ Sb16 \subseteq BOOLEAN
BY CountsAssumption, SoundAssumption

LEMMA Dones ==
  ASSUME NEW c \in Chan, NEW want \in Nat
  PROVE  /\ Done(c, want) \in 0 .. want
         /\ c.masked => Done(c, want) = 0
         /\ ~c.autoinit => Done(c, want) <= UpToTC(c)
<1>1. c.currcnt \in Nat /\ c.masked \in BOOLEAN /\ c.autoinit \in BOOLEAN
  BY SizesAre DEF Chan
<1> QED
  BY <1>1, MinOfTwo DEF Done, UpToTC

(***************************************************************************)
(* Reading leaves the channel one of its kind; where its memory consists   *)
(* of whole blocks, the count goes on by what was read, block by block,    *)
(* through the end of the memory as well.                                  *)
(***************************************************************************)
LEMMA Reads ==
  ASSUME NEW c \in Chan, NEW want \in Nat
  PROVE  LET d == Read(c, want)
         IN  /\ d \in Chan /\ d.basecnt = c.basecnt /\ d.autoinit = c.autoinit
             /\ c.masked => d.masked
             /\ Done(c, want) = 0 => d.masked = c.masked
             /\ \A t \in Nat \ {0} :
                  Counts % t = 0 /\ (c.basecnt + 1) % t = 0
                  => (d.currcnt + 1) % t = ((c.currcnt + 1) - Done(c, want)) % t
<1> DEFINE done == Done(c, want)
           up == UpToTC(c)
           m == (done - up) % (c.basecnt + 1)
<1>1. /\ c.currcnt \in 0 .. (Counts - 1) /\ c.basecnt \in 0 .. (Counts - 1)
      /\ c.masked \in BOOLEAN /\ c.autoinit \in BOOLEAN
  BY DEF Chan
<1>2. Counts \in Nat \ {0}
  BY SizesAre
<1>3. done \in Nat /\ up = c.currcnt + 1 /\ (~c.autoinit => done <= up)
      /\ (c.masked => done = 0)
  BY Dones DEF UpToTC
<1> HIDE DEF done, up
<1>4. CASE done < up
  <2> DEFINE n == c.currcnt - done
             d == [c EXCEPT !.currcnt = n]
  <2>1. Read(c, want) = d
    BY <1>4 DEF Read, done, up
  <2>2. n \in 0 .. (Counts - 1)
    BY <1>1, <1>2, <1>3, <1>4
  <2>3. n + 1 = (c.currcnt + 1) - done
    BY <1>1, <1>3
  <2> HIDE DEF n
  <2>4. /\ d \in Chan /\ d.basecnt = c.basecnt /\ d.autoinit = c.autoinit
        /\ d.masked = c.masked /\ d.currcnt = n
    BY <2>2 DEF Chan
  <2> QED
    BY <2>1, <2>3, <2>4 DEF done
<1>5. CASE done >= up /\ c.autoinit
  <2> DEFINE b == c.basecnt + 1
             x == done - up
             n == c.basecnt - m
             d == [c EXCEPT !.currcnt = n]
  <2>1. Read(c, want) = d
    <3>1. ~(done < up)
      BY <1>1, <1>3, <1>5
    <3> QED
      BY <1>5, <3>1 DEF Read, done, up
  <2>2. b \in Nat \ {0} /\ x \in Int
    BY <1>1, <1>2, <1>3
  <2>3. m \in 0 .. (b - 1) /\ x \div b \in Int /\ x = b * (x \div b) + m
    <3>1. m = x % b
      OBVIOUS
    <3> HIDE DEF b, x, m
    <3> QED
      BY <2>2, <3>1, Divides
  <2>4. n \in 0 .. (Counts - 1) /\ n + 1 = b - m
    BY <1>1, <1>2, <2>3
  <2>5. ASSUME NEW t \in Nat \ {0}, (c.basecnt + 1) % t = 0
        PROVE  (n + 1) % t = ((c.currcnt + 1) - done) % t
    <3> DEFINE p == x \div b
               y == n + 1
               z == (c.currcnt + 1) - done
    <3>1. PICK k \in Int : b = t * k
      <4> DEFINE zero == 0
      <4>1. b % t = zero % t /\ zero \in Int /\ b \in Int
        BY <2>2, <2>5, ZeroMod
      <4> HIDE DEF b, zero
      <4>2. PICK i \in Int : b = t * i + zero
        BY <2>5, <4>1, ModApart
      <4> QED
        BY <2>2, <4>2 DEF zero
    <3>2. p \in Int /\ x = b * p + m /\ y = b - m /\ z = -x /\ m \in Int
      <4>1. z = -x
        BY <1>1, <1>3
      <4> HIDE DEF b, x, m, z
      <4> QED
        BY <2>3, <2>4, <4>1
    <3> HIDE DEF p, y, z, b, x, m
    <3>3. y = b * (p + 1) + z
      BY <2>2, <3>2
    <3> DEFINE j == k * (p + 1)
    <3>4. j \in Int /\ b * (p + 1) = t * j
      BY <3>1, <3>2
    <3> HIDE DEF j
    <3>5. y = t * j + z /\ y \in Int /\ z \in Int
      BY <2>2, <3>2, <3>3, <3>4
    <3>6. y % t = z % t
      BY <3>4, <3>5, SameMod
    <3> QED
      BY <3>6 DEF y, z
  <2> HIDE DEF n
  <2>6. /\ d \in Chan /\ d.basecnt = c.basecnt /\ d.autoinit = c.autoinit
        /\ d.masked = c.masked /\ d.currcnt = n
    BY <2>4 DEF Chan
  <2> QED
    BY <2>1, <2>5, <2>6 DEF done
<1>6. CASE done >= up /\ ~c.autoinit
  <2> DEFINE n == Counts - 1
             on == TRUE
             d == [c EXCEPT !.currcnt = n, !.masked = on]
  <2>1. Read(c, want) = d
    <3>1. ~(done < up)
      BY <1>1, <1>3, <1>6
    <3> QED
      BY <1>6, <3>1 DEF Read, done, up
  <2>2. n \in 0 .. (Counts - 1) /\ on \in BOOLEAN
    BY <1>2
  <2>3. n + 1 = Counts /\ (c.currcnt + 1) - done = 0
    BY <1>1, <1>2, <1>3, <1>6
  <2> HIDE DEF n, on
  <2>4. /\ d \in Chan /\ d.basecnt = c.basecnt /\ d.autoinit = c.autoinit
        /\ d.masked = on /\ d.currcnt = n
    BY <2>2 DEF Chan
  <2>5. done # 0
    BY <1>1, <1>3, <1>6
  <2> QED
    BY <2>1, <2>3, <2>4, <2>5, ZeroMod DEF done, on
<1> QED
  BY <1>1, <1>3, <1>4, <1>5, <1>6

-----------------------------------------------------------------------------
(* The card. *)

LEMMA FieldsAre ==
  ASSUME NEW s \in Card
  PROVE  /\ s.chan \in Chan /\ s.chan.masked \in BOOLEAN /\ s.chan.basecnt \in Nat
         /\ s.chan.currcnt \in Nat /\ s.mode \in Modes /\ s.left \in Nat /\ s.total \in Nat
         /\ s.freq \in Nat \ {0} /\ s.min \in Nat /\ s.ends \in SUBSET Nat
         /\ s.silents \in Seq(Nat) /\ s.irqs \in Nat
         /\ s.cb \in BOOLEAN /\ s.sb16 \in BOOLEAN /\ s.dma \in BOOLEAN
         /\ s.autoinit \in BOOLEAN /\ s.speaker \in BOOLEAN /\ s.pending \in BOOLEAN
         /\ s.line \in BOOLEAN
<1>1. /\ s.chan \in Chan /\ s.mode \in Modes /\ s.left \in Nat /\ s.total \in Sizes \cup {0}
      /\ s.freq \in Rates /\ s.min \in Rates \cup {0} /\ s.ends \in SUBSET Nat
      /\ s.silents \in Seq(Nat) /\ s.irqs \in Nat
  BY DEF Card
<1>2. /\ s.cb \in BOOLEAN /\ s.sb16 \in BOOLEAN /\ s.dma \in BOOLEAN
      /\ s.autoinit \in BOOLEAN /\ s.speaker \in BOOLEAN /\ s.pending \in BOOLEAN
      /\ s.line \in BOOLEAN
  BY DEF Card
<1>3. s.chan.masked \in BOOLEAN /\ s.chan.basecnt \in Nat /\ s.chan.currcnt \in Nat
  BY <1>1, SizesAre DEF Chan
<1>4. s.total \in Nat /\ s.freq \in Nat \ {0} /\ s.min \in Nat
  <2>1. \A x \in Sizes \cup Rates \cup {0} : x \in Nat
    BY SizesAre
  <2> QED
    BY <1>1, <2>1, SizesAre
<1> QED
  BY <1>1, <1>2, <1>3, <1>4

(* A step that moves no units keeps what they agree on.                    *)
LEMMA KeepsUnits ==
  ASSUME NEW s, NEW q, Good(q), Units(q) = Units(s)
  PROVE  Keeps(s, q)
BY DEF Keeps, Units, Stepped

LEMMA OneSilent ==
  /\ \A x \in Nat : /\ Append(<<>>, x) \in Seq(Nat) /\ Append(<<>>, x) # <<>>
                    /\ Len(Append(<<>>, x)) = 1
  /\ \A q \in Seq(Nat) : Len(q) = 1 => DOMAIN q = {1} /\ RemoveAt(q, 1) = <<>>
<1>1. \A x \in Nat : /\ Append(<<>>, x) \in Seq(Nat) /\ Append(<<>>, x) # <<>>
                     /\ Len(Append(<<>>, x)) = 1
  OBVIOUS
<1>2. ASSUME NEW q \in Seq(Nat), Len(q) = 1
      PROVE  DOMAIN q = {1} /\ RemoveAt(q, 1) = <<>>
  <2>1. DOMAIN q = {1}
    BY <1>2
  <2>2. SubSeq(q, 1, 1 - 1) = <<>> /\ SubSeq(q, 1 + 1, Len(q)) = <<>>
    BY <1>2
  <2>3. RemoveAt(q, 1) = <<>> \o <<>>
    BY <2>2 DEF RemoveAt
  <2> QED
    BY <2>1, <2>3
<1> QED
  BY <1>1, <1>2

(* The chain of Silent events, or the END event, begins where there is     *)
(* none.                                                                   *)
LEMMA Checks ==
  ASSUME NEW s \in Card, Ordered(s), ~Dark(s)
  PROVE  LET q == CheckDMAEnd(s)
         IN  /\ Good(q) /\ Units(q) = Units(s) /\ Rest(q) = Rest(s)
             /\ q.mode = s.mode
<1> DEFINE q == CheckDMAEnd(s)
<1>1. /\ s.left \in Nat /\ s.min \in Nat /\ s.ends \in SUBSET Nat /\ s.silents = <<>>
      /\ s.mode \in Modes
  BY FieldsAre DEF Dark
<1>2. CASE s.left = 0
  <2>1. q = s /\ s.mode # "DMA"
    BY <1>2 DEF CheckDMAEnd, Ordered
  <2> QED
    BY <2>1 DEF Good, Fed
<1>3. CASE s.left # 0 /\ ~Heard(s)
  <2> DEFINE val == Min({s.left, s.min})
             more == Append(<<>>, val)
  <2>1. val \in Nat
    BY <1>1, MinOfTwo
  <2>2. more \in Seq(Nat) /\ more # <<>> /\ Len(more) = 1
    <3> HIDE DEF val
    <3> QED
      BY <2>1, OneSilent
  <2>3. q = [s EXCEPT !.silents = more]
    BY <1>1, <1>3 DEF CheckDMAEnd, NextSilent
  <2> HIDE DEF val, more, q
  <2>4. /\ q \in Card /\ q.silents = more /\ Units(q) = Units(s) /\ Rest(q) = Rest(s)
        /\ q.mode = s.mode /\ q.ends = s.ends
    BY <2>2, <2>3 DEF Card, Units, Rest
  <2>5. Ordered(q) /\ Dark(q)
    BY <1>1, <1>3, <2>2, <2>4 DEF Ordered, Dark, Heard, Units, Rest
  <2> QED
    BY <2>4, <2>5 DEF Good, Fed, q
<1>4. CASE s.left # 0 /\ Heard(s) /\ s.left < s.min
  <2> DEFINE more == s.ends \cup {s.left}
  <2>1. q = [s EXCEPT !.ends = more]
    BY <1>4 DEF CheckDMAEnd
  <2>2. more \in SUBSET Nat
    BY <1>1
  <2>3. /\ \A v \in s.ends : 0 < v /\ v < s.min
        /\ 0 < s.left
    BY <1>1, <1>4 DEF Ordered
  <2>4. \A v \in more : 0 < v /\ v < s.min
    BY <1>4, <2>3
  <2> HIDE DEF more, q
  <2>5. /\ q \in Card /\ q.ends = more /\ Units(q) = Units(s) /\ Rest(q) = Rest(s)
        /\ q.mode = s.mode /\ q.silents = s.silents
    BY <2>1, <2>2 DEF Card, Units, Rest
  <2>6. Ordered(q) /\ Heard(q)
    BY <1>1, <1>4, <2>4, <2>5 DEF Ordered, Dark, Heard, Units, Rest
  <2> QED
    BY <2>5, <2>6 DEF Good, Fed, q
<1>5. CASE s.left # 0 /\ Heard(s) /\ ~(s.left < s.min)
  <2>1. q = s
    BY <1>5 DEF CheckDMAEnd
  <2> QED
    BY <1>5, <2>1 DEF Good, Fed
<1> QED
  BY <1>2, <1>3, <1>4, <1>5

(* The channel's callback starts a transfer only where no Silent event is. *)
LEMMA Masks ==
  ASSUME NEW s \in Card, Ordered(s),
         s.cb /\ ~s.chan.masked /\ s.mode = "DMA_MASKED" /\ s.dma => ~Dark(s)
  PROVE  LET q == OnMask(s)
         IN  /\ q \in Card /\ Ordered(q) /\ (Fed(s) => Fed(q))
             /\ Units(q) = Units(s) /\ Rest(q) = Rest(s)
             /\ s.chan.masked => /\ Queues(q) = Queues(s)
                                 /\ q.mode \in {s.mode, "DMA_MASKED"}
<1> DEFINE q == OnMask(s)
           pause == "DMA_MASKED"
           play == "DMA"
<1>1. s.chan.masked \in BOOLEAN
  BY FieldsAre
<1>2. CASE q = s
  BY <1>2
<1>3. CASE s.chan.masked /\ q = [s EXCEPT !.mode = pause]
  <2>1. pause \in Modes /\ pause \notin {"DMA", "DMA_REQUIRE_IRQ_ACK"}
    BY DEF Modes
  <2> HIDE DEF q, pause
  <2>2. /\ q \in Card /\ q.mode = pause /\ Units(q) = Units(s) /\ Rest(q) = Rest(s)
        /\ Queues(q) = Queues(s)
    BY <1>1, <1>3, <2>1 DEF Card, Units, Rest, Queues
  <2>3. Ordered(q) /\ Fed(q)
    BY <1>1, <2>1, <2>2 DEF Ordered, Fed, Dark, Heard, Units, Rest, Queues
  <2> QED
    BY <2>2, <2>3 DEF Good, q, pause
<1>4. CASE s.cb /\ ~s.chan.masked /\ s.mode = "DMA_MASKED" /\ s.dma
  <2> DEFINE r == [s EXCEPT !.mode = play]
  <2>1. q = CheckDMAEnd(r)
    BY <1>4 DEF OnMask
  <2>2. play \in Modes
    BY DEF Modes
  <2>3. play # "DMA_REQUIRE_IRQ_ACK"
    OBVIOUS
  <2> HIDE DEF play, r, q
  <2>4. /\ r \in Card /\ r.mode = play /\ Units(r) = Units(s) /\ Rest(r) = Rest(s)
        /\ Queues(r) = Queues(s)
    BY <1>1, <2>2 DEF Card, Units, Rest, Queues, r
  <2>5. Ordered(r) /\ ~Dark(r)
    BY <1>1, <1>4, <2>3, <2>4 DEF Ordered, Dark, Heard, Units, Rest, Queues
  <2>6. Good(q) /\ Units(q) = Units(r) /\ Rest(q) = Rest(r)
    BY <2>1, <2>4, <2>5, Checks
  <2> QED
    BY <1>4, <2>4, <2>6 DEF Good, q
<1> QED
  BY <1>1, <1>2, <1>3, <1>4 DEF OnMask

-----------------------------------------------------------------------------
(* Those who take units. *)

(***************************************************************************)
(* The channel counts what the card counts; one that masks itself pauses   *)
(* the transfer.                                                           *)
(***************************************************************************)
LEMMA Takes ==
  ASSUME NEW s \in Card, Ordered(s), s.dma, NEW want \in 0 .. s.left
  PROVE  LET q == Take(s, want)
         IN  /\ q \in Card /\ Rest(q) = Rest(s) /\ Queues(q) = Queues(s)
             /\ q.total = s.total /\ q.dma = s.dma
             /\ q.mode \in {s.mode, "DMA_MASKED"}
             /\ q.mode # s.mode => s.cb /\ q.chan.masked
             /\ s.chan.masked => q.chan.masked
             /\ \E n \in 0 .. want :
                  /\ q.left = s.left - n
                  /\ s.chan.masked => n = 0
                  /\ n = 0 => q.chan.masked = s.chan.masked /\ q.mode = s.mode
             /\ Fits /\ Stepped(s) => Stepped(q)
<1> DEFINE q == Take(s, want)
           chan == Read(s.chan, want)
           read == [s EXCEPT !.chan = chan]
           told == IF read.chan.masked /\ ~s.chan.masked THEN OnMask(read) ELSE read
           done == Done(s.chan, want)
           left == told.left - done
<1>1. /\ s.chan \in Chan /\ s.left \in Nat
      /\ want \in Nat /\ s.total \in Nat \ {0} /\ s.total \in Sizes
      /\ s.chan.basecnt \in Nat /\ s.chan.currcnt \in Nat
  <2>1. s.total > 0 /\ s.total \in Sizes \cup {0}
    BY DEF Card, Ordered
  <2> QED
    BY <2>1, FieldsAre
<1>2. q = [told EXCEPT !.left = left]
  BY DEF Take
<1>3. done \in 0 .. want /\ (s.chan.masked => done = 0)
  BY <1>1, Dones
<1>4. /\ chan \in Chan /\ chan.basecnt = s.chan.basecnt
      /\ (s.chan.masked => chan.masked) /\ (done = 0 => chan.masked = s.chan.masked)
      /\ \A t \in Nat \ {0} : Counts % t = 0 /\ (s.chan.basecnt + 1) % t = 0
           => (chan.currcnt + 1) % t = ((s.chan.currcnt + 1) - done) % t
  BY <1>1, Reads
<1> HIDE DEF q, chan, done
<1>5. /\ read \in Card /\ Ordered(read) /\ read.chan = chan /\ Rest(read) = Rest(s) /\ Queues(read) = Queues(s)
      /\ read.left = s.left /\ read.total = s.total /\ read.dma = s.dma /\ read.mode = s.mode
  <2>1. /\ read \in Card /\ read.chan = chan /\ Rest(read) = Rest(s) /\ Queues(read) = Queues(s)
        /\ read.left = s.left /\ read.total = s.total /\ read.dma = s.dma /\ read.mode = s.mode
    BY <1>1, <1>4 DEF Card, Rest, Queues
  <2> HIDE DEF read
  <2>2. Ordered(read)
    BY <1>1, <2>1 DEF Ordered, Dark, Heard, Rest, Queues
  <2> QED
    BY <2>1, <2>2
<1> HIDE DEF read
<1>6. /\ told \in Card /\ Units(told) = Units(read) /\ Rest(told) = Rest(read)
      /\ Queues(told) = Queues(read) /\ told.mode \in {read.mode, "DMA_MASKED"}
      /\ told.mode # read.mode => s.cb /\ chan.masked /\ ~s.chan.masked
  <2>1. CASE read.chan.masked /\ ~s.chan.masked
    <3>1. told = OnMask(read)
      BY <2>1
    <3>2. ~s.cb => told = read
      BY <1>5, <3>1 DEF OnMask, Rest
    <3> HIDE DEF told
    <3> QED
      BY <1>5, <2>1, <3>1, <3>2, Masks
  <2>2. CASE ~(read.chan.masked /\ ~s.chan.masked)
    BY <1>5, <2>2
  <2> QED
    BY <2>1, <2>2
<1> HIDE DEF told
<1>7. left \in Nat /\ left = s.left - done
  BY <1>1, <1>3, <1>5, <1>6 DEF Units
<1> HIDE DEF left
<1>8. /\ q \in Card /\ Rest(q) = Rest(told) /\ Queues(q) = Queues(told)
      /\ q.chan = told.chan /\ q.left = left /\ q.total = told.total /\ q.dma = told.dma
      /\ q.mode = told.mode
  BY <1>2, <1>6, <1>7 DEF Card, Rest, Queues
<1>9. /\ Rest(q) = Rest(s) /\ Queues(q) = Queues(s) /\ q.total = s.total /\ q.dma = s.dma
      /\ q.mode \in {s.mode, "DMA_MASKED"} /\ q.chan = chan
  BY <1>5, <1>6, <1>8 DEF Units
<1>10. ASSUME Fits, Stepped(s)
       PROVE  Stepped(q)
  <2> DEFINE t == s.total
             up == s.chan.currcnt + 1
  <2>1. t \in Nat \ {0} /\ Counts % t = 0
    BY <1>1, <1>10 DEF Fits
  <2>2. up % t = s.left % t /\ (s.chan.basecnt + 1) % t = 0
    BY <1>10 DEF Stepped
  <2> HIDE DEF t
  <2>3. (chan.currcnt + 1) % t = (up - done) % t
    BY <1>4, <2>1, <2>2
  <2>4. up \in Int /\ s.left \in Int /\ done \in Int
    BY <1>1, <1>3
  <2> HIDE DEF t, up
  <2>5. (up - done) % t = (s.left - done) % t
    BY <2>1, <2>2, <2>4, ModMinus
  <2> QED
    BY <1>4, <1>7, <1>8, <1>9, <2>2, <2>3, <2>5 DEF Stepped, t
<1>11. q.mode # s.mode => s.cb /\ q.chan.masked /\ ~s.chan.masked
  BY <1>5, <1>6, <1>8, <1>9
<1> QED
  BY <1>3, <1>4, <1>7, <1>8, <1>9, <1>10, <1>11 DEF q

(* At its last unit a block ends, or the next one of its size begins.      *)
LEMMA Restarts ==
  ASSUME NEW q, q.left = 0, q.total \in Nat \ {0}, NEW r, r.chan = q.chan,
         r.total = q.total, r.left = q.total, Stepped(q)
  PROVE  Stepped(r)
BY ZeroMod DEF Stepped

LEMMA Ends ==
  ASSUME NEW s \in Card, s.left = 0, s.dma, s.total > 0, s.min = s.freq, Heard(s),
         s.silents = << >>, s.mode = "DMA_REQUIRE_IRQ_ACK" => s.sb16
  PROVE  LET q == SB_OnEndOfDMA(s)
         IN  /\ Good(q) /\ Rest(q) = Rest(s) /\ q.ends = {} /\ q.silents = << >>
             /\ q.total = s.total /\ q.chan = s.chan /\ q.pending = TRUE
             /\ ~s.autoinit => q.left = 0 /\ q.mode = "NONE" /\ ~q.dma
             /\ s.autoinit => q.left = s.total /\ q.mode \in {s.mode, "DMA_REQUIRE_IRQ_ACK"}
             /\ q.dma /\ Stepped(s) => Stepped(q)
<1> DEFINE none == {}
           off == FALSE
           on == TRUE
           still == "NONE"
           line == s.line \/ ~s.pending
           told == SB_RaiseIRQ([s EXCEPT !.ends = none])
           mode == IF s.sb16 /\ s.pending THEN "DMA_REQUIRE_IRQ_ACK" ELSE told.mode
           q == SB_OnEndOfDMA(s)
<1>1. /\ told \in Card /\ Rest(told) = Rest(s) /\ Units(told) = Units(s)
      /\ told.silents = s.silents /\ told.ends = none /\ told.mode = s.mode
      /\ told.pending = on /\ told.total = s.total
  <2>1. line \in BOOLEAN /\ on \in BOOLEAN /\ none \in SUBSET Nat
    BY DEF Card
  <2>2. told = [s EXCEPT !.ends = none, !.pending = on, !.line = line]
    BY DEF SB_RaiseIRQ, Card
  <2> HIDE DEF none, on, line, told
  <2> QED
    BY <2>1, <2>2 DEF Card, Rest, Units
<1> HIDE DEF told
<1>2. told.autoinit \in BOOLEAN /\ told.total \in Nat \ {0} /\ told.sb16 \in BOOLEAN
  BY <1>1, FieldsAre
<1>3. q = IF ~told.autoinit THEN [told EXCEPT !.mode = still, !.dma = off]
          ELSE [told EXCEPT !.left = told.total, !.mode = mode]
  BY <1>1 DEF SB_OnEndOfDMA, Rest, told
<1>4. mode \in Modes /\ still \in Modes /\ off \in BOOLEAN
      /\ (mode = "DMA_REQUIRE_IRQ_ACK" => told.sb16)
  BY <1>1 DEF Modes, Card, Rest
<1>5. Heard(told) /\ told.silents = << >> /\ told.left = 0 /\ told.dma /\ told.min = told.freq
  BY <1>1 DEF Heard, Rest, Units
<1>6. CASE ~told.autoinit
  <2>1. still \notin {"DMA", "DMA_REQUIRE_IRQ_ACK"}
    OBVIOUS
  <2> HIDE DEF still, off, none, q, mode
  <2>2. /\ q \in Card /\ q.mode = still /\ q.dma = off /\ q.left = told.left
        /\ Rest(q) = Rest(told) /\ q.ends = none /\ q.silents = told.silents
        /\ q.chan = told.chan /\ q.total = told.total /\ q.pending = on
    BY <1>1, <1>3, <1>4, <1>6 DEF Card, Rest
  <2>3. Good(q)
    BY <1>5, <2>1, <2>2 DEF Good, Ordered, Fed, Dark, Heard, off, none
  <2> QED
    BY <1>1, <1>5, <1>6, <2>2, <2>3 DEF q, off, on, none, still, Units, Rest
<1>7. CASE told.autoinit
  <2> DEFINE left == told.total
  <2>1. left \in Nat
    BY <1>2
  <2> HIDE DEF mode, none, q, left
  <2>2. q = [told EXCEPT !.left = left, !.mode = mode]
    BY <1>3, <1>7 DEF left
  <2>3. /\ q \in Card /\ q.mode = mode /\ q.dma = told.dma /\ q.left = left
        /\ Rest(q) = Rest(told) /\ q.ends = none /\ q.silents = told.silents
        /\ q.chan = told.chan /\ q.total = told.total /\ q.pending = on
    BY <1>1, <1>4, <2>1, <2>2 DEF Card, Rest
  <2>4. Good(q)
    BY <1>2, <1>4, <1>5, <2>1, <2>3 DEF Good, Ordered, Fed, Dark, Heard, Rest, left, none
  <2>5. q.dma /\ q.left = s.total /\ q.chan = s.chan /\ q.total = s.total
    BY <1>1, <1>5, <2>3 DEF Units, left
  <2>6. Stepped(s) => Stepped(q)
    BY <1>1, <1>2, <2>5, Restarts
  <2> QED
    <3>1. mode \in {s.mode, "DMA_REQUIRE_IRQ_ACK"}
      BY <1>1 DEF mode
    <3>2. s.autoinit /\ Rest(q) = Rest(s)
      BY <1>1, <1>7, <2>3 DEF Rest
    <3> QED
      BY <1>1, <2>3, <2>4, <2>5, <2>6, <3>1, <3>2 DEF q, none, on
<1> QED
  BY <1>2, <1>6, <1>7

(***************************************************************************)
(* The mixer, and the END event: never more than is left of the block.     *)
(***************************************************************************)
LEMMA Generates ==
  ASSUME NEW s, Good(s), Heard(s), NEW size \in Nat \ {0},
         s.dma /\ ~s.autoinit /\ s.left > s.min => size <= s.left
  PROVE  LET q == GenerateDMASound(s, size)
         IN  /\ Keeps(s, q) /\ Rest(q) = Rest(s) /\ q.ends \subseteq s.ends
             /\ q.silents = << >>
<1> DEFINE q == GenerateDMASound(s, size)
           units == IF s.autoinit THEN Min({size, s.left})
                    ELSE IF s.left <= s.min THEN s.left ELSE size
           taken == Take(s, units)
           still == "NONE"
<1>1. /\ s \in Card /\ Ordered(s) /\ Fed(s) /\ s.left \in Nat /\ s.min \in Nat
      /\ s.total \in Nat /\ s.dma \in BOOLEAN /\ s.silents \in Seq(Nat)
  BY FieldsAre DEF Good
<1>2. s.silents = << >>
  BY <1>1 DEF Ordered, Dark
<1>3. CASE q = s
  BY <1>2, <1>3, KeepsUnits
<1>4. CASE ~s.dma /\ q = [s EXCEPT !.mode = still]
  <2>1. still \in Modes /\ still \notin {"DMA", "DMA_REQUIRE_IRQ_ACK"}
    BY DEF Modes
  <2> HIDE DEF still, q, taken
  <2>2. /\ q \in Card /\ q.mode = still /\ Units(q) = Units(s) /\ Rest(q) = Rest(s)
        /\ Queues(q) = Queues(s)
    BY <1>1, <1>4, <2>1 DEF Card, Units, Rest, Queues
  <2>3. Good(q)
    BY <1>1, <2>1, <2>2 DEF Good, Ordered, Fed, Dark, Heard, Units, Rest, Queues
  <2>4. Keeps(s, q)
    BY <1>1, <2>2, <2>3, KeepsUnits
  <2> QED
    BY <1>2, <2>2, <2>4 DEF Queues, q
<1>5. CASE s.dma /\ q = IF taken.left = 0 THEN SB_OnEndOfDMA(taken) ELSE taken
  <2>1. units \in 0 .. s.left
    BY <1>1, <1>5, MinOfTwo
  <2> HIDE DEF units
  <2>2. /\ taken \in Card /\ Rest(taken) = Rest(s) /\ Queues(taken) = Queues(s)
        /\ taken.total = s.total /\ taken.dma = s.dma
        /\ taken.mode \in {s.mode, "DMA_MASKED"}
        /\ Fits /\ Stepped(s) => Stepped(taken)
    BY <1>1, <1>5, <2>1, Takes
  <2> HIDE DEF taken, q
  <2>3. /\ Heard(taken) /\ taken.silents = << >> /\ taken.total > 0 /\ taken.min = taken.freq
        /\ (taken.mode = "DMA_REQUIRE_IRQ_ACK" => taken.sb16) /\ taken.left \in Nat
    <3>1. taken.left \in Nat
      BY <2>2, FieldsAre
    <3> QED
      BY <1>1, <1>2, <1>5, <2>2, <3>1 DEF Ordered, Heard, Rest, Queues
  <2>4. CASE taken.left = 0
    <3>1. q = SB_OnEndOfDMA(taken)
      BY <1>5, <2>4
    <3>2. /\ taken \in Card /\ taken.left = 0 /\ taken.dma /\ taken.total > 0
          /\ taken.min = taken.freq /\ Heard(taken) /\ taken.silents = << >>
          /\ taken.mode = "DMA_REQUIRE_IRQ_ACK" => taken.sb16
      BY <1>5, <2>2, <2>3, <2>4
    <3>3. /\ Good(q) /\ Rest(q) = Rest(taken) /\ q.ends = {} /\ q.silents = << >>
          /\ q.dma /\ Stepped(taken) => Stepped(q)
      BY <3>1, <3>2, Ends
    <3> QED
      BY <1>5, <2>2, <3>3 DEF Keeps, q
  <2>5. CASE taken.left # 0
    <3>1. q = taken
      BY <1>5, <2>5
    <3>2. Ordered(taken) /\ Fed(taken)
      BY <1>1, <1>5, <2>2, <2>3, <2>5 DEF Ordered, Fed, Dark, Heard, Rest, Queues
    <3> QED
      BY <1>5, <2>2, <2>3, <3>1, <3>2 DEF Keeps, Good, Queues, q
  <2> QED
    BY <2>4, <2>5
<1> QED
  BY <1>1, <1>3, <1>4, <1>5 DEF GenerateDMASound

(***************************************************************************)
(* A Silent event takes its units and is the last of its chain, or queues  *)
(* the next one.                                                           *)
(***************************************************************************)
LEMMA Silences ==
  ASSUME NEW s, Good(s), Dark(s), NEW val \in Nat
  PROVE  Keeps(s, DMA_Silent_Event([s EXCEPT !.silents = << >>], val))
<1> DEFINE empty == << >>
           none == {}
           r == [s EXCEPT !.silents = empty]
           want == Min({val, r.left})
           taken == Take(r, want)
           told == SB_RaiseIRQ(taken)
           still == "NONE"
           off == FALSE
           on == TRUE
           line == taken.line \/ ~taken.pending
           left == r.total
           ended == IF taken.left > 0 THEN taken
                    ELSE IF r.autoinit THEN [told EXCEPT !.left = left]
                    ELSE [told EXCEPT !.mode = still, !.dma = off]
           q == IF ended.left > 0 THEN NextSilent(ended) ELSE ended
<1>1. /\ s \in Card /\ Ordered(s) /\ Fed(s) /\ s.left \in Nat /\ s.autoinit \in BOOLEAN
  BY FieldsAre DEF Good
<1>2. ~Heard(s) /\ s.dma /\ s.ends = none
  BY <1>1 DEF Ordered
<1>3. DMA_Silent_Event([s EXCEPT !.silents = << >>], val) = q
  BY DEF DMA_Silent_Event
<1>4. /\ r \in Card /\ Units(r) = Units(s) /\ Rest(r) = Rest(s) /\ r.mode = s.mode
      /\ r.silents = empty /\ r.ends = none /\ r.total = s.total
  <2>1. empty \in Seq(Nat)
    OBVIOUS
  <2> HIDE DEF empty, none
  <2> QED
    BY <1>1, <1>2, <2>1 DEF Card, Units, Rest
<1> HIDE DEF r
<1>5. Ordered(r) /\ r.left \in Nat /\ r.dma /\ r.total > 0
  BY <1>1, <1>2, <1>4 DEF Ordered, Dark, Heard, Units, Rest
<1>6. want \in 0 .. r.left
  BY <1>5, MinOfTwo
<1> HIDE DEF want
<1>7. /\ taken \in Card /\ Rest(taken) = Rest(r) /\ Queues(taken) = Queues(r)
      /\ taken.total = r.total /\ taken.dma = r.dma
      /\ taken.mode \in {r.mode, "DMA_MASKED"}
      /\ Fits /\ Stepped(r) => Stepped(taken)
  BY <1>4, <1>5, <1>6, Takes
<1> HIDE DEF taken
<1>8. /\ told \in Card /\ Rest(told) = Rest(taken) /\ Units(told) = Units(taken)
      /\ told.silents = taken.silents /\ told.ends = taken.ends /\ told.mode = taken.mode
      /\ told.total = taken.total
  <2>1. line \in BOOLEAN /\ on \in BOOLEAN
    BY <1>7 DEF Card
  <2>2. told = [taken EXCEPT !.pending = on, !.line = line]
    BY <1>7 DEF SB_RaiseIRQ, Card
  <2> HIDE DEF on, line, told
  <2> QED
    BY <1>7, <2>1, <2>2 DEF Card, Rest, Units
<1> HIDE DEF told
<1>9. /\ ended \in Card /\ Rest(ended) = Rest(s) /\ ended.silents = empty /\ ended.ends = none
      /\ ended.total = s.total /\ (ended.dma <=> ended.left > 0)
      /\ (ended.mode \in {"DMA", "DMA_REQUIRE_IRQ_ACK"} => ended.dma)
      /\ ended.mode # "DMA_REQUIRE_IRQ_ACK"
      /\ Fits /\ ended.dma /\ Stepped(s) => Stepped(ended)
  <2>1. taken.left \in Nat /\ told.total \in Nat /\ told.left = taken.left
        /\ told.dma = taken.dma /\ told.chan = taken.chan
    BY <1>7, <1>8, FieldsAre DEF Units
  <2>2. s.mode # "DMA_REQUIRE_IRQ_ACK"
    BY <1>1, <1>2 DEF Ordered, Heard
  <2>3. Stepped(s) => Stepped(r)
    BY <1>4 DEF Stepped, Units
  <2>4. CASE taken.left > 0
    <3>1. ended = taken
      BY <2>4
    <3> HIDE DEF ended
    <3> QED
      BY <1>4, <1>5, <1>7, <2>2, <2>3, <2>4, <3>1 DEF Queues, Units
  <2>5. CASE ~(taken.left > 0) /\ r.autoinit
    <3>1. ended = [told EXCEPT !.left = left] /\ left \in Nat
      BY <1>7, <1>8, <2>1, <2>5
    <3> HIDE DEF ended, left
    <3>2. /\ ended \in Card /\ ended.left = left /\ Rest(ended) = Rest(told)
          /\ ended.silents = told.silents /\ ended.ends = told.ends /\ ended.mode = told.mode
          /\ ended.dma = told.dma /\ ended.chan = told.chan /\ ended.total = told.total
      BY <1>8, <3>1 DEF Card, Rest
    <3>3. taken.left = 0 /\ taken.total \in Nat \ {0} /\ ended.left = taken.total
      BY <1>5, <1>7, <1>8, <2>1, <2>5, <3>2 DEF left
    <3>4. Stepped(taken) => Stepped(ended)
      BY <1>8, <2>1, <3>2, <3>3, Restarts
    <3> QED
      BY <1>4, <1>5, <1>7, <1>8, <2>1, <2>2, <2>3, <3>2, <3>3, <3>4 DEF Queues
  <2>6. CASE ~(taken.left > 0) /\ ~r.autoinit
    <3>1. ended = [told EXCEPT !.mode = still, !.dma = off] /\ off \in BOOLEAN
      BY <2>6
    <3>2. still \in Modes /\ still \notin {"DMA", "DMA_REQUIRE_IRQ_ACK"}
      BY DEF Modes
    <3> HIDE DEF ended, still, off
    <3>3. /\ ended \in Card /\ ended.left = told.left /\ Rest(ended) = Rest(told)
          /\ ended.silents = told.silents /\ ended.ends = told.ends /\ ended.mode = still
          /\ ended.dma = off /\ ended.total = told.total
      BY <1>8, <3>1, <3>2 DEF Card, Rest
    <3> QED
      BY <1>4, <1>7, <1>8, <2>1, <2>6, <3>2, <3>3 DEF Queues, off
  <2> QED
    BY <2>4, <2>5, <2>6
<1> HIDE DEF ended
<1>10. s.min = s.freq /\ s.total > 0 /\ ended.min = s.min /\ ended.freq = s.freq
       /\ ended.min \in Nat /\ ended.left \in Nat
  BY <1>1, <1>2, <1>9, FieldsAre DEF Ordered, Rest
<1>11. CASE ended.left > 0
  <2> DEFINE unit == Min({ended.left, ended.min})
             more == Append(<<>>, unit)
  <2>1. unit \in Nat
    BY <1>10, MinOfTwo
  <2>2. more \in Seq(Nat) /\ more # << >> /\ Len(more) = 1
    <3> HIDE DEF unit
    <3> QED
      BY <2>1, OneSilent
  <2>3. q = [ended EXCEPT !.silents = more]
    BY <1>9, <1>11 DEF NextSilent
  <2> HIDE DEF q, more, unit
  <2>4. /\ q \in Card /\ q.silents = more /\ Units(q) = Units(ended) /\ Rest(q) = Rest(ended)
        /\ q.mode = ended.mode /\ q.ends = ended.ends
    BY <1>9, <2>2, <2>3 DEF Card, Units, Rest
  <2>5. Good(q)
    BY <1>2, <1>9, <1>10, <1>11, <2>2, <2>4
       DEF Good, Ordered, Fed, Dark, Heard, Units, Rest, none
  <2>6. Stepped(ended) => Stepped(q)
    BY <2>4 DEF Stepped, Units
  <2> QED
    BY <1>2, <1>3, <1>9, <2>4, <2>5, <2>6 DEF Keeps, Units, q
<1>12. CASE ~(ended.left > 0)
  <2>1. q = ended /\ ended.left = 0 /\ ~ended.dma
    BY <1>9, <1>10, <1>12
  <2> HIDE DEF q
  <2>2. Good(ended)
    BY <1>9, <2>1 DEF Good, Ordered, Fed, Dark, none, empty
  <2> QED
    BY <1>3, <2>1, <2>2 DEF Keeps, q
<1> QED
  BY <1>11, <1>12

(* The mixer up to now: the rest of the card is as it was.                 *)
LEMMA Fills ==
  ASSUME NEW s, Good(s), NEW q \in FillUp(s)
  PROVE  /\ Keeps(s, q) /\ Rest(q) = Rest(s) /\ q.ends \subseteq s.ends
         /\ Heard(q) = Heard(s) /\ (Dark(q) => Dark(s))
<1>1. s \in Card /\ s.left \in Nat /\ Counts \in Nat
  BY FieldsAre, SizesAre DEF Good
<1>2. CASE q = s
  BY <1>2, KeepsUnits
<1>3. ASSUME Heard(s), NEW len \in 1 .. Counts, q = SBLASTER_CallBack(s, len), q # s
      PROVE  /\ Keeps(s, q) /\ Rest(q) = Rest(s) /\ q.ends \subseteq s.ends
             /\ q.silents = << >>
  <2> DEFINE size == Min({len, s.left})
  <2>1. s.mode = "DMA" /\ q = GenerateDMASound(s, size)
    BY <1>3 DEF SBLASTER_CallBack
  <2>2. s.left > 0 /\ len \in Nat \ {0}
    BY <1>1, <2>1, SizesAre DEF Good, Ordered
  <2>3. size \in Nat \ {0} /\ size <= s.left
    BY <1>1, <2>2, MinOfTwo
  <2> HIDE DEF size
  <2> QED
    BY <1>3, <2>1, <2>3, Generates
<1>4. CASE q # s
  <2>1. PICK len \in 1 .. Counts : Heard(s) /\ q = SBLASTER_CallBack(s, len)
    BY <1>4 DEF FillUp
  <2>2. /\ Keeps(s, q) /\ Rest(q) = Rest(s) /\ q.ends \subseteq s.ends
        /\ q.silents = << >>
    BY <1>3, <1>4, <2>1
  <2> QED
    BY <2>2 DEF Rest, Heard, Dark
<1> QED
  BY <1>2, <1>4

LEMMA KeepsOn ==
  ASSUME NEW s, NEW t, NEW q, Keeps(s, t), Keeps(t, q)
  PROVE  Keeps(s, q)
BY DEF Keeps

-----------------------------------------------------------------------------
(* The commands. *)

(* A transfer begins with a whole block; no chain of Silent events lasts.  *)
LEMMA Transfer ==
  ASSUME NEW s \in Card, NEW size \in Sizes, NEW again \in BOOLEAN, ~Dark(s)
  PROVE  LET q == DSP_DoDMATransfer([s EXCEPT !.total = size, !.autoinit = again])
         IN  Good(q) /\ q.left = q.total /\ q.dma
<1> DEFINE on == TRUE
           off == FALSE
           none == {}
           pause == "DMA_MASKED"
           left == size
           min == s.freq
           r == [s EXCEPT !.total = size, !.autoinit = again, !.mode = pause, !.left = left,
                          !.dma = on, !.pending = off, !.min = min, !.ends = none, !.cb = on]
           q == DSP_DoDMATransfer([s EXCEPT !.total = size, !.autoinit = again])
<1>1. q = OnMask(r)
  BY DEF DSP_DoDMATransfer, Register_Callback, Card
<1>2. /\ on \in BOOLEAN /\ off \in BOOLEAN /\ none \in SUBSET Nat /\ pause \in Modes
      /\ pause \notin {"DMA", "DMA_REQUIRE_IRQ_ACK"} /\ left \in Nat \ {0} /\ left = size
      /\ min \in Rates
  BY SizesAre DEF Modes, Card
<1>3. s.silents = << >>
  BY DEF Dark
<1> HIDE DEF on, off, none, pause, left, min, q
<1>4. /\ r \in Card /\ r.total = size /\ r.mode = pause /\ r.left = left
      /\ r.dma = on /\ r.min = min /\ r.ends = none
  <2> DEFINE t == [s EXCEPT !.total = size, !.autoinit = again, !.mode = pause, !.left = left]
  <2>1. size \in Sizes \cup {0} /\ min \in Rates \cup {0} /\ left \in Nat
    BY <1>2
  <2>2. t \in Card /\ t.total = size /\ t.mode = pause /\ t.left = left
    BY <1>2, <2>1 DEF Card
  <2>3. r = [t EXCEPT !.dma = on, !.pending = off, !.min = min, !.ends = none, !.cb = on]
    OBVIOUS
  <2> HIDE DEF t, r
  <2> QED
    BY <1>2, <2>1, <2>2, <2>3 DEF Card
<1>5. r.silents = s.silents /\ r.freq = s.freq
  BY DEF Card
<1> HIDE DEF r
<1>6. Ordered(r) /\ Fed(r) /\ ~Dark(r)
  BY <1>2, <1>3, <1>4, <1>5 DEF Ordered, Fed, Dark, none, on, min
<1>7. q \in Card /\ Ordered(q) /\ Fed(q) /\ Units(q) = Units(r)
  BY <1>1, <1>4, <1>6, Masks
<1> QED
  BY <1>2, <1>4, <1>7 DEF Good, Units, q, on

LEMMA Starts ==
  ASSUME NEW s, Good(s), NEW size \in Sizes, NEW again \in BOOLEAN, ~Dark(s),
         NEW q, \/ q = DSP_PrepareDMA_Old(s, size, again)
                \/ s.sb16 /\ q = DSP_PrepareDMA_New(s, size, again)
  PROVE  Good(q) /\ (InStepNow(q) => Stepped(q))
<1>1. s \in Card /\ Ordered(s) /\ Fed(s) /\ size \in Nat \ {0}
  BY SizesAre DEF Good
<1>2. SUFFICES Good(q) /\ q.left = q.total /\ q.total \in Nat \ {0}
  BY <1>2, ZeroMod DEF InStepNow, Stepped
<1>3. CASE s.mode = "DMA" /\ s.sb16 /\ q = DSP_PrepareDMA_New(s, size, again)
  <2> DEFINE total == IF again THEN s.total ELSE size
             left == total
  <2>1. s.dma /\ s.total \in Sizes /\ s.silents = << >>
    BY <1>1, <1>3 DEF Ordered, Dark, Heard, Card
  <2>2. total \in Sizes /\ left = total /\ left \in Nat \ {0}
    BY <2>1, SizesAre
  <2>3. q = [s EXCEPT !.total = total, !.left = left, !.autoinit = again]
    BY <1>3 DEF DSP_PrepareDMA_New
  <2> HIDE DEF total, left
  <2>4. /\ q \in Card /\ q.total = total /\ q.left = left /\ Queues(q) = Queues(s)
        /\ q.mode = s.mode /\ q.dma = s.dma /\ q.sb16 = s.sb16 /\ q.speaker = s.speaker
        /\ q.freq = s.freq /\ q.min = s.min
    BY <1>1, <2>2, <2>3 DEF Card, Queues
  <2>5. Ordered(q) /\ Fed(q)
    BY <1>1, <1>3, <2>1, <2>2, <2>4 DEF Ordered, Fed, Dark, Heard, Queues
  <2> QED
    BY <2>2, <2>4, <2>5 DEF Good
<1>4. CASE q = DSP_DoDMATransfer([s EXCEPT !.total = size, !.autoinit = again])
  <2>1. Good(q) /\ q.left = q.total /\ q.dma
    BY <1>1, <1>4, Transfer
  <2>2. q.total \in Nat /\ q.total > 0
    BY <2>1, FieldsAre DEF Good, Ordered
  <2> QED
    BY <2>1, <2>2
<1> QED
  BY <1>3, <1>4 DEF DSP_PrepareDMA_Old, DSP_PrepareDMA_New

(* A new size, with nothing else.                                          *)
LEMMA Resizes ==
  ASSUME NEW s, Good(s), NEW size \in Sizes
  PROVE  Good(SetBlockSize(s, size))
<1> DEFINE q == [s EXCEPT !.total = size]
<1>1. s \in Card /\ Ordered(s) /\ Fed(s) /\ size \in Nat \ {0}
  BY SizesAre DEF Good
<1>2. q \in Card /\ q.total = size /\ Rest(q) = <<s.cb, s.sb16, s.autoinit, s.freq, s.min, s.speaker, s.irqs>>
      /\ Queues(q) = Queues(s) /\ q.mode = s.mode /\ q.dma = s.dma /\ q.left = s.left
  BY <1>1 DEF Card, Queues, Rest
<1> HIDE DEF q
<1>3. Ordered(q) /\ Fed(q)
  BY <1>1, <1>2 DEF Ordered, Fed, Dark, Heard, Rest, Queues
<1> QED
  BY <1>2, <1>3 DEF Good, SetBlockSize, q

(* The rate is not lowered under the END event of a short block.           *)
LEMMA Rated ==
  ASSUME NEW s, Good(s), NEW freq \in Rates, freq >= s.freq \/ s.ends = {},
         NEW q \in DSP_ChangeRate(s, freq)
  PROVE  Keeps(s, q)
<1>1. PICK t \in IF freq # s.freq /\ s.dma THEN FillUp(s) ELSE {s} :
        q = [t EXCEPT !.freq = freq, !.min = IF s.dma THEN freq ELSE @]
  BY DEF DSP_ChangeRate
<1>2. /\ Keeps(s, t) /\ Rest(t) = Rest(s) /\ t.ends \subseteq s.ends /\ t.dma \in BOOLEAN
  <2>1. CASE freq # s.freq /\ s.dma
    <3>1. Keeps(s, t) /\ Rest(t) = Rest(s) /\ t.ends \subseteq s.ends
      BY <1>1, <2>1, Fills
    <3> QED
      BY <3>1, FieldsAre DEF Keeps, Good
  <2>2. CASE ~(freq # s.freq /\ s.dma)
    BY <1>1, <2>2, KeepsUnits, FieldsAre DEF Good
  <2> QED
    BY <2>1, <2>2
<1>3. /\ t \in Card /\ Ordered(t) /\ Fed(t) /\ s \in Card /\ freq \in Nat \ {0}
      /\ s.freq \in Nat /\ t.ends \subseteq Nat /\ t.freq = s.freq /\ (t.dma => s.dma)
  BY <1>2, FieldsAre, SizesAre DEF Keeps, Good, Rest
<1> DEFINE min == IF s.dma THEN freq ELSE t.min
<1>4. min \in Rates \cup {0} /\ (t.dma => min = freq)
  BY <1>3 DEF Card
<1>5. q = [t EXCEPT !.freq = freq, !.min = min]
  BY <1>1
<1>6. \A v \in t.ends : 0 < v /\ v < min
  <2> SUFFICES ASSUME NEW v \in t.ends PROVE 0 < v /\ v < min
    OBVIOUS
  <2>1. t.dma /\ 0 < v /\ v < t.min /\ t.min = t.freq /\ v \in Nat
    BY <1>3 DEF Ordered
  <2>2. s.ends # {} /\ freq >= s.freq
    BY <1>2
  <2> QED
    BY <1>3, <1>4, <2>1, <2>2
<1> HIDE DEF min
<1>7. /\ q \in Card /\ q.freq = freq /\ q.min = min /\ Units(q) = Units(t)
      /\ Queues(q) = Queues(t) /\ q.mode = t.mode /\ q.sb16 = t.sb16 /\ q.speaker = t.speaker
  BY <1>3, <1>4, <1>5 DEF Card, Queues, Units
<1>8. Ordered(q) /\ Fed(q)
  BY <1>3, <1>4, <1>6, <1>7 DEF Ordered, Fed, Dark, Heard, Units, Queues
<1>9. Keeps(t, q)
  BY <1>7, <1>8, KeepsUnits DEF Good
<1> QED
  BY <1>2, <1>9, KeepsOn

(* Where nothing moves but flags, events that are dropped and pauses.      *)
Sound(s) == <<s.sb16, s.speaker, s.freq, s.min, s.silents>>

LEMMA Tweaks ==
  ASSUME NEW s, Good(s), NEW q \in Card, Units(q) = Units(s), Sound(q) = Sound(s),
         q.ends \subseteq s.ends, q.mode \in {s.mode, "DMA_PAUSE", "DMA_MASKED"}
  PROVE  Keeps(s, q)
<1>1. s \in Card /\ Ordered(s) /\ Fed(s)
  BY DEF Good
<1>2. Ordered(q) /\ Fed(q)
  BY <1>1 DEF Ordered, Fed, Dark, Heard, Units, Sound
<1> QED
  BY <1>2, KeepsUnits DEF Good

LEMMA Halts ==
  ASSUME NEW s, Good(s), NEW q \in Halt(s)
  PROVE  Keeps(s, q)
<1> DEFINE pause == "DMA_PAUSE"
           none == {}
<1>1. PICK t \in FillUp(s) : q = [t EXCEPT !.mode = pause, !.ends = none]
  BY DEF Halt
<1>2. Keeps(s, t) /\ t \in Card
  BY Fills DEF Keeps, Good
<1>3. pause \in Modes /\ none \in SUBSET Nat
  BY DEF Modes
<1> HIDE DEF pause, none
<1>4. /\ q \in Card /\ Units(q) = Units(t) /\ Sound(q) = Sound(t)
      /\ q.ends = none /\ q.mode = pause
  BY <1>1, <1>2, <1>3 DEF Card, Units, Sound
<1>5. Keeps(t, q)
  BY <1>2, <1>4, Tweaks DEF Keeps, pause, none
<1> QED
  BY <1>2, <1>5, KeepsOn

LEMMA Continues ==
  ASSUME NEW s, Good(s), ~Dark(s), NEW q \in Continue(s)
  PROVE  Keeps(s, q)
<1> DEFINE masked == "DMA_MASKED"
           on == TRUE
<1>1. PICK t \in FillUp(s) :
        q = IF t.mode = "DMA_PAUSE" THEN Register_Callback([t EXCEPT !.mode = masked]) ELSE t
  BY DEF Continue
<1>2. Keeps(s, t) /\ t \in Card /\ Good(t) /\ t.silents = << >>
  BY Fills DEF Keeps, Good, Dark
<1>3. CASE q = t
  BY <1>2, <1>3
<1>4. CASE q = Register_Callback([t EXCEPT !.mode = masked])
  <2> DEFINE r == [t EXCEPT !.mode = masked, !.cb = on]
  <2>1. q = OnMask(r)
    BY <1>2, <1>4 DEF Register_Callback, Card
  <2>2. masked \in Modes /\ on \in BOOLEAN
    BY DEF Modes
  <2> HIDE DEF masked, on
  <2>3. /\ r \in Card /\ Units(r) = Units(t) /\ Sound(r) = Sound(t)
        /\ r.ends = t.ends /\ r.mode = masked
    BY <1>2, <2>2 DEF Card, Units, Sound
  <2> HIDE DEF r
  <2>4. Keeps(t, r) /\ ~Dark(r)
    BY <1>2, <2>3, Tweaks DEF masked, Dark, Sound
  <2>5. Good(q) /\ Units(q) = Units(r)
    BY <2>1, <2>3, <2>4, Masks DEF Keeps, Good
  <2> QED
    BY <1>2, <2>4, <2>5, KeepsUnits, KeepsOn
<1> QED
  BY <1>1, <1>3, <1>4

LEMMA SetsAutoinit ==
  ASSUME NEW s, Good(s), NEW on \in BOOLEAN
  PROVE  Keeps(s, [s EXCEPT !.autoinit = on])
<1> DEFINE q == [s EXCEPT !.autoinit = on]
<1>1. s \in Card
  BY DEF Good
<1>2. /\ q \in Card /\ Units(q) = Units(s) /\ Sound(q) = Sound(s)
      /\ q.ends = s.ends /\ q.mode = s.mode
  BY <1>1 DEF Card, Units, Sound
<1> HIDE DEF q
<1> QED
  BY <1>2, Tweaks DEF q

LEMMA Autoinits ==
  ASSUME NEW s, Good(s), NEW q \in ExitAutoinit(s) \cup ContinueAutoinit(s)
  PROVE  Keeps(s, q)
<1> DEFINE off == FALSE
           on == TRUE
           r == [s EXCEPT !.autoinit = off]
<1>1. off \in BOOLEAN /\ on \in BOOLEAN
  OBVIOUS
<1>2. CASE q \in ContinueAutoinit(s)
  <2>1. PICK t \in FillUp(s) : q = [t EXCEPT !.autoinit = on]
    BY <1>2 DEF ContinueAutoinit
  <2> HIDE DEF on
  <2>2. Keeps(s, t)
    BY Fills
  <2>3. Keeps(t, q)
    BY <1>1, <2>1, <2>2, SetsAutoinit DEF Keeps
  <2> QED
    BY <2>2, <2>3, KeepsOn
<1>3. CASE q \in ExitAutoinit(s)
  <2>1. q \in FillUp(r)
    BY <1>3 DEF ExitAutoinit
  <2>2. Keeps(s, r)
    <3> HIDE DEF off
    <3> QED
      BY <1>1, SetsAutoinit
  <2> HIDE DEF r
  <2>3. Keeps(r, q)
    BY <2>1, <2>2, Fills DEF Keeps
  <2> QED
    BY <2>2, <2>3, KeepsOn
<1> QED
  BY <1>2, <1>3

LEMMA Asks ==
  ASSUME NEW s, Good(s), NEW n \in Nat
  PROVE  Keeps(s, [s EXCEPT !.irqs = n])
<1> DEFINE q == [s EXCEPT !.irqs = n]
<1>1. s \in Card
  BY DEF Good
<1>2. /\ q \in Card /\ Units(q) = Units(s) /\ Sound(q) = Sound(s)
      /\ q.ends = s.ends /\ q.mode = s.mode
  BY <1>1 DEF Card, Units, Sound
<1> HIDE DEF q
<1> QED
  BY <1>2, Tweaks DEF q

LEMMA Raises ==
  ASSUME NEW s, Good(s)
  PROVE  Keeps(s, SB_RaiseIRQ(s))
<1> DEFINE on == TRUE
           line == s.line \/ ~s.pending
           q == [s EXCEPT !.pending = on, !.line = line]
<1>1. s \in Card /\ on \in BOOLEAN /\ line \in BOOLEAN
  BY DEF Good, Card
<1>2. SB_RaiseIRQ(s) = q
  BY DEF SB_RaiseIRQ
<1> HIDE DEF on, line
<1>3. /\ q \in Card /\ Units(q) = Units(s) /\ Sound(q) = Sound(s)
      /\ q.ends = s.ends /\ q.mode = s.mode
  BY <1>1 DEF Card, Units, Sound
<1> HIDE DEF q
<1> QED
  BY <1>2, <1>3, Tweaks

(* A Sound Blaster 16 that waits for the answer plays on with it.          *)
LEMMA Acknowledges ==
  ASSUME NEW s, Good(s)
  PROVE  Keeps(s, Acknowledge(s))
<1> DEFINE off == FALSE
           line == s.line /\ ~s.pending
           mode == IF s.mode = "DMA_REQUIRE_IRQ_ACK" THEN "DMA" ELSE s.mode
           q == [s EXCEPT !.pending = off, !.line = line, !.mode = mode]
<1>1. s \in Card /\ off \in BOOLEAN /\ line \in BOOLEAN /\ mode \in Modes
      /\ Ordered(s) /\ Fed(s)
  BY DEF Good, Card, Modes
<1>2. Acknowledge(s) = q
  BY DEF Acknowledge
<1>3. /\ mode \in {"DMA", "DMA_REQUIRE_IRQ_ACK"} => s.dma
      /\ mode # "DMA_REQUIRE_IRQ_ACK"
      /\ mode = "DMA" => Heard(s) \/ Dark(s)
  BY <1>1 DEF Ordered, Fed, Heard
<1> HIDE DEF off, line, mode
<1>4. /\ q \in Card /\ Units(q) = Units(s) /\ Sound(q) = Sound(s)
      /\ q.ends = s.ends /\ q.mode = mode
  BY <1>1 DEF Card, Units, Sound
<1> HIDE DEF q
<1>5. Ordered(q) /\ Fed(q)
  BY <1>1, <1>3, <1>4 DEF Ordered, Fed, Dark, Heard, Units, Sound
<1> QED
  BY <1>2, <1>4, <1>5, KeepsUnits DEF Good

(* A reset leaves no transfer, and so may leave no Silent event.           *)
LEMMA Resets ==
  ASSUME NEW s, Good(s), ~Dark(s), NEW q \in DSP_Reset(s)
  PROVE  Keeps(s, q)
<1> DEFINE off == FALSE
           none == {}
           zero == 0
           mode == "NONE"
           lowered == [s EXCEPT !.line = off]
<1>1. PICK t \in {lowered} \cup FillUp(lowered) :
        q = [t EXCEPT !.mode = mode, !.left = zero, !.total = zero, !.autoinit = off,
                      !.dma = off, !.pending = off, !.ends = none]
  BY DEF DSP_Reset
<1>2. /\ off \in BOOLEAN /\ none \in SUBSET Nat /\ zero \in Nat /\ zero \in Sizes \cup {0}
      /\ mode \in Modes /\ mode \notin {"DMA", "DMA_REQUIRE_IRQ_ACK"}
  BY DEF Modes
<1>3. Good(lowered) /\ ~Dark(lowered)
  <2>1. s \in Card
    BY DEF Good
  <2> HIDE DEF off
  <2>2. /\ lowered \in Card /\ Units(lowered) = Units(s) /\ Sound(lowered) = Sound(s)
        /\ lowered.ends = s.ends /\ lowered.mode = s.mode
    BY <1>2, <2>1 DEF Card, Units, Sound
  <2> HIDE DEF lowered
  <2>3. Keeps(s, lowered)
    BY <2>2, Tweaks
  <2> QED
    BY <2>2, <2>3 DEF Keeps, Dark, Sound
<1> HIDE DEF lowered
<1>4. t \in Card /\ t.silents = << >>
  <2>1. CASE t = lowered
    BY <1>3, <2>1 DEF Good, Dark
  <2>2. CASE t \in FillUp(lowered)
    BY <1>3, <2>2, Fills DEF Keeps, Good, Dark
  <2> QED
    BY <2>1, <2>2
<1> DEFINE r == [t EXCEPT !.mode = mode, !.left = zero, !.total = zero, !.autoinit = off]
<1>5. q = [r EXCEPT !.dma = off, !.pending = off, !.ends = none]
  BY <1>1
<1> HIDE DEF off, none, zero, mode
<1>6. r \in Card /\ r.mode = mode /\ r.left = zero /\ r.silents = t.silents
  BY <1>2, <1>4 DEF Card
<1> HIDE DEF r
<1>7. /\ q \in Card /\ q.mode = mode /\ q.left = zero /\ q.silents = t.silents
      /\ q.dma = off /\ q.ends = none
  BY <1>2, <1>5, <1>6 DEF Card
<1>8. Ordered(q) /\ Fed(q)
  BY <1>2, <1>4, <1>7 DEF Ordered, Fed, Dark, off, none, zero
<1> QED
  BY <1>7, <1>8 DEF Keeps, Good, off

(***************************************************************************)
(* Switching the speaker on hands a transfer over from the Silent events   *)
(* to the mixer; off, it is only switched where nothing plays.             *)
(***************************************************************************)
LEMMA Speaks ==
  ASSUME NEW s, Good(s), ~s.sb16, NEW how \in BOOLEAN, ~how => ~s.dma
  PROVE  Keeps(s, DSP_SetSpeaker(s, how))
<1> DEFINE set == [s EXCEPT !.speaker = how]
           empty == << >>
           r == [set EXCEPT !.silents = empty]
           q == DSP_SetSpeaker(s, how)
<1>1. s \in Card /\ Ordered(s) /\ Fed(s) /\ s.speaker \in BOOLEAN
  BY FieldsAre DEF Good
<1>2. CASE s.speaker = how
  BY <1>2, KeepsUnits DEF DSP_SetSpeaker
<1>3. /\ set \in Card /\ set.speaker = how /\ Units(set) = Units(s) /\ Queues(set) = Queues(s)
      /\ set.mode = s.mode /\ set.sb16 = s.sb16 /\ set.freq = s.freq /\ set.min = s.min
  BY <1>1 DEF Card, Units, Queues
<1>4. CASE s.speaker # how /\ ~how
  <2>1. q = set
    BY <1>3, <1>4 DEF DSP_SetSpeaker
  <2> HIDE DEF set, q
  <2>2. Ordered(set) /\ Fed(set)
    BY <1>1, <1>3, <1>4 DEF Ordered, Fed, Dark, Heard, Units, Queues
  <2> QED
    BY <1>3, <2>1, <2>2, KeepsUnits DEF Good, q
<1>5. CASE s.speaker # how /\ how
  <2>1. q = CheckDMAEnd(r)
    BY <1>1, <1>5 DEF DSP_SetSpeaker, Card
  <2>2. empty \in Seq(Nat)
    OBVIOUS
  <2> HIDE DEF set, q, empty
  <2>3. /\ r \in Card /\ r.silents = empty /\ Rest(r) = Rest(set) /\ Units(r) = Units(set)
        /\ r.ends = set.ends /\ r.mode = set.mode
    BY <1>3, <2>2 DEF Card, Units, Rest
  <2> HIDE DEF r
  <2>4. Ordered(r) /\ ~Dark(r)
    BY <1>1, <1>3, <1>5, <2>3 DEF Ordered, Dark, Heard, Units, Queues, Rest, empty
  <2>5. Good(q) /\ Units(q) = Units(r)
    BY <2>1, <2>3, <2>4, Checks
  <2> QED
    BY <1>3, <2>3, <2>5, KeepsUnits DEF q
<1> QED
  BY <1>1, <1>2, <1>4, <1>5

-----------------------------------------------------------------------------
(* The channel, and the events. *)

(* Another state of the channel, with the same memory left or not.         *)
LEMMA Switches ==
  ASSUME NEW s, Good(s), NEW chan \in Chan
  PROVE  LET q == [s EXCEPT !.chan = chan]
         IN  /\ Good(q) /\ q.mode = s.mode /\ q.dma = s.dma /\ q.silents = s.silents
             /\ chan.currcnt = s.chan.currcnt /\ chan.basecnt = s.chan.basecnt => Keeps(s, q)
<1> DEFINE q == [s EXCEPT !.chan = chan]
<1>1. s \in Card /\ Ordered(s) /\ Fed(s)
  BY DEF Good
<1>2. /\ q \in Card /\ q.chan = chan /\ q.left = s.left /\ q.total = s.total /\ q.dma = s.dma
      /\ Sound(q) = Sound(s) /\ q.ends = s.ends /\ q.mode = s.mode
  BY <1>1 DEF Card, Sound
<1> HIDE DEF q
<1>3. Ordered(q) /\ Fed(q)
  BY <1>1, <1>2 DEF Ordered, Fed, Dark, Heard, Sound
<1>4. Good(q)
  BY <1>2, <1>3 DEF Good
<1>5. ASSUME chan.currcnt = s.chan.currcnt, chan.basecnt = s.chan.basecnt
      PROVE  Keeps(s, q)
  BY <1>2, <1>4, <1>5 DEF Keeps, Stepped
<1> QED
  BY <1>2, <1>4, <1>5 DEF Sound, q

LEMMA SetsMask ==
  ASSUME NEW s, Good(s), NEW mask \in BOOLEAN, ~mask => ~Dark(s)
  PROVE  Keeps(s, SetMask(s, mask))
<1> DEFINE chan == [s.chan EXCEPT !.masked = mask]
           r == [s EXCEPT !.chan = chan]
           q == SetMask(s, mask)
<1>1. s \in Card /\ s.chan \in Chan
  BY FieldsAre DEF Good
<1>2. /\ chan \in Chan /\ chan.masked = mask /\ chan.currcnt = s.chan.currcnt
      /\ chan.basecnt = s.chan.basecnt
  BY <1>1 DEF Chan
<1>3. q = OnMask(r) /\ r.chan = chan
  BY <1>1 DEF SetMask, Card
<1> HIDE DEF chan, q
<1>4. Keeps(s, r) /\ r.silents = s.silents
  BY <1>2, Switches
<1> HIDE DEF r
<1>5. Good(q) /\ Units(q) = Units(r)
  BY <1>2, <1>3, <1>4, Masks DEF Keeps, Good, Dark
<1> QED
  BY <1>4, <1>5, KeepsUnits, KeepsOn DEF q

LEMMA SetsMode ==
  ASSUME NEW s, Good(s), NEW autoinit \in BOOLEAN
  PROVE  Keeps(s, [s EXCEPT !.chan = SetMode(s.chan, autoinit)])
<1> DEFINE chan == SetMode(s.chan, autoinit)
<1>1. s.chan \in Chan
  BY FieldsAre DEF Good
<1>2. chan \in Chan /\ chan.currcnt = s.chan.currcnt /\ chan.basecnt = s.chan.basecnt
  BY <1>1 DEF Chan, SetMode
<1> HIDE DEF chan
<1>3. Keeps(s, [s EXCEPT !.chan = chan])
  BY <1>2, Switches
<1> QED
  BY <1>3 DEF chan

LEMMA SetsCount ==
  ASSUME NEW s, Good(s), NEW count \in ChannelCounts
  PROVE  Good([s EXCEPT !.chan = SetCount(s.chan, count)])
<1> DEFINE chan == SetCount(s.chan, count)
<1>1. s.chan \in Chan /\ count \in 0 .. (Counts - 1)
  BY FieldsAre, SizesAre DEF Good
<1>2. chan \in Chan
  BY <1>1 DEF Chan, SetCount
<1> HIDE DEF chan
<1>3. Good([s EXCEPT !.chan = chan])
  BY <1>2, Switches
<1> QED
  BY <1>3 DEF chan

(* The END event of a short block takes the units that it was queued for.  *)
LEMMA EndsBlock ==
  ASSUME NEW s, Good(s), NEW val \in s.ends
  PROVE  Keeps(s, GenerateDMASound([s EXCEPT !.ends = @ \ {val}], val))
<1> DEFINE fewer == s.ends \ {val}
           r == [s EXCEPT !.ends = fewer]
<1>1. /\ s \in Card /\ Ordered(s) /\ s.ends \in SUBSET Nat /\ s.min \in Nat /\ s.left \in Nat
  BY FieldsAre DEF Good
<1>2. val \in Nat \ {0} /\ val < s.min /\ Heard(s)
  BY <1>1 DEF Ordered
<1>3. fewer \in SUBSET Nat /\ fewer \subseteq s.ends
  BY <1>1
<1> HIDE DEF fewer
<1>4. /\ r \in Card /\ Units(r) = Units(s) /\ Sound(r) = Sound(s)
      /\ r.ends = fewer /\ r.mode = s.mode
  BY <1>1, <1>3 DEF Card, Units, Sound
<1> HIDE DEF r
<1>5. Keeps(s, r)
  BY <1>3, <1>4, Tweaks
<1>6. Good(r) /\ Heard(r) /\ r.left = s.left /\ r.min = s.min
  BY <1>2, <1>4, <1>5 DEF Keeps, Heard, Units, Sound
<1>7. r.left > r.min => val <= r.left
  BY <1>1, <1>2, <1>6
<1>8. Keeps(r, GenerateDMASound(r, val))
  BY <1>2, <1>6, <1>7, Generates
<1>9. Keeps(s, GenerateDMASound(r, val))
  BY <1>5, <1>8, KeepsOn
<1> QED
  BY <1>9 DEF r, fewer

LEMMA SilentEnds ==
  ASSUME NEW s, Good(s), NEW i \in DOMAIN s.silents
  PROVE  Keeps(s, DMA_Silent_Event([s EXCEPT !.silents = RemoveAt(@, i)], s.silents[i]))
<1> DEFINE val == s.silents[i]
<1>1. s \in Card /\ s.silents \in Seq(Nat) /\ s.silents # << >>
  BY FieldsAre DEF Good
<1>2. Dark(s) /\ Len(s.silents) = 1
  BY <1>1 DEF Good, Ordered, Dark
<1>3. i = 1 /\ RemoveAt(s.silents, i) = << >> /\ val \in Nat
  BY <1>1, <1>2, OneSilent
<1> HIDE DEF val
<1>4. Keeps(s, DMA_Silent_Event([s EXCEPT !.silents = << >>], val))
  BY <1>2, <1>3, Silences
<1> QED
  BY <1>3, <1>4 DEF val

-----------------------------------------------------------------------------
(* The invariant. *)

LEMMA Begun ==
  ASSUME Init
  PROVE  Inv
<1>1. PICK s16 \in Sb16, rate \in Rates :
        sb = [chan |-> Unused, cb |-> FALSE, sb16 |-> s16, mode |-> "NONE", dma |-> FALSE,
              left |-> 0, total |-> 0, autoinit |-> FALSE, freq |-> rate, min |-> 0,
              speaker |-> FALSE, pending |-> FALSE, line |-> FALSE,
              ends |-> {}, silents |-> << >>, irqs |-> 0]
  <2>1. sb.sb16 \in Sb16 /\ sb.freq \in Rates
    BY DEF Init
  <2>2. sb = [chan |-> Unused, cb |-> FALSE, sb16 |-> sb.sb16, mode |-> "NONE", dma |-> FALSE,
              left |-> 0, total |-> 0, autoinit |-> FALSE, freq |-> sb.freq, min |-> 0,
              speaker |-> FALSE, pending |-> FALSE, line |-> FALSE,
              ends |-> {}, silents |-> << >>, irqs |-> 0]
    BY DEF Init
  <2> QED
    BY <2>1, <2>2
<1>2. Unused \in Chan
  BY SizesAre DEF Unused, Chan
<1>3. sb \in Card
  <2>1. s16 \in BOOLEAN /\ "NONE" \in Modes /\ << >> \in Seq(Nat) /\ {} \in SUBSET Nat
    BY SizesAre DEF Modes
  <2> QED
    BY <1>1, <1>2, <2>1 DEF Card
<1>4. Ordered(sb) /\ Fed(sb) /\ ~sb.dma
  BY <1>1 DEF Ordered, Fed, Dark
<1> QED
  BY <1>3, <1>4 DEF Inv, Good

(* A step that keeps the transfer and its memory's start keeps the rest.   *)
LEMMA Stays ==
  ASSUME Inv, NEW q, Keeps(sb, q), sb' = q, aligned' = aligned
  PROVE  Inv'
BY DEF Inv, Keeps, Stepped, Good, Ordered, Fed, Dark, Heard

(***************************************************************************)
(* Every step of a careful program, of the mixer and of the events.        *)
(***************************************************************************)
LEMMA Steps ==
  ASSUME Careful, Inv, Next
  PROVE  Inv'
<1>1. Good(sb)
  BY DEF Inv
<1>2. ASSUME NEW results, sb' \in results, UNCHANGED aligned,
             \A q \in results : Keeps(sb, q)
      PROVE  Inv'
  BY <1>2, Stays
<1>3. CASE Start
  <2>1. PICK size \in Sizes, autoinit \in BOOLEAN :
          \/ Begins(DSP_PrepareDMA_Old(sb, size, autoinit))
          \/ sb.sb16 /\ Begins(DSP_PrepareDMA_New(sb, size, autoinit))
    BY <1>3 DEF Start
  <2>2. ~Dark(sb)
    BY <1>3 DEF Start, StartsWell
  <2>3. PICK q : /\ sb' = q /\ aligned' = InStepNow(q)
                 /\ \/ q = DSP_PrepareDMA_Old(sb, size, autoinit)
                    \/ sb.sb16 /\ q = DSP_PrepareDMA_New(sb, size, autoinit)
    BY <2>1 DEF Begins
  <2>4. Good(q) /\ (InStepNow(q) => Stepped(q))
    BY <1>1, <2>2, <2>3, Starts
  <2>5. Good(sb') /\ (aligned' => Stepped(sb'))
    BY <2>3, <2>4
  <2> QED
    BY <2>5 DEF Inv, Good, Ordered, Fed, Dark, Heard, Stepped
<1>4. ASSUME NEW q, Good(q), Moves(q)
      PROVE  Inv'
  <2>1. Good(sb') /\ ~aligned'
    BY <1>4 DEF Moves
  <2> QED
    BY <2>1 DEF Inv, Good, Ordered, Fed, Dark, Heard
<1>5. CASE SetSize
  BY <1>1, <1>4, <1>5, Resizes DEF SetSize
<1>6. CASE SetRate
  <2>1. PICK freq \in Rates :
          (freq >= sb.freq \/ sb.ends = {}) /\ Goes(DSP_ChangeRate(sb, freq))
    BY <1>6 DEF SetRate
  <2>2. \A q \in DSP_ChangeRate(sb, freq) : Keeps(sb, q)
    BY <1>1, <2>1, Rated
  <2> QED
    BY <1>2, <2>1, <2>2 DEF Goes
<1>7. CASE Speaker
  <2>1. PICK how \in BOOLEAN, s \in FillUp(sb) :
          ~sb.sb16 /\ (~how => ~sb.dma) /\ sb' = DSP_SetSpeaker(s, how) /\ UNCHANGED aligned
    BY <1>7 DEF Speaker, Goes
  <2>2. Keeps(sb, s) /\ Good(s) /\ s.sb16 = sb.sb16 /\ (s.dma => sb.dma)
    BY <1>1, Fills DEF Keeps, Rest
  <2>3. Keeps(s, DSP_SetSpeaker(s, how))
    BY <2>1, <2>2, Speaks
  <2>4. Keeps(sb, DSP_SetSpeaker(s, how))
    BY <2>2, <2>3, KeepsOn
  <2> QED
    BY <2>1, <2>4, Stays
<1>8. CASE HaltDMA
  BY <1>1, <1>2, <1>8, Halts DEF HaltDMA, Goes
<1>9. CASE ContinueDMA
  BY <1>1, <1>2, <1>9, Continues DEF ContinueDMA, Goes
<1>10. CASE Autoinit
  <2>1. sb' \in ExitAutoinit(sb) \cup ContinueAutoinit(sb) /\ UNCHANGED aligned
    BY <1>10 DEF Autoinit, Goes
  <2>2. \A q \in ExitAutoinit(sb) \cup ContinueAutoinit(sb) : Keeps(sb, q)
    BY <1>1, Autoinits
  <2> QED
    BY <1>2, <2>1, <2>2
<1>11. CASE Ask
  <2>1. sb' = [sb EXCEPT !.irqs = 1] /\ UNCHANGED aligned
    BY <1>11 DEF Ask, Goes
  <2>2. Keeps(sb, [sb EXCEPT !.irqs = 1])
    BY <1>1, Asks
  <2> QED
    BY <2>1, <2>2, Stays
<1>12. CASE ReadStatus
  <2>1. sb' = Acknowledge(sb) /\ UNCHANGED aligned
    BY <1>12 DEF ReadStatus, Goes
  <2>2. Keeps(sb, Acknowledge(sb))
    BY <1>1, Acknowledges
  <2> QED
    BY <2>1, <2>2, Stays
<1>13. CASE Reset
  BY <1>1, <1>2, <1>13, Resets DEF Reset, Goes
<1>14. CASE Channel
  <2>1. CASE Goes({SetMask(sb, TRUE)})
    <3>1. sb' = SetMask(sb, TRUE) /\ UNCHANGED aligned
      BY <2>1 DEF Goes
    <3>2. Keeps(sb, SetMask(sb, TRUE))
      BY <1>1, <2>1, SetsMask
    <3> QED
      BY <3>1, <3>2, Stays
  <2>2. CASE ~Dark(sb) /\ Goes({SetMask(sb, FALSE)})
    <3>1. sb' = SetMask(sb, FALSE) /\ UNCHANGED aligned
      BY <2>2 DEF Goes
    <3>2. Keeps(sb, SetMask(sb, FALSE))
      BY <1>1, <2>2, SetsMask
    <3> QED
      BY <3>1, <3>2, Stays
  <2>3. CASE \E autoinit \in BOOLEAN : Goes({[sb EXCEPT !.chan = SetMode(sb.chan, autoinit)]})
    <3>1. PICK autoinit \in BOOLEAN :
            sb' = [sb EXCEPT !.chan = SetMode(sb.chan, autoinit)] /\ UNCHANGED aligned
      BY <2>3 DEF Goes
    <3>2. Keeps(sb, [sb EXCEPT !.chan = SetMode(sb.chan, autoinit)])
      BY <1>1, SetsMode
    <3> QED
      BY <3>1, <3>2, Stays
  <2>4. CASE \E count \in ChannelCounts : Moves([sb EXCEPT !.chan = SetCount(sb.chan, count)])
    BY <1>1, <1>4, <2>4, SetsCount
  <2> QED
    BY <1>14, <2>1, <2>2, <2>3, <2>4 DEF Channel
<1>15. CASE Mixer
  <2>1. sb' \in FillUp(sb) /\ UNCHANGED aligned
    BY <1>15 DEF Mixer, Goes
  <2> QED
    BY <1>1, <1>2, <2>1, Fills
<1>16. CASE EndEvent
  <2>1. PICK val \in sb.ends :
          sb' = GenerateDMASound([sb EXCEPT !.ends = @ \ {val}], val) /\ UNCHANGED aligned
    BY <1>16 DEF EndEvent, Goes
  <2>2. Keeps(sb, GenerateDMASound([sb EXCEPT !.ends = @ \ {val}], val))
    BY <1>1, EndsBlock
  <2> QED
    BY <2>1, <2>2, Stays
<1>17. CASE SilentEvent
  <2>1. PICK i \in DOMAIN sb.silents :
          /\ sb' = DMA_Silent_Event([sb EXCEPT !.silents = RemoveAt(@, i)], sb.silents[i])
          /\ UNCHANGED aligned
    BY <1>17 DEF SilentEvent, Goes
  <2>2. Keeps(sb, DMA_Silent_Event([sb EXCEPT !.silents = RemoveAt(@, i)], sb.silents[i]))
    BY <1>1, SilentEnds
  <2> QED
    BY <2>1, <2>2, Stays
<1>18. CASE IrqEvent
  <2> DEFINE n == sb.irqs - 1
             r == [sb EXCEPT !.irqs = n]
  <2>1. sb' = SB_RaiseIRQ(r) /\ UNCHANGED aligned /\ n \in Nat
    <3>1. sb.irqs \in Nat /\ sb.irqs > 0
      BY <1>1, <1>18, FieldsAre DEF IrqEvent, Good
    <3> QED
      BY <1>18, <3>1 DEF IrqEvent, Goes
  <2> HIDE DEF n
  <2>2. Keeps(sb, r)
    BY <1>1, <2>1, Asks
  <2> HIDE DEF r
  <2>3. Keeps(r, SB_RaiseIRQ(r))
    BY <2>2, Raises DEF Keeps
  <2> QED
    BY <2>1, <2>2, <2>3, KeepsOn, Stays
<1> QED
  BY <1>3, <1>5, <1>6, <1>7, <1>8, <1>9, <1>10, <1>11, <1>12, <1>13, <1>14, <1>15, <1>16,
     <1>17, <1>18 DEF Next, Program

LEMMA Invariant ==
  ASSUME Careful
  PROVE  Spec => []Inv
<1>1. Init => Inv
  BY Begun
<1>2. Inv /\ [Next]_vars => Inv'
  <2>1. CASE Next
    BY <2>1, Steps
  <2>2. ASSUME Inv, UNCHANGED vars
        PROVE  Inv'
    BY <2>2 DEF vars, Inv, Good, Ordered, Fed, Dark, Heard, Stepped
  <2> QED
    BY <2>1, <2>2
<1> QED
  BY <1>1, <1>2, PTL DEF Spec

(***************************************************************************)
(* For programs that keep the rules, the channel's counts stay in their 16 *)
(* bits, what is left of a block is never negative, and the card stays in  *)
(* one of its modes.  The rule that matters is the one on rates: when the  *)
(* rate is lowered while the end of a short block is due, that event takes *)
(* more than is left and sb.dma.left wraps (GenerateDMASound).             *)
(***************************************************************************)
THEOREM TypeCorrect ==
  ASSUME Careful
  PROVE  Spec => [](sb \in Card)
<1>1. Inv => sb \in Card
  BY DEF Inv, Good
<1> QED
  BY <1>1, Invariant, PTL

(***************************************************************************)
(* A playing block has exactly one driver, the mixer or one chain of       *)
(* Silent events, and no event outlives its block: for careful programs,   *)
(* whatever the sizes, counts and rates.                                   *)
(***************************************************************************)
THEOREM OneDriver ==
  ASSUME Careful
  PROVE  Spec => []Driven
<1>1. Inv => Driven
  BY DEF Inv, Good, Ordered, Fed, Driven, Playing
<1> QED
  BY <1>1, Invariant, PTL

(***************************************************************************)
(* Block and channel stay in step, through masks, halts, rates, restarts   *)
(* of the channel and of the block, where the sizes of blocks divide the   *)
(* range of the channel's counter: a channel that runs out without         *)
(* auto-init is left at the end of that range.                             *)
(***************************************************************************)
THEOREM StaysInStep ==
  ASSUME Careful, \A size \in Sizes : Counts % size = 0
  PROVE  Spec => []InStep
<1>1. Fits
  BY DEF Fits
<1>2. Inv => InStep
  BY <1>1 DEF Inv, Stepped, InStep
<1> QED
  BY <1>2, Invariant, PTL

-----------------------------------------------------------------------------
(***************************************************************************)
(* The promise of BlockTransfer: each step is one of its steps.            *)
(***************************************************************************)

(* A masked transfer waits for the channel; the events are of transfers    *)
(* that play, or would if the channel were not masked.                     *)
Waits(s) ==
  /\ s.mode = "DMA_MASKED" /\ s.dma => s.chan.masked /\ s.cb
  /\ s.mode = "NONE" => ~s.dma
  /\ s.ends # {} \/ Dark(s) => s.mode \in {"DMA", "DMA_MASKED"}
  /\ s.irqs \in {0, 1}

Seen(s) ==
  [playing |-> Playing(s), left |-> s.left, size |-> s.total,
   again |-> s.autoinit, signal |-> s.pending, asked |-> s.irqs > 0]

(* What a step that takes units shows of the card.                         *)
Plays(s, q) == Waits(q) /\ Seen(q) \in Block!Now(Seen(s))

LEMMA SeenAlike ==
  ASSUME NEW s, NEW q, Seen(q) = Seen(s)
  PROVE  Seen(q) \in Block!Now(Seen(s))
BY DEF Block!Now

BlockState ==
  [playing : BOOLEAN, left : Nat, size : Nat, again : BOOLEAN, signal : BOOLEAN, asked : BOOLEAN]

LEMMA SameBlock ==
  ASSUME NEW b \in BlockState, NEW c \in BlockState, b.playing = c.playing, b.left = c.left,
         b.size = c.size, b.again = c.again, b.signal = c.signal, b.asked = c.asked
  PROVE  b = c
BY DEF BlockState

LEMMA SeenIs ==
  ASSUME NEW s \in Card
  PROVE  LET b == Seen(s)
         IN  /\ b \in BlockState /\ b.playing = Playing(s) /\ b.left = s.left /\ b.size = s.total
             /\ b.again = s.autoinit /\ b.signal = s.pending /\ b.asked = (s.irqs > 0)
<1> DEFINE on == Playing(s)
           asked == s.irqs > 0
<1>1. /\ on \in BOOLEAN /\ asked \in BOOLEAN /\ s.left \in Nat /\ s.total \in Nat
      /\ s.autoinit \in BOOLEAN /\ s.pending \in BOOLEAN
  BY FieldsAre DEF Playing
<1>2. Seen(s) = [playing |-> on, left |-> s.left, size |-> s.total,
                 again |-> s.autoinit, signal |-> s.pending, asked |-> asked]
  BY DEF Seen
<1> HIDE DEF on, asked
<1> QED
  BY <1>1, <1>2 DEF BlockState, on, asked

LEMMA StoppedIs ==
  ASSUME NEW b \in BlockState
  PROVE  LET c == Block!Stopped(b)
         IN  /\ c \in BlockState /\ c.playing = FALSE /\ c.left = b.left /\ c.size = b.size
             /\ c.again = b.again /\ c.signal = b.signal /\ c.asked = b.asked
<1> DEFINE off == FALSE
<1>1. Block!Stopped(b) = [b EXCEPT !.playing = off] /\ off \in BOOLEAN
  BY DEF Block!Stopped
<1> HIDE DEF off
<1> QED
  BY <1>1 DEF BlockState, off

LEMMA TakenIs ==
  ASSUME NEW b \in BlockState, NEW n \in 1 .. b.left
  PROVE  LET t == Block!Taken(b, n)
         IN  /\ t \in BlockState /\ t.size = b.size /\ t.again = b.again /\ t.asked = b.asked
             /\ \/ /\ n < b.left
                   /\ t.playing = b.playing /\ t.left = b.left - n /\ t.signal = b.signal
                \/ /\ n = b.left /\ b.again
                   /\ t.playing = b.playing /\ t.left = b.size /\ t.signal = TRUE
                \/ /\ n = b.left /\ ~b.again
                   /\ t.playing = FALSE /\ t.left = 0 /\ t.signal = TRUE
<1> DEFINE t == Block!Taken(b, n)
           on == TRUE
           off == FALSE
           none == 0
           less == b.left - n
           size == b.size
<1>1. b.left \in Nat /\ size \in Nat /\ b.again \in BOOLEAN /\ n \in Nat
  BY DEF BlockState
<1>2. on \in BOOLEAN /\ off \in BOOLEAN /\ none \in Nat
  OBVIOUS
<1>3. CASE n < b.left
  <2>1. t = [b EXCEPT !.left = less] /\ less \in Nat
    BY <1>1, <1>3 DEF Block!Taken
  <2> HIDE DEF t, less
  <2>2. /\ t \in BlockState /\ t.size = b.size /\ t.again = b.again /\ t.asked = b.asked
        /\ t.playing = b.playing /\ t.left = less /\ t.signal = b.signal
    BY <2>1 DEF BlockState
  <2> QED
    BY <1>1, <1>3, <2>2 DEF t, less
<1>4. CASE n = b.left /\ b.again
  <2>1. t = [b EXCEPT !.left = size, !.signal = on]
    BY <1>1, <1>4 DEF Block!Taken
  <2> HIDE DEF t, on, size
  <2>2. /\ t \in BlockState /\ t.size = b.size /\ t.again = b.again /\ t.asked = b.asked
        /\ t.playing = b.playing /\ t.left = size /\ t.signal = on
    BY <1>1, <1>2, <2>1 DEF BlockState
  <2> QED
    BY <1>1, <1>4, <2>2 DEF t, on, size
<1>5. CASE n = b.left /\ ~b.again
  <2>1. t = [b EXCEPT !.left = none, !.signal = on, !.playing = off]
    BY <1>1, <1>5 DEF Block!Taken
  <2> HIDE DEF t, on, none, off
  <2>2. /\ t \in BlockState /\ t.size = b.size /\ t.again = b.again /\ t.asked = b.asked
        /\ t.playing = off /\ t.left = none /\ t.signal = on
    BY <1>2, <2>1 DEF BlockState
  <2> QED
    BY <1>1, <1>5, <2>2 DEF t, on, none, off
<1>6. n < b.left \/ (n = b.left /\ b.again) \/ (n = b.left /\ ~b.again)
  BY <1>1
<1> QED
  BY <1>3, <1>4, <1>5, <1>6, Zenon

LEMMA Played ==
  ASSUME NEW s \in Card, NEW q \in Card, Playing(s), NEW n \in 1 .. s.left,
         q.total = s.total, q.autoinit = s.autoinit, q.irqs = s.irqs,
         \/ n < s.left /\ q.left = s.left - n /\ q.pending = s.pending
         \/ n = s.left /\ s.autoinit /\ q.left = s.total /\ q.pending = TRUE
         \/ n = s.left /\ ~s.autoinit /\ q.left = 0 /\ q.pending = TRUE /\ ~Playing(q)
  PROVE  Seen(q) \in Block!Now(Seen(s))
<1> DEFINE b == Seen(s)
           c == Seen(q)
           t == Block!Taken(b, n)
           u == Block!Stopped(t)
<1>1. /\ b \in BlockState /\ b.playing = TRUE /\ b.left = s.left /\ b.size = s.total
      /\ b.again = s.autoinit /\ b.signal = s.pending /\ b.asked = (s.irqs > 0)
      /\ s.left \in Nat /\ s.autoinit \in BOOLEAN
  BY SeenIs, FieldsAre DEF Playing
<1>2. /\ c \in BlockState /\ c.playing = Playing(q) /\ c.left = q.left /\ c.size = s.total
      /\ c.again = s.autoinit /\ c.signal = q.pending /\ c.asked = (s.irqs > 0)
  BY SeenIs
<1>3. t \in {Block!Taken(b, m) : m \in 1 .. b.left} /\ n \in 1 .. b.left
  BY <1>1
<1> HIDE DEF b, c
<1>4. /\ t \in BlockState /\ t.size = b.size /\ t.again = b.again /\ t.asked = b.asked
      /\ \/ /\ n < b.left
            /\ t.playing = b.playing /\ t.left = b.left - n /\ t.signal = b.signal
         \/ /\ n = b.left /\ b.again
            /\ t.playing = b.playing /\ t.left = b.size /\ t.signal = TRUE
         \/ /\ n = b.left /\ ~b.again
            /\ t.playing = FALSE /\ t.left = 0 /\ t.signal = TRUE
  BY <1>1, <1>3, TakenIs
<1> HIDE DEF t
<1>5. /\ u \in BlockState /\ u.playing = FALSE /\ u.left = t.left /\ u.size = t.size
      /\ u.again = t.again /\ u.signal = t.signal /\ u.asked = t.asked
  BY <1>4, StoppedIs
<1> HIDE DEF u
<1>6. c.left = t.left /\ c.signal = t.signal /\ (c.playing = t.playing \/ c.playing = FALSE)
  <2>1. c.playing \in BOOLEAN
    BY <1>2 DEF BlockState
  <2>2. /\ c.left = q.left /\ c.signal = q.pending /\ b.left = s.left /\ b.size = s.total
        /\ b.again = s.autoinit /\ b.signal = s.pending /\ b.playing = TRUE
        /\ s.left \in Nat /\ n \in 1 .. s.left
    BY <1>1, <1>2
  <2>3. CASE n < s.left /\ q.left = s.left - n /\ q.pending = s.pending
    <3>1. t.playing = b.playing /\ t.left = s.left - n /\ t.signal = s.pending
      BY <1>4, <2>2, <2>3
    <3> QED
      BY <2>1, <2>2, <2>3, <3>1
  <2>4. CASE n = s.left /\ s.autoinit /\ q.left = s.total /\ q.pending = TRUE
    <3>1. t.playing = b.playing /\ t.left = s.total /\ t.signal = TRUE
      BY <1>4, <2>2, <2>4
    <3> QED
      BY <2>1, <2>2, <2>4, <3>1
  <2>5. CASE n = s.left /\ ~s.autoinit /\ q.left = 0 /\ q.pending = TRUE /\ ~Playing(q)
    <3>1. t.playing = FALSE /\ t.left = 0 /\ t.signal = TRUE
      BY <1>4, <2>2, <2>5
    <3>2. c.playing = FALSE
      BY <1>2, <2>1, <2>5
    <3> QED
      BY <2>2, <2>5, <3>1, <3>2
  <2> QED
    BY <2>3, <2>4, <2>5
<1>7. c = t \/ c = u
  <2>1. CASE c.playing = t.playing
    <3>1. c.size = t.size /\ c.again = t.again /\ c.asked = t.asked
      BY <1>1, <1>2, <1>4
    <3> QED
      BY <1>2, <1>4, <1>6, <2>1, <3>1, SameBlock
  <2>2. CASE c.playing = FALSE
    <3>1. /\ c.size = u.size /\ c.again = u.again /\ c.asked = u.asked
          /\ c.playing = u.playing /\ c.left = u.left /\ c.signal = u.signal
      BY <1>1, <1>2, <1>4, <1>5, <1>6, <2>2
    <3> QED
      BY <1>2, <1>5, <3>1, SameBlock
  <2> QED
    BY <1>6, <2>1, <2>2
<1>8. c \in Block!Now(b)
  BY <1>1, <1>3, <1>7 DEF Block!Now, u
<1> QED
  BY <1>8 DEF b, c

LEMMA GeneratesPlays ==
  ASSUME NEW s, Good(s), Waits(s), Heard(s), s.mode \in {"DMA", "DMA_MASKED"},
         NEW size \in Nat \ {0},
         s.dma /\ ~s.autoinit /\ s.left > s.min => size <= s.left
  PROVE  LET q == GenerateDMASound(s, size)
         IN  Plays(s, q) /\ (q = s \/ q.mode # "DMA_PAUSE")
<1> DEFINE q == GenerateDMASound(s, size)
           units == IF s.autoinit THEN Min({size, s.left})
                    ELSE IF s.left <= s.min THEN s.left ELSE size
           taken == Take(s, units)
           still == "NONE"
<1>1. /\ s \in Card /\ Ordered(s) /\ Fed(s) /\ s.left \in Nat /\ s.min \in Nat
      /\ s.total \in Nat /\ s.dma \in BOOLEAN /\ s.silents \in Seq(Nat)
      /\ s.autoinit \in BOOLEAN /\ s.chan.masked \in BOOLEAN
  BY FieldsAre DEF Good
<1>2. CASE q = s
  BY <1>2, SeenAlike DEF Plays
<1>3. CASE ~s.dma /\ q = [s EXCEPT !.mode = still]
  <2> HIDE DEF still, q, taken
  <2>1. /\ q.mode = still /\ Units(q) = Units(s) /\ Rest(q) = Rest(s)
        /\ Queues(q) = Queues(s) /\ q.total = s.total /\ q.dma = s.dma
    BY <1>1, <1>3 DEF Card, Units, Rest, Queues
  <2>2. s.ends = {} /\ ~Dark(s)
    BY <1>1, <1>3 DEF Ordered
  <2>3. Seen(q) = Seen(s)
    BY <1>3, <2>1 DEF Seen, Playing, Units, Rest, Queues
  <2>4. Waits(q)
    BY <1>3, <2>1, <2>2 DEF Waits, Dark, Queues, Rest, still
  <2> QED
    BY <2>1, <2>3, <2>4, SeenAlike DEF Plays, q, still
<1>4. CASE s.dma /\ ~s.chan.masked /\ q = IF taken.left = 0 THEN SB_OnEndOfDMA(taken) ELSE taken
  <2>1. units \in 0 .. s.left
    BY <1>1, <1>4, MinOfTwo
  <2> HIDE DEF units
  <2>2. /\ taken \in Card /\ Rest(taken) = Rest(s) /\ Queues(taken) = Queues(s)
        /\ taken.total = s.total /\ taken.dma = s.dma
        /\ taken.mode \in {s.mode, "DMA_MASKED"}
        /\ taken.mode # s.mode => s.cb /\ taken.chan.masked
        /\ \E n \in 0 .. units :
             /\ taken.left = s.left - n
             /\ n = 0 => taken.chan.masked = s.chan.masked /\ taken.mode = s.mode
    BY <1>1, <1>4, <2>1, Takes
  <2> HIDE DEF taken, q
  <2>3. PICK n \in 0 .. s.left :
          /\ taken.left = s.left - n
          /\ n = 0 => taken.chan.masked = s.chan.masked /\ taken.mode = s.mode
    BY <1>1, <2>1, <2>2
  <2>4. Playing(s) /\ s.left > 0 /\ s.total > 0 /\ s.mode = "DMA"
    BY <1>1, <1>4 DEF Playing, Waits, Ordered
  <2>5. /\ Heard(taken) /\ taken.silents = << >> /\ taken.total > 0 /\ taken.min = taken.freq
        /\ taken.mode # "DMA_REQUIRE_IRQ_ACK" /\ taken.left \in Nat
    <3>1. taken.left \in Nat
      BY <2>2, FieldsAre
    <3> QED
      BY <1>1, <1>4, <2>2, <2>4, <3>1 DEF Ordered, Heard, Dark, Rest, Queues
  <2>6. CASE taken.left = 0
    <3>1. q = SB_OnEndOfDMA(taken)
      BY <1>4, <2>6
    <3>2. /\ taken \in Card /\ taken.left = 0 /\ taken.dma
          /\ taken.mode = "DMA_REQUIRE_IRQ_ACK" => taken.sb16
      BY <1>4, <2>2, <2>5, <2>6
    <3>3. /\ q \in Card /\ Rest(q) = Rest(taken) /\ q.ends = {} /\ q.silents = << >>
          /\ q.total = taken.total /\ q.chan = taken.chan /\ q.pending = TRUE
          /\ ~taken.autoinit => q.left = 0 /\ q.mode = "NONE" /\ ~q.dma
          /\ taken.autoinit => /\ q.left = taken.total
                               /\ q.mode \in {taken.mode, "DMA_REQUIRE_IRQ_ACK"}
      BY <2>5, <3>1, <3>2, Ends DEF Good
    <3>4. n = s.left /\ n \in 1 .. s.left
      BY <1>1, <2>3, <2>4, <2>6
    <3>5. /\ Rest(q) = Rest(s) /\ q.autoinit = s.autoinit /\ q.irqs = s.irqs
          /\ q.total = s.total /\ taken.autoinit = s.autoinit /\ q.cb = s.cb
      BY <2>2, <3>3 DEF Rest
    <3>6. Seen(q) \in Block!Now(Seen(s))
      <4>1. ~s.autoinit => ~Playing(q)
        BY <3>3, <3>5 DEF Playing
      <4> QED
        <5>1. \/ n = s.left /\ s.autoinit /\ q.left = s.total /\ q.pending = TRUE
              \/ n = s.left /\ ~s.autoinit /\ q.left = 0 /\ q.pending = TRUE /\ ~Playing(q)
          BY <1>1, <2>2, <3>3, <3>4, <3>5, <4>1
        <5> QED
          BY <1>1, <2>4, <3>3, <3>4, <3>5, <5>1, Played
    <3>7. Waits(q)
      BY <2>2, <2>4, <3>3, <3>5 DEF Waits, Dark
    <3>8. q.mode # "DMA_PAUSE"
      BY <2>2, <2>4, <3>3, <3>5
    <3> QED
      BY <3>6, <3>7, <3>8 DEF Plays, q
  <2>7. CASE taken.left # 0
    <3>1. q = taken
      BY <1>4, <2>7
    <3>2. /\ q.autoinit = s.autoinit /\ q.irqs = s.irqs /\ q.pending = s.pending
          /\ q.total = s.total /\ q.cb = s.cb /\ q.ends = s.ends /\ q.silents = s.silents
          /\ q.dma = s.dma
      BY <2>2, <3>1 DEF Rest, Queues
    <3>3. Seen(q) \in Block!Now(Seen(s))
      <4>1. CASE n = 0
        <5>1. Seen(q) = Seen(s)
          BY <1>1, <2>3, <3>1, <3>2, <4>1 DEF Seen, Playing
        <5> QED
          BY <5>1, SeenAlike
      <4>2. CASE n # 0
        <5>1. n \in 1 .. s.left /\ n < s.left /\ q.left = s.left - n
          BY <1>1, <2>3, <2>7, <3>1, <4>2
        <5> QED
          BY <1>1, <2>2, <2>4, <3>1, <3>2, <5>1, Played
      <4> QED
        BY <4>1, <4>2
    <3>4. Waits(q)
      BY <1>1, <2>2, <2>4, <3>1, <3>2 DEF Waits, Dark
    <3>5. q.mode # "DMA_PAUSE"
      BY <2>2, <2>4, <3>1
    <3> QED
      BY <3>3, <3>4, <3>5 DEF Plays, q
  <2> QED
    BY <2>6, <2>7
<1> QED
  BY <1>1, <1>2, <1>3, <1>4 DEF GenerateDMASound

LEMMA SilencesPlays ==
  ASSUME NEW s, Good(s), Waits(s), Dark(s), NEW val \in Nat
  PROVE  Plays(s, DMA_Silent_Event([s EXCEPT !.silents = << >>], val))
<1> DEFINE empty == << >>
           r == [s EXCEPT !.silents = empty]
           want == Min({val, r.left})
           taken == Take(r, want)
           told == SB_RaiseIRQ(taken)
           still == "NONE"
           off == FALSE
           on == TRUE
           line == taken.line \/ ~taken.pending
           left == r.total
           ended == IF taken.left > 0 THEN taken
                    ELSE IF r.autoinit THEN [told EXCEPT !.left = left]
                    ELSE [told EXCEPT !.mode = still, !.dma = off]
           q == IF ended.left > 0 THEN NextSilent(ended) ELSE ended
<1>1. /\ s \in Card /\ Ordered(s) /\ s.left \in Nat /\ s.autoinit \in BOOLEAN
      /\ s.chan.masked \in BOOLEAN
  BY FieldsAre DEF Good
<1>2. ~Heard(s) /\ s.dma /\ s.ends = {} /\ s.left > 0 /\ s.total > 0
  BY <1>1 DEF Ordered
<1>3. DMA_Silent_Event([s EXCEPT !.silents = << >>], val) = q
  BY DEF DMA_Silent_Event
<1>4. /\ r \in Card /\ Units(r) = Units(s) /\ Rest(r) = Rest(s) /\ r.mode = s.mode
      /\ r.silents = empty /\ r.ends = s.ends /\ r.pending = s.pending
  <2>1. empty \in Seq(Nat)
    OBVIOUS
  <2> HIDE DEF empty
  <2> QED
    BY <1>1, <2>1 DEF Card, Units, Rest
<1> HIDE DEF r
<1>5. Ordered(r) /\ r.left \in Nat /\ r.dma
  BY <1>1, <1>2, <1>4 DEF Ordered, Dark, Heard, Units, Rest
<1>6. want \in 0 .. r.left
  BY <1>5, MinOfTwo
<1> HIDE DEF want
<1>7. /\ taken \in Card /\ Rest(taken) = Rest(r) /\ Queues(taken) = Queues(r)
      /\ taken.total = r.total /\ taken.dma = r.dma
      /\ taken.mode \in {r.mode, "DMA_MASKED"}
      /\ taken.mode # r.mode => r.cb /\ taken.chan.masked
      /\ r.chan.masked => taken.chan.masked
      /\ \E n \in 0 .. want :
           /\ taken.left = r.left - n
           /\ r.chan.masked => n = 0
           /\ n = 0 => taken.chan.masked = r.chan.masked /\ taken.mode = r.mode
  BY <1>4, <1>5, <1>6, Takes
<1> HIDE DEF taken
<1>8. PICK n \in 0 .. s.left :
        /\ taken.left = s.left - n
        /\ s.chan.masked => n = 0
        /\ n = 0 => taken.chan.masked = s.chan.masked /\ taken.mode = s.mode
  BY <1>4, <1>5, <1>6, <1>7 DEF Units
<1>9. /\ taken.total = s.total /\ taken.dma /\ taken.autoinit = s.autoinit
      /\ taken.irqs = s.irqs /\ taken.cb = s.cb /\ taken.ends = {} /\ taken.silents = empty
      /\ taken.pending = s.pending /\ taken.mode \in {s.mode, "DMA_MASKED"}
      /\ (taken.mode # s.mode => s.cb /\ taken.chan.masked)
      /\ (s.chan.masked => taken.chan.masked)
      /\ r.autoinit = s.autoinit /\ r.total = s.total
  BY <1>2, <1>4, <1>7 DEF Rest, Queues, Units
<1>10. s.mode \in {"DMA", "DMA_MASKED"} /\ (~s.chan.masked => Playing(s))
       /\ (s.mode = "DMA_MASKED" => s.chan.masked /\ s.cb) /\ s.irqs \in {0, 1}
  BY <1>2 DEF Waits, Playing
<1>11. /\ told \in Card /\ told.mode = taken.mode /\ told.silents = taken.silents
       /\ told.ends = taken.ends /\ told.pending = TRUE
       /\ Units(told) = Units(taken) /\ Rest(told) = Rest(taken)
  <2>1. line \in BOOLEAN /\ on \in BOOLEAN
    BY <1>7 DEF Card
  <2>2. told = [taken EXCEPT !.pending = on, !.line = line]
    BY <1>7 DEF SB_RaiseIRQ, Card
  <2> HIDE DEF line, told
  <2>3. on = TRUE
    OBVIOUS
  <2> HIDE DEF on
  <2> QED
    BY <1>7, <2>1, <2>2, <2>3 DEF Card, Units, Rest
<1> HIDE DEF told
<1>12. /\ ended \in Card /\ Plays(s, ended) /\ ended.ends = {}
       /\ ended.left > 0 => ended.mode \in {"DMA", "DMA_MASKED"}
  <2>1. CASE taken.left > 0
    <3>1. ended = taken /\ n < s.left
      BY <1>1, <1>8, <2>1
    <3> HIDE DEF ended
    <3>2. Seen(ended) \in Block!Now(Seen(s))
      <4>1. CASE n = 0
        <5>1. Seen(ended) = Seen(s)
          BY <1>1, <1>2, <1>8, <1>9, <3>1, <4>1 DEF Seen, Playing
        <5> QED
          BY <5>1, SeenAlike
      <4>2. CASE n # 0
        <5>1. n \in 1 .. s.left /\ taken.left = s.left - n /\ Playing(s)
          BY <1>1, <1>8, <1>10, <4>2
        <5> QED
          BY <1>1, <1>7, <1>9, <3>1, <5>1, Played
      <4> QED
        BY <4>1, <4>2
    <3>3. Waits(ended)
      BY <1>9, <1>10, <3>1 DEF Waits, Dark, empty
    <3> QED
      BY <1>7, <1>9, <1>10, <3>1, <3>2, <3>3 DEF Plays
  <2>2. CASE ~(taken.left > 0) /\ r.autoinit
    <3>1. n = s.left /\ n \in 1 .. s.left /\ Playing(s) /\ left \in Nat /\ left = s.total
      <4>1. taken.left \in Nat /\ s.total \in Nat
        BY <1>1, <1>7, FieldsAre
      <4> QED
        BY <1>1, <1>2, <1>8, <1>9, <1>10, <2>2, <4>1
    <3>2. ended = [told EXCEPT !.left = left]
      BY <2>2
    <3> HIDE DEF ended, left
    <3>3. /\ ended \in Card /\ ended.left = left /\ Rest(ended) = Rest(told)
          /\ ended.mode = told.mode /\ ended.silents = told.silents /\ ended.ends = told.ends
          /\ ended.pending = told.pending /\ ended.total = told.total /\ ended.dma = told.dma
          /\ ended.chan = told.chan
      BY <1>11, <3>1, <3>2 DEF Card, Rest
    <3>4. /\ ended.left = s.total /\ ended.pending = TRUE /\ ended.total = s.total
          /\ ended.autoinit = s.autoinit /\ ended.irqs = s.irqs /\ ended.cb = s.cb
          /\ ended.mode = taken.mode /\ ended.chan = taken.chan /\ ended.silents = empty
          /\ ended.ends = {} /\ s.autoinit
      BY <1>9, <1>11, <2>2, <3>1, <3>3 DEF Rest, Units
    <3>5. Seen(ended) \in Block!Now(Seen(s))
      BY <1>1, <3>1, <3>3, <3>4, Played
    <3>6. Waits(ended)
      BY <1>9, <1>10, <3>4 DEF Waits, Dark, empty
    <3> QED
      BY <1>9, <1>10, <3>3, <3>4, <3>5, <3>6 DEF Plays
  <2>3. CASE ~(taken.left > 0) /\ ~r.autoinit
    <3>1. n = s.left /\ n \in 1 .. s.left /\ Playing(s) /\ taken.left = 0
      <4>1. taken.left \in Nat
        BY <1>7, FieldsAre
      <4> QED
        BY <1>1, <1>2, <1>8, <1>10, <2>3, <4>1
    <3>2. ended = [told EXCEPT !.mode = still, !.dma = off] /\ still \in Modes /\ off \in BOOLEAN
      BY <2>3 DEF Modes
    <3> HIDE DEF ended, still, off
    <3>3. /\ ended \in Card /\ ended.left = told.left /\ Rest(ended) = Rest(told)
          /\ ended.mode = still /\ ended.silents = told.silents /\ ended.ends = told.ends
          /\ ended.pending = told.pending /\ ended.total = told.total /\ ended.dma = off
      BY <1>11, <3>2 DEF Card, Rest
    <3>4. /\ ended.left = 0 /\ ended.pending = TRUE /\ ended.total = s.total
          /\ ended.autoinit = s.autoinit /\ ended.irqs = s.irqs
          /\ ended.silents = empty /\ ended.ends = {} /\ ~s.autoinit
      BY <1>9, <1>11, <2>3, <3>1, <3>3 DEF Rest, Units
    <3>5. ~Playing(ended) /\ ended.mode = "NONE" /\ ~ended.dma
      BY <3>3 DEF Playing, still, off
    <3>6. Seen(ended) \in Block!Now(Seen(s))
      BY <1>1, <3>1, <3>3, <3>4, <3>5, Played
    <3>7. Waits(ended)
      BY <1>10, <3>4, <3>5 DEF Waits, Dark, empty
    <3> QED
      BY <3>3, <3>4, <3>6, <3>7 DEF Plays
  <2> QED
    BY <2>1, <2>2, <2>3
<1> HIDE DEF ended
<1>13. CASE ended.left > 0
  <2> DEFINE more == Append(ended.silents, Min({ended.left, ended.min}))
  <2>1. q = [ended EXCEPT !.silents = more]
    BY <1>12, <1>13 DEF NextSilent, Card
  <2> HIDE DEF q, more
  <2>2. /\ Units(q) = Units(ended) /\ Rest(q) = Rest(ended) /\ q.mode = ended.mode
        /\ q.ends = ended.ends /\ q.pending = ended.pending
    BY <1>12, <2>1 DEF Card, Units, Rest
  <2>3. Seen(q) = Seen(ended)
    BY <2>2 DEF Seen, Playing, Units, Rest
  <2>4. Waits(q)
    BY <1>12, <1>13, <2>2 DEF Plays, Waits, Units, Rest
  <2> QED
    BY <1>3, <1>12, <2>3, <2>4 DEF Plays, q
<1>14. CASE ~(ended.left > 0)
  BY <1>3, <1>12, <1>14
<1> QED
  BY <1>13, <1>14

LEMMA FillsPlays ==
  ASSUME NEW s, Good(s), Waits(s), NEW q \in FillUp(s)
  PROVE  Plays(s, q) /\ (q = s \/ q.mode # "DMA_PAUSE")
<1>1. s \in Card /\ s.left \in Nat /\ Counts \in Nat
  BY FieldsAre, SizesAre DEF Good
<1>2. CASE q = s
  BY <1>2, SeenAlike DEF Plays
<1>3. CASE q # s
  <2>1. PICK len \in 1 .. Counts : Heard(s) /\ q = SBLASTER_CallBack(s, len)
    BY <1>3 DEF FillUp
  <2> DEFINE size == Min({len, s.left})
  <2>2. s.mode = "DMA" /\ q = GenerateDMASound(s, size)
    BY <1>3, <2>1 DEF SBLASTER_CallBack
  <2>3. s.left > 0 /\ len \in Nat \ {0}
    BY <1>1, <2>2, SizesAre DEF Good, Ordered
  <2>4. size \in Nat \ {0} /\ size <= s.left
    BY <1>1, <2>3, MinOfTwo
  <2> HIDE DEF size
  <2> QED
    BY <2>1, <2>2, <2>4, GeneratesPlays
<1> QED
  BY <1>2, <1>3

(* What the beginnings of events and the channel's callback show.          *)
LEMMA ChecksQuietly ==
  ASSUME NEW s \in Card
  PROVE  LET q == CheckDMAEnd(s)
         IN  Units(q) = Units(s) /\ Rest(q) = Rest(s) /\ q.mode = s.mode /\ q.pending = s.pending
<1> DEFINE q == CheckDMAEnd(s)
           silents == Append(s.silents, Min({s.left, s.min}))
           ends == s.ends \cup {s.left}
<1>1. q = s \/ q = [s EXCEPT !.silents = silents] \/ q = [s EXCEPT !.ends = ends]
  BY DEF CheckDMAEnd, NextSilent, Card
<1> HIDE DEF q, silents, ends
<1> QED
  BY <1>1 DEF Card, Units, Rest, q

LEMMA MasksQuietly ==
  ASSUME NEW s \in Card
  PROVE  LET q == OnMask(s)
         IN  /\ Units(q) = Units(s) /\ Rest(q) = Rest(s) /\ q.pending = s.pending
             /\ \/ q = s /\ (s.mode = "DMA_MASKED" /\ s.dma /\ s.cb => s.chan.masked)
                \/ /\ s.cb /\ s.chan.masked /\ s.mode = "DMA" /\ q.mode = "DMA_MASKED"
                   /\ q.ends = s.ends /\ q.silents = s.silents
                \/ s.mode = "DMA_MASKED" /\ s.dma /\ ~s.chan.masked /\ q.mode = "DMA"
<1> DEFINE q == OnMask(s)
           pause == "DMA_MASKED"
           play == "DMA"
<1>1. CASE q = s /\ (s.mode = "DMA_MASKED" /\ s.dma /\ s.cb => s.chan.masked)
  BY <1>1
<1>2. CASE s.cb /\ s.chan.masked /\ s.mode = "DMA" /\ q = [s EXCEPT !.mode = pause]
  <2>1. pause = "DMA_MASKED"
    OBVIOUS
  <2> HIDE DEF q, pause
  <2>2. /\ Units(q) = Units(s) /\ Rest(q) = Rest(s) /\ Queues(q) = Queues(s) /\ q.mode = pause
    BY <1>2 DEF Card, Units, Rest, Queues
  <2> QED
    BY <1>2, <2>1, <2>2 DEF Queues, q
<1>3. CASE s.cb /\ ~s.chan.masked /\ s.mode = "DMA_MASKED" /\ s.dma
  <2> DEFINE r == [s EXCEPT !.mode = play]
  <2>1. q = CheckDMAEnd(r) /\ play \in Modes
    BY <1>3 DEF OnMask, Modes
  <2>2. play = "DMA"
    OBVIOUS
  <2> HIDE DEF q, play
  <2>3. /\ r \in Card /\ Units(r) = Units(s) /\ Rest(r) = Rest(s) /\ Queues(r) = Queues(s)
        /\ r.mode = play
    BY <2>1 DEF Card, Units, Rest, Queues
  <2> HIDE DEF r
  <2>4. Units(q) = Units(r) /\ Rest(q) = Rest(r) /\ q.mode = r.mode /\ q.pending = r.pending
    BY <2>1, <2>3, ChecksQuietly
  <2> QED
    BY <1>3, <2>2, <2>3, <2>4 DEF Queues, q
<1>4. s.chan.masked \in BOOLEAN /\ s.cb \in BOOLEAN /\ s.dma \in BOOLEAN
  BY FieldsAre
<1> QED
  BY <1>1, <1>2, <1>3, <1>4 DEF OnMask

LEMMA TransferPlays ==
  ASSUME NEW s \in Card, NEW size \in Sizes, NEW again \in BOOLEAN, ~Dark(s), s.irqs \in {0, 1}
  PROVE  LET q == DSP_DoDMATransfer([s EXCEPT !.total = size, !.autoinit = again])
         IN  /\ Waits(q) /\ q.left = size /\ q.total = size /\ q.pending = FALSE
             /\ q.irqs = s.irqs
<1> DEFINE on == TRUE
           off == FALSE
           none == {}
           pause == "DMA_MASKED"
           left == size
           min == s.freq
           t == [s EXCEPT !.total = size, !.autoinit = again, !.mode = pause, !.left = left]
           r == [t EXCEPT !.dma = on, !.pending = off, !.min = min, !.ends = none, !.cb = on]
           q == DSP_DoDMATransfer([s EXCEPT !.total = size, !.autoinit = again])
<1>1. q = OnMask(r)
  BY DEF DSP_DoDMATransfer, Register_Callback, Card
<1>2. /\ on \in BOOLEAN /\ off \in BOOLEAN /\ none \in SUBSET Nat /\ pause \in Modes
      /\ left \in Nat /\ left = size /\ min \in Rates \cup {0} /\ size \in Sizes \cup {0}
  BY SizesAre DEF Modes, Card
<1>3. s.silents = << >>
  BY DEF Dark
<1> HIDE DEF on, off, none, pause, left, min, q
<1>4. /\ t \in Card /\ t.total = size /\ t.mode = pause /\ t.left = left
      /\ t.silents = s.silents /\ t.irqs = s.irqs
  BY <1>2 DEF Card
<1> HIDE DEF t
<1>5. /\ r \in Card /\ r.total = size /\ r.mode = pause /\ r.left = left /\ r.pending = off
      /\ r.dma = on /\ r.ends = none /\ r.silents = s.silents /\ r.irqs = s.irqs /\ r.cb = on
  BY <1>2, <1>4 DEF Card
<1> HIDE DEF r
<1>6. /\ Units(q) = Units(r) /\ Rest(q) = Rest(r) /\ q.pending = r.pending
      /\ \/ q = r /\ (r.mode = "DMA_MASKED" /\ r.dma /\ r.cb => r.chan.masked)
         \/ /\ r.cb /\ r.chan.masked /\ r.mode = "DMA" /\ q.mode = "DMA_MASKED"
            /\ q.ends = r.ends /\ q.silents = r.silents
         \/ r.mode = "DMA_MASKED" /\ r.dma /\ ~r.chan.masked /\ q.mode = "DMA"
  BY <1>1, <1>5, MasksQuietly
<1>7. q.total = size /\ q.left = size /\ q.pending = FALSE /\ q.irqs = s.irqs
  BY <1>2, <1>5, <1>6 DEF Units, Rest, off
<1>8. Waits(q)
  BY <1>3, <1>5, <1>6, <1>7 DEF Waits, Dark, on, none, pause
<1> QED
  BY <1>7, <1>8 DEF q

LEMMA StartsPlays ==
  ASSUME NEW s, Good(s), Waits(s), NEW size \in Sizes, NEW again \in BOOLEAN, ~Dark(s),
         NEW q, \/ q = DSP_PrepareDMA_Old(s, size, again)
                \/ s.sb16 /\ q = DSP_PrepareDMA_New(s, size, again)
  PROVE  /\ Waits(q) /\ q.left = q.total /\ q.total \in Sizes /\ q.irqs = s.irqs
         /\ q.pending => s.pending
<1>1. s \in Card /\ Ordered(s) /\ s.irqs \in {0, 1}
  BY DEF Good, Waits
<1>2. CASE s.mode = "DMA" /\ q = DSP_PrepareDMA_New(s, size, again)
  <2> DEFINE total == IF again THEN s.total ELSE size
             left == total
  <2>1. s.dma /\ s.total \in Sizes
    BY <1>1, <1>2 DEF Ordered, Card
  <2>2. q = [s EXCEPT !.total = total, !.left = left, !.autoinit = again]
        /\ left = total /\ total \in Sizes
    BY <1>2, <2>1 DEF DSP_PrepareDMA_New
  <2> HIDE DEF total, left
  <2>3. /\ q.total = total /\ q.left = left /\ Queues(q) = Queues(s) /\ q.mode = s.mode
        /\ q.irqs = s.irqs
    BY <1>1, <2>2 DEF Card, Queues
  <2> QED
    BY <1>1, <1>2, <2>2, <2>3 DEF Waits, Dark, Queues
<1>3. CASE q = DSP_DoDMATransfer([s EXCEPT !.total = size, !.autoinit = again])
  <2>1. /\ Waits(q) /\ q.left = size /\ q.total = size /\ q.pending = FALSE
        /\ q.irqs = s.irqs
    BY <1>1, <1>3, TransferPlays
  <2> QED
    BY <2>1
<1> QED
  BY <1>2, <1>3 DEF DSP_PrepareDMA_Old, DSP_PrepareDMA_New

(***************************************************************************)
(* What each command shows.  Flags and rates show nothing by themselves.   *)
(***************************************************************************)
LEMMA Alike ==
  ASSUME NEW s, NEW q, Units(q) = Units(s), q.mode = s.mode, q.autoinit = s.autoinit,
         q.pending = s.pending, q.irqs = s.irqs
  PROVE  Seen(q) = Seen(s)
BY DEF Units, Seen, Playing

LEMMA ResizesPlays ==
  ASSUME NEW s, Good(s), Waits(s), NEW size \in Sizes
  PROVE  LET q == SetBlockSize(s, size)
         IN  Waits(q) /\ Seen(q) = [Seen(s) EXCEPT !.size = size]
<1> DEFINE q == [s EXCEPT !.total = size]
           b == Seen(s)
           c == [b EXCEPT !.size = size]
<1>1. s \in Card /\ Good(q) /\ size \in Nat
  BY Resizes, SizesAre DEF Good, SetBlockSize
<1>2. /\ q \in Card /\ q.total = size /\ q.left = s.left /\ q.autoinit = s.autoinit
      /\ q.pending = s.pending /\ q.irqs = s.irqs /\ q.mode = s.mode /\ q.dma = s.dma
      /\ q.chan = s.chan /\ q.cb = s.cb /\ q.ends = s.ends /\ q.silents = s.silents
  BY <1>1 DEF Card, Good
<1> HIDE DEF q
<1>3. Waits(q) /\ Playing(q) = Playing(s)
  BY <1>2 DEF Waits, Dark, Playing
<1>4. /\ b \in BlockState /\ b.playing = Playing(s) /\ b.left = s.left
      /\ b.again = s.autoinit /\ b.signal = s.pending /\ b.asked = (s.irqs > 0)
  BY <1>1, SeenIs
<1> HIDE DEF b
<1>5. /\ c \in BlockState /\ c.playing = b.playing /\ c.left = b.left /\ c.size = size
      /\ c.again = b.again /\ c.signal = b.signal /\ c.asked = b.asked
  BY <1>1, <1>4 DEF BlockState
<1> DEFINE d == Seen(q)
<1>6. /\ d \in BlockState /\ d.playing = Playing(q) /\ d.left = q.left /\ d.size = q.total
      /\ d.again = q.autoinit /\ d.signal = q.pending /\ d.asked = (q.irqs > 0)
  BY <1>2, SeenIs
<1> HIDE DEF c, d
<1>7. d = c
  BY <1>2, <1>3, <1>4, <1>5, <1>6, SameBlock
<1> QED
  BY <1>3, <1>7 DEF SetBlockSize, q, b, c, d

LEMMA RatedPlays ==
  ASSUME NEW s, Good(s), Waits(s), NEW freq \in Rates, NEW q \in DSP_ChangeRate(s, freq)
  PROVE  Plays(s, q)
<1>1. PICK t \in IF freq # s.freq /\ s.dma THEN FillUp(s) ELSE {s} :
        q = [t EXCEPT !.freq = freq, !.min = IF s.dma THEN freq ELSE @]
  BY DEF DSP_ChangeRate
<1>2. t \in Card /\ Plays(s, t)
  <2>1. t \in FillUp(s)
    BY <1>1 DEF FillUp
  <2> QED
    BY <2>1, Fills, FillsPlays DEF Keeps, Good
<1> DEFINE min == IF s.dma THEN freq ELSE t.min
<1>3. q = [t EXCEPT !.freq = freq, !.min = min]
  BY <1>1
<1> HIDE DEF min
<1>4. /\ Units(q) = Units(t) /\ q.mode = t.mode /\ q.autoinit = t.autoinit
      /\ q.pending = t.pending /\ q.irqs = t.irqs /\ q.cb = t.cb
      /\ q.ends = t.ends /\ q.silents = t.silents
  BY <1>2, <1>3 DEF Card, Units
<1>5. Seen(q) = Seen(t)
  BY <1>4, Alike
<1>6. Waits(q)
  BY <1>2, <1>4 DEF Plays, Waits, Dark, Units
<1> QED
  BY <1>2, <1>5, <1>6 DEF Plays

LEMMA SpeaksPlays ==
  ASSUME NEW s, Good(s), Waits(s), ~s.sb16, NEW how \in BOOLEAN,
         how => s.mode # "DMA_PAUSE", ~how => ~s.dma
  PROVE  LET q == DSP_SetSpeaker(s, how)
         IN  Waits(q) /\ Seen(q) = Seen(s)
<1> DEFINE set == [s EXCEPT !.speaker = how]
           empty == << >>
           r == [set EXCEPT !.silents = empty]
           q == DSP_SetSpeaker(s, how)
<1>1. s \in Card /\ Ordered(s) /\ s.speaker \in BOOLEAN /\ s.mode \in Modes
  BY FieldsAre DEF Good
<1>2. CASE s.speaker = how
  BY <1>2 DEF DSP_SetSpeaker
<1>3. /\ set \in Card /\ Units(set) = Units(s) /\ Queues(set) = Queues(s)
      /\ set.mode = s.mode /\ set.autoinit = s.autoinit /\ set.irqs = s.irqs /\ set.cb = s.cb
  BY <1>1 DEF Card, Units, Queues
<1>4. CASE s.speaker # how /\ ~how
  <2>1. q = set
    BY <1>4 DEF DSP_SetSpeaker
  <2> HIDE DEF set, q
  <2>2. Seen(set) = Seen(s)
    BY <1>3, Alike DEF Queues
  <2>3. Waits(set)
    BY <1>3 DEF Waits, Dark, Units, Queues
  <2> QED
    BY <2>1, <2>2, <2>3 DEF q
<1>5. CASE s.speaker # how /\ how
  <2>1. q = CheckDMAEnd(r)
    BY <1>1, <1>5 DEF DSP_SetSpeaker, Card
  <2>2. empty \in Seq(Nat)
    OBVIOUS
  <2> HIDE DEF set, q, empty
  <2>3. /\ r \in Card /\ r.silents = empty /\ Units(r) = Units(set) /\ r.ends = set.ends
        /\ r.mode = set.mode /\ r.pending = set.pending /\ r.autoinit = set.autoinit
        /\ r.irqs = set.irqs /\ r.cb = set.cb
    BY <1>3, <2>2 DEF Card, Units
  <2> HIDE DEF r
  <2>4. /\ Units(q) = Units(r) /\ Rest(q) = Rest(r) /\ q.mode = r.mode
        /\ q.pending = r.pending
    BY <2>1, <2>3, ChecksQuietly
  <2>5. /\ Units(q) = Units(s) /\ q.mode = s.mode /\ q.autoinit = s.autoinit
        /\ q.pending = s.pending /\ q.irqs = s.irqs /\ q.cb = s.cb
    BY <1>3, <2>3, <2>4 DEF Rest, Queues
  <2>6. Seen(q) = Seen(s)
    BY <2>5, Alike
  <2>7. q.ends # {} \/ Dark(q) => q.mode \in {"DMA", "DMA_MASKED"}
    <3>1. s.mode # "DMA_REQUIRE_IRQ_ACK"
      BY <1>1 DEF Ordered
    <3>2. CASE s.mode = "NONE"
      <4>1. s.left = 0 /\ s.ends = {}
        BY <1>1, <3>2 DEF Waits, Ordered
      <4>2. q = r
        BY <1>3, <2>1, <2>3, <4>1 DEF CheckDMAEnd, Units
      <4> QED
        BY <1>3, <2>3, <4>1, <4>2 DEF Dark, Queues, empty
    <3> QED
      BY <1>1, <1>5, <2>5, <3>1, <3>2 DEF Modes
  <2>8. Waits(q)
    BY <2>5, <2>7 DEF Waits, Units
  <2> QED
    BY <2>6, <2>8 DEF q
<1> QED
  BY <1>1, <1>2, <1>4, <1>5

LEMMA HaltsPlays ==
  ASSUME NEW s, Good(s), Waits(s), Heard(s), NEW q \in Halt(s)
  PROVE  /\ Waits(q) /\ ~Playing(q)
         /\ \E b \in Block!Now(Seen(s)) : Seen(q) = Block!Stopped(b)
<1> DEFINE pause == "DMA_PAUSE"
           none == {}
<1>1. PICK t \in FillUp(s) : q = [t EXCEPT !.mode = pause, !.ends = none]
  BY DEF Halt
<1>2. t \in Card /\ Good(t) /\ Plays(s, t) /\ Rest(t) = Rest(s)
  BY Fills, FillsPlays DEF Keeps, Good
<1>3. pause \in Modes /\ none \in SUBSET Nat
  BY DEF Modes
<1>4. t.silents = << >>
  BY <1>2 DEF Good, Ordered, Dark, Heard, Rest
<1> HIDE DEF pause, none
<1>5. /\ q \in Card /\ Units(q) = Units(t) /\ Rest(q) = Rest(t) /\ q.pending = t.pending
      /\ q.ends = none /\ q.mode = pause /\ q.silents = t.silents
  BY <1>1, <1>2, <1>3 DEF Card, Units, Rest
<1>6. Waits(q) /\ ~Playing(q)
  BY <1>2, <1>4, <1>5 DEF Plays, Waits, Playing, Dark, Rest, pause, none
<1> DEFINE b == Seen(t)
           c == Block!Stopped(b)
           d == Seen(q)
<1>7. /\ b \in BlockState /\ b.left = t.left /\ b.size = t.total
      /\ b.again = t.autoinit /\ b.signal = t.pending /\ b.asked = (t.irqs > 0)
  BY <1>2, SeenIs
<1>8. /\ d \in BlockState /\ d.playing = Playing(q) /\ d.left = q.left /\ d.size = q.total
      /\ d.again = q.autoinit /\ d.signal = q.pending /\ d.asked = (q.irqs > 0)
  BY <1>5, SeenIs
<1> HIDE DEF b, d
<1>9. /\ c \in BlockState /\ c.playing = FALSE /\ c.left = b.left /\ c.size = b.size
      /\ c.again = b.again /\ c.signal = b.signal /\ c.asked = b.asked
  BY <1>7, StoppedIs
<1> HIDE DEF c
<1>10. d.playing = FALSE
  BY <1>6, <1>8 DEF BlockState
<1>11. d = c
  <2>1. /\ q.left = t.left /\ q.total = t.total /\ q.autoinit = t.autoinit
        /\ q.pending = t.pending /\ q.irqs = t.irqs
    BY <1>5 DEF Units, Rest
  <2>2. /\ d.playing = c.playing /\ d.left = c.left /\ d.size = c.size /\ d.again = c.again
        /\ d.signal = c.signal /\ d.asked = c.asked
    BY <1>7, <1>8, <1>9, <1>10, <2>1
  <2> QED
    BY <1>8, <1>9, <2>2, SameBlock
<1> QED
  BY <1>2, <1>6, <1>11 DEF Plays, b, c, d

(* A card that goes on: masked, it waits for the channel; else it plays.   *)
Resumes(s, q) ==
  \/ Seen(q) \in Block!Now(Seen(s))
  \/ ~Playing(s) /\ s.left > 0 /\ Seen(q) = [Seen(s) EXCEPT !.playing = TRUE]

LEMMA ResumedIs ==
  ASSUME NEW s \in Card, NEW q \in Card, q.left = s.left, q.total = s.total,
         q.autoinit = s.autoinit, q.pending = s.pending, q.irqs = s.irqs, Playing(q)
  PROVE  Seen(q) = [Seen(s) EXCEPT !.playing = TRUE]
<1> DEFINE b == Seen(s)
           on == TRUE
           c == [b EXCEPT !.playing = on]
           d == Seen(q)
<1>1. /\ b \in BlockState /\ b.left = s.left /\ b.size = s.total
      /\ b.again = s.autoinit /\ b.signal = s.pending /\ b.asked = (s.irqs > 0)
  BY SeenIs
<1>2. /\ d \in BlockState /\ d.playing = Playing(q) /\ d.left = q.left /\ d.size = q.total
      /\ d.again = q.autoinit /\ d.signal = q.pending /\ d.asked = (q.irqs > 0)
  BY SeenIs
<1>3. on \in BOOLEAN
  OBVIOUS
<1> HIDE DEF b, d, on
<1>4. /\ c \in BlockState /\ c.playing = on /\ c.left = b.left /\ c.size = b.size
      /\ c.again = b.again /\ c.signal = b.signal /\ c.asked = b.asked
  BY <1>1, <1>3 DEF BlockState
<1> HIDE DEF c
<1>5. d.playing = on
  BY <1>2 DEF BlockState, on
<1>6. /\ d.playing = c.playing /\ d.left = c.left /\ d.size = c.size /\ d.again = c.again
      /\ d.signal = c.signal /\ d.asked = c.asked
  BY <1>1, <1>2, <1>4, <1>5
<1>7. d = c
  BY <1>2, <1>4, <1>6, SameBlock
<1> QED
  BY <1>7 DEF b, c, d, on

LEMMA ContinuesPlays ==
  ASSUME NEW s, Good(s), Waits(s), ~Dark(s), NEW q \in Continue(s)
  PROVE  Waits(q) /\ Resumes(s, q)
<1> DEFINE masked == "DMA_MASKED"
           on == TRUE
<1>1. PICK t \in FillUp(s) :
        q = IF t.mode = "DMA_PAUSE" THEN Register_Callback([t EXCEPT !.mode = masked]) ELSE t
  BY DEF Continue
<1>2. s \in Card /\ Ordered(s) /\ Plays(s, t) /\ (t = s \/ t.mode # "DMA_PAUSE")
  BY FillsPlays DEF Good
<1>3. CASE t.mode # "DMA_PAUSE"
  BY <1>1, <1>2, <1>3 DEF Plays, Resumes
<1>4. CASE s.mode = "DMA_PAUSE" /\ q = Register_Callback([s EXCEPT !.mode = masked])
  <2> DEFINE r == [s EXCEPT !.mode = masked, !.cb = on]
  <2>1. q = OnMask(r)
    BY <1>2, <1>4 DEF Register_Callback, Card
  <2>2. masked \in Modes /\ on \in BOOLEAN
    BY DEF Modes
  <2>3. s.ends = {} /\ s.silents = << >> /\ ~Playing(s) /\ s.irqs \in {0, 1}
        /\ (s.dma => s.left > 0)
    BY <1>2, <1>4 DEF Waits, Ordered, Dark, Playing
  <2> HIDE DEF masked, on
  <2>4. /\ r \in Card /\ Units(r) = Units(s) /\ Queues(r) = Queues(s) /\ r.mode = masked
        /\ r.cb = on /\ r.autoinit = s.autoinit /\ r.irqs = s.irqs
    BY <1>2, <2>2 DEF Card, Units, Queues
  <2> HIDE DEF r
  <2>5. /\ Units(q) = Units(r) /\ Rest(q) = Rest(r) /\ q.pending = r.pending
        /\ \/ q = r /\ (r.mode = "DMA_MASKED" /\ r.dma /\ r.cb => r.chan.masked)
           \/ /\ r.cb /\ r.chan.masked /\ r.mode = "DMA" /\ q.mode = "DMA_MASKED"
              /\ q.ends = r.ends /\ q.silents = r.silents
           \/ r.mode = "DMA_MASKED" /\ r.dma /\ ~r.chan.masked /\ q.mode = "DMA"
    BY <2>1, <2>4, MasksQuietly
  <2>6. /\ Units(q) = Units(s) /\ q.autoinit = s.autoinit /\ q.pending = s.pending
        /\ q.irqs = s.irqs /\ q.cb = r.cb
    BY <2>4, <2>5 DEF Rest, Queues
  <2>7. CASE q = r /\ (r.mode = "DMA_MASKED" /\ r.dma /\ r.cb => r.chan.masked)
    <3>1. Waits(q)
      BY <2>3, <2>4, <2>6, <2>7 DEF Waits, Dark, Queues, masked, on
    <3>2. Seen(q) = Seen(s)
      <4>1. Playing(q) = Playing(s)
        BY <2>3, <2>4, <2>7 DEF Playing, masked
      <4> QED
        BY <2>6, <4>1 DEF Seen, Units
    <3> QED
      BY <3>1, <3>2, SeenAlike DEF Resumes
  <2>8. CASE r.mode = "DMA_MASKED" /\ r.dma /\ ~r.chan.masked /\ q.mode = "DMA"
    <3>1. Waits(q)
      BY <2>3, <2>6, <2>8 DEF Waits
    <3>2. Playing(q) /\ s.left > 0
      BY <2>3, <2>4, <2>5, <2>8 DEF Playing, Units
    <3>3. q \in Card
      BY Continues DEF Keeps, Good
    <3>4. Seen(q) = [Seen(s) EXCEPT !.playing = TRUE]
      BY <1>2, <2>6, <3>2, <3>3, ResumedIs DEF Units
    <3> QED
      BY <2>3, <3>1, <3>2, <3>4 DEF Resumes
  <2> QED
    BY <2>4, <2>5, <2>7, <2>8 DEF masked
<1> QED
  BY <1>1, <1>2, <1>3, <1>4

LEMMA AgainIs ==
  ASSUME NEW s \in Card, NEW on \in BOOLEAN
  PROVE  LET q == [s EXCEPT !.autoinit = on]
         IN  /\ q \in Card /\ Seen(q) = [Seen(s) EXCEPT !.again = on]
             /\ Waits(s) => Waits(q)
<1> DEFINE q == [s EXCEPT !.autoinit = on]
           b == Seen(s)
           c == [b EXCEPT !.again = on]
           d == Seen(q)
<1>1. /\ q \in Card /\ Units(q) = Units(s) /\ Queues(q) = Queues(s) /\ q.mode = s.mode
      /\ q.autoinit = on /\ q.irqs = s.irqs /\ q.cb = s.cb
  BY DEF Card, Units, Queues
<1> HIDE DEF q
<1>2. /\ b \in BlockState /\ b.playing = Playing(s) /\ b.left = s.left /\ b.size = s.total
      /\ b.again = s.autoinit /\ b.signal = s.pending /\ b.asked = (s.irqs > 0)
  BY SeenIs
<1>3. /\ d \in BlockState /\ d.playing = Playing(q) /\ d.left = q.left /\ d.size = q.total
      /\ d.again = q.autoinit /\ d.signal = q.pending /\ d.asked = (q.irqs > 0)
  BY <1>1, SeenIs
<1>4. Playing(q) = Playing(s)
  BY <1>1 DEF Playing, Units
<1> HIDE DEF b, d
<1>5. /\ c \in BlockState /\ c.playing = b.playing /\ c.left = b.left /\ c.size = b.size
      /\ c.again = on /\ c.signal = b.signal /\ c.asked = b.asked
  BY <1>2 DEF BlockState
<1> HIDE DEF c
<1>6. /\ d.playing = c.playing /\ d.left = c.left /\ d.size = c.size /\ d.again = c.again
      /\ d.signal = c.signal /\ d.asked = c.asked
  BY <1>1, <1>2, <1>3, <1>4, <1>5 DEF Units, Queues
<1>7. d = c
  BY <1>3, <1>5, <1>6, SameBlock
<1>8. Waits(s) => Waits(q)
  BY <1>1 DEF Waits, Dark, Units, Queues
<1> QED
  BY <1>1, <1>7, <1>8 DEF q, b, c, d

LEMMA AutoinitsPlays ==
  ASSUME NEW s, Good(s), Waits(s), NEW q \in ExitAutoinit(s) \cup ContinueAutoinit(s)
  PROVE  /\ Waits(q)
         /\ \E again \in BOOLEAN :
              \/ \E b \in Block!Now(Seen(s)) : Seen(q) = [b EXCEPT !.again = again]
              \/ Seen(q) \in Block!Now([Seen(s) EXCEPT !.again = again])
<1> DEFINE off == FALSE
           on == TRUE
           r == [s EXCEPT !.autoinit = off]
<1>1. off \in BOOLEAN /\ on \in BOOLEAN /\ s \in Card
  BY DEF Good
<1>2. CASE q \in ContinueAutoinit(s)
  <2>1. PICK t \in FillUp(s) : q = [t EXCEPT !.autoinit = on]
    BY <1>2 DEF ContinueAutoinit
  <2> HIDE DEF on
  <2>2. t \in Card /\ Plays(s, t)
    BY Fills, FillsPlays DEF Keeps, Good
  <2>3. Seen(q) = [Seen(t) EXCEPT !.again = on] /\ Waits(q)
    BY <1>1, <2>1, <2>2, AgainIs DEF Plays
  <2> QED
    BY <1>1, <2>2, <2>3 DEF Plays
<1>3. CASE q \in ExitAutoinit(s)
  <2>1. q \in FillUp(r)
    BY <1>3 DEF ExitAutoinit
  <2> HIDE DEF off
  <2>2. Good(r) /\ Seen(r) = [Seen(s) EXCEPT !.again = off] /\ Waits(r)
    BY <1>1, SetsAutoinit, AgainIs DEF Keeps
  <2> HIDE DEF r
  <2>3. Waits(q) /\ Seen(q) \in Block!Now([Seen(s) EXCEPT !.again = off])
    BY <2>1, <2>2, FillsPlays DEF Plays
  <2> QED
    BY <1>1, <2>3
<1> QED
  BY <1>2, <1>3

LEMMA AsksPlays ==
  ASSUME NEW s, Good(s), Waits(s)
  PROVE  LET q == [s EXCEPT !.irqs = 1]
         IN  Waits(q) /\ Seen(q) = [Seen(s) EXCEPT !.asked = TRUE]
<1> DEFINE one == 1
           on == TRUE
           q == [s EXCEPT !.irqs = one]
           b == Seen(s)
           c == [b EXCEPT !.asked = on]
           d == Seen(q)
<1>1. s \in Card /\ on \in BOOLEAN /\ one \in Nat
  BY DEF Good
<1> HIDE DEF one, on
<1>2. /\ q \in Card /\ Units(q) = Units(s) /\ Queues(q) = Queues(s) /\ q.mode = s.mode
      /\ q.autoinit = s.autoinit /\ q.irqs = one /\ q.cb = s.cb
  BY <1>1 DEF Card, Units, Queues
<1> HIDE DEF q
<1>3. /\ b \in BlockState /\ b.playing = Playing(s) /\ b.left = s.left /\ b.size = s.total
      /\ b.again = s.autoinit /\ b.signal = s.pending
  BY <1>1, SeenIs
<1>4. /\ d \in BlockState /\ d.playing = Playing(q) /\ d.left = q.left /\ d.size = q.total
      /\ d.again = q.autoinit /\ d.signal = q.pending /\ d.asked = (q.irqs > 0)
  BY <1>2, SeenIs
<1>5. Playing(q) = Playing(s)
  BY <1>2 DEF Playing, Units
<1>6. d.asked = on
  <2>1. q.irqs > 0
    BY <1>2 DEF one
  <2> QED
    BY <1>4, <2>1 DEF BlockState, on
<1> HIDE DEF b, d
<1>7. /\ c \in BlockState /\ c.playing = b.playing /\ c.left = b.left /\ c.size = b.size
      /\ c.again = b.again /\ c.signal = b.signal /\ c.asked = on
  BY <1>1, <1>3 DEF BlockState
<1> HIDE DEF c
<1>8. /\ d.playing = c.playing /\ d.left = c.left /\ d.size = c.size /\ d.again = c.again
      /\ d.signal = c.signal /\ d.asked = c.asked
  BY <1>2, <1>3, <1>4, <1>5, <1>6, <1>7 DEF Units, Queues
<1>9. d = c
  BY <1>4, <1>7, <1>8, SameBlock
<1>10. Waits(q)
  BY <1>2 DEF Waits, Dark, Units, Queues, one
<1> QED
  BY <1>9, <1>10 DEF q, b, c, d, one, on

LEMMA RaisesPlays ==
  ASSUME NEW s, Good(s), Waits(s), s.irqs > 0
  PROVE  LET q == SB_RaiseIRQ([s EXCEPT !.irqs = @ - 1])
         IN  /\ Waits(q) /\ Seen(s).asked
             /\ Seen(q) = [Seen(s) EXCEPT !.asked = FALSE, !.signal = TRUE]
<1> DEFINE zero == 0
           on == TRUE
           off == FALSE
           line == s.line \/ ~s.pending
           q == [s EXCEPT !.irqs = zero, !.pending = on, !.line = line]
           b == Seen(s)
           c == [b EXCEPT !.asked = off, !.signal = on]
           d == Seen(q)
<1>1. s \in Card /\ on \in BOOLEAN /\ off \in BOOLEAN /\ line \in BOOLEAN /\ zero \in Nat
      /\ s.irqs = 1
  <2>1. s \in Card
    BY DEF Good
  <2> QED
    BY <2>1 DEF Waits, Card
<1>2. SB_RaiseIRQ([s EXCEPT !.irqs = @ - 1]) = q
  BY <1>1 DEF SB_RaiseIRQ, Card
<1> HIDE DEF zero, on, off, line
<1>3. /\ q \in Card /\ Units(q) = Units(s) /\ q.mode = s.mode /\ q.autoinit = s.autoinit
      /\ q.irqs = zero /\ q.pending = on /\ q.cb = s.cb /\ q.ends = s.ends
      /\ q.silents = s.silents
  BY <1>1 DEF Card, Units
<1> HIDE DEF q
<1>4. /\ b \in BlockState /\ b.playing = Playing(s) /\ b.left = s.left /\ b.size = s.total
      /\ b.again = s.autoinit /\ b.asked = (s.irqs > 0)
  BY <1>1, SeenIs
<1>5. /\ d \in BlockState /\ d.playing = Playing(q) /\ d.left = q.left /\ d.size = q.total
      /\ d.again = q.autoinit /\ d.signal = q.pending /\ d.asked = (q.irqs > 0)
  BY <1>3, SeenIs
<1>6. Playing(q) = Playing(s)
  BY <1>3 DEF Playing, Units
<1>7. d.asked = off /\ b.asked
  <2>1. ~(q.irqs > 0)
    BY <1>3 DEF zero
  <2>2. d.asked = off
    BY <1>5, <2>1 DEF BlockState, off
  <2>3. b.asked
    BY <1>4 DEF BlockState
  <2> QED
    BY <2>2, <2>3
<1> HIDE DEF b, d
<1>8. /\ c \in BlockState /\ c.playing = b.playing /\ c.left = b.left /\ c.size = b.size
      /\ c.again = b.again /\ c.signal = on /\ c.asked = off
  BY <1>1, <1>4 DEF BlockState
<1> HIDE DEF c
<1>9. /\ d.playing = c.playing /\ d.left = c.left /\ d.size = c.size /\ d.again = c.again
      /\ d.signal = c.signal /\ d.asked = c.asked
  BY <1>3, <1>4, <1>5, <1>6, <1>7, <1>8 DEF Units
<1>10. d = c
  BY <1>5, <1>8, <1>9, SameBlock
<1>11. Waits(q)
  BY <1>3 DEF Waits, Dark, Units, zero
<1> QED
  BY <1>2, <1>7, <1>10, <1>11 DEF q, b, c, d, on, off

LEMMA AcknowledgesPlays ==
  ASSUME NEW s, Good(s), Waits(s)
  PROVE  LET q == Acknowledge(s)
         IN  /\ Waits(q) /\ Playing(q) \in BOOLEAN
             /\ Playing(s) => Playing(q)
             /\ Playing(q) => s.left > 0
             /\ Seen(q) = [Seen(s) EXCEPT !.signal = FALSE, !.playing = Playing(q)]
<1> DEFINE off == FALSE
           line == s.line /\ ~s.pending
           mode == IF s.mode = "DMA_REQUIRE_IRQ_ACK" THEN "DMA" ELSE s.mode
           q == [s EXCEPT !.pending = off, !.line = line, !.mode = mode]
           on == Playing(q)
           b == Seen(s)
           c == [b EXCEPT !.signal = off, !.playing = on]
           d == Seen(q)
<1>1. s \in Card /\ off \in BOOLEAN /\ line \in BOOLEAN /\ mode \in Modes /\ Ordered(s)
  BY DEF Good, Card, Modes
<1>2. Acknowledge(s) = q
  BY DEF Acknowledge
<1>3. mode = "DMA" \/ mode = s.mode
  OBVIOUS
<1> HIDE DEF off, line, mode
<1>4. /\ q \in Card /\ Units(q) = Units(s) /\ q.mode = mode /\ q.autoinit = s.autoinit
      /\ q.irqs = s.irqs /\ q.pending = off /\ q.cb = s.cb /\ q.ends = s.ends
      /\ q.silents = s.silents
  BY <1>1 DEF Card, Units
<1> HIDE DEF q
<1>5. Waits(q)
  BY <1>3, <1>4 DEF Waits, Dark, Units
<1>6. (Playing(s) => Playing(q)) /\ (Playing(q) => s.left > 0)
  BY <1>1, <1>3, <1>4 DEF Playing, Units, Ordered
<1>7. /\ b \in BlockState /\ b.left = s.left /\ b.size = s.total
      /\ b.again = s.autoinit /\ b.asked = (s.irqs > 0)
  BY <1>1, SeenIs
<1>8. /\ d \in BlockState /\ d.playing = on /\ d.left = q.left /\ d.size = q.total
      /\ d.again = q.autoinit /\ d.signal = q.pending /\ d.asked = (q.irqs > 0)
  BY <1>4, SeenIs
<1>9. on \in BOOLEAN
  BY <1>8 DEF BlockState
<1> HIDE DEF b, d, on
<1>10. /\ c \in BlockState /\ c.playing = on /\ c.left = b.left /\ c.size = b.size
       /\ c.again = b.again /\ c.signal = off /\ c.asked = b.asked
  BY <1>1, <1>7, <1>9 DEF BlockState
<1> HIDE DEF c
<1>11. /\ d.playing = c.playing /\ d.left = c.left /\ d.size = c.size /\ d.again = c.again
       /\ d.signal = c.signal /\ d.asked = c.asked
  BY <1>4, <1>7, <1>8, <1>10 DEF Units
<1>12. d = c
  BY <1>8, <1>10, <1>11, SameBlock
<1> QED
  BY <1>2, <1>5, <1>6, <1>9, <1>12 DEF b, c, d, on, off

LEMMA ResetsPlays ==
  ASSUME NEW s, Good(s), Waits(s), ~Dark(s), NEW q \in DSP_Reset(s)
  PROVE  Waits(q) /\ Seen(q) = [Block!Idle EXCEPT !.asked = Seen(s).asked]
<1> DEFINE off == FALSE
           none == {}
           zero == 0
           mode == "NONE"
           lowered == [s EXCEPT !.line = off]
<1>1. PICK t \in {lowered} \cup FillUp(lowered) :
        q = [t EXCEPT !.mode = mode, !.left = zero, !.total = zero, !.autoinit = off,
                      !.dma = off, !.pending = off, !.ends = none]
  BY DEF DSP_Reset
<1>2. /\ off \in BOOLEAN /\ none \in SUBSET Nat /\ zero \in Nat /\ zero \in Sizes \cup {0}
      /\ mode \in Modes /\ s \in Card
  BY DEF Modes, Good
<1>3. Good(lowered) /\ ~Dark(lowered) /\ lowered.irqs = s.irqs
  <2> HIDE DEF off
  <2>1. /\ lowered \in Card /\ Units(lowered) = Units(s) /\ Sound(lowered) = Sound(s)
        /\ lowered.ends = s.ends /\ lowered.mode = s.mode /\ lowered.irqs = s.irqs
    BY <1>2 DEF Card, Units, Sound
  <2> HIDE DEF lowered
  <2>2. Keeps(s, lowered)
    BY <2>1, Tweaks
  <2> QED
    BY <2>1, <2>2 DEF Keeps, Dark, Sound
<1> HIDE DEF lowered
<1>4. t \in Card /\ t.silents = << >> /\ t.irqs = s.irqs
  <2>1. CASE t = lowered
    BY <1>3, <2>1 DEF Good, Dark
  <2>2. CASE t \in FillUp(lowered)
    <3>1. Keeps(lowered, t) /\ Rest(t) = Rest(lowered) /\ (~Dark(lowered) => t.silents = << >>)
      BY <1>3, <2>2, Fills DEF Dark
    <3> QED
      BY <1>3, <3>1 DEF Keeps, Good, Rest
  <2> QED
    BY <2>1, <2>2
<1> DEFINE r == [t EXCEPT !.mode = mode, !.left = zero, !.total = zero, !.autoinit = off]
<1>5. q = [r EXCEPT !.dma = off, !.pending = off, !.ends = none]
  BY <1>1
<1> HIDE DEF off, none, zero, mode
<1>6. /\ r \in Card /\ r.mode = mode /\ r.left = zero /\ r.total = zero /\ r.autoinit = off
      /\ r.silents = t.silents /\ r.irqs = t.irqs
  BY <1>2, <1>4 DEF Card
<1> HIDE DEF r
<1>7. /\ q \in Card /\ q.mode = mode /\ q.left = zero /\ q.total = zero /\ q.autoinit = off
      /\ q.silents = t.silents /\ q.irqs = t.irqs /\ q.dma = off /\ q.pending = off
      /\ q.ends = none
  BY <1>2, <1>5, <1>6 DEF Card
<1>8. Waits(q) /\ ~Playing(q)
  <2>1. s.irqs \in {0, 1}
    BY DEF Waits
  <2> QED
    BY <1>4, <1>7, <2>1 DEF Waits, Playing, Dark, mode, off, none
<1> DEFINE asked == Seen(s).asked
           idle == Block!Idle
           c == [idle EXCEPT !.asked = asked]
           d == Seen(q)
<1>9. /\ d \in BlockState /\ d.playing = Playing(q) /\ d.left = q.left /\ d.size = q.total
      /\ d.again = q.autoinit /\ d.signal = q.pending /\ d.asked = (q.irqs > 0)
  BY <1>7, SeenIs
<1>10. asked = (s.irqs > 0) /\ asked \in BOOLEAN
  <2>1. Seen(s) \in BlockState /\ Seen(s).asked = (s.irqs > 0)
    BY <1>2, SeenIs
  <2> QED
    BY <2>1 DEF BlockState
<1>11. /\ idle \in BlockState /\ idle.playing = off /\ idle.left = zero /\ idle.size = zero
       /\ idle.again = off /\ idle.signal = off
  BY DEF Block!Idle, BlockState, off, zero
<1> HIDE DEF asked, idle, d
<1>12. /\ c \in BlockState /\ c.playing = idle.playing /\ c.left = idle.left
       /\ c.size = idle.size /\ c.again = idle.again /\ c.signal = idle.signal
       /\ c.asked = asked
  BY <1>10, <1>11 DEF BlockState
<1> HIDE DEF c
<1>13. d.playing = off
  BY <1>8, <1>9 DEF BlockState, off
<1>14. d.asked = asked
  BY <1>4, <1>7, <1>9, <1>10
<1>15. /\ d.playing = c.playing /\ d.left = c.left /\ d.size = c.size /\ d.again = c.again
       /\ d.signal = c.signal /\ d.asked = c.asked
  BY <1>7, <1>9, <1>11, <1>12, <1>13, <1>14
<1>16. d = c
  BY <1>9, <1>12, <1>15, SameBlock
<1> QED
  BY <1>8, <1>16 DEF asked, idle, c, d

LEMMA SwitchesPlays ==
  ASSUME NEW s, Good(s), NEW chan \in Chan
  PROVE  LET q == [s EXCEPT !.chan = chan]
         IN  /\ q \in Card /\ q.chan = chan /\ Queues(q) = Queues(s) /\ Rest(q) = Rest(s)
             /\ q.left = s.left /\ q.total = s.total /\ q.dma = s.dma /\ q.mode = s.mode
             /\ chan.masked = s.chan.masked /\ Waits(s) => Waits(q) /\ Seen(q) = Seen(s)
<1> DEFINE q == [s EXCEPT !.chan = chan]
<1>1. s \in Card
  BY DEF Good
<1>2. /\ q \in Card /\ q.chan = chan /\ Queues(q) = Queues(s) /\ Rest(q) = Rest(s)
      /\ q.left = s.left /\ q.total = s.total /\ q.dma = s.dma /\ q.mode = s.mode
  BY <1>1 DEF Card, Queues, Rest
<1> HIDE DEF q
<1>3. ASSUME chan.masked = s.chan.masked, Waits(s)
      PROVE  Waits(q) /\ Seen(q) = Seen(s)
  <2>1. Playing(q) = Playing(s)
    BY <1>2, <1>3 DEF Playing
  <2>2. Seen(q) = Seen(s)
    BY <1>2, <2>1 DEF Seen, Queues, Rest
  <2>3. Waits(q)
    BY <1>2, <1>3 DEF Waits, Dark, Queues, Rest
  <2> QED
    BY <2>2, <2>3
<1> QED
  BY <1>2, <1>3 DEF q

LEMMA SetsModePlays ==
  ASSUME NEW s, Good(s), Waits(s), NEW autoinit \in BOOLEAN
  PROVE  LET q == [s EXCEPT !.chan = SetMode(s.chan, autoinit)]
         IN  Waits(q) /\ Seen(q) = Seen(s)
<1> DEFINE chan == SetMode(s.chan, autoinit)
<1>1. s.chan \in Chan
  BY FieldsAre DEF Good
<1>2. chan \in Chan /\ chan.masked = s.chan.masked
  BY <1>1 DEF Chan, SetMode
<1> HIDE DEF chan
<1>3. LET q == [s EXCEPT !.chan = chan] IN Waits(q) /\ Seen(q) = Seen(s)
  BY <1>2, SwitchesPlays
<1> QED
  BY <1>3 DEF chan

LEMMA SetsCountPlays ==
  ASSUME NEW s, Good(s), Waits(s), NEW count \in ChannelCounts
  PROVE  LET q == [s EXCEPT !.chan = SetCount(s.chan, count)]
         IN  Waits(q) /\ Seen(q) = Seen(s)
<1> DEFINE chan == SetCount(s.chan, count)
<1>1. s.chan \in Chan /\ count \in 0 .. (Counts - 1)
  BY FieldsAre, SizesAre DEF Good
<1>2. chan \in Chan /\ chan.masked = s.chan.masked
  BY <1>1 DEF Chan, SetCount
<1> HIDE DEF chan
<1>3. LET q == [s EXCEPT !.chan = chan] IN Waits(q) /\ Seen(q) = Seen(s)
  BY <1>2, SwitchesPlays
<1> QED
  BY <1>3 DEF chan

LEMMA SetsMaskPlays ==
  ASSUME NEW s, Good(s), Waits(s), NEW mask \in BOOLEAN, ~mask => ~Dark(s)
  PROVE  LET q == SetMask(s, mask)
         IN  /\ Waits(q)
             /\ mask => ~Playing(q) /\ Seen(q) = Block!Stopped(Seen(s))
             /\ ~mask => Resumes(s, q)
<1> DEFINE chan == [s.chan EXCEPT !.masked = mask]
           r == [s EXCEPT !.chan = chan]
           q == SetMask(s, mask)
<1>1. s \in Card /\ s.chan \in Chan /\ Ordered(s)
  BY FieldsAre DEF Good
<1>2. chan \in Chan /\ chan.masked = mask
  BY <1>1 DEF Chan
<1>3. q = OnMask(r)
  BY <1>1 DEF SetMask, Card
<1>4. Keeps(s, q)
  BY SetsMask
<1> HIDE DEF chan, q
<1>5. /\ r \in Card /\ r.chan = chan /\ Queues(r) = Queues(s) /\ Rest(r) = Rest(s)
      /\ r.left = s.left /\ r.total = s.total /\ r.dma = s.dma /\ r.mode = s.mode
  BY <1>2, SwitchesPlays
<1> HIDE DEF r
<1>6. /\ Units(q) = Units(r) /\ Rest(q) = Rest(r) /\ q.pending = r.pending
      /\ \/ q = r /\ (r.mode = "DMA_MASKED" /\ r.dma /\ r.cb => r.chan.masked)
         \/ /\ r.cb /\ r.chan.masked /\ r.mode = "DMA" /\ q.mode = "DMA_MASKED"
            /\ q.ends = r.ends /\ q.silents = r.silents
         \/ r.mode = "DMA_MASKED" /\ r.dma /\ ~r.chan.masked /\ q.mode = "DMA"
  BY <1>3, <1>5, MasksQuietly
<1>7. /\ q \in Card /\ q.chan.masked = mask /\ q.left = s.left /\ q.total = s.total
      /\ q.dma = s.dma /\ q.cb = s.cb /\ q.autoinit = s.autoinit /\ q.pending = s.pending
      /\ q.irqs = s.irqs
  BY <1>2, <1>4, <1>5, <1>6 DEF Keeps, Good, Units, Rest, Queues
<1>8. Waits(q)
  <2>1. CASE q = r /\ (r.mode = "DMA_MASKED" /\ r.dma /\ r.cb => r.chan.masked)
    BY <1>2, <1>5, <1>7, <2>1 DEF Waits, Dark, Rest, Queues
  <2>2. CASE /\ r.cb /\ r.chan.masked /\ r.mode = "DMA" /\ q.mode = "DMA_MASKED"
             /\ q.ends = r.ends /\ q.silents = r.silents
    BY <1>2, <1>5, <1>7, <2>2 DEF Waits, Dark, Rest, Queues
  <2>3. CASE r.mode = "DMA_MASKED" /\ r.dma /\ ~r.chan.masked /\ q.mode = "DMA"
    BY <1>7, <2>3 DEF Waits
  <2> QED
    BY <1>6, <2>1, <2>2, <2>3
<1>9. ASSUME mask
      PROVE  ~Playing(q) /\ Seen(q) = Block!Stopped(Seen(s))
  <2>1. ~Playing(q)
    BY <1>7, <1>9 DEF Playing
  <2> DEFINE b == Seen(s)
             c == Block!Stopped(b)
             d == Seen(q)
  <2>2. /\ b \in BlockState /\ b.left = s.left /\ b.size = s.total
        /\ b.again = s.autoinit /\ b.signal = s.pending /\ b.asked = (s.irqs > 0)
    BY <1>1, SeenIs
  <2>3. /\ d \in BlockState /\ d.playing = Playing(q) /\ d.left = q.left /\ d.size = q.total
        /\ d.again = q.autoinit /\ d.signal = q.pending /\ d.asked = (q.irqs > 0)
    BY <1>7, SeenIs
  <2> HIDE DEF b, d
  <2>4. /\ c \in BlockState /\ c.playing = FALSE /\ c.left = b.left /\ c.size = b.size
        /\ c.again = b.again /\ c.signal = b.signal /\ c.asked = b.asked
    BY <2>2, StoppedIs
  <2> HIDE DEF c
  <2>5. d.playing = FALSE
    BY <2>1, <2>3 DEF BlockState
  <2>6. /\ d.playing = c.playing /\ d.left = c.left /\ d.size = c.size /\ d.again = c.again
        /\ d.signal = c.signal /\ d.asked = c.asked
    BY <1>7, <2>2, <2>3, <2>4, <2>5
  <2>7. d = c
    BY <2>3, <2>4, <2>6, SameBlock
  <2> QED
    BY <2>1, <2>7 DEF b, c, d
<1>10. ASSUME ~mask
       PROVE  Resumes(s, q)
  <2>1. CASE Playing(q) /\ ~Playing(s)
    <3>1. s.left > 0
      BY <1>1, <1>7, <2>1 DEF Playing, Ordered
    <3>2. Seen(q) = [Seen(s) EXCEPT !.playing = TRUE]
      BY <1>1, <1>7, <2>1, ResumedIs
    <3> QED
      BY <2>1, <3>1, <3>2 DEF Resumes
  <2>2. CASE Playing(q) = Playing(s)
    <3>1. Seen(q) = Seen(s)
      BY <1>7, <2>2 DEF Seen
    <3> QED
      BY <3>1, SeenAlike DEF Resumes
  <2>3. Playing(s) => Playing(q)
    BY <1>2, <1>5, <1>6, <1>7, <1>10 DEF Playing
  <2>4. Playing(s) \in BOOLEAN /\ Playing(q) \in BOOLEAN
    BY DEF Playing
  <2> QED
    BY <2>1, <2>2, <2>3, <2>4
<1> QED
  BY <1>8, <1>9, <1>10 DEF q

LEMMA EndsPlays ==
  ASSUME NEW s, Good(s), Waits(s), NEW val \in s.ends
  PROVE  Plays(s, GenerateDMASound([s EXCEPT !.ends = @ \ {val}], val))
<1> DEFINE fewer == s.ends \ {val}
           r == [s EXCEPT !.ends = fewer]
           q == GenerateDMASound(r, val)
<1>1. /\ s \in Card /\ Ordered(s) /\ s.ends \in SUBSET Nat /\ s.min \in Nat /\ s.left \in Nat
  BY FieldsAre DEF Good
<1>2. /\ val \in Nat \ {0} /\ val < s.min /\ Heard(s) /\ s.mode \in {"DMA", "DMA_MASKED"}
      /\ s.ends # {}
  BY <1>1 DEF Ordered, Waits
<1>3. fewer \in SUBSET Nat /\ fewer \subseteq s.ends
  BY <1>1
<1> HIDE DEF fewer
<1>4. /\ r \in Card /\ Units(r) = Units(s) /\ Sound(r) = Sound(s) /\ r.cb = s.cb
      /\ r.ends = fewer /\ r.mode = s.mode /\ r.silents = s.silents /\ r.pending = s.pending
      /\ r.autoinit = s.autoinit /\ r.irqs = s.irqs
  BY <1>1, <1>3 DEF Card, Units, Sound
<1> HIDE DEF r
<1>5. Keeps(s, r)
  BY <1>3, <1>4, Tweaks
<1>6. Good(r) /\ Heard(r) /\ r.left = s.left /\ r.min = s.min
  BY <1>2, <1>4, <1>5 DEF Keeps, Heard, Units, Sound
<1>7. Seen(r) = Seen(s) /\ Waits(r)
  BY <1>2, <1>4, Alike DEF Waits, Dark, Units
<1>8. r.dma /\ ~r.autoinit /\ r.left > r.min => val <= r.left
  BY <1>1, <1>2, <1>6
<1> HIDE DEF q
<1>9. Plays(r, q)
  BY <1>2, <1>4, <1>6, <1>7, <1>8, GeneratesPlays DEF q
<1> QED
  BY <1>7, <1>9 DEF Plays, q, r, fewer

LEMMA SilentPlays ==
  ASSUME NEW s, Good(s), Waits(s), NEW i \in DOMAIN s.silents
  PROVE  Plays(s, DMA_Silent_Event([s EXCEPT !.silents = RemoveAt(@, i)], s.silents[i]))
<1> DEFINE val == s.silents[i]
<1>1. s \in Card /\ s.silents \in Seq(Nat) /\ s.silents # << >>
  BY FieldsAre DEF Good
<1>2. Dark(s) /\ Len(s.silents) = 1
  BY <1>1 DEF Good, Ordered, Dark
<1>3. i = 1 /\ RemoveAt(s.silents, i) = << >> /\ val \in Nat
  BY <1>1, <1>2, OneSilent
<1> HIDE DEF val
<1>4. Plays(s, DMA_Silent_Event([s EXCEPT !.silents = << >>], val))
  BY <1>2, <1>3, SilencesPlays
<1> QED
  BY <1>3, <1>4 DEF val

-----------------------------------------------------------------------------
(* The steps of BlockTransfer, in what two states show. *)

Shown == Seen(sb)

LEMMA PlayIs ==
  ASSUME Shown' \in Block!Now(Shown)
  PROVE  Block!Next \/ Shown' = Shown
<1> DEFINE b == Shown
           c == Shown'
<1>1. CASE c # b
  <2>1. PICK n \in 1 .. b.left : c \in {Block!Taken(b, n), Block!Stopped(Block!Taken(b, n))}
                                 /\ b.playing
    <3> HIDE DEF b, c
    <3>1. b.playing
      BY <1>1 DEF Block!Now, b, c
    <3>2. c \in {Block!Taken(b, n) : n \in 1 .. b.left}
                \cup {Block!Stopped(d) : d \in {Block!Taken(b, n) : n \in 1 .. b.left}}
      BY <1>1 DEF Block!Now, b, c
    <3> QED
      BY <3>1, <3>2
  <2>2. Block!Play
    BY <2>1 DEF Block!Play, Shown, Seen
  <2> QED
    BY <2>2 DEF Block!Next
<1> QED
  BY <1>1

LEMMA BeginIs ==
  ASSUME Shown \in BlockState, Shown' \in BlockState,
         Shown'.left = Shown'.size, Shown'.size \in Sizes,
         Shown'.asked = Shown.asked, Shown'.signal => Shown.signal
  PROVE  Block!Next
<1> DEFINE b == Shown
           c == Shown'
           size == c.size
           playing == c.playing
           again == c.again
           signal == c.signal
           d == [b EXCEPT !.left = size, !.size = size, !.playing = playing,
                          !.again = again, !.signal = signal]
<1>1. /\ playing \in BOOLEAN /\ again \in BOOLEAN /\ signal \in BOOLEAN /\ size \in Nat
      /\ c.left = size /\ c.asked = b.asked /\ size \in Sizes /\ (signal => b.signal)
  BY DEF BlockState
<1>2. c.size = size /\ c.playing = playing /\ c.again = again /\ c.signal = signal
  OBVIOUS
<1> HIDE DEF b, c, size, playing, again, signal
<1>3. b \in BlockState /\ c \in BlockState
  BY DEF b, c
<1>4. /\ d \in BlockState /\ d.left = size /\ d.size = size /\ d.playing = playing
      /\ d.again = again /\ d.signal = signal /\ d.asked = b.asked
  BY <1>1, <1>3 DEF BlockState
<1> HIDE DEF d
<1>5. c = d
  BY <1>1, <1>2, <1>3, <1>4, SameBlock
<1>6. \E z \in Sizes, p, a, g \in BOOLEAN :
        /\ c.left = z
        /\ g => b.signal
        /\ c = [b EXCEPT !.left = z, !.size = z, !.playing = p, !.again = a, !.signal = g]
  BY <1>1, <1>5 DEF d
<1>7. Block!Begin
  BY <1>6, Zenon DEF Block!Begin, Shown, Seen, b, c
<1> QED
  BY <1>7 DEF Block!Next

LEMMA HaltIs ==
  ASSUME ~Shown'.playing, NEW b \in Block!Now(Shown), Shown' = Block!Stopped(b)
  PROVE  Block!Next
BY DEF Block!Next, Block!Halt, Shown, Seen

LEMMA ResumeIs ==
  ASSUME Resumes(sb, sb'), Shown \in BlockState, Shown.playing = Playing(sb), Shown.left = sb.left
  PROVE  Block!Next \/ Shown' = Shown
<1>1. CASE Shown' \in Block!Now(Shown)
  BY <1>1, PlayIs
<1>2. CASE ~Playing(sb) /\ sb.left > 0 /\ Shown' = [Shown EXCEPT !.playing = TRUE]
  <2>1. ~Shown.playing /\ Shown.left > 0
    BY <1>2
  <2>2. Block!Resume
    BY <1>2, <2>1 DEF Block!Resume, Shown, Seen
  <2> QED
    BY <2>2 DEF Block!Next
<1> QED
  BY <1>1, <1>2 DEF Resumes, Shown

LEMMA SetSizeIs ==
  ASSUME NEW size \in Sizes, Shown' = [Shown EXCEPT !.size = size]
  PROVE  Block!Next
<1>1. Shown \in Block!Now(Shown)
  BY DEF Block!Now
<1>2. Block!SetSize
  BY <1>1 DEF Block!SetSize, Shown, Seen
<1> QED
  BY <1>2 DEF Block!Next

LEMMA SetAgainIs ==
  ASSUME NEW again \in BOOLEAN,
         \/ \E b \in Block!Now(Shown) : Shown' = [b EXCEPT !.again = again]
         \/ Shown' \in Block!Now([Shown EXCEPT !.again = again])
  PROVE  Block!Next
<1>1. Block!SetAgain
  BY DEF Block!SetAgain, Shown, Seen
<1> QED
  BY <1>1 DEF Block!Next

LEMMA AcknowledgeIs ==
  ASSUME NEW playing \in BOOLEAN, Shown.playing => playing, playing => Shown.left > 0,
         Shown' = [Shown EXCEPT !.signal = FALSE, !.playing = playing]
  PROVE  Block!Next
<1>1. Block!Acknowledge
  BY DEF Block!Acknowledge, Shown, Seen
<1> QED
  BY <1>1 DEF Block!Next

LEMMA AskIs ==
  ASSUME Shown' = [Shown EXCEPT !.asked = TRUE]
  PROVE  Block!Next
BY DEF Block!Next, Block!Ask, Shown, Seen

LEMMA AnswerIs ==
  ASSUME Shown.asked, Shown' = [Shown EXCEPT !.asked = FALSE, !.signal = TRUE]
  PROVE  Block!Next
BY DEF Block!Next, Block!Answer, Shown, Seen

LEMMA ResetIs ==
  ASSUME Shown' = [Block!Idle EXCEPT !.asked = Shown.asked]
  PROVE  Block!Next
BY DEF Block!Next, Block!Reset, Shown, Seen

(***************************************************************************)
(* Every step of a careful program, of the mixer and of the events.        *)
(***************************************************************************)
LEMMA StepsPlay ==
  ASSUME Careful, Inv, Waits(sb), Next
  PROVE  Waits(sb)' /\ (Block!Next \/ Shown' = Shown)
<1>1. Good(sb) /\ sb \in Card /\ Good(sb') /\ sb' \in Card
  <2>1. Inv'
    BY Steps
  <2> QED
    BY <2>1 DEF Inv, Good, Ordered, Fed, Dark, Heard
<1>2. /\ Shown \in BlockState /\ Shown.playing = Playing(sb) /\ Shown.left = sb.left
      /\ Shown.size = sb.total /\ Shown.signal = sb.pending /\ Shown.asked = (sb.irqs > 0)
  BY <1>1, SeenIs DEF Shown
<1>3. Shown' = Seen(sb')
  BY DEF Shown, Seen, Playing
<1>4. /\ Shown' \in BlockState /\ Shown'.playing = Playing(sb') /\ Shown'.left = sb'.left
      /\ Shown'.size = sb'.total /\ Shown'.signal = sb'.pending
      /\ Shown'.asked = (sb'.irqs > 0)
  BY <1>1, <1>3, SeenIs
<1>5. SUFFICES Waits(sb') /\ (Block!Next \/ Shown' = Shown)
  BY DEF Waits, Dark
<1>6. ASSUME Plays(sb, sb')
      PROVE  Waits(sb') /\ (Block!Next \/ Shown' = Shown)
  <2>1. Shown' \in Block!Now(Shown)
    BY <1>3, <1>6 DEF Plays, Shown
  <2> QED
    BY <1>6, <2>1, PlayIs DEF Plays
<1>7. ASSUME Waits(sb'), Seen(sb') = Seen(sb)
      PROVE  Waits(sb') /\ (Block!Next \/ Shown' = Shown)
  BY <1>3, <1>7 DEF Shown
<1>8. ASSUME Waits(sb'), Resumes(sb, sb')
      PROVE  Waits(sb') /\ (Block!Next \/ Shown' = Shown)
  BY <1>2, <1>8, ResumeIs
<1>9. CASE Start
  <2>1. PICK size \in Sizes, autoinit \in BOOLEAN :
          \/ sb' = DSP_PrepareDMA_Old(sb, size, autoinit)
          \/ sb.sb16 /\ sb' = DSP_PrepareDMA_New(sb, size, autoinit)
    BY <1>9 DEF Start, Begins
  <2>2. ~Dark(sb)
    BY <1>9 DEF Start, StartsWell
  <2>3. /\ Waits(sb') /\ sb'.left = sb'.total /\ sb'.total \in Sizes /\ sb'.irqs = sb.irqs
        /\ sb'.pending => sb.pending
    BY <1>1, <2>1, <2>2, StartsPlays
  <2> QED
    BY <1>2, <1>4, <2>3, BeginIs
<1>10. CASE SetSize
  <2>1. PICK size \in Sizes : sb' = SetBlockSize(sb, size)
    BY <1>10 DEF SetSize, Moves
  <2>2. Waits(sb') /\ Seen(sb') = [Seen(sb) EXCEPT !.size = size]
    BY <1>1, <2>1, ResizesPlays
  <2> QED
    BY <1>3, <2>2, SetSizeIs DEF Shown
<1>11. CASE SetRate
  BY <1>1, <1>6, <1>11, RatedPlays DEF SetRate, Goes
<1>12. CASE Speaker
  <2>1. PICK how \in BOOLEAN, s \in FillUp(sb) :
          /\ ~sb.sb16 /\ (how => sb.mode # "DMA_PAUSE") /\ (~how => ~sb.dma)
          /\ sb' = DSP_SetSpeaker(s, how)
    BY <1>12 DEF Speaker, Goes
  <2>2. Good(s) /\ s.sb16 = sb.sb16 /\ (s.dma => sb.dma)
    BY <1>1, Fills DEF Keeps, Rest
  <2>3. Plays(sb, s) /\ (s = sb \/ s.mode # "DMA_PAUSE")
    BY <1>1, FillsPlays
  <2>4. Waits(sb') /\ Seen(sb') = Seen(s)
    BY <2>1, <2>2, <2>3, SpeaksPlays DEF Plays
  <2> QED
    BY <1>6, <2>3, <2>4 DEF Plays
<1>13. CASE HaltDMA
  <2>1. sb' \in Halt(sb) /\ Heard(sb)
    BY <1>13 DEF HaltDMA, Goes
  <2>2. /\ Waits(sb') /\ ~Playing(sb')
        /\ \E b \in Block!Now(Seen(sb)) : Seen(sb') = Block!Stopped(b)
    BY <1>1, <2>1, HaltsPlays
  <2> QED
    BY <1>3, <1>4, <2>2, HaltIs DEF Shown
<1>14. CASE ContinueDMA
  BY <1>1, <1>8, <1>14, ContinuesPlays DEF ContinueDMA, Goes
<1>15. CASE Autoinit
  <2>1. sb' \in ExitAutoinit(sb) \cup ContinueAutoinit(sb)
    BY <1>15 DEF Autoinit, Goes
  <2>2. /\ Waits(sb')
        /\ \E again \in BOOLEAN :
             \/ \E b \in Block!Now(Seen(sb)) : Seen(sb') = [b EXCEPT !.again = again]
             \/ Seen(sb') \in Block!Now([Seen(sb) EXCEPT !.again = again])
    BY <1>1, <2>1, AutoinitsPlays
  <2> QED
    BY <1>3, <2>2, SetAgainIs DEF Shown
<1>16. CASE Ask
  <2>1. sb' = [sb EXCEPT !.irqs = 1]
    BY <1>16 DEF Ask, Goes
  <2>2. Waits(sb') /\ Seen(sb') = [Seen(sb) EXCEPT !.asked = TRUE]
    BY <1>1, <2>1, AsksPlays
  <2> QED
    BY <1>3, <2>2, AskIs DEF Shown
<1>17. CASE ReadStatus
  <2>1. sb' = Acknowledge(sb)
    BY <1>17 DEF ReadStatus, Goes
  <2>2. /\ Waits(sb') /\ Playing(sb') \in BOOLEAN
        /\ Playing(sb) => Playing(sb')
        /\ Playing(sb') => sb.left > 0
        /\ Seen(sb') = [Seen(sb) EXCEPT !.signal = FALSE, !.playing = Playing(sb')]
    BY <1>1, <2>1, AcknowledgesPlays
  <2> QED
    BY <1>2, <1>3, <2>2, AcknowledgeIs DEF Shown
<1>18. CASE Reset
  <2>1. sb' \in DSP_Reset(sb) /\ ~Dark(sb)
    BY <1>18 DEF Reset, Goes
  <2>2. Waits(sb') /\ Seen(sb') = [Block!Idle EXCEPT !.asked = Seen(sb).asked]
    BY <1>1, <2>1, ResetsPlays
  <2> QED
    BY <1>3, <2>2, ResetIs DEF Shown
<1>19. CASE Channel
  <2>1. CASE sb' = SetMask(sb, TRUE)
    <3>1. Waits(sb') /\ ~Playing(sb') /\ Seen(sb') = Block!Stopped(Seen(sb))
      BY <1>1, <2>1, SetsMaskPlays
    <3>2. Shown \in Block!Now(Shown)
      BY DEF Block!Now
    <3> QED
      BY <1>3, <1>4, <3>1, <3>2, HaltIs DEF Shown
  <2>2. CASE ~Dark(sb) /\ sb' = SetMask(sb, FALSE)
    <3>1. Waits(sb') /\ Resumes(sb, sb')
      BY <1>1, <2>2, SetsMaskPlays
    <3> QED
      BY <1>8, <3>1
  <2>3. CASE \E autoinit \in BOOLEAN : sb' = [sb EXCEPT !.chan = SetMode(sb.chan, autoinit)]
    BY <1>1, <1>7, <2>3, SetsModePlays
  <2>4. CASE \E count \in ChannelCounts : sb' = [sb EXCEPT !.chan = SetCount(sb.chan, count)]
    BY <1>1, <1>7, <2>4, SetsCountPlays
  <2> QED
    BY <1>19, <2>1, <2>2, <2>3, <2>4 DEF Channel, Goes, Moves
<1>20. CASE Mixer
  BY <1>1, <1>6, <1>20, FillsPlays DEF Mixer, Goes
<1>21. CASE EndEvent
  <2>1. PICK val \in sb.ends : sb' = GenerateDMASound([sb EXCEPT !.ends = @ \ {val}], val)
    BY <1>21 DEF EndEvent, Goes
  <2>2. Plays(sb, sb')
    BY <1>1, <2>1, EndsPlays
  <2> QED
    BY <1>6, <2>2
<1>22. CASE SilentEvent
  <2>1. PICK i \in DOMAIN sb.silents :
          sb' = DMA_Silent_Event([sb EXCEPT !.silents = RemoveAt(@, i)], sb.silents[i])
    BY <1>22 DEF SilentEvent, Goes
  <2>2. Plays(sb, sb')
    BY <1>1, <2>1, SilentPlays
  <2> QED
    BY <1>6, <2>2
<1>23. CASE IrqEvent
  <2>1. sb.irqs > 0 /\ sb' = SB_RaiseIRQ([sb EXCEPT !.irqs = @ - 1])
    BY <1>23 DEF IrqEvent, Goes
  <2>2. /\ Waits(sb') /\ Seen(sb).asked
        /\ Seen(sb') = [Seen(sb) EXCEPT !.asked = FALSE, !.signal = TRUE]
    BY <1>1, <2>1, RaisesPlays
  <2> QED
    BY <1>3, <2>2, AnswerIs DEF Shown
<1> QED
  BY <1>9, <1>10, <1>11, <1>12, <1>13, <1>14, <1>15, <1>16, <1>17, <1>18, <1>19, <1>20,
     <1>21, <1>22, <1>23 DEF Next, Program

(***************************************************************************)
(* Whatever the sizes, rates and counters: what a careful program sees of  *)
(* a transfer is what BlockTransfer promises.  Units are taken only while  *)
(* the card plays, each block ends with a signal at its last unit and goes *)
(* on or stops as it was told, and nothing else moves it but the commands. *)
(* This is the safety half of Transfers.                                   *)
(***************************************************************************)
THEOREM TransfersSafely ==
  ASSUME Careful
  PROVE  Spec => Block!Init /\ [][Block!Next]_Shown
<1>1. Init => Inv /\ Waits(sb) /\ Block!Init
  <2> SUFFICES ASSUME Init PROVE Inv /\ Waits(sb) /\ Block!Init
    OBVIOUS
  <2>1. Inv
    BY Begun
  <2>2. /\ sb.mode = "NONE" /\ sb.dma = FALSE /\ sb.left = 0 /\ sb.total = 0
        /\ sb.autoinit = FALSE /\ sb.pending = FALSE /\ sb.irqs = 0 /\ sb.ends = {}
        /\ sb.silents = << >>
    BY DEF Init
  <2>3. Waits(sb) /\ ~Playing(sb)
    BY <2>2 DEF Waits, Dark, Playing
  <2>4. Seen(sb) = Block!Idle
    <3>1. Playing(sb) = FALSE /\ (sb.irqs > 0) = FALSE
      BY <2>2 DEF Playing
    <3> QED
      BY <2>2, <3>1 DEF Seen, Block!Idle
  <2>5. Block!Init
    BY <2>4 DEF Block!Init, Seen
  <2> QED
    BY <2>1, <2>3, <2>5
<1>2. Inv /\ Waits(sb) /\ [Next]_vars => Inv' /\ Waits(sb)' /\ [Block!Next]_Shown
  <2>1. CASE Next
    BY <2>1, Steps, StepsPlay
  <2>2. ASSUME Inv, Waits(sb), UNCHANGED vars
        PROVE  Inv' /\ Waits(sb)' /\ Shown' = Shown
    BY <2>2 DEF vars, Inv, Good, Ordered, Fed, Dark, Heard, Stepped, Waits, Shown, Seen, Playing
  <2> QED
    BY <2>1, <2>2
<1> QED
  BY <1>1, <1>2, PTL DEF Spec
=============================================================================
