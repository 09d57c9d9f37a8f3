----------------------------- MODULE PicProofs -----------------------------
(***************************************************************************)
(* Theorems about the interrupt path of Pic, for controllers of any number *)
(* of lines and every configuration of the machine, and about the guests   *)
(* of PicGuest: interrupts nest by priority if a guest does not use        *)
(* special mask mode, which lets lower lines interrupt on purpose, and the *)
(* lines in service are those of its handlers if these end their           *)
(* interrupts.                                                             *)
(***************************************************************************)
EXTENDS PicGuest, TLAPS, WellFoundedInduction, FiniteSetTheorems, SequenceTheorems

(***************************************************************************)
(* Lines and their order.                                                  *)
(***************************************************************************)
(* Every nonempty set of numbers has a least element.                      *)
LEMMA LeastNat ==
  ASSUME NEW T, T \subseteq Nat, T # {}
  PROVE  \E i \in T : \A j \in T : i <= j
<1>1. PICK i \in T : \A j \in T : ~(<<j, i>> \in OpToRel(<, Nat))
  BY NatLessThanWellFounded, WFMin
<1>2. ASSUME NEW j \in T PROVE i <= j
  <2>1. <<j, i>> \in Nat \X Nat
    OBVIOUS
  <2>2. ~ (j < i)
    BY <1>1, <2>1 DEF OpToRel
  <2> QED
    BY <2>2
<1> QED
  BY <1>2

(* What LeastLine, the search of update_active_irq, returns.               *)
LEMMA LeastLineIs ==
  ASSUME NEW T, T \subseteq Lines
  PROVE  /\ LeastLine(T) \in 0 .. N
         /\ T = {} => LeastLine(T) = N
         /\ T # {} => /\ LeastLine(T) \in T
                      /\ \A j \in T : LeastLine(T) <= j
<1>1. CASE T = {}
  BY <1>1, LinesAssumption DEF LeastLine
<1>2. CASE T # {}
  <2>1. T \subseteq Nat
    BY LinesAssumption DEF Lines
  <2>2. \E i \in T : \A j \in T : i <= j
    BY <1>2, <2>1, LeastNat
  <2>3. LeastLine(T) \in T /\ \A j \in T : LeastLine(T) <= j
    BY <1>2, <2>2 DEF LeastLine
  <2>4. \A i \in Lines : i \in 0 .. N
    BY LinesAssumption DEF Lines
  <2> QED
    BY <1>2, <2>3, <2>4
<1> QED
  BY <1>1, <1>2

(***************************************************************************)
(* Chip states.                                                            *)
(***************************************************************************)
State == [pic : [Pics -> Controller], pending : BOOLEAN]

(* The lines of the controller in the cascade, where there is one.         *)
LEMMA CascadeIsLine == HasSlave => Cascade \in Lines
BY LinesAssumption DEF Cascade, Lines

LEMMA PutType ==
  ASSUME NEW S \in State, NEW p \in Pics, NEW c \in Controller
  PROVE  /\ Put(S, p, c) \in State
         /\ Put(S, p, c).pic[p] = c
         /\ \A q \in Pics \ {p} : Put(S, p, c).pic[q] = S.pic[q]
         /\ Put(S, p, c).pending = S.pending
BY DEF Put, State

(***************************************************************************)
(* What holds of the chips between two operations: ActiveOK of every       *)
(* controller, a slave that is not there stays silent, and a request the   *)
(* master could deliver has its check on the way, b being the part of that *)
(* promise that PIC_IRQCheck keeps. Linked is the slave's half, which is   *)
(* promised only for a slave none of whose lines has the cs_equ_ds hack.   *)
(***************************************************************************)
ActiveOK(c) ==
  /\ c.active_irq = N <=> c.isr = {}
  /\ c.active_irq # N => c.active_irq \in c.isr

Silent(c) == c.irr = {} /\ ~c.auto_eoi

Sound(S, b) ==
  /\ S \in State
  /\ \A p \in Pics : ActiveOK(S.pic[p])
  /\ ~HasSlave => Silent(S.pic[Slave])
  /\ Ready(Master, S.pic[Master]) => S.pending \/ b

Unhacked(p) == \A v \in Lines : IrqNumber(p, v) \notin HackIrqs

Linked(S) ==
  Unhacked(Slave) /\ HasSlave /\ Ready(Slave, S.pic[Slave]) /\ ~S.pic[Slave].special
    => Cascade \in S.pic[Master].irr

(* One controller is replaced by another that keeps the promises.          *)
LEMMA SoundPut ==
  ASSUME NEW b \in BOOLEAN, NEW S, Sound(S, b), NEW p \in Pics,
         NEW c \in Controller, ActiveOK(c),
         p = Slave /\ ~HasSlave => Silent(c),
         p = Master /\ Ready(Master, c) => S.pending \/ b
  PROVE  Sound(Put(S, p, c), b)
<1>1. S \in State
  BY DEF Sound
<1>2. Master \in Pics /\ Slave \in Pics /\ Master # Slave
  BY DEF Pics, Master, Slave
<1> QED
  BY <1>1, <1>2, PutType DEF Sound

(* The event is queued: the master's promise is kept whatever its state.   *)
LEMMA SoundActivate ==
  ASSUME NEW b \in BOOLEAN, NEW S, Sound(S, TRUE)
  PROVE  /\ Sound(MasterActivate(S), b)
         /\ MasterActivate(S).pic = S.pic
BY DEF MasterActivate, Sound, State

(* A request that arrives makes a controller ready only if its line is one *)
(* that raise_irq forwards.                                                *)
LEMMA ReadyRaise ==
  ASSUME NEW p \in Pics, NEW c \in Controller, NEW v \in Lines,
         Ready(p, [c EXCEPT !.irr = @ \cup {v}]), ~Ready(p, c)
  PROVE  Forwards(p, c, v)
<1> DEFINE d == [c EXCEPT !.irr = @ \cup {v}]
<1>1. d.irr = c.irr \cup {v} /\ d.imr = c.imr /\ d.isr = c.isr
      /\ d.special = c.special /\ d.active_irq = c.active_irq
  BY DEF Controller
<1>2. Ceiling(p, d) = Ceiling(p, c)
  BY <1>1 DEF Ceiling
<1>3. Serviceable(p, d) \subseteq Serviceable(p, c) \cup {v}
  BY <1>1 DEF Serviceable
<1>4. v \in Serviceable(p, d) /\ v < Ceiling(p, c) /\ v \notin Serviceable(p, c)
  BY <1>2, <1>3 DEF Ready
<1>5. v \notin c.irr /\ Notices(p, c, v)
  BY <1>1, <1>4 DEF Serviceable, Notices
<1>6. v \in Int /\ c.active_irq \in Int
  BY LinesAssumption DEF Lines, Controller
<1>7. CASE c.special
  BY <1>5, <1>7 DEF Forwards
<1>8. CASE ~c.special /\ IgnoreCascade /\ p = Master /\ c.active_irq = Cascade
  <2>1. v < c.active_irq + 1
    BY <1>4, <1>8 DEF Ceiling
  <2> QED
    BY <1>5, <1>6, <1>8, <2>1 DEF Forwards
<1>9. CASE ~c.special /\ ~(IgnoreCascade /\ p = Master /\ c.active_irq = Cascade)
  <2>1. v < c.active_irq
    BY <1>4, <1>9 DEF Ceiling
  <2> QED
    BY <1>5, <2>1 DEF Forwards
<1> QED
  BY <1>7, <1>8, <1>9 DEF Controller

(* Withdrawing a request or masking lines makes no controller ready.       *)
LEMMA ReadyLess ==
  ASSUME NEW p, NEW c \in Controller, NEW d \in Controller, Ready(p, d),
         d.irr \subseteq c.irr, d.imr = c.imr, d.isr = c.isr,
         d.special = c.special, d.active_irq = c.active_irq
  PROVE  Ready(p, c)
<1>1. Ceiling(p, d) = Ceiling(p, c)
  BY DEF Ceiling
<1>2. Serviceable(p, d) \subseteq Serviceable(p, c)
  BY DEF Serviceable
<1> QED
  BY <1>1, <1>2 DEF Ready

(* The master raises a line of its own.                                    *)
LEMMA RaiseMaster ==
  ASSUME NEW b \in BOOLEAN, NEW S, Sound(S, b), NEW v \in Lines
  PROVE  LET T == MasterRaise(S, v)
         IN  /\ Sound(T, b)
             /\ T.pic[Slave] = S.pic[Slave]
             /\ T.pic[Master].irr = S.pic[Master].irr \cup {v}
<1> DEFINE c  == S.pic[Master]
           c1 == [c EXCEPT !.irr = @ \cup {v}]
           S1 == Put(S, Master, c1)
<1>1. S \in State /\ c \in Controller /\ ActiveOK(c) /\ Master \in Pics
  BY DEF Sound, State, Pics
<1>2. c1 \in Controller /\ ActiveOK(c1) /\ c1.irr = c.irr \cup {v}
  BY <1>1 DEF Controller, ActiveOK
<1>3. Slave \in Pics \ {Master}
  BY DEF Pics, Slave, Master
<1>4. S1.pic[Master] = c1 /\ S1.pic[Slave] = S.pic[Slave]
  BY <1>1, <1>2, <1>3, PutType
<1>5. Sound(S, TRUE)
  BY DEF Sound
<1>6. Sound(S1, TRUE)
  BY <1>1, <1>2, <1>3, <1>5, SoundPut
<1>7. Sound(MasterActivate(S1), b) /\ MasterActivate(S1).pic = S1.pic
  BY <1>6, SoundActivate
<1>8. CASE Ready(Master, c1) /\ ~Ready(Master, c)
  <2>1. MasterRaise(S, v) = MasterActivate(S1)
    BY <1>1, <1>8, ReadyRaise DEF MasterRaise, Requested
  <2> QED
    BY <1>2, <1>4, <1>7, <2>1
<1>9. CASE Ready(Master, c1) => Ready(Master, c)
  <2>1. Sound(S1, b)
    <3>1. Ready(Master, c1) => S.pending \/ b
      BY <1>9 DEF Sound
    <3> QED
      BY <1>1, <1>2, <1>3, <3>1, SoundPut
  <2>2. MasterRaise(S, v) \in {S1, MasterActivate(S1)}
    BY DEF MasterRaise, Requested
  <2> QED
    BY <1>2, <1>4, <1>7, <2>1, <2>2
<1> QED
  BY <1>8, <1>9

(* check_for_irq at the master: the promise holds again, whatever was      *)
(* changed before.                                                         *)
LEMMA CheckMaster ==
  ASSUME NEW b \in BOOLEAN, NEW S, Sound(S, TRUE)
  PROVE  LET T == CheckForIrq(S, Master)
         IN  Sound(T, b) /\ T.pic = S.pic
<1>1. CASE Ready(Master, S.pic[Master])
  <2>1. CheckForIrq(S, Master) = MasterActivate(S)
    BY <1>1 DEF CheckForIrq, MasterCheck
  <2> QED
    BY <2>1, SoundActivate
<1>2. CASE ~Ready(Master, S.pic[Master])
  <2>1. CheckForIrq(S, Master) = S
    BY <1>2 DEF CheckForIrq, MasterCheck
  <2> QED
    BY <1>2, <2>1 DEF Sound
<1> QED
  BY <1>1, <1>2

(* The master lowers a line of its own.                                    *)
LEMMA LowerMaster ==
  ASSUME NEW b \in BOOLEAN, NEW S, Sound(S, b), NEW v
  PROVE  LET T == MasterLower(S, v)
         IN  /\ Sound(T, b)
             /\ T.pic[Slave] = S.pic[Slave]
             /\ T.pic[Master].irr = S.pic[Master].irr \ {v}
<1> DEFINE c  == S.pic[Master]
           c1 == [c EXCEPT !.irr = @ \ {v}]
           S1 == Put(S, Master, c1)
<1>1. S \in State /\ c \in Controller /\ ActiveOK(c) /\ Master \in Pics
  BY DEF Sound, State, Pics
<1>2. c1 \in Controller /\ ActiveOK(c1) /\ c1.irr = c.irr \ {v}
      /\ c1.imr = c.imr /\ c1.isr = c.isr
      /\ c1.special = c.special /\ c1.active_irq = c.active_irq
  BY <1>1 DEF Controller, ActiveOK
<1>3. Slave \in Pics \ {Master}
  BY DEF Pics, Slave, Master
<1>4. S1.pic[Master] = c1 /\ S1.pic[Slave] = S.pic[Slave]
  BY <1>1, <1>2, <1>3, PutType
<1>5. Ready(Master, c1) => Ready(Master, c)
  BY <1>1, <1>2, ReadyLess
<1>6. Sound(S1, b)
  <2>1. Ready(Master, c1) => S.pending \/ b
    BY <1>5 DEF Sound
  <2> QED
    BY <1>1, <1>2, <1>3, <2>1, SoundPut
<1>7. Sound(CheckForIrq(S1, Master), b) /\ CheckForIrq(S1, Master).pic = S1.pic
  BY <1>6, CheckMaster DEF Sound
<1>8. MasterLower(S, v)
        \in {S1, CheckForIrq(S1, Master)}
  BY DEF MasterLower, Withdrawn, CheckForIrq
<1> QED
  BY <1>2, <1>4, <1>6, <1>7, <1>8

(* check_for_irq at the slave: its cascade request stands if it is ready.  *)
LEMMA CheckSlave ==
  ASSUME NEW b \in BOOLEAN, NEW S, Sound(S, b), HasSlave
  PROVE  LET T == CheckForIrq(S, Slave)
         IN  Sound(T, b) /\ Linked(T) /\ T.pic[Slave] = S.pic[Slave]
<1>1. CASE Ready(Slave, S.pic[Slave])
  <2>1. CheckForIrq(S, Slave) = MasterRaise(S, Cascade)
    BY <1>1 DEF CheckForIrq, SlaveCheck, SlaveActivate, Master, Slave
  <2> QED
    BY <2>1, CascadeIsLine, RaiseMaster DEF Linked
<1>2. CASE ~Ready(Slave, S.pic[Slave])
  <2>1. CheckForIrq(S, Slave) = SlaveDeactivate(S)
    BY <1>2 DEF CheckForIrq, SlaveCheck, Master, Slave
  <2>2. Sound(SlaveDeactivate(S), b) /\ SlaveDeactivate(S).pic[Slave] = S.pic[Slave]
    BY LowerMaster DEF SlaveDeactivate
  <2> QED
    BY <1>2, <2>1, <2>2 DEF Linked
<1> QED
  BY <1>1, <1>2

(* check_for_irq after a change that may have made controller p ready.     *)
LEMMA CheckEither ==
  ASSUME NEW b \in BOOLEAN, NEW S, NEW p \in Pics,
         p = Slave => HasSlave,
         Sound(S, p = Master \/ b), p = Master => Linked(S)
  PROVE  LET T == CheckForIrq(S, p)
         IN  Sound(T, b) /\ Linked(T)
<1>1. CASE p = Master
  BY <1>1, CheckMaster DEF Linked
<1>2. CASE p = Slave
  <2>1. Sound(S, b)
    BY <1>2 DEF Sound, Master, Slave
  <2> QED
    BY <1>2, <2>1, CheckSlave
<1> QED
  BY <1>1, <1>2 DEF Pics

(* raise_irq of either controller.                                         *)
LEMMA RaiseEither ==
  ASSUME NEW b \in BOOLEAN, NEW S, Sound(S, b), Linked(S),
         NEW p \in Pics, p = Slave => HasSlave, NEW v \in Lines
  PROVE  Sound(RaiseIrq(S, p, v), b) /\ Linked(RaiseIrq(S, p, v))
<1>1. CASE p = Master
  <2>1. RaiseIrq(S, p, v) = MasterRaise(S, v)
    BY <1>1 DEF RaiseIrq
  <2> QED
    BY <2>1, RaiseMaster DEF Linked
<1>2. CASE p = Slave
  <2> DEFINE c  == S.pic[Slave]
             c1 == [c EXCEPT !.irr = @ \cup {v}]
             S1 == Put(S, Slave, c1)
  <2>1. S \in State /\ c \in Controller /\ ActiveOK(c) /\ Slave \in Pics
    BY DEF Sound, State, Pics
  <2>2. c1 \in Controller /\ ActiveOK(c1) /\ c1.special = c.special
    BY <2>1 DEF Controller, ActiveOK
  <2>3. Master \in Pics \ {Slave} /\ Slave # Master
    BY DEF Pics, Slave, Master
  <2>4. S1.pic[Slave] = c1 /\ S1.pic[Master] = S.pic[Master]
    BY <2>1, <2>2, <2>3, PutType
  <2>5. Sound(S1, b)
    BY <1>2, <2>1, <2>2, <2>3, SoundPut
  <2>6. RaiseIrq(S, p, v) = RaiseIrq(S, Slave, v)
    BY <1>2
  <2>7. Sound(SlaveActivate(S1), b) /\ Linked(SlaveActivate(S1))
    BY <1>2, <2>5, CascadeIsLine, RaiseMaster DEF SlaveActivate, Linked
  <2>8. CASE Ready(Slave, c1) /\ ~Ready(Slave, c)
    <3>1. RaiseIrq(S, Slave, v) = SlaveActivate(S1)
      BY <2>1, <2>3, <2>8, ReadyRaise DEF RaiseIrq, Requested
    <3> QED
      BY <2>6, <2>7, <3>1
  <2>9. CASE Ready(Slave, c1) => Ready(Slave, c)
    <3>1. Linked(S1)
      BY <2>2, <2>4, <2>9 DEF Linked
    <3>2. RaiseIrq(S, Slave, v) \in {S1, SlaveActivate(S1)}
      BY <2>3 DEF RaiseIrq, Requested
    <3> QED
      BY <2>5, <2>6, <2>7, <3>1, <3>2
  <2> QED
    BY <2>8, <2>9
<1> QED
  BY <1>1, <1>2 DEF Pics

(* lower_irq of either controller. The master lowers its cascade line only *)
(* when told to by the slave.                                              *)
LEMMA LowerEither ==
  ASSUME NEW b \in BOOLEAN, NEW S, Sound(S, b), Linked(S),
         NEW p \in Pics, p = Slave => HasSlave, NEW v,
         p = Master => v # Cascade
  PROVE  Sound(LowerIrq(S, p, v), b) /\ Linked(LowerIrq(S, p, v))
<1>1. CASE p = Master
  <2>1. LowerIrq(S, p, v) = MasterLower(S, v)
    BY <1>1 DEF LowerIrq
  <2> QED
    BY <1>1, <2>1, LowerMaster DEF Linked
<1>2. CASE p = Slave
  <2> DEFINE c  == S.pic[Slave]
             c1 == [c EXCEPT !.irr = @ \ {v}]
             S1 == Put(S, Slave, c1)
  <2>1. S \in State /\ c \in Controller /\ ActiveOK(c) /\ Slave \in Pics
    BY DEF Sound, State, Pics
  <2>2. c1 \in Controller /\ ActiveOK(c1) /\ c1.irr \subseteq c.irr
        /\ c1.imr = c.imr /\ c1.isr = c.isr
        /\ c1.special = c.special /\ c1.active_irq = c.active_irq
    BY <2>1 DEF Controller, ActiveOK
  <2>3. Master \in Pics \ {Slave} /\ Slave # Master
    BY DEF Pics, Slave, Master
  <2>4. S1.pic[Slave] = c1 /\ S1.pic[Master] = S.pic[Master]
    BY <2>1, <2>2, <2>3, PutType
  <2>5. Sound(S1, b)
    BY <1>2, <2>1, <2>2, <2>3, SoundPut
  <2>6. Ready(Slave, c1) => Ready(Slave, c)
    BY <2>1, <2>2, ReadyLess
  <2>7. Linked(S1)
    BY <2>2, <2>4, <2>6 DEF Linked
  <2>8. Sound(CheckForIrq(S1, Slave), b) /\ Linked(CheckForIrq(S1, Slave))
    BY <1>2, <2>5, CheckSlave
  <2>9. LowerIrq(S, p, v) \in {S1, CheckForIrq(S1, Slave)}
    BY <1>2, <2>3 DEF LowerIrq, Withdrawn, CheckForIrq
  <2> QED
    BY <2>5, <2>7, <2>8, <2>9
<1> QED
  BY <1>1, <1>2 DEF Pics

(* set_imr: the lines that are unmasked are looked at.                     *)
LEMMA SetImrEither ==
  ASSUME NEW b \in BOOLEAN, NEW S, Sound(S, b), Linked(S),
         NEW p \in Pics, p = Slave => HasSlave, NEW val \in SUBSET Lines
  PROVE  Sound(SetImr(S, p, val), b) /\ Linked(SetImr(S, p, val))
<1> DEFINE c  == S.pic[p]
           c1 == [c EXCEPT !.imr = val]
           S1 == Put(S, p, c1)
           changed == (c.imr \ val) \cup (val \ c.imr)
           seen == c.irr \cap changed \cap ((Lines \ c.isr) \cup isr_ignore(p))
<1>1. S \in State /\ c \in Controller /\ ActiveOK(c)
  BY DEF Sound, State
<1>2. c1 \in Controller /\ ActiveOK(c1) /\ c1.irr = c.irr /\ c1.imr = val
      /\ c1.isr = c.isr /\ c1.special = c.special /\ c1.active_irq = c.active_irq
  BY <1>1 DEF Controller, ActiveOK
<1>3. /\ Master \in Pics /\ Slave \in Pics /\ Master # Slave
      /\ Pics = {Master, Slave}
  BY DEF Pics, Slave, Master
<1>4. S1.pic[p] = c1 /\ \A q \in Pics \ {p} : S1.pic[q] = S.pic[q]
  BY <1>1, <1>2, PutType
<1>5. CASE seen # {}
  <2>1. SetImr(S, p, val) = CheckForIrq(S1, p)
    BY <1>5 DEF SetImr
  <2>2. Sound(S, p = Master \/ b)
    BY DEF Sound
  <2>3. Sound(S1, p = Master \/ b)
    <3>1. p = Master /\ Ready(Master, c1) => S.pending \/ (p = Master \/ b)
      OBVIOUS
    <3> QED
      BY <1>1, <1>2, <1>3, <2>2, <3>1, SoundPut
  <2>4. p = Master => Linked(S1)
    BY <1>2, <1>3, <1>4 DEF Linked
  <2> QED
    BY <2>1, <2>3, <2>4, CheckEither
<1>6. CASE seen = {}
  <2>1. SetImr(S, p, val) = S1
    BY <1>6 DEF SetImr
  <2>2. Ceiling(p, c1) = Ceiling(p, c)
    BY <1>2 DEF Ceiling
  <2>3. Serviceable(p, c1) \subseteq Serviceable(p, c)
    BY <1>1, <1>2, <1>6 DEF Serviceable, Controller
  <2>4. Ready(p, c1) => Ready(p, c)
    BY <2>2, <2>3 DEF Ready
  <2>5. Sound(S1, b)
    <3>1. p = Master /\ Ready(Master, c1) => S.pending \/ b
      BY <2>4 DEF Sound
    <3>2. p = Slave /\ ~HasSlave => Silent(c1)
      OBVIOUS
    <3> QED
      BY <1>1, <1>2, <3>1, <3>2, SoundPut
  <2>6. Linked(S1)
    BY <1>2, <1>3, <1>4, <2>4 DEF Linked
  <2> QED
    BY <2>1, <2>5, <2>6
<1> QED
  BY <1>5, <1>6

(* An EOI: check_after_EOI recomputes active_irq and looks again.          *)
LEMMA EoiEither ==
  ASSUME NEW b \in BOOLEAN, NEW S, Sound(S, b), Linked(S),
         NEW p \in Pics, p = Slave => HasSlave, NEW D
  PROVE  Sound(EndOfInterrupt(S, p, D), b) /\ Linked(EndOfInterrupt(S, p, D))
<1> DEFINE c  == S.pic[p]
           c1 == [c EXCEPT !.isr = @ \ D, !.active_irq = LeastLine(c.isr \ D)]
           S1 == Put(S, p, c1)
<1>1. S \in State /\ c \in Controller
  BY DEF Sound, State
<1>2. c.isr \ D \subseteq Lines /\ N \notin Lines
  BY <1>1, LinesAssumption DEF Controller, Lines
<1>3. /\ LeastLine(c.isr \ D) \in 0 .. N
      /\ c.isr \ D = {} => LeastLine(c.isr \ D) = N
      /\ c.isr \ D # {} => LeastLine(c.isr \ D) \in c.isr \ D
  BY <1>2, LeastLineIs
<1>4. c1 \in Controller /\ c1.irr = c.irr /\ c1.isr = c.isr \ D
      /\ c1.active_irq = LeastLine(c.isr \ D) /\ c1.special = c.special
  BY <1>1, <1>2, <1>3 DEF Controller
<1>5. ActiveOK(c1)
  BY <1>2, <1>3, <1>4 DEF ActiveOK
<1>6. /\ Master \in Pics /\ Slave \in Pics /\ Master # Slave
      /\ Pics = {Master, Slave}
  BY DEF Pics, Slave, Master
<1>7. S1.pic[p] = c1 /\ \A q \in Pics \ {p} : S1.pic[q] = S.pic[q]
  BY <1>1, <1>4, PutType
<1>8. CASE Serviceable(p, c1) # {}
  <2>1. EndOfInterrupt(S, p, D) = CheckForIrq(S1, p)
    BY <1>8 DEF EndOfInterrupt
  <2>2. Sound(S, p = Master \/ b)
    BY DEF Sound
  <2>3. Sound(S1, p = Master \/ b)
    <3>1. p = Master /\ Ready(Master, c1) => S.pending \/ (p = Master \/ b)
      OBVIOUS
    <3> QED
      BY <1>4, <1>5, <1>6, <2>2, <3>1, SoundPut
  <2>4. p = Master => Linked(S1)
    BY <1>4, <1>6, <1>7 DEF Linked
  <2> QED
    BY <2>1, <2>3, <2>4, CheckEither
<1>9. CASE Serviceable(p, c1) = {}
  <2>1. EndOfInterrupt(S, p, D) = S1
    BY <1>9 DEF EndOfInterrupt
  <2>2. ~Ready(p, c1)
    BY <1>9 DEF Ready
  <2>3. Sound(S1, b)
    BY <1>4, <1>5, <1>6, <2>2, SoundPut
  <2>4. Linked(S1)
    BY <1>4, <1>6, <1>7, <2>2 DEF Linked
  <2> QED
    BY <2>1, <2>3, <2>4
<1> QED
  BY <1>8, <1>9

(***************************************************************************)
(* Dispatch.                                                               *)
(***************************************************************************)
(* start_irq at one controller, seen by that controller.                   *)
Started(c, d, v) ==
  /\ d.irr = c.irr \ {v}
  /\ d.special = c.special /\ d.imr = c.imr
  /\ d.auto_eoi = c.auto_eoi
  /\ c.isr \subseteq d.isr

LEMMA StartOne ==
  ASSUME NEW S, Sound(S, TRUE), NEW p \in Pics, p = Slave => HasSlave,
         NEW v \in Lines
  PROVE  /\ Sound(StartIrq(S, p, v), TRUE)
         /\ \A q \in Pics \ {p} : StartIrq(S, p, v).pic[q] = S.pic[q]
         /\ Started(S.pic[p], StartIrq(S, p, v).pic[p], v)
         /\ ~S.pic[p].auto_eoi /\ p = Slave => StartIrq(S, p, v).pic[p].active_irq = v
<1> DEFINE c  == S.pic[p]
           c1 == [c EXCEPT !.irr = @ \ {v}]
           c2 == [c1 EXCEPT !.active_irq = v, !.isr = @ \cup {v}]
           quiet == c.auto_eoi \/ (NeverMark /\ p = Master /\ v = Cascade)
           d == IF quiet THEN c1 ELSE c2
<1>1. S \in State /\ c \in Controller /\ ActiveOK(c)
  BY DEF Sound, State
<1>2. v \in 0 .. N /\ v # N
  BY LinesAssumption DEF Lines
<1>3. c1 \in Controller /\ c2 \in Controller
  BY <1>1, <1>2 DEF Controller
<1>4. ActiveOK(c1) /\ ActiveOK(c2)
  BY <1>1, <1>2 DEF ActiveOK, Controller
<1>5. /\ Master \in Pics /\ Slave \in Pics /\ Master # Slave
  BY DEF Pics, Slave, Master
<1>6. StartIrq(S, p, v) = Put(S, p, d)
  BY DEF StartIrq
<1>7. /\ d \in Controller /\ ActiveOK(d)
      /\ Started(c, d, v)
      /\ ~c.auto_eoi /\ p = Slave => d.active_irq = v
  BY <1>1, <1>3, <1>4, <1>5 DEF Controller, Started
<1> HIDE DEF d
<1>8. Sound(Put(S, p, d), TRUE)
  BY <1>5, <1>7, SoundPut
<1>9. Put(S, p, d).pic[p] = d /\ \A q \in Pics \ {p} : Put(S, p, d).pic[q] = S.pic[q]
  BY <1>1, <1>7, PutType
<1> QED
  BY <1>6, <1>7, <1>8, <1>9

(* The least line below the ceiling that is not passed over.               *)
LEMMA LeastCandidate ==
  ASSUME NEW p \in Pics, NEW c \in Controller, NEW e
  PROVE  LET line == LeastLine(Candidates(p, c, e))
         IN  /\ line \in 0 .. N
             /\ line = N <=> Candidates(p, c, e) = {}
             /\ line # N => /\ line \in Candidates(p, c, e) /\ line \in Lines
                            /\ \A j \in Candidates(p, c, e) : line <= j
             /\ Unhacked(p) /\ Ready(p, c) => line # N
<1>1. Candidates(p, c, e) \subseteq Lines /\ N \notin Lines
  BY LinesAssumption DEF Candidates, Serviceable, Controller, Lines
<1>2. Unhacked(p) /\ Ready(p, c) => Candidates(p, c, e) # {}
  <2> SUFFICES ASSUME Unhacked(p), Ready(p, c) PROVE Candidates(p, c, e) # {}
    OBVIOUS
  <2>1. PICK i \in Serviceable(p, c) : i < Ceiling(p, c)
    BY DEF Ready
  <2>2. i \in Lines
    BY DEF Serviceable, Controller
  <2> QED
    BY <2>1, <2>2 DEF Candidates, Skips, Unhacked
<1> QED
  BY <1>1, <1>2, LeastLineIs

(* slave_startIRQ: what remains at the slave is either linked again or, in *)
(* auto EOI mode, about to be looked at.                                   *)
LEMMA SlaveStart ==
  ASSUME NEW S, Sound(S, TRUE), Linked(S), HasSlave, NEW e
  PROVE  LET T == SlaveStartIrq(S, e)
         IN  Sound(T, TRUE) /\ (T.pic[Slave].auto_eoi \/ Linked(T))
<1> DEFINE c == S.pic[Slave]
           line == LeastLine(Candidates(Slave, c, e))
           T1 == StartIrq(S, Slave, line)
           T == StartIrq(T1, Master, Cascade)
<1>1. /\ Master \in Pics /\ Slave \in Pics /\ Master # Slave
      /\ Pics = {Master, Slave}
  BY DEF Pics, Slave, Master
<1>2. c \in Controller
  BY <1>1 DEF Sound, State
<1>3. line \in 0 .. N /\ (line # N => line \in Lines)
  BY <1>1, <1>2, LeastCandidate
<1>4. CASE line < N
  <2>1. line \in Lines /\ line \in Candidates(Slave, c, e)
        /\ \A j \in Candidates(Slave, c, e) : line <= j
    BY <1>1, <1>2, <1>4, LeastCandidate
  <2>2. Sound(T1, TRUE)
    BY <1>1, <2>1, StartOne
  <2>7. /\ Started(c, T1.pic[Slave], line)
        /\ ~c.auto_eoi => T1.pic[Slave].active_irq = line
    BY <1>1, <2>1, StartOne
  <2>3. Sound(T, TRUE) /\ T.pic[Slave] = T1.pic[Slave]
    <3>1. ASSUME NEW U, Sound(U, TRUE)
          PROVE  /\ Sound(StartIrq(U, Master, Cascade), TRUE)
                 /\ StartIrq(U, Master, Cascade).pic[Slave] = U.pic[Slave]
      <4>1. Master # Slave /\ Master \in Pics /\ Slave \in Pics \ {Master} /\ Cascade \in Lines
        BY <1>1, CascadeIsLine
      <4> QED
        BY <3>1, <4>1, StartOne
    <3> QED
      BY <2>2, <3>1
  <2>4. SlaveStartIrq(S, e) = T
    BY <1>4 DEF SlaveStartIrq
  <2>5. ASSUME ~c.auto_eoi, ~c.special, Unhacked(Slave) PROVE ~Ready(Slave, T1.pic[Slave])
    <3> DEFINE d == T1.pic[Slave]
    <3>1. /\ d.irr = c.irr \ {line} /\ d.imr = c.imr /\ c.isr \subseteq d.isr
          /\ d.active_irq = line /\ ~d.special
      BY <2>5, <2>7 DEF Started
    <3>2. Ceiling(Slave, d) = line
      BY <1>1, <3>1 DEF Ceiling
    <3>3. Serviceable(Slave, d) \subseteq Serviceable(Slave, c)
      BY <3>1 DEF Serviceable
    <3>4. line < Ceiling(Slave, c)
      BY <2>1 DEF Candidates
    <3>5. Ceiling(Slave, c) = c.active_irq /\ c.active_irq \in Int
      BY <1>1, <1>2, <2>5, LinesAssumption DEF Ceiling, Controller
    <3>6. ASSUME NEW i \in Serviceable(Slave, d), i < line PROVE FALSE
      <4>1. i \in Serviceable(Slave, c) /\ i \in Lines
        BY <1>2, <3>3, <3>6 DEF Serviceable, Controller
      <4>2. i \in Int /\ line \in Int
        BY <2>1, <4>1, LinesAssumption DEF Lines
      <4>3. i < Ceiling(Slave, c)
        BY <3>4, <3>5, <3>6, <4>2
      <4>4. i \in Candidates(Slave, c, e)
        BY <2>5, <4>1, <4>3 DEF Candidates, Skips, Unhacked
      <4> QED
        BY <2>1, <3>6, <4>2, <4>4
    <3> QED
      BY <3>2, <3>6 DEF Ready
  <2>6. T.pic[Slave].auto_eoi = c.auto_eoi /\ T.pic[Slave].special = c.special
    BY <2>3, <2>7 DEF Started
  <2> QED
    BY <2>3, <2>4, <2>5, <2>6 DEF Linked
<1>5. CASE ~(line < N)
  <2>1. SlaveStartIrq(S, e) \in {S, LowerIrq(S, Slave, Cascade)}
    BY <1>5 DEF SlaveStartIrq
  <2> QED
    BY <1>1, <2>1, LowerEither
<1> QED
  BY <1>4, <1>5

(* The search of PIC_runIRQs and what it starts.                           *)
LEMMA DispatchOne ==
  ASSUME NEW S, Sound(S, TRUE), Linked(S), NEW e
  PROVE  LET T == Dispatch(S, e)
         IN  /\ Sound(T, TRUE)
             /\ T.pic[Slave].auto_eoi \/ Linked(T)
             /\ Candidates(Master, S.pic[Master], e) = {} => T = S
<1> DEFINE c == S.pic[Master]
           line == LeastLine(Candidates(Master, c, e))
<1>1. /\ Master \in Pics /\ Slave \in Pics /\ Master # Slave
      /\ Pics = {Master, Slave}
  BY DEF Pics, Slave, Master
<1>2. c \in Controller
  BY <1>1 DEF Sound, State
<1>3. /\ line \in 0 .. N /\ (line # N => line \in Lines)
      /\ line = N <=> Candidates(Master, c, e) = {}
  BY <1>1, <1>2, LeastCandidate
<1>4. CASE line = N
  BY <1>3, <1>4 DEF Dispatch
<1>5. CASE line # N /\ line = Cascade
  <2>1. HasSlave
    BY <1>3, <1>5, LinesAssumption DEF Cascade, NoLine, Lines
  <2> QED
    BY <1>3, <1>5, <2>1, SlaveStart DEF Dispatch
<1>6. CASE line # N /\ line # Cascade
  <2>1. Dispatch(S, e) = StartIrq(S, Master, line)
    BY <1>6 DEF Dispatch
  <2> DEFINE T == StartIrq(S, Master, line)
  <2>2. /\ Sound(T, TRUE) /\ T.pic[Slave] = S.pic[Slave]
        /\ Started(c, T.pic[Master], line)
    BY <1>1, <1>3, <1>6, StartOne
  <2>3. T.pic[Master].irr = c.irr \ {line}
    BY <2>2 DEF Started
  <2>4. Linked(T)
    BY <1>6, <2>2, <2>3 DEF Linked
  <2> QED
    BY <1>3, <1>6, <2>1, <2>2, <2>4
<1> QED
  BY <1>4, <1>5, <1>6

(* The look at a controller in auto EOI mode keeps both promises, and      *)
(* restores the slave's.                                                   *)
LEMMA AutoEoiEither ==
  ASSUME NEW b \in BOOLEAN, NEW S, Sound(S, b), NEW p \in Pics,
         Linked(S) \/ (p = Slave /\ S.pic[Slave].auto_eoi)
  PROVE  Sound(AutoEoiCheck(S, p), b) /\ Linked(AutoEoiCheck(S, p))
<1>1. Master # Slave /\ Pics = {Master, Slave}
  BY DEF Pics, Slave, Master
<1>2. CASE S.pic[p].auto_eoi
  <2>1. AutoEoiCheck(S, p) = CheckForIrq(S, p)
    BY <1>2 DEF AutoEoiCheck
  <2>2. p = Slave => HasSlave
    BY <1>2 DEF Sound, Silent
  <2>3. Sound(S, p = Master \/ b)
    BY DEF Sound
  <2>4. p = Master => Linked(S)
    BY <1>1
  <2> QED
    BY <2>1, <2>2, <2>3, <2>4, CheckEither
<1>3. CASE ~S.pic[p].auto_eoi
  BY <1>3 DEF AutoEoiCheck
<1> QED
  BY <1>2, <1>3

(***************************************************************************)
(* The inductive invariant of the specification.                           *)
(***************************************************************************)
Kept == check \/ ~Unhacked(Master)

IInv ==
  /\ Sound(Chips, Kept)
  /\ Linked(Chips)
  /\ {check, iflag, nmiPending, nmiActive, nmiGate} \subseteq BOOLEAN

LEMMA KeptIsBoolean == Kept \in BOOLEAN
BY DEF Kept

(* A step that replaces the chips by S and may set PIC_IRQCheck.           *)
LEMMA BecomeKeeps ==
  ASSUME NEW S, Become(S), Sound(S, Kept'), Linked(S),
         {check', iflag', nmiPending', nmiActive', nmiGate'} \subseteq BOOLEAN
  PROVE  IInv'
<1>1. S \in State
  BY DEF Sound
<1>2. S = Chips'
  BY <1>1 DEF Become, Chips, State
<1> QED
  BY <1>2 DEF IInv

(* A port write, or a device's request.                                    *)
LEMMA WriteKeeps ==
  ASSUME IInv, NEW S, Become(S), Sound(S, Kept), Linked(S),
         UNCHANGED <<check, iflag, nmiPending, nmiActive, nmiGate>>
  PROVE  IInv'
<1>1. Kept' = Kept
  BY DEF Kept
<1>2. {check', iflag', nmiPending', nmiActive', nmiGate'} \subseteq BOOLEAN
  BY DEF IInv
<1> QED
  BY <1>1, <1>2, BecomeKeeps

(* A step that leaves the chips alone and does not clear PIC_IRQCheck.     *)
LEMMA FlagsKeep ==
  ASSUME IInv, UNCHANGED <<pic, pending>>, check => check',
         {check', iflag', nmiPending', nmiActive', nmiGate'} \subseteq BOOLEAN
  PROVE  IInv'
<1>1. Kept => Kept'
  BY DEF Kept
<1>2. Chips' = Chips
  BY DEF Chips
<1> QED
  BY <1>1, <1>2 DEF IInv, Sound

LEMMA InitInv == Init => IInv
<1> SUFFICES ASSUME Init PROVE IInv
  OBVIOUS
<1>1. /\ Master \in Pics /\ Slave \in Pics /\ Master # Slave
      /\ Pics = {Master, Slave}
  BY DEF Pics, Slave, Master
<1>2. \A U : LET c == ResetController(U)
             IN  c \in Controller /\ ActiveOK(c) /\ Silent(c) /\ c.irr = {}
  BY LinesAssumption DEF ResetController, Controller, ActiveOK, Silent
<1>3. \A p \in Pics : /\ ResetPic[p] \in Controller /\ ActiveOK(ResetPic[p])
                      /\ Silent(ResetPic[p]) /\ ResetPic[p].irr = {}
  BY <1>1, <1>2 DEF ResetPic
<1>4. \A p \in Pics : ~Ready(p, ResetPic[p])
  BY <1>3 DEF Ready, Serviceable
<1>5. ResetPic \in [Pics -> Controller]
  BY <1>3 DEF ResetPic
<1>6. Chips.pic = ResetPic /\ Chips \in State
  BY <1>5 DEF Init, Chips, State
<1> QED
  BY <1>1, <1>3, <1>4, <1>6 DEF IInv, Sound, Linked, Init

LEMMA RouteIsLine ==
  ASSUME NEW irq \in Irqs, Route(irq) # NoLine
  PROVE  /\ Chip(Route(irq)) \in Pics
         /\ LineOf(Route(irq)) \in Lines
         /\ Chip(Route(irq)) = Slave => HasSlave
         /\ Chip(Route(irq)) = Master => LineOf(Route(irq)) # Cascade
<1>1. Route(irq) \in Irqs
  BY LinesAssumption DEF Route, Irqs, Irq9, Lines
<1>2. Chip(Route(irq)) \in Pics /\ LineOf(Route(irq)) \in Lines
  BY <1>1, LinesAssumption DEF Irqs, Lines, Chip, LineOf, Pics
<1>3. Route(irq) >= N => HasSlave
  BY <1>1, ConfigAssumption, LinesAssumption DEF Route, Irqs, Irq9, Lines
<1>4. Chip(Route(irq)) = Slave => HasSlave
  BY <1>1, <1>3, LinesAssumption DEF Chip, Master, Slave, Irqs
<1>5. Route(irq) # Cascade
  BY <1>1, ConfigAssumption, LinesAssumption DEF Route, Cascade, Irq9, NoLine, Irqs, Lines
<1>6. Chip(Route(irq)) = Master => LineOf(Route(irq)) = Route(irq)
  BY DEF Chip, LineOf, Master, Slave
<1> QED
  BY <1>2, <1>4, <1>5, <1>6

LEMMA DeviceStep == IInv /\ Device => IInv'
<1> SUFFICES ASSUME IInv, Device PROVE IInv'
  OBVIOUS
<1> USE KeptIsBoolean
<1>1. Sound(Chips, Kept) /\ Linked(Chips)
  BY DEF IInv
<1>2. ASSUME NEW irq \in Devices, PIC_ActivateIRQ(irq) PROVE IInv'
  <2> DEFINE S == RaiseIrq(Chips, Chip(Route(irq)), LineOf(Route(irq)))
  <2>1. Route(irq) # NoLine /\ irq \in Irqs
    BY <1>2, ConfigAssumption DEF PIC_ActivateIRQ
  <2>2. Sound(S, Kept) /\ Linked(S)
    BY <1>1, <2>1, RouteIsLine, RaiseEither
  <2> QED
    BY <1>2, <2>2, WriteKeeps DEF PIC_ActivateIRQ
<1>3. ASSUME NEW irq \in Devices, PIC_DeActivateIRQ(irq) PROVE IInv'
  <2> DEFINE S == LowerIrq(Chips, Chip(Route(irq)), LineOf(Route(irq)))
  <2>1. Route(irq) # NoLine /\ irq \in Irqs
    BY <1>3, ConfigAssumption DEF PIC_DeActivateIRQ
  <2>2. Sound(S, Kept) /\ Linked(S)
    BY <1>1, <2>1, RouteIsLine, LowerEither
  <2> QED
    BY <1>3, <2>2, WriteKeeps DEF PIC_DeActivateIRQ
<1>4. CASE CPU_Raise_NMI
  <2>1. {check', iflag', nmiPending', nmiActive', nmiGate'} \subseteq BOOLEAN
    BY <1>4 DEF CPU_Raise_NMI, IInv
  <2> QED
    BY <1>4, <2>1, FlagsKeep DEF CPU_Raise_NMI
<1> QED
  BY <1>2, <1>3, <1>4 DEF Device

(* Fields that only the initialization sequence reads may change.          *)
LEMMA IcwPut ==
  ASSUME NEW b \in BOOLEAN, NEW S, Sound(S, b), Linked(S),
         NEW p \in Pics, p = Slave => HasSlave, NEW d \in Controller,
         d.irr = S.pic[p].irr, d.imr = S.pic[p].imr, d.isr = S.pic[p].isr,
         d.special = S.pic[p].special, d.active_irq = S.pic[p].active_irq
  PROVE  Sound(Put(S, p, d), b) /\ Linked(Put(S, p, d))
<1> DEFINE c == S.pic[p]
           S1 == Put(S, p, d)
<1>1. S \in State /\ c \in Controller /\ ActiveOK(c)
  BY DEF Sound, State
<1>2. /\ Master \in Pics /\ Slave \in Pics /\ Master # Slave
      /\ Pics = {Master, Slave}
  BY DEF Pics, Slave, Master
<1>3. S1.pic[p] = d /\ \A q \in Pics \ {p} : S1.pic[q] = S.pic[q]
  BY <1>1, PutType
<1>4. Ready(p, d) => Ready(p, c)
  BY <1>1, ReadyLess
<1>5. ActiveOK(d)
  BY <1>1 DEF ActiveOK
<1>6. p = Master /\ Ready(Master, d) => S.pending \/ b
  BY <1>4 DEF Sound
<1>7. p = Slave /\ ~HasSlave => Silent(d)
  OBVIOUS
<1>8. Sound(S1, b)
  BY <1>5, <1>6, <1>7, SoundPut
<1>9. Linked(S1)
  BY <1>2, <1>3, <1>4 DEF Linked
<1> QED
  BY <1>8, <1>9

LEMMA Icw1Step ==
  ASSUME IInv, NEW p \in Ports, NEW single \in BOOLEAN, NEW ic4 \in BOOLEAN,
         Icw1(p, single, ic4)
  PROVE  IInv'
<1> DEFINE S == SetImr(Chips, p, {})
           c == S.pic[p]
           words == IF ic4 THEN 3 ELSE 2
           d == [c EXCEPT !.single = single, !.icw_index = 1, !.icw_words = words]
           T == Put(S, p, d)
<1>1. p \in Pics /\ (p = Slave => HasSlave)
  BY DEF Ports, Pics, Master, Slave
<1>2. Sound(S, Kept) /\ Linked(S)
  BY <1>1, KeptIsBoolean, SetImrEither DEF IInv
<1>3. c \in Controller
  BY <1>1, <1>2 DEF Sound, State
<1>7. words \in {0, 2, 3}
  OBVIOUS
<1> HIDE DEF S, words, c
<1> DEFINE e == [c EXCEPT !.single = single, !.icw_index = 1]
<1>8. e \in Controller /\ e.irr = c.irr /\ e.imr = c.imr /\ e.isr = c.isr
      /\ e.special = c.special /\ e.active_irq = c.active_irq
  <2> DEFINE f == [c EXCEPT !.single = single]
  <2>1. f \in Controller /\ f.irr = c.irr /\ f.imr = c.imr /\ f.isr = c.isr
        /\ f.special = c.special /\ f.active_irq = c.active_irq
    BY <1>3 DEF Controller
  <2>2. e = [f EXCEPT !.icw_index = 1]
    BY <1>3 DEF Controller
  <2>3. 1 \in 0 .. 3
    OBVIOUS
  <2> HIDE DEF f, e
  <2> QED
    BY <2>1, <2>2, <2>3 DEF Controller
<1>9. d = [e EXCEPT !.icw_words = words]
  BY <1>3 DEF Controller
<1> HIDE DEF d, e
<1>4. d \in Controller /\ d.irr = c.irr /\ d.imr = c.imr /\ d.isr = c.isr
      /\ d.special = c.special /\ d.active_irq = c.active_irq
  BY <1>7, <1>8, <1>9 DEF Controller
<1>5. Sound(T, Kept) /\ Linked(T)
  BY <1>1, <1>2, <1>4, KeptIsBoolean, IcwPut DEF c
<1>6. PortWrite(T)
  BY DEF Icw1, d, words, S, c
<1> QED
  BY <1>5, <1>6, WriteKeeps DEF PortWrite

LEMMA WriteIcwStep ==
  ASSUME IInv, NEW p \in Ports, NEW aeoi \in BOOLEAN, WriteIcw(p, aeoi)
  PROVE  IInv'
<1> DEFINE c == pic[p]
           c1 == [c EXCEPT !.icw_index =
                    IF c.icw_index = 1 /\ NextIcw(c) # 0 /\ c.single
                    THEN 3 ELSE NextIcw(c)]
           d == IF c.icw_index = 3 THEN [c1 EXCEPT !.auto_eoi = aeoi] ELSE c1
<1>1. p \in Pics /\ (p = Slave => HasSlave)
  BY DEF Ports, Pics, Master, Slave
<1>2. Chips.pic[p] = c /\ c \in Controller
  BY <1>1 DEF IInv, Sound, State, Chips
<1>3. c.icw_index \in {1, 2, 3} /\ c.icw_words \in {0, 2, 3}
  BY <1>2 DEF Controller, WriteIcw
<1>4. NextIcw(c) \in 0 .. 3
  BY <1>3 DEF NextIcw
<1>5. c1 \in Controller /\ c1.irr = c.irr /\ c1.imr = c.imr /\ c1.isr = c.isr
      /\ c1.special = c.special /\ c1.active_irq = c.active_irq
  BY <1>2, <1>4 DEF Controller
<1> HIDE DEF c1
<1> DEFINE c2 == [c1 EXCEPT !.auto_eoi = aeoi]
<1>9. c2 \in Controller /\ c2.irr = c1.irr /\ c2.imr = c1.imr /\ c2.isr = c1.isr
      /\ c2.special = c1.special /\ c2.active_irq = c1.active_irq
  BY <1>5 DEF Controller
<1>6. d \in Controller /\ d.irr = c.irr /\ d.imr = c.imr /\ d.isr = c.isr
      /\ d.special = c.special /\ d.active_irq = c.active_irq
  <2> HIDE DEF c2
  <2>1. d \in {c1, c2}
    BY DEF c2
  <2> HIDE DEF d
  <2> QED
    BY <1>5, <1>9, <2>1
<1>7. PortWrite(Put(Chips, p, d))
  BY DEF WriteIcw, c1
<1> HIDE DEF d
<1>8. Sound(Put(Chips, p, d), Kept) /\ Linked(Put(Chips, p, d))
  BY <1>1, <1>2, <1>6, KeptIsBoolean, IcwPut DEF IInv
<1> QED
  BY <1>7, <1>8, WriteKeeps DEF PortWrite

LEMMA SpecialMaskStep ==
  ASSUME IInv, NEW p \in Ports, NEW on \in BOOLEAN, SetSpecialMask(p, on)
  PROVE  IInv'
<1> DEFINE c == pic[p]
           d == [c EXCEPT !.special = on]
           S == Put(Chips, p, d)
<1>1. /\ p \in Pics /\ (p = Slave => HasSlave)
      /\ Master \in Pics /\ Slave \in Pics /\ Master # Slave
  BY DEF Ports, Pics, Master, Slave
<1>2. Chips \in State /\ Chips.pic[p] = c /\ c \in Controller /\ ActiveOK(c)
  BY <1>1 DEF IInv, Sound, State, Chips
<1>3. d \in Controller /\ d.irr = c.irr /\ ActiveOK(d)
  BY <1>2 DEF Controller, ActiveOK
<1>4. Sound(Chips, p = Master \/ Kept)
  BY DEF IInv, Sound
<1>5. Sound(S, p = Master \/ Kept)
  <2>1. p = Master /\ Ready(Master, d) => Chips.pending \/ (p = Master \/ Kept)
    OBVIOUS
  <2>2. p = Slave /\ ~HasSlave => Silent(d)
    BY <1>1
  <2>3. (p = Master \/ Kept) \in BOOLEAN
    OBVIOUS
  <2> HIDE DEF d
  <2> QED
    BY <1>1, <1>3, <1>4, <2>1, <2>2, <2>3, SoundPut
<1>6. p = Master => Linked(S)
  <2>1. S.pic[p] = d /\ \A q \in Pics \ {p} : S.pic[q] = Chips.pic[q]
    BY <1>1, <1>2, <1>3, PutType
  <2> QED
    BY <1>1, <1>2, <1>3, <2>1 DEF Linked, IInv
<1>7. Sound(CheckForIrq(S, p), Kept) /\ Linked(CheckForIrq(S, p))
  BY <1>1, <1>5, <1>6, KeptIsBoolean, CheckEither
<1> QED
  BY <1>7, WriteKeeps DEF SetSpecialMask, PortWrite

LEMMA PortStep == IInv /\ GuestPort => IInv'
<1> SUFFICES ASSUME IInv, GuestPort PROVE IInv'
  OBVIOUS
<1> USE KeptIsBoolean
<1>1. Sound(Chips, Kept) /\ Linked(Chips)
  BY DEF IInv
<1>2. \A p \in Ports : p \in Pics /\ (p = Slave => HasSlave)
  BY DEF Ports, Pics, Master, Slave
<1>3. ASSUME NEW p \in Ports, NEW D, PortWrite(EndOfInterrupt(Chips, p, D))
      PROVE  IInv'
  <2>1. LET S == EndOfInterrupt(Chips, p, D) IN Sound(S, Kept) /\ Linked(S)
    BY <1>1, <1>2, EoiEither
  <2> QED
    BY <1>3, <2>1, WriteKeeps DEF PortWrite
<1>4. ASSUME NEW p \in Ports, NEW val \in MaskValues, WriteMask(p, val)
      PROVE  IInv'
  <2>1. LET S == SetImr(Chips, p, val) IN Sound(S, Kept) /\ Linked(S)
    BY <1>1, <1>2, ConfigAssumption, SetImrEither
  <2> QED
    BY <1>4, <2>1, WriteKeeps DEF WriteMask, PortWrite
<1>5. ASSUME NEW p \in Ports, NEW v \in Lines, SpecificEoi(p, v)
      PROVE  IInv'
  BY <1>3, <1>5 DEF SpecificEoi
<1>6. ASSUME NEW p \in Ports, NonspecificEoi(p)
      PROVE  IInv'
  BY <1>3, <1>6 DEF NonspecificEoi
<1> QED
  BY <1>4, <1>5, <1>6, Icw1Step, WriteIcwStep, SpecialMaskStep DEF GuestPort

LEMMA CpuStep == IInv /\ GuestCpu => IInv'
<1> SUFFICES ASSUME IInv, GuestCpu PROVE IInv'
  OBVIOUS
<1> USE FlagsKeep DEF IInv
<1>1. ASSUME NEW on \in BOOLEAN, SetIF(on) PROVE IInv'
  BY <1>1 DEF SetIF
<1>2. CASE CPU_IRET
  BY <1>2 DEF CPU_IRET
<1>3. ASSUME NEW on \in BOOLEAN, pc_xt_nmi_write(on) PROVE IInv'
  BY <1>3 DEF pc_xt_nmi_write
<1>4. ASSUME NEW on \in BOOLEAN, cmos_selreg(on) PROVE IInv'
  BY <1>4 DEF cmos_selreg
<1> QED
  BY <1>1, <1>2, <1>3, <1>4 DEF GuestCpu

(* One pass of PIC_runIRQs over the request registers.                     *)
LEMMA DispatchStep ==
  ASSUME IInv, NEW e, DispatchIrq(e)
  PROVE  IInv'
<1> DEFINE found == Candidates(Master, pic[Master], e) # {}
           T == Dispatch(Chips, e)
           A == AutoEoiCheck(T, Slave)
           B == AutoEoiCheck(A, Master)
           k == ~Unhacked(Master)
<1>1. Sound(Chips, Kept) /\ Linked(Chips) /\ Sound(Chips, TRUE)
  BY DEF IInv, Sound
<1>2. Master \in Pics /\ Slave \in Pics /\ Master # Slave
  BY DEF Pics, Slave, Master
<1>3. Chips.pic = pic /\ pic[Master] \in Controller
  BY <1>1, <1>2 DEF Sound, State, Chips
<1>4. Kept' = k
  BY DEF Kept, DispatchIrq
<1>5. {check', iflag', nmiPending', nmiActive', nmiGate'} \subseteq BOOLEAN
  BY DEF DispatchIrq, IInv
<1>6. CASE found
  <2>1. Sound(T, TRUE) /\ (T.pic[Slave].auto_eoi \/ Linked(T))
    BY <1>1, DispatchOne
  <2>2. Sound(A, TRUE) /\ Linked(A)
    BY <1>2, <2>1, AutoEoiEither
  <2>3. Sound(B, TRUE) /\ Linked(B)
    BY <1>2, <2>2, AutoEoiEither
  <2>4. Sound(MasterActivate(B), k) /\ Linked(MasterActivate(B))
    BY <2>3, SoundActivate DEF Linked
  <2>5. Become(MasterActivate(B))
    BY <1>6 DEF DispatchIrq
  <2> QED
    BY <1>4, <1>5, <2>4, <2>5, BecomeKeeps
<1>7. CASE ~found
  <2>1. T = Chips
    BY <1>1, <1>3, <1>7, DispatchOne
  <2>2. Unhacked(Master) => ~Ready(Master, pic[Master])
    BY <1>2, <1>3, <1>7, LeastCandidate
  <2>3. Sound(Chips, k)
    BY <1>1, <1>3, <2>2 DEF Sound
  <2>4. Sound(A, k) /\ Linked(A)
    BY <1>1, <1>2, <2>1, <2>3, AutoEoiEither
  <2>5. Sound(B, k) /\ Linked(B)
    BY <1>2, <2>4, AutoEoiEither
  <2>6. Become(B)
    BY <1>7 DEF DispatchIrq
  <2> QED
    BY <1>4, <1>5, <2>5, <2>6, BecomeKeeps
<1> QED
  BY <1>6, <1>7

LEMMA EmulatorStep == IInv /\ Emulator => IInv'
<1> SUFFICES ASSUME IInv, Emulator PROVE IInv'
  OBVIOUS
<1>1. CASE PIC_runIRQs
  <2>1. CASE CPU_NMI_Interrupt
    BY <2>1, FlagsKeep DEF CPU_NMI_Interrupt, IInv
  <2> QED
    BY <1>1, <2>1, DispatchStep DEF PIC_runIRQs
<1>2. CASE PIC_IRQCheckDelayed
  <2>1. Sound(Chips, TRUE) /\ Linked(Chips) /\ Kept' = TRUE
    BY <1>2 DEF IInv, Sound, Kept, PIC_IRQCheckDelayed
  <2> DEFINE S == [Chips EXCEPT !.pending = FALSE]
  <2>2. S.pic = Chips.pic /\ S \in State /\ Become(S)
    BY <1>2, <2>1 DEF Sound, State, Chips, Become, PIC_IRQCheckDelayed
  <2>3. Sound(S, TRUE) /\ Linked(S)
    BY <2>1, <2>2 DEF Sound, Linked
  <2>4. {check', iflag', nmiPending', nmiActive', nmiGate'} \subseteq BOOLEAN
    BY <1>2 DEF PIC_IRQCheckDelayed, IInv
  <2> HIDE DEF S
  <2> QED
    BY <2>1, <2>2, <2>3, <2>4, BecomeKeeps
<1>3. CASE CPU_Check_NMI
  BY <1>3, FlagsKeep DEF CPU_Check_NMI, IInv
<1>4. CASE PIC_Reset
  <2> DEFINE S == [pic |-> ResetPic, pending |-> pending]
  <2>1. /\ Master \in Pics /\ Slave \in Pics /\ Master # Slave
        /\ Pics = {Master, Slave}
    BY DEF Pics, Slave, Master
  <2>2. \A U : LET c == ResetController(U)
               IN  c \in Controller /\ ActiveOK(c) /\ Silent(c) /\ c.irr = {}
    BY LinesAssumption DEF ResetController, Controller, ActiveOK, Silent
  <2>3. \A p \in Pics : /\ ResetPic[p] \in Controller /\ ActiveOK(ResetPic[p])
                        /\ Silent(ResetPic[p]) /\ ResetPic[p].irr = {}
    BY <2>1, <2>2 DEF ResetPic
  <2>4. \A p \in Pics : ~Ready(p, ResetPic[p])
    BY <2>3 DEF Ready, Serviceable
  <2>5. ResetPic \in [Pics -> Controller] /\ pending \in BOOLEAN
    BY <2>3 DEF ResetPic, IInv, Sound, State, Chips
  <2>6. Sound(S, Kept') /\ Linked(S)
    BY <2>1, <2>3, <2>4, <2>5 DEF Sound, Linked, State
  <2>7. Become(S)
    BY <1>4 DEF PIC_Reset, Become
  <2>8. {check', iflag', nmiPending', nmiActive', nmiGate'} \subseteq BOOLEAN
    BY <1>4 DEF PIC_Reset, IInv
  <2> HIDE DEF S
  <2> QED
    BY <2>6, <2>7, <2>8, BecomeKeeps
<1> QED
  BY <1>1, <1>2, <1>3, <1>4 DEF Emulator

(* No step of the specification breaks the invariant.                      *)
LEMMA NextInv == IInv /\ [Next]_vars => IInv'
<1>1. ASSUME IInv, UNCHANGED vars PROVE IInv'
  BY <1>1, FlagsKeep DEF vars, IInv
<1> QED
  BY <1>1, DeviceStep, PortStep, CpuStep, EmulatorStep DEF Next

THEOREM Invariance == Spec => []IInv
BY InitInv, NextInv, PTL DEF Spec

(***************************************************************************)
(* The theorems.                                                           *)
(***************************************************************************)
(* The state of the interrupt path has its type, whatever the number of    *)
(* lines and the machine.                                                  *)
THEOREM TypeCorrect == Spec => []TypeOK
<1>1. IInv => TypeOK
  BY DEF IInv, Sound, State, Chips, TypeOK
<1> QED
  BY <1>1, Invariance, PTL

(* The cached active_irq always names a line in service, and none exactly  *)
(* when there is none, through every nesting, EOI, mode and re-            *)
(* initialization.                                                         *)
THEOREM ActiveIrqCorrect == Spec => []ActiveIrqInService
<1>1. IInv => ActiveIrqInService
  BY DEF IInv, Sound, State, Chips, ActiveOK, ActiveIrqInService
<1> QED
  BY <1>1, Invariance, PTL

(* The master loses no interrupt, if none of its lines has the cs_equ_ds   *)
(* hack: a request it could deliver has its check set or on the way.       *)
THEOREM MasterLosesNone ==
  ASSUME Unhacked(Master)
  PROVE  Spec => []NoLostIrq
<1>1. IInv => NoLostIrq
  BY DEF IInv, Sound, Chips, NoLostIrq, Kept
<1> QED
  BY <1>1, Invariance, PTL

(* The slave loses no interrupt, if none of its lines has the hack and it  *)
(* is not in special mask mode: a request it could deliver has its cascade *)
(* request at the master.                                                  *)
THEOREM SlaveLosesNone ==
  ASSUME Unhacked(Slave)
  PROVE  Spec => []NoLostSlaveIrq
<1>1. ~HasSlave /\ IInv => ~Ready(Slave, pic[Slave])
  BY DEF IInv, Sound, Silent, Chips, Ready, Serviceable
<1>2. IInv => NoLostSlaveIrq
  BY <1>1 DEF IInv, Linked, Chips, NoLostSlaveIrq
<1> QED
  BY <1>2, Invariance, PTL
-----------------------------------------------------------------------------
(* What the operations that only move requests leave alone.                *)
Keeps(S, T) ==
  /\ T \in State
  /\ \A p \in Pics : /\ T.pic[p].isr = S.pic[p].isr
                     /\ T.pic[p].active_irq = S.pic[p].active_irq
                     /\ T.pic[p].special = S.pic[p].special

(* active_irq is the highest line in service, and priority counts.         *)
Ordered(S) ==
  \A p \in Pics : ~S.pic[p].special /\ S.pic[p].active_irq = LeastLine(S.pic[p].isr)

(* Lines that T has in service and S has not were requested, unmasked and  *)
(* above all that were in service.                                         *)
Rises(S, T) ==
  \A p \in Pics : \A v \in T.pic[p].isr \ S.pic[p].isr :
    /\ v \in S.pic[p].irr \ S.pic[p].imr
    /\ \A w \in S.pic[p].isr : v < w

LEMMA KeepsOrder ==
  ASSUME NEW S, NEW T, Keeps(S, T), Ordered(S)
  PROVE  Ordered(T) /\ Rises(S, T)
BY DEF Keeps, Ordered, Rises

LEMMA KeepsTwice ==
  ASSUME NEW S, NEW T, NEW U, Keeps(S, T), Keeps(T, U)
  PROVE  Keeps(S, U)
BY DEF Keeps

LEMMA KeepsItself ==
  ASSUME NEW S \in State
  PROVE  Keeps(S, S)
BY DEF Keeps

(***************************************************************************)
(* The methods that raise, lower, mask and look.                           *)
(***************************************************************************)
LEMMA PutKeeps ==
  ASSUME NEW S \in State, NEW p \in Pics, NEW c \in Controller,
         c.isr = S.pic[p].isr, c.active_irq = S.pic[p].active_irq,
         c.special = S.pic[p].special
  PROVE  Keeps(S, Put(S, p, c))
BY PutType DEF Keeps

LEMMA RequestKeeps ==
  ASSUME NEW S \in State, NEW p \in Pics, NEW v \in Lines
  PROVE  Keeps(S, Requested(S, p, v))
<1> DEFINE c == S.pic[p]
           d == [c EXCEPT !.irr = @ \cup {v}]
<1>1. c \in Controller
  BY DEF State
<1>2. /\ d \in Controller
      /\ d.isr = c.isr /\ d.active_irq = c.active_irq /\ d.special = c.special
  BY <1>1 DEF Controller
<1>3. Requested(S, p, v) = Put(S, p, d)
  BY DEF Requested
<1> HIDE DEF d
<1> QED
  BY <1>2, <1>3, PutKeeps

LEMMA WithdrawKeeps ==
  ASSUME NEW S \in State, NEW p \in Pics, NEW v
  PROVE  Keeps(S, Withdrawn(S, p, v))
<1> DEFINE c == S.pic[p]
           d == [c EXCEPT !.irr = @ \ {v}]
<1>1. c \in Controller
  BY DEF State
<1>2. /\ d \in Controller
      /\ d.isr = c.isr /\ d.active_irq = c.active_irq /\ d.special = c.special
  BY <1>1 DEF Controller
<1>3. Withdrawn(S, p, v) = Put(S, p, d)
  BY DEF Withdrawn
<1> HIDE DEF d
<1> QED
  BY <1>2, <1>3, PutKeeps

LEMMA ActivateKeeps ==
  ASSUME NEW S \in State
  PROVE  Keeps(S, MasterActivate(S))
BY DEF MasterActivate, Keeps, State

LEMMA MasterKeeps ==
  ASSUME NEW S \in State
  PROVE  /\ \A v \in Lines : Keeps(S, MasterRaise(S, v))
         /\ Keeps(S, MasterCheck(S))
         /\ \A v : Keeps(S, MasterLower(S, v))
<1>1. Master \in Pics
  BY DEF Pics
<1>2. ASSUME NEW v \in Lines PROVE Keeps(S, MasterRaise(S, v))
  <2> DEFINE T == Requested(S, Master, v)
  <2>1. Keeps(S, T) /\ T \in State
    BY <1>1, RequestKeeps DEF Keeps
  <2>2. Keeps(T, MasterActivate(T))
    BY <2>1, ActivateKeeps
  <2>3. MasterRaise(S, v) \in {T, MasterActivate(T)}
    BY DEF MasterRaise
  <2> HIDE DEF T
  <2> QED
    BY <2>1, <2>2, <2>3, KeepsTwice
<1>3. ASSUME NEW T \in State PROVE Keeps(T, MasterCheck(T))
  <2>1. MasterCheck(T) \in {T, MasterActivate(T)}
    BY DEF MasterCheck
  <2> QED
    BY <2>1, ActivateKeeps, KeepsItself
<1>4. ASSUME NEW v PROVE Keeps(S, MasterLower(S, v))
  <2> DEFINE T == Withdrawn(S, Master, v)
  <2>1. Keeps(S, T) /\ T \in State
    BY <1>1, WithdrawKeeps DEF Keeps
  <2>2. Keeps(T, MasterCheck(T))
    BY <1>3, <2>1
  <2>3. MasterLower(S, v) \in {T, MasterCheck(T)}
    BY DEF MasterLower
  <2> HIDE DEF T
  <2> QED
    BY <2>1, <2>2, <2>3, KeepsTwice
<1> QED
  BY <1>2, <1>3, <1>4

LEMMA CheckKeeps ==
  ASSUME NEW S \in State, NEW p \in Pics, p = Slave => HasSlave
  PROVE  Keeps(S, CheckForIrq(S, p))
<1>1. CASE p = Master
  BY <1>1, MasterKeeps DEF CheckForIrq
<1>2. CASE p # Master
  <2>1. p = Slave /\ HasSlave /\ Cascade \in Lines
    BY <1>2, CascadeIsLine DEF Pics
  <2>2. CheckForIrq(S, p) \in {S, MasterRaise(S, Cascade), MasterLower(S, Cascade)}
    BY <1>2 DEF CheckForIrq, SlaveCheck, SlaveActivate, SlaveDeactivate
  <2> QED
    BY <2>1, <2>2, MasterKeeps, KeepsItself
<1> QED
  BY <1>1, <1>2

LEMMA RaiseKeeps ==
  ASSUME NEW S \in State, NEW p \in Pics, p = Slave => HasSlave, NEW v \in Lines
  PROVE  Keeps(S, RaiseIrq(S, p, v))
<1>1. CASE p = Master
  BY <1>1, MasterKeeps DEF RaiseIrq
<1>2. CASE p # Master
  <2> DEFINE T == Requested(S, p, v)
  <2>1. Cascade \in Lines
    BY <1>2, CascadeIsLine DEF Pics
  <2>2. Keeps(S, T) /\ T \in State
    BY RequestKeeps DEF Keeps
  <2>3. Keeps(T, MasterRaise(T, Cascade))
    BY <2>1, <2>2, MasterKeeps
  <2>4. RaiseIrq(S, p, v) \in {T, MasterRaise(T, Cascade)}
    BY <1>2 DEF RaiseIrq, SlaveActivate
  <2> HIDE DEF T
  <2> QED
    BY <2>2, <2>3, <2>4, KeepsTwice
<1> QED
  BY <1>1, <1>2

LEMMA LowerKeeps ==
  ASSUME NEW S \in State, NEW p \in Pics, p = Slave => HasSlave, NEW v
  PROVE  Keeps(S, LowerIrq(S, p, v))
<1>1. CASE p = Master
  BY <1>1, MasterKeeps DEF LowerIrq
<1>2. CASE p # Master
  <2> DEFINE T == Withdrawn(S, p, v)
  <2>1. p = Slave /\ HasSlave
    BY <1>2 DEF Pics
  <2>2. Keeps(S, T) /\ T \in State
    BY WithdrawKeeps DEF Keeps
  <2>3. Keeps(T, CheckForIrq(T, p))
    BY <2>1, <2>2, CheckKeeps
  <2>4. LowerIrq(S, p, v) \in {T, CheckForIrq(T, p)}
    BY <1>2, <2>1 DEF LowerIrq, CheckForIrq
  <2> HIDE DEF T
  <2> QED
    BY <2>2, <2>3, <2>4, KeepsTwice
<1> QED
  BY <1>1, <1>2

LEMMA SetImrKeeps ==
  ASSUME NEW S \in State, NEW p \in Pics, p = Slave => HasSlave, NEW val \in SUBSET Lines
  PROVE  Keeps(S, SetImr(S, p, val))
<1> DEFINE c == S.pic[p]
           d == [c EXCEPT !.imr = val]
           T == Put(S, p, d)
<1>1. c \in Controller
  BY DEF State
<1>2. /\ d \in Controller
      /\ d.isr = c.isr /\ d.active_irq = c.active_irq /\ d.special = c.special
  BY <1>1 DEF Controller
<1>3. SetImr(S, p, val) \in {T, CheckForIrq(T, p)}
  BY DEF SetImr
<1> HIDE DEF d
<1>4. Keeps(S, T) /\ T \in State
  BY <1>2, PutKeeps DEF Keeps
<1>5. Keeps(T, CheckForIrq(T, p))
  BY <1>4, CheckKeeps
<1> HIDE DEF T
<1> QED
  BY <1>3, <1>4, <1>5, KeepsTwice

(***************************************************************************)
(* The methods that end an interrupt and start one.                        *)
(***************************************************************************)
(* An EOI takes lines out of service, recomputes active_irq and looks.     *)
LEMMA EoiOrdered ==
  ASSUME NEW S \in State, Ordered(S), NEW p \in Pics, p = Slave => HasSlave, NEW D
  PROVE  LET T == EndOfInterrupt(S, p, D)
         IN  T \in State /\ Ordered(T) /\ Rises(S, T)
<1> DEFINE c == S.pic[p]
           a == [c EXCEPT !.isr = @ \ D]
           d == [c EXCEPT !.isr = @ \ D, !.active_irq = LeastLine(c.isr \ D)]
           T == Put(S, p, d)
<1>1. c \in Controller /\ c.isr \ D \subseteq Lines
  BY DEF State, Controller
<1>2. LeastLine(c.isr \ D) \in 0 .. N
  BY <1>1, LeastLineIs
<1>3. a \in Controller /\ a.isr = c.isr \ D /\ a.special = c.special
  BY <1>1 DEF Controller
<1>4. d = [a EXCEPT !.active_irq = LeastLine(c.isr \ D)]
  BY <1>1 DEF Controller
<1> HIDE DEF a, d
<1>5. /\ d \in Controller /\ d.isr = c.isr \ D /\ d.special = c.special
      /\ d.active_irq = LeastLine(d.isr)
  BY <1>2, <1>3, <1>4 DEF Controller
<1>6. EndOfInterrupt(S, p, D) \in {T, CheckForIrq(T, p)}
  BY DEF EndOfInterrupt, d
<1>7. /\ T \in State /\ T.pic[p] = d
      /\ \A q \in Pics \ {p} : T.pic[q] = S.pic[q]
  BY <1>5, PutType
<1>8. Ordered(T) /\ Rises(S, T)
  BY <1>5, <1>7 DEF Ordered, Rises
<1> HIDE DEF T
<1>9. Keeps(T, CheckForIrq(T, p))
  BY <1>7, CheckKeeps
<1>10. Ordered(CheckForIrq(T, p)) /\ CheckForIrq(T, p) \in State
  BY <1>8, <1>9, KeepsOrder DEF Keeps
<1>11. Rises(S, CheckForIrq(T, p))
  BY <1>8, <1>9 DEF Keeps, Rises
<1> QED
  BY <1>6, <1>7, <1>8, <1>10, <1>11

(* A line that may interrupt is above every line in service, or is the     *)
(* cascade, which may be in service already.                               *)
LEMMA CandidateAbove ==
  ASSUME NEW p \in Pics, NEW c \in Controller, ~c.special,
         c.active_irq = LeastLine(c.isr),
         NEW v \in Lines, v < Ceiling(p, c)
  PROVE  \A w \in c.isr : v <= w
<1> SUFFICES ASSUME NEW w \in c.isr PROVE v <= w
  OBVIOUS
<1>1. c.isr \subseteq Lines /\ w \in Lines
  BY DEF Controller
<1>2. c.active_irq \in c.isr /\ c.active_irq <= w
  BY <1>1, LeastLineIs
<1>3. {v, w, c.active_irq} \subseteq Int
  BY <1>1, <1>2, LinesAssumption DEF Lines
<1>4. Ceiling(p, c) \in {c.active_irq, c.active_irq + 1}
  BY DEF Ceiling
<1> QED
  BY <1>2, <1>3, <1>4

LEMMA StartOrdered ==
  ASSUME NEW S \in State, Ordered(S), NEW p \in Pics, NEW v \in Lines,
         \A w \in S.pic[p].isr : v <= w
  PROVE  LET T == StartIrq(S, p, v)
         IN  /\ T \in State /\ Ordered(T)
             /\ \A q \in Pics \ {p} : T.pic[q] = S.pic[q]
             /\ T.pic[p].isr \subseteq S.pic[p].isr \cup {v}
<1> DEFINE c == S.pic[p]
           a == [c EXCEPT !.irr = @ \ {v}]
           b == [a EXCEPT !.active_irq = v]
           d == [b EXCEPT !.isr = @ \cup {v}]
<1>1. c \in Controller /\ ~c.special /\ c.active_irq = LeastLine(c.isr)
  BY DEF State, Ordered
<1>2. v \in 0 .. N /\ v \in Int
  BY LinesAssumption DEF Lines
<1>3. /\ a \in Controller /\ a.isr = c.isr
      /\ a.active_irq = c.active_irq /\ a.special = c.special
  BY <1>1 DEF Controller
<1> HIDE DEF a
<1>4. b \in Controller /\ b.isr = c.isr /\ b.active_irq = v /\ b.special = c.special
  BY <1>2, <1>3 DEF Controller
<1> HIDE DEF b
<1>5. /\ d \in Controller /\ d.isr = c.isr \cup {v}
      /\ d.active_irq = v /\ d.special = c.special
  BY <1>4 DEF Controller
<1>6. LeastLine(c.isr \cup {v}) = v
  <2>1. c.isr \cup {v} \subseteq Lines /\ c.isr \cup {v} # {}
    BY <1>1 DEF Controller
  <2> DEFINE l == LeastLine(c.isr \cup {v})
  <2>2. l \in c.isr \cup {v} /\ l <= v
    BY <2>1, LeastLineIs
  <2>3. l \in Int /\ v <= l
    BY <1>2, <2>1, <2>2, LinesAssumption DEF Lines
  <2> QED
    BY <1>2, <2>2, <2>3
<1>7. d = [a EXCEPT !.active_irq = v, !.isr = @ \cup {v}]
  BY <1>3 DEF b, Controller
<1> HIDE DEF d
<1>8. StartIrq(S, p, v) \in {Put(S, p, a), Put(S, p, d)}
  BY <1>7 DEF StartIrq, a
<1>9. ASSUME NEW x \in {a, d} PROVE
        /\ Put(S, p, x) \in State /\ Ordered(Put(S, p, x))
        /\ \A q \in Pics \ {p} : Put(S, p, x).pic[q] = S.pic[q]
        /\ Put(S, p, x).pic[p].isr \subseteq c.isr \cup {v}
  <2>1. /\ x \in Controller /\ ~x.special
        /\ x.active_irq = LeastLine(x.isr) /\ x.isr \subseteq c.isr \cup {v}
    BY <1>1, <1>3, <1>5, <1>6, <1>9
  <2>2. /\ Put(S, p, x) \in State /\ Put(S, p, x).pic[p] = x
        /\ \A q \in Pics \ {p} : Put(S, p, x).pic[q] = S.pic[q]
    BY <2>1, PutType
  <2> QED
    BY <2>1, <2>2 DEF Ordered
<1> QED
  BY <1>8, <1>9

(* What the search of one controller finds.                                *)
LEMMA FoundAbove ==
  ASSUME NEW S \in State, Ordered(S), NEW p \in Pics, NEW e,
         LeastLine(Candidates(p, S.pic[p], e)) # N
  PROVE  LET v == LeastLine(Candidates(p, S.pic[p], e))
         IN  /\ v \in Lines /\ v \in S.pic[p].irr \ S.pic[p].imr
             /\ \A w \in S.pic[p].isr : v <= w
             /\ \A w \in S.pic[p].isr : v \notin S.pic[p].isr => v < w
<1> DEFINE c == S.pic[p]
           v == LeastLine(Candidates(p, c, e))
<1>1. c \in Controller /\ ~c.special /\ c.active_irq = LeastLine(c.isr)
  BY DEF State, Ordered
<1>2. v \in Lines /\ v \in Candidates(p, c, e)
  BY <1>1, LeastCandidate
<1>3. v \in c.irr \ c.imr /\ v < Ceiling(p, c)
  BY <1>2 DEF Candidates, Serviceable
<1> HIDE DEF v
<1>4. \A w \in c.isr : v <= w
  BY <1>1, <1>2, <1>3, CandidateAbove
<1>5. v \in Int /\ \A w \in c.isr : w \in Int
  BY <1>1, <1>2, LinesAssumption DEF Controller, Lines
<1>6. \A w \in c.isr : v \notin c.isr => v < w
  BY <1>4, <1>5
<1> QED
  BY <1>2, <1>3, <1>4, <1>6 DEF v

(***************************************************************************)
(* One pass of PIC_runIRQs.                                                *)
(***************************************************************************)
LEMMA SlaveStartOrdered ==
  ASSUME NEW S \in State, Ordered(S), HasSlave, NEW e,
         LeastLine(Candidates(Master, S.pic[Master], e)) = Cascade
  PROVE  LET T == SlaveStartIrq(S, e)
         IN  T \in State /\ Ordered(T) /\ Rises(S, T)
<1> DEFINE line == LeastLine(Candidates(Slave, S.pic[Slave], e))
           T1 == StartIrq(S, Slave, line)
           T == StartIrq(T1, Master, Cascade)
<1>1. /\ Master \in Pics /\ Slave \in Pics /\ Master # Slave
      /\ Pics = {Master, Slave}
  BY DEF Pics, Slave, Master
<1>2. Cascade \in Lines /\ Cascade # N
  BY CascadeIsLine, LinesAssumption DEF Lines
<1>3. CASE line < N
  <2>1. line # N
    BY <1>3, LinesAssumption
  <2>2. /\ line \in Lines /\ line \in S.pic[Slave].irr \ S.pic[Slave].imr
        /\ \A w \in S.pic[Slave].isr : line <= w
        /\ \A w \in S.pic[Slave].isr : line \notin S.pic[Slave].isr => line < w
    BY <1>1, <2>1, FoundAbove
  <2>3. /\ Cascade \in S.pic[Master].irr \ S.pic[Master].imr
        /\ \A w \in S.pic[Master].isr : Cascade <= w
        /\ \A w \in S.pic[Master].isr : Cascade \notin S.pic[Master].isr => Cascade < w
    BY <1>1, <1>2, FoundAbove
  <2> HIDE DEF line
  <2>4. /\ T1 \in State /\ Ordered(T1) /\ T1.pic[Master] = S.pic[Master]
        /\ T1.pic[Slave].isr \subseteq S.pic[Slave].isr \cup {line}
    BY <1>1, <2>2, StartOrdered
  <2> HIDE DEF T1
  <2>5. /\ T \in State /\ Ordered(T) /\ T.pic[Slave] = T1.pic[Slave]
        /\ T.pic[Master].isr \subseteq T1.pic[Master].isr \cup {Cascade}
    BY <1>1, <1>2, <2>3, <2>4, StartOrdered
  <2> HIDE DEF T
  <2>6. Rises(S, T)
    BY <1>1, <2>2, <2>3, <2>4, <2>5 DEF Rises
  <2> QED
    BY <1>3, <2>5, <2>6 DEF SlaveStartIrq, T, T1, line
<1>4. CASE ~(line < N)
  <2>1. SlaveStartIrq(S, e) \in {S, LowerIrq(S, Slave, Cascade)}
    BY <1>4 DEF SlaveStartIrq
  <2>2. Keeps(S, S) /\ Keeps(S, LowerIrq(S, Slave, Cascade))
    BY <1>1, LowerKeeps, KeepsItself
  <2>3. Keeps(S, SlaveStartIrq(S, e))
    BY <2>1, <2>2
  <2> QED
    BY <2>3, KeepsOrder DEF Keeps
<1> QED
  BY <1>3, <1>4

LEMMA DispatchOrdered ==
  ASSUME NEW S \in State, Ordered(S), NEW e
  PROVE  LET T == Dispatch(S, e)
         IN  T \in State /\ Ordered(T) /\ Rises(S, T)
<1> DEFINE line == LeastLine(Candidates(Master, S.pic[Master], e))
<1>1. /\ Master \in Pics /\ S.pic[Master] \in Controller
  BY DEF Pics, State
<1>2. CASE line = N
  BY <1>2, KeepsItself, KeepsOrder DEF Dispatch
<1>3. CASE line # N /\ line = Cascade
  <2>1. line \in Lines
    BY <1>1, <1>3, LeastCandidate
  <2>2. HasSlave
    BY <1>3, <2>1, LinesAssumption DEF Cascade, NoLine, Lines
  <2>3. Dispatch(S, e) = SlaveStartIrq(S, e)
    BY <1>3 DEF Dispatch
  <2> QED
    BY <1>3, <2>2, <2>3, SlaveStartOrdered
<1>4. CASE line # N /\ line # Cascade
  <2>1. /\ line \in Lines /\ line \in S.pic[Master].irr \ S.pic[Master].imr
        /\ \A w \in S.pic[Master].isr : line <= w
        /\ \A w \in S.pic[Master].isr : line \notin S.pic[Master].isr => line < w
    BY <1>1, <1>4, FoundAbove
  <2>2. Dispatch(S, e) = StartIrq(S, Master, line)
    BY <1>4 DEF Dispatch
  <2> HIDE DEF line
  <2> DEFINE T == StartIrq(S, Master, line)
  <2>3. /\ T \in State /\ Ordered(T)
        /\ \A q \in Pics \ {Master} : T.pic[q] = S.pic[q]
        /\ T.pic[Master].isr \subseteq S.pic[Master].isr \cup {line}
    BY <1>1, <2>1, StartOrdered
  <2> HIDE DEF T
  <2>4. Rises(S, T)
    BY <2>1, <2>3 DEF Rises
  <2> QED
    BY <2>2, <2>3, <2>4 DEF T
<1> QED
  BY <1>2, <1>3, <1>4

(* A slave that is not there is not looked at.                             *)
LEMMA AutoEoiKeeps ==
  ASSUME NEW S \in State, NEW p \in Pics,
         p = Slave => HasSlave \/ ~S.pic[Slave].auto_eoi
  PROVE  Keeps(S, AutoEoiCheck(S, p))
BY CheckKeeps, KeepsItself DEF AutoEoiCheck

(***************************************************************************)
(* The specification.                                                      *)
(***************************************************************************)
(* What a step may bring into service.                                     *)
Rising ==
  \A p \in Pics : \A v \in pic'[p].isr \ pic[p].isr :
    /\ v \in pic[p].irr \ pic[p].imr
    /\ \A w \in pic[p].isr : v < w

LEMMA BecomeOrdered ==
  ASSUME NEW S, Become(S), Ordered(S), Rises(Chips, S)
  PROVE  Ordered(Chips)' /\ Rising
BY DEF Become, Ordered, Rises, Rising, Chips

LEMMA BecomeKept ==
  ASSUME Ordered(Chips), NEW S, Become(S), Keeps(Chips, S)
  PROVE  Ordered(Chips)' /\ Rising
BY KeepsOrder, BecomeOrdered

LEMMA UnchangedOrdered ==
  ASSUME Ordered(Chips), UNCHANGED pic
  PROVE  Ordered(Chips)' /\ Rising
BY DEF Ordered, Rising, Chips

LEMMA DeviceOrdered ==
  ASSUME IInv, Ordered(Chips), Device
  PROVE  Ordered(Chips)' /\ Rising
<1>1. Chips \in State
  BY DEF IInv, Sound
<1>2. ASSUME NEW irq \in Devices, PIC_ActivateIRQ(irq) PROVE Ordered(Chips)' /\ Rising
  <2>1. Route(irq) # NoLine /\ irq \in Irqs
    BY <1>2, ConfigAssumption DEF PIC_ActivateIRQ
  <2>2. Keeps(Chips, RaiseIrq(Chips, Chip(Route(irq)), LineOf(Route(irq))))
    BY <1>1, <2>1, RouteIsLine, RaiseKeeps
  <2> QED
    BY <1>2, <2>2, BecomeKept DEF PIC_ActivateIRQ
<1>3. ASSUME NEW irq \in Devices, PIC_DeActivateIRQ(irq) PROVE Ordered(Chips)' /\ Rising
  <2>1. Route(irq) # NoLine /\ irq \in Irqs
    BY <1>3, ConfigAssumption DEF PIC_DeActivateIRQ
  <2>2. Keeps(Chips, LowerIrq(Chips, Chip(Route(irq)), LineOf(Route(irq))))
    BY <1>1, <2>1, RouteIsLine, LowerKeeps
  <2> QED
    BY <1>3, <2>2, BecomeKept DEF PIC_DeActivateIRQ
<1>4. CASE CPU_Raise_NMI
  BY <1>4, UnchangedOrdered DEF CPU_Raise_NMI
<1> QED
  BY <1>2, <1>3, <1>4 DEF Device

(* The initialization sequence leaves what is in service.                  *)
LEMMA IcwOrdered ==
  ASSUME NEW S, Keeps(Chips, S), Ordered(Chips), NEW p \in Pics, NEW d,
         d.isr = S.pic[p].isr, d.active_irq = S.pic[p].active_irq,
         d.special = S.pic[p].special, PortWrite(Put(S, p, d))
  PROVE  Ordered(Chips)' /\ Rising
<1> DEFINE T == Put(S, p, d)
<1>1. S \in State
  BY DEF Keeps
<1>2. T.pic[p] = d /\ \A q \in Pics \ {p} : T.pic[q] = S.pic[q]
  BY <1>1 DEF Put, State
<1>3. Ordered(S) /\ Rises(Chips, S)
  BY KeepsOrder
<1>4. Become(T)
  BY DEF PortWrite
<1> HIDE DEF T
<1>5. Ordered(T) /\ Rises(Chips, T)
  BY <1>2, <1>3 DEF Ordered, Rises
<1> QED
  BY <1>4, <1>5, BecomeOrdered

LEMMA PortOrdered ==
  ASSUME IInv, Ordered(Chips), GuestPort, "smm" \notin GuestOps
  PROVE  Ordered(Chips)' /\ Rising
<1>1. Chips \in State /\ Chips.pic = pic
  BY DEF IInv, Sound, Chips
<1>2. \A p \in Ports : p \in Pics /\ (p = Slave => HasSlave)
  BY DEF Ports, Pics, Master, Slave
<1>3. ASSUME NEW p \in Ports, NEW single \in BOOLEAN, NEW ic4 \in BOOLEAN,
             Icw1(p, single, ic4)
      PROVE  Ordered(Chips)' /\ Rising
  <2> DEFINE S == SetImr(Chips, p, {})
             c == S.pic[p]
             words == IF ic4 THEN 3 ELSE 2
             d == [c EXCEPT !.single = single, !.icw_index = 1, !.icw_words = words]
  <2>1. Keeps(Chips, S) /\ c \in Controller
    BY <1>1, <1>2, SetImrKeeps DEF Keeps, State
  <2>2. PortWrite(Put(S, p, d))
    BY <1>3 DEF Icw1
  <2> HIDE DEF S, c, words
  <2>3. d.isr = c.isr /\ d.active_irq = c.active_irq /\ d.special = c.special
    BY <2>1 DEF Controller
  <2> HIDE DEF d
  <2> QED
    BY <1>2, <2>1, <2>2, <2>3, IcwOrdered DEF c
<1>4. ASSUME NEW p \in Ports, NEW aeoi \in BOOLEAN, WriteIcw(p, aeoi)
      PROVE  Ordered(Chips)' /\ Rising
  <2> DEFINE c == pic[p]
             i == IF c.icw_index = 1 /\ NextIcw(c) # 0 /\ c.single THEN 3 ELSE NextIcw(c)
             c1 == [c EXCEPT !.icw_index = i]
             c2 == [c1 EXCEPT !.auto_eoi = aeoi]
             d == IF c.icw_index = 3 THEN c2 ELSE c1
  <2>1. c \in Controller /\ Keeps(Chips, Chips)
    BY <1>1, <1>2, KeepsItself DEF State
  <2>2. PortWrite(Put(Chips, p, d))
    BY <1>4 DEF WriteIcw
  <2> HIDE DEF i
  <2>3. c1.isr = c.isr /\ c1.active_irq = c.active_irq /\ c1.special = c.special
    BY <2>1 DEF Controller
  <2>4. c2.isr = c.isr /\ c2.active_irq = c.active_irq /\ c2.special = c.special
    BY <2>1 DEF Controller
  <2>5. d \in {c1, c2}
    OBVIOUS
  <2> HIDE DEF c1, c2, d
  <2>6. d.isr = c.isr /\ d.active_irq = c.active_irq /\ d.special = c.special
    BY <2>3, <2>4, <2>5
  <2> QED
    BY <1>1, <1>2, <2>1, <2>2, <2>6, IcwOrdered
<1>5. ASSUME NEW p \in Ports, NEW D, PortWrite(EndOfInterrupt(Chips, p, D))
      PROVE  Ordered(Chips)' /\ Rising
  <2> DEFINE T == EndOfInterrupt(Chips, p, D)
  <2>1. Ordered(T) /\ Rises(Chips, T)
    BY <1>1, <1>2, EoiOrdered
  <2>2. Become(T)
    BY <1>5 DEF PortWrite
  <2> HIDE DEF T
  <2> QED
    BY <2>1, <2>2, BecomeOrdered
<1>6. ASSUME NEW p \in Ports, NEW val \in MaskValues, WriteMask(p, val)
      PROVE  Ordered(Chips)' /\ Rising
  <2>1. Keeps(Chips, SetImr(Chips, p, val))
    BY <1>1, <1>2, ConfigAssumption, SetImrKeeps
  <2> QED
    BY <1>6, <2>1, BecomeKept DEF WriteMask, PortWrite
<1>7. ASSUME NEW p \in Ports, NEW v \in Lines, SpecificEoi(p, v)
      PROVE  Ordered(Chips)' /\ Rising
  BY <1>5, <1>7 DEF SpecificEoi
<1>8. ASSUME NEW p \in Ports, NonspecificEoi(p)
      PROVE  Ordered(Chips)' /\ Rising
  BY <1>5, <1>8 DEF NonspecificEoi
<1> QED
  BY <1>3, <1>4, <1>6, <1>7, <1>8 DEF GuestPort, SetSpecialMask

LEMMA CpuOrdered ==
  ASSUME Ordered(Chips), GuestCpu
  PROVE  Ordered(Chips)' /\ Rising
<1>1. UNCHANGED pic
  BY DEF GuestCpu, SetIF, CPU_IRET, pc_xt_nmi_write, cmos_selreg
<1> QED
  BY <1>1, UnchangedOrdered

LEMMA DispatchStepOrdered ==
  ASSUME IInv, Ordered(Chips), NEW e, DispatchIrq(e)
  PROVE  Ordered(Chips)' /\ Rising
<1> DEFINE T == Dispatch(Chips, e)
           A == AutoEoiCheck(T, Slave)
           B == AutoEoiCheck(A, Master)
<1>1. /\ Chips \in State /\ Sound(Chips, TRUE) /\ Linked(Chips)
      /\ Master \in Pics /\ Slave \in Pics /\ Master # Slave
  BY DEF IInv, Sound, Pics, Master, Slave
<1>2. T \in State /\ Ordered(T) /\ Rises(Chips, T)
  BY <1>1, DispatchOrdered
<1>3. Sound(T, TRUE)
  BY <1>1, DispatchOne
<1>4. Become(B) \/ Become(MasterActivate(B))
  BY DEF DispatchIrq
<1> HIDE DEF T
<1>5. Keeps(T, A) /\ A \in State
  BY <1>1, <1>2, <1>3, AutoEoiKeeps DEF Sound, Silent, Keeps
<1> HIDE DEF A
<1>6. Keeps(A, B) /\ B \in State
  BY <1>1, <1>5, AutoEoiKeeps DEF Keeps
<1> HIDE DEF B
<1>7. Keeps(B, MasterActivate(B))
  BY <1>6, ActivateKeeps
<1>8. Keeps(T, B) /\ Keeps(T, MasterActivate(B))
  BY <1>5, <1>6, <1>7, KeepsTwice
<1>9. ASSUME NEW U, Keeps(T, U) PROVE Ordered(U) /\ Rises(Chips, U)
  BY <1>2, <1>9, KeepsOrder DEF Keeps, Rises
<1> QED
  BY <1>4, <1>8, <1>9, BecomeOrdered

LEMMA ResetOrdered == Ordered([pic |-> ResetPic, pending |-> FALSE])
<1>1. LeastLine({}) = N
  BY DEF LeastLine
<1> QED
  BY <1>1 DEF Ordered, ResetPic, ResetController

LEMMA EmulatorOrdered ==
  ASSUME IInv, Ordered(Chips), Emulator
  PROVE  Ordered(Chips)' /\ Rising
<1>1. CASE PIC_runIRQs
  <2>1. CASE CPU_NMI_Interrupt
    BY <2>1, UnchangedOrdered DEF CPU_NMI_Interrupt
  <2> QED
    BY <1>1, <2>1, DispatchStepOrdered DEF PIC_runIRQs
<1>2. CASE PIC_IRQCheckDelayed \/ CPU_Check_NMI
  BY <1>2, UnchangedOrdered DEF PIC_IRQCheckDelayed, CPU_Check_NMI
<1>3. CASE PIC_Reset
  <2>1. pic' = ResetPic /\ \A p \in Pics : ResetPic[p].isr = {}
    BY <1>3 DEF PIC_Reset, ResetPic, ResetController
  <2>2. Ordered(Chips)'
    BY <2>1, ResetOrdered DEF Ordered, Chips
  <2>3. Rising
    BY <2>1 DEF Rising
  <2> QED
    BY <2>2, <2>3
<1> QED
  BY <1>1, <1>2, <1>3 DEF Emulator

(***************************************************************************)
(* The inductive invariant: types and the chips' order.                    *)
(***************************************************************************)
PInv == IInv /\ Ordered(Chips)

LEMMA PriorityInit == Init => PInv
<1>1. Init => Ordered(Chips)
  BY ResetOrdered DEF Init, Ordered, Chips
<1> QED
  BY <1>1, InitInv DEF PInv

LEMMA PriorityStep ==
  ASSUME "smm" \notin GuestOps, PInv, Next
  PROVE  PInv' /\ Rising
<1>1. IInv'
  BY NextInv DEF PInv
<1>2. Ordered(Chips)' /\ Rising
  BY DeviceOrdered, PortOrdered, CpuOrdered, EmulatorOrdered DEF PInv, Next
<1> QED
  BY <1>1, <1>2 DEF PInv

LEMMA PriorityInvariance ==
  ASSUME "smm" \notin GuestOps
  PROVE  Spec => []PInv
<1>1. ASSUME PInv, UNCHANGED vars PROVE PInv'
  <2>1. IInv'
    BY <1>1, NextInv DEF PInv
  <2>2. Ordered(Chips)'
    BY <1>1, UnchangedOrdered DEF PInv, vars
  <2> QED
    BY <2>1, <2>2 DEF PInv
<1>2. PInv /\ [Next]_vars => PInv'
  BY <1>1, PriorityStep
<1> QED
  BY <1>2, PriorityInit, PTL DEF Spec

(* Without special mask mode the cached active_irq is always the line of   *)
(* highest priority in service, through every nesting, EOI and re-         *)
(* initialization, so that a handler is never interrupted by a lower line. *)
THEOREM ActiveIrqHighest ==
  ASSUME "smm" \notin GuestOps
  PROVE  Spec => []ActiveIrqIsHighest
<1>1. PInv => ActiveIrqIsHighest
  BY DEF PInv, Ordered, Chips, ActiveIrqIsHighest
<1> QED
  BY <1>1, PriorityInvariance, PTL

(* Without special mask mode no step of devices, guest or emulator brings  *)
(* a line into service that was not requested, was masked, or was not      *)
(* above every line in service.                                            *)
THEOREM PriorityRespected ==
  ASSUME "smm" \notin GuestOps
  PROVE  Spec => DispatchInPriority
<1> DEFINE A == \A p \in Pics : \A v \in pic'[p].isr \ pic[p].isr :
                  /\ v \in pic[p].irr \ pic[p].imr
                  /\ pic[p].special \/ \A w \in pic[p].isr : v < w
<1>1. Rising => A
  BY DEF Rising
<1>2. PInv /\ [Next]_vars => [A]_vars
  BY <1>1, PriorityStep
<1>3. DispatchInPriority <=> [][A]_vars
  BY DEF DispatchInPriority
<1> HIDE DEF A
<1> QED
  BY <1>2, <1>3, PriorityInvariance, PTL DEF Spec

(***************************************************************************)
(* The guest of PicGuest, whose handlers end their own interrupts.         *)
(***************************************************************************)
(* What a pass of PIC_runIRQs may do to the lines in service: at each      *)
(* controller it adds at most one, and at the slave only if there is one.  *)
Starts(S, T) ==
  /\ T \in State
  /\ \A p \in Pics : \E v \in Lines : \/ T.pic[p].isr = S.pic[p].isr
                                       \/ T.pic[p].isr = S.pic[p].isr \cup {v}
  /\ T.pic[Slave].isr # S.pic[Slave].isr => HasSlave

LEMMA KeepsStarts ==
  ASSUME NEW S, NEW T, NEW U, Starts(S, T), Keeps(T, U)
  PROVE  Starts(S, U)
BY DEF Starts, Keeps, Pics

LEMMA ItselfStarts ==
  ASSUME NEW S \in State
  PROVE  Starts(S, S)
<1>1. 0 \in Lines
  BY LinesAssumption DEF Lines
<1> QED
  BY <1>1 DEF Starts

(* A started line enters service, unless it is ended at once or never      *)
(* marked.                                                                 *)
LEMMA StartServes ==
  ASSUME NEW S \in State, NEW p \in Pics, NEW v \in Lines
  PROVE  LET T == StartIrq(S, p, v)
         IN  /\ T \in State
             /\ \A q \in Pics \ {p} : T.pic[q] = S.pic[q]
             /\ T.pic[p].isr = S.pic[p].isr \/ T.pic[p].isr = S.pic[p].isr \cup {v}
<1> DEFINE c == S.pic[p]
           a == [c EXCEPT !.irr = @ \ {v}]
           d == [a EXCEPT !.active_irq = v, !.isr = @ \cup {v}]
<1>1. c \in Controller /\ v \in 0 .. N
  BY LinesAssumption DEF State, Lines
<1>2. a \in Controller /\ a.isr = c.isr
  BY <1>1 DEF Controller
<1>3. StartIrq(S, p, v) \in {Put(S, p, a), Put(S, p, d)}
  BY DEF StartIrq
<1> HIDE DEF a
<1>4. d \in Controller /\ d.isr = c.isr \cup {v}
  BY <1>1, <1>2 DEF Controller
<1> HIDE DEF d
<1> QED
  BY <1>2, <1>3, <1>4, PutType

LEMMA SlaveServes ==
  ASSUME NEW S \in State, HasSlave, NEW e
  PROVE  Starts(S, SlaveStartIrq(S, e))
<1> DEFINE line == LeastLine(Candidates(Slave, S.pic[Slave], e))
           T1 == StartIrq(S, Slave, line)
           T == StartIrq(T1, Master, Cascade)
<1>1. /\ Master \in Pics /\ Slave \in Pics /\ Master # Slave
      /\ Pics = {Master, Slave} /\ Cascade \in Lines
  BY CascadeIsLine DEF Pics, Slave, Master
<1>2. CASE line < N
  <2>1. line \in Lines
    BY <1>1, <1>2, LeastCandidate, LinesAssumption DEF State
  <2> HIDE DEF line
  <2>2. /\ T1 \in State /\ T1.pic[Master] = S.pic[Master]
        /\ \/ T1.pic[Slave].isr = S.pic[Slave].isr
           \/ T1.pic[Slave].isr = S.pic[Slave].isr \cup {line}
    BY <1>1, <2>1, StartServes
  <2> HIDE DEF T1
  <2>3. /\ T \in State /\ T.pic[Slave] = T1.pic[Slave]
        /\ \/ T.pic[Master].isr = T1.pic[Master].isr
           \/ T.pic[Master].isr = T1.pic[Master].isr \cup {Cascade}
    BY <1>1, <2>2, StartServes
  <2> HIDE DEF T
  <2>4. Starts(S, T)
    BY <1>1, <2>1, <2>2, <2>3 DEF Starts
  <2> QED
    BY <1>2, <2>4 DEF SlaveStartIrq, T, T1, line
<1>3. CASE ~(line < N)
  <2>1. SlaveStartIrq(S, e) \in {S, LowerIrq(S, Slave, Cascade)}
    BY <1>3 DEF SlaveStartIrq
  <2>2. Keeps(S, S) /\ Keeps(S, LowerIrq(S, Slave, Cascade))
    BY <1>1, LowerKeeps, KeepsItself
  <2> QED
    BY <2>1, <2>2, ItselfStarts, KeepsStarts
<1> QED
  BY <1>2, <1>3

LEMMA DispatchServes ==
  ASSUME NEW S \in State, NEW e
  PROVE  Starts(S, Dispatch(S, e))
<1> DEFINE line == LeastLine(Candidates(Master, S.pic[Master], e))
<1>1. /\ Master \in Pics /\ S.pic[Master] \in Controller
      /\ Master # Slave /\ Pics = {Master, Slave}
  BY DEF Pics, State, Master, Slave
<1>2. CASE line = N
  BY <1>2, ItselfStarts DEF Dispatch
<1>3. CASE line # N /\ line = Cascade
  <2>1. line \in Lines
    BY <1>1, <1>3, LeastCandidate
  <2>2. HasSlave
    BY <1>3, <2>1, LinesAssumption DEF Cascade, NoLine, Lines
  <2>3. Dispatch(S, e) = SlaveStartIrq(S, e)
    BY <1>3 DEF Dispatch
  <2> QED
    BY <2>2, <2>3, SlaveServes
<1>4. CASE line # N /\ line # Cascade
  <2>1. line \in Lines
    BY <1>1, <1>4, LeastCandidate
  <2>2. Dispatch(S, e) = StartIrq(S, Master, line)
    BY <1>4 DEF Dispatch
  <2> HIDE DEF line
  <2> DEFINE T == StartIrq(S, Master, line)
  <2>3. /\ T \in State /\ \A q \in Pics \ {Master} : T.pic[q] = S.pic[q]
        /\ \/ T.pic[Master].isr = S.pic[Master].isr
           \/ T.pic[Master].isr = S.pic[Master].isr \cup {line}
    BY <1>1, <2>1, StartServes
  <2> HIDE DEF T
  <2>4. Starts(S, T)
    BY <1>1, <2>1, <2>3 DEF Starts
  <2> QED
    BY <2>2, <2>4 DEF T
<1> QED
  BY <1>2, <1>3, <1>4

LEMMA RunServes ==
  ASSUME IInv, PIC_runIRQs
  PROVE  Starts(Chips, Chips')
<1>1. /\ Chips \in State /\ Sound(Chips, TRUE) /\ Linked(Chips)
      /\ Master \in Pics /\ Slave \in Pics /\ Master # Slave
  BY DEF IInv, Sound, Pics, Master, Slave
<1>2. CASE CPU_NMI_Interrupt
  <2>1. Chips' = Chips
    BY <1>2 DEF CPU_NMI_Interrupt, Chips
  <2> QED
    BY <1>1, <2>1, ItselfStarts
<1>3. ASSUME NEW e, DispatchIrq(e) PROVE Starts(Chips, Chips')
  <2> DEFINE T == Dispatch(Chips, e)
             A == AutoEoiCheck(T, Slave)
             B == AutoEoiCheck(A, Master)
  <2>1. Starts(Chips, T) /\ T \in State
    BY <1>1, DispatchServes DEF Starts
  <2>2. Sound(T, TRUE)
    BY <1>1, DispatchOne
  <2>3. Become(B) \/ Become(MasterActivate(B))
    BY <1>3 DEF DispatchIrq
  <2> HIDE DEF T
  <2>4. Keeps(T, A) /\ A \in State
    BY <1>1, <2>1, <2>2, AutoEoiKeeps DEF Sound, Silent, Keeps
  <2> HIDE DEF A
  <2>5. Keeps(A, B) /\ B \in State
    BY <1>1, <2>4, AutoEoiKeeps DEF Keeps
  <2> HIDE DEF B
  <2>6. Keeps(B, MasterActivate(B))
    BY <2>5, ActivateKeeps
  <2>7. Keeps(T, B) /\ Keeps(T, MasterActivate(B))
    BY <2>4, <2>5, <2>6, KeepsTwice
  <2>8. \A U \in State : Become(U) => Chips' = U
    BY DEF Become, Chips, State
  <2>9. PICK U : Keeps(T, U) /\ Become(U)
    BY <2>3, <2>7
  <2>10. Chips' = U
    BY <2>8, <2>9 DEF Keeps
  <2> QED
    BY <2>1, <2>9, <2>10, KeepsStarts
<1> QED
  BY <1>2, <1>3 DEF PIC_runIRQs

(* An EOI takes its lines out of service at its own controller only.       *)
LEMMA EoiServes ==
  ASSUME NEW S \in State, NEW p \in Pics, p = Slave => HasSlave, NEW D
  PROVE  LET T == EndOfInterrupt(S, p, D)
         IN  /\ T \in State
             /\ T.pic[p].isr = S.pic[p].isr \ D
             /\ \A q \in Pics \ {p} : T.pic[q].isr = S.pic[q].isr
<1> DEFINE c == S.pic[p]
           a == [c EXCEPT !.isr = @ \ D]
           d == [c EXCEPT !.isr = @ \ D, !.active_irq = LeastLine(c.isr \ D)]
           T == Put(S, p, d)
<1>1. c \in Controller /\ c.isr \ D \subseteq Lines
  BY DEF State, Controller
<1>2. LeastLine(c.isr \ D) \in 0 .. N
  BY <1>1, LeastLineIs
<1>3. a \in Controller /\ a.isr = c.isr \ D
  BY <1>1 DEF Controller
<1>4. d = [a EXCEPT !.active_irq = LeastLine(c.isr \ D)]
  BY <1>1 DEF Controller
<1> HIDE DEF a, d
<1>5. d \in Controller /\ d.isr = c.isr \ D
  BY <1>2, <1>3, <1>4 DEF Controller
<1>6. EndOfInterrupt(S, p, D) \in {T, CheckForIrq(T, p)}
  BY DEF EndOfInterrupt, d
<1>7. /\ T \in State /\ T.pic[p] = d
      /\ \A q \in Pics \ {p} : T.pic[q] = S.pic[q]
  BY <1>5, PutType
<1> HIDE DEF T
<1>8. Keeps(T, CheckForIrq(T, p))
  BY <1>7, CheckKeeps
<1> QED
  BY <1>5, <1>6, <1>7, <1>8 DEF Keeps

(***************************************************************************)
(* The frames of the guest's handlers.                                     *)
(***************************************************************************)
(* The handlers that have an interrupt of controller p to end.             *)
Handling(s, p) == {i \in 1 .. Len(s) : p \in s[i]}

Frames == SUBSET Ports

LEMMA HandlingFinite ==
  ASSUME NEW s \in Seq(Frames), NEW p
  PROVE  IsFiniteSet(Handling(s, p))
<1>1. Len(s) \in Int /\ 1 \in Int
  OBVIOUS
<1>2. IsFiniteSet(1 .. Len(s))
  BY <1>1, FS_Interval, Zenon
<1>3. Handling(s, p) \subseteq 1 .. Len(s)
  BY Zenon DEF Handling
<1> QED
  BY <1>2, <1>3, FS_Subset, Zenon

LEMMA LinesFinite ==
  ASSUME NEW T, T \subseteq Lines
  PROVE  IsFiniteSet(T)
<1>1. IsFiniteSet(Lines)
  BY LinesAssumption, FS_Interval DEF Lines
<1> QED
  BY <1>1, FS_Subset

(* An interrupt is taken: a frame is pushed.                               *)
LEMMA PushHandling ==
  ASSUME NEW s \in Seq(Frames), NEW F \in Frames, NEW p
  PROVE  /\ Append(s, F) \in Seq(Frames)
         /\ p \notin F => Handling(Append(s, F), p) = Handling(s, p)
         /\ p \in F => Cardinality(Handling(Append(s, F), p)) =
                       Cardinality(Handling(s, p)) + 1
<1> DEFINE t == Append(s, F)
           k == Len(s) + 1
<1>1. /\ t \in Seq(Frames) /\ Len(t) = k /\ t[k] = F
      /\ \A i \in 1 .. Len(s) : t[i] = s[i]
  OBVIOUS
<1>2. Len(s) \in Nat /\ k \notin 1 .. Len(s) /\ 1 .. k = (1 .. Len(s)) \cup {k}
  OBVIOUS
<1> HIDE DEF t, k
<1>3. p \notin F => Handling(t, p) = Handling(s, p)
  BY <1>1, <1>2 DEF Handling
<1>4. p \in F => Handling(t, p) = Handling(s, p) \cup {k}
  BY <1>1, <1>2 DEF Handling
<1>5. k \notin Handling(s, p)
  BY <1>2 DEF Handling
<1>6. Cardinality(Handling(s, p) \cup {k}) = Cardinality(Handling(s, p)) + 1
  BY <1>5, HandlingFinite, FS_AddElement
<1> QED
  BY <1>1, <1>3, <1>4, <1>6 DEF t

(* A handler ends its interrupt at p: p leaves the frame on top.           *)
LEMMA EndHandling ==
  ASSUME NEW s \in Seq(Frames), s # << >>, NEW p \in s[Len(s)]
  PROVE  LET t == [s EXCEPT ![Len(s)] = @ \ {p}]
         IN  /\ t \in Seq(Frames)
             /\ \A q \in Pics \ {p} : Handling(t, q) = Handling(s, q)
             /\ Cardinality(Handling(t, p)) = Cardinality(Handling(s, p)) - 1
<1> DEFINE n == Len(s)
           t == [s EXCEPT ![n] = @ \ {p}]
<1>1. n \in Nat /\ n \in 1 .. n /\ s[n] \in Frames
  OBVIOUS
<1>2. s[n] \ {p} \in Frames
  BY <1>1 DEF Frames
<1>3. t \in Seq(Frames) /\ Len(t) = n
  BY <1>1, <1>2, ExceptSeq
<1>4. t[n] = s[n] \ {p} /\ \A i \in (1 .. n) \ {n} : t[i] = s[i]
  BY <1>1
<1> HIDE DEF t
<1>5. \A q \in Pics \ {p} : Handling(t, q) = Handling(s, q)
  BY <1>3, <1>4 DEF Handling
<1>6. Handling(t, p) = Handling(s, p) \ {n} /\ n \in Handling(s, p)
  BY <1>1, <1>3, <1>4 DEF Handling
<1>7. Cardinality(Handling(s, p) \ {n}) = Cardinality(Handling(s, p)) - 1
  BY <1>6, HandlingFinite, FS_RemoveElement
<1> QED
  BY <1>3, <1>5, <1>6, <1>7 DEF t, n

(* A handler with nothing left to end returns: its frame is popped.        *)
LEMMA PopHandling ==
  ASSUME NEW s \in Seq(Frames), s # << >>, s[Len(s)] = {}
  PROVE  LET t == SubSeq(s, 1, Len(s) - 1)
         IN  /\ t \in Seq(Frames)
             /\ \A p : Handling(t, p) = Handling(s, p)
<1> DEFINE n == Len(s)
           t == SubSeq(s, 1, n - 1)
<1>1. n \in Nat /\ n - 1 \in Nat /\ 1 .. n = (1 .. (n - 1)) \cup {n}
  OBVIOUS
<1>2. /\ t \in Seq(Frames) /\ Len(t) = n - 1
      /\ \A i \in 1 .. (n - 1) : t[i] = s[i]
  <2>1. 1 \in Int /\ n - 1 \in Int /\ \A i \in 1 .. (n - 1) : s[i] \in Frames
    OBVIOUS
  <2> DEFINE m == n - 1
  <2> HIDE DEF n, m
  <2>2. /\ SubSeq(s, 1, m) \in Seq(Frames)
        /\ Len(SubSeq(s, 1, m)) = IF 1 <= m THEN m - 1 + 1 ELSE 0
        /\ \A i \in 1 .. m - 1 + 1 : SubSeq(s, 1, m)[i] = s[1 + i - 1]
    BY <2>1, SubSeqProperties DEF m
  <2>3. m \in Nat /\ m - 1 + 1 = m /\ \A i \in 1 .. m : 1 + i - 1 = i
    BY <1>1 DEF m
  <2>4. 1 <= m \/ m = 0
    BY <2>3
  <2> QED
    BY <2>2, <2>3, <2>4 DEF t, m
<1> HIDE DEF t
<1>3. \A p : Handling(t, p) = Handling(s, p)
  BY <1>1, <1>2 DEF Handling, n
<1> QED
  BY <1>2, <1>3 DEF t, n

(***************************************************************************)
(* The inductive invariant of GSpec: that of Pic, frames of controllers    *)
(* that exist, and the agreement of the two.                               *)
(***************************************************************************)
GInv ==
  /\ IInv
  /\ stack \in Seq(Frames)
  /\ \A p \in Pics : Cardinality(pic[p].isr) = Cardinality(Handling(stack, p))

(* Every step of the guest is a step of Pic.                               *)
LEMMA GuestStep ==
  ASSUME stack \in Seq(Frames), GNext
  PROVE  Next
<1>1. CASE GInterrupt
  BY <1>1 DEF GInterrupt, Next, Emulator
<1>2. CASE GRaise
  BY <1>2 DEF GRaise, Next, Device
<1>3. CASE GLower
  BY <1>3, GuestAssumption DEF GLower, Next, Device
<1>4. CASE GEoi
  <2>1. PICK p \in Top : NonspecificEoi(p)
    BY <1>4 DEF GEoi
  <2>2. Top \in Frames
    BY <1>4 DEF GEoi, Top
  <2> QED
    BY <2>1, <2>2 DEF Frames, Next, GuestPort
<1>5. CASE GIret
  BY <1>5 DEF GIret, Next, GuestCpu
<1>6. CASE GSetIF
  BY <1>6 DEF GSetIF, Next, GuestCpu
<1>7. CASE GMask
  BY <1>7 DEF GMask, Next, GuestPort
<1>8. CASE GEmulator
  BY <1>8 DEF GEmulator, Next, Emulator
<1> QED
  BY <1>1, <1>2, <1>3, <1>4, <1>5, <1>6, <1>7, <1>8 DEF GNext

(* A step that leaves the stack and the lines in service alone.            *)
LEMMA GuestKeeps ==
  ASSUME GInv, IInv', stack' = stack, \A p \in Pics : pic'[p].isr = pic[p].isr
  PROVE  GInv'
BY DEF GInv

LEMMA GuestBecomes ==
  ASSUME GInv, IInv', stack' = stack, NEW S, Keeps(Chips, S), Become(S)
  PROVE  GInv'
<1>1. \A p \in Pics : pic'[p].isr = pic[p].isr
  BY DEF Keeps, Become, Chips
<1> QED
  BY <1>1, GuestKeeps

(* One line more is in service exactly where the new frame names it.       *)
LEMMA OneMore ==
  ASSUME NEW S, NEW T, S \in State, Starts(S, T), NEW p \in Pics,
         T.pic[p].isr # S.pic[p].isr
  PROVE  Cardinality(T.pic[p].isr) = Cardinality(S.pic[p].isr) + 1
<1>1. PICK v \in Lines : T.pic[p].isr = S.pic[p].isr \cup {v}
  BY DEF Starts
<1>2. v \notin S.pic[p].isr
  BY <1>1
<1>3. IsFiniteSet(S.pic[p].isr)
  BY LinesFinite DEF State, Controller
<1> QED
  BY <1>1, <1>2, <1>3, FS_AddElement

LEMMA InterruptMatches ==
  ASSUME GInv, IInv', GInterrupt
  PROVE  GInv'
<1> DEFINE F == {p \in Pics : pic'[p].isr # pic[p].isr}
<1>1. Starts(Chips, Chips') /\ Chips \in State
  BY RunServes DEF GInv, GInterrupt, IInv, Sound
<1>2. Chips.pic = pic /\ Chips'.pic = pic'
  BY DEF Chips
<1>3. F \in Frames
  BY <1>1, <1>2 DEF Starts, Frames, Ports, Pics
<1>4. stack' \in {Append(stack, F), stack} /\ (F # {} => stack' = Append(stack, F))
  BY DEF GInterrupt
<1>5. \A p \in Pics : p \notin F => pic'[p].isr = pic[p].isr
  OBVIOUS
<1>6. \A p \in F : Cardinality(pic'[p].isr) = Cardinality(pic[p].isr) + 1
  BY <1>1, <1>2, OneMore
<1> HIDE DEF F
<1>7. CASE stack' = Append(stack, F)
  <2>1. stack' \in Seq(Frames)
    BY <1>3, <1>7, PushHandling DEF GInv
  <2>2. ASSUME NEW p \in Pics
        PROVE  Cardinality(pic'[p].isr) = Cardinality(Handling(stack', p))
    <3>1. CASE p \in F
      <4>1. Cardinality(Handling(stack', p)) = Cardinality(Handling(stack, p)) + 1
        BY <1>3, <1>7, <3>1, PushHandling DEF GInv
      <4> QED
        BY <1>6, <3>1, <4>1 DEF GInv
    <3>2. CASE p \notin F
      <4>1. Handling(stack', p) = Handling(stack, p)
        BY <1>3, <1>7, <3>2, PushHandling DEF GInv
      <4> QED
        BY <1>5, <3>2, <4>1 DEF GInv
    <3> QED
      BY <3>1, <3>2
  <2> QED
    BY <2>1, <2>2 DEF GInv
<1>8. CASE F = {} /\ stack' = stack
  BY <1>5, <1>8, GuestKeeps
<1> QED
  BY <1>4, <1>7, <1>8

(* The line a nonspecific EOI ends is one that is in service.              *)
LEMMA EoiMatches ==
  ASSUME GInv, IInv', GEoi
  PROVE  GInv'
<1> DEFINE n == Len(stack)
<1>1. PICK p \in stack[n] : /\ NonspecificEoi(p)
                            /\ stack' = [stack EXCEPT ![n] = @ \ {p}]
  BY DEF GEoi, Top
<1>2. stack \in Seq(Frames) /\ stack # << >>
  BY DEF GInv, GEoi
<1>3. p \in Pics /\ (p = Slave => HasSlave)
  <2>1. stack[n] \in Frames
    BY <1>2
  <2> QED
    BY <1>1, <2>1 DEF Frames, Ports, Pics, Master, Slave
<1> DEFINE a == pic[p].active_irq
           T == EndOfInterrupt(Chips, p, {a})
<1>4. /\ Chips \in State /\ Chips.pic = pic
      /\ a \in pic[p].isr /\ IsFiniteSet(pic[p].isr)
  <2>1. Chips \in State /\ ActiveOK(Chips.pic[p]) /\ Chips.pic = pic
    BY <1>3 DEF GInv, IInv, Sound, Chips
  <2>2. a # N
    BY <1>1 DEF NonspecificEoi
  <2>3. a \in pic[p].isr
    BY <2>1, <2>2 DEF ActiveOK
  <2>4. IsFiniteSet(pic[p].isr)
    BY <1>3, <2>1, LinesFinite DEF State, Controller
  <2> QED
    BY <2>1, <2>3, <2>4
<1>5. pic' = T.pic
  BY <1>1 DEF NonspecificEoi, PortWrite, Become
<1> HIDE DEF a
<1>6. /\ T.pic[p].isr = pic[p].isr \ {a}
      /\ \A q \in Pics \ {p} : T.pic[q].isr = pic[q].isr
  BY <1>3, <1>4, EoiServes
<1> HIDE DEF T
<1>7. Cardinality(pic'[p].isr) = Cardinality(pic[p].isr) - 1
  BY <1>4, <1>5, <1>6, FS_RemoveElement
<1>8. /\ stack' \in Seq(Frames)
      /\ \A q \in Pics \ {p} : Handling(stack', q) = Handling(stack, q)
      /\ Cardinality(Handling(stack', p)) = Cardinality(Handling(stack, p)) - 1
  BY <1>1, <1>2, EndHandling
<1> QED
  BY <1>3, <1>5, <1>6, <1>7, <1>8 DEF GInv

LEMMA GuestNext == GInv /\ [GNext]_gvars => GInv'
<1> SUFFICES ASSUME GInv, [GNext]_gvars PROVE GInv'
  OBVIOUS
<1>1. CASE UNCHANGED gvars
  <2>1. UNCHANGED vars /\ stack' = stack
    BY <1>1 DEF gvars, vars
  <2>2. IInv' /\ pic' = pic
    BY <2>1, NextInv DEF GInv, vars
  <2> QED
    BY <2>1, <2>2, GuestKeeps
<1>2. CASE GNext
  <2>1. IInv'
    BY <1>2, GuestStep, NextInv DEF GInv
  <2>2. Chips \in State
    BY DEF GInv, IInv, Sound
  <2>3. CASE GInterrupt
    BY <2>1, <2>3, InterruptMatches
  <2>4. CASE GRaise
    <3>1. stack' = stack
      BY <2>4 DEF GRaise
    <3>2. ASSUME NEW irq \in Devices, PIC_ActivateIRQ(irq) PROVE GInv'
      <4>1. Route(irq) # NoLine /\ irq \in Irqs
        BY <3>2, ConfigAssumption DEF PIC_ActivateIRQ
      <4>2. Keeps(Chips, RaiseIrq(Chips, Chip(Route(irq)), LineOf(Route(irq))))
        BY <2>2, <4>1, RouteIsLine, RaiseKeeps
      <4> QED
        BY <2>1, <3>1, <3>2, <4>2, GuestBecomes DEF PIC_ActivateIRQ
    <3>3. CASE CPU_Raise_NMI
      BY <2>1, <3>1, <3>3, GuestKeeps DEF CPU_Raise_NMI
    <3> QED
      BY <2>4, <3>2, <3>3 DEF GRaise
  <2>5. CASE GLower
    <3>1. stack' = stack
      BY <2>5 DEF GLower
    <3>2. PICK irq \in Withdraws : PIC_DeActivateIRQ(irq)
      BY <2>5 DEF GLower
    <3>3. Route(irq) # NoLine /\ irq \in Irqs
      BY <3>2, ConfigAssumption, GuestAssumption DEF PIC_DeActivateIRQ
    <3>4. Keeps(Chips, LowerIrq(Chips, Chip(Route(irq)), LineOf(Route(irq))))
      BY <2>2, <3>3, RouteIsLine, LowerKeeps
    <3> QED
      BY <2>1, <3>1, <3>2, <3>4, GuestBecomes DEF PIC_DeActivateIRQ
  <2>6. CASE GEoi
    BY <2>1, <2>6, EoiMatches
  <2>7. CASE GIret
    <3>1. /\ stack \in Seq(Frames) /\ stack # << >> /\ stack[Len(stack)] = {}
          /\ stack' = SubSeq(stack, 1, Len(stack) - 1) /\ pic' = pic
      BY <2>7 DEF GInv, GIret, Top, CPU_IRET
    <3>2. stack' \in Seq(Frames) /\ \A p : Handling(stack', p) = Handling(stack, p)
      BY <3>1, PopHandling
    <3> QED
      BY <2>1, <3>1, <3>2 DEF GInv
  <2>8. CASE GSetIF
    BY <2>1, <2>8, GuestKeeps DEF GSetIF, SetIF
  <2>9. CASE GMask
    <3>1. stack' = stack
      BY <2>9 DEF GMask
    <3>2. PICK p \in Ports, val \in MaskValues : WriteMask(p, val)
      BY <2>9 DEF GMask
    <3>3. p \in Pics /\ (p = Slave => HasSlave) /\ val \in SUBSET Lines
      BY <3>2, ConfigAssumption DEF Ports, Pics, Master, Slave
    <3>4. Keeps(Chips, SetImr(Chips, p, val))
      BY <2>2, <3>3, SetImrKeeps
    <3> QED
      BY <2>1, <3>1, <3>2, <3>4, GuestBecomes DEF WriteMask, PortWrite
  <2>10. CASE GEmulator
    BY <2>1, <2>10, GuestKeeps DEF GEmulator, PIC_IRQCheckDelayed, CPU_Check_NMI
  <2> QED
    BY <1>2, <2>3, <2>4, <2>5, <2>6, <2>7, <2>8, <2>9, <2>10 DEF GNext
<1> QED
  BY <1>1, <1>2

LEMMA GuestInit == GInit => GInv
<1> SUFFICES ASSUME GInit PROVE GInv
  OBVIOUS
<1>1. IInv
  BY InitInv DEF GInit
<1>2. \A p \in Pics : pic[p].isr = {}
  BY DEF GInit, Init, ResetPic, ResetController
<1>3. stack = << >> /\ stack \in Seq(Frames)
  BY DEF GInit
<1>4. \A p \in Pics : Handling(stack, p) = {}
  BY <1>3 DEF Handling
<1> QED
  BY <1>1, <1>2, <1>3, <1>4 DEF GInv

(* A guest whose handlers each end their own interrupt never loses count:  *)
(* whatever nests, is withdrawn, masked or restarted through the cascade,  *)
(* the lines in service at each controller are as many as the handlers     *)
(* that have still to end one there, so that the last EOI frees the chip   *)
(* and no handler ends the interrupt of another.                           *)
THEOREM StackMatches == GSpec => []InServiceMatchesStack
<1>1. GInv => InServiceMatchesStack
  BY DEF GInv, Handling, InServiceMatchesStack
<1> QED
  BY <1>1, GuestInit, GuestNext, PTL DEF GSpec
=============================================================================
