---------------------------- MODULE SerialProofs ----------------------------
(***************************************************************************)
(* Theorems about the serial port: for every size of the fifos, every      *)
(* threshold and whatever programs write, the interrupt line follows its   *)
(* causes, nothing is left untold and the transmitter goes on.             *)
(***************************************************************************)
EXTENDS Serial, SequenceTheorems, FunctionTheorems, FiniteSetTheorems, TLAPS

ModemLines == {"cts", "dsr", "ri", "cd"}
CauseSet == {"ERROR", "TIMEOUT", "RX", "TX", "MSR"}

PortState == [
  IER : SUBSET CauseSet, waiting : SUBSET CauseSet,
  ISR : {Highest(c) : c \in SUBSET CauseSet}, irq_active : BOOLEAN, line : BOOLEAN,
  fifo : BOOLEAN, threshold : 1 .. FifoSize, rx : 0 .. FifoSize, errors : Seq(BOOLEAN),
  last : BOOLEAN, errors_in_fifo : Int, LSR_ERROR : BOOLEAN,
  tx : 0 .. FifoSize, guard : BOOLEAN, TX_EMPTY : BOOLEAN, owed : Int, untold : BOOLEAN,
  loopback : BOOLEAN, dtr : BOOLEAN, op1 : BOOLEAN, op2 : BOOLEAN,
  up : SUBSET ModemLines, delta : SUBSET ModemLines,
  due : [Events -> Nat]]

(* The parts of the port that an operation may leave alone.                *)
Interrupt(p)   == <<p.ISR, p.irq_active, p.line>>
Receiver(p)    == <<p.fifo, p.threshold, p.rx, p.errors, p.last, p.errors_in_fifo, p.LSR_ERROR>>
Transmitter(p) == <<p.tx, p.guard, p.TX_EMPTY, p.owed, p.untold>>
Modem(p)       == <<p.loopback, p.dtr, p.op1, p.op2, p.up, p.delta>>

Val(p) == p.IER \cap p.waiting

(* The line is what OUT2 lets through of what was last computed.           *)
Wired(p) == p.line <=> p.op2 /\ p.irq_active

LEMMA MinOfTwo == \A a, b \in Int : Min({a, b}) = IF a <= b THEN a ELSE b
BY DEF Min

LEMMA MaxOfTwo == \A a, b \in Int : Max({a, b}) = IF a >= b THEN a ELSE b
BY DEF Max

LEMMA SizeIs == \A p \in PortState : Size(p) \in 1 .. FifoSize /\ (p.fifo => Size(p) = FifoSize)
BY FifoAssumption DEF Size, PortState

LEMMA EventsAre == Events = {"THR", "TX", "THR_LOOPBACK", "TX_LOOPBACK", "RX_TIMEOUT"}
BY DEF Events, Sending

(* What IrqFollows says, in two parts.                                     *)
Settled(p) == p.irq_active = (Val(p) # {}) /\ p.ISR = Highest(Val(p))

Sound(p) == p \in PortState /\ Wired(p) /\ Settled(p)

(***************************************************************************)
(* ComputeInterrupts and its callers move nothing but the interrupt.       *)
(***************************************************************************)
LEMMA Computes ==
  ASSUME NEW p \in PortState, Wired(p)
  PROVE  LET q == ComputeInterrupts(p)
         IN  /\ Sound(q)
             /\ q.IER = p.IER /\ q.waiting = p.waiting /\ q.due = p.due
             /\ Receiver(q) = Receiver(p) /\ Transmitter(q) = Transmitter(p)
             /\ Modem(q) = Modem(p)
<1> DEFINE on == Val(p) # {}
           name == Highest(Val(p))
           out == IF p.op2 /\ on # p.irq_active THEN on ELSE p.line
           q == [p EXCEPT !.ISR = name, !.irq_active = on, !.line = out]
<1>1. ComputeInterrupts(p) = q
  BY DEF ComputeInterrupts, Val
<1>2. on \in BOOLEAN /\ name \in {Highest(c) : c \in SUBSET CauseSet}
  BY DEF PortState, Val
<1>3. out \in BOOLEAN /\ (out <=> p.op2 /\ on)
  BY <1>2 DEF PortState, Wired
<1> HIDE DEF on, name, out
<1>4. q \in PortState
  BY <1>2, <1>3 DEF PortState
<1>5. q.irq_active = on /\ q.ISR = name /\ q.line = out /\ q.op2 = p.op2
  BY DEF PortState
<1>6. /\ q.IER = p.IER /\ q.waiting = p.waiting /\ q.due = p.due
      /\ Receiver(q) = Receiver(p) /\ Transmitter(q) = Transmitter(p)
      /\ Modem(q) = Modem(p)
  BY DEF PortState, Receiver, Transmitter, Modem
<1>7. Wired(q)
  BY <1>3, <1>5 DEF Wired
<1>8. Val(q) = Val(p)
  BY <1>6 DEF Val
<1> QED
  BY <1>1, <1>4, <1>5, <1>6, <1>7, <1>8 DEF on, name, Sound, Settled

LEMMA Rises ==
  ASSUME NEW p \in PortState, Wired(p), NEW c \in CauseSet
  PROVE  LET q == rise(p, c)
         IN  /\ Sound(q)
             /\ q.IER = p.IER /\ q.waiting = p.waiting \cup {c} /\ q.due = p.due
             /\ Receiver(q) = Receiver(p) /\ Transmitter(q) = Transmitter(p)
             /\ Modem(q) = Modem(p)
<1> DEFINE r == [p EXCEPT !.waiting = @ \cup {c}]
<1>1. r \in PortState /\ Wired(r)
  BY DEF PortState, Wired
<1>2. /\ r.IER = p.IER /\ r.waiting = p.waiting \cup {c} /\ r.due = p.due
      /\ Receiver(r) = Receiver(p) /\ Transmitter(r) = Transmitter(p)
      /\ Modem(r) = Modem(p)
  BY DEF PortState, Receiver, Transmitter, Modem
<1>3. rise(p, c) = ComputeInterrupts(r)
  BY DEF rise
<1> HIDE DEF r
<1> QED
  BY <1>1, <1>2, <1>3, Computes

LEMMA Clears ==
  ASSUME NEW p \in PortState, Wired(p), NEW c \in CauseSet
  PROVE  LET q == clear(p, c)
         IN  /\ Sound(q)
             /\ q.IER = p.IER /\ q.waiting = p.waiting \ {c} /\ q.due = p.due
             /\ Receiver(q) = Receiver(p) /\ Transmitter(q) = Transmitter(p)
             /\ Modem(q) = Modem(p)
<1> DEFINE r == [p EXCEPT !.waiting = @ \ {c}]
<1>1. r \in PortState /\ Wired(r)
  BY DEF PortState, Wired
<1>2. /\ r.IER = p.IER /\ r.waiting = p.waiting \ {c} /\ r.due = p.due
      /\ Receiver(r) = Receiver(p) /\ Transmitter(r) = Transmitter(p)
      /\ Modem(r) = Modem(p)
  BY DEF PortState, Receiver, Transmitter, Modem
<1>3. clear(p, c) = ComputeInterrupts(r)
  BY DEF clear
<1> HIDE DEF r
<1> QED
  BY <1>1, <1>2, <1>3, Computes

(* Events move nothing but what is due.                                    *)
LEMMA Sets ==
  ASSUME NEW p, Sound(p), NEW e \in Events, NEW n \in Nat
  PROVE  LET q == [p EXCEPT !.due[e] = n]
         IN  /\ Sound(q)
             /\ q.IER = p.IER /\ q.waiting = p.waiting
             /\ q.due = [p.due EXCEPT ![e] = n]
             /\ Receiver(q) = Receiver(p) /\ Transmitter(q) = Transmitter(p)
             /\ Modem(q) = Modem(p)
BY DEF Sound, PortState, Wired, Settled, Val, Receiver, Transmitter, Modem

LEMMA SetEvent ==
  ASSUME NEW p, Sound(p), NEW e \in Events
  PROVE  LET q == setEvent(p, e)
         IN  /\ Sound(q)
             /\ q.IER = p.IER /\ q.waiting = p.waiting
             /\ q.due = [p.due EXCEPT ![e] = p.due[e] + 1]
             /\ Receiver(q) = Receiver(p) /\ Transmitter(q) = Transmitter(p)
             /\ Modem(q) = Modem(p)
<1>1. p.due[e] + 1 \in Nat
  BY DEF Sound, PortState
<1>2. setEvent(p, e) = [p EXCEPT !.due[e] = p.due[e] + 1]
  BY DEF setEvent
<1> QED
  BY <1>1, <1>2, Sets

LEMMA RemoveEvent ==
  ASSUME NEW p, Sound(p), NEW e \in Events
  PROVE  LET q == removeEvent(p, e)
         IN  /\ Sound(q)
             /\ q.IER = p.IER /\ q.waiting = p.waiting
             /\ q.due = [p.due EXCEPT ![e] = 0]
             /\ Receiver(q) = Receiver(p) /\ Transmitter(q) = Transmitter(p)
             /\ Modem(q) = Modem(p)
BY Sets DEF removeEvent

(***************************************************************************)
(* Errors in a fifo, counted.                                              *)
(***************************************************************************)
Marked(s) == {i \in DOMAIN s : s[i]}

LEMMA MarkedFinite ==
  ASSUME NEW s \in Seq(BOOLEAN)
  PROVE  IsFiniteSet(Marked(s)) /\ Count(s) = Cardinality(Marked(s)) /\ Count(s) \in Nat
<1>1. IsFiniteSet(1 .. Len(s)) /\ DOMAIN s = 1 .. Len(s)
  BY FS_Interval
<1>2. IsFiniteSet(Marked(s))
  BY <1>1, FS_Subset DEF Marked
<1> QED
  BY <1>2, FS_CardinalityType DEF Count, Marked

LEMMA CountEmpty == Count(<<>>) = 0
<1>1. Marked(<<>>) = {}
  BY DEF Marked
<1> QED
  BY <1>1, FS_EmptySet DEF Count, Marked

LEMMA CountAppended ==
  ASSUME NEW s \in Seq(BOOLEAN), NEW b \in BOOLEAN
  PROVE  Count(Append(s, b)) = Count(s) + IF b THEN 1 ELSE 0
<1> DEFINE t == Append(s, b)
           n == Len(s) + 1
<1>1. /\ t \in Seq(BOOLEAN) /\ DOMAIN t = 1 .. n /\ DOMAIN s = 1 .. Len(s)
      /\ t[n] = b /\ \A i \in 1 .. Len(s) : t[i] = s[i]
  OBVIOUS
<1>2. Marked(t) = IF b THEN Marked(s) \cup {n} ELSE Marked(s)
  BY <1>1 DEF Marked
<1>3. n \notin Marked(s)
  BY <1>1 DEF Marked
<1> HIDE DEF t, n
<1>4. Cardinality(Marked(s) \cup {n}) = Cardinality(Marked(s)) + 1
  BY <1>3, MarkedFinite, FS_AddElement
<1>5. Cardinality(Marked(t)) = Cardinality(Marked(s)) + IF b THEN 1 ELSE 0
  BY <1>2, <1>4, MarkedFinite
<1> QED
  BY <1>1, <1>5, MarkedFinite DEF t

LEMMA CountAppend ==
  ASSUME NEW s \in Seq(BOOLEAN)
  PROVE  /\ Append(s, TRUE) \in Seq(BOOLEAN) /\ Len(Append(s, TRUE)) = Len(s) + 1
         /\ Count(Append(s, TRUE)) = Count(s) + 1
         /\ Append(s, FALSE) \in Seq(BOOLEAN) /\ Len(Append(s, FALSE)) = Len(s) + 1
         /\ Count(Append(s, FALSE)) = Count(s)
<1>1. TRUE \in BOOLEAN /\ FALSE \in BOOLEAN
  OBVIOUS
<1>3. Count(Append(s, TRUE)) = Count(s) + IF TRUE THEN 1 ELSE 0
  BY <1>1, CountAppended, Zenon
<1>4. Count(Append(s, FALSE)) = Count(s) + IF FALSE THEN 1 ELSE 0
  BY <1>1, CountAppended, Zenon
<1>2. Count(s) \in Nat
  BY MarkedFinite
<1>5. \A b \in BOOLEAN : Append(s, b) \in Seq(BOOLEAN) /\ Len(Append(s, b)) = Len(s) + 1
  BY AppendProperties
<1>6. /\ Append(s, TRUE) \in Seq(BOOLEAN) /\ Len(Append(s, TRUE)) = Len(s) + 1
      /\ Append(s, FALSE) \in Seq(BOOLEAN) /\ Len(Append(s, FALSE)) = Len(s) + 1
  BY <1>1, <1>5, Zenon
<1>7. Count(Append(s, TRUE)) = Count(s) + 1
  <2>1. Count(s) + (IF TRUE THEN 1 ELSE 0) = Count(s) + 1
    BY <1>2
  <2> QED
    BY <1>3, <2>1, Zenon
<1>8. Count(Append(s, FALSE)) = Count(s)
  <2>1. Count(s) + (IF FALSE THEN 1 ELSE 0) = Count(s)
    BY <1>2
  <2> QED
    BY <1>4, <2>1, Zenon
<1> QED
  BY <1>6, <1>7, <1>8, Zenon

LEMMA CountTail ==
  ASSUME NEW s \in Seq(BOOLEAN), s # <<>>
  PROVE  Count(Tail(s)) = Count(s) - IF Head(s) THEN 1 ELSE 0
<1> DEFINE t == Tail(s)
           later == Marked(s) \ {1}
           f == [i \in Marked(t) |-> i + 1]
<1>1. /\ t \in Seq(BOOLEAN) /\ DOMAIN t = 1 .. Len(s) - 1 /\ DOMAIN s = 1 .. Len(s)
      /\ Len(s) \in Nat \ {0} /\ Head(s) = s[1] /\ \A i \in 1 .. Len(s) - 1 : t[i] = s[i + 1]
  OBVIOUS
<1>2. \A i \in Marked(t) : i \in Nat /\ i + 1 \in later
  BY <1>1 DEF Marked
<1>3. \A j \in later : j - 1 \in Marked(t) /\ j - 1 + 1 = j
  BY <1>1 DEF Marked
<1> HIDE DEF t, later
<1>4. f \in Bijection(Marked(t), later)
  <2>1. f \in [Marked(t) -> later]
    BY <1>2
  <2>2. \A a, b \in Marked(t) : f[a] = f[b] => a = b
    BY <1>2
  <2>3. \A j \in later : \E i \in Marked(t) : f[i] = j
    BY <1>3
  <2> HIDE DEF f
  <2>4. f \in Injection(Marked(t), later) /\ f \in Surjection(Marked(t), later)
    BY <2>1, <2>2, <2>3, Fun_IsInj, Fun_IsSurj
  <2> QED
    BY <2>4 DEF Bijection
<1>5. IsFiniteSet(Marked(t)) /\ IsFiniteSet(Marked(s)) /\ IsFiniteSet(later)
  BY <1>1, MarkedFinite, FS_Subset DEF later
<1>6. Cardinality(later) = Cardinality(Marked(t))
  BY <1>4, <1>5, FS_Bijection DEF ExistsBijection
<1>7. Cardinality(later) = Cardinality(Marked(s)) - IF 1 \in Marked(s) THEN 1 ELSE 0
  BY <1>5, FS_RemoveElement, MarkedFinite DEF later
<1>8. 1 \in Marked(s) <=> Head(s)
  <2>1. 1 \in DOMAIN s
    BY <1>1
  <2> QED
    BY <1>1, <2>1, Zenon DEF Marked
<1> QED
  BY <1>1, <1>6, <1>7, <1>8, MarkedFinite DEF t

LEMMA CountMark ==
  ASSUME NEW s \in Seq(BOOLEAN), NEW n \in 1 .. Len(s)
  PROVE  Count([s EXCEPT ![n] = TRUE]) = Count(s) + IF s[n] THEN 0 ELSE 1
<1> DEFINE t == [s EXCEPT ![n] = TRUE]
<1>1. /\ t \in Seq(BOOLEAN) /\ DOMAIN t = DOMAIN s /\ DOMAIN s = 1 .. Len(s)
      /\ t[n] = TRUE /\ \A i \in 1 .. Len(s) \ {n} : t[i] = s[i]
  BY ExceptSeq
<1>2. Marked(t) = Marked(s) \cup {n}
  BY <1>1 DEF Marked
<1>3. n \in Marked(s) <=> s[n]
  BY <1>1 DEF Marked
<1> HIDE DEF t
<1>4. n \notin Marked(s) => Cardinality(Marked(s) \cup {n}) = Cardinality(Marked(s)) + 1
  BY MarkedFinite, FS_AddElement
<1>5. n \in Marked(s) => Marked(s) \cup {n} = Marked(s)
  OBVIOUS
<1>6. Cardinality(Marked(t)) = Cardinality(Marked(s)) + IF s[n] THEN 0 ELSE 1
  <2>1. CASE s[n]
    <3>1. Marked(t) = Marked(s)
      BY <1>2, <1>3, <1>5, <2>1, Zenon
    <3>2. (IF s[n] THEN 0 ELSE 1) = 0
      BY <2>1
    <3> QED
      BY <3>1, <3>2, MarkedFinite
  <2>2. CASE ~s[n]
    BY <1>2, <1>3, <1>4, <2>2, MarkedFinite
  <2> QED
    BY <2>1, <2>2
<1> QED
  BY <1>1, <1>6, MarkedFinite DEF t
(***************************************************************************)
(* The receiver.                                                           *)
(***************************************************************************)
Tallied(p) == ~Rereads => p.errors_in_fifo = Count(p.errors)

Counted(p) ==
  /\ Tallied(p)
  /\ Len(p.errors) = IF p.fifo THEN p.rx ELSE 0

ToldRx(p) ==
  p.rx > 0 => {"RX", "TIMEOUT"} \cap p.waiting # {} \/ p.due["RX_TIMEOUT"] > 0

ToldErrors(p) == p.LSR_ERROR => "ERROR" \in p.waiting

ToldLines(p) == p.delta # {} => "MSR" \in p.waiting

ToldTx(p) == p.tx = 0 /\ p.untold => "TX" \in p.waiting

(* What the receiver leaves alone.                                         *)
OnlyReceives(p, q) ==
  /\ Transmitter(q) = Transmitter(p) /\ Modem(q) = Modem(p) /\ q.IER = p.IER
  /\ \A c \in {"TX", "MSR"} : c \in q.waiting <=> c \in p.waiting
  /\ \A e \in Sending : q.due[e] = p.due[e]

LEMMA OnlyReceivesChain ==
  ASSUME NEW p, NEW q, NEW r, OnlyReceives(p, q), OnlyReceives(q, r)
  PROVE  OnlyReceives(p, r)
BY DEF OnlyReceives

LEMMA ReceiverRises ==
  ASSUME NEW p \in PortState, Wired(p), NEW c \in {"ERROR", "RX", "TIMEOUT"}
  PROVE  LET q == rise(p, c)
         IN  /\ Sound(q) /\ OnlyReceives(p, q) /\ Receiver(q) = Receiver(p)
             /\ q.waiting = p.waiting \cup {c} /\ q.due = p.due
<1>1. c \in CauseSet
  BY DEF CauseSet
<1> QED
  BY <1>1, Rises DEF OnlyReceives

LEMMA ReceiverClears ==
  ASSUME NEW p \in PortState, Wired(p), NEW c \in {"ERROR", "RX", "TIMEOUT"}
  PROVE  LET q == clear(p, c)
         IN  /\ Sound(q) /\ OnlyReceives(p, q) /\ Receiver(q) = Receiver(p)
             /\ q.waiting = p.waiting \ {c} /\ q.due = p.due
<1>1. c \in CauseSet
  BY DEF CauseSet
<1> QED
  BY <1>1, Clears DEF OnlyReceives

LEMMA TimeoutSet ==
  ASSUME NEW p, Sound(p)
  PROVE  LET q == setEvent(p, "RX_TIMEOUT")
         IN  /\ Sound(q) /\ OnlyReceives(p, q) /\ Receiver(q) = Receiver(p)
             /\ q.waiting = p.waiting /\ q.due["RX_TIMEOUT"] > 0
<1>1. "RX_TIMEOUT" \in Events /\ \A e \in Sending : e \in Events /\ e # "RX_TIMEOUT"
  BY DEF Events, Sending
<1>2. p.due \in [Events -> Nat]
  BY DEF Sound, PortState
<1> DEFINE q == setEvent(p, "RX_TIMEOUT")
<1>3. /\ Sound(q) /\ q.IER = p.IER /\ q.waiting = p.waiting
      /\ q.due = [p.due EXCEPT !["RX_TIMEOUT"] = p.due["RX_TIMEOUT"] + 1]
      /\ Receiver(q) = Receiver(p) /\ Transmitter(q) = Transmitter(p) /\ Modem(q) = Modem(p)
  BY <1>1, SetEvent
<1> HIDE DEF q
<1>4. \A e \in Sending : q.due[e] = p.due[e]
  BY <1>1, <1>2, <1>3
<1>5. q.due["RX_TIMEOUT"] = p.due["RX_TIMEOUT"] + 1
  BY <1>1, <1>2, <1>3
<1> QED
  BY <1>1, <1>2, <1>3, <1>4, <1>5 DEF OnlyReceives, q

LEMMA TimeoutRemoved ==
  ASSUME NEW p, Sound(p)
  PROVE  LET q == removeEvent(p, "RX_TIMEOUT")
         IN  /\ Sound(q) /\ OnlyReceives(p, q) /\ Receiver(q) = Receiver(p)
             /\ q.waiting = p.waiting
<1>1. "RX_TIMEOUT" \in Events /\ \A e \in Sending : e \in Events /\ e # "RX_TIMEOUT"
  BY DEF Events, Sending
<1>2. p.due \in [Events -> Nat]
  BY DEF Sound, PortState
<1> DEFINE q == removeEvent(p, "RX_TIMEOUT")
<1>3. /\ Sound(q) /\ q.IER = p.IER /\ q.waiting = p.waiting
      /\ q.due = [p.due EXCEPT !["RX_TIMEOUT"] = 0]
      /\ Receiver(q) = Receiver(p) /\ Transmitter(q) = Transmitter(p) /\ Modem(q) = Modem(p)
  BY <1>1, RemoveEvent
<1> HIDE DEF q
<1>4. \A e \in Sending : q.due[e] = p.due[e]
  BY <1>1, <1>2, <1>3
<1>5. q.due["RX_TIMEOUT"] = 0
  BY <1>1, <1>2, <1>3
<1> QED
  BY <1>1, <1>2, <1>3, <1>4, <1>5 DEF OnlyReceives, q

(* The fields of the receiver, one by one.                                 *)
LEMMA ReceiverFields ==
  ASSUME NEW p, NEW q, Receiver(q) = Receiver(p)
  PROVE  /\ q.fifo = p.fifo /\ q.threshold = p.threshold /\ q.rx = p.rx
         /\ q.errors = p.errors /\ q.last = p.last
         /\ q.errors_in_fifo = p.errors_in_fifo /\ q.LSR_ERROR = p.LSR_ERROR
BY DEF Receiver

LEMMA ErrorIsShown ==
  ASSUME NEW p, Sound(p)
  PROVE  LET q == ErrorShown(p)
         IN  /\ Sound(q) /\ OnlyReceives(p, q) /\ ToldErrors(q)
             /\ q.waiting = p.waiting \cup {"ERROR"} /\ q.due = p.due
             /\ q.fifo = p.fifo /\ q.threshold = p.threshold /\ q.rx = p.rx
             /\ q.errors = p.errors /\ q.last = p.last /\ q.errors_in_fifo = p.errors_in_fifo
<1> DEFINE r == [p EXCEPT !.LSR_ERROR = TRUE]
<1>1. /\ r \in PortState /\ Wired(r) /\ OnlyReceives(p, r)
      /\ r.waiting = p.waiting /\ r.due = p.due
      /\ r.fifo = p.fifo /\ r.threshold = p.threshold /\ r.rx = p.rx
      /\ r.errors = p.errors /\ r.last = p.last /\ r.errors_in_fifo = p.errors_in_fifo
  BY DEF Sound, PortState, Wired, OnlyReceives, Transmitter, Modem
<1>2. ErrorShown(p) = rise(r, "ERROR")
  BY DEF ErrorShown
<1> HIDE DEF r
<1> QED
  BY <1>1, <1>2, ReceiverRises, ReceiverFields, OnlyReceivesChain DEF ToldErrors

LEMMA ErrorIsAdded ==
  ASSUME NEW p, Sound(p), p.fifo, Len(p.errors) <= FifoSize,
         Tallied(p)
  PROVE  LET q == AddError(p)
         IN  /\ Sound(q) /\ OnlyReceives(p, q)
             /\ q.waiting = p.waiting /\ q.due = p.due
             /\ q.fifo = p.fifo /\ q.threshold = p.threshold /\ q.rx = p.rx
             /\ q.LSR_ERROR = p.LSR_ERROR
             /\ Tallied(q)
             /\ Len(q.errors) = IF Len(p.errors) < FifoSize THEN Len(p.errors) + 1
                                                            ELSE Len(p.errors)
<1> DEFINE n == Len(p.errors)
           q == AddError(p)
<1>1. p.errors \in Seq(BOOLEAN) /\ n \in Nat /\ p.errors_in_fifo \in Int
  BY DEF Sound, PortState
<1>2. CASE n < FifoSize
  <2> DEFINE t == Append(p.errors, TRUE)
             k == p.errors_in_fifo + 1
  <2>1. t \in Seq(BOOLEAN) /\ Len(t) = n + 1 /\ (~Rereads => k = Count(t)) /\ k \in Int
    <3>1. t \in Seq(BOOLEAN) /\ Len(t) = Len(p.errors) + 1 /\ Count(t) = Count(p.errors) + 1
      BY <1>1, CountAppend, Zenon
    <3>2. p.errors_in_fifo + 1 \in Int /\ (~Rereads => p.errors_in_fifo = Count(p.errors))
      BY <1>1 DEF Tallied
    <3> QED
      BY <3>1, <3>2, Zenon
  <2>2. q = [p EXCEPT !.errors = t, !.errors_in_fifo = k, !.last = FALSE]
    BY <1>2 DEF AddError
  <2> HIDE DEF t, q, k
  <2>3. /\ Sound(q) /\ OnlyReceives(p, q)
        /\ q.waiting = p.waiting /\ q.due = p.due
        /\ q.fifo = p.fifo /\ q.threshold = p.threshold /\ q.rx = p.rx
        /\ q.LSR_ERROR = p.LSR_ERROR
        /\ q.errors = t /\ q.errors_in_fifo = k
    BY <1>1, <2>1, <2>2
       DEF Sound, PortState, Wired, Settled, Val, OnlyReceives, Transmitter, Modem
  <2> QED
    BY <1>2, <2>1, <2>3 DEF q, Tallied
<1>3. CASE ~(n < FifoSize)
  <2> DEFINE t == [p.errors EXCEPT ![n] = TRUE]
             k == IF p.errors[n] THEN p.errors_in_fifo ELSE p.errors_in_fifo + 1
  <2>1. n \in 1 .. Len(p.errors)
    BY <1>1, <1>3, FifoAssumption
  <2>2. t \in Seq(BOOLEAN) /\ Len(t) = n
    BY <1>1, <2>1, ExceptSeq
  <2>3. Count(t) = Count(p.errors) + IF p.errors[n] THEN 0 ELSE 1
    BY <1>1, <2>1, CountMark
  <2>4. (~Rereads => k = Count(t)) /\ k \in Int
    BY <1>1, <2>3 DEF Tallied
  <2>5. q = [p EXCEPT !.errors = t, !.errors_in_fifo = k]
    BY <1>3 DEF AddError
  <2> HIDE DEF t, q, k
  <2>6. /\ Sound(q) /\ OnlyReceives(p, q)
        /\ q.waiting = p.waiting /\ q.due = p.due
        /\ q.fifo = p.fifo /\ q.threshold = p.threshold /\ q.rx = p.rx
        /\ q.LSR_ERROR = p.LSR_ERROR
        /\ q.errors = t /\ q.errors_in_fifo = k
    BY <1>1, <2>2, <2>4, <2>5
       DEF Sound, PortState, Wired, Settled, Val, OnlyReceives, Transmitter, Modem
  <2> QED
    BY <1>3, <2>2, <2>4, <2>6 DEF q, Tallied
<1> QED
  BY <1>2, <1>3

(* A byte in the fifo is told of at once or by a timeout.                  *)
ByteTold(p, threshold) ==
  IF p.rx = threshold THEN rise(p, "RX") ELSE setEvent(p, "RX_TIMEOUT")

LEMMA ByteIsTold ==
  ASSUME NEW p, Sound(p), NEW threshold
  PROVE  LET q == ByteTold(p, threshold)
         IN  /\ Sound(q) /\ OnlyReceives(p, q) /\ ToldRx(q) /\ Receiver(q) = Receiver(p)
             /\ "ERROR" \in p.waiting => "ERROR" \in q.waiting
<1>1. p \in PortState /\ Wired(p)
  BY DEF Sound
<1>2. CASE p.rx = threshold
  BY <1>1, <1>2, ReceiverRises DEF ToldRx, ByteTold
<1>3. CASE p.rx # threshold
  BY <1>3, TimeoutSet DEF ToldRx, ByteTold
<1> QED
  BY <1>2, <1>3

(* What receiveByteEx does when the byte is in the fifo and told of.       *)
Mark(p, told, error) ==
  IF ~error /\ p.rx < Size(p)
  THEN IF p.fifo THEN [told EXCEPT !.errors = Append(@, FALSE), !.last = FALSE] ELSE told
  ELSE IF ~p.fifo THEN ErrorShown(told)
  ELSE LET r == AddError(told) IN IF Head(r.errors) THEN ErrorShown(r) ELSE r

LEMMA ByteIsMarked ==
  ASSUME NEW p, Sound(p), Counted(p), ToldErrors(p), NEW error \in BOOLEAN,
         NEW told, Sound(told), ToldRx(told),
         "ERROR" \in p.waiting => "ERROR" \in told.waiting,
         told.fifo = p.fifo, told.errors = p.errors,
         told.rx = IF p.rx < Size(p) THEN p.rx + 1 ELSE Size(p),
         told.errors_in_fifo = p.errors_in_fifo, told.LSR_ERROR = p.LSR_ERROR
  PROVE  LET q == Mark(p, told, error)
         IN  Sound(q) /\ Counted(q) /\ ToldRx(q) /\ ToldErrors(q) /\ OnlyReceives(told, q)
<1> DEFINE q == Mark(p, told, error)
<1> SUFFICES Sound(q) /\ Counted(q) /\ ToldRx(q) /\ ToldErrors(q) /\ OnlyReceives(told, q)
  OBVIOUS
<1>1. /\ p \in PortState /\ p.rx \in 0 .. FifoSize /\ p.fifo \in BOOLEAN
      /\ p.errors \in Seq(BOOLEAN) /\ Len(p.errors) \in Nat
  BY DEF Sound, PortState
<1>2. Size(p) \in 1 .. FifoSize /\ (p.fifo => Size(p) = FifoSize) /\ FifoSize \in Nat
  BY <1>1, SizeIs, FifoAssumption
<1>3. OnlyReceives(told, told)
  BY DEF OnlyReceives
<1>4. CASE ~error /\ p.rx < Size(p) /\ p.fifo
  <2> DEFINE t == Append(p.errors, FALSE)
  <2>1. t \in Seq(BOOLEAN) /\ Len(t) = Len(p.errors) + 1 /\ Count(t) = Count(p.errors)
    BY <1>1, CountAppend
  <2>2. q = [told EXCEPT !.errors = t, !.last = FALSE]
    BY <1>4 DEF Mark
  <2> HIDE DEF t, q
  <2>3. /\ Sound(q) /\ OnlyReceives(told, q) /\ q.waiting = told.waiting /\ q.due = told.due
        /\ q.rx = told.rx /\ q.fifo = told.fifo /\ q.errors = t
        /\ q.errors_in_fifo = told.errors_in_fifo /\ q.LSR_ERROR = told.LSR_ERROR
    BY <2>1, <2>2 DEF Sound, PortState, Wired, Settled, Val, OnlyReceives, Transmitter, Modem
  <2>4. Counted(q)
    BY <1>1, <1>4, <2>1, <2>3 DEF Counted, Tallied
  <2> QED
    BY <2>3, <2>4 DEF ToldRx, ToldErrors
<1>5. CASE ~error /\ p.rx < Size(p) /\ ~p.fifo
  <2>1. q = told
    BY <1>5 DEF Mark
  <2> QED
    BY <1>3, <1>5, <2>1 DEF Counted, Tallied, ToldErrors
<1>6. CASE ~(~error /\ p.rx < Size(p)) /\ ~p.fifo
  <2>1. q = ErrorShown(told)
    BY <1>6 DEF Mark
  <2> QED
    BY <1>6, <2>1, ErrorIsShown DEF Counted, Tallied, ToldRx
<1>7. CASE ~(~error /\ p.rx < Size(p)) /\ p.fifo
  <2> DEFINE r == AddError(told)
  <2>1. q = IF Head(r.errors) THEN ErrorShown(r) ELSE r
    BY <1>7 DEF Mark
  <2>2. Len(told.errors) = p.rx /\ Len(told.errors) <= FifoSize /\ told.fifo
        /\ Tallied(told)
    BY <1>1, <1>7 DEF Counted, Tallied
  <2>3. /\ Sound(r) /\ OnlyReceives(told, r)
        /\ r.waiting = told.waiting /\ r.due = told.due
        /\ r.fifo = told.fifo /\ r.threshold = told.threshold /\ r.rx = told.rx
        /\ r.LSR_ERROR = told.LSR_ERROR
        /\ Tallied(r)
        /\ Len(r.errors) = IF Len(told.errors) < FifoSize THEN Len(told.errors) + 1
                                                            ELSE Len(told.errors)
    BY <2>2, ErrorIsAdded, Zenon
  <2> HIDE DEF r, q
  <2>4. Counted(r) /\ ToldRx(r) /\ ToldErrors(r)
    BY <1>1, <1>2, <1>7, <2>2, <2>3 DEF Counted, ToldRx, ToldErrors
  <2>5. CASE Head(r.errors)
    BY <2>1, <2>3, <2>4, <2>5, ErrorIsShown, OnlyReceivesChain DEF Counted, Tallied, ToldRx
  <2>6. CASE ~Head(r.errors)
    BY <2>1, <2>3, <2>4, <2>6
  <2> QED
    BY <2>5, <2>6
<1> QED
  BY <1>1, <1>4, <1>5, <1>6, <1>7

LEMMA ReceiveByte ==
  ASSUME NEW p, Sound(p), Counted(p), ToldErrors(p), NEW error \in BOOLEAN
  PROVE  LET q == receiveByteEx(p, error)
         IN  /\ Sound(q) /\ Counted(q) /\ ToldRx(q) /\ ToldErrors(q)
             /\ OnlyReceives(p, q)
<1> DEFINE k == IF p.rx < Size(p) THEN p.rx + 1 ELSE Size(p)
           grown == [p EXCEPT !.rx = k]
           added == removeEvent(grown, "RX_TIMEOUT")
           told == ByteTold(added, p.threshold)
<1>1. p \in PortState /\ p.rx \in 0 .. FifoSize
  BY DEF Sound, PortState
<1>2. Size(p) \in 1 .. FifoSize /\ k \in 0 .. FifoSize
  BY <1>1, SizeIs, FifoAssumption
<1>3. Min({p.rx + 1, Size(p)}) = k
  BY <1>1, <1>2, MinOfTwo
<1>4. receiveByteEx(p, error) = Mark(p, told, error)
  <2> DEFINE start == removeEvent([p EXCEPT !.rx = Min({@ + 1, Size(p)})], "RX_TIMEOUT")
  <2>1. receiveByteEx(p, error) = Mark(p, ByteTold(start, p.threshold), error)
    BY DEF receiveByteEx, Mark, ByteTold
  <2>2. start = added
    BY <1>3
  <2> QED
    BY <2>1, <2>2
<1> HIDE DEF k
<1>5. /\ Sound(grown) /\ OnlyReceives(p, grown)
      /\ grown.fifo = p.fifo /\ grown.rx = k /\ grown.errors = p.errors
      /\ grown.errors_in_fifo = p.errors_in_fifo /\ grown.LSR_ERROR = p.LSR_ERROR
      /\ grown.waiting = p.waiting
  BY <1>2 DEF Sound, PortState, Wired, Settled, Val, OnlyReceives, Transmitter, Modem
<1> HIDE DEF grown
<1>6. /\ Sound(added) /\ OnlyReceives(grown, added) /\ added.waiting = grown.waiting
      /\ Receiver(added) = Receiver(grown)
  BY <1>5, TimeoutRemoved
<1> HIDE DEF added
<1>7. /\ Sound(told) /\ OnlyReceives(added, told) /\ ToldRx(told)
      /\ Receiver(told) = Receiver(grown)
      /\ "ERROR" \in p.waiting => "ERROR" \in told.waiting
  BY <1>5, <1>6, ByteIsTold
<1> HIDE DEF told
<1>8. OnlyReceives(p, told)
  BY <1>5, <1>6, <1>7, OnlyReceivesChain
<1>9. /\ told.fifo = p.fifo /\ told.errors = p.errors /\ told.rx = k
      /\ told.errors_in_fifo = p.errors_in_fifo /\ told.LSR_ERROR = p.LSR_ERROR
  BY <1>5, <1>7, ReceiverFields
<1> QED
  BY <1>4, <1>7, <1>8, <1>9, ByteIsMarked, OnlyReceivesChain DEF k

Rest(p) == IF p.errors # <<>> THEN Tail(p.errors) ELSE <<>>

FirstError(p) == IF p.errors # <<>> THEN Head(p.errors) ELSE p.last

(* TakeByte up to where the next byte is looked at.                        *)
Taken(p) ==
  LET taken == [p EXCEPT !.rx = Max({@ - 1, 0})]
  IN  IF ~p.fifo THEN taken
      ELSE [taken EXCEPT !.errors = Rest(p), !.last = FirstError(p) /\ Rest(p) = <<>>,
                         !.errors_in_fifo = IF FirstError(p) THEN @ - 1 ELSE @]

LEMMA RestIs ==
  ASSUME NEW p, p.errors \in Seq(BOOLEAN), p.last \in BOOLEAN
  PROVE  /\ Rest(p) \in Seq(BOOLEAN) /\ FirstError(p) \in BOOLEAN
         /\ Len(Rest(p)) = IF Len(p.errors) = 0 THEN 0 ELSE Len(p.errors) - 1
         /\ (p.errors = <<>> => ~p.last)
              => Count(Rest(p)) = Count(p.errors) - IF FirstError(p) THEN 1 ELSE 0
         /\ Count(Rest(p)) \in Nat /\ Count(p.errors) \in Nat
<1>1. CASE p.errors = <<>>
  <2>1. Rest(p) = <<>> /\ FirstError(p) = p.last
    BY <1>1 DEF Rest, FirstError
  <2>2. ~p.last => (IF FirstError(p) THEN 1 ELSE 0) = 0
    BY <2>1
  <2>3. <<>> \in Seq(BOOLEAN) /\ Len(<<>>) = 0
    OBVIOUS
  <2> QED
    BY <1>1, <2>1, <2>2, <2>3, CountEmpty
<1>2. CASE p.errors # <<>>
  <2>1. Rest(p) = Tail(p.errors) /\ FirstError(p) = Head(p.errors)
    BY <1>2 DEF Rest, FirstError
  <2>2. /\ Rest(p) \in Seq(BOOLEAN) /\ FirstError(p) \in BOOLEAN
        /\ Len(Rest(p)) = Len(p.errors) - 1 /\ Len(p.errors) \in Nat \ {0}
    BY <1>2, <2>1, HeadTailProperties, EmptySeq
  <2>3. Count(Rest(p)) = Count(p.errors) - IF FirstError(p) THEN 1 ELSE 0
    BY <1>2, <2>1, CountTail, Zenon
  <2> QED
    BY <2>2, <2>3, MarkedFinite
<1> QED
  BY <1>1, <1>2

LEMMA ByteIsTaken ==
  ASSUME NEW p, Sound(p), Counted(p), p.rx = 0 /\ p.last => Rereads
  PROVE  LET q == Taken(p)
         IN  /\ Sound(q) /\ OnlyReceives(p, q) /\ Counted(q)
             /\ q.fifo = p.fifo /\ q.threshold = p.threshold /\ q.LSR_ERROR = p.LSR_ERROR
             /\ q.waiting = p.waiting /\ q.due = p.due
<1> DEFINE k == IF p.rx = 0 THEN 0 ELSE p.rx - 1
           t == Rest(p)
           m == FirstError(p) /\ t = <<>>
           n == IF FirstError(p) THEN p.errors_in_fifo - 1 ELSE p.errors_in_fifo
           q == Taken(p)
<1> SUFFICES /\ Sound(q) /\ OnlyReceives(p, q) /\ Counted(q)
             /\ q.fifo = p.fifo /\ q.threshold = p.threshold /\ q.LSR_ERROR = p.LSR_ERROR
             /\ q.waiting = p.waiting /\ q.due = p.due
  OBVIOUS
<1>1. /\ p \in PortState /\ p.rx \in 0 .. FifoSize /\ p.fifo \in BOOLEAN /\ p.last \in BOOLEAN
      /\ p.errors \in Seq(BOOLEAN) /\ Len(p.errors) \in Nat /\ p.errors_in_fifo \in Int
      /\ FifoSize \in Nat
  BY FifoAssumption DEF Sound, PortState
<1>2. Max({p.rx - 1, 0}) = k /\ k \in 0 .. FifoSize
  BY <1>1, MaxOfTwo
<1>3. CASE ~p.fifo
  <2>1. q = [p EXCEPT !.rx = k]
    BY <1>2, <1>3 DEF Taken
  <2> HIDE DEF q, k
  <2> QED
    BY <1>1, <1>2, <1>3, <2>1
       DEF Sound, PortState, Wired, Settled, Val, OnlyReceives, Transmitter, Modem, Counted,
           Tallied
<1>4. CASE p.fifo
  <2>1. ~Rereads => (p.errors = <<>> => ~p.last)
    BY <1>1, <1>4 DEF Counted
  <2>2. /\ t \in Seq(BOOLEAN) /\ m \in BOOLEAN
        /\ Len(t) = k
        /\ ~Rereads => Count(t) = Count(p.errors) - IF FirstError(p) THEN 1 ELSE 0
        /\ Count(t) \in Nat /\ Count(p.errors) \in Nat
    BY <1>1, <1>4, <2>1, RestIs DEF Counted
  <2>3. (~Rereads => n = Count(t)) /\ n \in Int
    BY <1>1, <2>2 DEF Counted, Tallied
  <2>4. q = [p EXCEPT !.rx = k, !.errors = t, !.last = m, !.errors_in_fifo = n]
    <3> DEFINE taken == [p EXCEPT !.rx = Max({@ - 1, 0})]
    <3>1. q = [taken EXCEPT !.errors = t, !.last = m,
                            !.errors_in_fifo = IF FirstError(p) THEN @ - 1 ELSE @]
      BY <1>4 DEF Taken
    <3>2. taken = [p EXCEPT !.rx = k]
      BY <1>2
    <3>3. taken.errors_in_fifo = p.errors_in_fifo
      BY <1>1, <3>2 DEF PortState
    <3> HIDE DEF taken
    <3>4. q = [taken EXCEPT !.errors = t, !.last = m, !.errors_in_fifo = n]
      BY <3>1, <3>3
    <3> QED
      BY <3>2, <3>4
  <2> HIDE DEF q, k, t, m, n
  <2>5. /\ Sound(q) /\ OnlyReceives(p, q)
        /\ q.fifo = p.fifo /\ q.threshold = p.threshold /\ q.LSR_ERROR = p.LSR_ERROR
        /\ q.waiting = p.waiting /\ q.due = p.due
        /\ q.rx = k /\ q.errors = t /\ q.errors_in_fifo = n
    BY <1>1, <1>2, <2>2, <2>3, <2>4
       DEF Sound, PortState, Wired, Settled, Val, OnlyReceives, Transmitter, Modem
  <2> QED
    BY <1>4, <2>2, <2>3, <2>5 DEF Counted, Tallied
<1> QED
  BY <1>1, <1>3, <1>4

LEMMA ReadByte ==
  ASSUME NEW p, Sound(p), Counted(p), ToldErrors(p), p.rx = 0 /\ p.last => Rereads
  PROVE  LET q == Read_RHR(p)
         IN  Sound(q) /\ Counted(q) /\ ToldRx(q) /\ ToldErrors(q) /\ OnlyReceives(p, q)
<1> DEFINE next == Taken(p)
           shown == IF next.rx > 0 /\ p.fifo /\ Head(Rest(p)) THEN ErrorShown(next) ELSE next
           quiet == clear(shown, "TIMEOUT")
           taken == IF quiet.rx < p.threshold THEN clear(quiet, "RX") ELSE quiet
           off == removeEvent(taken, "RX_TIMEOUT")
           last == IF off.rx > 0 THEN setEvent(off, "RX_TIMEOUT") ELSE off
<1> SUFFICES /\ Sound(last) /\ Counted(last) /\ ToldRx(last) /\ ToldErrors(last)
             /\ OnlyReceives(p, last)
  <2>1. TakeByte(p) = taken
    BY Zenon DEF TakeByte, Taken, Rest, FirstError
  <2> HIDE DEF taken
  <2>2. Read_RHR(p) = last
    BY <2>1, Zenon DEF Read_RHR
  <2> QED
    BY <2>2, Zenon
<1>1. /\ Sound(next) /\ OnlyReceives(p, next) /\ Counted(next) /\ ToldErrors(next)
  BY ByteIsTaken DEF ToldErrors
<1> HIDE DEF next
<1>2. /\ Sound(shown) /\ OnlyReceives(p, shown) /\ Counted(shown) /\ ToldErrors(shown)
  <2>1. CASE next.rx > 0 /\ p.fifo /\ Head(Rest(p))
    <3>1. shown = ErrorShown(next)
      BY <2>1
    <3> HIDE DEF shown
    <3> QED
      BY <1>1, <3>1, ErrorIsShown, OnlyReceivesChain DEF Counted, Tallied
  <2>2. CASE ~(next.rx > 0 /\ p.fifo /\ Head(Rest(p)))
    BY <1>1, <2>2
  <2> QED
    BY <2>1, <2>2
<1> HIDE DEF shown
<1>3. /\ Sound(quiet) /\ OnlyReceives(p, quiet) /\ Counted(quiet) /\ ToldErrors(quiet)
  BY <1>2, ReceiverClears, ReceiverFields, OnlyReceivesChain
     DEF Counted, Tallied, ToldErrors, Sound
<1> HIDE DEF quiet
<1>4. /\ Sound(taken) /\ OnlyReceives(p, taken) /\ Counted(taken) /\ ToldErrors(taken)
  <2>1. CASE quiet.rx < p.threshold
    <3>1. taken = clear(quiet, "RX")
      BY <2>1
    <3> HIDE DEF taken
    <3> QED
      BY <1>3, <3>1, ReceiverClears, ReceiverFields, OnlyReceivesChain
         DEF Counted, Tallied, ToldErrors, Sound
  <2>2. CASE ~(quiet.rx < p.threshold)
    BY <1>3, <2>2
  <2> QED
    BY <2>1, <2>2
<1> HIDE DEF taken
<1>5. /\ Sound(off) /\ OnlyReceives(p, off) /\ Counted(off) /\ ToldErrors(off)
  BY <1>4, TimeoutRemoved, ReceiverFields, OnlyReceivesChain DEF Counted, Tallied, ToldErrors
<1> HIDE DEF off
<1>6. CASE off.rx > 0
  <2>1. last = setEvent(off, "RX_TIMEOUT")
    BY <1>6
  <2> HIDE DEF last
  <2> QED
    BY <1>5, <2>1, TimeoutSet, ReceiverFields, OnlyReceivesChain
       DEF Counted, Tallied, ToldErrors, ToldRx
<1>7. CASE ~(off.rx > 0)
  <2>1. last = off
    BY <1>7
  <2> HIDE DEF last
  <2> QED
    BY <1>5, <1>7, <2>1 DEF ToldRx
<1> QED
  BY <1>6, <1>7

(***************************************************************************)
(* The transmitter.                                                        *)
(***************************************************************************)
Due(p) == p.due["THR"] + p.due["TX"] + p.due["THR_LOOPBACK"] + p.due["TX_LOOPBACK"]

(* What TxGoesOn says, and which of the events is due while a byte warms   *)
(* up.                                                                     *)
Goes(p) ==
  /\ Due(p) = IF p.TX_EMPTY THEN 0 ELSE 1
  /\ p.TX_EMPTY => p.tx = 0 /\ ~p.guard
  /\ p.guard => p.due["THR"] + p.due["THR_LOOPBACK"] = 1

(* What GuardHoldsByte says.                                               *)
Held(p) == p.owed >= 0 /\ p.tx = p.owed + IF p.guard THEN 1 ELSE 0

(* What the transmitter leaves alone.                                      *)
OnlySends(p, q) ==
  /\ Receiver(q) = Receiver(p) /\ Modem(q) = Modem(p) /\ q.IER = p.IER
  /\ \A c \in CauseSet \ {"TX"} : c \in q.waiting <=> c \in p.waiting
  /\ q.due["RX_TIMEOUT"] = p.due["RX_TIMEOUT"]

LEMMA OnlySendsChain ==
  ASSUME NEW p, NEW q, NEW r, OnlySends(p, q), OnlySends(q, r)
  PROVE  OnlySends(p, r)
BY DEF OnlySends

(* The fields of the transmitter, one by one.                              *)
LEMMA TransmitterFields ==
  ASSUME NEW p, NEW q, Transmitter(q) = Transmitter(p)
  PROVE  /\ q.tx = p.tx /\ q.guard = p.guard /\ q.TX_EMPTY = p.TX_EMPTY
         /\ q.owed = p.owed /\ q.untold = p.untold
BY DEF Transmitter

LEMMA NoneOfFour == \A a, b, c, d \in Nat : a + b + c + d = 0 => a = 0 /\ b = 0 /\ c = 0 /\ d = 0
OBVIOUS

LEMMA TransmitterRises ==
  ASSUME NEW p, Sound(p)
  PROVE  LET q == rise(p, "TX")
         IN  /\ Sound(q) /\ OnlySends(p, q) /\ ToldTx(q) /\ q.due = p.due
             /\ Transmitter(q) = Transmitter(p)
<1>1. "TX" \in CauseSet /\ p \in PortState /\ Wired(p)
  BY DEF CauseSet, Sound
<1> QED
  BY <1>1, Rises DEF OnlySends, ToldTx

LEMMA TransmitterClears ==
  ASSUME NEW p, Sound(p)
  PROVE  LET q == clear(p, "TX")
         IN  /\ Sound(q) /\ OnlySends(p, q) /\ q.due = p.due
             /\ Transmitter(q) = Transmitter(p)
<1>1. "TX" \in CauseSet /\ p \in PortState /\ Wired(p)
  BY DEF CauseSet, Sound
<1> QED
  BY <1>1, Clears DEF OnlySends

LEMMA SendingSet ==
  ASSUME NEW p, Sound(p), NEW e \in Sending
  PROVE  LET q == setEvent(p, e)
         IN  /\ Sound(q) /\ OnlySends(p, q) /\ Transmitter(q) = Transmitter(p)
             /\ q.waiting = p.waiting /\ Due(q) = Due(p) + 1 /\ Due(p) \in Nat
             /\ e \in {"THR", "THR_LOOPBACK"} =>
                  q.due["THR"] + q.due["THR_LOOPBACK"] =
                    p.due["THR"] + p.due["THR_LOOPBACK"] + 1
<1>1. e \in Events /\ e # "RX_TIMEOUT"
  BY DEF Events, Sending
<1>2. p.due \in [Events -> Nat]
  BY DEF Sound, PortState
<1> DEFINE q == setEvent(p, e)
<1>3. /\ Sound(q) /\ q.IER = p.IER /\ q.waiting = p.waiting
      /\ q.due = [p.due EXCEPT ![e] = p.due[e] + 1]
      /\ Receiver(q) = Receiver(p) /\ Transmitter(q) = Transmitter(p) /\ Modem(q) = Modem(p)
  BY <1>1, SetEvent
<1> HIDE DEF q
<1>4. \A f \in Events : q.due[f] = p.due[f] + (IF f = e THEN 1 ELSE 0) /\ p.due[f] \in Nat
  BY <1>2, <1>3
<1>5. Due(q) = Due(p) + 1 /\ Due(p) \in Nat /\ q.due["RX_TIMEOUT"] = p.due["RX_TIMEOUT"]
  BY <1>1, <1>4, EventsAre DEF Due, Sending
<1>6. e \in {"THR", "THR_LOOPBACK"} =>
        q.due["THR"] + q.due["THR_LOOPBACK"] = p.due["THR"] + p.due["THR_LOOPBACK"] + 1
  BY <1>4, EventsAre
<1> QED
  BY <1>3, <1>5, <1>6 DEF OnlySends, q

LEMMA Transmitting ==
  ASSUME NEW p, Sound(p), ToldTx(p)
  PROVE  LET q == ByteTransmitting(p)
         IN  /\ Sound(q) /\ OnlySends(p, q) /\ ToldTx(q) /\ q.due = p.due
             /\ ~q.guard /\ q.TX_EMPTY = p.TX_EMPTY
             /\ Held(p) => Held(q)
<1> DEFINE k == IF p.tx = 0 THEN 0 ELSE p.tx - 1
           gone == IF p.guard THEN [p EXCEPT !.guard = FALSE, !.tx = k] ELSE p
           q == IF gone.tx = 0 THEN rise(gone, "TX") ELSE gone
<1>1. /\ p \in PortState /\ p.tx \in 0 .. FifoSize /\ FifoSize \in Nat
      /\ p.guard \in BOOLEAN /\ p.owed \in Int
  BY FifoAssumption DEF Sound, PortState
<1>2. Max({p.tx - 1, 0}) = k /\ k \in 0 .. FifoSize
  BY <1>1, MaxOfTwo
<1> SUFFICES /\ Sound(q) /\ OnlySends(p, q) /\ ToldTx(q) /\ q.due = p.due
             /\ ~q.guard /\ q.TX_EMPTY = p.TX_EMPTY
             /\ Held(p) => Held(q)
  <2> DEFINE less == IF p.guard THEN [p EXCEPT !.guard = FALSE, !.tx = Max({@ - 1, 0})] ELSE p
  <2>1. ByteTransmitting(p) = IF less.tx = 0 THEN rise(less, "TX") ELSE less
    BY Zenon DEF ByteTransmitting
  <2>2. less = gone
    BY <1>2
  <2> HIDE DEF less, gone
  <2>3. ByteTransmitting(p) = q
    BY <2>1, <2>2, Zenon
  <2> QED
    BY <2>3
<1> HIDE DEF k
<1>3. /\ Sound(gone) /\ OnlySends(p, gone) /\ gone.due = p.due /\ gone.waiting = p.waiting
      /\ gone.TX_EMPTY = p.TX_EMPTY /\ ~gone.guard /\ gone.owed = p.owed
      /\ gone.tx = IF p.guard THEN k ELSE p.tx
  <2>1. CASE p.guard
    BY <1>1, <1>2, <2>1 DEF Sound, PortState, Wired, Settled, Val, OnlySends, Receiver, Modem
  <2>2. CASE ~p.guard
    BY <2>2 DEF OnlySends
  <2> QED
    BY <2>1, <2>2
<1> HIDE DEF gone
<1>4. Held(p) => Held(gone)
  BY <1>1, <1>3 DEF Held, k
<1>5. CASE gone.tx = 0
  <2>1. q = rise(gone, "TX")
    BY <1>5
  <2> HIDE DEF q
  <2> QED
    BY <1>3, <1>4, <2>1, TransmitterRises, TransmitterFields, OnlySendsChain DEF Held
<1>6. CASE gone.tx # 0
  <2>1. q = gone
    BY <1>6
  <2> HIDE DEF q
  <2> QED
    BY <1>3, <1>4, <1>6, <2>1 DEF ToldTx
<1> QED
  BY <1>5, <1>6

LEMMA Transmitted ==
  ASSUME NEW p, Sound(p), ToldTx(p), Due(p) = 0, ~p.TX_EMPTY, ~p.guard
  PROVE  LET q == ByteTransmitted(p)
         IN  /\ Sound(q) /\ OnlySends(p, q) /\ ToldTx(q) /\ Goes(q)
             /\ Held(p) => Held(q)
<1> DEFINE q == ByteTransmitted(p)
<1> SUFFICES /\ Sound(q) /\ OnlySends(p, q) /\ ToldTx(q) /\ Goes(q)
             /\ Held(p) => Held(q)
  OBVIOUS
<1>1. /\ p \in PortState /\ p.tx \in 0 .. FifoSize /\ FifoSize \in Nat
      /\ p.guard \in BOOLEAN /\ p.owed \in Int
  BY FifoAssumption DEF Sound, PortState
<1>2. CASE p.tx = 0
  <2>1. q = [p EXCEPT !.TX_EMPTY = TRUE]
    BY <1>2 DEF ByteTransmitted
  <2> HIDE DEF q
  <2>2. /\ Sound(q) /\ OnlySends(p, q) /\ q.due = p.due /\ q.waiting = p.waiting
        /\ q.tx = p.tx /\ q.guard = p.guard /\ q.owed = p.owed /\ q.untold = p.untold
        /\ q.TX_EMPTY
    BY <2>1 DEF Sound, PortState, Wired, Settled, Val, OnlySends, Receiver, Modem
  <2> QED
    BY <1>1, <1>2, <2>2 DEF Goes, Due, Held, ToldTx
<1>3. CASE p.tx # 0
  <2> DEFINE e == IF p.loopback THEN "TX_LOOPBACK" ELSE "TX"
             k == p.tx - 1
             o == p.owed - 1
             less == [p EXCEPT !.tx = k, !.owed = o]
             sent == setEvent(less, e)
  <2>1. q = IF sent.tx = 0 THEN rise(sent, "TX") ELSE sent
    BY <1>3 DEF ByteTransmitted
  <2>2. e \in Sending
    BY DEF Sending
  <2>8. k \in 0 .. FifoSize /\ o \in Int
    BY <1>1, <1>3
  <2> HIDE DEF k, o
  <2>3. /\ Sound(less) /\ OnlySends(p, less) /\ less.due = p.due /\ less.waiting = p.waiting
        /\ less.tx = k /\ less.owed = o /\ less.guard = p.guard
        /\ less.TX_EMPTY = p.TX_EMPTY
    BY <1>1, <2>8 DEF Sound, PortState, Wired, Settled, Val, OnlySends, Receiver, Modem
  <2>4. Held(p) => less.owed >= 0 /\ less.tx = less.owed
    BY <1>1, <1>3, <2>3 DEF Held, k, o
  <2> HIDE DEF less, e
  <2>5. /\ Sound(sent) /\ OnlySends(less, sent) /\ Due(sent) = 1
        /\ ~sent.guard /\ ~sent.TX_EMPTY /\ sent.owed = less.owed /\ sent.tx = less.tx
    BY <2>2, <2>3, SendingSet, TransmitterFields DEF Due
  <2> HIDE DEF sent, q
  <2>9. OnlySends(p, sent) /\ (Held(p) => Held(sent)) /\ Goes(sent)
    BY <2>3, <2>4, <2>5, <2>8, OnlySendsChain DEF Held, Goes
  <2>6. CASE sent.tx = 0
    BY <2>1, <2>5, <2>9, <2>6, TransmitterRises, TransmitterFields, OnlySendsChain
       DEF Held, Goes, Due
  <2>7. CASE sent.tx # 0
    BY <2>1, <2>5, <2>9, <2>7 DEF ToldTx
  <2> QED
    BY <2>6, <2>7
<1> QED
  BY <1>2, <1>3

LEMMA WriteByte ==
  ASSUME NEW p, Sound(p), Goes(p)
  PROVE  LET q == Write_THR(p)
         IN  /\ Sound(q) /\ OnlySends(p, q) /\ ToldTx(q) /\ Goes(q)
             /\ Held(p) => Held(q)
<1> DEFINE q == Write_THR(p)
           heard == [p EXCEPT !.untold = TRUE]
           quiet == clear(heard, "TX")
<1> SUFFICES /\ Sound(q) /\ OnlySends(p, q) /\ ToldTx(q) /\ Goes(q)
             /\ Held(p) => Held(q)
  OBVIOUS
<1>1. /\ p \in PortState /\ p.tx \in 0 .. FifoSize /\ FifoSize \in Nat
      /\ p.guard \in BOOLEAN /\ p.owed \in Int /\ Size(p) \in 1 .. FifoSize
  BY FifoAssumption, SizeIs DEF Sound, PortState
<1>2. /\ Sound(heard) /\ OnlySends(p, heard) /\ heard.due = p.due
      /\ heard.tx = p.tx /\ heard.guard = p.guard /\ heard.owed = p.owed
      /\ heard.TX_EMPTY = p.TX_EMPTY
  BY DEF Sound, PortState, Wired, Settled, Val, OnlySends, Receiver, Modem
<1>3. q = IF p.TX_EMPTY
          THEN setEvent([quiet EXCEPT !.guard = TRUE, !.tx = Min({@ + 1, Size(p)}),
                                      !.TX_EMPTY = FALSE],
                        IF p.loopback THEN "THR_LOOPBACK" ELSE "THR")
          ELSE IF p.tx < Size(p) THEN [quiet EXCEPT !.tx = @ + 1, !.owed = @ + 1]
          ELSE quiet
  BY Zenon DEF Write_THR
<1> HIDE DEF heard
<1>4. /\ Sound(quiet) /\ OnlySends(p, quiet) /\ quiet.due = p.due
      /\ quiet.tx = p.tx /\ quiet.guard = p.guard /\ quiet.owed = p.owed
      /\ quiet.TX_EMPTY = p.TX_EMPTY
  BY <1>2, TransmitterClears, TransmitterFields, OnlySendsChain
<1> HIDE DEF quiet, q
<1>5. CASE p.TX_EMPTY
  <2> DEFINE e == IF p.loopback THEN "THR_LOOPBACK" ELSE "THR"
             warm == [quiet EXCEPT !.guard = TRUE, !.tx = 1, !.TX_EMPTY = FALSE]
  <2>1. Min({quiet.tx + 1, Size(p)}) = 1 /\ p.tx = 0 /\ ~p.guard /\ Due(p) = 0
    BY <1>1, <1>4, <1>5, MinOfTwo DEF Goes
  <2>2. q = setEvent(warm, e)
    BY <1>3, <1>5, <2>1
  <2>3. e \in Sending /\ e \in {"THR", "THR_LOOPBACK"}
    BY DEF Sending
  <2>7. 1 \in 0 .. FifoSize
    BY <1>1
  <2>4. /\ Sound(warm) /\ OnlySends(quiet, warm) /\ warm.due = p.due
        /\ warm.tx = 1 /\ warm.guard /\ ~warm.TX_EMPTY /\ warm.owed = p.owed
    BY <1>4, <2>7 DEF Sound, PortState, Wired, Settled, Val, OnlySends, Receiver, Modem
  <2>5. Due(warm) = 0 /\ warm.due["THR"] + warm.due["THR_LOOPBACK"] = 0
    <3>1. /\ p.due["THR"] \in Nat /\ p.due["TX"] \in Nat
          /\ p.due["THR_LOOPBACK"] \in Nat /\ p.due["TX_LOOPBACK"] \in Nat
      BY <1>1, EventsAre DEF PortState
    <3>2. Due(p) = 0 /\ warm.due = p.due
      BY <2>1, <2>4
    <3> HIDE DEF warm
    <3>3. p.due["THR"] = 0 /\ p.due["THR_LOOPBACK"] = 0
      BY <3>1, <3>2, NoneOfFour, Zenon DEF Due
    <3>4. Due(warm) = Due(p)
      BY <3>2, Zenon DEF Due
    <3>5. warm.due["THR"] = p.due["THR"] /\ warm.due["THR_LOOPBACK"] = p.due["THR_LOOPBACK"]
      BY <3>2, Zenon
    <3> QED
      BY <3>2, <3>3, <3>4, <3>5
  <2> HIDE DEF e, warm
  <2>6. /\ Sound(q) /\ OnlySends(warm, q) /\ Due(q) = 1
        /\ q.due["THR"] + q.due["THR_LOOPBACK"] = 1
        /\ q.tx = 1 /\ q.guard /\ ~q.TX_EMPTY /\ q.owed = p.owed
    BY <2>2, <2>3, <2>4, <2>5, SendingSet, TransmitterFields
  <2> QED
    BY <1>1, <1>4, <2>1, <2>4, <2>6, OnlySendsChain DEF Goes, ToldTx, Held
<1>6. CASE ~p.TX_EMPTY /\ p.tx < Size(p)
  <2> DEFINE k == p.tx + 1
             o == p.owed + 1
  <2>1. q = [quiet EXCEPT !.tx = k, !.owed = o]
    BY <1>3, <1>4, <1>6
  <2>3. k \in 0 .. FifoSize /\ o \in Int
    BY <1>1, <1>6
  <2> HIDE DEF k, o
  <2>2. /\ Sound(q) /\ OnlySends(quiet, q) /\ q.due = p.due
        /\ q.tx = k /\ q.guard = p.guard /\ q.TX_EMPTY = p.TX_EMPTY
        /\ q.owed = o
    BY <1>4, <2>1, <2>3
       DEF Sound, PortState, Wired, Settled, Val, OnlySends, Receiver, Modem
  <2> QED
    BY <1>1, <1>4, <1>6, <2>2, OnlySendsChain DEF Goes, Due, ToldTx, Held, k, o
<1>7. CASE ~p.TX_EMPTY /\ ~(p.tx < Size(p))
  <2>1. q = quiet
    BY <1>3, <1>7
  <2> QED
    BY <1>1, <1>4, <1>7, <2>1, OnlySendsChain DEF Goes, Due, ToldTx, Held
<1> QED
  BY <1>5, <1>6, <1>7

(***************************************************************************)
(* What every operation keeps.  Changed lines stay told of and the fifo    *)
(* exact only where no program undoes it.                                  *)
(***************************************************************************)
Good(p) ==
  /\ Sound(p) /\ Counted(p) /\ Goes(p)
  /\ ToldRx(p) /\ ToldErrors(p) /\ ToldTx(p)

Keeps(p, q) ==
  /\ Good(q)
  /\ ToldLines(p) => ToldLines(q)
  /\ Held(p) => Held(q)

LEMMA ReceivedKeeps ==
  ASSUME NEW p, Good(p), NEW q, OnlyReceives(p, q),
         Sound(q), Counted(q), ToldRx(q), ToldErrors(q)
  PROVE  Keeps(p, q)
<1>1. Due(q) = Due(p) /\ q.due["THR"] + q.due["THR_LOOPBACK"] = p.due["THR"] + p.due["THR_LOOPBACK"]
  BY DEF OnlyReceives, Sending, Due
<1>2. q.delta = p.delta
  BY DEF OnlyReceives, Modem
<1>3. /\ q.tx = p.tx /\ q.guard = p.guard /\ q.TX_EMPTY = p.TX_EMPTY
      /\ q.owed = p.owed /\ q.untold = p.untold
  BY TransmitterFields DEF OnlyReceives
<1> QED
  BY <1>1, <1>2, <1>3 DEF Keeps, Good, Goes, ToldTx, ToldLines, Held, OnlyReceives

LEMMA SentKeeps ==
  ASSUME NEW p, Good(p), NEW q, OnlySends(p, q),
         Sound(q), Goes(q), ToldTx(q), Held(p) => Held(q)
  PROVE  Keeps(p, q)
<1>1. /\ q.fifo = p.fifo /\ q.rx = p.rx /\ q.errors = p.errors
      /\ q.errors_in_fifo = p.errors_in_fifo /\ q.LSR_ERROR = p.LSR_ERROR
  BY ReceiverFields DEF OnlySends
<1>2. q.delta = p.delta
  BY DEF OnlySends, Modem
<1>3. \A c \in {"RX", "TIMEOUT", "ERROR", "MSR"} : c \in q.waiting <=> c \in p.waiting
  BY DEF OnlySends, CauseSet
<1>4. q.due["RX_TIMEOUT"] = p.due["RX_TIMEOUT"]
  BY DEF OnlySends
<1>5. Counted(q) /\ ToldErrors(q) /\ (ToldLines(p) => ToldLines(q))
  BY <1>1, <1>2, <1>3 DEF Good, Counted, Tallied, ToldErrors, ToldLines
<1>6. ToldRx(q)
  BY <1>1, <1>3, <1>4 DEF Good, ToldRx
<1> QED
  BY <1>5, <1>6 DEF Keeps, Good

LEMMA FiredKeeps ==
  ASSUME NEW p, Good(p), NEW e \in Events, p.due[e] > 0
  PROVE  Keeps(p, handleEvent([p EXCEPT !.due[e] = @ - 1], e))
<1> DEFINE n == p.due[e] - 1
           r == [p EXCEPT !.due[e] = n]
           q == handleEvent(r, e)
<1> SUFFICES Keeps(p, q)
  OBVIOUS
<1>1. n \in Nat /\ p.due \in [Events -> Nat]
  BY DEF Good, Sound, PortState
<1>2. /\ Sound(r) /\ r.IER = p.IER /\ r.waiting = p.waiting
      /\ r.due = [p.due EXCEPT ![e] = n]
      /\ Receiver(r) = Receiver(p) /\ Transmitter(r) = Transmitter(p) /\ Modem(r) = Modem(p)
  BY <1>1, Sets DEF Good
<1>3. \A f \in Events : r.due[f] = p.due[f] - (IF f = e THEN 1 ELSE 0) /\ p.due[f] \in Nat
  BY <1>1, <1>2
<1>4. Counted(r) /\ ToldErrors(r) /\ ToldTx(r)
  BY <1>2, ReceiverFields, TransmitterFields DEF Good, Counted, Tallied, ToldErrors, ToldTx
<1> HIDE DEF n, r
<1>5. CASE e = "RX_TIMEOUT"
  <2>1. q = rise(r, "TIMEOUT")
    BY <1>5 DEF handleEvent
  <2>2. OnlyReceives(p, r)
    BY <1>2, <1>3, <1>5, EventsAre DEF OnlyReceives, Sending
  <2> HIDE DEF q
  <2>3. /\ Sound(q) /\ OnlyReceives(r, q) /\ Receiver(q) = Receiver(r)
        /\ q.waiting = r.waiting \cup {"TIMEOUT"}
    BY <1>2, <2>1, ReceiverRises DEF Sound
  <2>4. Counted(q) /\ ToldErrors(q) /\ ToldRx(q)
    BY <1>4, <2>3, ReceiverFields DEF Counted, Tallied, ToldErrors, ToldRx
  <2> QED
    BY <2>2, <2>3, <2>4, OnlyReceivesChain, ReceivedKeeps
<1>6. CASE e # "RX_TIMEOUT"
  <2>1. e \in Sending /\ OnlySends(p, r)
    BY <1>2, <1>3, <1>6, EventsAre DEF OnlySends, Sending
  <2>2. Due(r) = Due(p) - 1 /\ Due(r) \in Nat
    <3>1. \A f \in Sending : f \in Events
      BY DEF Events
    <3>2. /\ r.due["THR"] = p.due["THR"] - (IF "THR" = e THEN 1 ELSE 0)
          /\ r.due["TX"] = p.due["TX"] - (IF "TX" = e THEN 1 ELSE 0)
          /\ r.due["THR_LOOPBACK"] = p.due["THR_LOOPBACK"] - (IF "THR_LOOPBACK" = e THEN 1 ELSE 0)
          /\ r.due["TX_LOOPBACK"] = p.due["TX_LOOPBACK"] - (IF "TX_LOOPBACK" = e THEN 1 ELSE 0)
      BY <1>3, <3>1 DEF Sending
    <3>3. /\ p.due["THR"] \in Nat /\ p.due["TX"] \in Nat
          /\ p.due["THR_LOOPBACK"] \in Nat /\ p.due["TX_LOOPBACK"] \in Nat
      BY <1>3, <3>1 DEF Sending
    <3>4. e \in {"THR", "TX", "THR_LOOPBACK", "TX_LOOPBACK"}
      BY <2>1 DEF Sending
    <3> QED
      BY <3>2, <3>3, <3>4 DEF Due
  <2>3. Due(p) = 1 /\ ~p.TX_EMPTY /\ Due(r) = 0 /\ ~r.TX_EMPTY
    BY <1>2, <2>2, TransmitterFields DEF Good, Goes
  <2>4. r.due["THR"] = 0 /\ r.due["TX"] = 0 /\ r.due["THR_LOOPBACK"] = 0 /\ r.due["TX_LOOPBACK"] = 0
    <3>1. \A f \in Sending : r.due[f] \in Nat
      BY <1>2 DEF Sound, PortState, Events
    <3> QED
      BY <2>3, <3>1, NoneOfFour, Zenon DEF Due, Sending
  <2>5. e \in {"TX", "TX_LOOPBACK"} => ~r.guard
    <3>1. e \in {"TX", "TX_LOOPBACK"} => p.due["THR"] = 0 /\ p.due["THR_LOOPBACK"] = 0
      <4>1. \A f \in {"THR", "THR_LOOPBACK"} :
              r.due[f] = p.due[f] - (IF f = e THEN 1 ELSE 0) /\ p.due[f] \in Nat /\ r.due[f] = 0
        BY <1>3, <2>4, EventsAre
      <4>2. e \in {"TX", "TX_LOOPBACK"} =>
              \A f \in {"THR", "THR_LOOPBACK"} : (IF f = e THEN 1 ELSE 0) = 0
        OBVIOUS
      <4>3. e \in {"TX", "TX_LOOPBACK"} => \A f \in {"THR", "THR_LOOPBACK"} : p.due[f] = 0
        BY <4>1, <4>2
      <4> QED
        BY <4>3
    <3> QED
      BY <1>2, <3>1, TransmitterFields DEF Good, Goes
  <2>6. Held(p) => Held(r)
    BY <1>2, TransmitterFields DEF Held
  <2>7. CASE e \in {"THR", "THR_LOOPBACK"}
    <3> DEFINE f == IF e = "THR" THEN "TX" ELSE "TX_LOOPBACK"
               sent == ByteTransmitting(r)
    <3>1. q = setEvent(sent, f) /\ f \in Sending
      BY <2>7 DEF handleEvent, Sending
    <3>2. /\ Sound(sent) /\ OnlySends(r, sent) /\ ToldTx(sent) /\ sent.due = r.due
          /\ ~sent.guard /\ sent.TX_EMPTY = r.TX_EMPTY /\ (Held(r) => Held(sent))
      BY <1>2, <1>4, Transmitting
    <3> HIDE DEF q, sent, f
    <3>3. /\ Sound(q) /\ OnlySends(sent, q) /\ Transmitter(q) = Transmitter(sent)
          /\ q.waiting = sent.waiting /\ Due(q) = Due(sent) + 1
      BY <3>1, <3>2, SendingSet
    <3>4. Due(sent) = 0
      BY <2>3, <3>2 DEF Due
    <3>5. Goes(q) /\ ToldTx(q) /\ (Held(p) => Held(q))
      BY <2>3, <2>6, <3>2, <3>3, <3>4, TransmitterFields DEF Goes, ToldTx, Held
    <3> QED
      BY <2>1, <3>2, <3>3, <3>5, OnlySendsChain, SentKeeps
  <2>8. CASE e = "TX"
    <3>1. q = ByteTransmitted(r)
      BY <2>8 DEF handleEvent
    <3> HIDE DEF q
    <3> QED
      BY <1>2, <1>4, <2>1, <2>3, <2>5, <2>6, <2>8, <3>1, Transmitted, OnlySendsChain, SentKeeps
  <2>9. CASE e = "TX_LOOPBACK"
    <3> DEFINE got == receiveByteEx(r, FALSE)
    <3>1. q = ByteTransmitted(got)
      BY <2>9 DEF handleEvent
    <3>2. /\ Sound(got) /\ Counted(got) /\ ToldRx(got) /\ ToldErrors(got)
          /\ OnlyReceives(r, got)
      BY <1>2, <1>4, ReceiveByte
    <3> HIDE DEF got, q
    <3>3. /\ got.tx = r.tx /\ got.guard = r.guard /\ got.TX_EMPTY = r.TX_EMPTY
          /\ got.owed = r.owed /\ got.untold = r.untold /\ got.delta = p.delta
      BY <1>2, <3>2, TransmitterFields DEF OnlyReceives, Modem
    <3>4. Due(got) = Due(r)
      BY <3>2 DEF OnlyReceives, Sending, Due
    <3>5. ToldTx(got) /\ (Held(r) => Held(got)) /\ (ToldLines(p) => ToldLines(got))
      BY <1>2, <1>4, <3>2, <3>3 DEF ToldTx, Held, OnlyReceives, ToldLines
    <3>6. Sound(q) /\ OnlySends(got, q) /\ ToldTx(q) /\ Goes(q) /\ (Held(got) => Held(q))
      BY <2>3, <2>5, <2>9, <3>1, <3>2, <3>3, <3>4, <3>5, Transmitted
    <3>7. /\ q.fifo = got.fifo /\ q.rx = got.rx /\ q.errors = got.errors
          /\ q.errors_in_fifo = got.errors_in_fifo /\ q.LSR_ERROR = got.LSR_ERROR
          /\ q.delta = got.delta
      BY <3>6, ReceiverFields DEF OnlySends, Modem
    <3>8. /\ \A c \in {"RX", "TIMEOUT", "ERROR", "MSR"} : c \in q.waiting <=> c \in got.waiting
          /\ q.due["RX_TIMEOUT"] = got.due["RX_TIMEOUT"]
      BY <3>6 DEF OnlySends, CauseSet
    <3>9. Counted(q) /\ ToldErrors(q) /\ (ToldLines(got) => ToldLines(q))
      BY <3>2, <3>7, <3>8 DEF Counted, Tallied, ToldErrors, ToldLines
    <3>10. ToldRx(q)
      BY <3>2, <3>7, <3>8 DEF ToldRx
    <3> QED
      BY <2>6, <3>5, <3>6, <3>9, <3>10 DEF Keeps, Good
  <2> QED
    BY <2>1, <2>7, <2>8, <2>9 DEF Sending
<1> QED
  BY <1>5, <1>6

(***************************************************************************)
(* The registers.                                                          *)
(***************************************************************************)
LEMMA EnableKeeps ==
  ASSUME NEW p, Good(p), NEW data \in SUBSET {"RX", "TX", "ERROR", "MSR"}
  PROVE  Keeps(p, Write_IER(p, data))
<1> DEFINE w == IF p.tx = 0 /\ "TX" \in data THEN p.waiting \cup {"TX"} ELSE p.waiting
           i == IF p.fifo /\ "RX" \in data THEN data \cup {"TIMEOUT"} ELSE data
           r == [p EXCEPT !.waiting = w, !.IER = i]
           q == ComputeInterrupts(r)
<1>1. Write_IER(p, data) = q
  BY DEF Write_IER
<1>2. w \in SUBSET CauseSet /\ i \in SUBSET CauseSet /\ p.waiting \subseteq w
  BY DEF Good, Sound, PortState, CauseSet
<1> HIDE DEF w, i
<1>3. /\ r \in PortState /\ Wired(r) /\ r.waiting = w /\ r.due = p.due
      /\ Receiver(r) = Receiver(p) /\ Transmitter(r) = Transmitter(p) /\ Modem(r) = Modem(p)
  BY <1>2 DEF Good, Sound, PortState, Wired, Receiver, Transmitter, Modem
<1> HIDE DEF r
<1>4. /\ Sound(q) /\ q.waiting = w /\ q.due = p.due
      /\ Receiver(q) = Receiver(p) /\ Transmitter(q) = Transmitter(p) /\ Modem(q) = Modem(p)
  BY <1>3, Computes
<1> HIDE DEF q
<1>5. q.delta = p.delta
  BY <1>4 DEF Modem
<1>6. Keeps(p, q)
  BY <1>2, <1>4, <1>5, ReceiverFields, TransmitterFields
     DEF Keeps, Good, Counted, Tallied, Goes, Due, ToldRx, ToldErrors, ToldTx, ToldLines, Held
<1> QED
  BY <1>1, <1>6

LEMMA IsrKeeps ==
  ASSUME NEW p, Good(p)
  PROVE  Keeps(p, Read_ISR(p))
<1> DEFINE r == [p EXCEPT !.untold = FALSE]
           q == clear(r, "TX")
<1>1. CASE p.ISR = "TX"
  <2>1. Read_ISR(p) = q
    BY <1>1 DEF Read_ISR
  <2>2. /\ Sound(r) /\ OnlySends(p, r) /\ r.due = p.due /\ ~r.untold
        /\ r.tx = p.tx /\ r.guard = p.guard /\ r.TX_EMPTY = p.TX_EMPTY /\ r.owed = p.owed
    BY DEF Good, Sound, PortState, Wired, Settled, Val, OnlySends, Receiver, Modem
  <2> HIDE DEF r
  <2>3. /\ Sound(q) /\ OnlySends(r, q) /\ q.due = r.due /\ Transmitter(q) = Transmitter(r)
    BY <2>2, TransmitterClears
  <2> HIDE DEF q
  <2>4. Goes(q) /\ ToldTx(q) /\ (Held(p) => Held(q))
    BY <2>2, <2>3, TransmitterFields DEF Good, Goes, Due, ToldTx, Held
  <2> QED
    BY <2>1, <2>2, <2>3, <2>4, OnlySendsChain, SentKeeps
<1>2. CASE p.ISR # "TX"
  <2>1. Read_ISR(p) = p
    BY <1>2 DEF Read_ISR
  <2> QED
    BY <2>1 DEF Keeps
<1> QED
  BY <1>1, <1>2

LEMMA LsrKeeps ==
  ASSUME NEW p, Good(p)
  PROVE  Keeps(p, Read_LSR(p))
<1> DEFINE r == [p EXCEPT !.LSR_ERROR = FALSE]
           q == clear(r, "ERROR")
<1>1. Read_LSR(p) = q
  BY DEF Read_LSR
<1>2. /\ Sound(r) /\ OnlyReceives(p, r) /\ r.waiting = p.waiting /\ r.due = p.due
      /\ r.fifo = p.fifo /\ r.rx = p.rx /\ r.errors = p.errors
      /\ r.errors_in_fifo = p.errors_in_fifo /\ ~r.LSR_ERROR
  BY DEF Good, Sound, PortState, Wired, Settled, Val, OnlyReceives, Transmitter, Modem
<1> HIDE DEF r
<1>3. /\ Sound(q) /\ OnlyReceives(r, q) /\ Receiver(q) = Receiver(r)
      /\ q.waiting = r.waiting \ {"ERROR"} /\ q.due = r.due
  BY <1>2, ReceiverClears DEF Sound
<1> HIDE DEF q
<1>4. Counted(q) /\ ToldErrors(q) /\ ToldRx(q)
  BY <1>2, <1>3, ReceiverFields DEF Good, Counted, Tallied, ToldErrors, ToldRx
<1> QED
  BY <1>1, <1>2, <1>3, <1>4, OnlyReceivesChain, ReceivedKeeps

(* Of the modem's lines, only which of them changed is of interest.        *)
LEMMA LinesKeep ==
  ASSUME NEW p, Good(p), NEW q, Sound(q), Receiver(q) = Receiver(p),
         Transmitter(q) = Transmitter(p), q.due = p.due,
         \A c \in CauseSet \ {"MSR"} : c \in q.waiting <=> c \in p.waiting
  PROVE  Good(q) /\ (Held(p) => Held(q))
<1>1. \A c \in {"RX", "TIMEOUT", "ERROR", "TX"} : c \in q.waiting <=> c \in p.waiting
  BY DEF CauseSet
<1>2. Counted(q) /\ Goes(q) /\ ToldErrors(q) /\ ToldTx(q) /\ (Held(p) => Held(q))
  BY <1>1, ReceiverFields, TransmitterFields
     DEF Good, Counted, Tallied, Goes, Due, ToldErrors, ToldTx, Held
<1>3. ToldRx(q)
  BY <1>1, ReceiverFields DEF Good, ToldRx
<1> QED
  BY <1>2, <1>3 DEF Good

LEMMA MsrKeeps ==
  ASSUME NEW p, Good(p)
  PROVE  Keeps(p, Read_MSR(p))
<1> DEFINE r == [p EXCEPT !.delta = {}]
           q == clear(r, "MSR")
<1>1. Read_MSR(p) = q
  BY DEF Read_MSR
<1>2. /\ r \in PortState /\ Wired(r) /\ r.waiting = p.waiting /\ r.due = p.due /\ r.delta = {}
      /\ Receiver(r) = Receiver(p) /\ Transmitter(r) = Transmitter(p)
  BY DEF Good, Sound, PortState, Wired, Receiver, Transmitter
<1> HIDE DEF r
<1>3. "MSR" \in CauseSet
  BY DEF CauseSet
<1>4. /\ Sound(q) /\ q.waiting = p.waiting \ {"MSR"} /\ q.due = p.due
      /\ Receiver(q) = Receiver(p) /\ Transmitter(q) = Transmitter(p) /\ Modem(q) = Modem(r)
  BY <1>2, <1>3, Clears
<1> HIDE DEF q
<1>5. q.delta = {}
  BY <1>2, <1>4 DEF Modem
<1> QED
  BY <1>1, <1>4, <1>5, LinesKeep DEF Keeps, ToldLines

LEMMA DeltasKeep ==
  ASSUME NEW p, Good(p), NEW deltas \in SUBSET ModemLines
  PROVE  LET q == Write_MSR(p, deltas)
         IN  Good(q) /\ (Held(p) => Held(q)) /\ (deltas = {} => ToldLines(q))
<1> DEFINE q == Write_MSR(p, deltas)
<1>1. /\ Sound(q) /\ q.waiting = p.waiting /\ q.due = p.due /\ q.delta = deltas
      /\ Receiver(q) = Receiver(p) /\ Transmitter(q) = Transmitter(p)
  BY DEF Write_MSR, Good, Sound, PortState, Wired, Settled, Val, Receiver, Transmitter
<1> HIDE DEF q
<1>2. Good(q) /\ (Held(p) => Held(q)) /\ (deltas = {} => ToldLines(q))
  BY <1>1, LinesKeep DEF ToldLines
<1> QED
  BY <1>2 DEF q

LEMMA LineKeeps ==
  ASSUME NEW p, Good(p), NEW l \in ModemLines
  PROVE  Keeps(p, SetLine(p, l))
<1> DEFINE up == SymDiff(p.up, {l})
           moved == [p EXCEPT !.up = up]
           delta == IF l = "ri" /\ l \notin p.up THEN p.delta ELSE p.delta \cup {l}
           r == [moved EXCEPT !.delta = delta]
           q == rise(r, "MSR")
<1>1. up \in SUBSET ModemLines /\ delta \in SUBSET ModemLines
  BY DEF Good, Sound, PortState, SymDiff
<1>2. SetLine(p, l) = IF p.loopback THEN moved ELSE q
  <2>1. moved.delta = p.delta
    BY DEF Good, Sound, PortState
  <2> DEFINE s == [p EXCEPT !.up = SymDiff(@, {l})]
             t == [s EXCEPT !.delta = IF l = "ri" /\ l \notin p.up THEN @ ELSE @ \cup {l}]
  <2>2. SetLine(p, l) = IF p.loopback THEN s ELSE rise(t, "MSR")
    BY Zenon DEF SetLine
  <2>3. s = moved
    OBVIOUS
  <2> HIDE DEF moved, s
  <2>4. t = r
    BY <2>1, <2>3
  <2> HIDE DEF t, r
  <2> QED
    BY <2>2, <2>3, <2>4
<1> HIDE DEF up, delta
<1>3. /\ Sound(moved) /\ moved.waiting = p.waiting /\ moved.due = p.due
      /\ moved.delta = p.delta
      /\ Receiver(moved) = Receiver(p) /\ Transmitter(moved) = Transmitter(p)
  BY <1>1 DEF Good, Sound, PortState, Wired, Settled, Val, Receiver, Transmitter
<1> HIDE DEF moved
<1>4. CASE p.loopback
  <2>1. SetLine(p, l) = moved
    BY <1>2, <1>4
  <2> QED
    BY <1>3, <2>1, LinesKeep DEF Keeps, ToldLines
<1>5. CASE ~p.loopback
  <2>1. SetLine(p, l) = q
    BY <1>2, <1>5
  <2>2. /\ r \in PortState /\ Wired(r) /\ r.waiting = p.waiting /\ r.due = p.due
        /\ Receiver(r) = Receiver(p) /\ Transmitter(r) = Transmitter(p)
    BY <1>1, <1>3 DEF Sound, PortState, Wired, Receiver, Transmitter
  <2> HIDE DEF r
  <2>3. "MSR" \in CauseSet
    BY DEF CauseSet
  <2>4. /\ Sound(q) /\ q.waiting = p.waiting \cup {"MSR"} /\ q.due = p.due
        /\ Receiver(q) = Receiver(p) /\ Transmitter(q) = Transmitter(p)
    BY <2>2, <2>3, Rises
  <2> HIDE DEF q
  <2> QED
    BY <2>1, <2>4, LinesKeep DEF Keeps, ToldLines
<1> QED
  BY <1>4, <1>5

Moved(p, line, dtr, op1, op2, loopback) ==
  [p EXCEPT !.line = line, !.dtr = dtr, !.op1 = op1, !.op2 = op2, !.loopback = loopback]

LEMMA LinesAreMoved ==
  ASSUME NEW p \in PortState, NEW line, NEW dtr, NEW op1, NEW op2, NEW loopback,
         {line, dtr, op1, op2, loopback} \subseteq BOOLEAN
  PROVE  LET q == Moved(p, line, dtr, op1, op2, loopback)
         IN  /\ q \in PortState /\ q.line = line /\ q.irq_active = p.irq_active
             /\ q.ISR = p.ISR /\ q.IER = p.IER /\ q.waiting = p.waiting /\ q.due = p.due
             /\ q.op2 = op2 /\ q.delta = p.delta
             /\ Receiver(q) = Receiver(p) /\ Transmitter(q) = Transmitter(p)
<1> DEFINE a == [p EXCEPT !.line = line, !.dtr = dtr]
           b == [a EXCEPT !.op1 = op1]
           c == [b EXCEPT !.op2 = op2]
           q == [c EXCEPT !.loopback = loopback]
<1>1. Moved(p, line, dtr, op1, op2, loopback) = q
  BY Zenon DEF Moved
<1>2. /\ a \in PortState /\ a.line = line /\ a.irq_active = p.irq_active
      /\ a.ISR = p.ISR /\ a.IER = p.IER /\ a.waiting = p.waiting /\ a.due = p.due
      /\ a.delta = p.delta
      /\ Receiver(a) = Receiver(p) /\ Transmitter(a) = Transmitter(p)
  BY DEF PortState, Receiver, Transmitter
<1> HIDE DEF a
<1>3. /\ b \in PortState /\ b.line = line /\ b.irq_active = p.irq_active
      /\ b.ISR = p.ISR /\ b.IER = p.IER /\ b.waiting = p.waiting /\ b.due = p.due
      /\ b.delta = p.delta
      /\ Receiver(b) = Receiver(p) /\ Transmitter(b) = Transmitter(p)
  BY <1>2 DEF PortState, Receiver, Transmitter
<1> HIDE DEF b
<1>5. /\ c \in PortState /\ c.line = line /\ c.irq_active = p.irq_active
      /\ c.ISR = p.ISR /\ c.IER = p.IER /\ c.waiting = p.waiting /\ c.due = p.due
      /\ c.op2 = op2 /\ c.delta = p.delta
      /\ Receiver(c) = Receiver(p) /\ Transmitter(c) = Transmitter(p)
  BY <1>3 DEF PortState, Receiver, Transmitter
<1> HIDE DEF c
<1>4. /\ q \in PortState /\ q.line = line /\ q.irq_active = p.irq_active
      /\ q.ISR = p.ISR /\ q.IER = p.IER /\ q.waiting = p.waiting /\ q.due = p.due
      /\ q.op2 = op2 /\ q.delta = p.delta
      /\ Receiver(q) = Receiver(p) /\ Transmitter(q) = Transmitter(p)
  BY <1>5 DEF PortState, Receiver, Transmitter
<1> QED
  BY <1>1, <1>4

LEMMA ControlKeeps ==
  ASSUME NEW p, Good(p),
         NEW mcr \in [loopback : BOOLEAN, dtr : BOOLEAN, op1 : BOOLEAN, op2 : BOOLEAN]
  PROVE  Keeps(p, Write_MCR(p, mcr))
<1> DEFINE new == Looped(p, mcr) \ p.delta
           delta == p.delta \cup new
           r == [p EXCEPT !.delta = delta]
           told == IF new = {} THEN p ELSE rise(r, "MSR")
           out == IF mcr.op2 # p.op2 /\ told.irq_active THEN mcr.op2 ELSE told.line
           q == [told EXCEPT !.line = out,
                   !.dtr = mcr.dtr, !.op1 = mcr.op1, !.op2 = mcr.op2,
                   !.loopback = mcr.loopback]
<1>1. Write_MCR(p, mcr) = q
  <2> DEFINE t == IF new = {} THEN p ELSE rise([p EXCEPT !.delta = @ \cup new], "MSR")
  <2>1. Write_MCR(p, mcr) =
          [t EXCEPT !.line = IF mcr.op2 # p.op2 /\ t.irq_active THEN mcr.op2 ELSE @,
                    !.dtr = mcr.dtr, !.op1 = mcr.op1, !.op2 = mcr.op2,
                    !.loopback = mcr.loopback]
    BY Zenon DEF Write_MCR
  <2>2. t = told
    OBVIOUS
  <2> HIDE DEF t, told
  <2> QED
    BY <2>1, <2>2
<1>2. delta \in SUBSET ModemLines
  BY DEF Good, Sound, PortState, Looped, ModemLines
<1> HIDE DEF new, delta
<1>3. /\ Sound(told) /\ told.due = p.due /\ told.op2 = p.op2
      /\ Receiver(told) = Receiver(p) /\ Transmitter(told) = Transmitter(p)
      /\ \A c \in CauseSet \ {"MSR"} : c \in told.waiting <=> c \in p.waiting
      /\ ToldLines(p) => ToldLines(told)
  <2>1. CASE new = {}
    BY <2>1 DEF Good
  <2>2. CASE new # {}
    <3>1. /\ r \in PortState /\ Wired(r) /\ r.waiting = p.waiting /\ r.due = p.due
          /\ r.op2 = p.op2
          /\ Receiver(r) = Receiver(p) /\ Transmitter(r) = Transmitter(p)
      BY <1>2 DEF Good, Sound, PortState, Wired, Receiver, Transmitter
    <3>2. told = rise(r, "MSR")
      BY <2>2
    <3>3. "MSR" \in CauseSet
      BY DEF CauseSet
    <3> HIDE DEF r, told
    <3>4. /\ Sound(told) /\ told.waiting = p.waiting \cup {"MSR"} /\ told.due = p.due
          /\ Receiver(told) = Receiver(p) /\ Transmitter(told) = Transmitter(p)
          /\ Modem(told) = Modem(r)
      BY <3>1, <3>2, <3>3, Rises
    <3> QED
      BY <3>1, <3>4 DEF Modem, ToldLines
  <2> QED
    BY <2>1, <2>2
<1> HIDE DEF told
<1>4. out \in BOOLEAN /\ (out <=> mcr.op2 /\ told.irq_active)
  BY <1>3 DEF Sound, Wired, PortState
<1> HIDE DEF out
<1>8. q = Moved(told, out, mcr.dtr, mcr.op1, mcr.op2, mcr.loopback)
  BY Zenon DEF Moved
<1>9. mcr.dtr \in BOOLEAN /\ mcr.op1 \in BOOLEAN /\ mcr.op2 \in BOOLEAN /\ mcr.loopback \in BOOLEAN
  OBVIOUS
<1> HIDE DEF q
<1>5. /\ q \in PortState /\ q.line = out /\ q.irq_active = told.irq_active /\ q.ISR = told.ISR
      /\ q.IER = told.IER /\ q.waiting = told.waiting /\ q.due = told.due
      /\ q.op2 = mcr.op2 /\ q.delta = told.delta
      /\ Receiver(q) = Receiver(told) /\ Transmitter(q) = Transmitter(told)
  <2>1. told \in PortState /\ out \in BOOLEAN
    BY <1>3, <1>4 DEF Sound
  <2> HIDE DEF q
  <2>2. /\ told \in PortState /\ out \in BOOLEAN
        /\ mcr.dtr \in BOOLEAN /\ mcr.op1 \in BOOLEAN /\ mcr.op2 \in BOOLEAN
        /\ mcr.loopback \in BOOLEAN
    BY <1>9, <2>1
  <2> DEFINE dtr == mcr.dtr
             op1 == mcr.op1
             op2 == mcr.op2
             loopback == mcr.loopback
             s == Moved(told, out, dtr, op1, op2, loopback)
  <2>3. {out, dtr, op1, op2, loopback} \subseteq BOOLEAN
    BY <2>2
  <2> HIDE DEF dtr, op1, op2, loopback
  <2>4. /\ s \in PortState /\ s.line = out /\ s.irq_active = told.irq_active /\ s.ISR = told.ISR
        /\ s.IER = told.IER /\ s.waiting = told.waiting /\ s.due = told.due
        /\ s.op2 = op2 /\ s.delta = told.delta
        /\ Receiver(s) = Receiver(told) /\ Transmitter(s) = Transmitter(told)
    BY <2>1, <2>3, LinesAreMoved
  <2>5. q = s
    BY <1>8 DEF dtr, op1, op2, loopback
  <2> HIDE DEF s
  <2> QED
    BY <2>4, <2>5 DEF op2
<1>6. Sound(q)
  BY <1>3, <1>4, <1>5 DEF Sound, Wired, Settled, Val
<1>7. ToldLines(p) => ToldLines(q)
  BY <1>3, <1>5 DEF ToldLines
<1> QED
  BY <1>1, <1>3, <1>5, <1>6, <1>7, LinesKeep DEF Keeps

(* What programs do to the fifos leaves the rest alone.                    *)
Untouched(p, q) ==
  /\ q.IER = p.IER /\ q.waiting = p.waiting /\ Interrupt(q) = Interrupt(p)
  /\ Modem(q) = Modem(p) /\ q.due = p.due
  /\ q.LSR_ERROR = p.LSR_ERROR /\ q.guard = p.guard /\ q.TX_EMPTY = p.TX_EMPTY

LEMMA UntouchedChain ==
  ASSUME NEW p, NEW q, NEW r, Untouched(p, q), Untouched(q, r)
  PROVE  Untouched(p, r)
BY DEF Untouched

LEMMA UntouchedSound ==
  ASSUME NEW p, Sound(p), NEW q \in PortState, Untouched(p, q)
  PROVE  Sound(q)
BY DEF Sound, Untouched, Wired, Settled, Val, Interrupt, Modem

(* The fifo is switched, the receiver is cleared, the transmitter is       *)
(* cleared, the threshold is set.                                          *)
Sized(p, on, old) ==
  IF on = p.fifo THEN p
  ELSE [p EXCEPT !.fifo = on, !.errors_in_fifo = 0, !.errors = << >>,
                 !.rx = 0, !.tx = 0, !.last = on /\ old]

RxCleared(p, clearRx) ==
  IF clearRx
  THEN [p EXCEPT !.errors_in_fifo = 0, !.errors = << >>, !.rx = 0, !.last = FALSE]
  ELSE p

TxCleared(p, clearTx) ==
  IF clearTx THEN [p EXCEPT !.tx = 0, !.owed = 0, !.untold = FALSE] ELSE p

LEMMA IsSized ==
  ASSUME NEW p, Sound(p), Counted(p), NEW on \in BOOLEAN, NEW old \in BOOLEAN
  PROVE  LET q == Sized(p, on, old)
         IN  /\ Sound(q) /\ Untouched(p, q) /\ Counted(q) /\ q.fifo = on /\ q.rx \in {0, p.rx}
             /\ on = p.fifo => q.tx = p.tx /\ q.owed = p.owed /\ q.untold = p.untold
<1> DEFINE last == on /\ old
           q == Sized(p, on, old)
<1>1. CASE on = p.fifo
  <2>1. q = p
    BY <1>1 DEF Sized
  <2> HIDE DEF q
  <2>2. p.rx \in {0, p.rx}
    OBVIOUS
  <2> QED
    BY <1>1, <2>1, <2>2 DEF q, Untouched
<1>2. CASE on # p.fifo
  <2>1. q = [p EXCEPT !.fifo = on, !.errors_in_fifo = 0, !.errors = << >>,
                 !.rx = 0, !.tx = 0, !.last = last]
    BY <1>2 DEF Sized
  <2>2. last \in BOOLEAN /\ <<>> \in Seq(BOOLEAN) /\ 0 \in 0 .. FifoSize /\ 0 \in Int /\ Len(<<>>) = 0
    BY FifoAssumption
  <2> HIDE DEF q, last
  <2>3. /\ q \in PortState /\ Untouched(p, q) /\ q.fifo = on /\ q.rx = 0
        /\ q.errors_in_fifo = 0 /\ q.errors = <<>>
    BY <2>1, <2>2 DEF Sound, PortState, Untouched, Interrupt, Modem
  <2>4. Counted(q)
    BY <2>2, <2>3, CountEmpty DEF Counted, Tallied
  <2> QED
    BY <1>2, <2>3, <2>4, UntouchedSound DEF q
<1> QED
  BY <1>1, <1>2

LEMMA IsRxCleared ==
  ASSUME NEW p, Sound(p), Counted(p), NEW clearRx \in BOOLEAN
  PROVE  LET q == RxCleared(p, clearRx)
         IN  /\ Sound(q) /\ Untouched(p, q) /\ Counted(q)
             /\ q.fifo = p.fifo /\ q.rx \in {0, p.rx}
             /\ q.tx = p.tx /\ q.owed = p.owed /\ q.untold = p.untold
<1> DEFINE q == RxCleared(p, clearRx)
<1>1. CASE ~clearRx
  <2>1. q = p
    BY <1>1 DEF RxCleared
  <2> HIDE DEF q
  <2>2. p.rx \in {0, p.rx}
    OBVIOUS
  <2> QED
    BY <1>1, <2>1, <2>2 DEF q, Untouched
<1>2. CASE clearRx
  <2>1. q = [p EXCEPT !.errors_in_fifo = 0, !.errors = << >>, !.rx = 0, !.last = FALSE]
    BY <1>2 DEF RxCleared
  <2>2. <<>> \in Seq(BOOLEAN) /\ 0 \in 0 .. FifoSize /\ 0 \in Int /\ Len(<<>>) = 0
    BY FifoAssumption
  <2> HIDE DEF q
  <2>3. /\ q \in PortState /\ Untouched(p, q) /\ q.fifo = p.fifo /\ q.rx = 0
        /\ q.errors_in_fifo = 0 /\ q.errors = <<>>
        /\ q.tx = p.tx /\ q.owed = p.owed /\ q.untold = p.untold
    BY <2>1, <2>2 DEF Sound, PortState, Untouched, Interrupt, Modem
  <2>4. Counted(q)
    BY <2>2, <2>3, CountEmpty DEF Counted, Tallied
  <2> QED
    BY <1>2, <2>3, <2>4, UntouchedSound DEF q
<1> QED
  BY <1>1, <1>2

LEMMA IsTxCleared ==
  ASSUME NEW p, Sound(p), Counted(p), NEW clearTx \in BOOLEAN, NEW threshold \in 1 .. FifoSize
  PROVE  LET q == [TxCleared(p, clearTx) EXCEPT !.threshold = threshold]
         IN  /\ Sound(q) /\ Untouched(p, q) /\ Counted(q) /\ q.rx = p.rx
             /\ clearTx => q.tx = 0 /\ q.owed = 0 /\ q.untold = FALSE
             /\ ~clearTx => q.tx = p.tx /\ q.owed = p.owed /\ q.untold = p.untold
<1> DEFINE r == TxCleared(p, clearTx)
           q == [r EXCEPT !.threshold = threshold]
<1>1. 0 \in 0 .. FifoSize /\ 0 \in Int
  BY FifoAssumption
<1>2. /\ r \in PortState /\ Untouched(p, r) /\ r.rx = p.rx /\ r.fifo = p.fifo
      /\ r.errors = p.errors /\ r.errors_in_fifo = p.errors_in_fifo
      /\ clearTx => r.tx = 0 /\ r.owed = 0 /\ r.untold = FALSE
      /\ ~clearTx => r.tx = p.tx /\ r.owed = p.owed /\ r.untold = p.untold
  <2>1. CASE clearTx
    BY <1>1, <2>1 DEF TxCleared, Sound, PortState, Untouched, Interrupt, Modem
  <2>2. CASE ~clearTx
    BY <2>2 DEF TxCleared, Sound, Untouched
  <2> QED
    BY <2>1, <2>2
<1> HIDE DEF r
<1>3. /\ q \in PortState /\ Untouched(r, q) /\ q.rx = r.rx /\ q.fifo = r.fifo
      /\ q.errors = r.errors /\ q.errors_in_fifo = r.errors_in_fifo
      /\ q.tx = r.tx /\ q.owed = r.owed /\ q.untold = r.untold
  BY <1>2 DEF PortState, Untouched, Interrupt, Modem
<1> HIDE DEF q
<1>4. Untouched(p, q)
  BY <1>2, <1>3, UntouchedChain
<1>5. Sound(q) /\ Counted(q)
  BY <1>2, <1>3, <1>4, UntouchedSound DEF Counted, Tallied
<1> QED
  BY <1>2, <1>3, <1>4, <1>5 DEF q, r

LEMMA FifoKeeps ==
  ASSUME NEW p, Good(p), NEW on \in BOOLEAN, NEW clearRx \in BOOLEAN, NEW clearTx \in BOOLEAN,
         NEW old \in BOOLEAN, NEW threshold \in Thresholds
  PROVE  LET q == Write_FCR(p, on, clearRx, clearTx, threshold, old)
         IN  /\ Good(q) /\ (ToldLines(p) => ToldLines(q))
             /\ (p.guard => ~clearTx /\ on = p.fifo) => (Held(p) => Held(q))
<1> DEFINE sized == Sized(p, on, old)
           rxCleared == RxCleared(sized, clearRx)
           both == clearTx \/ on # p.fifo
           level == IF on THEN threshold ELSE 1
           q == [TxCleared(rxCleared, both) EXCEPT !.threshold = level]
<1>1. Write_FCR(p, on, clearRx, clearTx, threshold, old) = q
  BY Zenon DEF Write_FCR, Sized, RxCleared, TxCleared
<1>2. level \in 1 .. FifoSize /\ both \in BOOLEAN
  BY FifoAssumption
<1>3. /\ Sound(sized) /\ Untouched(p, sized) /\ Counted(sized)
      /\ sized.fifo = on /\ sized.rx \in {0, p.rx}
      /\ on = p.fifo => sized.tx = p.tx /\ sized.owed = p.owed /\ sized.untold = p.untold
  BY IsSized DEF Good
<1> HIDE DEF sized
<1>4. /\ Sound(rxCleared) /\ Untouched(sized, rxCleared) /\ Counted(rxCleared)
      /\ rxCleared.rx \in {0, sized.rx}
      /\ rxCleared.tx = sized.tx /\ rxCleared.owed = sized.owed /\ rxCleared.untold = sized.untold
  BY <1>3, IsRxCleared
<1> HIDE DEF rxCleared
<1>5. /\ Sound(q) /\ Untouched(rxCleared, q) /\ Counted(q) /\ q.rx = rxCleared.rx
      /\ both => q.tx = 0 /\ q.owed = 0 /\ q.untold = FALSE
      /\ ~both => /\ q.tx = rxCleared.tx /\ q.owed = rxCleared.owed
                  /\ q.untold = rxCleared.untold
  <2> HIDE DEF both, level
  <2> QED
    BY <1>2, <1>4, IsTxCleared
<1> HIDE DEF q
<1>6. Untouched(p, q) /\ q.rx \in {0, p.rx}
  BY <1>3, <1>4, <1>5, UntouchedChain
<1>7. /\ both => q.tx = 0 /\ q.owed = 0 /\ q.untold = FALSE
      /\ ~both => q.tx = p.tx /\ q.owed = p.owed /\ q.untold = p.untold
  BY <1>3, <1>4, <1>5
<1>8. /\ q.waiting = p.waiting /\ q.due = p.due /\ q.LSR_ERROR = p.LSR_ERROR
      /\ q.guard = p.guard /\ q.TX_EMPTY = p.TX_EMPTY /\ q.delta = p.delta
  BY <1>6 DEF Untouched, Modem
<1>9. ToldRx(q) /\ ToldErrors(q) /\ (ToldLines(p) => ToldLines(q))
  BY <1>6, <1>8 DEF Good, ToldRx, ToldErrors, ToldLines
<1>10. Goes(q) /\ ToldTx(q)
  BY <1>7, <1>8 DEF Good, Goes, Due, ToldTx
<1>11. ASSUME p.guard => ~clearTx /\ on = p.fifo, Held(p)
       PROVE  Held(q)
  <2>1. CASE both
    <3>1. ~q.guard
      BY <1>8, <1>11, <2>1
    <3> QED
      BY <1>7, <2>1, <3>1 DEF Held
  <2>2. CASE ~both
    BY <1>7, <1>8, <1>11, <2>2 DEF Held
  <2> QED
    BY <2>1, <2>2
<1> QED
  BY <1>1, <1>5, <1>9, <1>10, <1>11 DEF Good

(***************************************************************************)
(* The invariants.                                                         *)
(***************************************************************************)
IInv ==
  /\ Good(port)
  /\ MsrWrites \subseteq {{}} => ToldLines(port)
  /\ Careful => Held(port)

LEMMA InitGood == Init => IInv
<1> SUFFICES ASSUME Init PROVE IInv
  OBVIOUS
<1> DEFINE none == [e \in Events |-> 0]
<1>1. /\ none \in [Events -> Nat] /\ \A e \in Events : none[e] = 0
      /\ <<>> \in Seq(BOOLEAN) /\ Len(<<>>) = 0
      /\ 0 \in 0 .. FifoSize /\ 1 \in 1 .. FifoSize /\ 0 \in Int
  BY FifoAssumption
<1>2. {} \cap {"MSR"} = {} /\ {} \in SUBSET CauseSet /\ {"MSR"} \in SUBSET CauseSet
  BY DEF CauseSet
<1>3. Highest({}) = "CLEAR" /\ Highest({}) \in {Highest(c) : c \in SUBSET CauseSet}
  BY <1>2 DEF Highest
<1>4. {} \in SUBSET ModemLines /\ {"cts", "dsr", "ri", "cd"} \in SUBSET ModemLines
  BY DEF ModemLines
<1> HIDE DEF none
<1>5. port = [
  IER |-> {}, waiting |-> {"MSR"}, ISR |-> "CLEAR", irq_active |-> FALSE, line |-> FALSE,
  fifo |-> FALSE, threshold |-> 1, rx |-> 0, errors |-> << >>, last |-> FALSE,
  errors_in_fifo |-> 0, LSR_ERROR |-> FALSE,
  tx |-> 0, guard |-> FALSE, TX_EMPTY |-> TRUE, owed |-> 0, untold |-> FALSE,
  loopback |-> FALSE, dtr |-> FALSE, op1 |-> FALSE, op2 |-> FALSE,
  up |-> {}, delta |-> {"cts", "dsr", "ri", "cd"},
  due |-> none]
  BY Zenon DEF Init, none
<1>6. port \in PortState
  BY <1>1, <1>2, <1>3, <1>4, <1>5 DEF PortState
<1>7. /\ port.IER = {} /\ port.waiting = {"MSR"} /\ port.ISR = "CLEAR" /\ ~port.irq_active
      /\ ~port.line /\ ~port.fifo /\ port.rx = 0 /\ port.errors = <<>> /\ port.errors_in_fifo = 0
      /\ ~port.LSR_ERROR /\ port.tx = 0 /\ ~port.guard /\ port.TX_EMPTY /\ port.owed = 0
      /\ ~port.untold /\ ~port.op2 /\ port.due = none /\ port.irq_active = FALSE
  BY <1>5
<1>8. Sound(port)
  BY <1>2, <1>3, <1>6, <1>7 DEF Sound, Wired, Settled, Val
<1>9. Counted(port)
  BY <1>1, <1>7, CountEmpty DEF Counted, Tallied
<1>10. Goes(port)
  BY <1>1, <1>7, EventsAre DEF Goes, Due
<1>11. ToldRx(port) /\ ToldErrors(port) /\ ToldTx(port) /\ ToldLines(port) /\ Held(port)
  BY <1>7 DEF ToldRx, ToldErrors, ToldTx, ToldLines, Held
<1> QED
  BY <1>8, <1>9, <1>10, <1>11 DEF IInv, Good

(* Every step of the port keeps them.                                      *)
LEMMA NextKeeps == IInv /\ [Next]_vars => IInv'
<1> SUFFICES ASSUME IInv, [Next]_vars PROVE IInv'
  OBVIOUS
<1> USE DEF IInv
<1>0. ASSUME Keeps(port, port') PROVE IInv'
  BY <1>0 DEF Keeps
<1>1. CASE port' = Write_THR(port)
  BY <1>0, <1>1, WriteByte, SentKeeps DEF Good
<1>2. CASE (port.rx = 0 /\ port.last => Rereads) /\ port' = Read_RHR(port)
  BY <1>0, <1>2, ReadByte, ReceivedKeeps DEF Good
<1>3. CASE \E data \in IerWrites : port' = Write_IER(port, data)
  BY <1>0, <1>3, EnableKeeps, RegistersAssumption
<1>4. CASE port' = Read_ISR(port)
  BY <1>0, <1>4, IsrKeeps
<1>5. CASE \E on, clearRx, clearTx, old \in BOOLEAN, threshold \in Thresholds :
       /\ Careful /\ port.guard => ~clearTx /\ on = port.fifo
       /\ old => on /\ ~port.fifo
       /\ port' = Write_FCR(port, on, clearRx, clearTx, threshold, old)
  <2> PICK on \in BOOLEAN, clearRx \in BOOLEAN, clearTx \in BOOLEAN, old \in BOOLEAN,
           threshold \in Thresholds :
       /\ Careful /\ port.guard => ~clearTx /\ on = port.fifo
       /\ port' = Write_FCR(port, on, clearRx, clearTx, threshold, old)
    BY <1>5
  <2> QED
    BY FifoKeeps
<1>6. CASE \E mcr \in McrWrites : port' = Write_MCR(port, mcr)
  BY <1>0, <1>6, ControlKeeps, RegistersAssumption
<1>7. CASE port' = Read_LSR(port)
  BY <1>0, <1>7, LsrKeeps
<1>8. CASE port' = Read_MSR(port)
  BY <1>0, <1>8, MsrKeeps
<1>9. CASE \E deltas \in MsrWrites : port' = Write_MSR(port, deltas)
  <2> PICK deltas \in MsrWrites : port' = Write_MSR(port, deltas)
    BY <1>9
  <2>1. deltas \in SUBSET ModemLines
    BY RegistersAssumption DEF ModemLines
  <2> QED
    BY <2>1, DeltasKeep
<1>10. CASE \E error \in BOOLEAN : port' = receiveByteEx(port, error)
  BY <1>0, <1>10, ReceiveByte, ReceivedKeeps DEF Good
<1>11. CASE \E l \in Lines : port' = SetLine(port, l)
  BY <1>0, <1>11, LineKeeps, RegistersAssumption DEF ModemLines
<1>12. CASE Fire
  BY <1>0, <1>12, FiredKeeps DEF Fire
<1>13. CASE UNCHANGED vars
  BY <1>13 DEF vars
<1> QED
  BY <1>1, <1>2, <1>3, <1>4, <1>5, <1>6, <1>7, <1>8, <1>9, <1>10, <1>11, <1>12, <1>13
     DEF Next, Program, FarEnd

THEOREM Invariant == Spec => []IInv
BY InitGood, NextKeeps, PTL DEF Spec

(***************************************************************************)
(* The properties of the port.                                             *)
(***************************************************************************)

(* Whatever programs enable, clear and let through, and whatever the far   *)
(* end sends, the interrupt line is up exactly while an enabled cause      *)
(* waits and OUT2 lets it through, and the register names the first one    *)
(* (ComputeInterrupts and Write_MCR).                                      *)
THEOREM LineFollowsCauses == Spec => []IrqFollows
<1>1. IInv => IrqFollows
  BY DEF IInv, Good, Sound, Wired, Settled, Val, IrqFollows
<1> QED
  BY <1>1, Invariant, PTL

(* The count behind FIFO_ERROR is the number of bytes with an error in the *)
(* fifo, for every size of it, if programs do not read an empty receiver   *)
(* whose last byte had an error (errorfifo, receiveByteEx, Read_RHR and    *)
(* Write_FCR).                                                             *)
THEOREM ErrorsAreCounted ==
  ASSUME ~Rereads
  PROVE  Spec => []ErrorsCounted
<1>1. IInv => ErrorsCounted
  BY DEF IInv, Good, Counted, Tallied, ErrorsCounted
<1> QED
  BY <1>1, Invariant, PTL

(* A busy transmitter is taken further by exactly one event, an idle one   *)
(* by none and has nothing left (Write_THR, ByteTransmitting and           *)
(* ByteTransmitted), even when programs clear or switch the fifo while a   *)
(* byte warms up.                                                          *)
THEOREM TransmitterGoesOn == Spec => []TxGoesOn
<1>1. IInv => TxGoesOn
  BY DEF IInv, Good, Goes, Due, TxGoesOn
<1> QED
  BY <1>1, Invariant, PTL

(* While programs do not write changes of the lines into the MSR, waiting  *)
(* bytes, errors, changed lines and room in the transmitter all have their *)
(* cause waiting, or a timeout due (the rise and clear of every handler).  *)
THEOREM NothingIsUntold ==
  ASSUME MsrWrites \subseteq {{}}
  PROVE  Spec => []NothingUntold
<1>1. IInv => NothingUntold
  BY DEF IInv, Good, ToldRx, ToldErrors, ToldLines, ToldTx, NothingUntold
<1> QED
  BY <1>1, Invariant, PTL

(* While programs do not clear a byte that is about to be sent, the fifo   *)
(* holds what waits and the byte that warms up, and no byte in it is lost  *)
(* or sent twice (tx_fifo and sync_guardtime).                                *)
THEOREM FifoHoldsBytes ==
  ASSUME Careful
  PROVE  Spec => []GuardHoldsByte
<1>1. IInv => GuardHoldsByte
  BY DEF IInv, Held, GuardHoldsByte
<1> QED
  BY <1>1, Invariant, PTL
=============================================================================
