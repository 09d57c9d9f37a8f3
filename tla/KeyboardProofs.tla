--------------------------- MODULE KeyboardProofs ---------------------------
(***************************************************************************)
(* Theorems about the keyboard controller: for every size of the ring and  *)
(* whatever the host types and programs command, there is one event for    *)
(* what waits, and the bytes of the devices are handed on as DeviceBytes   *)
(* says.                                                                   *)
(***************************************************************************)
EXTENDS Keyboard, SequenceTheorems, NaturalsInduction, WellFoundedInduction, TLAPS

Byte == [dev : {"key", "mouse", "packet"}, part : Nat, of : Nat]

PendingCommand == {"none", "setleds", "setscanset", "settyperate", "setcommand", "setoutport",
                   "writeoutput", "writeauxout", "writeaux"}

Keyb == [
  buffer : Seq(Byte), len8042 : Nat, pos8042 : Nat, events : Int, scheduled : BOOLEAN,
  port : Byte \cup {None, Answer}, command : PendingCommand, reset : BOOLEAN,
  active : BOOLEAN, scanning : BOOLEAN, auxactive : BOOLEAN, repeating : BOOLEAN,
  aux_command : BOOLEAN, mode : {"stream", "remote", "wrap"}, reporting : BOOLEAN]

(***************************************************************************)
(* The parts of the invariant: one event for each answer and one for the   *)
(* ring that is scheduled, which holds bytes and overtakes none; and a     *)
(* ring with bytes is scheduled or has a byte on offer.                    *)
(***************************************************************************)
Counted(k) ==
  /\ k \in Keyb
  /\ k.pos8042 < k.len8042 \/ (k.pos8042 = 0 /\ k.len8042 = 0)
  /\ k.events = (k.len8042 - k.pos8042) + (IF k.scheduled THEN 1 ELSE 0)
  /\ k.scheduled => k.buffer # << >> /\ k.port \in {None, Answer}

Asked(k) == k.buffer # << >> => k.scheduled \/ k.port # None

Good(k) == Counted(k) /\ Asked(k)

(* The answers that were asked for and not handed on.                      *)
Owed(k) == k.len8042 - k.pos8042

LEMMA InitGood == Init => Good(keyb)
<1> SUFFICES ASSUME Init PROVE Good(keyb)
  OBVIOUS
<1>1. << >> \in Seq(Byte)
  BY EmptySeq
<1>2. keyb = Fresh
  BY DEF Init
<1>3. Fresh \in Keyb
  BY <1>1 DEF Fresh, Keyb, PendingCommand
<1> QED
  BY <1>2, <1>3 DEF Good, Counted, Asked, Fresh

(* The ring, the answers and what is queued for them, all at once.         *)
Queued(k, buffer, len, pos, events, scheduled) ==
  [k EXCEPT !.buffer = buffer, !.len8042 = len, !.pos8042 = pos, !.events = events,
            !.scheduled = scheduled]

LEMMA FieldsOf ==
  ASSUME NEW k \in Keyb
  PROVE  /\ k.buffer \in Seq(Byte) /\ k.len8042 \in Nat /\ k.pos8042 \in Nat /\ k.events \in Int
         /\ k.scheduled \in BOOLEAN /\ k.port \in Byte \cup {None, Answer}
BY DEF Keyb

LEMMA Clears ==
  ASSUME NEW k \in Keyb
  PROVE  LET q == KEYBOARD_ClrBuffer(k)
         IN  Good(q) /\ q.buffer = << >> /\ q.port = k.port /\ Owed(q) = 0
<1> DEFINE none == << >>
           off == FALSE
           zero == 0
           q == Queued(k, none, zero, zero, zero, off)
<1> SUFFICES Good(q) /\ q.buffer = << >> /\ q.port = k.port /\ Owed(q) = 0
  BY DEF KEYBOARD_ClrBuffer, Queued
<1>1. none \in Seq(Byte) /\ off \in BOOLEAN /\ zero \in Nat /\ zero \in Int
  BY EmptySeq
<1> HIDE DEF none, off, zero
<1>2. q \in Keyb
  BY <1>1 DEF Queued, Keyb
<1>3. /\ q.buffer = none /\ q.len8042 = zero /\ q.pos8042 = zero
      /\ q.events = zero /\ q.scheduled = off /\ q.port = k.port
  BY <1>1 DEF Queued, Keyb
<1> HIDE DEF q
<1> QED
  BY <1>2, <1>3 DEF Good, Counted, Asked, Owed, none, off, zero

LEMMA Responds ==
  ASSUME NEW k, Good(k)
  PROVE  LET q == KEYBOARD_Add8042Response(k)
         IN  Good(q) /\ q.buffer = k.buffer /\ q.port = k.port /\ Owed(q) = Owed(k) + 1
<1> DEFINE pos == IF k.pos8042 >= k.len8042 THEN 0 ELSE k.pos8042
           len == IF k.pos8042 >= k.len8042 THEN 1 ELSE k.len8042 + 1
           q == Queued(k, k.buffer, len, pos, k.events + 1, k.scheduled)
<1>1. k \in Keyb
  BY DEF Good, Counted
<1>2. KEYBOARD_Add8042Response(k) = q
  BY <1>1 DEF KEYBOARD_Add8042Response, Queued, Keyb
<1> SUFFICES Good(q) /\ q.buffer = k.buffer /\ q.port = k.port /\ Owed(q) = Owed(k) + 1
  BY <1>2
<1>3. /\ pos \in Nat /\ len \in Nat /\ pos < len
      /\ len - pos = (k.len8042 - k.pos8042) + 1
  BY <1>1, FieldsOf DEF Good, Counted
<1> HIDE DEF pos, len
<1>4. /\ q \in Keyb /\ q.buffer = k.buffer /\ q.len8042 = len /\ q.pos8042 = pos
      /\ q.events = k.events + 1 /\ q.scheduled = k.scheduled /\ q.port = k.port
  <2>1. k.buffer \in Seq(Byte) /\ k.events + 1 \in Int /\ k.scheduled \in BOOLEAN
    BY <1>1, FieldsOf
  <2> QED
    BY <1>1, <1>3, <2>1 DEF Queued, Keyb
<1> HIDE DEF q
<1>5. q.events = (q.len8042 - q.pos8042) + (IF q.scheduled THEN 1 ELSE 0)
  BY <1>1, <1>3, <1>4, FieldsOf DEF Good, Counted
<1> QED
  BY <1>3, <1>4, <1>5 DEF Good, Counted, Asked, Owed

LEMMA Schedules ==
  ASSUME NEW k, Counted(k), k.buffer # << >>, ~k.scheduled, k.port = None
  PROVE  LET q == Schedule(k)
         IN  Good(q) /\ q.buffer = k.buffer /\ q.port = k.port /\ Owed(q) = Owed(k)
<1> DEFINE q == Queued(k, k.buffer, k.len8042, k.pos8042, k.events + 1, TRUE)
<1>1. k \in Keyb
  BY DEF Counted
<1>2. Schedule(k) = q
  BY <1>1 DEF Schedule, Queued, Keyb
<1> SUFFICES Good(q) /\ q.buffer = k.buffer /\ q.port = k.port /\ Owed(q) = Owed(k)
  BY <1>2
<1>3. /\ q \in Keyb /\ q.buffer = k.buffer /\ q.len8042 = k.len8042 /\ q.pos8042 = k.pos8042
      /\ q.events = k.events + 1 /\ q.scheduled = TRUE /\ q.port = k.port
  <2>1. /\ k.buffer \in Seq(Byte) /\ k.len8042 \in Nat /\ k.pos8042 \in Nat
        /\ k.events + 1 \in Int /\ TRUE \in BOOLEAN
    BY <1>1, FieldsOf
  <2> QED
    BY <1>1, <2>1 DEF Queued, Keyb
<1> HIDE DEF q
<1> QED
  BY <1>1, <1>3, FieldsOf DEF Good, Counted, Asked, Owed

LEMMA Starts ==
  ASSUME NEW k, Counted(k)
  PROVE  LET q == StartTransfer(k)
         IN  Good(q) /\ q.buffer = k.buffer /\ q.port = k.port /\ Owed(q) = Owed(k)
<1>1. CASE k.buffer # << >> /\ ~k.scheduled /\ k.port = None
  BY <1>1, Schedules DEF StartTransfer
<1>2. CASE ~(k.buffer # << >> /\ ~k.scheduled /\ k.port = None)
  BY <1>2 DEF StartTransfer, Good, Asked
<1> QED
  BY <1>1, <1>2

LEMMA AddsByte ==
  ASSUME NEW k, Good(k), NEW byte \in Byte
  PROVE  LET q == KEYBOARD_AddBuffer(k, byte)
         IN  /\ Good(q) /\ q.port = k.port
             /\ q.buffer = IF Len(k.buffer) >= KEYBUFSIZE THEN << >> ELSE Append(k.buffer, byte)
             /\ Owed(q) = IF Len(k.buffer) >= KEYBUFSIZE THEN 0 ELSE Owed(k)
<1>1. k \in Keyb /\ k.buffer \in Seq(Byte)
  BY DEF Good, Counted, Keyb
<1>2. CASE Len(k.buffer) >= KEYBUFSIZE
  BY <1>1, <1>2, Clears DEF KEYBOARD_AddBuffer
<1>3. CASE ~(Len(k.buffer) >= KEYBUFSIZE)
  <2> DEFINE longer == Append(k.buffer, byte)
             added == [k EXCEPT !.buffer = longer]
  <2>1. longer \in Seq(Byte) /\ longer # << >>
    BY <1>1, AppendProperties
  <2> HIDE DEF longer
  <2>2. /\ added \in Keyb /\ added.buffer = longer /\ added.port = k.port
        /\ added.scheduled = k.scheduled /\ added.events = k.events
        /\ added.pos8042 = k.pos8042 /\ added.len8042 = k.len8042
    BY <1>1, <2>1 DEF Keyb
  <2>3. KEYBOARD_AddBuffer(k, byte) =
          IF ~k.scheduled /\ k.port = None THEN Schedule(added) ELSE added
    BY <1>3 DEF KEYBOARD_AddBuffer, longer
  <2> HIDE DEF added
  <2>4. Counted(added)
    BY <2>1, <2>2 DEF Good, Counted
  <2>5. CASE ~k.scheduled /\ k.port = None
    BY <1>3, <2>1, <2>2, <2>3, <2>4, <2>5, Schedules DEF longer, Owed
  <2>6. CASE ~(~k.scheduled /\ k.port = None)
    BY <1>3, <2>2, <2>3, <2>4, <2>6 DEF Good, Asked, longer, Owed
  <2> QED
    BY <2>5, <2>6
<1> QED
  BY <1>2, <1>3

(***************************************************************************)
(* Messages.  Numbers that start at zero and go on reach every number.     *)
(***************************************************************************)
LEMMA NatSets ==
  ASSUME NEW T, 0 \in T, \A n \in Nat : n \in T => n + 1 \in T
  PROVE  Nat \subseteq T
<1> DEFINE Bad == Nat \ T
<1> SUFFICES ASSUME Bad # {} PROVE FALSE
  OBVIOUS
<1>1. PICK i \in Bad : \A j \in Bad : ~(<<j, i>> \in OpToRel(<, Nat))
  BY NatLessThanWellFounded, WFMin
<1>2. i \in Nat /\ i # 0
  OBVIOUS
<1>3. i - 1 \in Nat /\ <<i - 1, i>> \in OpToRel(<, Nat)
  BY <1>2 DEF OpToRel
<1>4. i - 1 \in T
  BY <1>1, <1>3
<1>5. i - 1 + 1 \in T
  BY <1>3, <1>4
<1> QED
  BY <1>2, <1>5

(* The recursive function of AddAll, and that there is one.                *)
Step(k, m, n, f) == IF n = 0 THEN k ELSE KEYBOARD_AddBuffer(f[n - 1], m[n])

Stepped(k, m) == CHOOSE f : f = [n \in 0 .. Len(m) |-> Step(k, m, n, f)]

LEMMA AddSteps ==
  ASSUME NEW k, Good(k), NEW m \in Seq(Byte)
  PROVE  /\ AddAll(k, m) = Stepped(k, m)[Len(m)]
         /\ Stepped(k, m) = [n \in 0 .. Len(m) |-> Step(k, m, n, Stepped(k, m))]
<1> DEFINE States == {q \in Keyb : Good(q)}
           Upto(l) == {f \in [0 .. l -> States] : \A n \in 0 .. l : f[n] = Step(k, m, n, f)}
           Ls == {l \in Nat : l <= Len(m) => \E f : f \in Upto(l)}
<1>1. AddAll(k, m) = Stepped(k, m)[Len(m)]
  BY Zenon DEF AddAll, Step, Stepped
<1>2. 0 \in Ls
  <2> DEFINE f == [n \in 0 .. 0 |-> k]
  <2>0. k \in States
    BY DEF Good, Counted
  <2> HIDE DEF States
  <2>1. f \in Upto(0)
    BY <2>0 DEF Step
  <2> HIDE DEF Upto
  <2> QED
    BY <2>1
<1>3. ASSUME NEW l \in Nat, l \in Ls PROVE l + 1 \in Ls
  <2> SUFFICES ASSUME l + 1 <= Len(m) PROVE \E f : f \in Upto(l + 1)
    <3> HIDE DEF Upto
    <3> QED
      OBVIOUS
  <2>1. PICK f : f \in Upto(l)
    <3> HIDE DEF Upto
    <3> QED
      BY <1>3
  <2> DEFINE new == KEYBOARD_AddBuffer(f[l], m[l + 1])
             g == [n \in 0 .. l + 1 |-> IF n = l + 1 THEN new ELSE f[n]]
  <2>2. new \in States
    <3>1. f[l] \in States
      <4> HIDE DEF States
      <4> QED
        BY <2>1
    <3>2. m[l + 1] \in Byte
      BY ElementOfSeq
    <3>3. Good(new)
      BY <3>1, <3>2, AddsByte
    <3> HIDE DEF new
    <3> QED
      BY <3>3 DEF Good, Counted
  <2> HIDE DEF States, new
  <2>3. \A n \in 0 .. l : g[n] = f[n] /\ f[n] \in States
    BY <2>1
  <2>4. g \in [0 .. l + 1 -> States] /\ g[l + 1] = new
    <3>1. \A n \in 0 .. l + 1 : n # l + 1 => n \in 0 .. l
      OBVIOUS
    <3>2. \A n \in 0 .. l + 1 : (IF n = l + 1 THEN new ELSE f[n]) \in States
      BY <2>1, <2>2, <3>1
    <3> QED
      BY <3>2
  <2>5. \A n \in 0 .. l + 1 : g[n] = Step(k, m, n, g)
    <3> HIDE DEF g
    <3> TAKE n \in 0 .. l + 1
    <3>1. CASE n = l + 1
      <4>1. g[n - 1] = f[l] /\ n # 0
        BY <2>3, <3>1
      <4> QED
        BY <2>4, <3>1, <4>1 DEF Step, new
    <3>2. CASE n # l + 1
      <4>1. n \in 0 .. l /\ f[n] = Step(k, m, n, f)
        BY <2>1, <3>2
      <4>2. n # 0 => n - 1 \in 0 .. l /\ g[n - 1] = f[n - 1]
        BY <2>3, <4>1
      <4>3. Step(k, m, n, g) = Step(k, m, n, f)
        BY <4>2, Zenon DEF Step
      <4> QED
        BY <2>3, <4>1, <4>3
    <3> QED
      BY <3>1, <3>2
  <2>6. g \in Upto(l + 1)
    BY <2>4, <2>5
  <2> HIDE DEF Upto, g
  <2> QED
    BY <2>6
<1> HIDE DEF States
<1>4. \E f : f \in Upto(Len(m))
  <2> HIDE DEF Upto
  <2>1. Nat \subseteq Ls
    BY <1>2, <1>3, NatSets
  <2> QED
    BY <2>1, LenProperties
<1>5. PICK f : f \in Upto(Len(m))
  BY <1>4
<1>6. f = [n \in 0 .. Len(m) |-> Step(k, m, n, f)]
  BY <1>5
<1>7. Stepped(k, m) = [n \in 0 .. Len(m) |-> Step(k, m, n, Stepped(k, m))]
  BY <1>6, Zenon DEF Stepped
<1> QED
  BY <1>1, <1>7

(* s is the end of what has been sent of m: what comes after a full ring.  *)
EndOf(m, n, s) == \E first \in 1 .. n + 1 : s = SubSeq(m, first, n)

LEMMA EndGrows ==
  ASSUME NEW m \in Seq(Byte), NEW n \in Nat, n + 1 <= Len(m), NEW s, EndOf(m, n, s)
  PROVE  s \in Seq(Byte) /\ EndOf(m, n + 1, Append(s, m[n + 1]))
<1>1. PICK first \in 1 .. n + 1 : s = SubSeq(m, first, n)
  BY DEF EndOf
<1>2. \A i \in 1 .. Len(m) : m[i] \in Byte
  BY ElementOfSeq
<1>3. s \in Seq(Byte)
  BY <1>1, <1>2, SubSeqProperties
<1>4. first \in 1 .. Len(m) /\ n + 1 \in first .. Len(m) /\ m[n + 1] \in Byte /\ Len(m) \in Nat
  BY <1>2, LenProperties
<1>5. SubSeq(m, first, n + 1) = SubSeq(m, first, n + 1 - 1) \o <<m[n + 1]>>
  BY <1>4, SubSeqRecursiveSecond
<1>6. Append(s, m[n + 1]) = s \o <<m[n + 1]>>
  BY <1>3, <1>4, AppendIsConcat
<1>7. n + 1 - 1 = n /\ first \in 1 .. n + 1 + 1
  OBVIOUS
<1>8. Append(s, m[n + 1]) = SubSeq(m, first, n + 1)
  BY <1>1, <1>5, <1>6, <1>7
<1> QED
  BY <1>3, <1>7, <1>8 DEF EndOf

LEMMA EmptyEnd ==
  ASSUME NEW m, NEW n \in Nat
  PROVE  EndOf(m, n, << >>)
<1>1. SubSeq(m, n + 1, n) = << >>
  BY SubSeqEmpty
<1> QED
  BY <1>1 DEF EndOf

LEMMA AppendFar ==
  ASSUME NEW s \in Seq(Byte), NEW t \in Seq(Byte), NEW byte \in Byte
  PROVE  Append(s \o t, byte) = s \o Append(t, byte)
<1> DEFINE left == Append(s \o t, byte)
           right == s \o Append(t, byte)
<1>1. /\ s \o t \in Seq(Byte) /\ Len(s \o t) = Len(s) + Len(t)
      /\ \A i \in 1 .. Len(s) + Len(t) : (s \o t)[i] = IF i <= Len(s) THEN s[i] ELSE t[i - Len(s)]
  BY ConcatProperties
<1>2. /\ Append(t, byte) \in Seq(Byte) /\ Len(Append(t, byte)) = Len(t) + 1
      /\ \A i \in 1 .. Len(t) : Append(t, byte)[i] = t[i]
      /\ Append(t, byte)[Len(t) + 1] = byte
  BY AppendProperties
<1>3. /\ left \in Seq(Byte) /\ Len(left) = Len(s) + Len(t) + 1
      /\ \A i \in 1 .. Len(s) + Len(t) : left[i] = (s \o t)[i]
      /\ left[Len(s) + Len(t) + 1] = byte
  BY <1>1, AppendProperties
<1>4. /\ right \in Seq(Byte) /\ Len(right) = Len(s) + (Len(t) + 1)
      /\ \A i \in 1 .. Len(s) + (Len(t) + 1) :
           right[i] = IF i <= Len(s) THEN s[i] ELSE Append(t, byte)[i - Len(s)]
  BY <1>2, ConcatProperties
<1>5. Len(s) \in Nat /\ Len(t) \in Nat
  BY LenProperties
<1> DEFINE l == Len(s)
           n == Len(t)
           far == Append(t, byte)
           both == s \o t
<1> HIDE DEF left, right, l, n, far, both
<1>6. ASSUME NEW i \in 1 .. l + n + 1 PROVE left[i] = right[i]
  <2>1. /\ l \in Nat /\ n \in Nat
        /\ \A j \in 1 .. l + n : left[j] = both[j]
        /\ \A j \in 1 .. l + n : both[j] = IF j <= l THEN s[j] ELSE t[j - l]
        /\ left[l + n + 1] = byte
        /\ \A j \in 1 .. l + (n + 1) : right[j] = IF j <= l THEN s[j] ELSE far[j - l]
        /\ \A j \in 1 .. n : far[j] = t[j]
        /\ far[n + 1] = byte
    BY <1>1, <1>2, <1>3, <1>4, <1>5 DEF l, n, far, both
  <2>2. CASE i = l + n + 1
    BY <2>1, <2>2
  <2>3. CASE i <= l
    BY <2>1, <2>3
  <2>4. CASE i > l /\ i <= l + n
    BY <2>1, <2>4
  <2> QED
    BY <2>1, <2>2, <2>3, <2>4
<1>7. Len(left) = Len(right) /\ Len(left) = l + n + 1
  BY <1>3, <1>4, <1>5 DEF l, n
<1>8. left = right
  BY <1>3, <1>4, <1>6, <1>7, SeqEqual
<1> QED
  BY <1>8 DEF left, right

LEMMA Regroup ==
  ASSUME NEW s \in Seq(Byte), NEW t \in Seq(Byte), NEW u \in Seq(Byte)
  PROVE  (s \o t) \o u = s \o (t \o u)
<1> DEFINE st == s \o t
           tu == t \o u
           left == st \o u
           right == s \o tu
           l == Len(s)
           m == Len(t)
           n == Len(u)
<1>1. /\ st \in Seq(Byte) /\ Len(st) = l + m
      /\ \A i \in 1 .. l + m : st[i] = IF i <= l THEN s[i] ELSE t[i - l]
  BY ConcatProperties
<1>2. /\ tu \in Seq(Byte) /\ Len(tu) = m + n
      /\ \A i \in 1 .. m + n : tu[i] = IF i <= m THEN t[i] ELSE u[i - m]
  BY ConcatProperties
<1>3. l \in Nat /\ m \in Nat /\ n \in Nat
  BY LenProperties
<1> HIDE DEF st, tu
<1>4. /\ left \in Seq(Byte) /\ Len(left) = Len(st) + n
      /\ \A i \in 1 .. Len(st) + n : left[i] = IF i <= Len(st) THEN st[i] ELSE u[i - Len(st)]
  <2>1. st \in Seq(Byte)
    BY <1>1
  <2> QED
    BY <2>1, ConcatProperties
<1>5. /\ right \in Seq(Byte) /\ Len(right) = l + Len(tu)
      /\ \A i \in 1 .. l + Len(tu) : right[i] = IF i <= l THEN s[i] ELSE tu[i - l]
  <2>1. tu \in Seq(Byte)
    BY <1>2
  <2> QED
    BY <2>1, ConcatProperties
<1> HIDE DEF left, right, l, m, n
<1>6. Len(left) = l + m + n /\ Len(right) = l + m + n
  BY <1>1, <1>2, <1>3, <1>4, <1>5
<1>7. ASSUME NEW i \in 1 .. l + m + n PROVE left[i] = right[i]
  <2>1. CASE i <= l
    BY <1>1, <1>2, <1>3, <1>4, <1>5, <2>1
  <2>2. CASE i > l /\ i <= l + m
    <3>1. left[i] = t[i - l]
      BY <1>1, <1>3, <1>4, <2>2
    <3>2. right[i] = t[i - l]
      BY <1>2, <1>3, <1>5, <2>2
    <3> QED
      BY <3>1, <3>2
  <2>3. CASE i > l + m
    <3>1. left[i] = u[i - (l + m)]
      BY <1>1, <1>3, <1>4, <2>3
    <3>2. right[i] = u[(i - l) - m]
      BY <1>2, <1>3, <1>5, <2>3
    <3>3. (i - l) - m = i - (l + m)
      BY <1>3
    <3> QED
      BY <3>1, <3>2, <3>3
  <2> QED
    BY <1>3, <2>1, <2>2, <2>3
<1>8. left = right
  BY <1>4, <1>5, <1>6, <1>7, SeqEqual
<1> QED
  BY <1>8 DEF left, right, st, tu

(* A message goes into the ring whole, or what comes after the last time   *)
(* the ring was full takes the place of all that waited.                   *)
LEMMA AddsMessage ==
  ASSUME NEW k, Good(k), NEW m \in Seq(Byte)
  PROVE  LET q == AddAll(k, m)
         IN  /\ Good(q) /\ q.port = k.port
             /\ \/ q.buffer = k.buffer \o m /\ Owed(q) = Owed(k)
                \/ EndOf(m, Len(m), q.buffer) /\ Owed(q) = 0
             /\ Len(k.buffer) + Len(m) <= KEYBUFSIZE =>
                  q.buffer = k.buffer \o m /\ Owed(q) = Owed(k)
<1> DEFINE f == Stepped(k, m)
           Sent(n) == k.buffer \o SubSeq(m, 1, n)
           Right(n) ==
             /\ Good(f[n]) /\ f[n].port = k.port
             /\ \/ f[n].buffer = Sent(n) /\ Owed(f[n]) = Owed(k)
                \/ EndOf(m, n, f[n].buffer) /\ Owed(f[n]) = 0
             /\ Len(k.buffer) + n <= KEYBUFSIZE => f[n].buffer = Sent(n) /\ Owed(f[n]) = Owed(k)
           T == {n \in Nat : n <= Len(m) => Right(n)}
<1>1. AddAll(k, m) = f[Len(m)] /\ f = [n \in 0 .. Len(m) |-> Step(k, m, n, f)]
  BY AddSteps
<1>2. /\ k.buffer \in Seq(Byte) /\ Len(k.buffer) \in Nat /\ Len(m) \in Nat
      /\ \A i \in 1 .. Len(m) : m[i] \in Byte
  BY LenProperties, ElementOfSeq, FieldsOf DEF Good, Counted
<1>3. /\ f[0] = k
      /\ \A n \in Nat : n + 1 <= Len(m) => f[n + 1] = KEYBOARD_AddBuffer(f[n], m[n + 1])
  <2> HIDE DEF f
  <2>1. f[0] = k
    BY <1>1, <1>2 DEF Step
  <2>2. ASSUME NEW n \in Nat, n + 1 <= Len(m) PROVE f[n + 1] = KEYBOARD_AddBuffer(f[n], m[n + 1])
    <3>1. n + 1 \in 0 .. Len(m) /\ n + 1 # 0 /\ n + 1 - 1 = n
      BY <1>2, <2>2
    <3>2. f[n + 1] = Step(k, m, n + 1, f)
      BY <1>1, <3>1
    <3> QED
      BY <3>1, <3>2 DEF Step
  <2> QED
    BY <2>1, <2>2
<1> HIDE DEF f
<1>4. 0 \in T
  <2>1. SubSeq(m, 1, 0) = << >>
    BY SubSeqEmpty
  <2>2. k.buffer \o << >> = k.buffer
    BY <1>2, ConcatEmptySeq
  <2> QED
    BY <1>3, <2>1, <2>2
<1>5. ASSUME NEW n \in Nat, n \in T PROVE n + 1 \in T
  <2> SUFFICES ASSUME n + 1 <= Len(m) PROVE Right(n + 1)
    <3> HIDE DEF Right
    <3> QED
      OBVIOUS
  <2> DEFINE byte == m[n + 1]
             p == f[n]
             q == f[n + 1]
             part == SubSeq(m, 1, n)
  <2>1. Right(n) /\ byte \in Byte
    <3>1. n <= Len(m) /\ n + 1 \in 1 .. Len(m)
      BY <1>2
    <3>2. byte \in Byte
      BY <1>2, <3>1
    <3> HIDE DEF Right, byte
    <3> QED
      BY <1>5, <3>1, <3>2
  <2>2. /\ Good(q) /\ q.port = p.port
        /\ q.buffer = IF Len(p.buffer) >= KEYBUFSIZE THEN << >> ELSE Append(p.buffer, byte)
        /\ Owed(q) = IF Len(p.buffer) >= KEYBUFSIZE THEN 0 ELSE Owed(p)
    <3>1. q = KEYBOARD_AddBuffer(p, byte)
      BY <1>3
    <3> HIDE DEF p, q, byte
    <3>2. Good(p)
      BY <2>1 DEF p
    <3> QED
      BY <2>1, <3>1, <3>2, AddsByte
  <2>3. part \in Seq(Byte) /\ Len(part) = n
    BY <1>2, SubSeqProperties
  <2>4. SubSeq(m, 1, n + 1) = part \o <<byte>>
    <3>1. 1 \in 1 .. Len(m) /\ n + 1 \in 1 .. Len(m) /\ n + 1 - 1 = n
      BY <1>2
    <3>2. SubSeq(m, 1, n + 1) = SubSeq(m, 1, n + 1 - 1) \o <<m[n + 1]>>
      BY <3>1, SubSeqRecursiveSecond
    <3> QED
      BY <3>1, <3>2
  <2>5. Append(Sent(n), byte) = Sent(n + 1) /\ Len(Sent(n)) = Len(k.buffer) + n
    <3> HIDE DEF part, byte
    <3>1. Sent(n) \in Seq(Byte) /\ Len(Sent(n)) = Len(k.buffer) + n
      <4>1. Sent(n) = k.buffer \o part
        BY DEF part
      <4> HIDE DEF Sent
      <4> QED
        BY <1>2, <2>3, <4>1, ConcatProperties
    <3>2. Append(part, byte) = SubSeq(m, 1, n + 1)
      BY <2>1, <2>3, <2>4, AppendIsConcat
    <3>3. Append(k.buffer \o part, byte) = k.buffer \o Append(part, byte)
      BY <1>2, <2>1, <2>3, AppendFar
    <3> QED
      BY <3>1, <3>2, <3>3 DEF part
  <2>6. EndOf(m, n + 1, << >>)
    BY EmptyEnd
  <2>7. EndOf(m, n, p.buffer) => EndOf(m, n + 1, Append(p.buffer, byte))
    BY EndGrows
  <2>8. KEYBUFSIZE \in Nat
    BY SizesAssumption
  <2>9. \/ p.buffer = Sent(n) /\ Owed(p) = Owed(k)
        \/ EndOf(m, n, p.buffer) /\ Owed(p) = 0
    <3> HIDE DEF Sent
    <3> QED
      BY <2>1
  <2>10. /\ p.port = k.port
         /\ Len(k.buffer) + n <= KEYBUFSIZE => p.buffer = Sent(n) /\ Owed(p) = Owed(k)
    BY <2>1
  <2> SUFFICES /\ Good(q) /\ q.port = k.port
               /\ \/ q.buffer = Sent(n + 1) /\ Owed(q) = Owed(k)
                  \/ EndOf(m, n + 1, q.buffer) /\ Owed(q) = 0
               /\ Len(k.buffer) + (n + 1) <= KEYBUFSIZE =>
                    q.buffer = Sent(n + 1) /\ Owed(q) = Owed(k)
    OBVIOUS
  <2> HIDE DEF p, q, byte, Sent, Right
  <2>11. \/ q.buffer = Sent(n + 1) /\ Owed(q) = Owed(k)
         \/ EndOf(m, n + 1, q.buffer) /\ Owed(q) = 0
    BY <2>2, <2>5, <2>6, <2>7, <2>9
  <2>12. ASSUME Len(k.buffer) + (n + 1) <= KEYBUFSIZE
         PROVE  q.buffer = Sent(n + 1) /\ Owed(q) = Owed(k)
    <3> DEFINE l == Len(k.buffer)
               lp == Len(p.buffer)
    <3>0. l \in Nat /\ KEYBUFSIZE \in Nat /\ l + (n + 1) <= KEYBUFSIZE
      BY <1>2, <2>8, <2>12
    <3>1. p.buffer = Sent(n) /\ Owed(p) = Owed(k)
      <4>1. l + n <= KEYBUFSIZE => p.buffer = Sent(n) /\ Owed(p) = Owed(k)
        BY <2>10
      <4> HIDE DEF l
      <4> QED
        BY <3>0, <4>1
    <3>2. lp = l + n
      BY <2>5, <3>1
    <3>3. q.buffer = Append(p.buffer, byte) /\ Owed(q) = Owed(p)
      <4>1. /\ q.buffer = IF lp >= KEYBUFSIZE THEN << >> ELSE Append(p.buffer, byte)
            /\ Owed(q) = IF lp >= KEYBUFSIZE THEN 0 ELSE Owed(p)
        BY <2>2
      <4> HIDE DEF l, lp
      <4> QED
        BY <3>0, <3>2, <4>1
    <3> QED
      BY <2>5, <3>1, <3>3
  <2> QED
    BY <2>2, <2>10, <2>11, <2>12
<1>6. Right(Len(m))
  <2> HIDE DEF Right
  <2>1. Nat \subseteq T
    BY <1>4, <1>5, NatSets
  <2> QED
    BY <1>2, <2>1
<1>7. SubSeq(m, 1, Len(m)) = m
  BY SubSeqFull
<1> QED
  BY <1>1, <1>6, <1>7

(***************************************************************************)
(* What DeviceBytes allows, as a relation between two states of the        *)
(* controller.                                                             *)
(***************************************************************************)
Begins(m, first) ==
  \A i \in 2 .. Len(Message("packet", PacketSize)) : m[first] # Message("packet", PacketSize)[i]

Hands(k, q) ==
  \/ /\ q.buffer = k.buffer /\ q.port = k.port
     /\ Owed(q) \in {Owed(k), Owed(k) + 1}
  \/ /\ q.buffer = k.buffer /\ q.port \in {None, Answer}
     /\ Owed(q) = Owed(k)
  \/ /\ q.buffer = k.buffer /\ q.port = Answer
     /\ Owed(k) > 0 /\ Owed(q) = Owed(k) - 1
  \/ q.buffer = << >> /\ q.port = k.port /\ Owed(q) = 0
  \/ q.buffer = << >> /\ q.port = None /\ Owed(q) = 2
  \/ /\ q.port = k.port /\ Owed(q) = Owed(k)
     /\ \E m \in Batches : q.buffer = k.buffer \o m
  \/ /\ q.port = k.port /\ Owed(q) = 0
     /\ \E m \in Batches : \E first \in 1 .. Len(m) :
          Begins(m, first) /\ q.buffer = SubSeq(m, first, Len(m))
  \/ /\ k.buffer # << >> /\ k.port \in {None, Answer}
     /\ Owed(k) = 0 /\ Owed(q) = 0
     /\ q.port = Head(k.buffer) /\ q.buffer = Tail(k.buffer)

LEMMA HandsImplements ==
  Hands(keyb, keyb') => [Bytes!Next]_(Bytes!bytes)
<1> SUFFICES ASSUME Hands(keyb, keyb') PROVE [Bytes!Next]_(Bytes!bytes)
  OBVIOUS
<1>0. Answers = Owed(keyb) /\ Answers' = Owed(keyb')
  BY DEF Answers, Owed
<1>1. CASE /\ keyb'.buffer = keyb.buffer /\ keyb'.port = keyb.port
           /\ Owed(keyb') \in {Owed(keyb), Owed(keyb) + 1}
  BY <1>0, <1>1 DEF Bytes!Next, Bytes!Ask, Bytes!bytes
<1>2. CASE /\ keyb'.buffer = keyb.buffer /\ keyb'.port \in {None, Answer}
           /\ Owed(keyb') = Owed(keyb)
  BY <1>0, <1>2 DEF Bytes!Next, Bytes!Take, Bytes!AnswerAtOnce
<1>3. CASE /\ keyb'.buffer = keyb.buffer /\ keyb'.port = Answer
           /\ Owed(keyb) > 0 /\ Owed(keyb') = Owed(keyb) - 1
  BY <1>0, <1>3 DEF Bytes!Next, Bytes!OfferAnswer
<1>4. CASE keyb'.buffer = << >> /\ keyb'.port = keyb.port /\ Owed(keyb') = 0
  BY <1>0, <1>4 DEF Bytes!Next, Bytes!Lose
<1>5. CASE keyb'.buffer = << >> /\ keyb'.port = None /\ Owed(keyb') = 2
  BY <1>0, <1>5 DEF Bytes!Next, Bytes!Reset
<1>6. CASE /\ keyb'.port = keyb.port /\ Owed(keyb') = Owed(keyb)
           /\ \E m \in Batches : keyb'.buffer = keyb.buffer \o m
  BY <1>0, <1>6 DEF Bytes!Next, Bytes!Send
<1>7. CASE /\ keyb'.port = keyb.port /\ Owed(keyb') = 0
           /\ \E m \in Batches : \E first \in 1 .. Len(m) :
                Begins(m, first) /\ keyb'.buffer = SubSeq(m, first, Len(m))
  <2>0. PICK m \in Batches : \E first \in 1 .. Len(m) :
          Begins(m, first) /\ keyb'.buffer = SubSeq(m, first, Len(m))
    BY <1>7
  <2>1. PICK first \in 1 .. Len(m) : Begins(m, first) /\ keyb'.buffer = SubSeq(m, first, Len(m))
    BY <2>0
  <2>2. Bytes!LoseAndSend(m, first)
    BY <1>0, <1>7, <2>1 DEF Bytes!LoseAndSend, Begins
  <2> QED
    BY <2>2 DEF Bytes!Next
<1>8. CASE /\ keyb.buffer # << >> /\ keyb.port \in {None, Answer}
           /\ Owed(keyb) = 0 /\ Owed(keyb') = 0
           /\ keyb'.port = Head(keyb.buffer) /\ keyb'.buffer = Tail(keyb.buffer)
  BY <1>0, <1>8 DEF Bytes!Next, Bytes!Offer
<1> QED
  BY <1>1, <1>2, <1>3, <1>4, <1>5, <1>6, <1>7, <1>8, Zenon DEF Hands

LEMMA MessageIs ==
  ASSUME NEW dev \in {"key", "mouse", "packet"}, NEW n \in Nat
  PROVE  /\ Message(dev, n) \in Seq(Byte) /\ Len(Message(dev, n)) = n
         /\ \A i \in 1 .. n : Message(dev, n)[i] = [dev |-> dev, part |-> i, of |-> n]
BY DEF Message, Byte

LEMMA PacketIs ==
  /\ PacketSize \in {3, 4}
  /\ Len(Message("packet", PacketSize)) = PacketSize
  /\ \A i \in 1 .. PacketSize :
       /\ Message("packet", PacketSize)[i].dev = "packet"
       /\ Message("packet", PacketSize)[i].part = i
<1> DEFINE m == Message("packet", PacketSize)
<1>1. PacketSize \in {3, 4} /\ PacketSize \in Nat /\ "packet" \in {"key", "mouse", "packet"}
  BY SizesAssumption
<1>2. Len(m) = PacketSize
  BY <1>1, MessageIs
<1>3. ASSUME NEW i \in 1 .. PacketSize PROVE m[i].dev = "packet" /\ m[i].part = i
  <2>1. m[i] = [dev |-> "packet", part |-> i, of |-> PacketSize]
    BY DEF Message
  <2> HIDE DEF m
  <2> QED
    BY <2>1
<1> QED
  BY <1>1, <1>2, <1>3

(* Messages that no packet is part of may lose their beginning.            *)
LEMMA NotOfPacket ==
  ASSUME NEW dev \in {"key", "mouse"}, NEW n \in Nat, NEW first \in 1 .. n
  PROVE  Begins(Message(dev, n), first)
<1>1. Message(dev, n)[first] = [dev |-> dev, part |-> first, of |-> n]
  BY DEF Message
<1>2. \A i \in 1 .. PacketSize : Message("packet", PacketSize)[i].dev = "packet"
  BY PacketIs
<1>3. \A i \in 2 .. Len(Message("packet", PacketSize)) : i \in 1 .. PacketSize
  BY PacketIs
<1>4. dev # "packet"
  OBVIOUS
<1> QED
  BY <1>1, <1>2, <1>3, <1>4 DEF Begins

(* The ring and the answers as they are, or as a command has cleared them. *)
Kept(k, c) ==
  /\ c.port = k.port
  /\ \/ c.buffer = k.buffer /\ Owed(c) = Owed(k)
     \/ c.buffer = << >> /\ Owed(c) = 0

(* A message of the keyboard, or an answer of the mouse, to either.        *)
LEMMA Sends ==
  ASSUME NEW k, NEW c, Good(c), Kept(k, c),
         NEW dev \in {"key", "mouse"}, NEW n \in Nat, Message(dev, n) \in Batches
  PROVE  Good(AddAll(c, Message(dev, n))) /\ Hands(k, AddAll(c, Message(dev, n)))
<1> DEFINE m == Message(dev, n)
           q == AddAll(c, m)
<1>1. m \in Seq(Byte) /\ Len(m) = n
  BY MessageIs
<1>2. m \in Batches /\ \A first \in 1 .. n : Begins(m, first)
  BY NotOfPacket
<1> SUFFICES Good(q) /\ Hands(k, q)
  OBVIOUS
<1> HIDE DEF m
<1>3. /\ Good(q) /\ q.port = k.port
      /\ \/ q.buffer = c.buffer \o m /\ Owed(q) = Owed(c)
         \/ EndOf(m, Len(m), q.buffer) /\ Owed(q) = 0
  BY <1>1, AddsMessage DEF Kept
<1> HIDE DEF q
<1>4. CASE q.buffer = k.buffer \o m /\ Owed(q) = Owed(k)
  BY <1>2, <1>3, <1>4 DEF Hands
<1>5. ASSUME EndOf(m, n, q.buffer), Owed(q) = 0 PROVE Hands(k, q)
  <2>1. PICK first \in 1 .. n + 1 : q.buffer = SubSeq(m, first, n)
    BY <1>5 DEF EndOf
  <2>2. CASE first \in 1 .. n
    <3>1. first \in 1 .. Len(m) /\ Begins(m, first) /\ q.buffer = SubSeq(m, first, Len(m))
      BY <1>1, <1>2, <2>1, <2>2
    <3> QED
      BY <1>2, <1>3, <1>5, <3>1 DEF Hands
  <2>3. CASE first = n + 1
    <3>1. SubSeq(m, n + 1, n) = << >>
      BY SubSeqEmpty
    <3> QED
      BY <1>3, <1>5, <2>1, <2>3, <3>1 DEF Hands
  <2> QED
    BY <2>2, <2>3
<1>6. CASE q.buffer = << >> \o m /\ Owed(q) = 0
  <2>1. << >> \o m = m /\ SubSeq(m, 1, Len(m)) = m
    BY <1>1, ConcatEmptySeq, SubSeqFull
  <2>2. EndOf(m, n, q.buffer)
    BY <1>1, <1>6, <2>1 DEF EndOf
  <2> QED
    BY <1>3, <1>5, <1>6, <2>2
<1> QED
  BY <1>1, <1>3, <1>4, <1>5, <1>6 DEF Kept

LEMMA Moves ==
  ASSUME NEW k, Good(k)
  PROVE  /\ Good(Movement(k)) /\ Movement(k).port = k.port
         /\ Movement(k).buffer \in {k.buffer, k.buffer \o Message("packet", PacketSize)}
         /\ Owed(Movement(k)) = Owed(k)
         /\ Hands(k, Movement(k))
<1> DEFINE m == Message("packet", PacketSize)
           q == AddAll(k, m)
<1>1. CASE k.reporting /\ k.mode = "stream" /\ Len(k.buffer) + 4 < KEYBUFSIZE
  <2>1. Movement(k) = q
    BY <1>1 DEF Movement
  <2>2. m \in Seq(Byte) /\ Len(m) = PacketSize /\ PacketSize \in {3, 4}
    BY PacketIs, MessageIs
  <2>3. Len(k.buffer) \in Nat /\ KEYBUFSIZE \in Nat
    BY LenProperties, FieldsOf, SizesAssumption DEF Good, Counted
  <2>4. m \in Batches
    BY DEF Batches
  <2> HIDE DEF m
  <2>5. Len(k.buffer) + Len(m) <= KEYBUFSIZE
    BY <1>1, <2>2, <2>3
  <2>6. Good(q) /\ q.port = k.port /\ q.buffer = k.buffer \o m /\ Owed(q) = Owed(k)
    BY <2>2, <2>5, AddsMessage
  <2> HIDE DEF q
  <2>7. Hands(k, q)
    BY <2>4, <2>6 DEF Hands
  <2> QED
    BY <2>1, <2>6, <2>7 DEF m
<1>2. CASE ~(k.reporting /\ k.mode = "stream" /\ Len(k.buffer) + 4 < KEYBUFSIZE)
  <2>1. Movement(k) = k
    BY <1>2 DEF Movement
  <2> QED
    BY <2>1 DEF Hands
<1> QED
  BY <1>1, <1>2

(***************************************************************************)
(* Commands.  Flags that no event depends on.                              *)
(***************************************************************************)
Untouched(k, q) ==
  /\ q \in Keyb /\ q.buffer = k.buffer /\ q.len8042 = k.len8042 /\ q.pos8042 = k.pos8042
  /\ q.events = k.events /\ q.scheduled = k.scheduled /\ q.port = k.port

LEMMA UntouchedGood ==
  ASSUME NEW k, NEW q, Untouched(k, q)
  PROVE  (Counted(k) => Counted(q)) /\ (Good(k) => Good(q)) /\ Owed(q) = Owed(k)
BY DEF Untouched, Counted, Asked, Good, Owed

LEMMA HandsOn ==
  ASSUME NEW k, NEW p, NEW q, q.buffer = p.buffer, q.port = p.port, Owed(q) = Owed(p),
         Hands(k, p)
  PROVE  Hands(k, q)
BY Zenon DEF Hands

LEMMA HandsSame ==
  ASSUME NEW k, NEW q, q.buffer = k.buffer, q.port = k.port,
         Owed(q) \in {Owed(k), Owed(k) + 1}
  PROVE  Hands(k, q)
BY DEF Hands

LEMMA CommandSet ==
  ASSUME NEW k \in Keyb, NEW c \in PendingCommand
  PROVE  Untouched(k, [k EXCEPT !.command = c])
BY DEF Untouched, Keyb

(* The mouse's answer to "read data" and the movement that follows it.     *)
LEMMA PolledPacket ==
  ASSUME NEW k, Good(k), NEW p, NEW q, p.port = k.port, q.port = p.port, Owed(q) = Owed(p),
         \/ p.buffer = k.buffer \o Message("mouse", 1) /\ Owed(p) = Owed(k)
         \/ EndOf(Message("mouse", 1), 1, p.buffer) /\ Owed(p) = 0,
         q.buffer = p.buffer \o Message("packet", PacketSize)
  PROVE  Hands(k, q)
<1> DEFINE one == Message("mouse", 1)
           packet == Message("packet", PacketSize)
           both == one \o packet
<1>1. /\ one \in Seq(Byte) /\ packet \in Seq(Byte) /\ Len(one) = 1 /\ Len(packet) = PacketSize
      /\ PacketSize \in {3, 4} /\ k.buffer \in Seq(Byte)
  <2>1. PacketSize \in Nat /\ "packet" \in {"key", "mouse", "packet"}
        /\ "mouse" \in {"key", "mouse", "packet"} /\ PacketSize \in {3, 4} /\ 1 \in Nat
    BY SizesAssumption
  <2> QED
    BY <2>1, MessageIs, FieldsOf DEF Good, Counted
<1>2. one[1].dev = "mouse"
  <2>1. one[1] = [dev |-> "mouse", part |-> 1, of |-> 1]
    BY DEF Message
  <2> HIDE DEF one
  <2> QED
    BY <2>1
<1>3. \A i \in 1 .. PacketSize : packet[i].dev = "packet" /\ packet[i].part = i
  BY PacketIs
<1>4. both \in Batches
  BY DEF Batches
<1>5. \/ p.buffer = k.buffer \o one /\ Owed(p) = Owed(k)
      \/ EndOf(one, 1, p.buffer) /\ Owed(p) = 0
  OBVIOUS
<1>6. q.buffer = p.buffer \o packet
  OBVIOUS
<1>7. \A first : Begins(both, first) <=> \A i \in 2 .. Len(packet) : both[first] # packet[i]
  BY DEF Begins
<1> HIDE DEF one, packet
<1>8. /\ both \in Seq(Byte) /\ Len(both) = 1 + PacketSize
      /\ both[1] = one[1] /\ both[2] = packet[1]
  <2>1. /\ both \in Seq(Byte) /\ Len(both) = 1 + PacketSize
        /\ \A i \in 1 .. 1 + PacketSize : both[i] = IF i <= 1 THEN one[i] ELSE packet[i - 1]
    <3>1. /\ both \in Seq(Byte) /\ Len(both) = Len(one) + Len(packet)
          /\ \A i \in 1 .. Len(one) + Len(packet) :
               both[i] = IF i <= Len(one) THEN one[i] ELSE packet[i - Len(one)]
      BY <1>1, ConcatProperties
    <3> HIDE DEF both
    <3> QED
      BY <1>1, <3>1
  <2> HIDE DEF both
  <2> QED
    BY <1>1, <2>1
<1>9. CASE p.buffer = k.buffer \o one /\ Owed(p) = Owed(k)
  <2>1. (k.buffer \o one) \o packet = k.buffer \o both
    BY <1>1, Regroup
  <2> HIDE DEF both
  <2>2. q.buffer = k.buffer \o both
    BY <1>6, <1>9, <2>1
  <2> QED
    BY <1>4, <1>9, <2>2 DEF Hands
<1>10. CASE EndOf(one, 1, p.buffer) /\ Owed(p) = 0
  <2>1. PICK first \in 1 .. 1 + 1 : p.buffer = SubSeq(one, first, 1)
    BY <1>10 DEF EndOf
  <2>2. ASSUME NEW n \in {1, 2}, q.buffer = SubSeq(both, n, Len(both)), Begins(both, n)
        PROVE  Hands(k, q)
    <3>1. n \in 1 .. Len(both)
      BY <1>1, <1>8
    <3> HIDE DEF both
    <3> QED
      BY <1>4, <1>10, <2>2, <3>1 DEF Hands
  <2>3. CASE first = 1
    <3>1. p.buffer = one /\ q.buffer = both
      BY <1>1, <1>6, <2>1, <2>3, SubSeqFull
    <3>2. SubSeq(both, 1, Len(both)) = both
      BY <1>8, SubSeqFull
    <3>3. Begins(both, 1)
      <4> HIDE DEF both
      <4>1. \A i \in 2 .. Len(packet) : i \in 1 .. PacketSize
        BY <1>1
      <4> QED
        BY <1>2, <1>3, <1>7, <1>8, <4>1
    <3> HIDE DEF both
    <3> QED
      BY <2>2, <3>1, <3>2, <3>3
  <2>4. CASE first = 2
    <3>1. p.buffer = << >>
      <4>1. SubSeq(one, 2, 1) = << >>
        BY SubSeqEmpty
      <4> QED
        BY <2>1, <2>4, <4>1
    <3>2. q.buffer = packet
      BY <1>1, <1>6, <3>1, ConcatEmptySeq
    <3>3. SubSeq(both, 2, Len(both)) = packet
      <4>1. /\ 2 \in Len(one) + 1 .. Len(one) + Len(packet)
            /\ Len(both) \in Len(one) + 1 .. Len(one) + Len(packet)
            /\ 2 - Len(one) = 1 /\ Len(both) - Len(one) = Len(packet)
        BY <1>1, <1>8
      <4>2. SubSeq(both, 2, Len(both)) = SubSeq(packet, 2 - Len(one), Len(both) - Len(one))
        BY <1>1, <4>1, SubSeqOfConcat2
      <4>3. SubSeq(packet, 1, Len(packet)) = packet
        BY <1>1, SubSeqFull
      <4> HIDE DEF both
      <4> QED
        BY <4>1, <4>2, <4>3
    <3>4. Begins(both, 2)
      <4> HIDE DEF both
      <4>1. \A i \in 2 .. Len(packet) : i \in 1 .. PacketSize /\ i # 1
        BY <1>1
      <4>2. packet[1].part = 1
        BY <1>1, <1>3
      <4> QED
        BY <1>3, <1>7, <1>8, <4>1, <4>2
    <3> HIDE DEF both
    <3> QED
      BY <2>2, <3>2, <3>3, <3>4
  <2> QED
    BY <2>1, <2>3, <2>4
<1> QED
  BY <1>5, <1>9, <1>10

LEMMA BatchesAre ==
  /\ \A n \in 1 .. 4 : Message("mouse", n) \in Batches
  /\ \A n \in 1 .. 3 : Message("key", n) \in Batches
  /\ \A n \in KeySizes : n \in Nat /\ Message("key", n) \in Batches
<1>1. \A n \in 1 .. 3 : n \in KeySizes \cup {1, 2, 3}
  OBVIOUS
<1> QED
  BY <1>1, SizesAssumption, Zenon DEF Batches

LEMMA MouseRepliesAre ==
  /\ DOMAIN MouseReply =
       {"ff", "f6", "f5", "f4", "f3", "f2", "f0", "ee", "ec", "eb", "ea", "e9", "e8", "e7"}
  /\ \A val \in DOMAIN MouseReply : MouseReply[val] \in 1 .. 4
  /\ MouseReply["eb"] = 1
BY DEF MouseReply

LEMMA MouseFlags ==
  ASSUME NEW k \in Keyb, NEW val \in DOMAIN MouseReply, val # "eb"
  PROVE  Untouched(k, MouseEffect(k, val))
<1>1. CASE val = "ff" \/ val = "f6"
  <2>1. MouseEffect(k, val) = [k EXCEPT !.mode = "stream", !.reporting = FALSE]
    BY <1>1 DEF MouseEffect, AUX_Reset
  <2> QED
    BY <2>1 DEF Untouched, Keyb
<1>2. CASE val = "f5"
  <2>1. MouseEffect(k, val) = [k EXCEPT !.reporting = FALSE]
    BY <1>2 DEF MouseEffect
  <2> QED
    BY <2>1 DEF Untouched, Keyb
<1>3. CASE val = "f4"
  <2>1. MouseEffect(k, val) = [k EXCEPT !.reporting = TRUE]
    BY <1>3 DEF MouseEffect
  <2> QED
    BY <2>1 DEF Untouched, Keyb
<1>4. CASE val = "f3" \/ val = "e8"
  <2>1. MouseEffect(k, val) = [k EXCEPT !.aux_command = TRUE]
    BY <1>4 DEF MouseEffect
  <2> QED
    BY <2>1 DEF Untouched, Keyb
<1>5. CASE val = "f0" \/ val = "ec"
  <2>1. MouseEffect(k, val) = [k EXCEPT !.mode = "remote"]
    BY <1>5 DEF MouseEffect
  <2> QED
    BY <2>1 DEF Untouched, Keyb
<1>6. CASE val = "ee"
  <2>1. MouseEffect(k, val) = [k EXCEPT !.mode = "wrap"]
    BY <1>6 DEF MouseEffect
  <2> QED
    BY <2>1 DEF Untouched, Keyb
<1>7. CASE val = "ea"
  <2>1. MouseEffect(k, val) = [k EXCEPT !.mode = "stream"]
    BY <1>7 DEF MouseEffect
  <2> QED
    BY <2>1 DEF Untouched, Keyb
<1>8. CASE val \in {"f2", "e9", "e7"}
  <2>1. MouseEffect(k, val) = k
    BY <1>8 DEF MouseEffect
  <2> QED
    BY <2>1 DEF Untouched
<1> QED
  BY <1>1, <1>2, <1>3, <1>4, <1>5, <1>6, <1>7, <1>8, MouseRepliesAre

LEMMA MouseAnswers ==
  ASSUME NEW k, Good(k), NEW val \in MouseCommands
  PROVE  Good(KEYBOARD_AUX_Write(k, val)) /\ Hands(k, KEYBOARD_AUX_Write(k, val))
<1> DEFINE n == MouseReply[val]
           p == AddAll(k, Message("mouse", n))
           one == AddAll(k, Message("mouse", 1))
           off == [k EXCEPT !.aux_command = FALSE]
<1>1. /\ val \in DOMAIN MouseReply /\ n \in 1 .. 4 /\ Message("mouse", n) \in Batches
      /\ Message("mouse", 1) \in Batches /\ "mouse" \in {"key", "mouse"} /\ 1 \in Nat /\ n \in Nat
  BY CommandsAssumption, MouseRepliesAre, BatchesAre
<1>2. k \in Keyb /\ Kept(k, k)
  BY DEF Good, Counted, Kept
<1>3. CASE k.mode = "wrap" /\ val \notin {"ff", "ec"}
  <2>1. KEYBOARD_AUX_Write(k, val) = one
    BY <1>3 DEF KEYBOARD_AUX_Write
  <2> HIDE DEF n
  <2> QED
    BY <1>1, <1>2, <2>1, Sends
<1>4. CASE ~(k.mode = "wrap" /\ val \notin {"ff", "ec"}) /\ k.aux_command
  <2>1. KEYBOARD_AUX_Write(k, val) = AddAll(off, Message("mouse", 1))
    BY <1>4 DEF KEYBOARD_AUX_Write
  <2>2. Untouched(k, off)
    BY <1>2 DEF Untouched, Keyb
  <2> HIDE DEF n, off
  <2>3. Good(off) /\ Kept(k, off)
    BY <2>2, UntouchedGood DEF Untouched, Kept
  <2> QED
    BY <1>1, <2>1, <2>3, Sends
<1>5. CASE ~(k.mode = "wrap" /\ val \notin {"ff", "ec"}) /\ ~k.aux_command
  <2>1. KEYBOARD_AUX_Write(k, val) = MouseEffect(p, val)
    BY <1>5 DEF KEYBOARD_AUX_Write
  <2>2. Good(p) /\ Hands(k, p)
    <3> HIDE DEF n
    <3> QED
      BY <1>1, <1>2, Sends
  <2>3. CASE val # "eb"
    <3> DEFINE q == MouseEffect(p, val)
    <3>1. p \in Keyb
      BY <2>2 DEF Good, Counted
    <3> HIDE DEF p
    <3>2. Untouched(p, q)
      BY <1>1, <2>3, <3>1, MouseFlags
    <3> HIDE DEF q
    <3>3. Good(q) /\ q.buffer = p.buffer /\ q.port = p.port /\ Owed(q) = Owed(p)
      BY <2>2, <3>2, UntouchedGood DEF Untouched
    <3>4. Hands(k, q)
      BY <2>2, <3>3, HandsOn
    <3> QED
      BY <2>1, <3>3, <3>4 DEF q
  <2>4. CASE val = "eb"
    <3> DEFINE q == Movement(one)
    <3>1. KEYBOARD_AUX_Write(k, val) = q
      <4>1. n = 1
        BY <2>4, MouseRepliesAre
      <4>2. MouseEffect(p, "eb") = Movement(p)
        <5> HIDE DEF p
        <5> QED
          BY DEF MouseEffect
      <4> QED
        BY <2>1, <2>4, <4>1, <4>2
    <3>2. Message("mouse", 1) \in Seq(Byte) /\ Len(Message("mouse", 1)) = 1
      <4>1. "mouse" \in {"key", "mouse", "packet"}
        OBVIOUS
      <4> QED
        BY <1>1, <4>1, MessageIs
    <3>3. /\ Good(one) /\ one.port = k.port
          /\ \/ one.buffer = k.buffer \o Message("mouse", 1) /\ Owed(one) = Owed(k)
             \/ EndOf(Message("mouse", 1), 1, one.buffer) /\ Owed(one) = 0
      BY <3>2, AddsMessage
    <3>4. Hands(k, one)
      <4>1. n = 1
        BY <2>4, MouseRepliesAre
      <4> QED
        BY <2>2, <4>1
    <3> HIDE DEF one
    <3>5. /\ Good(q) /\ q.port = one.port /\ Owed(q) = Owed(one)
          /\ q.buffer \in {one.buffer, one.buffer \o Message("packet", PacketSize)}
      BY <3>3, Moves
    <3> HIDE DEF q
    <3>6. CASE q.buffer = one.buffer
      <4>1. Hands(k, q)
        BY <3>4, <3>5, <3>6, HandsOn
      <4> QED
        BY <3>1, <3>5, <4>1
    <3>7. CASE q.buffer = one.buffer \o Message("packet", PacketSize)
      <4>1. Hands(k, q)
        BY <3>3, <3>5, <3>7, PolledPacket
      <4> QED
        BY <3>1, <3>5, <4>1
    <3> QED
      BY <3>5, <3>6, <3>7
  <2> QED
    BY <2>3, <2>4
<1> QED
  BY <1>3, <1>4, <1>5

(***************************************************************************)
(* The steps of the controller.                                            *)
(***************************************************************************)
LEMMA BytesDiffer ==
  Answer # None /\ \A byte \in Byte : byte # None
<1>1. Answer.dev = "8042" /\ None.dev = "none" /\ "8042" # "none"
  BY DEF Answer, None
<1>2. ASSUME NEW byte \in Byte PROVE byte # None
  <2>1. byte.dev \in {"key", "mouse", "packet"}
    BY DEF Byte
  <2> QED
    BY <1>1, <2>1
<1> QED
  BY <1>1, <1>2

LEMMA TransferStep ==
  ASSUME Good(keyb), EnableAux, KEYBOARD_TransferBuffer
  PROVE  Good(keyb') /\ Hands(keyb, keyb')
<1> DEFINE k == keyb
           fewer == [keyb EXCEPT !.events = @ - 1]
<1>1. /\ k \in Keyb /\ k.events > 0
      /\ k.pos8042 < k.len8042 \/ (k.pos8042 = 0 /\ k.len8042 = 0)
      /\ k.events = (k.len8042 - k.pos8042) + (IF k.scheduled THEN 1 ELSE 0)
      /\ k.scheduled => k.buffer # << >> /\ k.port \in {None, Answer}
      /\ k.buffer # << >> => k.scheduled \/ k.port # None
  BY DEF KEYBOARD_TransferBuffer, Good, Counted, Asked
<1>2. /\ k.buffer \in Seq(Byte) /\ k.len8042 \in Nat /\ k.pos8042 \in Nat /\ k.events \in Int
      /\ k.scheduled \in BOOLEAN /\ k.port \in Byte \cup {None, Answer}
  BY <1>1, FieldsOf
<1>3. /\ fewer \in Keyb /\ fewer.buffer = k.buffer /\ fewer.len8042 = k.len8042
      /\ fewer.pos8042 = k.pos8042 /\ fewer.events = k.events - 1
      /\ fewer.scheduled = k.scheduled /\ fewer.port = k.port
  BY <1>1 DEF Keyb
<1>4. CASE k.len8042 # 0
  <2> DEFINE last == k.pos8042 + 1 >= k.len8042
             pos == IF last THEN 0 ELSE k.pos8042 + 1
             len == IF last THEN 0 ELSE k.len8042
             q == [fewer EXCEPT !.port = Answer, !.pos8042 = pos, !.len8042 = len]
  <2>1. keyb' = q
    <3>1. keyb' = [fewer EXCEPT !.port = Answer,
                                !.pos8042 = IF last THEN 0 ELSE @ + 1,
                                !.len8042 = IF last THEN 0 ELSE @]
      BY <1>3, <1>4 DEF KEYBOARD_TransferBuffer
    <3> HIDE DEF fewer, last
    <3> QED
      BY <1>3, <3>1
  <2>2. /\ pos \in Nat /\ len \in Nat
        /\ pos < len \/ (pos = 0 /\ len = 0)
        /\ len - pos = (k.len8042 - k.pos8042) - 1
    BY <1>1, <1>2, <1>4
  <2> HIDE DEF fewer, last, pos, len
  <2>3. /\ q \in Keyb /\ q.buffer = k.buffer /\ q.len8042 = len /\ q.pos8042 = pos
        /\ q.events = k.events - 1 /\ q.scheduled = k.scheduled /\ q.port = Answer
    <3>1. pos \in Nat /\ len \in Nat
      BY <2>2
    <3> DEFINE answer == Answer
               r == [fewer EXCEPT !.port = answer]
    <3>2. answer \in Byte \cup {None, Answer}
      OBVIOUS
    <3> HIDE DEF answer
    <3>3. /\ r \in Keyb /\ r.buffer = k.buffer /\ r.events = k.events - 1
          /\ r.scheduled = k.scheduled /\ r.port = answer
      BY <1>3, <3>2 DEF Keyb
    <3>4. q = [r EXCEPT !.pos8042 = pos, !.len8042 = len]
      BY DEF answer
    <3> HIDE DEF r
    <3> QED
      BY <3>1, <3>3, <3>4 DEF Keyb, answer
  <2> HIDE DEF q
  <2>4. q.events = (q.len8042 - q.pos8042) + (IF q.scheduled THEN 1 ELSE 0)
    BY <1>1, <1>2, <2>2, <2>3
  <2>5. Good(q)
    BY <1>1, <2>2, <2>3, <2>4, BytesDiffer DEF Good, Counted, Asked
  <2>6. Hands(k, q)
    <3>1. Owed(k) > 0 /\ Owed(q) = Owed(k) - 1
      BY <1>1, <1>2, <1>4, <2>2, <2>3 DEF Owed
    <3> QED
      BY <2>3, <3>1 DEF Hands
  <2> QED
    BY <2>1, <2>5, <2>6
<1>5. CASE k.len8042 = 0
  <2> DEFINE head == Head(k.buffer)
             tail == Tail(k.buffer)
             off == FALSE
             q == [fewer EXCEPT !.scheduled = off, !.port = head, !.buffer = tail]
  <2>1. k.scheduled /\ k.events = 1 /\ k.pos8042 = 0 /\ k.buffer # << >>
    BY <1>1, <1>2, <1>5
  <2>2. keyb' = q
    <3>1. keyb' = [fewer EXCEPT !.scheduled = FALSE, !.port = Head(fewer.buffer),
                                !.buffer = Tail(@)]
      BY <1>3, <1>5, <2>1 DEF KEYBOARD_TransferBuffer
    <3> HIDE DEF fewer
    <3> QED
      BY <1>3, <3>1
  <2>3. head \in Byte /\ tail \in Seq(Byte) /\ off \in BOOLEAN
    BY <1>2, <2>1, HeadTailProperties
  <2> HIDE DEF fewer, head, tail, off
  <2>4. /\ q \in Keyb /\ q.buffer = tail /\ q.len8042 = k.len8042 /\ q.pos8042 = k.pos8042
        /\ q.events = k.events - 1 /\ q.scheduled = off /\ q.port = head
    BY <1>3, <2>3 DEF Keyb
  <2> HIDE DEF q
  <2>5. Good(q)
    <3>1. head # None
      BY <2>3, BytesDiffer
    <3> QED
      BY <1>5, <2>1, <2>4, <3>1 DEF Good, Counted, Asked, off
  <2>6. Hands(k, q)
    <3>1. Owed(k) = 0 /\ Owed(q) = 0
      BY <1>5, <2>1, <2>4 DEF Owed
    <3> QED
      BY <1>1, <2>1, <2>4, <3>1 DEF Hands, head, tail
  <2> QED
    BY <2>2, <2>5, <2>6
<1> QED
  BY <1>4, <1>5

LEMMA ResetDelayStep ==
  ASSUME Good(keyb), KEYBOARD_ResetDelay
  PROVE  Good(keyb') /\ Hands(keyb, keyb')
<1> DEFINE k == [keyb EXCEPT !.reset = FALSE]
           q == KEYBOARD_Add8042Response(k)
<1>1. Untouched(keyb, k)
  BY DEF Untouched, Good, Counted, Keyb
<1>2. keyb' = q
  BY DEF KEYBOARD_ResetDelay
<1> HIDE DEF k
<1>3. Good(k)
  BY <1>1, UntouchedGood
<1>4. Good(q) /\ q.buffer = k.buffer /\ q.port = k.port /\ Owed(q) = Owed(k) + 1
  BY <1>3, Responds
<1> HIDE DEF q
<1> QED
  BY <1>1, <1>2, <1>4, HandsSame, UntouchedGood DEF Untouched

LEMMA KeyStep ==
  ASSUME Good(keyb), NEW n \in KeySizes,
         NEW repeating \in BOOLEAN,
         keyb' = AddAll([keyb EXCEPT !.repeating = repeating], Message("key", n))
  PROVE  Good(keyb') /\ Hands(keyb, keyb')
<1> DEFINE c == [keyb EXCEPT !.repeating = repeating]
<1>1. Untouched(keyb, c)
  BY DEF Untouched, Good, Counted, Keyb
<1>2. n \in Nat /\ Message("key", n) \in Batches /\ "key" \in {"key", "mouse"}
  BY BatchesAre
<1> HIDE DEF c
<1>3. Good(c) /\ Kept(keyb, c)
  BY <1>1, UntouchedGood DEF Untouched, Kept
<1>4. Good(AddAll(c, Message("key", n))) /\ Hands(keyb, AddAll(c, Message("key", n)))
  BY <1>2, <1>3, Sends
<1> QED
  BY <1>4 DEF c

LEMMA RepeatStep ==
  ASSUME Good(keyb), NEW n \in KeySizes, KEYBOARD_TickHandler(n)
  PROVE  Good(keyb') /\ Hands(keyb, keyb')
<1>1. n \in Nat /\ Message("key", n) \in Batches /\ "key" \in {"key", "mouse"}
  BY BatchesAre
<1>2. Good(AddAll(keyb, Message("key", n))) /\ Hands(keyb, AddAll(keyb, Message("key", n)))
  BY <1>1, Sends DEF Kept
<1> QED
  BY <1>2 DEF KEYBOARD_TickHandler

LEMMA ClearStep ==
  ASSUME Good(keyb), KEYBOARD_Clear
  PROVE  Good(keyb') /\ Hands(keyb, keyb')
<1> DEFINE k == [keyb EXCEPT !.repeating = FALSE]
<1>1. Untouched(keyb, k)
  BY DEF Untouched, Good, Counted, Keyb
<1>2. keyb' = KEYBOARD_ClrBuffer(k)
  BY DEF KEYBOARD_Clear
<1> HIDE DEF k
<1>3. Good(keyb') /\ keyb'.buffer = << >> /\ keyb'.port = keyb.port /\ Owed(keyb') = 0
  BY <1>1, <1>2, Clears DEF Untouched
<1> QED
  BY <1>3 DEF Hands

LEMMA ReadStep ==
  ASSUME Good(keyb), read_p60
  PROVE  Good(keyb') /\ Hands(keyb, keyb')
<1> DEFINE k == [keyb EXCEPT !.port = None]
           q == StartTransfer(k)
<1>1. Counted(k) /\ k.buffer = keyb.buffer /\ k.port = None /\ Owed(k) = Owed(keyb)
  <2>1. keyb \in Keyb
    BY DEF Good, Counted
  <2>2. /\ k \in Keyb /\ k.buffer = keyb.buffer /\ k.len8042 = keyb.len8042 /\ k.port = None
        /\ k.pos8042 = keyb.pos8042 /\ k.events = keyb.events /\ k.scheduled = keyb.scheduled
    BY <2>1 DEF Keyb
  <2> HIDE DEF k
  <2> QED
    BY <2>2 DEF Good, Counted, Owed
<1>2. keyb' = q
  BY DEF read_p60
<1> HIDE DEF k
<1>3. Good(q) /\ q.buffer = k.buffer /\ q.port = k.port /\ Owed(q) = Owed(k)
  BY <1>1, Starts
<1> HIDE DEF q
<1> QED
  BY <1>1, <1>2, <1>3 DEF Hands

LEMMA ResetIs ==
  ASSUME NEW k \in Keyb
  PROVE  LET q == KEYBOARD_Reset(k)
         IN  Good(q) /\ q.buffer = << >> /\ q.port = None /\ Owed(q) = 0
<1> DEFINE q == KEYBOARD_Reset(k)
<1> SUFFICES Good(q) /\ q.buffer = << >> /\ q.port = None /\ Owed(q) = 0
  OBVIOUS
<1>1. << >> \in Seq(Byte)
  BY EmptySeq
<1>2. k.mode \in {"stream", "remote", "wrap"} /\ k.reporting \in BOOLEAN
  BY DEF Keyb
<1>3. Fresh \in Keyb
  BY <1>1 DEF Fresh, Keyb, PendingCommand
<1>4. /\ Fresh.buffer = << >> /\ Fresh.len8042 = 0 /\ Fresh.pos8042 = 0
      /\ Fresh.events = 0 /\ Fresh.scheduled = FALSE /\ Fresh.port = None
  BY DEF Fresh
<1>5. Untouched(Fresh, q)
  BY <1>2, <1>3 DEF KEYBOARD_Reset, Untouched, Keyb
<1> HIDE DEF q
<1> QED
  BY <1>3, <1>4, <1>5 DEF Untouched, Good, Counted, Asked, Owed

LEMMA ResetStep ==
  ASSUME NEW k, NEW c \in Keyb, NEW q,
         q = [KEYBOARD_Add8042Response(KEYBOARD_Add8042Response(KEYBOARD_Reset(c)))
                EXCEPT !.reset = TRUE]
  PROVE  Good(q) /\ Hands(k, q)
<1> DEFINE r == KEYBOARD_Reset(c)
           s == KEYBOARD_Add8042Response(r)
           t == KEYBOARD_Add8042Response(s)
<1>1. Good(r) /\ r.buffer = << >> /\ r.port = None /\ Owed(r) = 0
  BY ResetIs
<1>0. q = [t EXCEPT !.reset = TRUE]
  OBVIOUS
<1> HIDE DEF r
<1>2. Good(s) /\ s.buffer = r.buffer /\ s.port = r.port /\ Owed(s) = 1
  BY <1>1, Responds
<1> HIDE DEF s
<1>3. Good(t) /\ t.buffer = s.buffer /\ t.port = s.port /\ Owed(t) = 2
  BY <1>2, Responds
<1> HIDE DEF t
<1>4. Untouched(t, q)
  BY <1>0, <1>3 DEF Untouched, Good, Counted, Keyb
<1> QED
  BY <1>1, <1>2, <1>3, <1>4, UntouchedGood DEF Untouched, Hands

LEMMA RepliesAre ==
  /\ DOMAIN Reply = {"ed", "ee", "f0", "f2", "f3", "f4", "f5", "f6"}
  /\ \A val \in DOMAIN Reply : Reply[val] \in 1 .. 3
  /\ \A val \in DOMAIN Reply : Parameter(val) \in PendingCommand
BY DEF Reply, Parameter, PendingCommand

LEMMA CommandStep ==
  ASSUME Good(keyb), NEW val \in KeyboardCommands, write_p60_Command(val)
  PROVE  Good(keyb') /\ Hands(keyb, keyb')
<1> DEFINE k == KEYBOARD_ClrBuffer(keyb)
           on == IF val \in {"f4", "f6"} THEN TRUE
                 ELSE IF val = "f5" THEN FALSE ELSE k.scanning
           c == [k EXCEPT !.command = Parameter(val), !.scanning = on]
           n == Reply[val]
<1>1. Good(k) /\ k.buffer = << >> /\ k.port = keyb.port /\ Owed(k) = 0
  BY Clears DEF Good, Counted
<1>2. CASE val = "ff"
  <2>1. keyb' = [KEYBOARD_Add8042Response(KEYBOARD_Add8042Response(KEYBOARD_Reset(k)))
                   EXCEPT !.reset = TRUE]
    BY <1>2 DEF write_p60_Command
  <2> HIDE DEF k
  <2> QED
    BY <1>1, <2>1, ResetStep DEF Good, Counted
<1>3. CASE val # "ff"
  <2>1. keyb' = AddAll(c, Message("key", n))
    BY <1>3 DEF write_p60_Command
  <2>2. val \in DOMAIN Reply
    BY <1>3, CommandsAssumption
  <2>3. /\ n \in 1 .. 3 /\ n \in Nat /\ Message("key", n) \in Batches
        /\ "key" \in {"key", "mouse"} /\ Parameter(val) \in PendingCommand
    BY <2>2, RepliesAre, BatchesAre
  <2> HIDE DEF k, n
  <2>4. k \in Keyb /\ on \in BOOLEAN
    BY <1>1 DEF Good, Counted, Keyb
  <2> HIDE DEF on
  <2>5. Untouched(k, c)
    BY <2>3, <2>4 DEF Untouched, Keyb
  <2> HIDE DEF c
  <2>6. Good(c) /\ Kept(keyb, c)
    BY <1>1, <2>5, UntouchedGood DEF Untouched, Kept
  <2> QED
    BY <2>1, <2>3, <2>6, Sends
<1> QED
  BY <1>2, <1>3

LEMMA ParameterStep ==
  ASSUME Good(keyb), write_p60_Parameter
  PROVE  Good(keyb') /\ Hands(keyb, keyb')
<1> DEFINE k == [keyb EXCEPT !.command = "none"]
<1>1. keyb \in Keyb /\ "none" \in PendingCommand
  BY DEF Good, Counted, PendingCommand
<1>2. Untouched(keyb, k)
  BY <1>1, CommandSet
<1>3. \/ \E n \in {1, 2} : keyb' = AddAll(k, Message("key", n))
      \/ \E val \in MouseCommands : keyb' = KEYBOARD_AUX_Write(k, val)
      \/ keyb' = AddAll(keyb, Message("mouse", 1))
      \/ keyb' = k
      \/ keyb' = AddAll(KEYBOARD_ClrBuffer(k), Message("key", 1))
      \/ \E on, aux \in BOOLEAN :
           LET set == [k EXCEPT !.active = on, !.auxactive = aux]
           IN  keyb' = IF on THEN StartTransfer(set) ELSE set
  BY Zenon DEF write_p60_Parameter
<1> HIDE DEF k
<1>4. /\ Good(k) /\ k.port = keyb.port /\ k.buffer = keyb.buffer /\ Owed(k) = Owed(keyb)
      /\ k \in Keyb /\ Kept(keyb, k) /\ Kept(keyb, keyb)
  BY <1>2, UntouchedGood DEF Untouched, Kept
<1>5. /\ \A n \in {1, 2} : Message("key", n) \in Batches /\ n \in Nat
      /\ Message("mouse", 1) \in Batches /\ 1 \in Nat
      /\ "key" \in {"key", "mouse"} /\ "mouse" \in {"key", "mouse"}
  BY BatchesAre
<1>6. CASE \E n \in {1, 2} : keyb' = AddAll(k, Message("key", n))
  BY <1>4, <1>5, <1>6, Sends
<1>7. CASE \E val \in MouseCommands : keyb' = KEYBOARD_AUX_Write(k, val)
  <2>1. Good(keyb') /\ Hands(k, keyb')
    BY <1>4, <1>7, MouseAnswers
  <2>2. Hands(keyb, keyb')
    BY <1>4, <2>1, Zenon DEF Hands
  <2> QED
    BY <2>1, <2>2
<1>8. CASE keyb' = AddAll(keyb, Message("mouse", 1))
  BY <1>4, <1>5, <1>8, Sends
<1>9. CASE keyb' = k
  BY <1>4, <1>9, HandsSame
<1>10. CASE keyb' = AddAll(KEYBOARD_ClrBuffer(k), Message("key", 1))
  <2> DEFINE c == KEYBOARD_ClrBuffer(k)
  <2>1. Good(c) /\ c.buffer = << >> /\ c.port = k.port /\ Owed(c) = 0
    BY <1>4, Clears
  <2> HIDE DEF c
  <2>2. Good(c) /\ Kept(keyb, c)
    BY <1>4, <2>1 DEF Kept
  <2>3. keyb' = AddAll(c, Message("key", 1))
    BY <1>10 DEF c
  <2> QED
    BY <1>5, <2>2, <2>3, Sends
<1>11. CASE \E on, aux \in BOOLEAN :
           LET set == [k EXCEPT !.active = on, !.auxactive = aux]
           IN  keyb' = IF on THEN StartTransfer(set) ELSE set
  <2>1. PICK on \in BOOLEAN, aux \in BOOLEAN :
           LET set == [k EXCEPT !.active = on, !.auxactive = aux]
           IN  keyb' = IF on THEN StartTransfer(set) ELSE set
    BY <1>11
  <2> DEFINE set == [k EXCEPT !.active = on, !.auxactive = aux]
  <2>2. keyb' = IF on THEN StartTransfer(set) ELSE set
    BY <2>1
  <2>3. Untouched(k, set)
    BY <1>4 DEF Untouched, Keyb
  <2> HIDE DEF set
  <2>4. Good(set) /\ set.buffer = k.buffer /\ set.port = k.port /\ Owed(set) = Owed(k)
    BY <1>4, <2>3, UntouchedGood DEF Untouched
  <2>5. CASE on
    <3> DEFINE q == StartTransfer(set)
    <3>1. Good(q) /\ q.buffer = set.buffer /\ q.port = set.port /\ Owed(q) = Owed(set)
      BY <2>4, Starts DEF Good
    <3>2. keyb' = q
      BY <2>2, <2>5
    <3> HIDE DEF q
    <3> QED
      BY <1>4, <2>4, <3>1, <3>2, HandsSame
  <2>6. CASE ~on
    BY <1>4, <2>2, <2>4, <2>6, HandsSame
  <2> QED
    BY <2>5, <2>6
<1> QED
  BY <1>3, <1>6, <1>7, <1>8, <1>9, <1>10, <1>11

LEMMA SetsFlag ==
  ASSUME NEW k, Good(k), NEW q, Untouched(k, q)
  PROVE  /\ Good(q) /\ Hands(k, q)
         /\ Good(StartTransfer(q)) /\ Hands(k, StartTransfer(q))
         /\ Good(KEYBOARD_Add8042Response(q)) /\ Hands(k, KEYBOARD_Add8042Response(q))
<1> DEFINE s == StartTransfer(q)
           r == KEYBOARD_Add8042Response(q)
<1>1. Good(q) /\ q.buffer = k.buffer /\ q.port = k.port /\ Owed(q) = Owed(k)
  BY UntouchedGood DEF Untouched
<1>2. Good(s) /\ s.buffer = q.buffer /\ s.port = q.port /\ Owed(s) = Owed(q)
  BY <1>1, Starts DEF Good
<1>3. Good(r) /\ r.buffer = q.buffer /\ r.port = q.port /\ Owed(r) = Owed(q) + 1
  BY <1>1, Responds
<1> HIDE DEF s, r
<1>4. Hands(k, q) /\ Hands(k, s) /\ Hands(k, r)
  BY <1>1, <1>2, <1>3, HandsSame
<1> QED
  BY <1>1, <1>2, <1>3, <1>4 DEF s, r

LEMMA ControllerStep ==
  ASSUME Good(keyb), NEW val \in ControllerCommands, write_p64(val)
  PROVE  Good(keyb') /\ Hands(keyb, keyb')
<1> DEFINE off == [keyb EXCEPT !.active = FALSE]
           on == [keyb EXCEPT !.active = TRUE]
           aux == [keyb EXCEPT !.auxactive = TRUE]
           waits(c) == [keyb EXCEPT !.command = c]
           offer == [keyb EXCEPT !.port = Answer]
<1>1. keyb \in Keyb
  BY DEF Good, Counted
<1>2. /\ Untouched(keyb, keyb) /\ Untouched(keyb, off) /\ Untouched(keyb, on)
      /\ Untouched(keyb, aux)
  BY <1>1 DEF Untouched, Keyb
<1>3. \A c \in {"setcommand", "setoutport", "writeoutput", "writeauxout", "writeaux"} :
        Untouched(keyb, waits(c))
  BY <1>1, CommandSet DEF PendingCommand
<1>4. Good(offer) /\ Hands(keyb, offer)
  <2> DEFINE answer == Answer
             q == [keyb EXCEPT !.port = answer]
  <2> SUFFICES Good(q) /\ Hands(keyb, q)
    OBVIOUS
  <2>1. answer \in Byte \cup {None, Answer}
    OBVIOUS
  <2> HIDE DEF answer
  <2>2. /\ q \in Keyb /\ q.buffer = keyb.buffer /\ q.len8042 = keyb.len8042
        /\ q.pos8042 = keyb.pos8042 /\ q.events = keyb.events
        /\ q.scheduled = keyb.scheduled /\ q.port = answer
    BY <1>1, <2>1 DEF Keyb
  <2> HIDE DEF q
  <2> QED
    BY <2>2, BytesDiffer DEF Good, Counted, Asked, Hands, Owed, answer
<1>5. \/ keyb' = KEYBOARD_Add8042Response(off) \/ keyb' = KEYBOARD_Add8042Response(keyb)
      \/ keyb' = offer \/ keyb' = StartTransfer(aux) \/ keyb' = keyb \/ keyb' = off
      \/ keyb' = StartTransfer(on)
      \/ \E c \in {"setcommand", "setoutport", "writeoutput", "writeauxout", "writeaux"} :
           keyb' = waits(c)
  <2>1. val \in Asks \cup {"d0", "a8", "ad", "ae", "60", "d1", "d2", "d3", "d4"}
    BY CommandsAssumption
  <2>2. val \in {"20", "a9", "aa", "ab", "c0", "e0", "d0", "a8", "ad", "ae", "60", "d1", "d2",
                 "d3", "d4"}
    BY <2>1 DEF Asks
  <2>3. CASE val \in {"aa", "ab"}
    BY <2>3 DEF write_p64
  <2>4. CASE val \in {"20", "a9", "c0", "e0"}
    BY <2>4 DEF write_p64
  <2>5. CASE val = "d0"
    BY <2>5 DEF write_p64
  <2>6. CASE val = "a8"
    BY <2>6 DEF write_p64
  <2>7. CASE val = "ad"
    BY <2>7 DEF write_p64
  <2>8. CASE val = "ae"
    BY <2>8 DEF write_p64
  <2>9. CASE val = "60"
    BY <2>9 DEF write_p64
  <2>10. CASE val = "d1"
    BY <2>10 DEF write_p64
  <2>11. CASE val = "d2"
    BY <2>11 DEF write_p64
  <2>12. CASE val = "d3"
    BY <2>12 DEF write_p64
  <2>13. CASE val = "d4"
    BY <2>13 DEF write_p64
  <2> HIDE DEF off, on, aux, waits, offer
  <2> QED
    BY <2>2, <2>3, <2>4, <2>5, <2>6, <2>7, <2>8, <2>9, <2>10, <2>11, <2>12, <2>13
<1> HIDE DEF off, on, aux, waits, offer
<1> QED
  BY <1>2, <1>3, <1>4, <1>5, SetsFlag

LEMMA NextKeeps ==
  ASSUME Good(keyb), EnableAux, [Next]_vars
  PROVE  Good(keyb') /\ Hands(keyb, keyb')
<1>1. CASE KEYBOARD_TransferBuffer
  BY <1>1, TransferStep
<1>2. CASE KEYBOARD_ResetDelay
  BY <1>2, ResetDelayStep
<1>3. ASSUME NEW n \in KeySizes, NEW pressed \in BOOLEAN, KEYBOARD_AddKey(n, pressed)
      PROVE  Good(keyb') /\ Hands(keyb, keyb')
  <2>1. PICK repeating \in {pressed, pressed \/ keyb.repeating} :
          keyb' = AddAll([keyb EXCEPT !.repeating = repeating], Message("key", n))
    BY <1>3 DEF KEYBOARD_AddKey
  <2>2. repeating \in BOOLEAN
    OBVIOUS
  <2> QED
    BY <2>1, <2>2, KeyStep
<1>4. ASSUME NEW n \in KeySizes, KEYBOARD_TickHandler(n)
      PROVE  Good(keyb') /\ Hands(keyb, keyb')
  BY <1>4, RepeatStep
<1>5. CASE KEYBOARD_AUX_Event
  BY <1>5, Moves DEF KEYBOARD_AUX_Event
<1>6. CASE KEYBOARD_Clear
  BY <1>6, ClearStep
<1>7. CASE read_p60
  BY <1>7, ReadStep
<1>8. ASSUME NEW val \in KeyboardCommands, write_p60_Command(val)
      PROVE  Good(keyb') /\ Hands(keyb, keyb')
  BY <1>8, CommandStep
<1>9. CASE write_p60_Parameter
  BY <1>9, ParameterStep
<1>10. ASSUME NEW val \in ControllerCommands, write_p64(val)
       PROVE  Good(keyb') /\ Hands(keyb, keyb')
  BY <1>10, ControllerStep
<1>11. CASE UNCHANGED vars
  BY <1>11, HandsSame DEF vars, Owed
<1> QED
  BY <1>1, <1>2, <1>3, <1>4, <1>5, <1>6, <1>7, <1>8, <1>9, <1>10, <1>11 DEF Next

LEMMA AlwaysGood ==
  ASSUME EnableAux
  PROVE  Spec => []Good(keyb)
<1>1. Good(keyb) /\ [Next]_vars => Good(keyb)'
  BY NextKeeps
<1> QED
  BY <1>1, InitGood, PTL DEF Spec

(***************************************************************************)
(* The properties of the controller.                                       *)
(***************************************************************************)

(* Exactly one KEYBOARD_TransferBuffer is queued for each answer that      *)
(* waits, and one for the ring if it is scheduled; a ring that holds bytes *)
(* is scheduled or has a byte on offer.  The eleven places that test       *)
(* scheduled and p60changed agree, also when a full ring is emptied in the *)
(* middle of a message.                                                    *)
THEOREM EventsAreNeeded ==
  ASSUME EnableAux
  PROVE  Spec => []EventsMatch
<1>1. Good(keyb) => EventsMatch
  BY DEF Good, Counted, Asked, EventsMatch, Answers
<1> QED
  BY <1>1, AlwaysGood, PTL

(* For every size of the ring, of scan codes and of packets, the bytes     *)
(* reach port 60h as DeviceBytes says: in the order they were sent, none   *)
(* replaced by another before it is read, unless by an answer that was     *)
(* asked for while it was on offer; movements are sent to the ring whole.  *)
THEOREM RingImplements ==
  ASSUME EnableAux
  PROVE  Spec => KeepsBytes
<1>1. Init => Bytes!Init
  BY DEF Init, Fresh, Answers, Bytes!Init
<1>2. Good(keyb) /\ [Next]_vars => [Bytes!Next]_(Bytes!bytes)
  BY NextKeeps, HandsImplements
<1> QED
  BY <1>1, <1>2, AlwaysGood, PTL DEF Spec, KeepsBytes, Bytes!Spec

=============================================================================
