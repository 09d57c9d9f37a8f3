-------------------------- MODULE EventQueueProofs --------------------------
(***************************************************************************)
(* Theorems about the event queue: for every number of entries, every      *)
(* speed of the CPU and whatever handlers queue and remove, the lists stay *)
(* sound and sorted, the CPU stops in time for the first event and events  *)
(* are served on time; and, in a system without the disturbances that      *)
(* EventQueue names, the queue keeps the promise of EventSchedule.         *)
(***************************************************************************)
EXTENDS EventQueueRefines, SequenceTheorems, FunctionTheorems, FiniteSetTheorems, NaturalsInduction,
        WellFoundedInduction, TLAPS

(***************************************************************************)
(* Induction over the natural numbers, and what Kept computes.             *)
(***************************************************************************)
LEMMA LeastNat ==
  ASSUME NEW T, T \subseteq Nat, T # {}
  PROVE  \E i \in T : \A j \in T : i <= j
<1>1. PICK i \in T : \A j \in T : ~(<<j, i>> \in OpToRel(<, Nat))
  BY NatLessThanWellFounded, WFMin
<1>2. ASSUME NEW j \in T PROVE i <= j
  <2>1. <<j, i>> \in Nat \X Nat
    OBVIOUS
  <2>2. ~ (j < i)
    BY <1>1, <2>1 DEF OpToRel
  <2> QED
    BY <2>2
<1> QED
  BY <1>2

LEMMA NatSets ==
  ASSUME NEW T, 0 \in T, \A n \in Nat : n \in T => n + 1 \in T
  PROVE  Nat \subseteq T
<1> DEFINE Bad == Nat \ T
<1> SUFFICES ASSUME Bad # {} PROVE FALSE
  OBVIOUS
<1>1. PICK i \in Bad : \A j \in Bad : i <= j
  BY LeastNat
<1>2. i - 1 \in Nat /\ i - 1 \notin Bad
  BY <1>1
<1>3. i - 1 + 1 \in T
  BY <1>2
<1> QED
  BY <1>1, <1>3

(* The recursive function of Kept, and that there is one.                  *)
Step(s, keep, n, f) ==
  IF n = 0 THEN <<>> ELSE IF s[n] \in keep THEN Append(f[n - 1], s[n]) ELSE f[n - 1]

Stepped(s, keep) == CHOOSE f : f = [n \in 0 .. Len(s) |-> Step(s, keep, n, f)]

LEMMA KeptSteps ==
  ASSUME NEW T, NEW s \in Seq(T), NEW keep
  PROVE  LET f == Stepped(s, keep)
         IN  /\ Kept(s, keep) = f[Len(s)]
             /\ f = [n \in 0 .. Len(s) |-> Step(s, keep, n, f)]
<1> DEFINE Upto(m) == {f \in [0 .. m -> Seq(T)] : \A n \in 0 .. m : f[n] = Step(s, keep, n, f)}
           Ms == {m \in Nat : m <= Len(s) => \E f : f \in Upto(m)}
<1>1. Kept(s, keep) = Stepped(s, keep)[Len(s)]
  BY Zenon DEF Kept, Step, Stepped
<1>2. 0 \in Ms
  <2> DEFINE f == [n \in 0 .. 0 |-> <<>>]
  <2>1. f \in Upto(0)
    BY DEF Step
  <2> HIDE DEF Upto
  <2> QED
    BY <2>1
<1>3. ASSUME NEW m \in Nat, m \in Ms PROVE m + 1 \in Ms
  <2> SUFFICES ASSUME m + 1 <= Len(s) PROVE \E f : f \in Upto(m + 1)
    <3> HIDE DEF Upto
    <3> QED
      OBVIOUS
  <2>1. PICK f : f \in Upto(m)
    BY <1>3
  <2> DEFINE new == IF s[m + 1] \in keep THEN Append(f[m], s[m + 1]) ELSE f[m]
             g == [n \in 0 .. m + 1 |-> IF n = m + 1 THEN new ELSE f[n]]
  <2>2. new \in Seq(T)
    BY <2>1
  <2>3. \A n \in 0 .. m : g[n] = f[n] /\ f[n] \in Seq(T)
    BY <2>1
  <2>4. g \in [0 .. m + 1 -> Seq(T)] /\ g[m + 1] = new
    <3>1. \A n \in 0 .. m + 1 : n # m + 1 => n \in 0 .. m
      OBVIOUS
    <3> HIDE DEF new
    <3>2. \A n \in 0 .. m + 1 : (IF n = m + 1 THEN new ELSE f[n]) \in Seq(T)
      BY <2>1, <2>2, <3>1
    <3> QED
      BY <3>2
  <2>5. \A n \in 0 .. m + 1 : g[n] = Step(s, keep, n, g)
    <3> HIDE DEF g
    <3> TAKE n \in 0 .. m + 1
    <3>1. CASE n = m + 1
      <4>1. g[n - 1] = f[m]
        BY <2>3, <3>1
      <4> QED
        BY <2>4, <3>1, <4>1 DEF Step
    <3>2. CASE n # m + 1
      <4>1. n \in 0 .. m /\ f[n] = Step(s, keep, n, f)
        BY <2>1, <3>2
      <4>2. n # 0 => n - 1 \in 0 .. m /\ g[n - 1] = f[n - 1]
        BY <2>3, <4>1
      <4>3. Step(s, keep, n, g) = Step(s, keep, n, f)
        BY <4>2, Zenon DEF Step
      <4> QED
        BY <2>3, <4>1, <4>3
    <3> QED
      BY <3>1, <3>2
  <2>6. g \in Upto(m + 1)
    BY <2>4, <2>5
  <2> HIDE DEF Upto, g
  <2> QED
    BY <2>6
<1>4. \E f : f \in Upto(Len(s))
  <2> HIDE DEF Upto
  <2>1. Nat \subseteq Ms
    BY <1>2, <1>3, NatSets
  <2> QED
    BY <2>1, LenProperties
<1>5. PICK f : f \in Upto(Len(s))
  BY <1>4
<1>6. f = [n \in 0 .. Len(s) |-> Step(s, keep, n, f)]
  BY <1>5
<1>7. Stepped(s, keep) = [n \in 0 .. Len(s) |-> Step(s, keep, n, Stepped(s, keep))]
  BY <1>6, Zenon DEF Stepped
<1> QED
  BY <1>1, <1>7

(* t is s without some of its elements: g says where those of t stand. *)
Places(t, s, keep, m, g) ==
  /\ t \in Seq({s[i] : i \in DOMAIN s})
  /\ g \in [1 .. Len(t) -> 1 .. m]
  /\ \A i \in 1 .. Len(t) : t[i] = s[g[i]] /\ t[i] \in keep
  /\ \A i, j \in 1 .. Len(t) : i < j => g[i] < g[j]
  /\ \A k \in 1 .. m : s[k] \in keep => \E i \in 1 .. Len(t) : g[i] = k

LEMMA KeptPlaces ==
  ASSUME NEW T, NEW s \in Seq(T), NEW keep
  PROVE  \E g : Places(Kept(s, keep), s, keep, Len(s), g)
<1> DEFINE f == Stepped(s, keep)
           Ms == {m \in Nat : m <= Len(s) => \E g : Places(f[m], s, keep, m, g)}
<1>1. \A n \in 0 .. Len(s) : f[n] = Step(s, keep, n, f)
  <2>1. f = [n \in 0 .. Len(s) |-> Step(s, keep, n, f)]
    BY KeptSteps
  <2> HIDE DEF f
  <2> QED
    BY <2>1, Zenon
<1> HIDE DEF f
<1>2. 0 \in Ms
  <2>1. f[0] = <<>>
    BY <1>1, LenProperties DEF Step
  <2>2. Places(<<>>, s, keep, 0, <<>>)
    BY DEF Places
  <2> QED
    BY <2>1, <2>2
<1>3. ASSUME NEW m \in Nat, m \in Ms PROVE m + 1 \in Ms
  <2> SUFFICES ASSUME m + 1 <= Len(s) PROVE \E g : Places(f[m + 1], s, keep, m + 1, g)
    OBVIOUS
  <2>1. PICK g : Places(f[m], s, keep, m, g)
    BY <1>3
  <2> DEFINE t == f[m]
             n == Len(t)
             e == s[m + 1]
  <2>2. m + 1 \in 0 .. Len(s) /\ m + 1 \in DOMAIN s /\ m + 1 # 0 /\ m + 1 - 1 = m
    BY LenProperties
  <2>3. f[m + 1] = IF e \in keep THEN Append(t, e) ELSE t
    BY <1>1, <2>2 DEF Step
  <2>4. /\ t \in Seq({s[i] : i \in DOMAIN s}) /\ n \in Nat
        /\ g \in [1 .. n -> 1 .. m]
        /\ \A i \in 1 .. n : t[i] = s[g[i]] /\ t[i] \in keep
        /\ \A i, j \in 1 .. n : i < j => g[i] < g[j]
        /\ \A k \in 1 .. m : s[k] \in keep => \E i \in 1 .. n : g[i] = k
    BY <2>1 DEF Places
  <2> HIDE DEF t
  <2>5. CASE e \in keep
    <3> DEFINE u == Append(t, e)
               h == [i \in 1 .. n + 1 |-> IF i = n + 1 THEN m + 1 ELSE g[i]]
    <3>7. /\ n \in Nat /\ 1 .. n + 1 = 1 .. n \cup {n + 1} /\ n + 1 \notin 1 .. n
          /\ 1 .. m + 1 = 1 .. m \cup {m + 1} /\ m + 1 \notin 1 .. m
      <4>1. n \in Nat
        BY <2>4
      <4> HIDE DEF n
      <4> QED
        BY <4>1
    <3>1. /\ u \in Seq({s[i] : i \in DOMAIN s}) /\ Len(u) = n + 1
          /\ u[n + 1] = e /\ \A i \in 1 .. n : u[i] = t[i]
      BY <2>2, <2>4
    <3>2. /\ h \in [1 .. n + 1 -> 1 .. m + 1] /\ h[n + 1] = m + 1
          /\ \A i \in 1 .. n : h[i] = g[i] /\ h[i] \in 1 .. m
      <4> HIDE DEF n
      <4> QED
        BY <2>4, <3>7
    <3> HIDE DEF u, h, n
    <3>3. \A i \in 1 .. Len(u) : u[i] = s[h[i]] /\ u[i] \in keep
      BY <2>4, <2>5, <3>1, <3>2, <3>7
    <3>4. \A i, j \in 1 .. Len(u) : i < j => h[i] < h[j]
      <4> TAKE i \in 1 .. Len(u), j \in 1 .. Len(u)
      <4> HAVE i < j
      <4>1. i \in 1 .. n
        BY <3>1, <3>7
      <4>2. CASE j = n + 1
        BY <3>2, <4>1, <4>2
      <4>3. CASE j # n + 1
        <5>1. j \in 1 .. n
          BY <3>1, <3>7, <4>3
        <5> QED
          BY <2>4, <3>2, <4>1, <5>1
      <4> QED
        BY <4>2, <4>3
    <3>5. \A k \in 1 .. m + 1 : s[k] \in keep => \E i \in 1 .. Len(u) : h[i] = k
      BY <2>4, <3>1, <3>2, <3>7
    <3>6. Places(u, s, keep, m + 1, h)
      BY <3>1, <3>2, <3>3, <3>4, <3>5 DEF Places
    <3> QED
      BY <2>3, <2>5, <3>6 DEF u
  <2>6. CASE e \notin keep
    <3>1. Places(t, s, keep, m + 1, g)
      BY <2>4, <2>6 DEF Places
    <3> QED
      BY <2>3, <2>6, <3>1
  <2> QED
    BY <2>5, <2>6
<1>4. Nat \subseteq Ms
  <2> HIDE DEF Ms
  <2> QED
    BY <1>2, <1>3, NatSets
<1>5. Kept(s, keep) = f[Len(s)]
  BY KeptSteps DEF f
<1> QED
  BY <1>4, <1>5, LenProperties

(***************************************************************************)
(* Lists without repetition, and the sets of their elements.               *)
(***************************************************************************)
Once(s) == \A i, j \in DOMAIN s : s[i] = s[j] => i = j

LEMMA ElementsAre ==
  ASSUME NEW T, NEW s \in Seq(T)
  PROVE  /\ DOMAIN s = 1 .. Len(s) /\ Len(s) \in Nat
         /\ ToSet(s) = {s[i] : i \in 1 .. Len(s)}
         /\ \A i \in 1 .. Len(s) : s[i] \in T /\ s[i] \in ToSet(s)
         /\ \A e \in ToSet(s) : e \in T /\ \E i \in 1 .. Len(s) : s[i] = e
         /\ s # <<>> <=> Len(s) > 0
<1>1. /\ DOMAIN s = 1 .. Len(s) /\ Len(s) \in Nat
      /\ \A i \in 1 .. Len(s) : s[i] \in T
      /\ s # <<>> <=> Len(s) > 0
  OBVIOUS
<1> QED
  BY <1>1 DEF ToSet

LEMMA HeadTailOnce ==
  ASSUME NEW T, NEW s \in Seq(T), s # <<>>, Once(s)
  PROVE  /\ Tail(s) \in Seq(T) /\ Once(Tail(s)) /\ Head(s) \in ToSet(s)
         /\ ToSet(Tail(s)) = ToSet(s) \ {Head(s)}
         /\ Len(Tail(s)) = Len(s) - 1
         /\ \A i \in 1 .. Len(s) - 1 : Tail(s)[i] = s[i + 1]
<1> DEFINE t == Tail(s)
<1>1. /\ t \in Seq(T) /\ Len(t) = Len(s) - 1 /\ Len(s) \in Nat \ {0} /\ Head(s) = s[1]
      /\ DOMAIN t = 1 .. Len(s) - 1 /\ DOMAIN s = 1 .. Len(s)
      /\ \A i \in 1 .. Len(s) - 1 : t[i] = s[i + 1]
  OBVIOUS
<1> HIDE DEF t
<1>5. /\ \A i \in 1 .. Len(s) - 1 : i + 1 \in 1 .. Len(s) /\ i + 1 # 1
      /\ 1 \in 1 .. Len(s)
      /\ \A i, j \in 1 .. Len(s) - 1 : i + 1 = j + 1 => i = j
      /\ \A i, j \in 1 .. Len(s) : s[i] = s[j] => i = j
  BY <1>1 DEF Once
<1>2. Once(t)
  <2> SUFFICES ASSUME NEW i \in 1 .. Len(s) - 1, NEW j \in 1 .. Len(s) - 1, t[i] = t[j]
               PROVE  i = j
    BY <1>1 DEF Once
  <2>1. s[i + 1] = s[j + 1]
    BY <1>1
  <2> QED
    BY <1>5, <2>1
<1>3. ToSet(t) \subseteq ToSet(s) /\ Head(s) \in ToSet(s) /\ Head(s) \notin ToSet(t)
  <2>1. \A i \in 1 .. Len(s) - 1 : t[i] \in ToSet(s) /\ t[i] # s[1]
    <3> TAKE i \in 1 .. Len(s) - 1
    <3>1. t[i] = s[i + 1] /\ i + 1 \in 1 .. Len(s) /\ i + 1 # 1 /\ 1 \in 1 .. Len(s)
      BY <1>1, <1>5
    <3>2. s[i + 1] # s[1]
      BY <1>5, <3>1
    <3> QED
      BY <1>1, <3>1, <3>2 DEF ToSet
  <2>2. s[1] \in ToSet(s)
    BY <1>1, <1>5 DEF ToSet
  <2> QED
    BY <1>1, <2>1, <2>2 DEF ToSet
<1>4. ASSUME NEW e \in ToSet(s), e # Head(s) PROVE e \in ToSet(t)
  <2>1. PICK i \in 1 .. Len(s) : s[i] = e
    BY <1>1 DEF ToSet
  <2>2. i - 1 \in 1 .. Len(s) - 1 /\ t[i - 1] = e
    BY <1>1, <1>4, <2>1
  <2> QED
    BY <1>1, <2>2 DEF ToSet
<1> QED
  BY <1>1, <1>2, <1>3, <1>4 DEF t

LEMMA PushOnce ==
  ASSUME NEW T, NEW s \in Seq(T), Once(s), NEW e \in T, e \notin ToSet(s)
  PROVE  /\ <<e>> \o s \in Seq(T) /\ Once(<<e>> \o s) /\ <<e>> \o s # <<>>
         /\ ToSet(<<e>> \o s) = ToSet(s) \cup {e}
<1> DEFINE t == <<e>> \o s
<1>1. /\ t \in Seq(T) /\ Len(t) = Len(s) + 1 /\ Len(s) \in Nat
      /\ DOMAIN t = 1 .. Len(s) + 1 /\ DOMAIN s = 1 .. Len(s)
      /\ t[1] = e /\ \A i \in 1 .. Len(s) : t[i + 1] = s[i]
  OBVIOUS
<1>5. \A i \in 1 .. Len(s) + 1 : i = 1 \/ (i - 1 \in 1 .. Len(s) /\ t[i] = s[i - 1])
  <2> TAKE i \in 1 .. Len(s) + 1
  <2>1. i # 1 => i - 1 \in 1 .. Len(s) /\ i - 1 + 1 = i
    BY <1>1
  <2> HIDE DEF t
  <2> QED
    BY <1>1, <2>1
<1> HIDE DEF t
<1>2. Once(t)
  <2> SUFFICES ASSUME NEW i \in 1 .. Len(s) + 1, NEW j \in 1 .. Len(s) + 1, t[i] = t[j]
               PROVE  i = j
    BY <1>1 DEF Once
  <2> QED
    BY <1>1, <1>5 DEF Once, ToSet
<1>3. ToSet(t) = ToSet(s) \cup {e}
  <2>1. ToSet(t) \subseteq ToSet(s) \cup {e}
    <3>1. \A i \in 1 .. Len(s) + 1 : t[i] \in ToSet(s) \cup {e}
      <4> TAKE i \in 1 .. Len(s) + 1
      <4>1. CASE i = 1
        BY <1>1, <4>1
      <4>2. CASE i - 1 \in 1 .. Len(s) /\ t[i] = s[i - 1]
        BY <1>1, <4>2 DEF ToSet
      <4> QED
        BY <1>5, <4>1, <4>2
    <3> QED
      BY <1>1, <3>1 DEF ToSet
  <2>2. \A i \in 1 .. Len(s) : i + 1 \in DOMAIN t /\ 1 \in DOMAIN t
    BY <1>1
  <2>3. ToSet(s) \cup {e} \subseteq ToSet(t)
    <3>1. e \in ToSet(t)
      BY <1>1 DEF ToSet
    <3> QED
      BY <1>1, <2>2, <3>1 DEF ToSet
  <2> QED
    BY <2>1, <2>3
<1> QED
  BY <1>1, <1>2, <1>3 DEF t

LEMMA ConcatOnce ==
  ASSUME NEW T, NEW s \in Seq(T), NEW t \in Seq(T), Once(s), Once(t),
         ToSet(s) \cap ToSet(t) = {}
  PROVE  /\ s \o t \in Seq(T) /\ Once(s \o t) /\ ToSet(s \o t) = ToSet(s) \cup ToSet(t)
         /\ Len(s \o t) = Len(s) + Len(t)
<1> DEFINE u == s \o t
           m == Len(s)
           n == Len(t)
<1>1. /\ u \in Seq(T) /\ Len(u) = m + n /\ m \in Nat /\ n \in Nat
      /\ DOMAIN u = 1 .. m + n /\ DOMAIN s = 1 .. m /\ DOMAIN t = 1 .. n
      /\ \A i \in 1 .. m : u[i] = s[i]
      /\ \A i \in 1 .. n : u[i + m] = t[i]
  BY ConcatProperties
<1> HIDE DEF u, m, n
<1>2. \A i \in 1 .. m + n : \/ i \in 1 .. m /\ u[i] = s[i]
                            \/ i - m \in 1 .. n /\ u[i] = t[i - m]
  <2> TAKE i \in 1 .. m + n
  <2>1. i \in 1 .. m \/ (i - m \in 1 .. n /\ i - m + m = i)
    BY <1>1
  <2> QED
    BY <1>1, <2>1
<1>3. \A i \in 1 .. m, j \in 1 .. n : s[i] # t[j]
  BY <1>1 DEF ToSet
<1>4. Once(u)
  <2> SUFFICES ASSUME NEW i \in 1 .. m + n, NEW j \in 1 .. m + n, u[i] = u[j]
               PROVE  i = j
    BY <1>1 DEF Once
  <2>1. CASE i \in 1 .. m /\ u[i] = s[i]
    <3>1. ~(j - m \in 1 .. n /\ u[j] = t[j - m])
      <4>1. SUFFICES ASSUME j - m \in 1 .. n, u[j] = t[j - m] PROVE FALSE
        OBVIOUS
      <4>2. s[i] # t[j - m]
        BY <1>3, <2>1, <4>1
      <4> QED
        BY <2>1, <4>1, <4>2
    <3>2. j \in 1 .. m /\ u[j] = s[j]
      BY <1>2, <3>1
    <3> QED
      BY <1>1, <2>1, <3>2 DEF Once
  <2>2. CASE i - m \in 1 .. n /\ u[i] = t[i - m]
    <3>3. ~(j \in 1 .. m /\ u[j] = s[j])
      <4>1. SUFFICES ASSUME j \in 1 .. m, u[j] = s[j] PROVE FALSE
        OBVIOUS
      <4>2. s[j] # t[i - m]
        BY <1>3, <2>2, <4>1
      <4> QED
        BY <2>2, <4>1, <4>2
    <3>1. j - m \in 1 .. n /\ u[j] = t[j - m]
      BY <1>2, <3>3
    <3>2. i - m = j - m
      BY <1>1, <2>2, <3>1 DEF Once
    <3> QED
      BY <1>1, <3>2
  <2> QED
    BY <1>2, <2>1, <2>2
<1>5. ToSet(u) \subseteq ToSet(s) \cup ToSet(t)
  BY <1>1, <1>2 DEF ToSet
<1>6. ToSet(s) \cup ToSet(t) \subseteq ToSet(u)
  <2>1. \A i \in 1 .. m : i \in DOMAIN u
    BY <1>1
  <2>2. \A i \in 1 .. n : i + m \in DOMAIN u
    BY <1>1
  <2> QED
    BY <1>1, <2>1, <2>2 DEF ToSet
<1> QED
  BY <1>1, <1>4, <1>5, <1>6 DEF u, m, n

LEMMA ReverseOnce ==
  ASSUME NEW T, NEW s \in Seq(T), Once(s)
  PROVE  /\ Reverse(s) \in Seq(T) /\ Once(Reverse(s)) /\ ToSet(Reverse(s)) = ToSet(s)
         /\ Len(Reverse(s)) = Len(s)
<1> DEFINE t == Reverse(s)
           n == Len(s)
<1>1. n \in Nat /\ DOMAIN s = 1 .. n /\ \A i \in 1 .. n : s[i] \in T
  OBVIOUS
<1> HIDE DEF n
<1>2. \A i \in 1 .. n : n - i + 1 \in 1 .. n /\ n - (n - i + 1) + 1 = i
  BY <1>1
<1>3. t = [i \in 1 .. n |-> s[(n - i) + 1]]
  BY DEF Reverse, n
<1>4. t \in Seq(T) /\ Len(t) = n /\ DOMAIN t = 1 .. n
  BY <1>1, <1>2, <1>3
<1>5. \A i \in 1 .. n : t[i] = s[n - i + 1]
  BY <1>3
<1> HIDE DEF t
<1>6. Once(t)
  <2> SUFFICES ASSUME NEW i \in 1 .. n, NEW j \in 1 .. n, t[i] = t[j]
               PROVE  i = j
    BY <1>4 DEF Once
  <2>1. n - i + 1 = n - j + 1
    BY <1>1, <1>2, <1>5 DEF Once
  <2> QED
    BY <1>1, <2>1
<1>7. ToSet(t) = ToSet(s)
  BY <1>1, <1>2, <1>4, <1>5 DEF ToSet
<1> QED
  BY <1>4, <1>6, <1>7 DEF t, n

(* t is some of the elements of s in their order *)
Thinned(t, s) ==
  \E g \in [1 .. Len(t) -> 1 .. Len(s)] :
    /\ \A i \in 1 .. Len(t) : t[i] = s[g[i]]
    /\ \A i, j \in 1 .. Len(t) : i < j => g[i] < g[j]

LEMMA KeptOnce ==
  ASSUME NEW T, NEW s \in Seq(T), NEW keep, Once(s)
  PROVE  /\ Kept(s, keep) \in Seq(T) /\ Once(Kept(s, keep))
         /\ ToSet(Kept(s, keep)) = ToSet(s) \cap keep
         /\ Thinned(Kept(s, keep), s)
<1> DEFINE t == Kept(s, keep)
           n == Len(t)
<1>1. PICK g : Places(t, s, keep, Len(s), g)
  BY KeptPlaces
<1>2. DOMAIN s = 1 .. Len(s) /\ Len(s) \in Nat /\ \A i \in 1 .. Len(s) : s[i] \in T
  OBVIOUS
<1> HIDE DEF t
<1>3. t \in Seq({s[i] : i \in DOMAIN s}) /\ g \in [1 .. n -> 1 .. Len(s)]
  BY <1>1 DEF Places
<1>4. n \in Nat /\ DOMAIN t = 1 .. n /\ \A i \in 1 .. n : t[i] \in T
  BY <1>2, <1>3
<1>5. /\ \A i \in 1 .. n : t[i] = s[g[i]] /\ t[i] \in keep
      /\ \A i, j \in 1 .. n : i < j => g[i] < g[j]
      /\ \A k \in 1 .. Len(s) : s[k] \in keep => \E i \in 1 .. n : g[i] = k
  BY <1>1 DEF Places
<1>6. t \in Seq(T)
  <2>1. t = [i \in 1 .. n |-> t[i]]
    BY <1>3
  <2> QED
    BY <1>4, <2>1
<1> HIDE DEF n
<1>7. Once(t)
  <2> SUFFICES ASSUME NEW i \in 1 .. n, NEW j \in 1 .. n, t[i] = t[j]
               PROVE  i = j
    BY <1>4 DEF Once
  <2>1. g[i] = g[j] /\ g[i] \in Nat
    BY <1>2, <1>3, <1>5 DEF Once
  <2>2. ~(i < j) /\ ~(j < i)
    BY <1>5, <2>1
  <2> QED
    BY <2>2, <1>4
<1>8. ToSet(t) = ToSet(s) \cap keep
  <2>1. ToSet(t) \subseteq ToSet(s) \cap keep
    <3>1. \A i \in 1 .. n : t[i] = s[g[i]] /\ t[i] \in keep /\ g[i] \in 1 .. Len(s)
      BY <1>3, <1>5
    <3> QED
      BY <1>2, <1>4, <3>1 DEF ToSet
  <2>2. \A k \in 1 .. Len(s) : s[k] \in keep => s[k] \in ToSet(t)
    <3> SUFFICES ASSUME NEW k \in 1 .. Len(s), s[k] \in keep PROVE s[k] \in ToSet(t)
      OBVIOUS
    <3>1. PICK i \in 1 .. n : g[i] = k
      BY <1>5
    <3>2. t[i] = s[k] /\ i \in DOMAIN t
      BY <1>4, <1>5, <3>1
    <3> QED
      BY <3>2 DEF ToSet
  <2>3. ToSet(s) \cap keep \subseteq ToSet(t)
    BY <1>2, <2>2 DEF ToSet
  <2> QED
    BY <2>1, <2>3
<1>9. Thinned(t, s)
  BY <1>3, <1>5 DEF Thinned, n
<1> QED
  BY <1>6, <1>7, <1>8, <1>9 DEF t

LEMMA InsertOnce ==
  ASSUME NEW T, NEW s \in Seq(T), Once(s), NEW e \in T, e \notin ToSet(s),
         NEW k \in 1 .. Len(s) + 1
  PROVE  LET t == InsertAt(s, k, e)
         IN  /\ t \in Seq(T) /\ Once(t) /\ ToSet(t) = ToSet(s) \cup {e} /\ t # <<>>
             /\ Len(t) = Len(s) + 1
             /\ \A i \in 1 .. Len(s) + 1 :
                  t[i] = IF i < k THEN s[i] ELSE IF i = k THEN e ELSE s[i - 1]
<1> DEFINE n == Len(s)
           a == SubSeq(s, 1, k - 1)
           b == SubSeq(s, k, n)
           t == (a \o <<e>>) \o b
<1>1. n \in Nat /\ DOMAIN s = 1 .. n /\ k \in 1 .. n + 1 /\ \A i \in 1 .. n : s[i] \in T
  OBVIOUS
<1> SUFFICES /\ t \in Seq(T) /\ Once(t) /\ ToSet(t) = ToSet(s) \cup {e} /\ t # <<>>
             /\ Len(t) = n + 1
             /\ \A i \in 1 .. n + 1 :
                  t[i] = IF i < k THEN s[i] ELSE IF i = k THEN e ELSE s[i - 1]
  BY DEF InsertAt
<1>2. a \in Seq(T) /\ Len(a) = k - 1 /\ \A i \in 1 .. k - 1 : a[i] = s[i]
  <2>1. \A i \in 1 .. k - 1 : s[i] \in T
    BY <1>1
  <2> QED
    BY <1>1, <2>1
<1>3. b \in Seq(T) /\ Len(b) = n - k + 1 /\ \A i \in 1 .. n - k + 1 : b[i] = s[k + i - 1]
  <2>1. \A i \in k .. n : s[i] \in T
    BY <1>1
  <2> QED
    BY <1>1, <2>1
<1> HIDE DEF a, b, n
<1>4. /\ a \o <<e>> \in Seq(T) /\ Len(a \o <<e>>) = k
      /\ \A i \in 1 .. k : (a \o <<e>>)[i] = IF i < k THEN s[i] ELSE e
  BY <1>1, <1>2
<1> DEFINE c == a \o <<e>>
<1> HIDE DEF c
<1>5. /\ t \in Seq(T) /\ Len(t) = n + 1 /\ DOMAIN t = 1 .. n + 1
      /\ \A i \in 1 .. k : t[i] = c[i]
      /\ \A i \in 1 .. n - k + 1 : t[i + k] = b[i]
  <2>1. /\ c \in Seq(T) /\ Len(c) = k /\ t = c \o b
    BY <1>4 DEF c
  <2>2. /\ t \in Seq(T) /\ Len(t) = Len(c) + Len(b)
        /\ \A i \in 1 .. Len(c) : t[i] = c[i]
        /\ \A i \in 1 .. Len(b) : t[i + Len(c)] = b[i]
    <3> HIDE DEF t
    <3>1. /\ c \o b \in Seq(T) /\ Len(c \o b) = Len(c) + Len(b)
          /\ \A i \in 1 .. Len(c) + Len(b) :
               (c \o b)[i] = IF i <= Len(c) THEN c[i] ELSE b[i - Len(c)]
      BY <1>3, <2>1, ConcatProperties
    <3>2. Len(c) \in Nat /\ Len(b) \in Nat
      BY <1>3, <2>1
    <3>3. /\ \A i \in 1 .. Len(c) : i \in 1 .. Len(c) + Len(b) /\ i <= Len(c)
          /\ \A i \in 1 .. Len(b) : /\ i + Len(c) \in 1 .. Len(c) + Len(b)
                                    /\ ~(i + Len(c) <= Len(c)) /\ i + Len(c) - Len(c) = i
      BY <3>2
    <3> QED
      BY <2>1, <3>1, <3>3
  <2> HIDE DEF t
  <2>3. k + (n - k + 1) = n + 1
    BY <1>1
  <2> QED
    BY <1>3, <2>1, <2>2, <2>3
<1> HIDE DEF t
<1>6. \A i \in 1 .. n + 1 :
        t[i] = IF i < k THEN s[i] ELSE IF i = k THEN e ELSE s[i - 1]
  <2> TAKE i \in 1 .. n + 1
  <2>1. CASE i <= k
    <3>1. i \in 1 .. k
      BY <1>1, <2>1
    <3> QED
      BY <1>1, <1>4, <1>5, <2>1, <3>1 DEF c
  <2>2. CASE i > k
    <3>1. i - k \in 1 .. n - k + 1 /\ i - k + k = i /\ k + (i - k) - 1 = i - 1
      BY <1>1, <2>2
    <3>2. t[i] = s[i - 1]
      BY <1>3, <1>5, <3>1
    <3> QED
      BY <1>1, <2>2, <3>2
  <2> QED
    BY <1>1, <2>1, <2>2
<1>7. \A i \in 1 .. n : /\ (i < k => i \in 1 .. n + 1 /\ t[i] = s[i])
                        /\ (i >= k => i + 1 \in 1 .. n + 1 /\ t[i + 1] = s[i])
  <2> TAKE i \in 1 .. n
  <2>1. i \in 1 .. n + 1 /\ i + 1 \in 1 .. n + 1 /\ i + 1 - 1 = i /\ (i >= k => ~(i + 1 < k) /\ i + 1 # k)
    BY <1>1
  <2> QED
    BY <1>6, <2>1
<1>8. ToSet(t) = ToSet(s) \cup {e}
  <2>1. \A i \in 1 .. n + 1 : t[i] \in ToSet(s) \cup {e}
    <3> TAKE i \in 1 .. n + 1
    <3>1. (i < k => i \in 1 .. n) /\ (i > k => i - 1 \in 1 .. n)
      BY <1>1
    <3>2. i < k \/ i = k \/ i > k
      BY <1>1
    <3>3. \A j \in 1 .. n : s[j] \in ToSet(s)
      BY <1>1 DEF ToSet
    <3> QED
      BY <1>1, <1>6, <3>1, <3>2, <3>3
  <2>2. \A i \in 1 .. n : s[i] \in ToSet(t)
    <3> TAKE i \in 1 .. n
    <3>1. i < k \/ i >= k
      BY <1>1
    <3>2. \A j \in 1 .. n + 1 : t[j] \in ToSet(t)
      BY <1>5 DEF ToSet
    <3> QED
      BY <1>7, <3>1, <3>2
  <2>3. e \in ToSet(t)
    <3>1. t[k] = e
      BY <1>1, <1>6
    <3> QED
      BY <1>1, <1>5, <3>1 DEF ToSet
  <2> QED
    BY <1>1, <1>5, <2>1, <2>2, <2>3 DEF ToSet
<1>9. Once(t)
  <2> DEFINE back(i) == IF i < k THEN i ELSE i - 1
  <2> SUFFICES ASSUME NEW i \in 1 .. n + 1, NEW j \in 1 .. n + 1, t[i] = t[j]
               PROVE  i = j
    BY <1>5 DEF Once
  <2>1. \A l \in 1 .. n + 1 : l # k => back(l) \in 1 .. n /\ t[l] = s[back(l)]
    <3> TAKE l \in 1 .. n + 1
    <3>1. l # k => back(l) \in 1 .. n
      BY <1>1
    <3> QED
      BY <1>6, <3>1
  <2>2. \A l \in 1 .. n + 1 : l # k => t[l] # e
    BY <1>1, <2>1 DEF ToSet
  <2>3. t[k] = e
    BY <1>1, <1>6
  <2>4. i = k <=> j = k
    BY <2>2, <2>3
  <2>5. i # k => back(i) = back(j)
    BY <1>1, <2>1, <2>4 DEF Once
  <2>6. i # k /\ j # k /\ back(i) = back(j) => i = j
    BY <1>1
  <2> QED
    BY <2>4, <2>5, <2>6
<1>10. t # <<>>
  BY <1>1, <1>5
<1> QED
  BY <1>5, <1>6, <1>8, <1>9, <1>10

(***************************************************************************)
(* The activations of PIC_RunQueue and the entries they hold.              *)
(***************************************************************************)
Entry == [index : Int, handler : Handlers \cup {IrqCheck}, value : Values \cup {0}]
Pass == [nd : Int, entry : Entries \cup {NoEntry}]

Held(ps) == {ps[i].entry : i \in DOMAIN ps} \ {NoEntry}

(* no two activations hold the same entry *)
Apart(ps) ==
  \A i, j \in DOMAIN ps : ps[i].entry = ps[j].entry /\ ps[i].entry # NoEntry => i = j

LEMMA PassesAre ==
  ASSUME NEW ps \in Seq(Pass)
  PROVE  /\ Len(ps) \in Nat /\ DOMAIN ps = 1 .. Len(ps) /\ (ps # <<>> <=> Len(ps) > 0)
         /\ ps # <<>> => /\ Len(ps) \in 1 .. Len(ps) /\ Last(ps) = ps[Len(ps)]
                         /\ Last(ps) \in Pass
         /\ \A i \in 1 .. Len(ps) : ps[i] \in Pass /\ ps[i].entry \in Entries \cup {NoEntry}
         /\ Held(ps) \subseteq Entries
<1>1. /\ Len(ps) \in Nat /\ DOMAIN ps = 1 .. Len(ps) /\ (ps # <<>> <=> Len(ps) > 0)
      /\ \A i \in 1 .. Len(ps) : ps[i] \in Pass
  OBVIOUS
<1>2. \A p \in Pass : p.entry \in Entries \cup {NoEntry}
  BY DEF Pass
<1>3. ps # <<>> => Len(ps) \in 1 .. Len(ps) /\ Last(ps) = ps[Len(ps)]
  BY <1>1 DEF Last
<1> HIDE DEF Pass
<1> QED
  BY <1>1, <1>2, <1>3 DEF Held

LEMMA PushPass ==
  ASSUME NEW ps \in Seq(Pass), Apart(ps), NEW nd \in Int
  PROVE  LET qs == Append(ps, [nd |-> nd, entry |-> NoEntry])
         IN  /\ qs \in Seq(Pass) /\ Apart(qs) /\ Held(qs) = Held(ps)
             /\ Len(qs) = Len(ps) + 1 /\ qs # <<>>
             /\ Last(qs).entry = NoEntry /\ Last(qs).nd = nd
<1> DEFINE p == [nd |-> nd, entry |-> NoEntry]
           qs == Append(ps, p)
           n == Len(ps)
<1>1. n \in Nat /\ DOMAIN ps = 1 .. n
  OBVIOUS
<1>2. p \in Pass /\ p.entry = NoEntry /\ p.nd = nd
  BY DEF Pass
<1> SUFFICES /\ qs \in Seq(Pass) /\ Apart(qs) /\ Held(qs) = Held(ps)
             /\ Len(qs) = n + 1 /\ qs # <<>>
             /\ Last(qs).entry = NoEntry /\ Last(qs).nd = nd
  OBVIOUS
<1> HIDE DEF p
<1>3. /\ qs \in Seq(Pass) /\ Len(qs) = n + 1 /\ DOMAIN qs = 1 .. n + 1
      /\ qs[n + 1] = p /\ \A i \in 1 .. n : qs[i] = ps[i]
  BY <1>2
<1> HIDE DEF qs, n
<1>4. 1 .. n + 1 = 1 .. n \cup {n + 1} /\ n + 1 > 0 /\ n + 1 \in 1 .. n + 1
  BY <1>1
<1>5. Apart(qs)
  BY <1>1, <1>2, <1>3, <1>4 DEF Apart
<1>6. Held(qs) = Held(ps)
  <2>1. \A x : x \in Held(qs) <=> x # NoEntry /\ \E i \in 1 .. n : x = ps[i].entry
    BY <1>2, <1>3, <1>4 DEF Held
  <2> QED
    BY <1>1, <2>1 DEF Held
<1>7. qs # <<>> /\ Last(qs) = p
  BY <1>3, <1>4 DEF Last
<1> QED
  BY <1>2, <1>3, <1>5, <1>6, <1>7

(* The top activation takes entry e in hand, or, with NoEntry, lets go.    *)
LEMMA SetTop ==
  ASSUME NEW ps \in Seq(Pass), ps # <<>>, Apart(ps),
         NEW e \in Entries \cup {NoEntry}, NoEntry \notin Entries,
         e \notin Held(ps)
  PROVE  LET qs == [ps EXCEPT ![Len(ps)].entry = e]
         IN  /\ qs \in Seq(Pass) /\ Apart(qs)
             /\ Held(qs) = (Held(ps) \ {Last(ps).entry}) \cup ({e} \ {NoEntry})
             /\ Len(qs) = Len(ps) /\ qs # <<>>
             /\ Last(qs).entry = e /\ Last(qs).nd = Last(ps).nd
<1> DEFINE n == Len(ps)
           p == [ps[n] EXCEPT !.entry = e]
           qs == [ps EXCEPT ![n] = p]
<1> SUFFICES /\ qs \in Seq(Pass) /\ Apart(qs)
             /\ Held(qs) = (Held(ps) \ {Last(ps).entry}) \cup ({e} \ {NoEntry})
             /\ Len(qs) = n /\ qs # <<>>
             /\ Last(qs).entry = e /\ Last(qs).nd = Last(ps).nd
  BY Zenon
<1>1. /\ n \in Nat /\ n > 0 /\ DOMAIN ps = 1 .. n /\ n \in 1 .. n /\ Last(ps) = ps[n]
      /\ \A i \in 1 .. n : ps[i] \in Pass
  BY PassesAre
<1>2. p \in Pass /\ p.entry = e /\ p.nd = ps[n].nd
  BY <1>1 DEF Pass
<1> HIDE DEF p
<1>3. /\ qs \in Seq(Pass) /\ Len(qs) = n /\ DOMAIN qs = 1 .. n
      /\ qs[n] = p /\ \A i \in 1 .. n : i # n => qs[i] = ps[i]
  <2> HIDE DEF Pass
  <2>1. /\ [ps EXCEPT ![n] = p] \in Seq(Pass) /\ Len([ps EXCEPT ![n] = p]) = n
        /\ \A j \in 1 .. n : [ps EXCEPT ![n] = p][j] = IF j = n THEN p ELSE ps[j]
    <3>1. n \in 1 .. Len(ps) /\ p \in Pass
      BY <1>1, <1>2
    <3>2. Len(ps) = n
      OBVIOUS
    <3> HIDE DEF n
    <3> QED
      BY <3>1, <3>2, ExceptSeq
  <2>2. qs \in Seq(Pass) /\ Len(qs) = n /\ \A j \in 1 .. n : qs[j] = IF j = n THEN p ELSE ps[j]
    BY <2>1
  <2>3. DOMAIN qs = 1 .. n
    BY <2>2
  <2> QED
    BY <1>1, <2>2, <2>3
<1> HIDE DEF qs, n
<1>4. \A i \in 1 .. n : /\ qs[i].entry = (IF i = n THEN e ELSE ps[i].entry)
                        /\ ps[i].entry = e => e = NoEntry
  BY <1>1, <1>2, <1>3 DEF Held
<1>5. Apart(qs)
  <2> SUFFICES ASSUME NEW i \in 1 .. n, NEW j \in 1 .. n,
                      qs[i].entry = qs[j].entry, qs[i].entry # NoEntry
               PROVE  i = j
    BY <1>3 DEF Apart
  <2>1. CASE i = n \/ j = n
    BY <1>4, <2>1
  <2>2. CASE i # n /\ j # n
    BY <1>1, <1>4, <2>2 DEF Apart
  <2> QED
    BY <2>1, <2>2
<1>6. Held(qs) = (Held(ps) \ {Last(ps).entry}) \cup ({e} \ {NoEntry})
  <2>1. \A x : x \in Held(qs) <=> x # NoEntry /\ \E i \in 1 .. n : x = qs[i].entry
    BY <1>3 DEF Held
  <2>2. \A x : x \in Held(ps) <=> x # NoEntry /\ \E i \in 1 .. n : x = ps[i].entry
    BY <1>1 DEF Held
  <2>3. \A x : x # NoEntry /\ (\E i \in 1 .. n : i # n /\ x = ps[i].entry)
                <=> x \in Held(ps) \ {Last(ps).entry}
    BY <1>1, <2>2 DEF Apart
  <2>4. \A x : x \in Held(qs) <=>
                 x # NoEntry /\ (x = e \/ \E i \in 1 .. n : i # n /\ x = ps[i].entry)
    BY <1>1, <1>4, <2>1
  <2> QED
    BY <2>3, <2>4
<1>7. qs # <<>> /\ Last(qs) = p
  BY <1>1, <1>3 DEF Last
<1> QED
  BY <1>1, <1>2, <1>3, <1>5, <1>6, <1>7

LEMMA PopPass ==
  ASSUME NEW ps \in Seq(Pass), ps # <<>>, Apart(ps), Last(ps).entry = NoEntry
  PROVE  /\ Front(ps) \in Seq(Pass) /\ Apart(Front(ps)) /\ Held(Front(ps)) = Held(ps)
         /\ Len(Front(ps)) = Len(ps) - 1
<1> DEFINE n == Len(ps)
           qs == Front(ps)
<1>1. /\ n \in Nat /\ n > 0 /\ DOMAIN ps = 1 .. n /\ Last(ps) = ps[n]
      /\ \A i \in 1 .. n : ps[i] \in Pass
  BY PassesAre
<1>2. \A i \in 1 .. n - 1 : i \in 1 .. n /\ ps[i] \in Pass
  BY <1>1
<1>3. /\ qs \in Seq(Pass) /\ Len(qs) = n - 1 /\ DOMAIN qs = 1 .. n - 1
      /\ \A i \in 1 .. n - 1 : qs[i] = ps[i]
  BY <1>1, <1>2 DEF Front
<1> HIDE DEF qs, n
<1>4. 1 .. n = 1 .. n - 1 \cup {n}
  BY <1>1
<1>5. Apart(qs)
  BY <1>1, <1>2, <1>3 DEF Apart
<1>6. Held(qs) = Held(ps)
  <2>1. \A x : x \in Held(qs) <=> x # NoEntry /\ \E i \in 1 .. n - 1 : x = ps[i].entry
    BY <1>3 DEF Held
  <2>2. \A x : x \in Held(ps) <=> x # NoEntry /\ \E i \in 1 .. n : x = ps[i].entry
    BY <1>1 DEF Held
  <2>3. \A x : (\E i \in 1 .. n : x = ps[i].entry) <=>
                x = ps[n].entry \/ \E i \in 1 .. n - 1 : x = ps[i].entry
    BY <1>4, Zenon
  <2>4. \A x : x \in Held(qs) <=> x \in Held(ps)
    BY <1>1, <2>1, <2>2, <2>3
  <2> QED
    BY <2>4
<1> QED
  BY <1>3, <1>5, <1>6 DEF qs, n
-----------------------------------------------------------------------------
(***************************************************************************)
(* The state is sound: what every other invariant rests on.                *)
(***************************************************************************)
Typed ==
  /\ entry \in [Entries -> Entry]
  /\ queue \in Seq(Entries) /\ free \in Seq(Entries) /\ passes \in Seq(Pass)
  /\ {left, cyc, srv_lag} \subseteq Int /\ cmax \in CycleMaxes /\ oldCycles \in Nat
  /\ {inService, irqPending} \subseteq BOOLEAN /\ mode \in Modes

Nested ==
  /\ mode = "serve" => passes # <<>> /\ Len(passes) <= MaxDepth
  /\ mode # "serve" => Len(passes) < MaxDepth
  /\ inService => passes # <<>>

Placed ==
  /\ Once(queue) /\ Once(free) /\ Apart(passes)
  /\ ToSet(queue) \cap ToSet(free) = {}
  /\ (ToSet(queue) \cup ToSet(free)) \cap Held(passes) = {}
  /\ ToSet(queue) \cup ToSet(free) \cup Held(passes) = Entries

Sound == Typed /\ Nested /\ Placed /\ Sorted

LEMMA Constants ==
  /\ IsFiniteSet(Entries) /\ NoEntry \notin Entries /\ IrqCheck \notin Handlers
  /\ U \in Nat \ {0} /\ MaxInsn \in Nat \ {0} /\ MaxDepth \in Nat \ {0}
  /\ \A c \in CycleMaxes : c \in Nat \ {0} /\ U \div c \in Nat \ {0} /\ c * (U \div c) = U
  /\ Delays \subseteq Nat /\ HandlerDelays \subseteq Nat /\ Idlers \subseteq Handlers
  /\ IrqDelay \in Nat
<1>1. /\ IsFiniteSet(Entries) /\ NoEntry \notin Entries /\ IrqCheck \notin Handlers
      /\ U \in Nat \ {0} /\ MaxInsn \in Nat \ {0} /\ MaxDepth \in Nat \ {0}
      /\ \A c \in CycleMaxes : c \in 1 .. U /\ U % c = 0
      /\ Delays \subseteq Nat /\ HandlerDelays \subseteq Nat /\ Idlers \subseteq Handlers
      /\ IrqDelay \in Nat
  BY QueueAssumption
<1>2. ASSUME NEW a \in Nat \ {0}, NEW c \in 1 .. a, a % c = 0
      PROVE  c \in Nat \ {0} /\ a \div c \in Nat \ {0} /\ c * (a \div c) = a
  <2>1. c * (a \div c) = a /\ a \div c \in Int
    BY <1>2
  <2>2. a \div c # 0 /\ a \div c >= 0
    BY <1>2, <2>1
  <2> QED
    BY <1>2, <2>1, <2>2
<1> QED
  BY <1>1, <1>2

(* An index is where it belongs.                                           *)
LEMMA PlaceIs ==
  ASSUME NEW en \in [Entries -> Entry], NEW q \in Seq(Entries), NEW index \in Int
  PROVE  LET k == Place(en, q, index)
         IN  /\ k \in 1 .. Len(q) + 1
             /\ k <= Len(q) => en[q[k]].index > index
             /\ \A j \in 1 .. k - 1 : en[q[j]].index <= index
<1> DEFINE n == Len(q)
           Good(i) == /\ i <= n => en[q[i]].index > index
                      /\ \A j \in 1 .. i - 1 : en[q[j]].index <= index
           T == {i \in 1 .. n + 1 : i <= n => en[q[i]].index > index}
<1>1. n \in Nat /\ \A i \in 1 .. n : q[i] \in Entries
  OBVIOUS
<1>4. \A i \in 1 .. n : en[q[i]].index \in Int
  BY <1>1 DEF Entry
<1>2. \E i \in 1 .. n + 1 : Good(i)
  <2> HIDE DEF n
  <2>1. n + 1 \in T /\ T \subseteq Nat
    BY <1>1
  <2>2. PICK i \in T : \A j \in T : i <= j
    BY <2>1, LeastNat
  <2>3. \A j \in 1 .. i - 1 : j \in 1 .. n /\ j \notin T
    BY <1>1, <2>2
  <2>4. \A j \in 1 .. i - 1 : en[q[j]].index <= index
    BY <1>1, <1>4, <2>3
  <2> QED
    BY <2>2, <2>4
<1>3. Place(en, q, index) = CHOOSE i \in 1 .. n + 1 : Good(i)
  BY DEF Place
<1> QED
  BY <1>2, <1>3, Zenon

(* AddEntry takes the first free entry and queues it in its place.         *)
LEMMA Queued ==
  ASSUME Sound, NEW h \in Handlers \cup {IrqCheck}, NEW v \in Values \cup {0},
         NEW index \in Int, free # <<>>, AddEntry(h, v, index)
  PROVE  LET e == Head(free)
         IN  /\ e \in Entries /\ e \in ToSet(free)
             /\ e \notin ToSet(queue) /\ e \notin Held(passes)
             /\ entry' \in [Entries -> Entry]
             /\ entry'[e].index = index /\ entry'[e].handler = h
             /\ \A x \in Entries : x # e => entry'[x] = entry[x]
             /\ queue' \in Seq(Entries) /\ Once(queue') /\ queue' # <<>>
             /\ ToSet(queue') = ToSet(queue) \cup {e}
             /\ free' \in Seq(Entries) /\ Once(free') /\ ToSet(free') = ToSet(free) \ {e}
             /\ Len(free') = Len(free) - 1
             /\ Sorted'
             /\ CutGrant(entry'[Head(queue')].index)
<1> DEFINE e == Head(free)
           en == [entry EXCEPT ![e] = [index |-> index, handler |-> h, value |-> v]]
           k == Place(en, queue, index)
           n == Len(queue)
<1>1. /\ entry' = en /\ queue' = InsertAt(queue, k, e) /\ free' = Tail(free)
      /\ CutGrant(entry'[Head(queue')].index)
  BY DEF AddEntry
<1>2. /\ entry \in [Entries -> Entry] /\ queue \in Seq(Entries) /\ free \in Seq(Entries)
      /\ Once(queue) /\ Once(free)
      /\ ToSet(queue) \cap ToSet(free) = {} /\ ToSet(free) \cap Held(passes) = {}
  BY DEF Sound, Typed, Placed
<1>3. /\ free' \in Seq(Entries) /\ Once(free') /\ e \in ToSet(free)
      /\ ToSet(free') = ToSet(free) \ {e} /\ Len(free') = Len(free) - 1
  BY <1>1, <1>2, HeadTailOnce
<1>4. e \in Entries /\ e \notin ToSet(queue) /\ e \notin Held(passes)
  BY <1>2, <1>3
<1>5. /\ en \in [Entries -> Entry]
      /\ en[e].index = index /\ en[e].handler = h
      /\ \A x \in Entries : x # e => en[x] = entry[x]
  <2>1. [index |-> index, handler |-> h, value |-> v] \in Entry
    BY DEF Entry
  <2> HIDE DEF e
  <2> QED
    BY <1>2, <1>4, <2>1
<1> HIDE DEF e, en
<1>6. /\ k \in 1 .. n + 1
      /\ k <= n => en[queue[k]].index > index
      /\ \A j \in 1 .. k - 1 : en[queue[j]].index <= index
  BY <1>2, <1>5, PlaceIs
<1> HIDE DEF k
<1>7. /\ queue' \in Seq(Entries) /\ Once(queue') /\ queue' # <<>>
      /\ ToSet(queue') = ToSet(queue) \cup {e} /\ Len(queue') = n + 1
      /\ \A i \in 1 .. n + 1 :
           queue'[i] = IF i < k THEN queue[i] ELSE IF i = k THEN e ELSE queue[i - 1]
  BY <1>1, <1>2, <1>4, <1>6, InsertOnce
<1>8. Sorted'
  <2>1. /\ n \in Nat /\ DOMAIN queue = 1 .. n /\ DOMAIN queue' = 1 .. n + 1
        /\ \A i \in 1 .. n : queue[i] \in Entries /\ queue[i] # e
    BY <1>2, <1>4, <1>7, ElementsAre
  <2>2. \A i \in 1 .. n : en[queue[i]] = entry[queue[i]] /\ en[queue[i]].index \in Int
    BY <1>2, <1>5, <2>1 DEF Entry
  <2>3. \A i, j \in 1 .. n : i < j => en[queue[i]].index <= en[queue[j]].index
    BY <2>1, <2>2 DEF Sound, Sorted
  <2>4. \A i \in 1 .. n : i >= k => en[queue[i]].index >= index
    BY <1>6, <2>1, <2>2, <2>3
  <2>5. \A i \in 1 .. n : i < k => en[queue[i]].index <= index
    BY <1>6, <2>1
  <2> HIDE DEF n
  <2> SUFFICES ASSUME NEW i \in 1 .. n + 1, NEW j \in 1 .. n + 1, i < j
               PROVE  en[queue'[i]].index <= en[queue'[j]].index
    BY <1>1, <2>1 DEF Sorted
  <2> DEFINE x(l) == en[queue'[l]].index
  <2>6. /\ i < k => i \in 1 .. n
        /\ j > k => j - 1 \in 1 .. n /\ j - 1 >= k
        /\ j < k => j \in 1 .. n /\ i < k
        /\ i > k => i - 1 \in 1 .. n /\ j > k /\ i - 1 < j - 1
        /\ i = k => j > k
        /\ i < k \/ i = k \/ i > k
        /\ j < k \/ j = k \/ j > k
    BY <1>6, <2>1
  <2>7. /\ queue'[i] = IF i < k THEN queue[i] ELSE IF i = k THEN e ELSE queue[i - 1]
        /\ queue'[j] = IF j < k THEN queue[j] ELSE IF j = k THEN e ELSE queue[j - 1]
    BY <1>7
  <2>8. CASE i < k
    <3>1. queue'[i] = queue[i]
      BY <2>7, <2>8
    <3>2. CASE j < k
      BY <2>3, <2>6, <2>7, <2>8, <3>1, <3>2
    <3>3. CASE j = k
      BY <1>5, <2>5, <2>6, <2>7, <2>8, <3>1, <3>3
    <3>4. CASE j > k
      <4>1. queue'[j] = queue[j - 1]
        BY <1>6, <2>7, <3>4
      <4>2. i < j - 1 /\ i \in 1 .. n /\ j - 1 \in 1 .. n
        BY <1>6, <2>1, <2>6, <2>8, <3>4
      <4> QED
        BY <2>3, <3>1, <4>1, <4>2
    <3> QED
      BY <2>6, <3>2, <3>3, <3>4
  <2>9. CASE i = k
    <3>1. queue'[i] = e /\ queue'[j] = queue[j - 1]
      BY <1>6, <2>6, <2>7, <2>9
    <3> QED
      BY <1>5, <2>4, <2>6, <2>9, <3>1
  <2>10. CASE i > k
    <3>1. queue'[i] = queue[i - 1] /\ queue'[j] = queue[j - 1]
      BY <1>6, <2>6, <2>7, <2>10
    <3> QED
      BY <2>3, <2>6, <2>10, <3>1
  <2> QED
    BY <2>6, <2>8, <2>9, <2>10
<1> QED
  BY <1>1, <1>3, <1>4, <1>5, <1>7, <1>8 DEF e

(* Unlink moves the victims to the free list.                              *)
LEMMA Unlinked ==
  ASSUME Sound, NEW victims, victims \subseteq Entries, Unlink(victims)
  PROVE  /\ queue' \in Seq(Entries) /\ Once(queue') /\ ToSet(queue') = ToSet(queue) \ victims
         /\ free' \in Seq(Entries) /\ Once(free')
         /\ ToSet(free') = ToSet(free) \cup (ToSet(queue) \cap victims)
         /\ free # <<>> => free' # <<>>
         /\ entry' = entry /\ Sorted'
<1> DEFINE gone == Kept(queue, victims)
           back == Reverse(gone)
<1>1. queue' = Kept(queue, Entries \ victims) /\ free' = back \o free /\ entry' = entry
  BY DEF Unlink
<1>2. /\ queue \in Seq(Entries) /\ free \in Seq(Entries) /\ Once(queue) /\ Once(free)
      /\ ToSet(queue) \cap ToSet(free) = {} /\ entry \in [Entries -> Entry]
  BY DEF Sound, Typed, Placed
<1>3. /\ queue' \in Seq(Entries) /\ Once(queue')
      /\ ToSet(queue') = ToSet(queue) \cap (Entries \ victims)
      /\ \E g \in [1 .. Len(queue') -> 1 .. Len(queue)] :
              /\ \A i \in 1 .. Len(queue') : queue'[i] = queue[g[i]]
              /\ \A i, j \in 1 .. Len(queue') : i < j => g[i] < g[j]
  <2> DEFINE keep == Entries \ victims
  <2>1. queue' = Kept(queue, keep)
    BY <1>1
  <2> HIDE DEF keep
  <2>2. /\ queue' \in Seq(Entries) /\ Once(queue') /\ ToSet(queue') = ToSet(queue) \cap keep
        /\ Thinned(queue', queue)
    BY <1>2, <2>1, KeptOnce
  <2> QED
    BY <2>2 DEF keep, Thinned
<1>4. gone \in Seq(Entries) /\ Once(gone) /\ ToSet(gone) = ToSet(queue) \cap victims
  BY <1>2, KeptOnce
<1> HIDE DEF gone
<1>5. /\ back \in Seq(Entries) /\ Once(back) /\ ToSet(back) = ToSet(queue) \cap victims
      /\ Len(back) \in Nat
  BY <1>4, ReverseOnce
<1> HIDE DEF back
<1>6. /\ free' \in Seq(Entries) /\ Once(free') /\ ToSet(free') = ToSet(back) \cup ToSet(free)
      /\ Len(free') = Len(back) + Len(free)
  BY <1>1, <1>2, <1>5, ConcatOnce
<1>7. Sorted'
  <2>1. PICK g \in [1 .. Len(queue') -> 1 .. Len(queue)] :
              /\ \A i \in 1 .. Len(queue') : queue'[i] = queue[g[i]]
              /\ \A i, j \in 1 .. Len(queue') : i < j => g[i] < g[j]
    BY <1>3
  <2>2. DOMAIN queue = 1 .. Len(queue) /\ DOMAIN queue' = 1 .. Len(queue')
    BY <1>2, <1>3
  <2>3. \A i, j \in 1 .. Len(queue) :
          i < j => entry[queue[i]].index <= entry[queue[j]].index
    BY <2>2 DEF Sound, Sorted
  <2> SUFFICES ASSUME NEW i \in 1 .. Len(queue'), NEW j \in 1 .. Len(queue'), i < j
               PROVE  entry[queue'[i]].index <= entry[queue'[j]].index
    BY <1>1, <2>2 DEF Sorted
  <2>4. /\ g[i] \in 1 .. Len(queue) /\ g[j] \in 1 .. Len(queue) /\ g[i] < g[j]
        /\ queue'[i] = queue[g[i]] /\ queue'[j] = queue[g[j]]
    BY <2>1
  <2> QED
    BY <2>3, <2>4
<1>8. free # <<>> => free' # <<>>
  BY <1>2, <1>5, <1>6
<1>9. ToSet(queue) \subseteq Entries
  BY <1>2, ElementsAre
<1> QED
  BY <1>1, <1>3, <1>5, <1>6, <1>7, <1>8, <1>9

(* CutGrant moves cycles between the grant and what is left.               *)
LEMMA Cut ==
  ASSUME Typed, NEW first \in Int, CutGrant(first)
  PROVE  /\ left' \in Int /\ cyc' \in Int /\ cmax' = cmax /\ left' + cyc' = left + cyc
         /\ \/ cyc' = 0
            \/ cyc' = cyc /\ left' = left /\ MakeCycles(first - TickIndex) >= cyc
<1>1. left \in Int /\ cyc \in Int /\ cmax \in Int /\ U \in Nat \ {0}
  BY Constants DEF Typed
<1>2. MakeCycles(first - TickIndex) \in Int
  <2>1. U \div cmax \in Int
    BY Constants DEF Typed
  <2> DEFINE amount == first - TickIndex
  <2>2. amount \in Int
    <3> DEFINE u == U \div cmax
    <3> HIDE DEF u
    <3>1. u \in Int /\ cmax - left - cyc \in Int
      BY <1>1, <2>1 DEF u
    <3>2. \A a, b \in Int : a * b \in Int
      OBVIOUS
    <3>3. TickIndex \in Int
      BY <3>1, <3>2 DEF TickIndex, TickIndexND, u
    <3> QED
      BY <3>3
  <2> HIDE DEF amount
  <2>3. (amount * cmax) \div U \in Int /\ (-amount * cmax) \div U \in Int
    BY <1>1, <2>2
  <2> QED
    BY <2>3 DEF MakeCycles, amount
<1> DEFINE most == MakeCycles(first - TickIndex)
<1> HIDE DEF most
<1>3. IF most < cyc THEN left' = left + cyc /\ cyc' = 0 /\ cmax' = cmax
                    ELSE left' = left /\ cyc' = cyc /\ cmax' = cmax
  BY DEF CutGrant, most, clock
<1> QED
  BY <1>1, <1>2, <1>3 DEF most

LEMMA BaseIs ==
  ASSUME Typed
  PROVE  TickIndexND \in Int /\ TickIndex \in Int /\ EventBase \in Int /\ U \div cmax \in Nat \ {0}
<1>1. left \in Int /\ cyc \in Int /\ cmax \in Int /\ srv_lag \in Int /\ U \div cmax \in Nat \ {0}
  BY Constants DEF Typed
<1>2. TickIndexND \in Int
  BY <1>1 DEF TickIndexND
<1>3. TickIndex \in Int
  <2> DEFINE u == U \div cmax
             n == TickIndexND
  <2>1. u \in Int /\ n \in Int
    BY <1>1, <1>2
  <2> HIDE DEF u, n
  <2>2. n * u \in Int
    BY <2>1
  <2> QED
    BY <2>2 DEF TickIndex, u, n
<1> QED
  BY <1>1, <1>2, <1>3 DEF EventBase

(* What AddEvent does, whether there is a free entry or not.               *)
Added(h, delay) ==
  /\ entry' \in [Entries -> Entry] /\ queue' \in Seq(Entries) /\ free' \in Seq(Entries)
  /\ left' \in Int /\ cyc' \in Int /\ cmax' = cmax /\ left' + cyc' = left + cyc
  /\ \/ entry' = entry /\ queue' = queue /\ free' = <<>> /\ free = <<>>
        /\ cyc' = cyc /\ left' = left
     \/ LET e == Head(free)
        IN  /\ e \in Entries /\ e \notin ToSet(queue) /\ e \notin Held(passes)
            /\ entry'[e].index = EventBase + delay /\ entry'[e].handler = h
            /\ \A x \in Entries : x # e => entry'[x] = entry[x]
            /\ ToSet(queue') = ToSet(queue) \cup {e} /\ queue' # <<>>
            /\ free # <<>> /\ Len(free') = Len(free) - 1
            /\ CutGrant(entry'[Head(queue')].index)
  /\ Sorted'

LEMMA AddsSoundly ==
  ASSUME Sound, NEW h \in Handlers \cup {IrqCheck}, NEW v \in Values \cup {0},
         NEW delay \in Nat, AddEvent(h, v, delay), passes' = passes
  PROVE  Added(h, delay) /\ Placed'
<1>1. Typed /\ Placed /\ Sorted
  BY DEF Sound
<1>2. CASE free = <<>>
  <2>1. UNCHANGED <<lists, clock>>
    BY <1>2 DEF AddEvent
  <2>2. UNCHANGED <<entry, queue, free, left, cyc, cmax>>
    BY <2>1 DEF lists, clock
  <2>3. Added(h, delay)
    BY <1>1, <1>2, <2>2 DEF Added, Typed, Sorted
  <2>4. Placed'
    BY <1>1, <2>2 DEF Placed, Once, Apart, ToSet, Held
  <2> QED
    BY <2>3, <2>4
<1>3. CASE free # <<>>
  <2> DEFINE e == Head(free)
             index == EventBase + delay
  <2>1. AddEntry(h, v, index) /\ index \in Int
    BY <1>1, <1>3, BaseIs DEF AddEvent
  <2> HIDE DEF index
  <2>2. /\ e \in Entries /\ e \in ToSet(free)
        /\ e \notin ToSet(queue) /\ e \notin Held(passes)
        /\ entry' \in [Entries -> Entry]
        /\ entry'[e].index = index /\ entry'[e].handler = h
        /\ \A x \in Entries : x # e => entry'[x] = entry[x]
        /\ queue' \in Seq(Entries) /\ Once(queue') /\ queue' # <<>>
        /\ ToSet(queue') = ToSet(queue) \cup {e}
        /\ free' \in Seq(Entries) /\ Once(free') /\ ToSet(free') = ToSet(free) \ {e}
        /\ Len(free') = Len(free) - 1
        /\ Sorted'
        /\ CutGrant(entry'[Head(queue')].index)
    BY <1>3, <2>1, Queued
  <2> HIDE DEF e
  <2>3. entry'[Head(queue')].index \in Int
    <3>1. Head(queue') \in Entries
      BY <2>2
    <3>2. entry'[Head(queue')] \in Entry
      BY <2>2, <3>1
    <3> QED
      BY <3>2 DEF Entry
  <2>4. /\ left' \in Int /\ cyc' \in Int /\ cmax' = cmax /\ left' + cyc' = left + cyc
    BY <1>1, <2>2, <2>3, Cut
  <2>5. Added(h, delay)
    BY <1>3, <2>2, <2>4 DEF Added, e, index
  <2>6. Placed'
    <3> DEFINE Q == ToSet(queue)
               F == ToSet(free)
               H == Held(passes)
    <3>1. Apart(passes) /\ Q \cap F = {} /\ (Q \cup F) \cap H = {} /\ Q \cup F \cup H = Entries
      BY <1>1 DEF Placed
    <3>2. ToSet(queue') = Q \cup {e} /\ ToSet(free') = F \ {e} /\ e \in F
      BY <2>2
    <3> HIDE DEF Q, F, H
    <3>3. /\ ToSet(queue') \cap ToSet(free') = {} /\ (ToSet(queue') \cup ToSet(free')) \cap H = {}
          /\ ToSet(queue') \cup ToSet(free') \cup H = Entries
      BY <3>1, <3>2
    <3> QED
      BY <2>2, <3>1, <3>3 DEF Placed, H
  <2> QED
    BY <2>5, <2>6
<1> QED
  BY <1>2, <1>3

LEMMA SoundAfterAdd ==
  ASSUME Sound, NEW h, NEW delay, Added(h, delay), Placed',
         UNCHANGED <<passes, inService, srv_lag, oldCycles, mode>>, irqPending' \in BOOLEAN
  PROVE  Sound'
<1>1. Typed'
  <2>1. Typed
    BY DEF Sound
  <2>2. /\ entry' \in [Entries -> Entry] /\ queue' \in Seq(Entries) /\ free' \in Seq(Entries)
        /\ left' \in Int /\ cyc' \in Int /\ cmax' = cmax
    BY DEF Added
  <2> QED
    BY <2>1, <2>2 DEF Typed
<1>2. Nested'
  BY DEF Sound, Nested
<1>3. Sorted'
  BY DEF Added
<1> QED
  BY <1>1, <1>2, <1>3 DEF Sound

LEMMA SoundAfterUnlink ==
  ASSUME Sound, NEW victims, victims \subseteq Entries, Unlink(victims),
         UNCHANGED <<passes, inService, srv_lag, clock, irqPending, oldCycles, mode>>
  PROVE  Sound'
<1>1. Typed /\ Placed /\ Nested
  BY DEF Sound
<1>2. /\ queue' \in Seq(Entries) /\ Once(queue') /\ ToSet(queue') = ToSet(queue) \ victims
      /\ free' \in Seq(Entries) /\ Once(free')
      /\ ToSet(free') = ToSet(free) \cup (ToSet(queue) \cap victims)
      /\ entry' = entry /\ Sorted'
  BY Unlinked
<1>3. UNCHANGED <<left, cyc, cmax>>
  BY DEF clock
<1>4. Typed'
  BY <1>1, <1>2, <1>3 DEF Typed
<1>5. Nested'
  BY <1>1 DEF Nested
<1>6. Placed'
  <2> DEFINE Q == ToSet(queue)
             F == ToSet(free)
             H == Held(passes)
  <2>1. Apart(passes) /\ Q \cap F = {} /\ (Q \cup F) \cap H = {} /\ Q \cup F \cup H = Entries
    BY <1>1 DEF Placed
  <2>2. ToSet(queue') = Q \ victims /\ ToSet(free') = F \cup (Q \cap victims)
    BY <1>2
  <2> HIDE DEF Q, F, H
  <2>3. /\ ToSet(queue') \cap ToSet(free') = {} /\ (ToSet(queue') \cup ToSet(free')) \cap H = {}
        /\ ToSet(queue') \cup ToSet(free') \cup H = Entries
    BY <2>1, <2>2
  <2> QED
    BY <1>2, <2>1, <2>3 DEF Placed, H
<1> QED
  BY <1>2, <1>4, <1>5, <1>6 DEF Sound

(* A step that touches neither the lists nor the passes.                   *)
LEMMA SoundWithClock ==
  ASSUME Sound, UNCHANGED <<lists, passes, inService, srv_lag, irqPending>>,
         left' \in Int, cyc' \in Int, cmax' \in CycleMaxes, oldCycles' \in Nat, mode' \in Modes,
         mode # "serve", mode' # "serve"
  PROVE  Sound'
<1>1. UNCHANGED <<entry, queue, free>>
  BY DEF lists
<1>2. Typed'
  BY <1>1 DEF Sound, Typed
<1>3. Nested'
  BY DEF Sound, Nested
<1>4. Placed'
  BY <1>1 DEF Sound, Placed, Once, Apart, ToSet, Held
<1>5. Sorted'
  BY <1>1 DEF Sound, Sorted
<1> QED
  BY <1>2, <1>3, <1>4, <1>5 DEF Sound

LEMMA SoundDevice ==
  ASSUME Sound, Device
  PROVE  Sound'
<1>1. ASSUME NEW h \in Handlers, NEW v \in Values, NEW d \in Delays \cup HandlerDelays,
             PIC_AddEvent(h, v, d)
      PROVE  Sound'
  <2>1. AddEvent(h, v, d) /\ UNCHANGED <<passes, inService, srv_lag, irqPending, oldCycles, mode>>
    BY <1>1 DEF PIC_AddEvent
  <2>2. d \in Nat
    BY Constants
  <2>3. Added(h, d) /\ Placed'
    BY <2>1, <2>2, AddsSoundly
  <2>4. irqPending' \in BOOLEAN
    BY <2>1 DEF Sound, Typed
  <2> QED
    BY <2>1, <2>3, <2>4, SoundAfterAdd
<1>2. CASE Activate
  <2>1. AddEvent(IrqCheck, 0, IrqDelay) /\ UNCHANGED <<passes, inService, srv_lag, oldCycles, mode>>
    BY <1>2 DEF Activate
  <2>2. IrqDelay \in Nat
    BY Constants
  <2>3. Added(IrqCheck, IrqDelay) /\ Placed'
    BY <2>1, <2>2, AddsSoundly
  <2>4. irqPending' \in BOOLEAN
    BY <1>2 DEF Activate
  <2> QED
    BY <2>1, <2>3, <2>4, SoundAfterAdd
<1>3. ASSUME NEW h \in Handlers, PIC_RemoveEvents(h)
      PROVE  Sound'
  <2> DEFINE victims == {e \in Entries : entry[e].handler = h}
  <2>1. /\ Unlink(victims) /\ victims \subseteq Entries
        /\ UNCHANGED <<passes, inService, srv_lag, clock, irqPending, oldCycles, mode>>
    BY <1>3 DEF PIC_RemoveEvents
  <2> HIDE DEF victims
  <2> QED
    BY <2>1, SoundAfterUnlink
<1>4. ASSUME NEW h \in Handlers, NEW v \in Values, PIC_RemoveSpecificEvents(h, v)
      PROVE  Sound'
  <2> DEFINE victims == {e \in Entries : entry[e].handler = h /\ entry[e].value = v}
  <2>1. /\ Unlink(victims) /\ victims \subseteq Entries
        /\ UNCHANGED <<passes, inService, srv_lag, clock, irqPending, oldCycles, mode>>
    BY <1>4 DEF PIC_RemoveSpecificEvents
  <2> HIDE DEF victims
  <2> QED
    BY <2>1, SoundAfterUnlink
<1> QED
  BY <1>1, <1>2, <1>3, <1>4 DEF Device

LEMMA MinOfTwo ==
  ASSUME NEW a \in Int, NEW b \in Int
  PROVE  Min({a, b}) = IF a <= b THEN a ELSE b
<1> DEFINE m == IF a <= b THEN a ELSE b
           S == {a, b}
<1>1. m \in S /\ (\A y \in S : m <= y) /\ \A x \in S : (\A y \in S : x <= y) => x = m
  OBVIOUS
<1>2. Min(S) = CHOOSE x \in S : \A y \in S : x <= y
  BY DEF Min
<1> HIDE DEF m, S
<1>3. Min(S) = m
  BY <1>1, <1>2, Zenon
<1> QED
  BY <1>3 DEF m, S

(* The grant ends less than a cycle after the first event.                 *)
LEMMA Granted ==
  ASSUME Sound, NEW nd \in Int, ~Due(nd)
  PROVE  /\ Grant(nd) \in Int /\ Grant(nd) <= left /\ (left > 0 => Grant(nd) >= 1)
         /\ queue # <<>> =>
              /\ Head(queue) \in Entries
              /\ entry[Head(queue)].index * cmax > (nd + Grant(nd) - 1) * U
<1>1. left \in Int /\ cmax \in Nat \ {0} /\ U \in Nat \ {0} /\ queue \in Seq(Entries)
  BY Constants DEF Sound, Typed
<1>2. CASE queue = <<>>
  BY <1>1, <1>2 DEF Grant
<1>3. CASE queue # <<>>
  <2> DEFINE index == entry[Head(queue)].index
             ahead == index * cmax - nd * U
             cycles == ahead \div U
             most == IF cycles = 0 THEN 1 ELSE cycles
  <2>1. Head(queue) \in Entries
    BY <1>1, <1>3
  <2>2. index \in Int
    <3>1. entry[Head(queue)] \in Entry
      BY <2>1 DEF Sound, Typed
    <3> QED
      BY <3>1 DEF Entry
  <2>3. ~(index * cmax <= nd * U)
    BY <1>3 DEF Due
  <2>4. Grant(nd) = Min({most, left})
    BY <1>3, Zenon DEF Grant
  <2> HIDE DEF index
  <2>5. index * cmax \in Int /\ nd * U \in Int
    BY <1>1, <2>2
  <2>6. ahead \in Nat \ {0}
    BY <2>3, <2>5
  <2> HIDE DEF ahead
  <2>7. cycles \in Nat /\ cycles * U <= ahead
    BY <1>1, <2>6
  <2> HIDE DEF cycles
  <2>8. most \in Nat \ {0} /\ (most - 1) * U < ahead
    <3>1. CASE cycles = 0
      <4>1. most = 1 /\ (most - 1) * U = 0
        BY <1>1, <3>1
      <4> QED
        BY <2>6, <4>1
    <3>2. CASE cycles # 0
      <4>1. most = cycles /\ (cycles - 1) * U = cycles * U - U
        BY <1>1, <2>7, <3>2
      <4> HIDE DEF most
      <4>2. cycles * U \in Int
        BY <1>1, <2>7
      <4>3. (cycles - 1) * U < ahead
        BY <1>1, <2>6, <2>7, <4>1, <4>2
      <4> QED
        BY <2>7, <3>2, <4>1, <4>3
    <3> QED
      BY <3>1, <3>2
  <2> HIDE DEF most
  <2> DEFINE g == IF most <= left THEN most ELSE left
  <2>9. Grant(nd) = g
    BY <1>1, <2>4, <2>8, MinOfTwo
  <2>10. g \in Int /\ g <= left /\ g <= most /\ (left > 0 => g >= 1)
    BY <1>1, <2>8
  <2> HIDE DEF g
  <2>11. (nd + g - 1) * U < index * cmax
    <3>1. (nd + g - 1) * U = nd * U + (g - 1) * U
      BY <1>1, <2>10
    <3>2. (g - 1) * U <= (most - 1) * U
      BY <1>1, <2>8, <2>10
    <3>3. (g - 1) * U \in Int /\ (most - 1) * U \in Int
      BY <1>1, <2>8, <2>10
    <3>4. ahead = index * cmax - nd * U
      BY DEF ahead
    <3> QED
      BY <2>5, <2>6, <2>8, <3>1, <3>2, <3>3, <3>4
  <2>12. index * cmax > (nd + g - 1) * U
    <3>1. (nd + g - 1) * U \in Int
      BY <1>1, <2>10
    <3> QED
      BY <2>5, <2>11, <3>1
  <2> QED
    BY <2>1, <2>9, <2>10, <2>12 DEF index
<1> QED
  BY <1>2, <1>3

LEMMA SoundRunQueue ==
  ASSUME Sound, RunQueue
  PROVE  Sound'
<1>1. Typed /\ Nested /\ Placed /\ Sorted
  BY DEF Sound
<1>2. left \in Int /\ cyc \in Int /\ srv_lag \in Int /\ cmax \in Int
  BY <1>1, Constants DEF Typed
<1>3. CASE BeginPass
  <2>1. /\ mode = "loop" /\ left' = left + cyc /\ cyc' = 0
        /\ UNCHANGED <<lists, srv_lag, cmax, irqPending, oldCycles>>
    BY <1>3 DEF BeginPass
  <2>2. UNCHANGED <<entry, queue, free>>
    BY <2>1 DEF lists
  <2>3. CASE left' > 0
    <3> DEFINE nd == cmax - left'
    <3>1. /\ mode' = "serve" /\ inService' = TRUE
          /\ passes' = Append(passes, [nd |-> nd, entry |-> NoEntry])
      BY <1>3, <2>3 DEF BeginPass
    <3>2. nd \in Int
      BY <1>2, <2>1
    <3> HIDE DEF nd
    <3>3. passes \in Seq(Pass) /\ Apart(passes)
      BY <1>1 DEF Typed, Placed
    <3>4. /\ passes' \in Seq(Pass) /\ Apart(passes') /\ Held(passes') = Held(passes)
          /\ Len(passes') = Len(passes) + 1 /\ passes' # <<>>
      BY <3>1, <3>2, <3>3, PushPass
    <3>5. Len(passes') <= MaxDepth
      <4>1. Len(passes) < MaxDepth /\ Len(passes) \in Nat
        BY <1>1, <2>1, <3>3 DEF Nested
      <4> QED
        BY <3>4, <4>1, Constants
    <3>6. Typed'
      BY <1>1, <1>2, <2>1, <2>2, <3>1, <3>4 DEF Typed, Modes
    <3>7. Nested'
      BY <3>1, <3>4, <3>5 DEF Nested
    <3>8. Placed'
      BY <1>1, <2>2, <3>4 DEF Placed, Once, ToSet
    <3>9. Sorted'
      BY <1>1, <2>2 DEF Sorted
    <3> QED
      BY <3>6, <3>7, <3>8, <3>9 DEF Sound
  <2>4. CASE ~(left' > 0)
    <3>1. mode' = "idle" /\ UNCHANGED <<passes, inService>>
      BY <1>3, <2>4 DEF BeginPass
    <3>2. /\ left' \in Int /\ cyc' \in Int /\ cmax' \in CycleMaxes /\ oldCycles' \in Nat
          /\ mode' \in Modes /\ mode' # "serve" /\ mode # "serve"
      BY <1>1, <1>2, <2>1, <3>1 DEF Typed, Modes
    <3>3. UNCHANGED <<lists, passes, inService, srv_lag, irqPending>>
      BY <2>1, <3>1
    <3> QED
      BY <3>2, <3>3, SoundWithClock
  <2> QED
    BY <2>3, <2>4
<1>4. CASE Serve
  <2> DEFINE e == Head(queue)
  <2>1. /\ mode = "serve" /\ Top.entry = NoEntry /\ queue # <<>>
        /\ passes' = [passes EXCEPT ![Len(passes)].entry = e]
        /\ srv_lag' = entry[e].index
        /\ irqPending' = (irqPending /\ entry[e].handler # IrqCheck)
        /\ queue' = Tail(queue)
        /\ UNCHANGED <<entry, free, inService, clock, oldCycles, mode>>
    BY <1>4 DEF Serve, Due
  <2>2. UNCHANGED <<left, cyc, cmax>>
    BY <2>1 DEF clock
  <2>3. queue \in Seq(Entries) /\ Once(queue)
    BY <1>1 DEF Typed, Placed
  <2>4. /\ queue' \in Seq(Entries) /\ Once(queue') /\ e \in ToSet(queue)
        /\ ToSet(queue') = ToSet(queue) \ {e} /\ Len(queue') = Len(queue) - 1
        /\ \A i \in 1 .. Len(queue) - 1 : queue'[i] = queue[i + 1]
    BY <2>1, <2>3, HeadTailOnce
  <2>5. e \in Entries /\ e \notin Held(passes)
    <3>1. e \in Entries
      BY <2>3, <2>4, ElementsAre
    <3> QED
      BY <1>1, <2>4, <3>1 DEF Placed
  <2> HIDE DEF e
  <2>6. passes \in Seq(Pass) /\ Apart(passes) /\ passes # <<>>
    BY <1>1, <2>1 DEF Typed, Nested, Placed
  <2>7. /\ passes' \in Seq(Pass) /\ Apart(passes') /\ Len(passes') = Len(passes)
        /\ Held(passes') = Held(passes) \cup {e} /\ passes' # <<>>
    <3>1. NoEntry \notin Held(passes) /\ NoEntry \notin Entries /\ e # NoEntry
      BY <2>5, Constants DEF Held
    <3>2. /\ passes' \in Seq(Pass) /\ Apart(passes') /\ Len(passes') = Len(passes)
          /\ Held(passes') = (Held(passes) \ {Last(passes).entry}) \cup ({e} \ {NoEntry})
          /\ passes' # <<>>
      BY <2>1, <2>5, <2>6, <3>1, SetTop, Zenon
    <3>3. Last(passes).entry = NoEntry
      BY <2>1 DEF Top
    <3> QED
      BY <3>1, <3>2, <3>3
  <2>8. srv_lag' \in Int
    <3>1. entry[e] \in Entry
      BY <1>1, <2>5 DEF Typed
    <3> QED
      BY <2>1, <3>1 DEF Entry
  <2>9. Typed'
    <3>1. irqPending' \in BOOLEAN
      BY <2>1
    <3> QED
      BY <1>1, <2>1, <2>2, <2>4, <2>7, <2>8, <3>1 DEF Typed
  <2>10. Nested'
    BY <1>1, <2>1, <2>7 DEF Nested
  <2>11. Placed'
    <3> DEFINE Q == ToSet(queue)
               F == ToSet(free)
               H == Held(passes)
    <3>1. /\ Once(free') /\ ToSet(free') = F
          /\ Q \cap F = {} /\ (Q \cup F) \cap H = {} /\ Q \cup F \cup H = Entries
      BY <1>1, <2>1 DEF Placed
    <3>2. ToSet(queue') = Q \ {e} /\ Held(passes') = H \cup {e} /\ e \in Q
      BY <2>4, <2>7
    <3> HIDE DEF Q, F, H
    <3>3. /\ ToSet(queue') \cap ToSet(free') = {}
          /\ (ToSet(queue') \cup ToSet(free')) \cap Held(passes') = {}
          /\ ToSet(queue') \cup ToSet(free') \cup Held(passes') = Entries
      BY <3>1, <3>2
    <3> QED
      BY <2>4, <2>7, <3>1, <3>3 DEF Placed
  <2>12. Sorted'
    <3>1. /\ Len(queue) \in Nat /\ DOMAIN queue' = 1 .. Len(queue) - 1
          /\ DOMAIN queue = 1 .. Len(queue)
      BY <2>3, <2>4
    <3> SUFFICES ASSUME NEW i \in 1 .. Len(queue) - 1, NEW j \in 1 .. Len(queue) - 1, i < j
                 PROVE  entry[queue'[i]].index <= entry[queue'[j]].index
      BY <2>1, <3>1 DEF Sorted
    <3>2. i + 1 \in 1 .. Len(queue) /\ j + 1 \in 1 .. Len(queue) /\ i + 1 < j + 1
      BY <3>1
    <3>3. entry[queue[i + 1]].index <= entry[queue[j + 1]].index
      BY <1>1, <3>1, <3>2 DEF Sorted
    <3> QED
      BY <2>4, <3>3
  <2> QED
    BY <2>9, <2>10, <2>11, <2>12 DEF Sound
<1>5. CASE HandlerReturns
  <2> DEFINE e == Top.entry
  <2>1. /\ mode = "serve" /\ e # NoEntry
        /\ free' = <<e>> \o free
        /\ passes' = [passes EXCEPT ![Len(passes)].entry = NoEntry]
        /\ UNCHANGED <<entry, queue, inService, srv_lag, clock, irqPending, oldCycles, mode>>
    BY <1>5 DEF HandlerReturns
  <2>2. UNCHANGED <<left, cyc, cmax>>
    BY <2>1 DEF clock
  <2>3. passes \in Seq(Pass) /\ Apart(passes) /\ passes # <<>>
    BY <1>1, <2>1 DEF Typed, Nested, Placed
  <2>4. e \in Held(passes)
    BY <2>1, <2>3, PassesAre DEF Held, Top
  <2>5. e \in Entries /\ e \notin ToSet(free) /\ e \notin ToSet(queue)
    <3>1. e \in Entries
      BY <2>3, <2>4, PassesAre
    <3> QED
      BY <1>1, <2>4, <3>1 DEF Placed
  <2>6. /\ passes' \in Seq(Pass) /\ Apart(passes') /\ Len(passes') = Len(passes)
        /\ Held(passes') = Held(passes) \ {e} /\ passes' # <<>>
    <3>1. NoEntry \notin Held(passes) /\ NoEntry \notin Entries
      BY Constants DEF Held
    <3>2. /\ passes' \in Seq(Pass) /\ Apart(passes') /\ Len(passes') = Len(passes)
          /\ Held(passes') = (Held(passes) \ {Last(passes).entry}) \cup ({NoEntry} \ {NoEntry})
          /\ passes' # <<>>
      BY <2>1, <2>3, <3>1, SetTop, Zenon
    <3> QED
      BY <3>2 DEF Top
  <2> HIDE DEF e
  <2>7. /\ free' \in Seq(Entries) /\ Once(free') /\ ToSet(free') = ToSet(free) \cup {e}
    <3>1. free \in Seq(Entries) /\ Once(free)
      BY <1>1 DEF Typed, Placed
    <3> QED
      BY <2>1, <2>5, <3>1, PushOnce
  <2>8. Typed'
    BY <1>1, <2>1, <2>2, <2>6, <2>7 DEF Typed
  <2>9. Nested'
    BY <1>1, <2>1, <2>6 DEF Nested
  <2>10. Placed'
    <3> DEFINE Q == ToSet(queue)
               F == ToSet(free)
               H == Held(passes)
    <3>1. /\ Once(queue') /\ ToSet(queue') = Q
          /\ Q \cap F = {} /\ (Q \cup F) \cap H = {} /\ Q \cup F \cup H = Entries
      BY <1>1, <2>1 DEF Placed
    <3>2. ToSet(free') = F \cup {e} /\ Held(passes') = H \ {e} /\ e \in H
      BY <2>4, <2>6, <2>7
    <3> HIDE DEF Q, F, H
    <3>3. /\ ToSet(queue') \cap ToSet(free') = {}
          /\ (ToSet(queue') \cup ToSet(free')) \cap Held(passes') = {}
          /\ ToSet(queue') \cup ToSet(free') \cup Held(passes') = Entries
      BY <3>1, <3>2
    <3> QED
      BY <2>6, <2>7, <3>1, <3>3 DEF Placed
  <2>11. Sorted'
    BY <1>1, <2>1 DEF Sorted
  <2> QED
    BY <2>8, <2>9, <2>10, <2>11 DEF Sound
<1>6. CASE EndPass
  <2>1. /\ mode = "serve" /\ Top.entry = NoEntry /\ ~Due(Top.nd)
        /\ inService' = FALSE /\ cyc' = Grant(Top.nd) /\ left' = left - cyc'
        /\ passes' = Front(passes)
        /\ mode' = IF left > 0 THEN "cpu" ELSE "idle"
        /\ UNCHANGED <<lists, srv_lag, cmax, irqPending, oldCycles>>
    BY <1>6 DEF EndPass
  <2>2. UNCHANGED <<entry, queue, free>>
    BY <2>1 DEF lists
  <2>3. passes \in Seq(Pass) /\ Apart(passes) /\ passes # <<>>
    BY <1>1, <2>1 DEF Typed, Nested, Placed
  <2>4. Top.nd \in Int
    <3>1. Top \in Pass
      BY <2>3, PassesAre DEF Top
    <3> QED
      BY <3>1 DEF Pass
  <2>5. cyc' \in Int /\ left' \in Int
    BY <1>2, <2>1, <2>4, Granted
  <2>6. /\ passes' \in Seq(Pass) /\ Apart(passes') /\ Held(passes') = Held(passes)
        /\ Len(passes') = Len(passes) - 1
    BY <2>1, <2>3, PopPass DEF Top
  <2>7. mode' \in Modes /\ mode' # "serve"
    BY <2>1 DEF Modes
  <2>8. Typed'
    BY <1>1, <2>1, <2>2, <2>5, <2>6, <2>7 DEF Typed
  <2>9. Nested'
    <3>1. Len(passes) <= MaxDepth /\ Len(passes) \in Nat
      BY <1>1, <2>1, <2>3 DEF Nested
    <3>2. Len(passes') < MaxDepth
      BY <2>6, <3>1, Constants
    <3> QED
      BY <2>1, <2>7, <3>2 DEF Nested
  <2>10. Placed'
    BY <1>1, <2>2, <2>6 DEF Placed, Once, ToSet
  <2>11. Sorted'
    BY <1>1, <2>2 DEF Sorted
  <2> QED
    BY <2>8, <2>9, <2>10, <2>11 DEF Sound
<1> QED
  BY <1>3, <1>4, <1>5, <1>6 DEF RunQueue

LEMMA SoundCpu ==
  ASSUME Sound, Cpu \/ Disturb
  PROVE  Sound'
<1>1. /\ left \in Int /\ cyc \in Int /\ cmax \in CycleMaxes /\ oldCycles \in Nat /\ MaxInsn \in Nat
  BY Constants DEF Sound, Typed
<1>2. \A n \in 1 .. MaxInsn : n \in Int
  BY <1>1
<1>3. ASSUME NEW n \in 1 .. MaxInsn, Execute(n) PROVE Sound'
  BY <1>1, <1>2, <1>3, SoundWithClock DEF Execute, Modes
<1>4. CASE CPU_HLT
  BY <1>1, <1>4, SoundWithClock DEF CPU_HLT, Modes
<1>5. CASE CpuReturns
  BY <1>1, <1>5, SoundWithClock DEF CpuReturns, clock, Modes
<1>6. ASSUME NEW c \in CycleMaxes, Change_Config(c) PROVE Sound'
  BY <1>1, <1>6, SoundWithClock DEF Change_Config, Modes
<1>7. CASE ForfeitTick
  BY <1>1, <1>7, SoundWithClock DEF ForfeitTick, Modes
<1>8. CASE BeginTrap
  <2>1. cyc \in Nat
    BY <1>1, <1>8 DEF BeginTrap
  <2> QED
    BY <1>1, <1>8, <2>1, SoundWithClock DEF BeginTrap, Modes
<1>9. CASE EndTrap
  BY <1>1, <1>9, SoundWithClock DEF EndTrap, Modes
<1> QED
  BY <1>3, <1>4, <1>5, <1>6, <1>7, <1>8, <1>9 DEF Cpu, Disturb

(* A tick moves the times of the events that are queued, all by as much.   *)
LEMMA Ticked ==
  ASSUME Sound, TIMER_AddTick
  PROVE  /\ entry' \in [Entries -> Entry] /\ Sorted'
         /\ \A e \in Entries : entry'[e].handler = entry[e].handler
         /\ \A e \in ToSet(queue) : entry'[e].index = entry[e].index - U
<1> DEFINE new(e) == IF Contains(queue, e) THEN [entry[e] EXCEPT !.index = @ - U] ELSE entry[e]
<1>1. /\ entry' = [e \in Entries |-> new(e)] /\ queue' = queue
      /\ entry \in [Entries -> Entry] /\ queue \in Seq(Entries) /\ U \in Int
  BY Constants DEF TIMER_AddTick, Sound, Typed
<1>2. ASSUME NEW e \in Entries
      PROVE  /\ new(e) \in Entry /\ new(e).handler = entry[e].handler
             /\ Contains(queue, e) => new(e).index = entry[e].index - U
  <2>1. entry[e] \in Entry
    BY <1>1
  <2>2. entry[e].index \in Int
    BY <2>1 DEF Entry
  <2>3. CASE Contains(queue, e)
    <3> DEFINE r == entry[e]
               t == [r EXCEPT !.index = @ - U]
    <3>1. new(e) = t
      BY <2>3
    <3>3. r \in Entry /\ r.index - U \in Int
      BY <1>1, <2>1, <2>2
    <3> HIDE DEF r
    <3>2. t \in Entry /\ t.handler = r.handler /\ t.index = r.index - U
      BY <3>3 DEF Entry
    <3> HIDE DEF t, new
    <3> QED
      BY <3>1, <3>2 DEF r
  <2>4. CASE ~Contains(queue, e)
    BY <2>1, <2>4
  <2> QED
    BY <2>3, <2>4
<1> HIDE DEF new
<1>3. \A e \in ToSet(queue) : e \in Entries /\ Contains(queue, e)
  BY <1>1, ElementsAre DEF Contains
<1>4. \A e \in ToSet(queue) : /\ entry'[e].index = entry[e].index - U
                              /\ entry[e].index \in Int
  <2> TAKE e \in ToSet(queue)
  <2>1. entry[e] \in Entry
    BY <1>1, <1>3
  <2>2. entry[e].index \in Int
    BY <2>1 DEF Entry
  <2> QED
    BY <1>1, <1>2, <1>3, <2>2
<1>5. Sorted'
  <2>1. DOMAIN queue = 1 .. Len(queue) /\ \A i \in 1 .. Len(queue) : queue[i] \in ToSet(queue)
    BY <1>1, ElementsAre
  <2>2. \A i, j \in 1 .. Len(queue) :
          i < j => entry[queue[i]].index <= entry[queue[j]].index
    BY <2>1 DEF Sound, Sorted
  <2> SUFFICES ASSUME NEW i \in 1 .. Len(queue), NEW j \in 1 .. Len(queue), i < j
               PROVE  entry'[queue[i]].index <= entry'[queue[j]].index
    BY <1>1, <2>1 DEF Sorted
  <2>3. /\ entry[queue[i]].index <= entry[queue[j]].index
        /\ entry[queue[i]].index \in Int /\ entry[queue[j]].index \in Int
    BY <1>4, <2>1, <2>2
  <2>4. /\ entry'[queue[i]].index = entry[queue[i]].index - U
        /\ entry'[queue[j]].index = entry[queue[j]].index - U
    BY <1>4, <2>1
  <2> QED
    BY <1>1, <2>3, <2>4
<1> QED
  BY <1>1, <1>2, <1>4, <1>5

LEMMA SoundTick ==
  ASSUME Sound, Tick
  PROVE  Sound'
<1>1. /\ left \in Int /\ cyc \in Int /\ cmax \in CycleMaxes /\ cmax \in Int /\ oldCycles \in Nat
  BY Constants DEF Sound, Typed
<1>2. CASE TIMER_AddTick
  <2>1. /\ entry' \in [Entries -> Entry] /\ Sorted' /\ mode' = "loop" /\ mode = "idle"
        /\ left' = left + cmax + cyc /\ cyc' = 0
        /\ UNCHANGED <<queue, free, passes, inService, srv_lag, cmax, irqPending, oldCycles>>
    BY <1>2, Ticked DEF TIMER_AddTick
  <2>2. left' \in Int /\ cyc' \in Int
    BY <1>1, <2>1
  <2>3. Typed'
    BY <2>1, <2>2 DEF Sound, Typed, Modes
  <2>4. Nested'
    BY <2>1 DEF Sound, Nested
  <2>5. Placed'
    BY <2>1 DEF Sound, Placed, Once, Apart, ToSet, Held
  <2> QED
    BY <2>1, <2>3, <2>4, <2>5 DEF Sound
<1>3. ASSUME NEW c \in CycleMaxes, AdjustCycles(c) PROVE Sound'
  BY <1>1, <1>3, SoundWithClock DEF AdjustCycles, Modes
<1> QED
  BY <1>2, <1>3 DEF Tick

LEMMA SoundIdle ==
  ASSUME Sound, CALLBACK_Idle \/ IdleReturns
  PROVE  Sound'
<1>1. /\ left \in Int /\ cyc \in Int /\ cmax \in CycleMaxes /\ oldCycles \in Nat
      /\ Len(passes) \in Nat /\ MaxDepth \in Nat
  BY Constants, PassesAre DEF Sound, Typed
<1>2. UNCHANGED <<lists, passes, inService, srv_lag, irqPending, left, cmax, oldCycles>>
  BY DEF CALLBACK_Idle, IdleReturns, clock
<1>3. UNCHANGED <<entry, queue, free>>
  BY <1>2 DEF lists
<1>4. cyc' \in Int /\ mode' \in Modes
  BY <1>1 DEF CALLBACK_Idle, IdleReturns, clock, Modes
<1>5. Typed'
  BY <1>1, <1>2, <1>3, <1>4 DEF Sound, Typed
<1>6. Nested'
  <2>1. CASE CALLBACK_Idle
    BY <1>2, <2>1 DEF CALLBACK_Idle, Sound, Nested
  <2>2. CASE IdleReturns
    <3>1. Len(passes) < MaxDepth /\ passes # <<>> /\ mode' = "serve"
      BY <2>2 DEF IdleReturns, Sound, Nested
    <3>2. Len(passes) <= MaxDepth
      BY <1>1, <3>1
    <3> QED
      BY <1>2, <3>1, <3>2 DEF Nested
  <2> QED
    BY <2>1, <2>2
<1>7. Placed'
  BY <1>2, <1>3 DEF Sound, Placed, Once, Apart, ToSet, Held
<1>8. Sorted'
  BY <1>3 DEF Sound, Sorted
<1> QED
  BY <1>5, <1>6, <1>7, <1>8 DEF Sound

LEMMA SoundInit ==
  Init => Sound
<1> SUFFICES ASSUME Init PROVE Sound
  OBVIOUS
<1>1. /\ entry = [e \in Entries |-> [index |-> 0, handler |-> IrqCheck, value |-> 0]]
      /\ queue = <<>> /\ free \in SetToSeqs(Entries) /\ passes = <<>>
      /\ inService = FALSE /\ srv_lag = 0 /\ cmax \in CycleMaxes /\ left = cmax /\ cyc = 0
      /\ irqPending = FALSE /\ oldCycles = 0 /\ mode = "loop"
  BY DEF Init
<1> DEFINE n == Cardinality(Entries)
<1>2. n \in Nat
  BY Constants, FS_CardinalityType
<1>3. /\ free \in [1 .. n -> Entries]
      /\ \A i, j \in 1 .. n : i # j => free[i] # free[j]
  BY <1>1, Zenon DEF SetToSeqs
<1> HIDE DEF n
<1>4. free \in Injection(1 .. n, Entries)
  BY <1>3 DEF Injection, IsInjective
<1>5. Cardinality(1 .. n) = n
  BY <1>2, FS_Interval
<1>6. free \in Surjection(1 .. n, Entries)
  BY <1>4, <1>5, Constants, FS_Injection DEF n
<1>7. \A e \in Entries : \E i \in 1 .. n : free[i] = e
  BY <1>6 DEF Surjection
<1>8. free \in Seq(Entries) /\ Len(free) = n /\ DOMAIN free = 1 .. n
  BY <1>2, <1>3
<1>9. ToSet(free) = Entries
  BY <1>3, <1>7, <1>8 DEF ToSet
<1>10. /\ queue \in Seq(Entries) /\ Once(queue) /\ ToSet(queue) = {}
       /\ passes \in Seq(Pass) /\ Apart(passes) /\ Held(passes) = {} /\ Len(passes) = 0
  BY <1>1 DEF Once, ToSet, Apart, Held
<1>11. Typed
  <2>1. entry \in [Entries -> Entry]
    BY <1>1 DEF Entry
  <2>2. {left, cyc, srv_lag} \subseteq Int /\ oldCycles \in Nat
    BY <1>1, Constants
  <2>3. {inService, irqPending} \subseteq BOOLEAN /\ mode \in Modes
    BY <1>1 DEF Modes
  <2>4. /\ queue \in Seq(Entries) /\ free \in Seq(Entries) /\ passes \in Seq(Pass)
        /\ cmax \in CycleMaxes
    BY <1>1, <1>8, <1>10
  <2> QED
    BY <2>1, <2>2, <2>3, <2>4, Zenon DEF Typed
<1>12. Nested
  BY <1>1, <1>10, Constants DEF Nested
<1>13. Placed
  BY <1>3, <1>8, <1>9, <1>10 DEF Placed, Once
<1>14. Sorted
  BY <1>1 DEF Sorted
<1> QED
  BY <1>11, <1>12, <1>13, <1>14 DEF Sound

LEMMA SoundStep ==
  Sound /\ [Next]_vars => Sound'
<1> SUFFICES ASSUME Sound, [Next]_vars PROVE Sound'
  OBVIOUS
<1>1. CASE Next
  BY <1>1, SoundDevice, SoundRunQueue, SoundCpu, SoundTick, SoundIdle DEF Next
<1>2. CASE UNCHANGED vars
  <2>1. UNCHANGED <<entry, queue, free, passes, inService, srv_lag, left, cyc, cmax,
                    irqPending, oldCycles, mode>>
    BY <1>2 DEF vars
  <2>2. Typed' /\ Nested'
    BY <2>1 DEF Sound, Typed, Nested
  <2>3. Placed'
    BY <2>1 DEF Sound, Placed, Once, Apart, ToSet, Held
  <2>4. Sorted'
    BY <2>1 DEF Sound, Sorted
  <2> QED
    BY <2>2, <2>3, <2>4 DEF Sound
<1> QED
  BY <1>1, <1>2

LEMMA AlwaysSound ==
  Spec => []Sound
<1>1. Init => Sound
  BY SoundInit
<1>2. Sound /\ [Next]_vars => Sound'
  BY SoundStep
<1> QED
  BY <1>1, <1>2, PTL DEF Spec

(* A list without repetition is as long as the set of its elements is large. *)
LEMMA OnceCounts ==
  ASSUME NEW T, NEW s \in Seq(T), Once(s)
  PROVE  IsFiniteSet(ToSet(s)) /\ Cardinality(ToSet(s)) = Len(s)
<1> DEFINE n == Len(s)
<1>1. n \in Nat /\ DOMAIN s = 1 .. n /\ ToSet(s) = {s[i] : i \in 1 .. n} /\ s = [i \in 1 .. n |-> s[i]]
  BY ElementsAre
<1> HIDE DEF n
<1>2. s \in [1 .. n -> ToSet(s)]
  BY <1>1
<1>3. s \in Bijection(1 .. n, ToSet(s))
  <2>1. \A i, j \in 1 .. n : s[i] = s[j] => i = j
    BY <1>1 DEF Once
  <2>2. \A e \in ToSet(s) : \E i \in 1 .. n : s[i] = e
    BY <1>1
  <2> QED
    BY <1>2, <2>1, <2>2 DEF Bijection, Injection, Surjection, IsInjective
<1>4. ExistsBijection(1 .. n, ToSet(s))
  BY <1>3 DEF ExistsBijection
<1>5. IsFiniteSet(1 .. n) /\ Cardinality(1 .. n) = n
  <2>1. n \in Nat
    BY <1>1
  <2> QED
    BY <2>1, FS_Interval
<1> QED
  BY <1>4, <1>5, FS_Bijection DEF n

LEMMA ApartCounts ==
  ASSUME NEW ps \in Seq(Pass), Apart(ps)
  PROVE  LET busy == {i \in DOMAIN ps : ps[i].entry # NoEntry}
         IN  /\ IsFiniteSet(Held(ps))
             /\ Cardinality(Held(ps)) = Cardinality(busy)
<1> DEFINE busy == {i \in DOMAIN ps : ps[i].entry # NoEntry}
           f == [i \in busy |-> ps[i].entry]
<1>1. DOMAIN ps = 1 .. Len(ps) /\ Len(ps) \in Nat
  BY PassesAre
<1>2. IsFiniteSet(busy)
  <2>1. IsFiniteSet(1 .. Len(ps))
    BY <1>1, FS_Interval
  <2> QED
    BY <1>1, <2>1, FS_Subset
<1>3. f \in Bijection(busy, Held(ps))
  <2>1. f \in [busy -> Held(ps)]
    BY DEF Held
  <2>2. \A i, j \in busy : f[i] = f[j] => i = j
    BY DEF Apart
  <2>3. \A e \in Held(ps) : \E i \in busy : f[i] = e
    BY DEF Held
  <2> HIDE DEF f, busy
  <2> QED
    BY <2>1, <2>2, <2>3 DEF Bijection, Injection, Surjection, IsInjective
<1>4. ExistsBijection(busy, Held(ps))
  BY <1>3 DEF ExistsBijection
<1> HIDE DEF busy
<1>5. IsFiniteSet(Held(ps)) /\ Cardinality(Held(ps)) = Cardinality(busy)
  BY <1>2, <1>4, FS_Bijection
<1> QED
  BY <1>5 DEF busy

LEMMA DisjointCounts ==
  ASSUME NEW S, NEW T, IsFiniteSet(S), IsFiniteSet(T), S \cap T = {}
  PROVE  /\ IsFiniteSet(S \cup T)
         /\ Cardinality(S \cup T) = Cardinality(S) + Cardinality(T)
<1>1. /\ IsFiniteSet(S \cup T)
      /\ Cardinality(S \cup T) = Cardinality(S) + Cardinality(T) - Cardinality(S \cap T)
  BY FS_Union
<1>2. Cardinality(S) \in Nat /\ Cardinality(T) \in Nat /\ Cardinality(S \cap T) = 0
  BY FS_CardinalityType, FS_EmptySet
<1> QED
  BY <1>1, <1>2

LEMMA SoundTyped ==
  Sound => TypeOK
<1> SUFFICES ASSUME Sound PROVE TypeOK
  OBVIOUS
<1>1. Typed /\ Nested
  BY DEF Sound
<1>2. \A e \in Entries : /\ entry[e].index \in Int
                         /\ entry[e].handler \in Handlers \cup {IrqCheck}
  <2> TAKE e \in Entries
  <2>1. entry[e] \in Entry
    BY <1>1 DEF Typed
  <2> QED
    BY <2>1 DEF Entry
<1>3. Len(passes) \in Nat /\ InService \subseteq Entries
  <2>1. passes \in Seq(Pass)
    BY <1>1 DEF Typed
  <2> QED
    BY <2>1, PassesAre DEF InService, Held
<1>4. Len(passes) <= MaxDepth
  BY <1>1, <1>3, Constants DEF Nested
<1>5. inService => passes # <<>>
  BY <1>1 DEF Nested
<1> QED
  BY <1>1, <1>2, <1>3, <1>4, <1>5 DEF Typed, TypeOK

LEMMA SoundPartition ==
  Sound => Partition
<1> SUFFICES ASSUME Sound PROVE Partition
  OBVIOUS
<1> DEFINE Q == ToSet(queue)
           F == ToSet(free)
           H == Held(passes)
<1>1. /\ queue \in Seq(Entries) /\ free \in Seq(Entries) /\ passes \in Seq(Pass)
      /\ Once(queue) /\ Once(free) /\ Apart(passes)
      /\ Q \cap F = {} /\ (Q \cup F) \cap H = {} /\ Q \cup F \cup H = Entries
  BY DEF Sound, Typed, Placed
<1>2. /\ IsFiniteSet(Q) /\ Cardinality(Q) = Len(queue)
      /\ IsFiniteSet(F) /\ Cardinality(F) = Len(free)
      /\ IsFiniteSet(H)
      /\ Cardinality(H) = Cardinality({i \in DOMAIN passes : passes[i].entry # NoEntry})
  BY <1>1, OnceCounts, ApartCounts
<1>3. InService = H
  BY DEF InService, Held
<1> HIDE DEF Q, F, H
<1>4. IsFiniteSet(Q \cup F) /\ Cardinality(Q \cup F) = Len(queue) + Len(free)
  <2>1. IsFiniteSet(Q) /\ IsFiniteSet(F) /\ Q \cap F = {}
    BY <1>1, <1>2
  <2>2. IsFiniteSet(Q \cup F) /\ Cardinality(Q \cup F) = Cardinality(Q) + Cardinality(F)
    BY <2>1, DisjointCounts
  <2> QED
    BY <1>2, <2>2
<1>5. Cardinality((Q \cup F) \cup H) = Len(queue) + Len(free) + Cardinality(H)
  BY <1>1, <1>2, <1>4, DisjointCounts
<1> QED
  BY <1>1, <1>2, <1>3, <1>5 DEF Partition, Q, F

(* Whatever is queued, removed, served and nested, the lists of pic_queue  *)
(* hold entries and the loop is where it can be: type correctness.         *)
THEOREM TypeCorrect == Spec => []TypeOK
<1>1. Sound => TypeOK
  BY SoundTyped
<1> QED
  BY <1>1, AlwaysSound, PTL

(* No entry of pic_queue is lost, and none is in two places: PIC_AddEvent  *)
(* never overwrites an event that is queued or being served.               *)
THEOREM EntriesAccountedFor == Spec => []Partition
<1>1. Sound => Partition
  BY SoundPartition
<1> QED
  BY <1>1, AlwaysSound, PTL

(* The list stays sorted by time, across insertions, removals and ticks.   *)
THEOREM QueueSorted == Spec => []Sorted
<1>1. Sound => Sorted
  BY DEF Sound
<1> QED
  BY <1>1, AlwaysSound, PTL
-----------------------------------------------------------------------------
(***************************************************************************)
(* A pending interrupt check keeps its event.  Nothing in the code bounds  *)
(* what the devices queue, so PIC_AddEvent may drop the check when it is   *)
(* asked for; the lemma says that this is the only way to lose it.         *)
(***************************************************************************)
Awaited == irqPending => \E e \in ToSet(queue) : entry[e].handler = IrqCheck

LEMMA AwaitedIs ==
  ASSUME Sound
  PROVE  Awaited <=> (irqPending => CheckWaits)
<1>1. queue \in Seq(Entries)
  BY DEF Sound, Typed
<1> QED
  BY <1>1, ElementsAre DEF Awaited, CheckWaits

LEMMA CheckStep ==
  ASSUME Sound, Awaited, ~(~irqPending /\ free = <<>>), [Next]_vars
  PROVE  Awaited'
<1>1. /\ entry \in [Entries -> Entry] /\ queue \in Seq(Entries) /\ free \in Seq(Entries)
      /\ Once(queue) /\ ToSet(queue) \subseteq Entries /\ IrqCheck \notin Handlers
  BY Constants, ElementsAre DEF Sound, Typed, Placed
<1>2. ASSUME NEW h \in Handlers, NEW v \in Values, NEW d \in Delays \cup HandlerDelays,
             PIC_AddEvent(h, v, d)
      PROVE  Awaited'
  <2>1. d \in Nat /\ AddEvent(h, v, d) /\ passes' = passes /\ irqPending' = irqPending
    BY <1>2, Constants DEF PIC_AddEvent
  <2>2. Added(h, d)
    BY <2>1, AddsSoundly
  <2>3. CASE free = <<>>
    BY <2>1, <2>2, <2>3 DEF Added, Awaited, ToSet
  <2>4. CASE free # <<>>
    <3>1. ToSet(queue) \subseteq ToSet(queue') /\ \A x \in ToSet(queue) : entry'[x] = entry[x]
      BY <1>1, <2>2, <2>4 DEF Added
    <3> QED
      BY <2>1, <3>1 DEF Awaited
  <2> QED
    BY <2>3, <2>4
<1>3. CASE Activate
  <2>1. /\ ~irqPending /\ AddEvent(IrqCheck, 0, IrqDelay) /\ passes' = passes /\ IrqDelay \in Nat
    BY <1>3, Constants DEF Activate
  <2>2. Added(IrqCheck, IrqDelay)
    BY <2>1, AddsSoundly
  <2>3. ToSet(queue') = ToSet(queue) \cup {Head(free)} /\ entry'[Head(free)].handler = IrqCheck
    BY <2>1, <2>2 DEF Added
  <2> QED
    BY <2>3 DEF Awaited
<1>4. ASSUME NEW h \in Handlers, NEW victims, victims \subseteq Entries,
             \A e \in victims : entry[e].handler = h, Unlink(victims), irqPending' = irqPending
      PROVE  Awaited'
  <2>1. ToSet(queue') = ToSet(queue) \ victims /\ entry' = entry
    BY <1>4, Unlinked
  <2> QED
    BY <1>1, <1>4, <2>1 DEF Awaited
<1>5. ASSUME NEW h \in Handlers, PIC_RemoveEvents(h)
      PROVE  Awaited'
  <2> DEFINE victims == {e \in Entries : entry[e].handler = h}
  <2>1. /\ Unlink(victims) /\ victims \subseteq Entries /\ \A e \in victims : entry[e].handler = h
        /\ irqPending' = irqPending
    BY <1>5 DEF PIC_RemoveEvents
  <2> HIDE DEF victims
  <2> QED
    BY <1>4, <2>1
<1>6. ASSUME NEW h \in Handlers, NEW v \in Values, PIC_RemoveSpecificEvents(h, v)
      PROVE  Awaited'
  <2> DEFINE victims == {e \in Entries : entry[e].handler = h /\ entry[e].value = v}
  <2>1. /\ Unlink(victims) /\ victims \subseteq Entries /\ \A e \in victims : entry[e].handler = h
        /\ irqPending' = irqPending
    BY <1>6 DEF PIC_RemoveSpecificEvents
  <2> HIDE DEF victims
  <2> QED
    BY <1>4, <2>1
<1>7. CASE Serve
  <2> DEFINE e == Head(queue)
  <2>1. /\ queue # <<>> /\ queue' = Tail(queue) /\ entry' = entry
        /\ irqPending' = (irqPending /\ entry[e].handler # IrqCheck)
    BY <1>7 DEF Serve, Due
  <2>2. ToSet(queue') = ToSet(queue) \ {e}
    BY <1>1, <2>1, HeadTailOnce
  <2> HIDE DEF e
  <2> QED
    BY <2>1, <2>2 DEF Awaited
<1>8. CASE TIMER_AddTick
  <2>1. /\ \A e \in Entries : entry'[e].handler = entry[e].handler
        /\ UNCHANGED <<queue, irqPending>>
    BY <1>8, Ticked DEF TIMER_AddTick
  <2> QED
    BY <1>1, <2>1 DEF Awaited, ToSet
<1>9. CASE UNCHANGED <<entry, queue, irqPending>>
  BY <1>9 DEF Awaited
<1>10. CASE BeginPass \/ HandlerReturns \/ EndPass \/ CALLBACK_Idle \/ IdleReturns
  BY <1>9, <1>10 DEF BeginPass, HandlerReturns, EndPass, CALLBACK_Idle, IdleReturns, lists
<1>11. CASE Cpu \/ Disturb \/ UNCHANGED vars \/ \E c \in CycleMaxes : AdjustCycles(c)
  BY <1>9, <1>11 DEF Cpu, Disturb, Execute, CPU_HLT, CpuReturns, Change_Config, ForfeitTick,
                     BeginTrap, EndTrap, AdjustCycles, lists, vars
<1> QED
  BY <1>2, <1>3, <1>5, <1>6, <1>7, <1>8, <1>10, <1>11 DEF Next, Device, RunQueue, Tick

(* Once PIC_IRQCheckPending is set no other check is asked for, so the one *)
(* that is pending must keep its event.  It does, whatever devices and     *)
(* handlers queue, remove and run, if it got one when it was asked for.    *)
THEOREM CheckLostByRequest == Spec => CheckLostOnlyWhenFull
<1>1. /\ Sound /\ Sound' /\ [Next]_vars /\ (irqPending => CheckWaits) /\ irqPending' /\ ~CheckWaits'
      => ~irqPending /\ free = <<>>
  <2> SUFFICES ASSUME Sound, Sound', [Next]_vars, irqPending => CheckWaits, irqPending',
                      ~CheckWaits', ~(~irqPending /\ free = <<>>)
               PROVE  FALSE
    OBVIOUS
  <2>1. Awaited
    BY AwaitedIs
  <2>2. Awaited'
    BY <2>1, CheckStep
  <2>3. queue' \in Seq(Entries)
    BY DEF Sound, Typed
  <2> QED
    BY <2>2, <2>3, ElementsAre DEF Awaited, CheckWaits
<1> QED
  BY <1>1, AlwaysSound, PTL DEF Spec, CheckLostOnlyWhenFull
-----------------------------------------------------------------------------
(***************************************************************************)
(* Time.  When no handler runs the loop inside itself, a pass is the only  *)
(* one, knows the time and has all cycles back from the CPU.               *)
(***************************************************************************)
Paced ==
  /\ mode = "serve" => Len(passes) = 1 /\ cyc = 0 /\ left > 0 /\ Top.nd = cmax - left
  /\ mode # "serve" => passes = <<>>
  /\ inService <=> mode = "serve"
  /\ mode = "idle" => cyc = 0 /\ left <= 0

LEMMA AddsNoTime ==
  ASSUME Sound, NEW h, NEW delay, Added(h, delay)
  PROVE  /\ TickIndexND' = TickIndexND /\ (cyc = 0 => cyc' = 0 /\ left' = left)
         /\ cyc' = 0 \/ (cyc' = cyc /\ left' = left)
<1>1. /\ left \in Int /\ cyc \in Int /\ cmax \in Int
      /\ left' \in Int /\ cyc' \in Int /\ cmax' = cmax /\ left' + cyc' = left + cyc
  BY Constants DEF Added, Sound, Typed
<1>2. cyc' = 0 \/ (cyc' = cyc /\ left' = left)
  <2>1. ASSUME NEW first, CutGrant(first) PROVE cyc' = 0 \/ (cyc' = cyc /\ left' = left)
    BY <2>1 DEF CutGrant, clock
  <2> QED
    BY <2>1 DEF Added
<1> DEFINE l == left'
           c == cyc'
<1>5. l \in Int /\ c \in Int /\ cmax' = cmax /\ l + c = left + cyc
  BY <1>1
<1>6. c = 0 \/ (c = cyc /\ l = left)
  BY <1>2
<1> HIDE DEF l, c
<1>3. cmax - l - c = cmax - left - cyc
  BY <1>1, <1>5
<1>4. cyc = 0 => c = 0 /\ l = left
  BY <1>1, <1>5, <1>6
<1> QED
  BY <1>3, <1>4, <1>5, <1>6 DEF TickIndexND, l, c

LEMMA DeviceAdds ==
  ASSUME Sound, Device
  PROVE  /\ UNCHANGED <<passes, inService, srv_lag, oldCycles, mode>> /\ DeviceRuns
         /\ \/ \E h \in Handlers \cup {IrqCheck}, delay \in Nat : Added(h, delay)
            \/ /\ UNCHANGED <<entry, left, cyc, cmax>>
               /\ queue' \in Seq(Entries) /\ ToSet(queue') \subseteq ToSet(queue)
<1>1. ASSUME NEW h \in Handlers, NEW v \in Values, NEW d \in Delays \cup HandlerDelays,
             PIC_AddEvent(h, v, d)
      PROVE  Added(h, d) /\ d \in Nat
  <2>1. AddEvent(h, v, d) /\ passes' = passes
    BY <1>1 DEF PIC_AddEvent
  <2>2. d \in Nat
    BY Constants
  <2> QED
    BY <2>1, <2>2, AddsSoundly
<1>2. CASE Activate
  <2>1. AddEvent(IrqCheck, 0, IrqDelay) /\ passes' = passes
    BY <1>2 DEF Activate
  <2>2. IrqDelay \in Nat
    BY Constants
  <2>3. Added(IrqCheck, IrqDelay)
    BY <2>1, <2>2, AddsSoundly
  <2> QED
    BY <1>2, <2>2, <2>3 DEF Activate
<1>3. ASSUME NEW victims, victims \subseteq Entries, Unlink(victims), UNCHANGED clock
      PROVE  /\ UNCHANGED <<entry, left, cyc, cmax>>
             /\ queue' \in Seq(Entries) /\ ToSet(queue') \subseteq ToSet(queue)
  BY <1>3, Unlinked DEF clock
<1>4. ASSUME NEW h \in Handlers, PIC_RemoveEvents(h)
      PROVE  /\ UNCHANGED <<entry, left, cyc, cmax>>
             /\ queue' \in Seq(Entries) /\ ToSet(queue') \subseteq ToSet(queue)
  <2> DEFINE victims == {e \in Entries : entry[e].handler = h}
  <2>1. Unlink(victims) /\ victims \subseteq Entries /\ UNCHANGED clock
    BY <1>4 DEF PIC_RemoveEvents
  <2> HIDE DEF victims
  <2> QED
    BY <1>3, <2>1
<1>5. ASSUME NEW h \in Handlers, NEW v \in Values, PIC_RemoveSpecificEvents(h, v)
      PROVE  /\ UNCHANGED <<entry, left, cyc, cmax>>
             /\ queue' \in Seq(Entries) /\ ToSet(queue') \subseteq ToSet(queue)
  <2> DEFINE victims == {e \in Entries : entry[e].handler = h /\ entry[e].value = v}
  <2>1. Unlink(victims) /\ victims \subseteq Entries /\ UNCHANGED clock
    BY <1>5 DEF PIC_RemoveSpecificEvents
  <2> HIDE DEF victims
  <2> QED
    BY <1>3, <2>1
<1>6. UNCHANGED <<passes, inService, srv_lag, oldCycles, mode>> /\ DeviceRuns
  BY DEF Device, PIC_AddEvent, Activate, PIC_RemoveEvents, PIC_RemoveSpecificEvents
<1> QED
  BY <1>1, <1>2, <1>4, <1>5, <1>6 DEF Device

LEMMA OnlyPass ==
  ASSUME Sound, Paced, mode = "serve"
  PROVE  /\ passes \in Seq(Pass) /\ passes # <<>> /\ Apart(passes) /\ Len(passes) = 1
         /\ Top \in Pass /\ Top.nd \in Int /\ Top = Last(passes)
<1>1. passes \in Seq(Pass) /\ passes # <<>> /\ Apart(passes) /\ Len(passes) = 1
  BY DEF Sound, Typed, Nested, Placed, Paced
<1>2. Top \in Pass /\ Top = Last(passes)
  BY <1>1, PassesAre DEF Top
<1> QED
  BY <1>1, <1>2 DEF Pass

LEMMA ServePass ==
  ASSUME Sound, Paced, Serve
  PROVE  /\ mode = "serve" /\ mode' = "serve" /\ UNCHANGED <<entry, inService, left, cyc, cmax>>
         /\ Top.entry = NoEntry /\ Top'.nd = Top.nd /\ Len(passes') = 1
         /\ Head(queue) \in ToSet(queue) /\ ToSet(queue') = ToSet(queue) \ {Head(queue)}
         /\ srv_lag' = entry[Head(queue)].index
         /\ entry[Head(queue)].index * cmax <= Top.nd * U
<1> DEFINE e == Head(queue)
<1>1. /\ mode = "serve" /\ Top.entry = NoEntry /\ queue # <<>>
      /\ entry[e].index * cmax <= Top.nd * U
      /\ passes' = [passes EXCEPT ![Len(passes)].entry = e]
      /\ srv_lag' = entry[e].index
      /\ queue' = Tail(queue)
      /\ UNCHANGED <<entry, free, inService, clock, oldCycles, mode>>
  BY DEF Serve, Due
<1>2. /\ queue \in Seq(Entries) /\ Once(queue) /\ ToSet(queue) \subseteq Entries
      /\ passes \in Seq(Pass) /\ passes # <<>> /\ Apart(passes) /\ Len(passes) = 1
      /\ NoEntry \notin Entries
  BY <1>1, Constants, ElementsAre, OnlyPass DEF Sound, Typed, Placed
<1>3. ToSet(queue') = ToSet(queue) \ {e} /\ e \in ToSet(queue)
  BY <1>1, <1>2, HeadTailOnce
<1> HIDE DEF e
<1>4. e \in Entries \cup {NoEntry} /\ e \notin Held(passes)
  BY <1>2, <1>3 DEF Sound, Placed
<1>5. Last(passes').nd = Last(passes).nd /\ Len(passes') = Len(passes)
  BY <1>1, <1>2, <1>4, SetTop, Zenon
<1> QED
  BY <1>1, <1>2, <1>3, <1>5 DEF e, Top, clock

LEMMA PacedStep ==
  ASSUME Idlers = {}, Sound, Paced, [Next]_vars
  PROVE  Paced'
<1>1. /\ left \in Int /\ cyc \in Int /\ cmax \in Int /\ passes \in Seq(Pass)
  BY Constants DEF Sound, Typed
<1>2. CASE Device
  <2>1. UNCHANGED <<passes, inService, mode>> /\ cmax' = cmax
    BY <1>2, DeviceAdds DEF Added
  <2>2. cyc = 0 => cyc' = 0 /\ left' = left
    BY <1>2, DeviceAdds, AddsNoTime
  <2> QED
    BY <2>1, <2>2 DEF Paced, Top
<1>3. CASE BeginPass
  <2>1. /\ mode = "loop" /\ left' = left + cyc /\ cyc' = 0 /\ cmax' = cmax /\ passes = <<>>
    BY <1>3 DEF BeginPass, Paced
  <2>2. CASE left' > 0
    <3> DEFINE nd == cmax - left'
    <3>1. /\ mode' = "serve" /\ inService' = TRUE
          /\ passes' = Append(passes, [nd |-> nd, entry |-> NoEntry])
      BY <1>3, <2>2 DEF BeginPass
    <3>2. nd \in Int
      BY <1>1, <2>1
    <3> HIDE DEF nd
    <3>3. Apart(passes)
      BY <2>1 DEF Apart
    <3>4. Len(passes') = Len(passes) + 1 /\ Last(passes').nd = nd /\ Len(passes) = 0
      BY <1>1, <2>1, <3>1, <3>2, <3>3, PushPass
    <3>5. Len(passes') = 1
      BY <3>4
    <3> QED
      BY <2>1, <2>2, <3>1, <3>4, <3>5 DEF Paced, Top, nd
  <2>3. CASE ~(left' > 0)
    <3>1. mode' = "idle" /\ passes' = <<>> /\ inService' = inService /\ left' <= 0
      BY <1>1, <1>3, <2>1, <2>3 DEF BeginPass
    <3> QED
      BY <2>1, <3>1 DEF Paced
  <2> QED
    BY <2>2, <2>3
<1>4. CASE Serve
  <2>1. /\ mode = "serve" /\ mode' = "serve" /\ UNCHANGED <<inService, left, cyc, cmax>>
        /\ Top'.nd = Top.nd /\ Len(passes') = 1
    BY <1>4, ServePass
  <2> QED
    BY <2>1 DEF Paced
<1>5. CASE HandlerReturns
  <2>1. /\ mode = "serve" /\ Top.entry # NoEntry
        /\ passes' = [passes EXCEPT ![Len(passes)].entry = NoEntry]
        /\ UNCHANGED <<inService, left, cyc, cmax, mode>>
    BY <1>5 DEF HandlerReturns, clock
  <2>2. passes # <<>> /\ Apart(passes) /\ Len(passes) = 1 /\ NoEntry \notin Entries
    BY <2>1, OnlyPass, Constants
  <2>3. NoEntry \in Entries \cup {NoEntry} /\ NoEntry \notin Held(passes)
    BY DEF Held
  <2>4. Last(passes').nd = Last(passes).nd /\ Len(passes') = Len(passes)
    BY <1>1, <2>1, <2>2, <2>3, SetTop, Zenon
  <2> QED
    BY <2>1, <2>2, <2>4 DEF Paced, Top
<1>6. CASE EndPass
  <2>1. /\ mode = "serve" /\ Top.entry = NoEntry /\ inService' = FALSE
        /\ passes' = Front(passes) /\ left > 0 /\ mode' = "cpu"
    BY <1>6 DEF EndPass, Paced
  <2>2. passes' \in Seq(Pass) /\ Len(passes') = 0
    BY <2>1, OnlyPass, PopPass
  <2>3. passes' = <<>>
    BY <2>2
  <2> QED
    BY <2>1, <2>3 DEF Paced
<1>7. CASE Cpu \/ Disturb
  <2>1. /\ mode # "serve" /\ mode' # "serve" /\ mode' # "idle" /\ UNCHANGED <<passes, inService>>
    BY <1>7 DEF Cpu, Disturb, Execute, CPU_HLT, CpuReturns, Change_Config, ForfeitTick,
                BeginTrap, EndTrap
  <2> QED
    BY <2>1 DEF Paced
<1>8. CASE Tick
  <2>1. /\ mode = "idle" /\ UNCHANGED <<passes, inService>>
        /\ mode' = "loop" \/ (mode' = "idle" /\ UNCHANGED <<left, cyc>>)
    BY <1>8 DEF Tick, TIMER_AddTick, AdjustCycles
  <2> QED
    BY <2>1 DEF Paced
<1>9. ~CALLBACK_Idle /\ ~IdleReturns
  BY DEF CALLBACK_Idle, IdleReturns, Paced
<1>10. CASE UNCHANGED vars
  BY <1>10 DEF vars, Paced, Top
<1> QED
  BY <1>2, <1>3, <1>4, <1>5, <1>6, <1>7, <1>8, <1>9, <1>10 DEF Next, RunQueue

LEMMA AlwaysPaced ==
  ASSUME Idlers = {}
  PROVE  Spec => []Paced
<1>1. Init => Paced
  BY DEF Init, Paced
<1>2. Sound /\ Paced /\ [Next]_vars => Paced'
  BY PacedStep
<1> QED
  BY <1>1, <1>2, AlwaysSound, PTL DEF Spec

(* Only the CPU moves time: neither devices that queue and remove events   *)
(* nor PIC_RunQueue gain or lose a cycle.                                  *)
THEOREM TimeConserved ==
  ASSUME Idlers = {}
  PROVE  Spec => ClockConserved
<1>1. Sound /\ Paced /\ [Next]_vars => [Device \/ RunQueue => TickIndexND' = TickIndexND]_vars
  <2> SUFFICES ASSUME Sound, Paced, Device \/ RunQueue
               PROVE  TickIndexND' = TickIndexND
    OBVIOUS
  <2>1. /\ left \in Int /\ cyc \in Int /\ cmax \in Int
    BY Constants DEF Sound, Typed
  <2>2. CASE Device
    BY <2>2, DeviceAdds, AddsNoTime DEF TickIndexND
  <2>3. CASE BeginPass
    BY <2>1, <2>3 DEF BeginPass, TickIndexND
  <2>4. CASE Serve \/ HandlerReturns
    BY <2>4 DEF Serve, HandlerReturns, clock, TickIndexND
  <2>5. CASE EndPass
    <3>1. cyc = 0 /\ left' = left - cyc' /\ cmax' = cmax /\ ~Due(Top.nd) /\ cyc' = Grant(Top.nd)
      BY <2>5 DEF EndPass, Paced
    <3>2. Top.nd \in Int
      BY <2>5, OnlyPass DEF EndPass
    <3>3. cyc' \in Int
      BY <3>1, <3>2, Granted
    <3> QED
      BY <2>1, <3>1, <3>3 DEF TickIndexND
  <2> QED
    BY <2>2, <2>3, <2>4, <2>5 DEF RunQueue
<1> QED
  BY <1>1, AlwaysSound, AlwaysPaced, PTL DEF Spec, ClockConserved

(***************************************************************************)
(* While the CPU runs the grant ends less than a cycle after every event;  *)
(* in a single step that holds of the cycles that are hidden.              *)
(***************************************************************************)
Granting ==
  /\ mode = "trap" => cyc = 0 /\ oldCycles > 0
  /\ (mode = "cpu" /\ cyc > 0) \/ mode = "trap" =>
       /\ left >= 0
       /\ \A e \in ToSet(queue) : entry[e].index * cmax > (cmax - left - 1) * U

LEMMA HeadFirst ==
  ASSUME NEW en \in [Entries -> Entry], NEW q \in Seq(Entries),
         \A i, j \in DOMAIN q : i < j => en[q[i]].index <= en[q[j]].index
  PROVE  /\ ToSet(q) \subseteq Entries
         /\ \A e \in Entries : en[e].index \in Int
         /\ q # <<>> =>
              /\ Head(q) \in ToSet(q)
              /\ \A e \in ToSet(q) : en[Head(q)].index <= en[e].index
<1>1. q \in Seq(Entries) /\ en \in [Entries -> Entry]
  OBVIOUS
<1>2. \A e \in Entries : en[e].index \in Int
  <2> TAKE e \in Entries
  <2>1. en[e] \in Entry
    BY <1>1
  <2> QED
    BY <2>1 DEF Entry
<1>3. /\ DOMAIN q = 1 .. Len(q) /\ Len(q) \in Nat /\ (q # <<>> <=> Len(q) > 0)
      /\ ToSet(q) \subseteq Entries
      /\ \A e \in ToSet(q) : \E i \in 1 .. Len(q) : q[i] = e
      /\ \A i \in 1 .. Len(q) : q[i] \in ToSet(q)
  BY <1>1, ElementsAre
<1>4. ASSUME q # <<>>
      PROVE  /\ Head(q) \in ToSet(q)
             /\ \A e \in ToSet(q) : en[Head(q)].index <= en[e].index
  <2>1. Head(q) = q[1] /\ 1 \in 1 .. Len(q)
    BY <1>1, <1>3, <1>4
  <2>2. \A e \in ToSet(q) : en[q[1]].index <= en[e].index
    <3> TAKE e \in ToSet(q)
    <3>1. PICK i \in 1 .. Len(q) : q[i] = e
      BY <1>3
    <3>2. CASE i = 1
      <4>1. en[e].index \in Int
        BY <1>2, <1>3
      <4> QED
        BY <3>1, <3>2, <4>1
    <3>3. CASE i # 1
      <4>1. 1 < i
        BY <1>3, <3>3
      <4> QED
        BY <1>3, <2>1, <3>1, <4>1
    <3> QED
      BY <3>2, <3>3
  <2> QED
    BY <1>3, <2>1, <2>2
<1> QED
  BY <1>2, <1>3, <1>4

LEMMA QueuedIndex ==
  ASSUME Sound
  PROVE  /\ ToSet(queue) \subseteq Entries
         /\ \A e \in Entries : entry[e].index \in Int
         /\ queue # <<>> =>
              /\ Head(queue) \in ToSet(queue)
              /\ \A e \in ToSet(queue) : entry[Head(queue)].index <= entry[e].index
<1>1. /\ queue \in Seq(Entries) /\ entry \in [Entries -> Entry]
      /\ \A i, j \in DOMAIN queue : i < j => entry[queue[i]].index <= entry[queue[j]].index
  BY DEF Sound, Typed, Sorted
<1> QED
  BY <1>1, HeadFirst

(* An event is not before the cycles MakeCycles finds up to it.            *)
LEMMA CyclesReach ==
  ASSUME NEW index \in Int, NEW n \in Int, NEW c \in Nat \ {0}, NEW u \in Nat \ {0}, c * u = U,
         NEW m \in Nat \ {0}, U \in Nat \ {0},
         LET amount == index - n * u
         IN  (IF amount >= 0 THEN (amount * c) \div U ELSE -((-amount * c) \div U)) >= m
  PROVE  index * c >= (n + m) * U
<1> DEFINE amount == index - n * u
<1>1. n * u \in Int
  OBVIOUS
<1>2. amount \in Int
  BY <1>1
<1>3. amount * c = index * c - n * U
  <2>1. amount * c = index * c - (n * u) * c
    BY <1>1
  <2>2. (n * u) * c = n * U
    OBVIOUS
  <2> QED
    BY <2>1, <2>2
<1>4. (IF amount >= 0 THEN (amount * c) \div U ELSE -((-amount * c) \div U)) >= m
  OBVIOUS
<1> HIDE DEF amount
<1>5. ~(amount >= 0) => -amount * c \in Nat
  BY <1>2
<1>6. amount >= 0
  <2> SUFFICES ASSUME ~(amount >= 0) PROVE FALSE
    OBVIOUS
  <2>1. -((-amount * c) \div U) >= m
    BY <1>4
  <2>2. (-amount * c) \div U \in Nat
    BY <1>5
  <2> QED
    BY <2>1, <2>2
<1>7. amount * c \in Int /\ (amount * c) \div U >= m
  BY <1>2, <1>4, <1>6
<1>8. amount * c >= m * U
  <2> DEFINE x == amount * c
  <2>1. x \in Int /\ x \div U >= m
    BY <1>7
  <2> HIDE DEF x
  <2>2. x >= (x \div U) * U /\ x \div U \in Int
    BY <2>1
  <2>3. (x \div U) * U >= m * U
    BY <2>1, <2>2
  <2>4. (x \div U) * U \in Int /\ m * U \in Int
    BY <2>2
  <2>5. x >= m * U
    BY <2>1, <2>2, <2>3, <2>4
  <2> QED
    BY <2>5 DEF x
<1>9. (n + m) * U = n * U + m * U
  OBVIOUS
<1>10. index * c \in Int /\ n * U \in Int /\ m * U \in Int
  OBVIOUS
<1> QED
  BY <1>3, <1>8, <1>9, <1>10

LEMMA TimesU ==
  ASSUME NEW c \in Nat \ {0}, NEW u \in Nat \ {0}, c * u = U, U \in Nat \ {0},
         NEW a \in Int, NEW b \in Int
  PROVE  /\ a * c > b * U <=> a > b * u
         /\ a * c <= b * U <=> a <= b * u
         /\ b * u \in Int
<1>1. b * U = (b * u) * c
  OBVIOUS
<1>2. b * u \in Int
  OBVIOUS
<1>3. \A x \in Int : (a * c > x * c <=> a > x) /\ (a * c <= x * c <=> a <= x)
  <2> TAKE x \in Int
  <2>1. a > x => a * c > x * c
    OBVIOUS
  <2>2. a <= x => a * c <= x * c
    OBVIOUS
  <2>3. a * c \in Int /\ x * c \in Int
    OBVIOUS
  <2> QED
    BY <2>1, <2>2, <2>3
<1> QED
  BY <1>1, <1>2, <1>3

LEMMA GrantingStep ==
  ASSUME Idlers = {}, Sound, Paced, Granting, [Next]_vars
  PROVE  Granting'
<1>1. /\ left \in Int /\ cyc \in Int /\ cmax \in Nat \ {0} /\ oldCycles \in Nat
      /\ U \div cmax \in Nat \ {0} /\ cmax * (U \div cmax) = U /\ U \in Nat \ {0}
      /\ Sound'
  BY Constants, SoundStep DEF Sound, Typed
<1>2. CASE Device
  <2>1. UNCHANGED <<oldCycles, mode>>
    BY <1>2, DeviceAdds
  <2>2. CASE /\ UNCHANGED <<entry, left, cyc, cmax>>
             /\ queue' \in Seq(Entries) /\ ToSet(queue') \subseteq ToSet(queue)
    BY <2>1, <2>2 DEF Granting
  <2>3. ASSUME NEW h, NEW delay \in Nat, Added(h, delay)
        PROVE  Granting'
    <3>1. /\ cyc = 0 => cyc' = 0 /\ left' = left
          /\ cyc' = 0 \/ (cyc' = cyc /\ left' = left)
      BY <2>3, AddsNoTime
    <3>2. cmax' = cmax
      BY <2>3 DEF Added
    <3>3. CASE free = <<>>
      <4>1. entry' = entry /\ queue' = queue /\ cyc' = cyc /\ left' = left
        BY <2>3, <3>3 DEF Added
      <4> QED
        BY <2>1, <3>2, <4>1 DEF Granting, ToSet
    <3>4. CASE free # <<>>
      <4> DEFINE e == Head(free)
      <4>1. /\ e \in Entries /\ e \notin ToSet(queue)
            /\ entry'[e].index = EventBase + delay
            /\ \A x \in Entries : x # e => entry'[x] = entry[x]
            /\ ToSet(queue') = ToSet(queue) \cup {e} /\ queue' # <<>>
            /\ CutGrant(entry'[Head(queue')].index)
        BY <2>3, <3>4 DEF Added
      <4> HIDE DEF e
      <4> SUFFICES ASSUME (mode = "cpu" /\ cyc' > 0) \/ mode = "trap"
                   PROVE  /\ left' >= 0
                          /\ \A x \in ToSet(queue') :
                               entry'[x].index * cmax > (cmax - left' - 1) * U
        BY <2>1, <3>1, <3>2 DEF Granting
      <4>2. /\ cyc' = cyc /\ left' = left /\ left >= 0
            /\ \A x \in ToSet(queue) : entry[x].index * cmax > (cmax - left - 1) * U
        BY <3>1 DEF Granting
      <4>3. entry'[e].index * cmax > (cmax - left - 1) * U
        <5>1. CASE mode = "trap"
          <6> DEFINE n == cmax - left
                     u == U \div cmax
          <6>1. cyc = 0 /\ ~inService
            BY <5>1 DEF Granting, Paced
          <6>2. TickIndexND = n
            BY <1>1, <6>1 DEF TickIndexND
          <6>3. entry'[e].index = n * u + delay
            BY <4>1, <6>1, <6>2 DEF EventBase, TickIndex
          <6>4. u \in Nat \ {0} /\ cmax * u = U /\ n \in Int
            BY <1>1
          <6>9. cmax - left - 1 = n - 1
            BY <1>1
          <6> HIDE DEF u, n
          <6>5. n * u \in Int /\ (n - 1) * u \in Int /\ (n - 1) * u = n * u - u
            BY <6>4
          <6>6. entry'[e].index > (n - 1) * u /\ entry'[e].index \in Int
            BY <6>3, <6>4, <6>5
          <6>7. n - 1 \in Int
            BY <6>4
          <6>8. entry'[e].index * cmax > (n - 1) * U
            BY <1>1, <6>4, <6>6, <6>7, TimesU
          <6> QED
            BY <6>8, <6>9
        <5>2. CASE mode = "cpu" /\ cyc' > 0
          <6> DEFINE first == entry'[Head(queue')].index
                     n == TickIndexND
                     u == U \div cmax
                     most == MakeCycles(first - TickIndex)
          <6>1. /\ e \in ToSet(queue') /\ first \in Int /\ entry'[e].index \in Int
                /\ first <= entry'[e].index
            <7>1. /\ ToSet(queue') \subseteq Entries
                  /\ \A x \in Entries : entry'[x].index \in Int
                  /\ queue' # <<>> =>
                       /\ Head(queue') \in ToSet(queue')
                       /\ \A x \in ToSet(queue') : entry'[Head(queue')].index <= entry'[x].index
              <8>1. /\ queue' \in Seq(Entries) /\ entry' \in [Entries -> Entry]
                    /\ \A i, j \in DOMAIN queue' :
                         i < j => entry'[queue'[i]].index <= entry'[queue'[j]].index
                BY <1>1 DEF Sound, Typed, Sorted
              <8> QED
                BY <8>1, HeadFirst
            <7> QED
              BY <4>1, <7>1
          <6>2. CutGrant(first) /\ cyc' = cyc /\ cyc > 0
            BY <4>1, <4>2, <5>2
          <6>3. ~(most < cyc)
            BY <1>1, <6>2 DEF CutGrant
          <6>4. most >= cyc
            <7>1. most \in Int
              <8>1. Typed
                BY DEF Sound
              <8>2. TickIndex \in Int
                BY <8>1, BaseIs
              <8> DEFINE amount == first - TickIndex
              <8>3. amount \in Int
                BY <6>1, <8>2
              <8> HIDE DEF amount
              <8>4. (amount * cmax) \div U \in Int /\ (-amount * cmax) \div U \in Int
                BY <1>1, <8>3
              <8> QED
                BY <8>4 DEF MakeCycles, amount
            <7> HIDE DEF most
            <7> QED
              BY <1>1, <6>3, <7>1
          <6>5. LET amount == first - n * u
                IN  (IF amount >= 0 THEN (amount * cmax) \div U ELSE -((-amount * cmax) \div U)) >= cyc
            BY <6>4, Zenon DEF MakeCycles, TickIndex
          <6>6. n \in Int /\ u \in Nat \ {0} /\ cmax * u = U /\ cyc \in Nat \ {0}
            BY <1>1, <6>2 DEF TickIndexND
          <6>7. n + cyc = cmax - left
            BY <1>1 DEF TickIndexND
          <6> HIDE DEF first, n, u, most
          <6>8. first * cmax >= (n + cyc) * U
            BY <1>1, <6>1, <6>5, <6>6, CyclesReach
          <6>9. entry'[e].index * cmax >= first * cmax
            BY <1>1, <6>1
          <6>10. (n + cyc) * U > (cmax - left - 1) * U
            <7> DEFINE a == n + cyc
            <7>1. a \in Int /\ cmax - left - 1 = a - 1
              BY <1>1, <6>6, <6>7
            <7> HIDE DEF a
            <7>2. (a - 1) * U = a * U - U /\ a * U \in Int
              BY <1>1, <7>1
            <7>3. a * U > (a - 1) * U
              BY <1>1, <7>2
            <7> QED
              BY <7>1, <7>3 DEF a
          <6>11. /\ first * cmax \in Int /\ entry'[e].index * cmax \in Int
                 /\ (n + cyc) * U \in Int /\ (cmax - left - 1) * U \in Int
            BY <1>1, <6>1, <6>6
          <6> QED
            BY <6>8, <6>9, <6>10, <6>11
        <5> QED
          BY <5>1, <5>2
      <4>4. \A x \in ToSet(queue) : entry'[x] = entry[x]
        BY <4>1, QueuedIndex
      <4> QED
        BY <4>1, <4>2, <4>3, <4>4
    <3> QED
      BY <3>3, <3>4
  <2> QED
    BY <1>2, <2>2, <2>3, DeviceAdds
<1>3. CASE BeginPass \/ Serve \/ HandlerReturns
  <2>1. mode' # "cpu" /\ mode' # "trap"
    BY <1>3 DEF BeginPass, Serve, HandlerReturns
  <2> QED
    BY <2>1 DEF Granting
<1>4. CASE EndPass
  <2> DEFINE nd == Top.nd
             g == Grant(nd)
  <2>1. /\ mode' \in {"cpu", "idle"} /\ ~Due(nd) /\ left' = left - cyc' /\ cyc' = g
        /\ nd = cmax - left
        /\ UNCHANGED <<lists, cmax>>
    BY <1>4 DEF EndPass, Paced
  <2>2. nd \in Int
    BY <1>1, <2>1
  <2> HIDE DEF nd
  <2>3. /\ g \in Int /\ g <= left
        /\ queue # <<>> => /\ Head(queue) \in Entries
                           /\ entry[Head(queue)].index * cmax > (nd + g - 1) * U
    BY <2>1, <2>2, Granted
  <2> HIDE DEF g
  <2>4. left' >= 0 /\ cmax - left' - 1 = nd + g - 1
    BY <1>1, <2>1, <2>2, <2>3
  <2>5. \A e \in ToSet(queue) : entry[e].index * cmax > (nd + g - 1) * U
    <3> TAKE e \in ToSet(queue)
    <3>1. queue # <<>>
      BY DEF ToSet
    <3> DEFINE x == entry[Head(queue)].index
               y == entry[e].index
    <3>2. x \in Int /\ y \in Int /\ x <= y
      BY <3>1, QueuedIndex
    <3>3. x * cmax > (nd + g - 1) * U
      BY <2>3, <3>1
    <3> HIDE DEF x, y
    <3>4. x * cmax <= y * cmax
      BY <1>1, <3>2
    <3>5. x * cmax \in Int /\ y * cmax \in Int /\ (nd + g - 1) * U \in Int
      BY <1>1, <2>2, <2>3, <3>2
    <3>6. y * cmax > (nd + g - 1) * U
      BY <3>3, <3>4, <3>5
    <3> QED
      BY <3>6 DEF y
  <2> QED
    BY <2>1, <2>4, <2>5 DEF Granting, lists, ToSet
<1>5. CASE Cpu
  <2>1. ASSUME NEW n \in 1 .. MaxInsn, Execute(n) PROVE Granting'
    BY <2>1 DEF Execute, Granting, lists, ToSet
  <2>2. CASE CPU_HLT \/ CpuReturns
    BY <2>2 DEF CPU_HLT, CpuReturns, Granting
  <2> QED
    BY <1>5, <2>1, <2>2 DEF Cpu
<1>6. CASE Disturb
  <2>1. ASSUME NEW c \in CycleMaxes, Change_Config(c) PROVE Granting'
    BY <2>1 DEF Change_Config, Granting
  <2>2. CASE ForfeitTick \/ EndTrap
    BY <2>2 DEF ForfeitTick, EndTrap, Granting
  <2>3. CASE BeginTrap
    BY <2>3 DEF BeginTrap, Granting, lists, ToSet
  <2> QED
    BY <1>6, <2>1, <2>2, <2>3 DEF Disturb
<1>7. CASE Tick
  BY <1>7 DEF Tick, TIMER_AddTick, AdjustCycles, Granting
<1>8. ~CALLBACK_Idle /\ ~IdleReturns
  BY DEF CALLBACK_Idle, IdleReturns, Paced
<1>9. CASE UNCHANGED vars
  BY <1>9 DEF vars, Granting, ToSet
<1> QED
  BY <1>2, <1>3, <1>4, <1>5, <1>6, <1>7, <1>8, <1>9 DEF Next, RunQueue

LEMMA AlwaysGranting ==
  ASSUME Idlers = {}
  PROVE  Spec => []Granting
<1>1. Init => Granting
  BY DEF Init, Granting
<1>2. Sound /\ Paced /\ Granting /\ [Next]_vars => Granting'
  BY GrantingStep
<1> QED
  BY <1>1, <1>2, AlwaysSound, AlwaysPaced, PTL DEF Spec

(* PIC_AddEvent and PIC_RunQueue cap CPU_Cycles "to make the event happen  *)
(* on time": whatever is queued, removed and single stepped, and whenever  *)
(* the speed changes, the CPU stops less than a cycle after the first one. *)
THEOREM GrantEnds ==
  ASSUME Idlers = {}
  PROVE  Spec => []GrantEndsAtFirstEvent
<1>1. Sound /\ Granting => GrantEndsAtFirstEvent
  <2> SUFFICES ASSUME Sound, Granting, mode = "cpu", cyc > 0, queue # <<>>
               PROVE  entry[Head(queue)].index * cmax - TickIndexND * U > (cyc - 1) * U
    BY DEF GrantEndsAtFirstEvent
  <2> DEFINE x == entry[Head(queue)].index
             n == TickIndexND
  <2>1. /\ left \in Int /\ cyc \in Int /\ cmax \in Int /\ U \in Int /\ x \in Int
    BY Constants, QueuedIndex DEF Sound, Typed
  <2>2. x * cmax > (cmax - left - 1) * U
    BY QueuedIndex DEF Granting
  <2>3. n \in Int /\ cmax - left - 1 = n + (cyc - 1)
    BY <2>1 DEF TickIndexND
  <2> HIDE DEF x, n
  <2>4. (n + (cyc - 1)) * U = n * U + (cyc - 1) * U
    BY <2>1, <2>3
  <2>5. n * U \in Int /\ (cyc - 1) * U \in Int /\ x * cmax \in Int
    BY <2>1, <2>3
  <2>6. x * cmax - n * U > (cyc - 1) * U
    BY <2>2, <2>3, <2>4, <2>5
  <2> QED
    BY <2>6 DEF x, n
<1> QED
  BY <1>1, AlwaysSound, AlwaysGranting, PTL

(***************************************************************************)
(* How late an event can be.  Over says how far the clock is past the end  *)
(* of the millisecond, and the last instruction alone takes it there; the  *)
(* bound of the indices is kept at the slowest speed, because the speed    *)
(* changes between two milliseconds.                                       *)
(***************************************************************************)
Slowest == U \div Min(CycleMaxes)

Over == -(left + cyc)

Bound(c, over) == U + (IF over >= 0 THEN Slowest ELSE U \div c) * over - Slowest * MaxInsn

Timely ==
  /\ Over < MaxInsn
  /\ \A e \in ToSet(queue) : entry[e].index > Bound(cmax, Over)
  /\ mode = "serve" /\ Top.entry # NoEntry =>
       srv_lag > Bound(cmax, Over) /\ srv_lag * cmax <= Top.nd * U

LEMMA SpeedsAre ==
  ASSUME NEW c \in CycleMaxes
  PROVE  /\ c \in Nat \ {0} /\ U \div c \in Nat \ {0} /\ c * (U \div c) = U
         /\ Slowest \in Nat \ {0} /\ U \div c <= Slowest
         /\ U \in Nat \ {0} /\ MaxInsn \in Nat \ {0}
<1> DEFINE m == Min(CycleMaxes)
<1>1. m \in CycleMaxes /\ \A d \in CycleMaxes : m <= d
  <2>1. CycleMaxes \subseteq Nat /\ CycleMaxes # {}
    BY Constants
  <2>2. \E d \in CycleMaxes : \A b \in CycleMaxes : d <= b
    BY <2>1, LeastNat
  <2>3. m = CHOOSE d \in CycleMaxes : \A b \in CycleMaxes : d <= b
    BY DEF Min
  <2> QED
    BY <2>2, <2>3
<1>2. /\ c \in Nat \ {0} /\ U \div c \in Nat \ {0} /\ c * (U \div c) = U
      /\ m \in Nat \ {0} /\ Slowest \in Nat \ {0} /\ m * Slowest = U /\ m <= c
      /\ U \in Nat \ {0} /\ MaxInsn \in Nat \ {0}
  BY <1>1, Constants DEF Slowest
<1> DEFINE u == U \div c
<1> HIDE DEF m, u
<1>3. u \in Nat \ {0} /\ c * u = U
  BY <1>2 DEF u
<1>4. u <= Slowest
  <2> SUFFICES ASSUME u > Slowest PROVE FALSE
    BY <1>2, <1>3
  <2>1. m * Slowest <= c * Slowest
    BY <1>2
  <2>2. c * Slowest < c * u
    BY <1>2, <1>3
  <2>3. c * Slowest \in Int /\ c * u \in Int
    BY <1>2, <1>3
  <2> QED
    BY <1>2, <1>3, <2>1, <2>2, <2>3
<1> QED
  BY <1>2, <1>4 DEF u

LEMMA BoundIs ==
  ASSUME NEW c \in CycleMaxes, NEW o \in Int
  PROVE  /\ Bound(c, o) \in Int
         /\ o >= 0 => Bound(c, o) = U + Slowest * o - Slowest * MaxInsn
         /\ o < 0 => Bound(c, o) = U + (U \div c) * o - Slowest * MaxInsn
         /\ Slowest * o \in Int /\ (U \div c) * o \in Int /\ Slowest * MaxInsn \in Int
<1> DEFINE u == U \div c
<1>1. u \in Int /\ Slowest \in Int /\ U \in Int /\ MaxInsn \in Int
  BY SpeedsAre
<1> HIDE DEF u
<1>2. Slowest * o \in Int /\ u * o \in Int /\ Slowest * MaxInsn \in Int
  BY <1>1
<1>3. /\ o >= 0 => Bound(c, o) = U + Slowest * o - Slowest * MaxInsn
      /\ o < 0 => Bound(c, o) = U + u * o - Slowest * MaxInsn
      /\ o >= 0 \/ o < 0
  BY DEF Bound, u
<1>4. Bound(c, o) \in Int
  BY <1>1, <1>2, <1>3
<1> QED
  BY <1>2, <1>3, <1>4 DEF u

(* An event queued from now on is late enough ...                          *)
LEMMA NowIsTimely ==
  ASSUME NEW c \in CycleMaxes, NEW o \in Int, o < MaxInsn
  PROVE  (c + o) * (U \div c) > Bound(c, o)
<1> DEFINE u == U \div c
           s == Slowest
           M == MaxInsn
<1> SUFFICES (c + o) * u > Bound(c, o)
  OBVIOUS
<1>1. /\ c \in Nat \ {0} /\ u \in Nat \ {0} /\ c * u = U
      /\ s \in Nat \ {0} /\ u <= s /\ U \in Nat \ {0} /\ M \in Nat \ {0}
  BY SpeedsAre
<1>2. /\ Bound(c, o) \in Int
      /\ o >= 0 => Bound(c, o) = U + s * o - s * M
      /\ o < 0 => Bound(c, o) = U + u * o - s * M
  BY BoundIs
<1> HIDE DEF u, s, M
<1>3. (c + o) * u = U + u * o
  BY <1>1
<1>4. u * o \in Int /\ s * o \in Int /\ s * M \in Int /\ s * M > 0
  BY <1>1
<1>5. CASE o < 0
  BY <1>1, <1>2, <1>3, <1>4, <1>5
<1>6. CASE o >= 0
  <2>1. o <= M - 1 /\ u * o >= 0
    BY <1>1, <1>6 DEF M
  <2>2. s * o <= s * (M - 1)
    BY <1>1, <2>1
  <2>3. s * (M - 1) = s * M - s
    BY <1>1
  <2> QED
    BY <1>1, <1>2, <1>3, <1>4, <1>6, <2>1, <2>2, <2>3
<1> QED
  BY <1>5, <1>6

(* ... an event the grant ends at stays so while the CPU runs ...          *)
LEMMA RunsTimely ==
  ASSUME NEW c \in CycleMaxes, NEW l \in Nat, NEW o \in Int, o < MaxInsn - l,
         NEW index \in Int, index * c > (c - l - 1) * U
  PROVE  index > Bound(c, o)
<1> DEFINE u == U \div c
           s == Slowest
           M == MaxInsn
<1>1. /\ c \in Nat \ {0} /\ u \in Nat \ {0} /\ c * u = U
      /\ s \in Nat \ {0} /\ u <= s /\ U \in Nat \ {0} /\ M \in Nat \ {0}
      /\ o < M - l
  BY SpeedsAre
<1>2. /\ Bound(c, o) \in Int
      /\ o >= 0 => Bound(c, o) = U + s * o - s * M
      /\ o < 0 => Bound(c, o) = U + u * o - s * M
  BY BoundIs
<1> HIDE DEF u, s, M
<1>3. index > (c - l - 1) * u
  <2>1. c - l - 1 \in Int
    BY <1>1
  <2> QED
    BY <1>1, <2>1, TimesU
<1>4. (c - l - 1) * u >= (c + (o - M)) * u
  <2>1. c - l - 1 \in Int /\ c + (o - M) \in Int /\ c + (o - M) <= c - l - 1
    BY <1>1
  <2> QED
    BY <1>1, <2>1
<1>5. (c + (o - M)) * u = U + (o - M) * u
  BY <1>1
<1>6. (o - M) * u >= (o - M) * s
  BY <1>1
<1>7. /\ (o - M) * s = s * o - s * M /\ (o - M) * u = u * o - u * M /\ u * M <= s * M
      /\ s * o \in Int /\ s * M \in Int /\ u * o \in Int /\ u * M \in Int
      /\ (c - l - 1) * u \in Int
  BY <1>1
<1>8. index > U + (o - M) * u
  BY <1>1, <1>3, <1>4, <1>5, <1>7
<1>9. CASE o >= 0
  BY <1>1, <1>2, <1>6, <1>7, <1>8, <1>9
<1>10. CASE o < 0
  BY <1>1, <1>2, <1>7, <1>8, <1>10
<1> QED
  BY <1>9, <1>10

(* ... and a tick moves the events with the clock.                         *)
LEMMA TicksTimely ==
  ASSUME NEW c \in CycleMaxes, NEW o \in Nat, NEW index \in Int, index > Bound(c, o)
  PROVE  index - U > Bound(c, o - c)
<1> DEFINE u == U \div c
           s == Slowest
           M == MaxInsn
           p == o - c
<1> SUFFICES index - U > Bound(c, p)
  OBVIOUS
<1>1. /\ c \in Nat \ {0} /\ u \in Nat \ {0} /\ c * u = U
      /\ s \in Nat \ {0} /\ u <= s /\ U \in Nat \ {0} /\ M \in Nat \ {0} /\ p \in Int
  BY SpeedsAre
<1>2. Bound(c, o) = U + s * o - s * M
  BY BoundIs
<1>3. /\ Bound(c, p) \in Int
      /\ p >= 0 => Bound(c, p) = U + s * p - s * M
      /\ p < 0 => Bound(c, p) = U + u * p - s * M
  BY <1>1, BoundIs
<1>4. /\ s * p = s * o - s * c /\ u * p = u * o - u * c
      /\ s * o \in Int /\ s * c \in Int /\ u * o \in Int /\ u * c \in Int /\ s * M \in Int
  BY <1>1
<1>5. s * c >= U /\ u * c = U /\ s * o >= u * o
  BY <1>1
<1> HIDE DEF u, s, M, p
<1>6. index > U + s * o - s * M
  BY <1>2
<1>7. CASE p >= 0
  BY <1>1, <1>3, <1>4, <1>5, <1>6, <1>7
<1>8. CASE p < 0
  BY <1>1, <1>3, <1>4, <1>5, <1>6, <1>8
<1> QED
  BY <1>1, <1>7, <1>8

LEMMA BoundFalls ==
  ASSUME NEW c \in CycleMaxes, NEW o \in Int, NEW p \in Int, p <= o, o <= 0
  PROVE  Bound(c, p) <= Bound(c, o)
<1> DEFINE u == U \div c
           s == Slowest
<1>1. u \in Nat \ {0} /\ s \in Nat \ {0} /\ U \in Nat \ {0}
  BY SpeedsAre
<1>2. ASSUME NEW x \in Int, x <= 0
      PROVE  Bound(c, x) = U + u * x - s * MaxInsn
  <2>1. CASE x < 0
    BY <2>1, BoundIs
  <2>2. CASE x = 0
    <3>1. Bound(c, x) = U + s * x - s * MaxInsn /\ s * x = 0 /\ u * x = 0
      BY <1>1, <2>2, BoundIs
    <3> QED
      BY <3>1
  <2> QED
    BY <1>2, <2>1, <2>2
<1>3. Bound(c, p) = U + u * p - s * MaxInsn /\ Bound(c, o) = U + u * o - s * MaxInsn
  BY <1>2
<1>4. s * MaxInsn \in Int
  BY BoundIs
<1> HIDE DEF u, s
<1>5. u * p <= u * o /\ u * p \in Int /\ u * o \in Int
  BY <1>1
<1> QED
  BY <1>1, <1>3, <1>4, <1>5

LEMMA TimelyStep ==
  ASSUME Idlers = {}, Disturbances \subseteq {"trap"},
         Sound, Paced, Granting, Timely, [Next]_vars
  PROVE  Timely'
<1>1. /\ left \in Int /\ cyc \in Int /\ cmax \in CycleMaxes /\ oldCycles \in Nat
      /\ cmax \in Nat \ {0} /\ MaxInsn \in Nat \ {0}
      /\ Over \in Int /\ Over < MaxInsn
      /\ ToSet(queue) \subseteq Entries /\ \A e \in Entries : entry[e].index \in Int
      /\ \A e \in ToSet(queue) : entry[e].index > Bound(cmax, Over)
      /\ Bound(cmax, Over) \in Int
  <2>1. /\ left \in Int /\ cyc \in Int /\ cmax \in CycleMaxes /\ oldCycles \in Nat
        /\ cmax \in Nat \ {0} /\ MaxInsn \in Nat \ {0}
    BY Constants DEF Sound, Typed
  <2>2. Over \in Int
    BY <2>1 DEF Over
  <2>3. Bound(cmax, Over) \in Int
    BY <2>1, <2>2, BoundIs
  <2> QED
    BY <2>1, <2>2, <2>3, QueuedIndex DEF Timely
<1>2. CASE Device
  <2>1. UNCHANGED <<passes, inService, srv_lag, mode>> /\ DeviceRuns
    BY <1>2, DeviceAdds
  <2>2. CASE /\ UNCHANGED <<entry, left, cyc, cmax>>
             /\ queue' \in Seq(Entries) /\ ToSet(queue') \subseteq ToSet(queue)
    BY <2>1, <2>2 DEF Timely, Over, Bound, Top
  <2>3. ASSUME NEW h, NEW delay \in Nat, Added(h, delay)
        PROVE  Timely'
    <3>1. cmax' = cmax /\ Over' = Over
      <4>1. left' \in Int /\ cyc' \in Int /\ cmax' = cmax /\ left' + cyc' = left + cyc
        BY <2>3 DEF Added
      <4> QED
        BY <4>1 DEF Over
    <3>2. mode = "serve" /\ Top'.entry # NoEntry =>
            srv_lag' > Bound(cmax, Over) /\ srv_lag' * cmax <= Top'.nd * U
      BY <2>1 DEF Timely, Top
    <3>3. \A e \in ToSet(queue') : entry'[e].index > Bound(cmax, Over)
      <4>1. CASE free = <<>>
        <5>1. entry' = entry /\ queue' = queue
          BY <2>3, <4>1 DEF Added
        <5> QED
          BY <1>1, <5>1
      <4>2. CASE free # <<>>
        <5> DEFINE e == Head(free)
        <5>1. /\ e \in Entries /\ e \notin ToSet(queue)
              /\ entry'[e].index = EventBase + delay
              /\ \A x \in Entries : x # e => entry'[x] = entry[x]
              /\ ToSet(queue') = ToSet(queue) \cup {e}
          BY <2>3, <4>2 DEF Added
        <5> HIDE DEF e
        <5>2. EventBase \in Int /\ EventBase > Bound(cmax, Over)
          <6>1. EventBase \in Int
            BY BaseIs DEF Sound
          <6>2. CASE mode = "serve"
            <7>1. inService /\ Top.entry # NoEntry
              BY <2>1, <6>2 DEF DeviceRuns, Paced
            <7> QED
              BY <6>1, <6>2, <7>1 DEF EventBase, Timely
          <6>3. CASE mode # "serve"
            <7>1. EventBase = TickIndexND * (U \div cmax)
              BY <6>3 DEF EventBase, Paced, TickIndex
            <7>2. TickIndexND = cmax + Over
              BY <1>1 DEF TickIndexND, Over
            <7>3. (cmax + Over) * (U \div cmax) > Bound(cmax, Over)
              BY <1>1, NowIsTimely
            <7> QED
              BY <6>1, <7>1, <7>2, <7>3
          <6> QED
            BY <6>2, <6>3
        <5>3. entry'[e].index > Bound(cmax, Over)
          BY <1>1, <5>1, <5>2
        <5> QED
          BY <1>1, <5>1, <5>3
      <4> QED
        BY <4>1, <4>2
    <3>4. Bound(cmax', Over') = Bound(cmax, Over)
      BY <3>1
    <3> QED
      BY <1>1, <2>1, <3>1, <3>2, <3>3, <3>4 DEF Timely
  <2> QED
    BY <1>2, <2>2, <2>3, DeviceAdds
<1>3. CASE BeginPass
  <2>1. Over' = Over /\ cmax' = cmax /\ UNCHANGED <<entry, queue>> /\ mode = "loop"
    BY <1>1, <1>3 DEF BeginPass, Over, lists
  <2>2. mode' = "serve" => Top'.entry = NoEntry
    <3> SUFFICES ASSUME mode' = "serve" PROVE Top'.entry = NoEntry
      OBVIOUS
    <3> DEFINE nd == cmax - left'
    <3>1. passes' = Append(passes, [nd |-> nd, entry |-> NoEntry]) /\ left' = left + cyc
      BY <1>3 DEF BeginPass
    <3>2. nd \in Int
      BY <1>1, <3>1
    <3> HIDE DEF nd
    <3>3. passes \in Seq(Pass) /\ Apart(passes)
      BY DEF Sound, Typed, Placed
    <3> QED
      BY <3>1, <3>2, <3>3, PushPass DEF Top
  <2> QED
    BY <1>1, <2>1, <2>2 DEF Timely, ToSet
<1>4. CASE Serve
  <2> DEFINE e == Head(queue)
  <2>1. /\ mode = "serve" /\ UNCHANGED <<entry, left, cyc, cmax>> /\ Top'.nd = Top.nd
        /\ e \in ToSet(queue) /\ ToSet(queue') = ToSet(queue) \ {e}
        /\ srv_lag' = entry[e].index /\ entry[e].index * cmax <= Top.nd * U
    BY <1>4, ServePass
  <2> HIDE DEF e
  <2>2. Over' = Over
    BY <2>1 DEF Over
  <2> QED
    BY <1>1, <2>1, <2>2 DEF Timely
<1>5. CASE HandlerReturns
  <2>1. /\ mode = "serve" /\ Top.entry # NoEntry
        /\ passes' = [passes EXCEPT ![Len(passes)].entry = NoEntry]
        /\ UNCHANGED <<entry, queue, left, cyc, cmax>>
    BY <1>5 DEF HandlerReturns, clock
  <2>2. passes \in Seq(Pass) /\ passes # <<>> /\ Apart(passes) /\ NoEntry \notin Entries
    BY <2>1, OnlyPass, Constants
  <2>3. NoEntry \in Entries \cup {NoEntry} /\ NoEntry \notin Held(passes)
    BY DEF Held
  <2>4. Last(passes').entry = NoEntry
    BY <2>1, <2>2, <2>3, SetTop, Zenon
  <2>5. Over' = Over
    BY <2>1 DEF Over
  <2> QED
    BY <1>1, <2>1, <2>4, <2>5 DEF Timely, Top, ToSet
<1>6. CASE EndPass
  <2>1. /\ cyc = 0 /\ left' = left - cyc' /\ cmax' = cmax /\ ~Due(Top.nd) /\ cyc' = Grant(Top.nd)
        /\ UNCHANGED <<entry, queue>> /\ mode' # "serve"
    BY <1>6 DEF EndPass, Paced, lists
  <2>2. Top.nd \in Int
    BY <1>6, OnlyPass DEF EndPass
  <2>3. cyc' \in Int
    BY <2>1, <2>2, Granted
  <2>4. Over' = Over
    BY <1>1, <2>1, <2>3 DEF Over
  <2> QED
    BY <1>1, <2>1, <2>4 DEF Timely, ToSet
(* the grant is used up, and perhaps an instruction more *)
<1>7. ASSUME mode = "cpu", cyc > 0, UNCHANGED <<entry, queue, cmax>>, mode' # "serve",
             Over' \in Int, Over' < MaxInsn - left
      PROVE  Timely'
  <2>1. /\ left \in Nat
        /\ \A e \in ToSet(queue) : entry[e].index * cmax > (cmax - left - 1) * U
    BY <1>1, <1>7 DEF Granting
  <2>2. \A e \in ToSet(queue) : entry[e].index > Bound(cmax, Over')
    <3> DEFINE o == Over'
    <3>1. o \in Int /\ o < MaxInsn - left
      BY <1>7
    <3> HIDE DEF o
    <3>2. \A e \in ToSet(queue) : entry[e].index > Bound(cmax, o)
      BY <1>1, <2>1, <3>1, RunsTimely
    <3> QED
      BY <3>2 DEF o
  <2>3. Over' < MaxInsn
    BY <1>1, <1>7, <2>1
  <2> QED
    BY <1>7, <2>2, <2>3 DEF Timely, ToSet
<1>8. CASE Cpu
  <2>1. ASSUME NEW n \in 1 .. MaxInsn, Execute(n) PROVE Timely'
    <3>1. /\ mode = "cpu" /\ mode' = "cpu" /\ cyc > 0 /\ cyc' = cyc - n
          /\ UNCHANGED <<entry, queue, cmax, left>>
      BY <2>1 DEF Execute, lists
    <3>2. Over' = -(left + (cyc - n))
      BY <3>1 DEF Over
    <3>3. Over' \in Int /\ Over' < MaxInsn - left
      BY <1>1, <3>1, <3>2
    <3> QED
      BY <1>7, <3>1, <3>3
  <2>2. CASE CPU_HLT
    <3>1. /\ mode = "cpu" /\ mode' = "cpu" /\ cyc > 0 /\ cyc' = 0
          /\ UNCHANGED <<entry, queue, cmax, left>>
      BY <2>2 DEF CPU_HLT, lists
    <3>2. Over' = -(left + 0)
      BY <3>1 DEF Over
    <3>3. Over' \in Int /\ Over' < MaxInsn - left
      BY <1>1, <3>2
    <3> QED
      BY <1>7, <3>1, <3>3
  <2>3. CASE CpuReturns
    <3>1. UNCHANGED <<entry, queue, cmax, left, cyc>> /\ mode' # "serve"
      BY <2>3 DEF CpuReturns, lists, clock
    <3> QED
      BY <1>1, <3>1 DEF Timely, Over, ToSet
  <2> QED
    BY <1>8, <2>1, <2>2, <2>3 DEF Cpu
<1>9. CASE Disturb
  <2>1. /\ \A c \in CycleMaxes : ~Change_Config(c)
        /\ ~ForfeitTick
    BY DEF Change_Config, ForfeitTick
  <2>2. CASE BeginTrap
    <3>1. /\ mode = "cpu" /\ mode' = "trap" /\ cyc > 0 /\ cyc' = 0
          /\ UNCHANGED <<entry, queue, cmax, left>>
      BY <2>2 DEF BeginTrap, lists
    <3>2. Over' = -(left + 0)
      BY <3>1 DEF Over
    <3>3. Over' \in Int /\ Over' < MaxInsn - left
      BY <1>1, <3>2
    <3> QED
      BY <1>7, <3>1, <3>3
  <2>3. CASE EndTrap
    <3>1. /\ mode = "trap" /\ mode' = "loop" /\ cyc' = oldCycles - 1
          /\ UNCHANGED <<entry, queue, cmax, left>>
      BY <2>3 DEF EndTrap, lists
    <3>2. cyc = 0 /\ oldCycles > 0 /\ left >= 0
      BY <3>1 DEF Granting
    <3>3. Over' = -(left + (oldCycles - 1))
      BY <3>1 DEF Over
    <3>4. Over' \in Int /\ Over' <= Over /\ Over <= 0
      BY <1>1, <3>2, <3>3 DEF Over
    <3>5. Bound(cmax, Over') <= Bound(cmax, Over) /\ Bound(cmax, Over') \in Int
      <4> DEFINE p == Over'
      <4>1. p \in Int /\ p <= Over
        BY <3>4
      <4> HIDE DEF p
      <4>2. Bound(cmax, p) <= Bound(cmax, Over) /\ Bound(cmax, p) \in Int
        BY <1>1, <3>4, <4>1, BoundFalls, BoundIs
      <4> QED
        BY <4>2 DEF p
    <3>6. Over' < MaxInsn
      BY <1>1, <3>4
    <3>7. \A e \in ToSet(queue) : entry[e].index > Bound(cmax, Over')
      BY <1>1, <3>5
    <3> QED
      BY <3>1, <3>6, <3>7 DEF Timely, ToSet
  <2> QED
    BY <1>9, <2>1, <2>2, <2>3 DEF Disturb
<1>10. CASE Tick
  <2>1. mode = "idle" /\ cyc = 0 /\ left <= 0
    BY <1>10 DEF Tick, TIMER_AddTick, AdjustCycles, Paced
  <2>2. Over \in Nat
    BY <1>1, <2>1 DEF Over
  <2>3. CASE TIMER_AddTick
    <3>1. /\ left' = left + cmax + cyc /\ cyc' = 0 /\ cmax' = cmax /\ queue' = queue /\ mode' = "loop"
          /\ \A e \in ToSet(queue) : entry'[e].index = entry[e].index - U
      BY <2>3, Ticked DEF TIMER_AddTick
    <3>2. Over' = -(left + cmax + cyc + 0)
      BY <3>1 DEF Over
    <3>3. Over' = Over - cmax
      BY <1>1, <3>2 DEF Over
    <3>4. \A e \in ToSet(queue) : entry'[e].index > Bound(cmax, Over - cmax)
      <4> TAKE e \in ToSet(queue)
      <4>1. entry[e].index \in Int /\ entry[e].index > Bound(cmax, Over)
        BY <1>1
      <4>2. entry[e].index - U > Bound(cmax, Over - cmax)
        BY <1>1, <2>2, <4>1, TicksTimely
      <4> QED
        BY <3>1, <4>2
    <3>5. Over' < MaxInsn
      BY <1>1, <3>3
    <3> QED
      BY <3>1, <3>3, <3>4, <3>5 DEF Timely, ToSet
  <2>4. ASSUME NEW c \in CycleMaxes, AdjustCycles(c) PROVE Timely'
    <3>1. cmax' = c /\ UNCHANGED <<entry, queue, left, cyc>> /\ mode' # "serve"
      BY <2>4 DEF AdjustCycles, lists
    <3>2. Over' = Over
      BY <3>1 DEF Over
    <3>3. Bound(c, Over) = Bound(cmax, Over)
      BY <1>1, <2>2, BoundIs
    <3>4. Bound(cmax', Over') = Bound(cmax, Over)
      BY <3>1, <3>2, <3>3
    <3> QED
      BY <1>1, <3>1, <3>2, <3>4 DEF Timely, ToSet
  <2> QED
    BY <1>10, <2>3, <2>4 DEF Tick
<1>11. ~CALLBACK_Idle /\ ~IdleReturns
  BY DEF CALLBACK_Idle, IdleReturns, Paced
<1>12. CASE UNCHANGED vars
  BY <1>12 DEF vars, Timely, Over, Bound, Top, ToSet
<1> QED
  BY <1>2, <1>3, <1>4, <1>5, <1>6, <1>8, <1>9, <1>10, <1>11, <1>12 DEF Next, RunQueue

(* PIC_RunQueue serves no event before its time, and none later than the   *)
(* longest instruction takes at the slowest speed: for any handlers that   *)
(* do not run the loop themselves, whatever the speed does at each tick,   *)
(* as long as no cycles are forfeited or set in the middle of one.         *)
THEOREM EventsOnTime ==
  ASSUME Idlers = {}, Disturbances \subseteq {"trap"}
  PROVE  Spec => []ServedOnTime
<1>1. Init => Timely
  <2> SUFFICES ASSUME Init PROVE Timely
    OBVIOUS
  <2>1. queue = <<>> /\ mode = "loop" /\ left = cmax /\ cyc = 0 /\ cmax \in CycleMaxes
    BY DEF Init
  <2>2. cmax \in Nat /\ MaxInsn \in Nat \ {0}
    BY <2>1, Constants
  <2>3. Over < MaxInsn
    BY <2>1, <2>2 DEF Over
  <2> QED
    BY <2>1, <2>3 DEF Timely, ToSet
<1>2. Sound /\ Paced /\ Granting /\ Timely /\ [Next]_vars => Timely'
  BY TimelyStep
<1>3. Sound /\ Paced /\ Timely => ServedOnTime
  <2> SUFFICES ASSUME Sound, Paced, Timely, mode = "serve", Top.entry # NoEntry
               PROVE  /\ srv_lag * cmax <= Top.nd * U
                      /\ Top.nd * (U \div cmax) - srv_lag < MaxInsn * Slowest
    BY DEF ServedOnTime, Slowest
  <2> DEFINE u == U \div cmax
             nd == Top.nd
  <2>1. /\ left \in Int /\ cmax \in CycleMaxes /\ srv_lag \in Int /\ cyc = 0 /\ left > 0
        /\ nd = cmax - left
        /\ srv_lag > Bound(cmax, Over) /\ srv_lag * cmax <= nd * U
    BY DEF Sound, Typed, Paced, Timely
  <2>2. /\ cmax \in Nat \ {0} /\ u \in Nat \ {0} /\ cmax * u = U /\ U \in Nat \ {0}
        /\ Slowest \in Nat \ {0} /\ MaxInsn \in Nat \ {0}
    BY <2>1, SpeedsAre
  <2>3. Over = -left
    BY <2>1 DEF Over
  <2> HIDE DEF u, nd
  <2>4. Bound(cmax, Over) = nd * u - Slowest * MaxInsn
    <3>1. Over \in Int /\ Over < 0
      BY <2>1, <2>3
    <3>2. Bound(cmax, Over) = U + u * Over - Slowest * MaxInsn
      BY <2>1, <3>1, BoundIs DEF u
    <3>3. nd * u = U + u * Over
      BY <2>1, <2>2, <2>3
    <3> DEFINE w == u * Over
               y == Slowest * MaxInsn
    <3>4. w \in Int /\ y \in Int /\ U \in Int
      BY <2>2, <3>1
    <3>5. Bound(cmax, Over) = U + w - y /\ nd * u = U + w
      BY <3>2, <3>3
    <3> HIDE DEF w, y
    <3>6. Bound(cmax, Over) = nd * u - y
      BY <3>4, <3>5
    <3> QED
      BY <3>6 DEF y
  <2>6. nd * u \in Int /\ Slowest * MaxInsn \in Int /\ Slowest * MaxInsn = MaxInsn * Slowest
    BY <2>1, <2>2
  <2>7. nd * u - srv_lag < MaxInsn * Slowest
    <3> DEFINE b == Bound(cmax, Over)
               x == nd * u
               y == Slowest * MaxInsn
    <3>1. b = x - y
      BY <2>4
    <3>2. srv_lag > b /\ srv_lag \in Int /\ x \in Int /\ y \in Int /\ y = MaxInsn * Slowest
      BY <2>1, <2>6
    <3> HIDE DEF b, x, y
    <3>3. x - srv_lag < y
      BY <3>1, <3>2
    <3> QED
      BY <3>2, <3>3 DEF x
  <2> QED
    BY <2>1, <2>7 DEF u, nd
<1> QED
  BY <1>1, <1>2, <1>3, AlwaysSound, AlwaysPaced, AlwaysGranting, PTL DEF Spec
-----------------------------------------------------------------------------
(***************************************************************************)
(* The order of two elements in lists without repetition.                  *)
(***************************************************************************)
Before(s, a, b) == \E k, l \in DOMAIN s : k < l /\ s[k] = a /\ s[l] = b

(* Taking elements out does not change the order of the rest.              *)
LEMMA ThinnedOrder ==
  ASSUME NEW T, NEW s \in Seq(T), NEW t \in Seq(T), Once(s), Thinned(t, s),
         NEW a \in ToSet(t), NEW b \in ToSet(t)
  PROVE  Before(t, a, b) <=> Before(s, a, b)
<1>1. PICK g \in [1 .. Len(t) -> 1 .. Len(s)] :
        /\ \A i \in 1 .. Len(t) : t[i] = s[g[i]]
        /\ \A i, j \in 1 .. Len(t) : i < j => g[i] < g[j]
  BY DEF Thinned
<1>2. DOMAIN s = 1 .. Len(s) /\ DOMAIN t = 1 .. Len(t) /\ Len(s) \in Nat /\ Len(t) \in Nat
  BY ElementsAre
<1>3. \A i \in 1 .. Len(t) : g[i] \in DOMAIN s /\ g[i] \in Int /\ i \in Int
  BY <1>1, <1>2
<1>4. ASSUME Before(t, a, b) PROVE Before(s, a, b)
  BY <1>1, <1>2, <1>3, <1>4 DEF Before
<1>5. ASSUME Before(s, a, b) PROVE Before(t, a, b)
  <2>1. PICK i \in 1 .. Len(t), j \in 1 .. Len(t) : t[i] = a /\ t[j] = b
    BY ElementsAre
  <2>2. PICK k \in DOMAIN s, l \in DOMAIN s : k < l /\ s[k] = a /\ s[l] = b
    BY <1>5 DEF Before
  <2>3. k = g[i] /\ l = g[j]
    BY <1>1, <1>3, <2>1, <2>2 DEF Once
  <2>4. ~(j < i) /\ i # j
    <3>1. g[i] < g[j] /\ g[i] \in Int /\ g[j] \in Int
      BY <1>3, <2>2, <2>3
    <3>2. j < i => g[j] < g[i]
      BY <1>1
    <3>3. i # j
      BY <3>1
    <3>4. ~(j < i)
      BY <3>1, <3>2
    <3> QED
      BY <3>3, <3>4
  <2>5. i < j
    BY <1>3, <2>4
  <2> QED
    BY <1>2, <2>1, <2>5 DEF Before
<1> QED
  BY <1>4, <1>5

(* Of two elements one comes first.                                        *)
LEMMA OneFirst ==
  ASSUME NEW T, NEW s \in Seq(T), NEW k \in DOMAIN s, NEW l \in DOMAIN s, Once(s)
  PROVE  Before(s, s[k], s[l]) <=> k < l
BY DEF Before, Once

(* An element at the end comes after all others, which keep their order.   *)
LEMMA AppendedLast ==
  ASSUME NEW T, NEW s \in Seq(T), NEW e \in T, e \notin ToSet(s),
         NEW a \in ToSet(s)
  PROVE  /\ Before(Append(s, e), a, e)
         /\ \A b \in ToSet(s) : Before(s, a, b) => Before(Append(s, e), a, b)
<1> DEFINE t == Append(s, e)
           n == Len(s)
<1>1. /\ n \in Nat /\ DOMAIN s = 1 .. n /\ DOMAIN t = 1 .. n + 1
      /\ t[n + 1] = e /\ \A i \in 1 .. n : t[i] = s[i]
  OBVIOUS
<1>2. PICK i \in 1 .. n : s[i] = a
  BY ElementsAre
<1> HIDE DEF t, n
<1>3. Before(t, a, e)
  <2>1. i \in 1 .. n + 1 /\ n + 1 \in 1 .. n + 1 /\ i < n + 1
    BY <1>1
  <2> QED
    BY <1>1, <1>2, <2>1 DEF Before
<1>4. ASSUME NEW b \in ToSet(s), Before(s, a, b) PROVE Before(t, a, b)
  <2>1. 1 .. n \subseteq 1 .. n + 1
    BY <1>1
  <2> QED
    BY <1>1, <1>4, <2>1 DEF Before
<1> QED
  BY <1>3, <1>4 DEF t

(***************************************************************************)
(* What Kept computes when it keeps all elements, all but one, or one.     *)
(***************************************************************************)
LEMMA KeptSteppedOf ==
  ASSUME NEW T, NEW s \in Seq(T), NEW keep
  PROVE  /\ Kept(s, keep) = Stepped(s, keep)[Len(s)]
         /\ \A n \in 0 .. Len(s) : Stepped(s, keep)[n] = Step(s, keep, n, Stepped(s, keep))
<1> DEFINE f == Stepped(s, keep)
<1>1. Kept(s, keep) = f[Len(s)] /\ f = [n \in 0 .. Len(s) |-> Step(s, keep, n, f)]
  BY KeptSteps
<1> HIDE DEF f
<1>2. \A n \in 0 .. Len(s) : f[n] = Step(s, keep, n, f)
  BY <1>1, Zenon
<1> QED
  BY <1>1, <1>2 DEF f

(* Facts that hold of the empty beginning of a list and are carried on by  *)
(* every element hold of the list.                                         *)
LEMMA UpToLength ==
  ASSUME NEW n \in Nat, NEW Good, 0 \in Good,
         \A m \in Nat : m \in Good /\ m + 1 <= n => m + 1 \in Good
  PROVE  n \in Good
<1> DEFINE Ms == {m \in Nat : m <= n => m \in Good}
<1>1. 0 \in Ms
  OBVIOUS
<1>2. \A m \in Nat : m \in Ms => m + 1 \in Ms
  OBVIOUS
<1> HIDE DEF Ms
<1>3. Nat \subseteq Ms
  BY <1>1, <1>2, NatSets
<1> QED
  BY <1>3 DEF Ms

LEMMA KeptButOne ==
  ASSUME NEW T, NEW s \in Seq(T), NEW keep, NEW i \in Nat \ {0},
         \A k \in 1 .. Len(s) : s[k] \in keep <=> k # i
  PROVE  LET t == Kept(s, keep)
             n == IF i <= Len(s) THEN Len(s) - 1 ELSE Len(s)
         IN  /\ t \in Seq(T) /\ Len(t) = n
             /\ \A k \in 1 .. n : t[k] = IF k < i THEN s[k] ELSE s[k + 1]
<1> DEFINE f == Stepped(s, keep)
           size(m) == IF i <= m THEN m - 1 ELSE m
           Is(m) == /\ f[m] \in Seq(T) /\ Len(f[m]) = size(m)
                    /\ \A k \in 1 .. size(m) : f[m][k] = IF k < i THEN s[k] ELSE s[k + 1]
           Good == {m \in Nat : m <= Len(s) => Is(m)}
<1>1. Len(s) \in Nat
  OBVIOUS
<1>2. Kept(s, keep) = f[Len(s)] /\ \A m \in 0 .. Len(s) : f[m] = Step(s, keep, m, f)
  BY KeptSteppedOf
<1> HIDE DEF f
<1>3. Is(0)
  <2>1. f[0] = <<>>
    BY <1>1, <1>2 DEF Step
  <2> QED
    BY <2>1
<1>4. ASSUME NEW m \in Nat, Is(m), m + 1 <= Len(s) PROVE Is(m + 1)
  <2> DEFINE e == s[m + 1]
  <2>1. m + 1 \in 0 .. Len(s) /\ m + 1 # 0 /\ m + 1 - 1 = m /\ e \in T
        /\ m + 1 \in 1 .. Len(s)
    BY <1>1, <1>4
  <2>2. f[m + 1] = IF e \in keep THEN Append(f[m], e) ELSE f[m]
    BY <1>2, <2>1 DEF Step
  <2>3. e \in keep <=> m + 1 # i
    BY <2>1
  <2> DEFINE t == f[m]
             c == size(m)
  <2>4. /\ t \in Seq(T) /\ Len(t) = c
        /\ \A k \in 1 .. c : t[k] = IF k < i THEN s[k] ELSE s[k + 1]
    BY <1>4
  <2> HIDE DEF t
  <2>5. CASE m + 1 = i
    <3>1. f[m + 1] = t /\ size(m + 1) = c
      BY <2>2, <2>3, <2>5 DEF t
    <3> QED
      BY <2>4, <3>1
  <2>6. CASE m + 1 # i
    <3>1. f[m + 1] = Append(t, e) /\ size(m + 1) = c + 1 /\ c \in Nat
      BY <2>2, <2>3, <2>6 DEF t
    <3>2. e = IF c + 1 < i THEN s[c + 1] ELSE s[c + 1 + 1]
      <4>1. CASE i <= m
        BY <4>1
      <4>2. CASE ~(i <= m)
        BY <2>6, <4>2
      <4> QED
        BY <4>1, <4>2
    <3> HIDE DEF c, e
    <3>3. /\ Append(t, e) \in Seq(T) /\ Len(Append(t, e)) = c + 1
          /\ Append(t, e)[c + 1] = e /\ \A k \in 1 .. c : Append(t, e)[k] = t[k]
      BY <2>1, <2>4
    <3>4. \A k \in 1 .. c + 1 : k \in 1 .. c \/ k = c + 1
      BY <3>1
    <3>5. \A k \in 1 .. c + 1 : Append(t, e)[k] = IF k < i THEN s[k] ELSE s[k + 1]
      BY <2>4, <3>2, <3>3, <3>4
    <3> HIDE DEF size
    <3> QED
      BY <3>1, <3>3, <3>5
  <2> QED
    BY <2>5, <2>6
<1>5. Len(s) \in Good
  <2>1. 0 \in Good
    BY <1>3
  <2>2. \A m \in Nat : m \in Good /\ m + 1 <= Len(s) => m + 1 \in Good
    <3> HIDE DEF Is
    <3> QED
      BY <1>1, <1>4
  <2> HIDE DEF Good
  <2> QED
    BY <1>1, <2>1, <2>2, UpToLength
<1> QED
  BY <1>1, <1>2, <1>5

LEMMA KeptAll ==
  ASSUME NEW T, NEW s \in Seq(T), NEW keep, ToSet(s) \subseteq keep
  PROVE  Kept(s, keep) = s
<1> DEFINE t == Kept(s, keep)
           i == Len(s) + 1
<1>1. Len(s) \in Nat /\ i \in Nat \ {0} /\ ~(i <= Len(s))
  OBVIOUS
<1>2. \A k \in 1 .. Len(s) : s[k] \in keep <=> k # i
  BY <1>1, ElementsAre
<1>3. /\ t \in Seq(T) /\ Len(t) = Len(s)
      /\ \A k \in 1 .. Len(s) : t[k] = IF k < i THEN s[k] ELSE s[k + 1]
  <2> HIDE DEF i
  <2> QED
    BY <1>1, <1>2, KeptButOne
<1>4. \A k \in 1 .. Len(s) : t[k] = s[k]
  BY <1>1, <1>3
<1> HIDE DEF t
<1>5. t = s
  BY <1>3, <1>4, SeqEqual
<1> QED
  BY <1>5 DEF t

LEMMA KeptNone ==
  ASSUME NEW T, NEW s \in Seq(T), NEW keep, Once(s), ToSet(s) \cap keep = {}
  PROVE  Kept(s, keep) = <<>>
<1>1. Kept(s, keep) \in Seq(T) /\ ToSet(Kept(s, keep)) = {}
  BY KeptOnce
<1> QED
  BY <1>1, ElementsAre

LEMMA KeptOne ==
  ASSUME NEW T, NEW s \in Seq(T), NEW keep, Once(s), NEW e, ToSet(s) \cap keep = {e}
  PROVE  Kept(s, keep) = <<e>>
<1> DEFINE t == Kept(s, keep)
<1>1. t \in Seq(T) /\ Once(t) /\ ToSet(t) = {e}
  BY KeptOnce
<1> HIDE DEF t
<1>2. Len(t) = 1
  BY <1>1, OnceCounts, FS_Singleton
<1>3. t[1] = e /\ e \in T
  <2>1. 1 \in 1 .. Len(t)
    BY <1>2
  <2>2. t[1] \in T /\ t[1] \in ToSet(t)
    BY <1>1, <2>1, ElementsAre
  <2> QED
    BY <1>1, <2>2
<1> QED
  BY <1>1, <1>2, <1>3 DEF t

(***************************************************************************)
(* The mapping: what entries show of themselves to EventSchedule.          *)
(***************************************************************************)
Occurs(en, e) == [at |-> en[e].index, task |-> <<en[e].handler, en[e].value>>]
Shown(en, s) == [i \in DOMAIN s |-> Occurs(en, s[i])]

Happening == [at : Int, task : (Handlers \cup {IrqCheck}) \X (Values \cup {0})]

LEMMA ShownIs ==
  ASSUME NEW en \in [Entries -> Entry], NEW s \in Seq(Entries)
  PROVE  /\ Shown(en, s) \in Seq(Happening) /\ Len(Shown(en, s)) = Len(s)
         /\ DOMAIN Shown(en, s) = 1 .. Len(s) /\ Len(s) \in Nat
         /\ \A i \in 1 .. Len(s) : /\ Shown(en, s)[i] = Occurs(en, s[i])
                                   /\ Shown(en, s)[i].at = en[s[i]].index
                                   /\ en[s[i]].index \in Int
<1>1. /\ DOMAIN s = 1 .. Len(s) /\ Len(s) \in Nat
      /\ \A i \in 1 .. Len(s) : s[i] \in Entries
  BY ElementsAre
<1>2. \A e \in Entries : /\ Occurs(en, e) \in Happening /\ Occurs(en, e).at = en[e].index
                         /\ en[e].index \in Int
  BY DEF Entry, Occurs, Happening
<1> DEFINE n == Len(s)
<1>3. Shown(en, s) = [i \in 1 .. n |-> Occurs(en, s[i])]
  BY <1>1 DEF Shown
<1> HIDE DEF n, Occurs, Happening
<1>4. /\ [i \in 1 .. n |-> Occurs(en, s[i])] \in Seq(Happening)
      /\ Len([i \in 1 .. n |-> Occurs(en, s[i])]) = n
  BY <1>1, <1>2 DEF n
<1> QED
  BY <1>1, <1>2, <1>3, <1>4 DEF n

LEMMA ShownAppend ==
  ASSUME NEW en \in [Entries -> Entry], NEW new \in [Entries -> Entry],
         NEW s \in Seq(Entries), NEW e \in Entries,
         \A x \in ToSet(s) : new[x] = en[x]
  PROVE  Shown(new, Append(s, e)) = Append(Shown(en, s), Occurs(new, e))
<1> DEFINE n == Len(s)
           a == Shown(new, Append(s, e))
           b == Append(Shown(en, s), Occurs(new, e))
<1>1. /\ n \in Nat /\ Append(s, e) \in Seq(Entries) /\ Len(Append(s, e)) = n + 1
      /\ Append(s, e)[n + 1] = e /\ \A i \in 1 .. n : Append(s, e)[i] = s[i]
  OBVIOUS
<1>2. /\ a \in Seq(Happening) /\ Len(a) = n + 1
      /\ \A i \in 1 .. n + 1 : a[i] = Occurs(new, Append(s, e)[i])
  BY <1>1, ShownIs
<1>3. /\ Shown(en, s) \in Seq(Happening) /\ Len(Shown(en, s)) = n
      /\ \A i \in 1 .. n : Shown(en, s)[i] = Occurs(en, s[i])
  BY ShownIs
<1>4. Occurs(new, e) \in Happening
  BY DEF Occurs, Happening, Entry
<1>5. \A i \in 1 .. n : Occurs(new, s[i]) = Occurs(en, s[i])
  <2>1. \A i \in 1 .. n : s[i] \in ToSet(s)
    BY ElementsAre
  <2> QED
    BY <2>1 DEF Occurs
<1> HIDE DEF Shown, Occurs, Happening
<1>6. /\ b \in Seq(Happening) /\ Len(b) = n + 1 /\ b[n + 1] = Occurs(new, e)
      /\ \A i \in 1 .. n : b[i] = Shown(en, s)[i]
  BY <1>3, <1>4
<1> HIDE DEF a, b, n
<1>7. \A i \in 1 .. n + 1 : i \in 1 .. n \/ i = n + 1
  BY <1>1 DEF n
<1>8. \A i \in 1 .. n + 1 : a[i] = b[i]
  BY <1>1, <1>2, <1>3, <1>5, <1>6, <1>7 DEF n
<1>9. a = b
  BY <1>2, <1>6, <1>8, SeqEqual
<1> QED
  BY <1>9 DEF a, b

LEMMA RemoveAtIs ==
  ASSUME NEW T, NEW s \in Seq(T), NEW i \in 1 .. Len(s)
  PROVE  /\ RemoveAt(s, i) \in Seq(T) /\ Len(RemoveAt(s, i)) = Len(s) - 1
         /\ \A k \in 1 .. Len(s) - 1 : RemoveAt(s, i)[k] = IF k < i THEN s[k] ELSE s[k + 1]
<1> DEFINE n == Len(s)
           a == SubSeq(s, 1, i - 1)
           b == SubSeq(s, i + 1, n)
<1>1. n \in Nat /\ i \in Nat \ {0} /\ i <= n /\ \A k \in 1 .. n : s[k] \in T
  OBVIOUS
<1>2. a \in Seq(T) /\ Len(a) = i - 1 /\ \A k \in 1 .. i - 1 : a[k] = s[k]
  <2>1. \A k \in 1 .. i - 1 : s[k] \in T
    BY <1>1
  <2> QED
    BY <1>1, <2>1
<1>3. b \in Seq(T) /\ Len(b) = n - i /\ \A k \in 1 .. n - i : b[k] = s[i + k]
  <2>1. \A k \in i + 1 .. n : s[k] \in T
    BY <1>1
  <2> QED
    BY <1>1, <2>1
<1>4. RemoveAt(s, i) = a \o b
  BY DEF RemoveAt
<1> HIDE DEF a, b, n
<1>5. /\ a \o b \in Seq(T) /\ Len(a \o b) = Len(a) + Len(b)
      /\ \A k \in 1 .. Len(a) + Len(b) :
           (a \o b)[k] = IF k <= Len(a) THEN a[k] ELSE b[k - Len(a)]
  BY <1>2, <1>3, ConcatProperties
<1>6. Len(a) + Len(b) = n - 1
  BY <1>1, <1>2, <1>3
<1>7. ASSUME NEW k \in 1 .. n - 1 PROVE (a \o b)[k] = IF k < i THEN s[k] ELSE s[k + 1]
  <2>1. CASE k < i
    <3>1. k <= Len(a) /\ k \in 1 .. i - 1
      BY <1>1, <1>2, <2>1
    <3> QED
      BY <1>2, <1>5, <1>6, <2>1, <3>1
  <2>2. CASE ~(k < i)
    <3>1. ~(k <= Len(a)) /\ k - Len(a) \in 1 .. n - i /\ i + (k - Len(a)) = k + 1
      BY <1>1, <1>2, <2>2
    <3> QED
      BY <1>3, <1>5, <1>6, <2>2, <3>1
  <2> QED
    BY <2>1, <2>2
<1> QED
  BY <1>4, <1>5, <1>6, <1>7 DEF n

(* The event that is taken out of the list is taken out of the schedule.   *)
LEMMA ShownRemove ==
  ASSUME NEW en \in [Entries -> Entry], NEW s \in Seq(Entries), NEW keep,
         NEW i \in 1 .. Len(s), \A k \in 1 .. Len(s) : s[k] \in keep <=> k # i
  PROVE  Shown(en, Kept(s, keep)) = RemoveAt(Shown(en, s), i)
<1> DEFINE t == Kept(s, keep)
           w == Shown(en, s)
           a == Shown(en, t)
           b == RemoveAt(w, i)
           n == Len(s) - 1
<1>1. /\ Len(s) \in Nat /\ i \in Nat \ {0} /\ i <= Len(s) /\ n \in Nat
      /\ \A k \in 1 .. n : k \in 1 .. Len(s) /\ k + 1 \in 1 .. Len(s)
  OBVIOUS
<1>2. /\ t \in Seq(Entries) /\ Len(t) = n
      /\ \A k \in 1 .. n : t[k] = IF k < i THEN s[k] ELSE s[k + 1]
  <2>1. LET m == IF i <= Len(s) THEN Len(s) - 1 ELSE Len(s)
        IN  /\ t \in Seq(Entries) /\ Len(t) = m
            /\ \A k \in 1 .. m : t[k] = IF k < i THEN s[k] ELSE s[k + 1]
    BY <1>1, KeptButOne
  <2> HIDE DEF t
  <2> QED
    BY <1>1, <2>1
<1> HIDE DEF t
<1>3. /\ w \in Seq(Happening) /\ Len(w) = Len(s)
      /\ \A k \in 1 .. Len(s) : w[k] = Occurs(en, s[k])
  BY ShownIs
<1>4. /\ a \in Seq(Happening) /\ Len(a) = n
      /\ \A k \in 1 .. n : a[k] = Occurs(en, t[k])
  BY <1>2, ShownIs
<1> HIDE DEF w
<1>5. /\ b \in Seq(Happening) /\ Len(b) = n
      /\ \A k \in 1 .. n : b[k] = IF k < i THEN w[k] ELSE w[k + 1]
  BY <1>3, RemoveAtIs
<1> HIDE DEF a, b, n, Occurs
<1>6. \A k \in 1 .. n : a[k] = b[k]
  BY <1>1, <1>2, <1>3, <1>4, <1>5
<1>7. a = b
  BY <1>4, <1>5, <1>6, SeqEqual
<1> QED
  BY <1>7 DEF a, b, w, t

(* Events that are cancelled leave the list and the schedule alike.        *)
LEMMA ShownKept ==
  ASSUME NEW en \in [Entries -> Entry], NEW s \in Seq(Entries), NEW keep, NEW some,
         \A k \in 1 .. Len(s) : s[k] \in keep <=> Occurs(en, s[k]) \in some
  PROVE  Shown(en, Kept(s, keep)) = Kept(Shown(en, s), some)
<1> DEFINE w == Shown(en, s)
           f == Stepped(s, keep)
           g == Stepped(w, some)
           n == Len(s)
           Is(m) == f[m] \in Seq(Entries) /\ g[m] = Shown(en, f[m])
           Good == {m \in Nat : m <= n => Is(m)}
<1>1. /\ w \in Seq(Happening) /\ Len(w) = n /\ n \in Nat
      /\ \A k \in 1 .. n : w[k] = Occurs(en, s[k]) /\ s[k] \in Entries
  BY ShownIs
<1>2. Kept(s, keep) = f[n] /\ \A m \in 0 .. n : f[m] = Step(s, keep, m, f)
  BY KeptSteppedOf
<1> HIDE DEF w
<1>3. Kept(w, some) = g[n] /\ \A m \in 0 .. n : g[m] = Step(w, some, m, g)
  BY <1>1, KeptSteppedOf
<1> HIDE DEF f, g, n
<1>4. Is(0)
  <2>1. f[0] = <<>> /\ g[0] = <<>>
    BY <1>1, <1>2, <1>3 DEF Step
  <2>2. Shown(en, <<>>) = <<>> /\ <<>> \in Seq(Entries)
    BY DEF Shown
  <2> QED
    BY <2>1, <2>2
<1>5. ASSUME NEW m \in Nat, Is(m), m + 1 <= n PROVE Is(m + 1)
  <2> DEFINE e == s[m + 1]
  <2>1. /\ m + 1 \in 0 .. n /\ m + 1 # 0 /\ m + 1 - 1 = m /\ m + 1 \in 1 .. n
        /\ e \in Entries /\ w[m + 1] = Occurs(en, e)
        /\ e \in keep <=> Occurs(en, e) \in some
    BY <1>1, <1>5 DEF n
  <2>2. f[m + 1] = IF e \in keep THEN Append(f[m], e) ELSE f[m]
    BY <1>2, <2>1 DEF Step
  <2>3. g[m + 1] = IF w[m + 1] \in some THEN Append(g[m], w[m + 1]) ELSE g[m]
    BY <1>3, <2>1 DEF Step
  <2>4. Shown(en, Append(f[m], e)) = Append(Shown(en, f[m]), Occurs(en, e))
    BY <1>5, <2>1, ShownAppend
  <2>5. Append(f[m], e) \in Seq(Entries)
    BY <1>5, <2>1
  <2> HIDE DEF e
  <2> QED
    BY <1>5, <2>1, <2>2, <2>3, <2>4, <2>5
<1>6. n \in Good
  <2>1. 0 \in Good
    BY <1>4
  <2>2. \A m \in Nat : m \in Good /\ m + 1 <= n => m + 1 \in Good
    <3> HIDE DEF Is
    <3> QED
      BY <1>1, <1>5
  <2> HIDE DEF Good
  <2> QED
    BY <1>1, <2>1, <2>2, UpToLength
<1> QED
  BY <1>1, <1>2, <1>3, <1>6 DEF w
-----------------------------------------------------------------------------
(***************************************************************************)
(* The history holds what the queue holds, and entries of the same time    *)
(* stand in the queue in the order they came in.                           *)
(***************************************************************************)
History ==
  arrivals' = Kept(arrivals, ToSet(queue')) \o Kept(queue', Entries \ ToSet(arrivals))

Aged ==
  /\ arrivals \in Seq(Entries) /\ Once(arrivals) /\ ToSet(arrivals) = ToSet(queue)
  /\ \A a, b \in ToSet(queue) :
       Before(queue, a, b) /\ entry[a].index = entry[b].index => Before(arrivals, a, b)

(* What leaves the queue leaves the history, and no order changes.         *)
LEMMA HistoryThins ==
  ASSUME Sound, Aged, History, queue' \in Seq(Entries), Once(queue'), Thinned(queue', queue),
         ToSet(queue') \subseteq ToSet(queue),
         \A a, b \in ToSet(queue') :
           entry'[a].index = entry'[b].index => entry[a].index = entry[b].index
  PROVE  Aged' /\ arrivals' = Kept(arrivals, ToSet(queue'))
<1> DEFINE q == queue'
           t == Kept(arrivals, ToSet(q))
<1>1. /\ arrivals \in Seq(Entries) /\ Once(arrivals) /\ ToSet(arrivals) = ToSet(queue)
      /\ queue \in Seq(Entries) /\ Once(queue)
      /\ q \in Seq(Entries) /\ Once(q) /\ ToSet(q) \subseteq ToSet(queue) /\ Thinned(q, queue)
  BY DEF Aged, Sound, Typed, Placed
<1>2. arrivals' = t \o Kept(q, Entries \ ToSet(arrivals))
  BY DEF History
<1> HIDE DEF q
<1>3. Kept(q, Entries \ ToSet(arrivals)) = <<>>
  <2>1. ToSet(q) \cap (Entries \ ToSet(arrivals)) = {}
    BY <1>1
  <2> QED
    BY <1>1, <2>1, KeptNone
<1>4. /\ t \in Seq(Entries) /\ Once(t) /\ ToSet(t) = ToSet(arrivals) \cap ToSet(q)
      /\ Thinned(t, arrivals)
  BY <1>1, KeptOnce
<1> HIDE DEF t
<1>5. arrivals' = t
  <2>1. arrivals' = t \o <<>>
    BY <1>2, <1>3
  <2> QED
    BY <1>4, <2>1, ConcatEmptySeq
<1>6. ToSet(t) = ToSet(q)
  BY <1>1, <1>4
<1>7. ASSUME NEW a \in ToSet(q), NEW b \in ToSet(q), Before(q, a, b),
             entry[a].index = entry[b].index
      PROVE  Before(t, a, b)
  <2>1. Before(queue, a, b)
    BY <1>1, <1>7, ThinnedOrder
  <2>2. a \in ToSet(queue) /\ b \in ToSet(queue)
    BY <1>1
  <2>3. Before(arrivals, a, b)
    BY <1>7, <2>1, <2>2 DEF Aged
  <2> QED
    BY <1>1, <1>4, <1>6, <2>3, ThinnedOrder
<1>8. \A a, b \in ToSet(q) : entry'[a].index = entry'[b].index => entry[a].index = entry[b].index
  BY DEF q
<1>9. \A a, b \in ToSet(q) :
        Before(q, a, b) /\ entry'[a].index = entry'[b].index => Before(t, a, b)
  BY <1>7, <1>8
<1>10. /\ arrivals' \in Seq(Entries) /\ Once(arrivals') /\ ToSet(arrivals') = ToSet(queue')
       /\ \A a, b \in ToSet(queue') :
            Before(queue', a, b) /\ entry'[a].index = entry'[b].index => Before(arrivals', a, b)
  BY <1>4, <1>5, <1>6, <1>9 DEF q
<1>11. Aged'
  BY <1>10 DEF Aged, Before, Once, ToSet
<1> QED
  BY <1>5, <1>11 DEF t, q

LEMMA ThinnedSelf ==
  ASSUME NEW T, NEW s \in Seq(T)
  PROVE  Thinned(s, s) /\ (s # <<>> => Thinned(Tail(s), s))
<1>1. Len(s) \in Nat
  OBVIOUS
<1>2. Thinned(s, s)
  <2> DEFINE g == [i \in 1 .. Len(s) |-> i]
  <2>1. g \in [1 .. Len(s) -> 1 .. Len(s)]
    OBVIOUS
  <2>2. /\ \A i \in 1 .. Len(s) : s[i] = s[g[i]]
        /\ \A i, j \in 1 .. Len(s) : i < j => g[i] < g[j]
    OBVIOUS
  <2> HIDE DEF g
  <2> QED
    BY <2>1, <2>2 DEF Thinned
<1>3. ASSUME s # <<>> PROVE Thinned(Tail(s), s)
  <2> DEFINE t == Tail(s)
             n == Len(s) - 1
             g == [i \in 1 .. n |-> i + 1]
  <2>1. /\ Len(t) = n /\ n \in Nat /\ \A i \in 1 .. n : t[i] = s[i + 1]
    BY <1>3
  <2>2. g \in [1 .. n -> 1 .. Len(s)]
    BY <1>1, <2>1
  <2>3. /\ \A i \in 1 .. n : t[i] = s[g[i]]
        /\ \A i, j \in 1 .. n : i < j => g[i] < g[j]
    BY <2>1
  <2> HIDE DEF g, t
  <2>4. g \in [1 .. Len(t) -> 1 .. Len(s)]
    BY <2>1, <2>2
  <2> QED
    BY <2>1, <2>3, <2>4 DEF Thinned, t
<1> QED
  BY <1>2, <1>3

(* Nothing happens to the history while the queue is the same.             *)
LEMMA HistoryStays ==
  ASSUME Sound, Aged, History, queue' = queue,
         \A a, b \in ToSet(queue) :
           entry'[a].index = entry'[b].index => entry[a].index = entry[b].index
  PROVE  Aged' /\ arrivals' = arrivals
<1>1. queue \in Seq(Entries) /\ Once(queue) /\ Thinned(queue, queue)
  BY ThinnedSelf DEF Sound, Typed, Placed
<1>2. Aged' /\ arrivals' = Kept(arrivals, ToSet(queue))
  <2>1. /\ queue' \in Seq(Entries) /\ Once(queue') /\ Thinned(queue', queue)
        /\ ToSet(queue') \subseteq ToSet(queue)
    BY <1>1
  <2>2. ToSet(queue') = ToSet(queue)
    OBVIOUS
  <2> QED
    BY <2>1, <2>2, HistoryThins
<1>3. Kept(arrivals, ToSet(queue)) = arrivals
  BY KeptAll DEF Aged
<1> QED
  BY <1>2, <1>3

(* AddEntry puts the entry behind those of its time and before none.       *)
LEMMA Arrives ==
  ASSUME Sound, NEW h \in Handlers \cup {IrqCheck}, NEW v \in Values \cup {0},
         NEW index \in Int, free # <<>>, AddEntry(h, v, index)
  PROVE  LET e == Head(free)
         IN  /\ Occurs(entry', e) = [at |-> index, task |-> <<h, v>>]
             /\ \A a \in ToSet(queue) : Before(queue', e, a) => entry[a].index # index
             /\ \A a, b \in ToSet(queue) : Before(queue', a, b) => Before(queue, a, b)
<1> DEFINE e == Head(free)
           en == [entry EXCEPT ![e] = [index |-> index, handler |-> h, value |-> v]]
           k == Place(en, queue, index)
           n == Len(queue)
<1>1. entry' = en /\ queue' = InsertAt(queue, k, e)
  BY DEF AddEntry
<1>2. /\ entry \in [Entries -> Entry] /\ queue \in Seq(Entries) /\ Once(queue)
      /\ free \in Seq(Entries)
  BY DEF Sound, Typed, Placed
<1>3. e \in Entries /\ e \notin ToSet(queue)
  BY Queued
<1> HIDE DEF e
<1>4. /\ en \in [Entries -> Entry] /\ Occurs(en, e) = [at |-> index, task |-> <<h, v>>]
      /\ \A x \in Entries : x # e => en[x] = entry[x]
  <2>1. [index |-> index, handler |-> h, value |-> v] \in Entry
    BY DEF Entry
  <2> QED
    BY <1>2, <1>3, <2>1 DEF Occurs
<1> HIDE DEF en
<1>5. /\ k \in 1 .. n + 1 /\ \A j \in 1 .. k - 1 : en[queue[j]].index <= index
      /\ k <= n => en[queue[k]].index > index
  BY <1>2, <1>4, PlaceIs
<1> HIDE DEF k
<1>6. /\ queue' \in Seq(Entries) /\ Once(queue') /\ Len(queue') = n + 1
      /\ \A i \in 1 .. n + 1 :
           queue'[i] = IF i < k THEN queue[i] ELSE IF i = k THEN e ELSE queue[i - 1]
  <2>1. queue \in Seq(Entries) /\ Once(queue) /\ e \in Entries /\ e \notin ToSet(queue)
    BY <1>2, <1>3
  <2>2. k \in 1 .. Len(queue) + 1 /\ queue' = InsertAt(queue, k, e)
    BY <1>1, <1>5
  <2> HIDE DEF n
  <2>3. LET t == InsertAt(queue, k, e)
        IN  /\ t \in Seq(Entries) /\ Once(t) /\ Len(t) = Len(queue) + 1
            /\ \A i \in 1 .. Len(queue) + 1 :
                 t[i] = IF i < k THEN queue[i] ELSE IF i = k THEN e ELSE queue[i - 1]
    BY <2>1, <2>2, InsertOnce
  <2> QED
    BY <2>2, <2>3 DEF n
<1>7. /\ n \in Nat /\ DOMAIN queue = 1 .. n /\ DOMAIN queue' = 1 .. n + 1
      /\ \A i \in 1 .. n : /\ queue[i] \in Entries /\ queue[i] \in ToSet(queue) /\ queue[i] # e
                           /\ en[queue[i]] = entry[queue[i]]
  BY <1>2, <1>3, <1>4, <1>6, ElementsAre
<1> HIDE DEF n
<1>8. ASSUME NEW i \in 1 .. n + 1, queue'[i] \in ToSet(queue)
      PROVE  \/ i < k /\ i \in 1 .. n /\ queue'[i] = queue[i]
             \/ i > k /\ i - 1 \in 1 .. n /\ queue'[i] = queue[i - 1]
  <2>1. i < k \/ i = k \/ i > k
    BY <1>5, <1>7
  <2>2. i # k
    BY <1>3, <1>6, <1>8
  <2> QED
    BY <1>5, <1>6, <1>7, <2>1, <2>2
<1>9. ASSUME NEW a \in ToSet(queue), NEW b \in ToSet(queue), Before(queue', a, b)
      PROVE  Before(queue, a, b)
  <2>1. PICK i \in 1 .. n + 1, j \in 1 .. n + 1 : i < j /\ queue'[i] = a /\ queue'[j] = b
    BY <1>7, <1>9 DEF Before
  <2>2. \/ i < k /\ i \in 1 .. n /\ a = queue[i]
        \/ i > k /\ i - 1 \in 1 .. n /\ a = queue[i - 1]
    BY <1>8, <2>1
  <2>3. \/ j < k /\ j \in 1 .. n /\ b = queue[j]
        \/ j > k /\ j - 1 \in 1 .. n /\ b = queue[j - 1]
    BY <1>8, <2>1
  <2>4. \E x, y \in 1 .. n : x < y /\ queue[x] = a /\ queue[y] = b
    <3>1. CASE i < k /\ i \in 1 .. n /\ a = queue[i]
      <4>1. CASE j < k /\ j \in 1 .. n /\ b = queue[j]
        BY <2>1, <3>1, <4>1
      <4>2. CASE j > k /\ j - 1 \in 1 .. n /\ b = queue[j - 1]
        <5>1. i < j - 1
          BY <1>5, <2>1, <3>1, <4>2
        <5> QED
          BY <3>1, <4>2, <5>1
      <4> QED
        BY <2>3, <4>1, <4>2
    <3>2. CASE i > k /\ i - 1 \in 1 .. n /\ a = queue[i - 1]
      <4>1. j - 1 \in 1 .. n /\ b = queue[j - 1] /\ i - 1 < j - 1
        BY <1>5, <2>1, <2>3, <3>2
      <4> QED
        BY <3>2, <4>1
    <3> QED
      BY <2>2, <3>1, <3>2
  <2> QED
    BY <1>7, <2>4 DEF Before
<1>10. ASSUME NEW a \in ToSet(queue), Before(queue', e, a), entry[a].index = index
       PROVE  FALSE
  <2>1. PICK i \in 1 .. n + 1, j \in 1 .. n + 1 : i < j /\ queue'[i] = e /\ queue'[j] = a
    BY <1>7, <1>10 DEF Before
  <2>2. i = k
    <3>1. k \in 1 .. n + 1 /\ queue'[k] = e
      BY <1>5, <1>6
    <3> QED
      BY <1>6, <1>7, <2>1, <3>1 DEF Once
  <2>3. j - 1 \in 1 .. n /\ a = queue[j - 1] /\ k <= j - 1 /\ k \in 1 .. n
    BY <1>5, <1>7, <1>8, <2>1, <2>2
  <2>4. en[queue[k]].index > index /\ en[queue[k]].index = entry[queue[k]].index
    BY <1>5, <1>7, <2>3
  <2>5. entry[queue[k]].index <= entry[queue[j - 1]].index
    <3>1. k = j - 1 \/ k < j - 1
      BY <2>3
    <3>2. entry[queue[k]].index \in Int
      BY <1>2, <1>7, <2>3 DEF Entry
    <3>3. k < j - 1 => entry[queue[k]].index <= entry[queue[j - 1]].index
      BY <1>7, <2>3 DEF Sound, Sorted
    <3> QED
      BY <3>1, <3>2, <3>3
  <2>6. entry[queue[k]].index \in Int
    BY <1>2, <1>7, <2>3 DEF Entry
  <2> QED
    BY <1>10, <2>3, <2>4, <2>5, <2>6
<1> QED
  BY <1>1, <1>4, <1>9, <1>10 DEF e
-----------------------------------------------------------------------------
(***************************************************************************)
(* The event being served, in a system where no handler runs the loop.     *)
(***************************************************************************)
Tasks == (Handlers \X Values) \cup {<<IrqCheck, 0>>}
Waits == Delays \cup HandlerDelays \cup {IrqDelay}
Serving == mode = "serve" /\ Top.entry # NoEntry

Calm ==
  /\ mode # "trap"
  /\ Serving => srv_lag = entry[Top.entry].index
  /\ \A e \in Entries : Task(e) \in Tasks

Scheduled == Sound /\ Paced /\ Granting /\ Timely /\ Aged /\ Calm

Same == Waiting' = Waiting /\ Current' = Current /\ TickIndex' = TickIndex

LEMMA WaitingIs ==
  Waiting = Shown(entry, arrivals) /\ Waiting' = Shown(entry', arrivals')
BY DEF Waiting, Shown, Event, Task, Occurs

LEMMA HeldIs ==
  ASSUME NEW ps \in Seq(Pass)
  PROVE  /\ ps = <<>> => Held(ps) = {}
         /\ Len(ps) = 1 /\ Last(ps).entry = NoEntry => Held(ps) = {}
         /\ Len(ps) = 1 /\ Last(ps).entry # NoEntry =>
              Held(ps) = {Last(ps).entry} /\ Last(ps).entry \in Entries
<1>1. /\ DOMAIN ps = 1 .. Len(ps) /\ (ps # <<>> <=> Len(ps) > 0)
      /\ ps # <<>> => Last(ps) = ps[Len(ps)]
      /\ Held(ps) \subseteq Entries
  BY PassesAre
<1>2. CASE ps = <<>>
  <2>1. Held(ps) = {}
    BY <1>2 DEF Held
  <2> QED
    BY <1>2, <2>1
<1>3. CASE Len(ps) = 1
  <2>1. ps # <<>> /\ Last(ps) = ps[1] /\ DOMAIN ps = {1}
    <3>1. 1 .. 1 = {1}
      OBVIOUS
    <3> QED
      BY <1>1, <1>3, <3>1
  <2>2. Held(ps) = {Last(ps).entry} \ {NoEntry}
    BY <2>1 DEF Held
  <2> QED
    BY <1>1, <2>1, <2>2
<1> QED
  BY <1>2, <1>3

LEMMA CurrentIs ==
  ASSUME Sound, Paced
  PROVE  /\ Serving => /\ Top.entry \in Entries /\ Held(passes) = {Top.entry}
                       /\ Current = Event(Top.entry) /\ Current # Nobody
                       /\ Current.at = entry[Top.entry].index
         /\ ~Serving => Held(passes) = {} /\ Current = Nobody
<1>1. /\ passes \in Seq(Pass) /\ InService = Held(passes) /\ Top = Last(passes)
      /\ mode = "serve" => Len(passes) = 1
      /\ mode # "serve" => passes = <<>>
  BY DEF Sound, Typed, Paced, InService, Held, Top
<1>2. ASSUME Serving
      PROVE  /\ Top.entry \in Entries /\ Held(passes) = {Top.entry}
             /\ Current = Event(Top.entry) /\ Current # Nobody
             /\ Current.at = entry[Top.entry].index
  <2>1. Top.entry \in Entries /\ Held(passes) = {Top.entry}
    BY <1>1, <1>2, HeldIs DEF Serving
  <2>2. Current = Event(Top.entry)
    BY <1>1, <2>1 DEF Current
  <2>3. Event(Top.entry).at = entry[Top.entry].index /\ Event(Top.entry).task # <<>>
    BY DEF Event, Task
  <2>4. Nobody.task = <<>>
    BY DEF Nobody
  <2> QED
    BY <2>1, <2>2, <2>3, <2>4
<1>3. ASSUME ~Serving PROVE Held(passes) = {} /\ Current = Nobody
  <2>1. Held(passes) = {}
    BY <1>1, <1>3, HeldIs DEF Serving
  <2> QED
    BY <1>1, <2>1 DEF Current
<1> QED
  BY <1>2, <1>3

LEMMA CurrentStays ==
  ASSUME Sound, Paced, passes' = passes,
         Serving => entry'[Top.entry] = entry[Top.entry]
  PROVE  Current' = Current
<1>1. InService' = InService /\ Top' = Top
  BY DEF InService, Top
<1>2. CASE Serving
  <2>1. Event(Top.entry)' = Event(Top.entry)
    BY <1>1, <1>2 DEF Event, Task
  <2> QED
    BY <1>1, <2>1 DEF Current
<1>3. CASE ~Serving
  <2>1. InService = {}
    <3>1. Held(passes) = InService
      BY DEF Held, InService
    <3> QED
      BY <1>3, <3>1, CurrentIs
  <2> QED
    BY <1>1, <2>1 DEF Current
<1> QED
  BY <1>2, <1>3

LEMMA NobodyServed ==
  /\ passes = <<>> => Current = Nobody
  /\ passes' = <<>> => Current' = Nobody
BY DEF Current, InService
-----------------------------------------------------------------------------
(***************************************************************************)
(* Devices: an event that is queued is added at the end of the schedule.   *)
(***************************************************************************)

(* There is room for an event while an entry is free.                      *)
LEMMA RoomLeft ==
  ASSUME Sound, Paced, Aged, NEW e \in ToSet(free)
  PROVE  Len(arrivals) + (IF Current = Nobody THEN 0 ELSE 1) < Cardinality(Entries)
<1> DEFINE A == ToSet(arrivals)
           H == Held(passes)
<1>1. /\ IsFiniteSet(A) /\ Cardinality(A) = Len(arrivals) /\ Len(arrivals) \in Nat
  <2>1. arrivals \in Seq(Entries) /\ Once(arrivals)
    BY DEF Aged
  <2> QED
    BY <2>1, OnceCounts
<1>2. /\ IsFiniteSet(H) /\ Cardinality(H) = IF Current = Nobody THEN 0 ELSE 1
  <2>1. CASE Serving
    <3>1. H = {Top.entry} /\ Current # Nobody
      BY <2>1, CurrentIs
    <3> QED
      BY <3>1, FS_Singleton
  <2>2. CASE ~Serving
    <3>1. H = {} /\ Current = Nobody
      BY <2>2, CurrentIs
    <3> QED
      BY <3>1, FS_EmptySet
  <2> QED
    BY <2>1, <2>2
<1>3. A \cap H = {} /\ e \notin A \cup H /\ A \cup H \cup {e} \subseteq Entries
  BY DEF Aged, Sound, Placed
<1> HIDE DEF A, H
<1>4. IsFiniteSet(A \cup H) /\ Cardinality(A \cup H) = Cardinality(A) + Cardinality(H)
  BY <1>1, <1>2, <1>3, DisjointCounts
<1>5. Cardinality((A \cup H) \cup {e}) = Cardinality(A \cup H) + 1
  BY <1>3, <1>4, FS_AddElement
<1>6. IsFiniteSet(Entries) /\ (A \cup H) \cup {e} \in SUBSET Entries
  BY <1>3, Constants
<1>7. Cardinality((A \cup H) \cup {e}) <= Cardinality(Entries) /\ Cardinality(Entries) \in Nat
  BY <1>6, FS_Subset, FS_CardinalityType
<1>8. Cardinality(H) \in Nat
  BY <1>2, FS_CardinalityType
<1> QED
  BY <1>1, <1>2, <1>4, <1>5, <1>7, <1>8

(* The history after an entry was queued.                                  *)
LEMMA HistoryGrows ==
  ASSUME Sound, Aged, History, NEW h \in Handlers \cup {IrqCheck}, NEW v \in Values \cup {0},
         NEW index \in Int, free # <<>>, AddEntry(h, v, index)
  PROVE  Aged' /\ arrivals' = Append(arrivals, Head(free))
<1> DEFINE e == Head(free)
<1>1. /\ e \in Entries /\ e \notin ToSet(queue) /\ entry'[e].index = index
      /\ \A x \in Entries : x # e => entry'[x] = entry[x]
      /\ queue' \in Seq(Entries) /\ Once(queue')
      /\ ToSet(queue') = ToSet(queue) \cup {e}
  BY Queued
<1>2. /\ \A a \in ToSet(queue) : Before(queue', e, a) => entry[a].index # index
      /\ \A a, b \in ToSet(queue) : Before(queue', a, b) => Before(queue, a, b)
  BY Arrives
<1> HIDE DEF e
<1>3. /\ arrivals \in Seq(Entries) /\ Once(arrivals) /\ ToSet(arrivals) = ToSet(queue)
      /\ ToSet(queue) \subseteq Entries
  BY QueuedIndex DEF Aged
<1>4. Kept(arrivals, ToSet(queue')) = arrivals
  BY <1>1, <1>3, KeptAll
<1>5. Kept(queue', Entries \ ToSet(arrivals)) = <<e>>
  <2>1. ToSet(queue') \cap (Entries \ ToSet(arrivals)) = {e}
    BY <1>1, <1>3
  <2> QED
    BY <1>1, <2>1, KeptOne
<1>6. arrivals' = Append(arrivals, e)
  <2>1. arrivals' = arrivals \o <<e>>
    BY <1>4, <1>5 DEF History
  <2> QED
    BY <1>1, <1>3, <2>1, AppendIsConcat
<1> DEFINE t == Append(arrivals, e)
<1>7. t \in Seq(Entries) /\ Once(t) /\ ToSet(t) = ToSet(queue')
  <2> DEFINE m == Len(arrivals)
  <2>1. /\ t \in Seq(Entries) /\ m \in Nat /\ DOMAIN t = 1 .. m + 1 /\ Len(t) = m + 1
        /\ DOMAIN arrivals = 1 .. m
        /\ t[m + 1] = e /\ \A i \in 1 .. m : t[i] = arrivals[i]
    BY <1>1, <1>3
  <2>2. \A i \in 1 .. m : arrivals[i] \in ToSet(queue) /\ arrivals[i] # e
    BY <1>1, <1>3, ElementsAre
  <2> HIDE DEF m, t
  <2>3. \A i \in 1 .. m + 1 : i \in 1 .. m \/ i = m + 1
    BY <2>1
  <2>4. Once(t)
    <3> SUFFICES ASSUME NEW i \in 1 .. m + 1, NEW j \in 1 .. m + 1, t[i] = t[j]
                 PROVE  i = j
      BY <2>1 DEF Once
    <3> QED
      BY <1>3, <2>1, <2>2, <2>3 DEF Once
  <2>5. ToSet(t) = ToSet(arrivals) \cup {e}
    <3>1. \A i \in 1 .. m : i \in 1 .. m + 1
      BY <2>1
    <3>2. m + 1 \in 1 .. m + 1
      BY <2>1
    <3>3. ToSet(t) = {t[i] : i \in 1 .. m + 1} /\ ToSet(arrivals) = {arrivals[i] : i \in 1 .. m}
      BY <2>1 DEF ToSet
    <3> QED
      BY <2>1, <2>3, <3>1, <3>2, <3>3
  <2> QED
    BY <1>1, <1>3, <2>1, <2>4, <2>5
<1>8. ASSUME NEW a \in ToSet(queue'), NEW b \in ToSet(queue'), Before(queue', a, b),
             entry'[a].index = entry'[b].index
      PROVE  Before(t, a, b)
  <2>1. a # b
    BY <1>1, <1>8 DEF Before, Once
  <2>2. CASE b = e
    <3>1. a \in ToSet(arrivals)
      BY <1>1, <1>3, <2>1, <2>2
    <3> QED
      BY <1>1, <1>3, <2>2, <3>1, AppendedLast
  <2>3. CASE a = e
    <3>1. b \in ToSet(queue) /\ entry'[b] = entry[b]
      BY <1>1, <1>3, <2>1, <2>3
    <3> QED
      BY <1>1, <1>2, <1>8, <2>3, <3>1
  <2>4. CASE a # e /\ b # e
    <3>1. /\ a \in ToSet(queue) /\ entry'[a] = entry[a]
          /\ b \in ToSet(queue) /\ entry'[b] = entry[b]
      BY <1>1, <1>3, <2>4
    <3>2. Before(queue, a, b)
      BY <1>2, <1>8, <3>1
    <3>3. Before(arrivals, a, b)
      BY <1>8, <3>1, <3>2 DEF Aged
    <3> QED
      BY <1>1, <1>3, <3>1, <3>3, AppendedLast
  <2> QED
    BY <2>2, <2>3, <2>4
<1> HIDE DEF t
<1>9. /\ arrivals' \in Seq(Entries) /\ Once(arrivals') /\ ToSet(arrivals') = ToSet(queue')
      /\ \A a, b \in ToSet(queue') :
           Before(queue', a, b) /\ entry'[a].index = entry'[b].index => Before(arrivals', a, b)
  BY <1>6, <1>7, <1>8 DEF t
<1>10. Aged'
  BY <1>9 DEF Aged, Before, Once, ToSet
<1> QED
  BY <1>6, <1>10 DEF e

LEMMA AddShown ==
  ASSUME Scheduled, History, NEW h \in Handlers \cup {IrqCheck}, NEW v \in Values \cup {0},
         NEW delay \in Nat, AddEvent(h, v, delay), DeviceRuns, <<h, v>> \in Tasks,
         UNCHANGED <<passes, inService, srv_lag, mode>>
  PROVE  Aged' /\ Calm' /\ (Schedule!Add(<<h, v>>, delay) \/ Same)
<1>1. Sound /\ Paced /\ Aged /\ Calm /\ Typed /\ Top' = Top
  BY DEF Scheduled, Sound, Top
<1>2. Added(h, delay)
  BY <1>1, AddsSoundly
<1>3. TickIndex' = TickIndex
  <2>1. TickIndexND' = TickIndexND /\ cmax' = cmax
    BY <1>1, <1>2, AddsNoTime DEF Added
  <2> QED
    BY <2>1 DEF TickIndex
<1>4. CASE free = <<>>
  <2>1. entry' = entry /\ queue' = queue
    BY <1>4 DEF AddEvent, lists
  <2>2. Aged' /\ arrivals' = arrivals
    BY <1>1, <2>1, HistoryStays
  <2>3. Calm'
    BY <1>1, <2>1 DEF Calm, Serving, Task
  <2>4. Waiting' = Waiting
    BY <2>1, <2>2, WaitingIs
  <2>5. Current' = Current
    BY <1>1, <2>1, CurrentStays
  <2> QED
    BY <1>3, <2>2, <2>3, <2>4, <2>5 DEF Same
<1>5. CASE free # <<>>
  <2> DEFINE e == Head(free)
             index == EventBase + delay
  <2>1. AddEntry(h, v, index) /\ EventBase \in Int /\ index \in Int
    BY <1>1, <1>5, BaseIs DEF AddEvent
  <2> HIDE DEF index
  <2>2. Aged' /\ arrivals' = Append(arrivals, e)
    BY <1>1, <1>5, <2>1, HistoryGrows
  <2>3. /\ e \in Entries /\ e \in ToSet(free) /\ e \notin ToSet(queue) /\ e \notin Held(passes)
        /\ entry' \in [Entries -> Entry]
        /\ \A x \in Entries : x # e => entry'[x] = entry[x]
    BY <1>1, <1>5, <2>1, Queued
  <2>4. Occurs(entry', e) = [at |-> index, task |-> <<h, v>>]
    BY <1>1, <1>5, <2>1, Arrives
  <2> HIDE DEF e
  <2>5. Serving => Top.entry \in Entries /\ Top.entry # e /\ entry'[Top.entry] = entry[Top.entry]
    BY <1>1, <2>3, CurrentIs
  <2>6. Current' = Current
    BY <1>1, <2>5, CurrentStays
  <2>7. Calm'
    <3>1. mode' # "trap" /\ (Serving' => srv_lag' = entry'[Top'.entry].index)
      BY <1>1, <2>5 DEF Calm, Serving
    <3>2. \A x \in Entries : <<entry'[x].handler, entry'[x].value>> \in Tasks
      <4> TAKE x \in Entries
      <4>1. CASE x = e
        BY <2>4, <4>1 DEF Occurs
      <4>2. CASE x # e
        BY <1>1, <2>3, <4>2 DEF Calm, Task
      <4> QED
        BY <4>1, <4>2
    <3> QED
      BY <3>1, <3>2 DEF Calm, Task, Tasks, Serving
  <2>8. Waiting' = Append(Waiting, [at |-> index, task |-> <<h, v>>])
    <3>1. /\ entry \in [Entries -> Entry] /\ arrivals \in Seq(Entries)
          /\ \A x \in ToSet(arrivals) : entry'[x] = entry[x]
      BY <1>1, <2>3, QueuedIndex DEF Typed, Aged
    <3>2. Shown(entry', Append(arrivals, e)) = Append(Shown(entry, arrivals), Occurs(entry', e))
      <4> DEFINE new == entry'
      <4>1. new \in [Entries -> Entry] /\ \A x \in ToSet(arrivals) : new[x] = entry[x]
        BY <2>3, <3>1
      <4> HIDE DEF new
      <4>2. Shown(new, Append(arrivals, e)) = Append(Shown(entry, arrivals), Occurs(new, e))
        <5>1. entry \in [Entries -> Entry] /\ arrivals \in Seq(Entries) /\ e \in Entries
          BY <2>3, <3>1
        <5> QED
          BY <4>1, <5>1, ShownAppend, Zenon
      <4> QED
        BY <4>2 DEF new
    <3> QED
      BY <2>2, <2>4, <3>2, WaitingIs
  <2>9. index = delay + (IF Current = Nobody THEN TickIndex ELSE Current.at)
    <3>1. CASE mode = "serve"
      <4>1. Serving /\ inService
        BY <1>1, <3>1 DEF Serving, DeviceRuns, Paced
      <4>2. EventBase = srv_lag /\ srv_lag = Current.at /\ Current # Nobody
        BY <1>1, <4>1, CurrentIs DEF EventBase, Calm
      <4> QED
        BY <2>1, <4>2 DEF index
    <3>2. CASE mode # "serve"
      <4>1. ~Serving /\ ~inService
        BY <1>1, <3>2 DEF Serving, Paced
      <4>2. EventBase = TickIndex /\ Current = Nobody
        BY <1>1, <4>1, CurrentIs DEF EventBase
      <4> QED
        BY <2>1, <4>2 DEF index
    <3> QED
      BY <3>1, <3>2
  <2>10. Len(Waiting) + (IF Current = Nobody THEN 0 ELSE 1) < Cardinality(Entries)
    <3>1. Len(Waiting) = Len(arrivals)
      BY <1>1, WaitingIs, ShownIs DEF Typed, Aged
    <3> QED
      BY <1>1, <2>3, <3>1, RoomLeft
  <2>11. Schedule!Add(<<h, v>>, delay)
    BY <1>3, <2>6, <2>8, <2>9, <2>10 DEF Schedule!Add, Schedule!Outstanding
  <2> QED
    BY <2>2, <2>7, <2>11
<1> QED
  BY <1>4, <1>5

(***************************************************************************)
(* Removed events are cancelled in the schedule.                           *)
(***************************************************************************)
LEMMA OnlyIsKept ==
  ASSUME NEW w, NEW some
  PROVE  Schedule!Only(w, some) = Kept(w, some)
BY Zenon DEF Schedule!Only, Kept

LEMMA CancelShown ==
  ASSUME Scheduled, History, NEW victims, victims \subseteq Entries, Unlink(victims),
         NEW tasks, \A e \in Entries : e \in victims <=> Task(e) \in tasks,
         UNCHANGED <<passes, inService, srv_lag, mode, clock>>
  PROVE  Aged' /\ Calm' /\ Schedule!Cancel(tasks)
<1> DEFINE keep == Entries \ victims
           some == {w \in ToSet(Waiting) : w.task \notin tasks}
<1>1. Sound /\ Paced /\ Aged /\ Calm /\ Typed /\ Placed /\ Top' = Top
  BY DEF Scheduled, Sound, Top
<1>2. /\ queue' \in Seq(Entries) /\ Once(queue') /\ ToSet(queue') = ToSet(queue) \ victims
      /\ entry' = entry /\ queue' = Kept(queue, keep)
      /\ queue \in Seq(Entries) /\ Once(queue)
  BY <1>1, Unlinked DEF Unlink, Typed, Placed
<1>3. /\ arrivals \in Seq(Entries) /\ ToSet(arrivals) = ToSet(queue)
      /\ entry \in [Entries -> Entry]
  BY <1>1 DEF Aged, Typed
<1> HIDE DEF keep
<1>4. Thinned(queue', queue)
  BY <1>2, KeptOnce
<1>5. Aged' /\ arrivals' = Kept(arrivals, ToSet(queue'))
  <2>1. ToSet(queue') \subseteq ToSet(queue)
    BY <1>2
  <2>2. \A a, b \in ToSet(queue') :
          entry'[a].index = entry'[b].index => entry[a].index = entry[b].index
    BY <1>2
  <2> QED
    BY <1>1, <1>2, <1>4, <2>1, <2>2, HistoryThins
<1>6. Calm'
  BY <1>1, <1>2 DEF Calm, Serving, Task
<1>7. Current' = Current /\ TickIndex' = TickIndex
  <2>1. TickIndex' = TickIndex
    BY DEF TickIndex, TickIndexND, clock
  <2> QED
    BY <1>1, <1>2, <2>1, CurrentStays
<1>8. \A k \in 1 .. Len(arrivals) :
        arrivals[k] \in ToSet(queue') <=> Occurs(entry, arrivals[k]) \in some
  <2> TAKE k \in 1 .. Len(arrivals)
  <2> DEFINE e == arrivals[k]
  <2>1. e \in Entries /\ e \in ToSet(queue)
    BY <1>3, ElementsAre
  <2>2. Occurs(entry, e) \in ToSet(Waiting) /\ Occurs(entry, e).task = Task(e)
    <3>1. /\ Waiting \in Seq(Happening) /\ Len(Waiting) = Len(arrivals)
          /\ Waiting[k] = Occurs(entry, e)
      BY <1>3, WaitingIs, ShownIs
    <3>2. Waiting[k] \in ToSet(Waiting)
      BY <3>1, ElementsAre
    <3> QED
      BY <3>1, <3>2 DEF Occurs, Task
  <2> HIDE DEF e
  <2>3. e \in ToSet(queue') <=> Task(e) \notin tasks
    BY <1>2, <2>1
  <2>4. Occurs(entry, e) \in some <=> Task(e) \notin tasks
    BY <2>2
  <2> QED
    BY <2>3, <2>4 DEF e
<1>9. Waiting' = Schedule!Only(Waiting, some)
  <2> DEFINE stay == ToSet(queue')
  <2>1. \A k \in 1 .. Len(arrivals) : arrivals[k] \in stay <=> Occurs(entry, arrivals[k]) \in some
    BY <1>8
  <2> HIDE DEF some, stay
  <2>2. Shown(entry, Kept(arrivals, stay)) = Kept(Shown(entry, arrivals), some)
    BY <1>3, <2>1, ShownKept
  <2>3. Waiting' = Shown(entry, Kept(arrivals, stay)) /\ Waiting = Shown(entry, arrivals)
    BY <1>2, <1>5, WaitingIs DEF stay
  <2>4. Schedule!Only(Waiting, some) = Kept(Waiting, some)
    BY OnlyIsKept
  <2> QED
    BY <2>2, <2>3, <2>4
<1>10. Schedule!Cancel(tasks)
  BY <1>7, <1>9, Zenon DEF Schedule!Cancel, Schedule!ToSet, ToSet
<1> QED
  BY <1>5, <1>6, <1>10

(* Every operation of a device is one of the schedule, or is not seen.     *)
LEMMA DeviceShown ==
  ASSUME Scheduled, History, Device
  PROVE  Aged' /\ Calm' /\ (Schedule!Next \/ Same)
<1>1. UNCHANGED <<passes, inService, srv_lag, mode>> /\ DeviceRuns
  BY DeviceAdds DEF Scheduled
<1>2. ASSUME NEW h \in Handlers \cup {IrqCheck}, NEW v \in Values \cup {0}, NEW delay \in Waits,
             AddEvent(h, v, delay), <<h, v>> \in Tasks
      PROVE  Aged' /\ Calm' /\ (Schedule!Next \/ Same)
  <2>1. delay \in Nat
    BY Constants DEF Waits
  <2>2. Aged' /\ Calm' /\ (Schedule!Add(<<h, v>>, delay) \/ Same)
    BY <1>1, <1>2, <2>1, AddShown
  <2>3. Schedule!Add(<<h, v>>, delay) => Schedule!Next
    BY <1>2 DEF Schedule!Next, Tasks, Waits
  <2> QED
    BY <2>2, <2>3
<1>3. ASSUME NEW h \in Handlers, NEW v \in Values, NEW d \in Delays \cup HandlerDelays,
             PIC_AddEvent(h, v, d)
      PROVE  Aged' /\ Calm' /\ (Schedule!Next \/ Same)
  <2>1. AddEvent(h, v, d) /\ <<h, v>> \in Tasks /\ d \in Waits
    BY <1>3 DEF PIC_AddEvent, Tasks, Waits
  <2> QED
    BY <1>2, <2>1
<1>4. CASE Activate
  <2>1. AddEvent(IrqCheck, 0, IrqDelay) /\ <<IrqCheck, 0>> \in Tasks /\ IrqDelay \in Waits
    BY <1>4 DEF Activate, Tasks, Waits
  <2> QED
    BY <1>2, <2>1
<1>5. ASSUME NEW victims, victims \subseteq Entries, Unlink(victims), UNCHANGED clock,
             NEW tasks \in SUBSET Tasks, \A e \in Entries : e \in victims <=> Task(e) \in tasks
      PROVE  Aged' /\ Calm' /\ (Schedule!Next \/ Same)
  <2>1. Aged' /\ Calm' /\ Schedule!Cancel(tasks)
    BY <1>1, <1>5, CancelShown
  <2>2. Schedule!Next
    BY <1>5, <2>1 DEF Schedule!Next, Tasks
  <2> QED
    BY <2>1, <2>2
<1>6. \A e \in Entries : Task(e) \in Tasks
  BY DEF Scheduled, Calm
<1>7. ASSUME NEW h \in Handlers, PIC_RemoveEvents(h)
      PROVE  Aged' /\ Calm' /\ (Schedule!Next \/ Same)
  <2> DEFINE victims == {e \in Entries : entry[e].handler = h}
             tasks == {t \in Tasks : t[1] = h}
  <2>1. Unlink(victims) /\ UNCHANGED clock /\ victims \subseteq Entries /\ tasks \in SUBSET Tasks
    BY <1>7 DEF PIC_RemoveEvents
  <2>2. \A e \in Entries : e \in victims <=> Task(e) \in tasks
    BY <1>6 DEF Task
  <2> HIDE DEF victims, tasks
  <2> QED
    BY <1>5, <2>1, <2>2
<1>8. ASSUME NEW h \in Handlers, NEW v \in Values, PIC_RemoveSpecificEvents(h, v)
      PROVE  Aged' /\ Calm' /\ (Schedule!Next \/ Same)
  <2> DEFINE victims == {e \in Entries : entry[e].handler = h /\ entry[e].value = v}
             tasks == {<<h, v>>}
  <2>1. Unlink(victims) /\ UNCHANGED clock /\ victims \subseteq Entries /\ tasks \in SUBSET Tasks
    BY <1>8 DEF PIC_RemoveSpecificEvents, Tasks
  <2>2. \A e \in Entries : e \in victims <=> Task(e) \in tasks
    BY DEF Task
  <2> HIDE DEF victims, tasks
  <2> QED
    BY <1>5, <2>1, <2>2
<1> QED
  BY <1>3, <1>4, <1>7, <1>8 DEF Device
-----------------------------------------------------------------------------
(***************************************************************************)
(* PIC_RunQueue serves the event that the schedule serves.                 *)
(***************************************************************************)
LEMMA ServeShown ==
  ASSUME Scheduled, History, Serve
  PROVE  Aged' /\ Calm' /\ Schedule!Serve
<1> DEFINE e == Head(queue)
<1>1. Sound /\ Paced /\ Aged /\ Calm /\ Typed /\ Placed
  BY DEF Scheduled, Sound
<1>2. /\ mode = "serve" /\ mode' = "serve" /\ UNCHANGED <<entry, inService, left, cyc, cmax>>
      /\ Top.entry = NoEntry /\ e \in ToSet(queue) /\ ToSet(queue') = ToSet(queue) \ {e}
      /\ srv_lag' = entry[e].index /\ entry[e].index * cmax <= Top.nd * U
      /\ Len(passes') = 1
  BY <1>1, ServePass
<1>3. /\ queue # <<>> /\ queue' = Tail(queue)
      /\ passes' = [passes EXCEPT ![Len(passes)].entry = e]
  BY DEF Serve, Due
<1>4. /\ queue \in Seq(Entries) /\ Once(queue) /\ entry \in [Entries -> Entry]
      /\ arrivals \in Seq(Entries) /\ Once(arrivals) /\ ToSet(arrivals) = ToSet(queue)
      /\ passes \in Seq(Pass) /\ passes # <<>> /\ Apart(passes) /\ NoEntry \notin Entries
  BY <1>1, <1>2, OnlyPass, Constants DEF Typed, Placed, Aged
<1>5. /\ e \in Entries /\ \A a \in ToSet(queue) : entry[e].index <= entry[a].index
  BY <1>1, <1>3, QueuedIndex
<1>6. queue' \in Seq(Entries) /\ Once(queue') /\ Thinned(queue', queue)
  BY <1>3, <1>4, HeadTailOnce, ThinnedSelf
<1>7. ASSUME NEW a \in ToSet(queue), a # e PROVE Before(queue, e, a)
  <2>1. DOMAIN queue = 1 .. Len(queue) /\ Len(queue) \in Nat /\ Len(queue) > 0 /\ e = queue[1]
    BY <1>3, <1>4
  <2>2. PICK l \in 1 .. Len(queue) : queue[l] = a
    BY <1>4, ElementsAre
  <2>3. 1 \in DOMAIN queue /\ l \in DOMAIN queue /\ 1 < l
    BY <1>7, <2>1, <2>2
  <2> QED
    BY <2>1, <2>2, <2>3 DEF Before
<1> HIDE DEF e
<1>8. Aged' /\ arrivals' = Kept(arrivals, ToSet(queue'))
  <2>1. ToSet(queue') \subseteq ToSet(queue)
    BY <1>2
  <2>2. \A a, b \in ToSet(queue') :
          entry'[a].index = entry'[b].index => entry[a].index = entry[b].index
    BY <1>2
  <2> QED
    BY <1>1, <1>6, <2>1, <2>2, HistoryThins
<1>9. /\ Last(passes').entry = e /\ Last(passes').entry # NoEntry
      /\ passes' \in Seq(Pass) /\ Held(passes') = {e}
  <2>1. e \in Entries \cup {NoEntry} /\ e \notin Held(passes) /\ e # NoEntry
    BY <1>1, <1>2, <1>4, <1>5 DEF Placed
  <2>2. Last(passes').entry = e /\ passes' \in Seq(Pass)
    BY <1>3, <1>4, <2>1, SetTop, Zenon
  <2> DEFINE ps == passes'
  <2>3. ps \in Seq(Pass) /\ Len(ps) = 1 /\ Last(ps).entry = e
    BY <1>2, <2>2
  <2> HIDE DEF ps
  <2>4. Held(ps) = {e}
    BY <2>1, <2>3, HeldIs
  <2> QED
    BY <2>1, <2>2, <2>4 DEF ps
<1>10. Calm'
  <2>1. \A x \in Entries : <<entry'[x].handler, entry'[x].value>> \in Tasks
    BY <1>1, <1>2 DEF Calm, Task
  <2> QED
    BY <1>1, <1>2, <1>9, <2>1 DEF Calm, Serving, Top, Task, Tasks
<1>11. Current = Nobody /\ Current' = Event(e)
  <2>1. Current = Nobody
    BY <1>1, <1>2, CurrentIs DEF Serving
  <2>2. Held(passes') = InService' /\ Top'.entry = e
    BY <1>9 DEF Held, InService, Top
  <2>3. Current' = [at |-> entry'[Top'.entry].index,
                    task |-> <<entry'[Top'.entry].handler, entry'[Top'.entry].value>>]
    BY <1>9, <2>2 DEF Current, Event, Task
  <2> QED
    BY <1>2, <2>1, <2>2, <2>3 DEF Event, Task
<1>12. PICK i \in 1 .. Len(arrivals) : arrivals[i] = e
  BY <1>2, <1>4, ElementsAre
<1>13. /\ Waiting \in Seq(Happening) /\ DOMAIN Waiting = 1 .. Len(arrivals)
       /\ \A j \in 1 .. Len(arrivals) : /\ Waiting[j] = Event(arrivals[j])
                                        /\ Waiting[j].at = entry[arrivals[j]].index
  BY <1>4, WaitingIs, ShownIs DEF Occurs, Event, Task
<1>14. \A j \in 1 .. Len(arrivals) : arrivals[j] \in ToSet(queue) /\ (j # i => arrivals[j] # e)
  BY <1>4, <1>12, ElementsAre DEF Once
<1>15. Schedule!Earliest(i)
  <2>1. \A j \in 1 .. Len(arrivals) : Waiting[i].at <= Waiting[j].at
    BY <1>5, <1>12, <1>13, <1>14
  <2>2. ASSUME NEW j \in 1 .. Len(arrivals), Waiting[i].at = Waiting[j].at PROVE i <= j
    <3>1. CASE j = i
      BY <3>1
    <3>2. CASE j # i
      <4> DEFINE a == arrivals[j]
      <4>1. a \in ToSet(queue) /\ a # e /\ entry[e].index = entry[a].index
        BY <1>12, <1>13, <1>14, <2>2, <3>2
      <4>2. Before(queue, e, a) /\ e \in ToSet(queue)
        BY <1>2, <1>7, <4>1
      <4>3. Before(arrivals, e, a)
        BY <1>1, <4>1, <4>2 DEF Aged
      <4> HIDE DEF a
      <4>4. i \in DOMAIN arrivals /\ j \in DOMAIN arrivals
        BY <1>4, ElementsAre
      <4>5. i < j
        BY <1>4, <1>12, <4>3, <4>4, OneFirst DEF a
      <4> QED
        BY <4>5
    <3> QED
      BY <3>1, <3>2
  <2> QED
    BY <1>13, <2>1, <2>2 DEF Schedule!Earliest
<1>16. Waiting[i].at <= TickIndex
  <2> DEFINE u == U \div cmax
             x == entry[e].index
             n == cmax - left
  <2>1. /\ cmax \in Nat \ {0} /\ u \in Nat \ {0} /\ cmax * u = U /\ U \in Nat \ {0}
        /\ left \in Int /\ cyc = 0 /\ Top.nd = n /\ n \in Int
    BY <1>1, <1>2, Constants DEF Typed, Paced
  <2>2. x \in Int
    BY <1>4, <1>5 DEF Entry
  <2>3. TickIndex = n * u
    BY <2>1 DEF TickIndex, TickIndexND
  <2>4. x * cmax <= n * U
    BY <1>2, <2>1
  <2> HIDE DEF u, x, n
  <2>5. x <= n * u
    BY <2>1, <2>2, <2>4, TimesU
  <2> QED
    BY <1>12, <1>13, <2>3, <2>5 DEF x
<1>17. Waiting' = RemoveAt(Waiting, i)
  <2> DEFINE stay == ToSet(queue')
  <2>1. \A k \in 1 .. Len(arrivals) : arrivals[k] \in stay <=> k # i
    BY <1>2, <1>12, <1>14
  <2> HIDE DEF stay
  <2>2. Shown(entry, Kept(arrivals, stay)) = RemoveAt(Shown(entry, arrivals), i)
    BY <1>4, <2>1, ShownRemove
  <2>3. Waiting' = Shown(entry, Kept(arrivals, stay)) /\ Waiting = Shown(entry, arrivals)
    BY <1>2, <1>8, WaitingIs DEF stay
  <2> QED
    BY <2>2, <2>3
<1>18. TickIndex' = TickIndex
  BY <1>2 DEF TickIndex, TickIndexND
<1>19. RemoveAt(Waiting, i) = Schedule!RemoveAt(Waiting, i)
  BY Zenon DEF RemoveAt, Schedule!RemoveAt
<1>20. i \in DOMAIN Waiting /\ Current' = Waiting[i]
  BY <1>11, <1>12, <1>13
<1>21. Schedule!Serve
  BY <1>11, <1>15, <1>16, <1>17, <1>18, <1>19, <1>20 DEF Schedule!Serve
<1> QED
  BY <1>8, <1>10, <1>21

(* Nothing but the clock moves.                                            *)
LEMMA QueueStays ==
  ASSUME Scheduled, History, UNCHANGED <<entry, queue>>
  PROVE  /\ Aged' /\ Waiting' = Waiting
         /\ mode' # "trap" /\ ~Serving' => Calm'
<1>1. Sound /\ Aged /\ Calm
  BY DEF Scheduled
<1>2. Aged' /\ arrivals' = arrivals
  BY <1>1, HistoryStays
<1>3. Waiting' = Waiting
  BY <1>2, WaitingIs
<1>4. mode' # "trap" /\ ~Serving' => Calm'
  BY <1>1 DEF Calm, Task, Tasks
<1> QED
  BY <1>2, <1>3, <1>4

LEMMA RunQueueShown ==
  ASSUME Scheduled, History, RunQueue
  PROVE  Aged' /\ Calm' /\ (Schedule!Next \/ Same)
<1>1. Sound /\ Paced /\ Calm /\ Typed /\ Placed /\ passes \in Seq(Pass) /\ Apart(passes)
  BY DEF Scheduled, Sound, Typed, Placed
<1>2. CASE BeginPass
  <2> DEFINE nd == cmax - left'
             ps == passes'
  <2>1. /\ mode = "loop" /\ left' = left + cyc /\ cyc' = 0
        /\ UNCHANGED <<entry, queue, cmax>>
        /\ \/ mode' = "serve" /\ ps = Append(passes, [nd |-> nd, entry |-> NoEntry])
           \/ mode' = "idle" /\ ps = passes
    BY <1>2 DEF BeginPass, lists
  <2>2. left \in Int /\ cyc \in Int /\ cmax \in Int /\ passes = <<>>
    BY <1>1, <2>1, Constants DEF Typed, Paced
  <2>3. TickIndex' = TickIndex
    <3>1. TickIndexND' = cmax - (left + cyc) - 0
      BY <2>1 DEF TickIndexND
    <3>2. TickIndexND' = TickIndexND
      BY <2>2, <3>1 DEF TickIndexND
    <3> QED
      BY <2>1, <3>2 DEF TickIndex
  <2>4. Held(passes) = {} /\ Held(ps) = {} /\ (mode' = "serve" => Last(ps).entry = NoEntry)
    <3>1. Held(passes) = {}
      BY <1>1, <2>2, HeldIs
    <3>2. nd \in Int
      BY <2>1, <2>2
    <3> HIDE DEF nd, ps
    <3> QED
      BY <1>1, <2>1, <3>1, <3>2, PushPass
  <2>5. Current = Nobody /\ Current' = Nobody
    BY <2>4 DEF Current, InService, Held
  <2>6. ~Serving' /\ mode' # "trap"
    BY <2>1, <2>4 DEF Serving, Top
  <2> QED
    BY <2>1, <2>3, <2>5, <2>6, QueueStays DEF Same
<1>3. CASE Serve
  <2>1. Schedule!Serve => Schedule!Next
    BY DEF Schedule!Next
  <2> QED
    BY <1>3, <2>1, ServeShown
<1>4. CASE HandlerReturns
  <2> DEFINE ps == passes'
  <2>1. /\ mode = "serve" /\ mode' = mode /\ Top.entry # NoEntry
        /\ ps = [passes EXCEPT ![Len(passes)].entry = NoEntry]
        /\ UNCHANGED <<entry, queue, left, cyc, cmax>>
    BY <1>4 DEF HandlerReturns, clock
  <2>2. passes # <<>> /\ Len(passes) = 1 /\ NoEntry \notin Entries
    BY <1>1, <2>1, OnlyPass, Constants
  <2>3. ps \in Seq(Pass) /\ Len(ps) = 1 /\ Last(ps).entry = NoEntry
    <3>1. NoEntry \in Entries \cup {NoEntry} /\ NoEntry \notin Held(passes)
      BY DEF Held
    <3> HIDE DEF ps
    <3> QED
      BY <1>1, <2>1, <2>2, <3>1, SetTop, Zenon
  <2>4. Held(ps) = {}
    <3> HIDE DEF ps
    <3> QED
      BY <2>3, HeldIs
  <2>5. Current' = Nobody
    BY <2>4 DEF Current, InService, Held
  <2>6. Current # Nobody
    BY <1>1, <2>1, CurrentIs DEF Serving
  <2>7. ~Serving' /\ mode' # "trap" /\ TickIndex' = TickIndex
    BY <2>1, <2>3 DEF Serving, Top, TickIndex, TickIndexND
  <2>8. Aged' /\ Calm' /\ Waiting' = Waiting
    BY <2>1, <2>7, QueueStays
  <2>9. Schedule!Finish
    BY <2>5, <2>6, <2>7, <2>8 DEF Schedule!Finish
  <2> QED
    BY <2>8, <2>9 DEF Schedule!Next
<1>5. CASE EndPass
  <2> DEFINE ps == passes'
  <2>1. /\ mode = "serve" /\ Top.entry = NoEntry /\ ~Due(Top.nd) /\ ps = Front(passes)
        /\ cyc' = Grant(Top.nd) /\ left' = left - cyc' /\ mode' \in {"cpu", "idle"}
        /\ UNCHANGED <<entry, queue, cmax>>
    BY <1>5 DEF EndPass, lists
  <2>2. /\ passes # <<>> /\ Top.nd \in Int /\ Last(passes).entry = NoEntry
        /\ left \in Int /\ cyc = 0 /\ cmax \in Int
    BY <1>1, <2>1, OnlyPass, Constants DEF Typed, Paced, Top
  <2>3. cyc' \in Int
    BY <1>1, <2>1, <2>2, Granted
  <2>4. TickIndex' = TickIndex
    <3>1. TickIndexND' = cmax - (left - cyc') - cyc'
      BY <2>1 DEF TickIndexND
    <3>2. TickIndexND' = TickIndexND
      BY <2>2, <2>3, <3>1 DEF TickIndexND
    <3> QED
      BY <2>1, <3>2 DEF TickIndex
  <2>5. Held(passes) = {}
    BY <1>1, <2>1, CurrentIs DEF Serving
  <2>6. Held(ps) = {}
    <3> HIDE DEF ps
    <3> QED
      BY <1>1, <2>1, <2>2, <2>5, PopPass
  <2>7. Current = Nobody /\ Current' = Nobody
    BY <2>5, <2>6 DEF Current, InService, Held
  <2>8. ~Serving' /\ mode' # "trap"
    BY <2>1 DEF Serving
  <2> QED
    BY <2>1, <2>4, <2>7, <2>8, QueueStays DEF Same
<1> QED
  BY <1>2, <1>3, <1>4, <1>5 DEF RunQueue
-----------------------------------------------------------------------------
(***************************************************************************)
(* The CPU lets time pass, the tick starts a new millisecond.              *)
(***************************************************************************)

(* What Timely says of events that have not been served.                   *)
LEMMA PunctualIs ==
  ASSUME NEW c \in CycleMaxes, NEW o \in Int, NEW index \in Int, index > Bound(c, o)
  PROVE  (c + o) * (U \div c) - index < MaxInsn * Slowest
<1> DEFINE u == U \div c
           s == Slowest
           y == Slowest * MaxInsn
           b == Bound(c, o)
<1>1. /\ c \in Nat \ {0} /\ u \in Nat \ {0} /\ c * u = U /\ U \in Nat \ {0}
      /\ s \in Nat \ {0} /\ u <= s /\ MaxInsn \in Nat \ {0}
  BY SpeedsAre
<1>2. /\ b \in Int /\ s * o \in Int /\ u * o \in Int /\ y \in Int
      /\ (o >= 0 => b = U + s * o - y) /\ (o < 0 => b = U + u * o - y)
  BY BoundIs
<1>3. (c + o) * u = U + u * o /\ y = MaxInsn * s /\ (o >= 0 => u * o <= s * o)
  BY <1>1
<1> HIDE DEF b, y
<1>4. U + u * o - y <= b
  <2> DEFINE v == u * o
             w == s * o
  <2>1. v \in Int /\ w \in Int /\ (o >= 0 => v <= w)
        /\ (o >= 0 => b = U + w - y) /\ (o < 0 => b = U + v - y)
    BY <1>2, <1>3
  <2> HIDE DEF v, w
  <2>2. U + v - y <= b
    BY <1>1, <1>2, <2>1
  <2> QED
    BY <2>2 DEF v
<1>5. (c + o) * u - index < y
  <2> DEFINE v == u * o
             t == (c + o) * u
  <2>1. t = U + v /\ v \in Int /\ U + v - y <= b /\ index > b
    BY <1>2, <1>3, <1>4 DEF b
  <2> HIDE DEF v, t
  <2>2. t - index < y
    BY <1>1, <1>2, <2>1
  <2> QED
    BY <2>2 DEF t
<1> QED
  BY <1>3, <1>5

(* No event of the schedule is late, if none of the queue is.              *)
LEMMA InTimeIs ==
  ASSUME Sound, Aged, NEW t \in Int,
         \A e \in ToSet(queue) : t - entry[e].index < MaxInsn * Slowest
  PROVE  Schedule!InTime(t)
<1>1. arrivals \in Seq(Entries) /\ ToSet(arrivals) = ToSet(queue) /\ entry \in [Entries -> Entry]
  BY DEF Aged, Sound, Typed
<1>2. /\ DOMAIN Waiting = 1 .. Len(arrivals)
      /\ \A i \in 1 .. Len(arrivals) : Waiting[i].at = entry[arrivals[i]].index
  BY <1>1, WaitingIs, ShownIs
<1>3. \A i \in 1 .. Len(arrivals) : arrivals[i] \in ToSet(queue)
  BY <1>1, ElementsAre
<1> QED
  BY <1>2, <1>3 DEF Schedule!InTime, Slowest

LEMMA NowIs ==
  ASSUME Sound
  PROVE  TickIndex = (cmax + Over) * (U \div cmax) /\ Over \in Int
<1>1. cmax \in Int /\ left \in Int /\ cyc \in Int
  BY Constants DEF Sound, Typed
<1>2. TickIndexND = cmax + Over
  BY <1>1 DEF TickIndexND, Over
<1> QED
  BY <1>1, <1>2 DEF TickIndex, Over

(* The events of an unchanged queue are in time after a step.              *)
LEMMA StaysInTime ==
  ASSUME Scheduled, History, UNCHANGED <<entry, queue>>, passes = <<>>, passes' = <<>>,
         Timely', left' \in Int, cyc' \in Int, cmax' \in CycleMaxes, mode' \notin {"trap", "serve"}
  PROVE  /\ Aged' /\ Calm' /\ Waiting' = Waiting /\ Current = Nobody /\ Current' = Nobody
         /\ TickIndex' \in Int /\ Schedule!InTime(TickIndex')
         /\ TickIndex' = (cmax' - left' - cyc') * (U \div cmax')
<1>1. Sound /\ Aged /\ Typed
  BY DEF Scheduled, Sound
<1>2. Aged' /\ Calm' /\ Waiting' = Waiting
  <2>1. ~Serving' /\ mode' # "trap"
    BY DEF Serving
  <2> QED
    BY <2>1, QueueStays
<1>3. Current = Nobody /\ Current' = Nobody
  BY NobodyServed
<1> DEFINE c == cmax'
           l == left'
           y == cyc'
           o == -(l + y)
           t == (c - l - y) * (U \div c)
<1>4. TickIndex' = t
  BY DEF TickIndex, TickIndexND
<1>5. \A e \in ToSet(queue) : entry[e].index > Bound(c, o)
  <2>1. \A e \in ToSet(queue') : entry'[e].index > Bound(cmax', Over')
    BY DEF Timely
  <2>2. Bound(cmax', Over') = Bound(c, o)
    BY DEF Over
  <2>3. ToSet(queue') = ToSet(queue)
    OBVIOUS
  <2> QED
    BY <2>1, <2>2, <2>3
<1>6. c \in CycleMaxes /\ l \in Int /\ y \in Int
  OBVIOUS
<1> HIDE DEF c, l, y
<1>7. o \in Int /\ c \in Nat \ {0} /\ U \div c \in Nat \ {0} /\ t = (c + o) * (U \div c) /\ t \in Int
  <2>1. o \in Int /\ c \in Nat \ {0} /\ U \div c \in Nat \ {0}
    BY <1>6, SpeedsAre
  <2>2. c - l - y = c + o /\ c + o \in Int
    BY <1>6, <2>1
  <2>3. t = (c + o) * (U \div c)
    BY <2>2
  <2> QED
    BY <2>1, <2>2, <2>3
<1> HIDE DEF o, t
<1>8. \A e \in ToSet(queue) : t - entry[e].index < MaxInsn * Slowest
  <2> TAKE e \in ToSet(queue)
  <2>1. entry[e].index \in Int /\ entry[e].index > Bound(c, o)
    BY <1>1, <1>5, QueuedIndex
  <2> QED
    BY <1>6, <1>7, <2>1, PunctualIs
<1>9. Schedule!InTime(t)
  BY <1>1, <1>7, <1>8, InTimeIs
<1> QED
  BY <1>2, <1>3, <1>4, <1>7, <1>9 DEF c, l, y, t

LEMMA CpuShown ==
  ASSUME Scheduled, History, Cpu, Timely', Sound'
  PROVE  Aged' /\ Calm' /\ (Schedule!Next \/ Same)
<1>1. /\ left \in Int /\ cyc \in Int /\ cmax \in CycleMaxes /\ Sound /\ Paced
  BY DEF Scheduled, Sound, Typed
<1>2. /\ mode = "cpu" /\ UNCHANGED <<entry, queue, passes, left, cmax>>
      /\ \/ cyc' < cyc /\ cyc' \in Int /\ mode' = "cpu"
         \/ cyc' = cyc /\ mode' = "loop"
  <2>1. ASSUME NEW n \in 1 .. MaxInsn, Execute(n)
        PROVE  /\ mode = "cpu" /\ UNCHANGED <<entry, queue, passes, left, cmax>>
               /\ cyc' < cyc /\ cyc' \in Int /\ mode' = "cpu"
    <3>1. n \in Nat \ {0}
      BY Constants
    <3> QED
      BY <1>1, <2>1, <3>1 DEF Execute, lists
  <2>2. CASE CPU_HLT
    BY <1>1, <2>2 DEF CPU_HLT, lists
  <2>3. CASE CpuReturns
    BY <2>3 DEF CpuReturns, lists, clock
  <2> QED
    BY <2>1, <2>2, <2>3, Zenon DEF Cpu
<1>3. passes = <<>> /\ passes' = <<>>
  BY <1>1, <1>2 DEF Paced
<1>4. left' \in Int /\ cyc' \in Int /\ cmax' \in CycleMaxes /\ mode' \notin {"trap", "serve"}
  BY <1>1, <1>2
<1>5. /\ Aged' /\ Calm' /\ Waiting' = Waiting /\ Current = Nobody /\ Current' = Nobody
      /\ TickIndex' \in Int /\ Schedule!InTime(TickIndex')
      /\ TickIndex' = (cmax' - left' - cyc') * (U \div cmax')
  BY <1>2, <1>3, <1>4, StaysInTime
<1>6. CASE cyc' = cyc
  <2>1. TickIndex' = TickIndex
    BY <1>2, <1>6 DEF TickIndex, TickIndexND
  <2> QED
    BY <1>5, <2>1 DEF Same
<1>7. CASE cyc' < cyc
  <2> DEFINE n == cmax - left - cyc
             m == cmax - left - cyc'
             u == U \div cmax
  <2>1. n \in Int /\ m \in Int /\ n < m /\ u \in Nat \ {0}
    <3>1. cmax \in Int /\ u \in Nat \ {0}
      BY <1>1, SpeedsAre
    <3>2. left \in Int /\ cyc \in Int /\ cyc' \in Int
      BY <1>1, <1>4
    <3>3. n \in Int /\ m \in Int /\ n < m
      <4> DEFINE y == cyc'
      <4>1. cmax \in Int /\ left \in Int /\ cyc \in Int /\ y \in Int /\ y < cyc
        BY <1>7, <3>1, <3>2
      <4>2. n = cmax - left - cyc /\ m = cmax - left - y
        OBVIOUS
      <4> HIDE DEF n, m, y
      <4> QED
        BY <4>1, <4>2
    <3> QED
      BY <3>1, <3>3
  <2>2. TickIndex = n * u /\ TickIndex' = m * u
    BY <1>2, <1>5 DEF TickIndex, TickIndexND
  <2> HIDE DEF n, m, u
  <2>3. m * u > n * u
    BY <2>1
  <2>4. TickIndex' > TickIndex
    BY <2>2, <2>3
  <2>5. Schedule!Advance
    BY <1>5, <2>4 DEF Schedule!Advance
  <2> QED
    BY <1>5, <2>5 DEF Schedule!Next
<1> QED
  BY <1>2, <1>5, <1>6, <1>7

LEMMA TickShown ==
  ASSUME Scheduled, History, Tick, Timely', Sound'
  PROVE  Aged' /\ Calm' /\ (Schedule!Next \/ Same)
<1>1. /\ left \in Int /\ cyc = 0 /\ left <= 0 /\ cmax \in CycleMaxes /\ Sound /\ Paced /\ Aged
      /\ Calm /\ mode = "idle" /\ passes = <<>> /\ passes' = <<>> /\ Current = Nobody
      /\ Current' = Nobody
  <2>1. mode = "idle" /\ passes' = passes
    BY DEF Tick, TIMER_AddTick, AdjustCycles
  <2>2. passes = <<>>
    BY <2>1 DEF Scheduled, Paced
  <2> QED
    BY <2>1, <2>2, NobodyServed DEF Scheduled, Sound, Typed, Paced
<1>2. cmax \in Nat \ {0} /\ U \div cmax \in Nat \ {0} /\ cmax * (U \div cmax) = U /\ U \in Nat \ {0}
  BY <1>1, SpeedsAre
<1>3. TickIndex = (cmax - left) * (U \div cmax) /\ TickIndex >= U /\ TickIndex \in Int
  <2> DEFINE u == U \div cmax
             n == cmax - left
  <2>1. n \in Int /\ n >= cmax
    BY <1>1, <1>2
  <2>2. TickIndex = n * u
    BY <1>1, <1>2 DEF TickIndex, TickIndexND
  <2> HIDE DEF n, u
  <2>3. n * u >= cmax * u /\ n * u \in Int
    BY <1>2, <2>1 DEF u
  <2> QED
    BY <1>2, <2>2, <2>3 DEF n, u
<1>4. CASE TIMER_AddTick
  <2>1. /\ left' = left + cmax + cyc /\ cyc' = 0 /\ cmax' = cmax /\ queue' = queue
        /\ mode' = "loop" /\ entry' \in [Entries -> Entry]
        /\ \A e \in ToSet(queue) : entry'[e].index = entry[e].index - U
    BY <1>1, <1>4, Ticked DEF TIMER_AddTick
  <2>2. \A e \in Entries : <<entry'[e].handler, entry'[e].value>> = Task(e)
    <3>1. \A e \in Entries : /\ entry'[e] = IF Contains(queue, e)
                                              THEN [entry[e] EXCEPT !.index = @ - U]
                                              ELSE entry[e]
                             /\ entry[e] \in Entry
      BY <1>1, <1>4 DEF TIMER_AddTick, Sound, Typed
    <3> QED
      BY <3>1 DEF Task, Entry
  <2>3. ToSet(queue) \subseteq Entries /\ \A e \in Entries : entry[e].index \in Int
    BY <1>1, QueuedIndex
  <2>4. Aged' /\ arrivals' = arrivals
    <3>1. \A a, b \in ToSet(queue) :
            entry'[a].index = entry'[b].index => entry[a].index = entry[b].index
      BY <1>2, <2>1, <2>3
    <3> QED
      BY <1>1, <2>1, <3>1, HistoryStays
  <2>5. Calm'
    <3>1. \A e \in Entries : <<entry'[e].handler, entry'[e].value>> \in Tasks
      BY <1>1, <2>2 DEF Calm
    <3> QED
      BY <2>1, <3>1 DEF Calm, Serving, Task, Tasks
  <2>6. TickIndex' = TickIndex - U
    <3> DEFINE u == U \div cmax
               t == TickIndex'
    <3>1. t = (cmax - (left + cmax + 0) - 0) * u
      BY <1>1, <2>1 DEF TickIndex, TickIndexND
    <3>2. TickIndex = (cmax - left) * u /\ U = cmax * u
      BY <1>2, <1>3
    <3> HIDE DEF u, t
    <3>3. u \in Nat
      BY <1>2 DEF u
    <3>4. t = TickIndex - U
      BY <1>1, <1>2, <3>1, <3>2, <3>3
    <3> QED
      BY <3>4 DEF t
  <2>7. Waiting' = [i \in DOMAIN Waiting |-> [Waiting[i] EXCEPT !.at = @ - U]]
    <3> DEFINE n == Len(arrivals)
               new == entry'
    <3>1. /\ arrivals \in Seq(Entries) /\ ToSet(arrivals) = ToSet(queue)
          /\ DOMAIN arrivals = 1 .. n /\ \A i \in 1 .. n : arrivals[i] \in ToSet(queue)
      BY <1>1, ElementsAre DEF Aged
    <3>2. /\ DOMAIN Waiting = 1 .. n
          /\ \A i \in 1 .. n : Waiting[i] = Occurs(entry, arrivals[i])
      BY <3>1, WaitingIs DEF Shown
    <3>3. Waiting' = [i \in 1 .. n |-> Occurs(new, arrivals[i])]
      BY <2>4, <3>1, WaitingIs DEF Shown
    <3>4. /\ \A e \in ToSet(queue) : new[e].index = entry[e].index - U
          /\ \A e \in Entries : <<new[e].handler, new[e].value>> = Task(e)
      BY <2>1, <2>2
    <3> HIDE DEF n, new
    <3>5. \A i \in 1 .. n : Occurs(new, arrivals[i]) = [Waiting[i] EXCEPT !.at = @ - U]
      <4> TAKE i \in 1 .. n
      <4> DEFINE e == arrivals[i]
      <4>1. e \in ToSet(queue) /\ e \in Entries
        BY <2>3, <3>1
      <4>2. Waiting[i] = [at |-> entry[e].index, task |-> Task(e)]
        BY <3>2 DEF Occurs, Task
      <4>3. Occurs(new, e) = [at |-> entry[e].index - U, task |-> Task(e)]
        BY <3>4, <4>1 DEF Occurs
      <4> HIDE DEF e
      <4>4. [Waiting[i] EXCEPT !.at = @ - U] = [at |-> entry[e].index - U, task |-> Task(e)]
        BY <4>2
      <4> QED
        BY <4>3, <4>4 DEF e
    <3> QED
      BY <3>2, <3>3, <3>5
  <2>8. Schedule!Tick
    BY <1>1, <1>3, <2>6, <2>7 DEF Schedule!Tick
  <2> QED
    BY <2>4, <2>5, <2>8 DEF Schedule!Next
<1>5. ASSUME NEW c \in CycleMaxes, AdjustCycles(c)
      PROVE  Aged' /\ Calm' /\ (Schedule!Next \/ Same)
  <2>1. /\ UNCHANGED <<entry, queue, passes, left, cyc>> /\ cmax' = c /\ mode' = "idle"
    BY <1>5 DEF AdjustCycles, lists
  <2>2. left' \in Int /\ cyc' \in Int /\ cmax' \in CycleMaxes /\ mode' \notin {"trap", "serve"}
    BY <1>1, <2>1
  <2>3. /\ Aged' /\ Calm' /\ Waiting' = Waiting
        /\ TickIndex' \in Int /\ Schedule!InTime(TickIndex')
        /\ TickIndex' = (cmax' - left' - cyc') * (U \div cmax')
    BY <1>1, <2>1, <2>2, StaysInTime
  <2>4. TickIndex' >= U
    <3> DEFINE u == U \div c
               n == c - left
    <3>1. c \in Nat \ {0} /\ u \in Nat \ {0} /\ c * u = U
      BY SpeedsAre
    <3>2. n \in Int /\ n >= c
      BY <1>1, <3>1
    <3>3. TickIndex' = n * u
      BY <1>1, <2>1, <2>3, <3>1
    <3> HIDE DEF n, u
    <3>4. n * u >= c * u
      BY <3>1, <3>2
    <3> QED
      BY <3>1, <3>3, <3>4
  <2>5. Schedule!Rescale
    BY <1>1, <1>3, <2>3, <2>4 DEF Schedule!Rescale
  <2> QED
    BY <2>3, <2>5 DEF Schedule!Next
<1> QED
  BY <1>4, <1>5 DEF Tick
-----------------------------------------------------------------------------
(***************************************************************************)
(* The event queue implements EventSchedule: whatever devices and handlers *)
(* queue and remove, each event is served once, not before its time, less  *)
(* than the longest instruction late, in the order of their times and of   *)
(* their arrival.  Nothing disturbs the clock and no handler runs the      *)
(* emulator loop: a single step turns time back, and the others make       *)
(* events late.                                                            *)
(***************************************************************************)
THEOREM ScheduleKept ==
  ASSUME Idlers = {}, Disturbances = {}
  PROVE  HSpec => KeepsSchedule
<1>1. HInit => Scheduled /\ Schedule!Init
  <2> SUFFICES ASSUME HInit PROVE Scheduled /\ Schedule!Init
    OBVIOUS
  <2>1. /\ Init /\ arrivals = <<>> /\ queue = <<>> /\ passes = <<>> /\ mode = "loop"
        /\ inService = FALSE /\ left = cmax /\ cyc = 0 /\ cmax \in CycleMaxes
        /\ entry = [e \in Entries |-> [index |-> 0, handler |-> IrqCheck, value |-> 0]]
    BY DEF HInit, Init
  <2>2. cmax \in Nat \ {0} /\ MaxInsn \in Nat \ {0} /\ U \div cmax \in Nat \ {0}
    BY <2>1, SpeedsAre
  <2>3. Sound
    BY <2>1, SoundInit
  <2>4. Paced /\ Granting
    BY <2>1 DEF Paced, Granting
  <2>5. Timely
    <3>1. Over < MaxInsn
      BY <2>1, <2>2 DEF Over
    <3> QED
      BY <2>1, <3>1 DEF Timely, ToSet
  <2>6. Aged
    BY <2>1 DEF Aged, Once, ToSet
  <2>7. Calm
    BY <2>1 DEF Calm, Serving, Task, Tasks
  <2>8. Waiting = <<>> /\ Current = Nobody /\ TickIndex = 0
    <3>1. Waiting = <<>>
      BY <2>1 DEF Waiting
    <3>2. Current = Nobody
      BY <2>1, NobodyServed
    <3>3. TickIndexND = 0
      BY <2>1, <2>2 DEF TickIndexND
    <3> QED
      BY <2>2, <3>1, <3>2, <3>3 DEF TickIndex
  <2> QED
    BY <2>3, <2>4, <2>5, <2>6, <2>7, <2>8 DEF Scheduled, Schedule!Init
<1>2. Scheduled /\ [HNext]_hvars => Scheduled' /\ [Schedule!Next]_(Schedule!svars)
  <2> SUFFICES ASSUME Scheduled, [HNext]_hvars
               PROVE  Scheduled' /\ (Schedule!Next \/ Same)
    BY DEF Same, Schedule!svars
  <2>1. [Next]_vars /\ Sound /\ Paced /\ Granting /\ Timely
    BY DEF HNext, hvars, Scheduled
  <2>2. Sound' /\ Paced' /\ Granting' /\ Timely'
    BY <2>1, SoundStep, PacedStep, GrantingStep, TimelyStep
  <2>3. Aged' /\ Calm' /\ (Schedule!Next \/ Same)
    <3>1. CASE HNext
      <4>1. History /\ Next
        BY <3>1 DEF HNext, History
      <4>2. ~CALLBACK_Idle /\ ~IdleReturns
        BY <2>1 DEF CALLBACK_Idle, IdleReturns, Paced
      <4>3. ~Disturb
        BY DEF Disturb, Change_Config, ForfeitTick, BeginTrap, EndTrap, Scheduled, Calm
      <4>4. Device \/ RunQueue \/ Cpu \/ Tick
        BY <4>1, <4>2, <4>3 DEF Next
      <4> QED
        BY <2>2, <4>1, <4>4, DeviceShown, RunQueueShown, CpuShown, TickShown
    <3>2. CASE UNCHANGED hvars
      <4>1. UNCHANGED <<entry, queue, passes, srv_lag, left, cyc, cmax, mode, arrivals>>
        BY <3>2 DEF hvars, vars
      <4>2. Aged'
        <5>1. Aged
          BY DEF Scheduled
        <5>2. UNCHANGED <<entry, queue, arrivals>>
          BY <4>1
        <5> QED
          BY <5>1, <5>2, Zenon DEF Aged
      <4>3. Calm'
        BY <4>1 DEF Scheduled, Calm, Serving, Top, Task, Tasks
      <4>4. Same
        BY <4>1 DEF Same, Waiting, Current, Event, Task, InService, Top, TickIndex, TickIndexND
      <4> QED
        BY <4>2, <4>3, <4>4
    <3> QED
      BY <3>1, <3>2
  <2> QED
    BY <2>2, <2>3 DEF Scheduled
<1> QED
  BY <1>1, <1>2, PTL DEF HSpec, KeepsSchedule, Schedule!Spec
=============================================================================
