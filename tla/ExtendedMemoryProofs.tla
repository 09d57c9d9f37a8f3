------------------------ MODULE ExtendedMemoryProofs ------------------------
(***************************************************************************)
(* Theorems about extended memory, for any number of pages and handles and *)
(* every order in which programs allocate, resize and free: pages have one *)
(* owner, keep their contents and are never lost.                          *)
(*                                                                         *)
(* Assumed are, if there are EMS handles, a word that is not 0 behind the  *)
(* table, where the walk over free pages would else go on, and programs    *)
(* that use an XMS block of no size only where its page is still free and  *)
(* the drivers' treatment of it as a block of one page does no harm.       *)
(***************************************************************************)
EXTENDS ExtendedMemory, FiniteSetTheorems, SequenceTheorems, WellFoundedInduction, TLAPS

(***************************************************************************)
(* Numbers.                                                                *)
(***************************************************************************)
LEMMA LeastNat ==
  ASSUME NEW T, T \subseteq Nat, T # {}
  PROVE  \E i \in T : \A j \in T : i <= j
<1>1. PICK i \in T : \A j \in T : ~(<<j, i>> \in OpToRel(<, Nat))
  BY NatLessThanWellFounded, WFMin
<1>2. ASSUME NEW j \in T PROVE i <= j
  <2>1. <<j, i>> \in Nat \X Nat
    OBVIOUS
  <2>2. ~ (j < i)
    BY <1>1, <2>1 DEF OpToRel
  <2> QED
    BY <2>2
<1> QED
  BY <1>2

LEMMA NatSets ==
  ASSUME NEW T, 0 \in T, \A n \in Nat : n \in T => n + 1 \in T
  PROVE  Nat \subseteq T
<1> DEFINE Bad == Nat \ T
<1> SUFFICES ASSUME Bad # {} PROVE FALSE
  OBVIOUS
<1>1. PICK i \in Bad : \A j \in Bad : i <= j
  BY LeastNat
<1>2. i - 1 \in Nat /\ i - 1 \notin Bad
  BY <1>1
<1>3. i - 1 + 1 \in T
  BY <1>2
<1> QED
  BY <1>1, <1>3

LEMMA GreatestNat ==
  ASSUME NEW b \in Nat, NEW T, T \subseteq 0 .. b, T # {}
  PROVE  \E i \in T : \A j \in T : j <= i
<1> DEFINE U == {b - i : i \in T}
<1>1. U \subseteq Nat /\ U # {}
  <2>1. \A i \in T : b - i \in Nat
    OBVIOUS
  <2> QED
    BY <2>1
<1>2. PICK u \in U : \A v \in U : u <= v
  <2> HIDE DEF U
  <2> QED
    BY <1>1, LeastNat
<1>3. PICK i \in T : u = b - i
  OBVIOUS
<1>4. ASSUME NEW j \in T PROVE j <= i
  <2>1. b - j \in U
    OBVIOUS
  <2>2. b - i <= b - j /\ i \in 0 .. b /\ j \in 0 .. b
    BY <1>2, <1>3, <2>1
  <2> QED
    BY <2>2
<1> QED
  BY <1>4

LEMMA MinIs ==
  ASSUME NEW T, T \subseteq Nat, T # {}
  PROVE  Min(T) \in T /\ \A j \in T : Min(T) <= j
<1>1. \E i \in T : \A j \in T : i <= j
  BY LeastNat
<1>2. Min(T) = CHOOSE i \in T : \A j \in T : i <= j
  BY DEF Min
<1> QED
  BY <1>1, <1>2

(***************************************************************************)
(* Tables and the blocks that are linked in them.                          *)
(***************************************************************************)
Tables ==
  {t \in [Words -> {LastPage, FreePage} \cup Memory] :
     Past = 0 => \A w \in Words : w \notin Memory => t[w] # FreePage}

Once(s) == \A i, j \in 1 .. Len(s) : s[i] = s[j] => i = j

PagesIn(s) == {s[i] : i \in 1 .. Len(s)}

IsBlock(t, s) ==
  /\ s \in Seq(Memory) /\ s # <<>> /\ Once(s)
  /\ \A i \in 1 .. Len(s) - 1 : t[s[i]] = s[i + 1]
  /\ t[s[Len(s)]] = LastPage

LEMMA OnceFits ==
  ASSUME NEW s \in Seq(Memory), Once(s)
  PROVE  Len(s) <= Pages /\ Cardinality(PagesIn(s)) = Len(s) /\ IsFiniteSet(PagesIn(s))
<1>1. s \in [1 .. Len(s) -> Memory] /\ Len(s) \in Nat /\ 1 \in Int /\ Pages \in Int
  BY PagesAssumption
<1> DEFINE n == Len(s)
<1>2. /\ IsFiniteSet(1 .. n) /\ Cardinality(1 .. n) = n
      /\ IsFiniteSet(Memory) /\ Cardinality(Memory) = Pages
  <2>1. n \in Int /\ Pages \in Int /\ 1 \in Int /\ ~(1 > Pages) /\ (1 > n => n = 0)
    BY <1>1, PagesAssumption
  <2> HIDE DEF n
  <2>2. IsFiniteSet(1 .. n) /\ Cardinality(1 .. n) = IF 1 > n THEN 0 ELSE n - 1 + 1
    BY <2>1, FS_Interval, Zenon
  <2>3. IsFiniteSet(1 .. Pages) /\ Cardinality(1 .. Pages) = IF 1 > Pages THEN 0 ELSE Pages - 1 + 1
    BY <2>1, FS_Interval, Zenon
  <2> QED
    BY <2>1, <2>2, <2>3 DEF Memory
<1>3. s \in Bijection(1 .. n, PagesIn(s))
  <2>1. s \in [1 .. n -> PagesIn(s)]
    BY <1>1 DEF PagesIn
  <2>2. \A e \in PagesIn(s) : \E i \in 1 .. n : s[i] = e
    BY DEF PagesIn
  <2>3. \A i, j \in 1 .. n : s[i] = s[j] => i = j
    BY DEF Once
  <2> HIDE DEF n
  <2> QED
    BY <2>1, <2>2, <2>3 DEF Bijection, Injection, Surjection, IsInjective
<1>4. Cardinality(PagesIn(s)) = n /\ IsFiniteSet(PagesIn(s))
  BY <1>2, <1>3, FS_Bijection DEF ExistsBijection
<1>5. PagesIn(s) \subseteq Memory
  BY <1>1 DEF PagesIn
<1>6. Cardinality(PagesIn(s)) <= Cardinality(Memory)
  BY <1>2, <1>5, FS_Subset
<1> QED
  BY <1>2, <1>4, <1>6

(***************************************************************************)
(* What MEM_NextHandle's walk finds: PagesOf is defined by a recursive     *)
(* function, of which any function that meets its equation is an instance. *)
(***************************************************************************)
FoundBy(t, handle, n, s) ==
  IF n = 0 THEN IF handle > 0 THEN <<handle>> ELSE <<>>
  ELSE IF Len(s) = n /\ t[s[n]] > 0 THEN Append(s, t[s[n]]) ELSE s

Walks(t, handle, f) == f = [n \in 0 .. Pages + Past |-> FoundBy(t, handle, n, f[n - 1])]

LEMMA WalksAre ==
  ASSUME NEW t, NEW handle, NEW f, Walks(t, handle, f), NEW n \in 0 .. Pages + Past
  PROVE  f[n] = FoundBy(t, handle, n, f[n - 1])
<1> DEFINE v(i) == FoundBy(t, handle, i, f[i - 1])
<1>1. f = [i \in 0 .. Pages + Past |-> v(i)]
  BY DEF Walks
<1> HIDE DEF v
<1>2. f[n] = v(n)
  BY <1>1
<1> QED
  BY <1>2 DEF v

LEMMA PagesOfIs ==
  ASSUME NEW t, NEW handle, NEW g,
         Walks(t, handle, g)
  PROVE  PagesOf(t, handle) = g[Pages + Past]
<1> DEFINE f == CHOOSE h : Walks(t, handle, h)
           Ms == {m \in Nat : m <= Pages + Past => f[m] = g[m]}
<1>1. PagesOf(t, handle) = f[Pages + Past]
  BY Zenon DEF PagesOf, FoundBy, Walks
<1>2. Walks(t, handle, f)
  BY Zenon
<1> HIDE DEF f
<1>3. 0 \in Ms
  <2>1. 0 \in 0 .. Pages + Past
    BY PagesAssumption
  <2>2. f[0] = FoundBy(t, handle, 0, f[0 - 1]) /\ g[0] = FoundBy(t, handle, 0, g[0 - 1])
    BY <1>2, <2>1, WalksAre, Zenon
  <2>3. f[0] = g[0]
    BY <2>2 DEF FoundBy
  <2> QED
    BY <2>3
<1>4. ASSUME NEW m \in Nat, m \in Ms PROVE m + 1 \in Ms
  <2> SUFFICES ASSUME m + 1 <= Pages + Past PROVE f[m + 1] = g[m + 1]
    OBVIOUS
  <2>1. f[m] = g[m] /\ m + 1 \in 0 .. Pages + Past /\ m + 1 # 0 /\ (m + 1) - 1 = m
    BY <1>4, PagesAssumption
  <2>2. /\ f[m + 1] = FoundBy(t, handle, m + 1, f[(m + 1) - 1])
        /\ g[m + 1] = FoundBy(t, handle, m + 1, g[(m + 1) - 1])
    BY <1>2, <2>1, WalksAre, Zenon
  <2>3. FoundBy(t, handle, m + 1, f[(m + 1) - 1]) = FoundBy(t, handle, m + 1, g[(m + 1) - 1])
    BY <2>1, Zenon
  <2> QED
    BY <2>2, <2>3, Zenon
<1>5. Nat \subseteq Ms
  <2> HIDE DEF Ms
  <2> QED
    BY <1>3, <1>4, NatSets, Zenon
<1>6. Pages + Past \in Nat
  BY PagesAssumption
<1> QED
  BY <1>1, <1>5, <1>6

LEMMA PagesOfNone ==
  ASSUME NEW t, NEW handle \in {LastPage, None}
  PROVE  PagesOf(t, handle) = <<>>
<1> DEFINE g == [n \in 0 .. Pages + Past |-> <<>>]
<1>1. Walks(t, handle, g)
  <2>1. ASSUME NEW n \in 0 .. Pages + Past PROVE FoundBy(t, handle, n, g[n - 1]) = <<>>
    <3>1. CASE n = 0
      BY <3>1 DEF FoundBy, LastPage, None
    <3>2. CASE n # 0
      <4>1. n - 1 \in 0 .. Pages + Past
        BY <3>2, PagesAssumption
      <4>2. g[n - 1] = <<>> /\ Len(<<>>) # n
        BY <3>2, <4>1
      <4> QED
        BY <3>2, <4>2 DEF FoundBy
    <3> QED
      BY <3>1, <3>2
  <2> QED
    BY <2>1 DEF Walks
<1>2. g[Pages + Past] = <<>>
  BY PagesAssumption
<1> HIDE DEF g
<1> QED
  BY <1>1, <1>2, PagesOfIs, Zenon

(* A page that is free is taken for a block of one page.                   *)
LEMMA PagesOfFree ==
  ASSUME NEW t, NEW p \in Memory, t[p] = FreePage
  PROVE  PagesOf(t, p) = <<p>>
<1> DEFINE g == [n \in 0 .. Pages + Past |-> <<p>>]
<1>1. Walks(t, p, g)
  <2>1. ASSUME NEW n \in 0 .. Pages + Past PROVE FoundBy(t, p, n, g[n - 1]) = <<p>>
    <3>1. CASE n = 0
      BY <3>1 DEF FoundBy, Memory
    <3>2. CASE n # 0
      <4>1. n - 1 \in 0 .. Pages + Past
        BY <3>2, PagesAssumption
      <4>2. g[n - 1] = <<p>>
        BY <4>1
      <4>3. ~(Len(<<p>>) = n /\ t[<<p>>[n]] > 0)
        <5>1. Len(<<p>>) = 1 /\ <<p>>[1] = p /\ ~(FreePage > 0)
          BY DEF FreePage
        <5> QED
          BY <5>1
      <4> QED
        BY <3>2, <4>2, <4>3 DEF FoundBy
    <3> QED
      BY <3>1, <3>2
  <2> QED
    BY <2>1 DEF Walks
<1>2. g[Pages + Past] = <<p>>
  BY PagesAssumption
<1> HIDE DEF g
<1> QED
  BY <1>1, <1>2, PagesOfIs, Zenon

LEMMA PagesOfBlock ==
  ASSUME NEW t, NEW s, IsBlock(t, s)
  PROVE  PagesOf(t, s[1]) = s
<1> DEFINE l == Len(s)
           cut(n) == IF n + 1 <= l THEN n + 1 ELSE l
           g == [n \in 0 .. Pages + Past |-> SubSeq(s, 1, cut(n))]
<1>1. s \in Seq(Memory) /\ l \in Nat /\ l >= 1 /\ l <= Pages
  BY OnceFits DEF IsBlock
<1>2. \A n \in Nat : /\ cut(n) \in 1 .. l
                     /\ SubSeq(s, 1, cut(n)) \in Seq(Memory)
                     /\ Len(SubSeq(s, 1, cut(n))) = cut(n)
                     /\ \A i \in 1 .. cut(n) : SubSeq(s, 1, cut(n))[i] = s[i]
  <2> SUFFICES ASSUME NEW n \in Nat
               PROVE  /\ cut(n) \in 1 .. l
                      /\ SubSeq(s, 1, cut(n)) \in Seq(Memory)
                      /\ Len(SubSeq(s, 1, cut(n))) = cut(n)
                      /\ \A i \in 1 .. cut(n) : SubSeq(s, 1, cut(n))[i] = s[i]
    OBVIOUS
  <2>1. cut(n) \in 1 .. l
    BY <1>1
  <2> HIDE DEF cut
  <2> QED
    BY <1>1, <2>1
<1>3. \A i \in 1 .. l : s[i] \in Memory
  BY <1>1
<1>4. ASSUME NEW n \in 0 .. Pages + Past
      PROVE  FoundBy(t, s[1], n, g[n - 1]) = SubSeq(s, 1, cut(n))
  <2>1. CASE n = 0
    <3>1. s[1] > 0
      BY <1>1, <1>3 DEF Memory
    <3>2. cut(n) = 1
      BY <1>1, <2>1
    <3>3. SubSeq(s, 1, 1) = <<s[1]>>
      <4>1. SubSeq(s, 1, 1) \in Seq(Memory) /\ Len(SubSeq(s, 1, 1)) = 1 /\ SubSeq(s, 1, 1)[1] = s[1]
        BY <1>1
      <4>2. <<s[1]>> \in Seq(Memory) /\ Len(<<s[1]>>) = 1 /\ <<s[1]>>[1] = s[1]
        BY <1>1, <1>3
      <4> DEFINE a == SubSeq(s, 1, 1)
                 b == <<s[1]>>
      <4>3. a \in Seq(Memory) /\ b \in Seq(Memory) /\ Len(a) = 1 /\ Len(b) = 1 /\ a[1] = b[1]
        BY <4>1, <4>2
      <4> HIDE DEF a, b
      <4>4. a = b
        BY <4>3
      <4> QED
        BY <4>4 DEF a, b
    <3> QED
      BY <2>1, <3>1, <3>2, <3>3 DEF FoundBy
  <2>2. CASE n # 0
    <3>1. n - 1 \in 0 .. Pages + Past /\ n - 1 \in Nat /\ n \in Nat
      BY <2>2, PagesAssumption
    <3>2. g[n - 1] = SubSeq(s, 1, cut(n - 1))
      BY <3>1
    <3> DEFINE u == SubSeq(s, 1, cut(n - 1))
    <3>3. /\ u \in Seq(Memory) /\ Len(u) = cut(n - 1)
          /\ \A i \in 1 .. cut(n - 1) : u[i] = s[i]
      BY <1>2, <3>1
    <3>4. CASE n <= l
      <4>1. cut(n - 1) = n
        BY <1>1, <2>2, <3>1, <3>4
      <4>2. Len(u) = n /\ u[n] = s[n]
        BY <3>3, <4>1, <3>1, <2>2
      <4>3. CASE n = l
        <5>1. t[u[n]] = LastPage /\ cut(n) = n
          <6>1. t[s[l]] = LastPage
            BY DEF IsBlock
          <6>2. cut(n) = n
            BY <1>1, <3>1, <4>3
          <6> QED
            BY <6>1, <6>2, <4>2, <4>3, Zenon
        <5>2. ~(t[u[n]] > 0)
          BY <5>1 DEF LastPage
        <5> HIDE DEF u, g, cut
        <5>3. FoundBy(t, s[1], n, g[n - 1]) = g[n - 1]
          <6>1. g[n - 1] = u
            BY <3>2, Zenon DEF u
          <6> QED
            BY <5>2, <6>1, <2>2 DEF FoundBy
        <5> QED
          BY <5>1, <5>3, <3>2, <4>1
      <4>4. CASE n < l
        <5>1. t[u[n]] = s[n + 1] /\ cut(n) = n + 1 /\ s[n + 1] \in Memory
          BY <1>1, <1>3, <2>2, <3>1, <4>2, <4>4 DEF IsBlock
        <5>2. t[u[n]] > 0
          BY <5>1 DEF Memory
        <5>3. Append(u, s[n + 1]) = SubSeq(s, 1, n + 1)
          <6>1. u = SubSeq(s, 1, n)
            BY <4>1, Zenon
          <6> QED
            BY <6>1, <1>1, <3>1, <4>4
        <5>4. FoundBy(t, s[1], n, g[n - 1]) = Append(u, t[u[n]])
          BY <5>2, <4>2, <2>2, <3>2, Zenon DEF FoundBy
        <5> QED
          BY <5>1, <5>3, <5>4, Zenon
      <4> QED
        BY <1>1, <3>1, <3>4, <4>3, <4>4
    <3>5. CASE n > l
      <4>1. cut(n - 1) = l /\ cut(n) = l
        BY <1>1, <3>1, <3>5
      <4>2. Len(u) # n
        BY <3>3, <3>5, <4>1, <1>1, <3>1
      <4> HIDE DEF u, g, cut
      <4>3. FoundBy(t, s[1], n, g[n - 1]) = g[n - 1]
        <5>1. g[n - 1] = u
          BY <3>2, Zenon DEF u
        <5> QED
          BY <5>1, <4>2, <2>2 DEF FoundBy
      <4> QED
        BY <4>1, <4>3, <3>2
    <3> QED
      BY <1>1, <3>1, <3>4, <3>5
  <2> QED
    BY <2>1, <2>2
<1>5. Walks(t, s[1], g)
  <2> DEFINE u(n) == SubSeq(s, 1, cut(n))
             v(n) == FoundBy(t, s[1], n, g[n - 1])
  <2>1. \A n \in 0 .. Pages + Past : u(n) = v(n)
    BY <1>4
  <2>2. g = [n \in 0 .. Pages + Past |-> u(n)]
    OBVIOUS
  <2> SUFFICES g = [n \in 0 .. Pages + Past |-> v(n)]
    BY DEF Walks
  <2> HIDE DEF g, u, v
  <2> QED
    BY <2>1, <2>2
<1>6. g[Pages + Past] = s
  <2>1. Pages + Past \in 0 .. Pages + Past /\ cut(Pages + Past) = l
    BY <1>1, PagesAssumption
  <2>2. SubSeq(s, 1, l) = s
    BY <1>1
  <2> QED
    BY <2>1, <2>2
<1> HIDE DEF g
<1> QED
  BY <1>5, <1>6, PagesOfIs, Zenon

(***************************************************************************)
(* The search for free pages.                                              *)
(***************************************************************************)
LEMMA RunsAre ==
  ASSUME NEW t, NEW r \in Runs(t)
  PROVE  /\ r[1] \in Memory /\ r[2] \in Nat
         /\ r[1] .. r[1] + r[2] - 1 \subseteq FreePages(t)
<1>1. PICK q \in Memory \X Memory :
        /\ q[1] <= q[2] /\ q[1] .. q[2] \subseteq FreePages(t)
        /\ r = <<q[1], q[2] - q[1] + 1>>
  BY Zenon DEF Runs
<1>2. q[1] \in Memory /\ q[2] \in Memory /\ r[1] = q[1] /\ r[2] = q[2] - q[1] + 1
  BY <1>1
<1>3. q[1] \in Int /\ q[2] \in Int
  BY <1>2 DEF Memory
<1>4. r[1] + r[2] - 1 = q[2] /\ r[2] \in Nat
  BY <1>1, <1>2, <1>3
<1> QED
  BY <1>1, <1>2, <1>4

(* Every free page lies in a run.                                          *)
LEMMA FreeInRun ==
  ASSUME NEW t, NEW p \in FreePages(t)
  PROVE  \E r \in Runs(t) : r[2] >= 1
<1> DEFINE Down == {a \in Memory : a <= p /\ a .. p \subseteq FreePages(t)}
           Up   == {b \in Memory : p <= b /\ p .. b \subseteq FreePages(t)}
<1>1. p \in Memory /\ p \in Nat /\ p .. p = {p}
  BY DEF FreePages, Memory
<1>2. Down \subseteq Nat /\ p \in Down /\ Up \subseteq 0 .. Pages /\ p \in Up
  BY <1>1, PagesAssumption DEF Memory
<1>3. PICK a \in Down : \A d \in Down : a <= d
  <2> HIDE DEF Down
  <2> QED
    BY <1>2, LeastNat
<1>4. PICK b \in Up : \A u \in Up : u <= b
  <2> HIDE DEF Up
  <2> QED
    BY <1>2, GreatestNat, PagesAssumption
<1>5. a \in Int /\ b \in Int /\ p \in Int /\ a <= p /\ p <= b /\ a >= 1 /\ b <= Pages
  BY <1>1 DEF Memory
<1>6. a .. b \subseteq FreePages(t)
  <2>1. a .. b = (a .. p) \cup (p .. b)
    BY <1>5
  <2> QED
    BY <2>1
<1>7. a - 1 \notin FreePages(t)
  <2> SUFFICES ASSUME a - 1 \in FreePages(t) PROVE FALSE
    OBVIOUS
  <2>1. (a - 1) .. p = {a - 1} \cup (a .. p) /\ a - 1 <= p
    BY <1>5
  <2>2. a - 1 \in Memory
    BY DEF FreePages
  <2>3. a - 1 \in Down
    BY <2>1, <2>2
  <2>4. a <= a - 1
    BY <1>3, <2>3
  <2> QED
    BY <1>5, <2>4
<1>8. b + 1 \notin FreePages(t)
  <2> SUFFICES ASSUME b + 1 \in FreePages(t) PROVE FALSE
    OBVIOUS
  <2>1. p .. (b + 1) = {b + 1} \cup (p .. b) /\ p <= b + 1
    BY <1>5
  <2>2. b + 1 \in Memory
    BY DEF FreePages
  <2>3. b + 1 \in Up
    BY <2>1, <2>2
  <2>4. b + 1 <= b
    BY <1>4, <2>3
  <2> QED
    BY <1>5, <2>4
<1> DEFINE q == <<a, b>>
           r == <<a, b - a + 1>>
<1>9. r \in Runs(t)
  <2>1. q \in Memory \X Memory /\ q[1] = a /\ q[2] = b
    BY <1>3, <1>4
  <2>2. q[1] <= q[2] /\ q[1] .. q[2] \subseteq FreePages(t)
    BY <2>1, <1>5, <1>6
  <2>3. {q[1] - 1, q[2] + 1} \cap FreePages(t) = {}
    BY <2>1, <1>7, <1>8
  <2>4. r = <<q[1], q[2] - q[1] + 1>>
    BY <2>1
  <2> HIDE DEF q, r
  <2> QED
    BY <2>1, <2>2, <2>3, <2>4, Zenon DEF Runs
<1>10. r[2] >= 1
  BY <1>5
<1> HIDE DEF r
<1> QED
  BY <1>9, <1>10

(* What BestMatch finds is free; a free page is always found.              *)
LEMMA BestMatchIs ==
  ASSUME NEW t, NEW size \in Nat \ {0}
  PROVE  /\ BestMatch(t, size) # None =>
              /\ BestMatch(t, size) \in Memory
              /\ BestMatch(t, size) .. BestMatch(t, size) + size - 1 \subseteq FreePages(t)
         /\ size = 1 /\ FreePages(t) # {} => BestMatch(t, size) # None
<1> DEFINE fit  == {r \in Runs(t) : r[2] >= size}
           best == {q \in fit : \A o \in fit : q[2] <= o[2]}
           begin == {r[1] : r \in best}
           a == BestMatch(t, size)
<1>1. a = IF fit = {} THEN None ELSE Min(begin)
  BY Zenon DEF BestMatch
<1>2. ASSUME fit # {} PROVE a \in begin
  <2> DEFINE lens == {r[2] : r \in fit}
  <2>1. lens \subseteq Nat /\ lens # {}
    BY <1>2, RunsAre
  <2>2. PICK l \in lens : \A m \in lens : l <= m
    <3> HIDE DEF lens
    <3> QED
      BY <2>1, LeastNat
  <2>3. PICK q \in fit : q[2] = l
    OBVIOUS
  <2>4. q \in best
    BY <2>2, <2>3
  <2>5. begin \subseteq Nat
    BY RunsAre DEF Memory
  <2>6. q[1] \in begin
    BY <2>4
  <2> HIDE DEF fit, begin
  <2> QED
    BY <1>1, <1>2, <2>5, <2>6, MinIs
<1>3. ASSUME a # None
      PROVE  a \in Memory /\ a .. a + size - 1 \subseteq FreePages(t)
  <2>1. PICK r \in fit : a = r[1]
    BY <1>1, <1>2, <1>3
  <2>2. a \in Memory /\ r[2] \in Nat /\ r[2] >= size /\ a .. a + r[2] - 1 \subseteq FreePages(t)
    BY <2>1, RunsAre
  <2>3. a \in Int
    BY <2>2 DEF Memory
  <2> HIDE DEF a
  <2>4. a .. a + size - 1 \subseteq a .. a + r[2] - 1
    BY <2>2, <2>3
  <2> QED
    BY <2>2, <2>4
<1>4. ASSUME size = 1, FreePages(t) # {} PROVE a # None
  <2>1. fit # {}
    BY <1>4, FreeInRun
  <2>2. a \in Memory
    BY <1>2, <2>1, RunsAre
  <2> QED
    BY <2>2 DEF Memory, None
<1> QED
  BY <1>3, <1>4

(* What the walk over free words takes, if it must end with the table, or  *)
(* after a page.                                                           *)
LEMMA WalkIs ==
  ASSUME NEW t \in Tables, NEW from \in FreePages(t), NEW n \in Nat \ {0}, Past = 0 \/ n = 1
  PROVE  /\ Walk(t, from, n) \in Seq(Memory) /\ Once(Walk(t, from, n))
         /\ Len(Walk(t, from, n)) \in 1 .. n
         /\ PagesIn(Walk(t, from, n)) \subseteq FreePages(t)
<1> DEFINE S    == {w \in Words : w >= from /\ t[w] # FreePage} \cup {from + n}
           stop == Min(S)
           k    == stop - from
<1>1. /\ Words = 1 .. Pages + Past + 1 /\ Past \in Nat
      /\ from \in Memory /\ from \in Nat /\ t[from] = FreePage
  BY PagesAssumption DEF Words, FreePages, Memory
<1>2. S \subseteq Nat /\ from + n \in S
  BY <1>1
<1>3. stop \in S /\ \A w \in S : stop <= w
  <2> HIDE DEF S
  <2> QED
    BY <1>2, MinIs
<1>4. stop \in Nat /\ stop > from /\ stop <= from + n
  BY <1>1, <1>2, <1>3
<1>5. \A w \in from .. stop - 1 : w \in FreePages(t)
  <2> SUFFICES ASSUME NEW w \in from .. stop - 1 PROVE w \in FreePages(t)
    OBVIOUS
  <2>1. w \in Nat /\ from <= w /\ w < stop /\ w >= 1
    BY <1>1, <1>4 DEF Memory
  <2>2. w \notin S
    <3> HIDE DEF stop, S
    <3>1. w \in S => stop <= w
      BY <1>3
    <3> QED
      BY <1>4, <2>1, <3>1
  <2>3. w <= Pages
    <3> SUFFICES ASSUME w > Pages, Past = 0 PROVE FALSE
      <4>1. n = 1 => w = from
        BY <1>1, <1>4, <2>1
      <4> QED
        BY <1>1, <2>1, <4>1, PagesAssumption DEF Memory
    <3>1. Pages + 1 \in Words /\ Pages + 1 \notin Memory /\ Pages + 1 >= from
      BY <1>1, PagesAssumption DEF Memory
    <3>2. t[Pages + 1] # FreePage
      BY <3>1 DEF Tables
    <3>3. Pages + 1 \in S
      BY <3>1, <3>2
    <3> QED
      BY <1>3, <1>4, <2>1, <3>3, PagesAssumption
  <2>4. w \in Memory /\ w \in Words
    BY <1>1, <2>1, <2>3, PagesAssumption DEF Memory
  <2> QED
    BY <2>1, <2>2, <2>4 DEF FreePages
<1>6. Walk(t, from, n) = [i \in 1 .. k |-> from + i - 1] /\ k \in 1 .. n
  <2>1. k \in 1 .. n
    BY <1>1, <1>4
  <2> QED
    BY <2>1, Zenon DEF Walk
<1> DEFINE w == Walk(t, from, n)
<1> HIDE DEF k, w
<1>7. w = [i \in 1 .. k |-> from + i - 1] /\ k \in 1 .. n
  BY <1>6 DEF w
<1>8. \A i \in 1 .. k : /\ w[i] = from + i - 1 /\ from + i - 1 \in FreePages(t)
                        /\ from + i - 1 \in Memory
  <2> SUFFICES ASSUME NEW i \in 1 .. k PROVE from + i - 1 \in FreePages(t)
    BY <1>7 DEF FreePages
  <2>1. from + i - 1 \in from .. stop - 1
    BY <1>1, <1>4, <1>7 DEF k
  <2> QED
    BY <1>5, <2>1
<1>9. w \in [1 .. k -> Memory]
  BY <1>7, <1>8
<1>10. w \in Seq(Memory) /\ Len(w) = k
  BY <1>7, <1>9
<1>11. Once(w)
  BY <1>1, <1>8, <1>10 DEF Once
<1>12. PagesIn(w) \subseteq FreePages(t)
  BY <1>8, <1>10 DEF PagesIn
<1> QED
  BY <1>7, <1>10, <1>11, <1>12 DEF w

(***************************************************************************)
(* Linking and releasing, word for word.                                   *)
(***************************************************************************)
LEMMA LinkedIs ==
  ASSUME NEW t \in Tables, NEW s \in Seq(Memory), Once(s)
  PROVE  /\ Linked(t, s) \in Tables
         /\ \A p \in Words : p \notin PagesIn(s) => Linked(t, s)[p] = t[p]
         /\ s # <<>> => IsBlock(Linked(t, s), s)
         /\ FreePages(Linked(t, s)) = FreePages(t) \ PagesIn(s)
<1> DEFINE u == Linked(t, s)
           l == Len(s)
<1>1. /\ l \in Nat /\ \A i \in 1 .. l : s[i] \in Memory
      /\ Memory \subseteq Words /\ DOMAIN t = Words /\ Memory \subseteq Nat
      /\ t \in [Words -> {LastPage, FreePage} \cup Memory]
  <2>1. Memory \subseteq Words /\ Memory \subseteq Nat
    BY PagesAssumption DEF Memory, Words
  <2> QED
    BY <2>1 DEF Tables
<1>2. u = [p \in Words |-> IF \E i \in 1 .. l : s[i] = p
                             THEN LET i == CHOOSE i \in 1 .. l : s[i] = p
                                  IN  IF i = l THEN LastPage ELSE s[i + 1]
                             ELSE t[p]]
  BY <1>1, Zenon DEF Linked
<1>3. ASSUME NEW j \in 1 .. l
      PROVE  u[s[j]] = IF j = l THEN LastPage ELSE s[j + 1]
  <2> DEFINE i == CHOOSE i \in 1 .. l : s[i] = s[j]
  <2>1. i \in 1 .. l /\ s[i] = s[j]
    BY Zenon
  <2>2. i = j
    BY <2>1 DEF Once
  <2>3. s[j] \in Words /\ \E n \in 1 .. l : s[n] = s[j]
    BY <1>1
  <2>4. u[s[j]] = IF i = l THEN LastPage ELSE s[i + 1]
    <3> HIDE DEF l
    <3> QED
      BY <1>2, <2>3, Zenon
  <2> HIDE DEF i
  <2> QED
    BY <2>2, <2>4, Zenon
<1>4. ASSUME NEW p \in Words, p \notin PagesIn(s)
      PROVE  u[p] = t[p]
  BY <1>2, <1>4, Zenon DEF PagesIn
<1> HIDE DEF u, l
<1>5. \A p \in Words : u[p] \in {LastPage, FreePage} \cup Memory
  <2> SUFFICES ASSUME NEW p \in Words PROVE u[p] \in {LastPage, FreePage} \cup Memory
    OBVIOUS
  <2>1. CASE p \in PagesIn(s)
    <3>1. PICK j \in 1 .. l : s[j] = p
      BY <2>1 DEF PagesIn, l
    <3>2. j # l => j + 1 \in 1 .. l
      BY <1>1, <3>1
    <3> QED
      BY <1>1, <1>3, <3>1, <3>2
  <2>2. CASE p \notin PagesIn(s)
    BY <1>1, <1>4, <2>2
  <2> QED
    BY <2>1, <2>2
<1>6. u \in [Words -> {LastPage, FreePage} \cup Memory]
  <2>1. DOMAIN u = Words /\ u = [p \in Words |-> u[p]]
    BY <1>2
  <2> QED
    BY <1>5, <2>1
<1>7. PagesIn(s) \subseteq Memory
  BY <1>1 DEF PagesIn, l
<1>8. u \in Tables
  <2>1. \A w \in Words : w \notin Memory => u[w] = t[w]
    BY <1>4, <1>7
  <2> QED
    BY <1>6, <2>1 DEF Tables
<1>9. ASSUME s # <<>> PROVE IsBlock(u, s)
  <2>1. l >= 1
    BY <1>1, <1>9 DEF l
  <2>2. u[s[l]] = LastPage
    BY <1>1, <1>3, <2>1
  <2>3. \A i \in 1 .. l - 1 : u[s[i]] = s[i + 1]
    BY <1>1, <1>3
  <2> QED
    BY <1>9, <2>2, <2>3 DEF IsBlock, l
<1>10. FreePages(u) = FreePages(t) \ PagesIn(s)
  <2>1. ASSUME NEW p \in PagesIn(s) PROVE u[p] # FreePage
    <3>1. PICK j \in 1 .. l : s[j] = p
      BY DEF PagesIn, l
    <3>2. j # l => s[j + 1] \in Memory
      BY <1>1
    <3> QED
      BY <1>3, <3>1, <3>2 DEF Memory, LastPage, FreePage
  <2>2. \A p \in Memory : p \notin PagesIn(s) => u[p] = t[p]
    BY <1>1, <1>4
  <2> QED
    BY <2>1, <2>2 DEF FreePages
<1> QED
  BY <1>4, <1>8, <1>9, <1>10 DEF u

LEMMA ReleasedIs ==
  ASSUME NEW t \in Tables, NEW s, IsBlock(t, s)
  PROVE  /\ MEM_ReleasePages(t, s[1]) \in Tables
         /\ \A p \in PagesIn(s) : MEM_ReleasePages(t, s[1])[p] = FreePage
         /\ \A p \in Words : p \notin PagesIn(s) => MEM_ReleasePages(t, s[1])[p] = t[p]
<1> DEFINE u == MEM_ReleasePages(t, s[1])
<1>1. PagesOf(t, s[1]) = s
  BY PagesOfBlock
<1>2. /\ Memory \subseteq Words /\ DOMAIN t = Words /\ PagesIn(s) \subseteq Memory
      /\ t \in [Words -> {LastPage, FreePage} \cup Memory]
  <2>1. Memory \subseteq Words
    BY PagesAssumption DEF Memory, Words
  <2> QED
    BY <2>1 DEF Tables, IsBlock, PagesIn
<1>3. u = [p \in Words |-> IF \E i \in 1 .. Len(s) : s[i] = p THEN FreePage ELSE t[p]]
  BY <1>1, <1>2, Zenon DEF MEM_ReleasePages
<1>4. u = [p \in Words |-> IF p \in PagesIn(s) THEN FreePage ELSE t[p]]
  <2>1. \A p : (\E i \in 1 .. Len(s) : s[i] = p) <=> p \in PagesIn(s)
    BY DEF PagesIn
  <2> HIDE DEF u
  <2> QED
    BY <1>3, <2>1
<1> HIDE DEF u
<1>5. u \in [Words -> {LastPage, FreePage} \cup Memory]
  BY <1>2, <1>4
<1>6. \A w \in Words : w \notin Memory => u[w] = t[w]
  BY <1>2, <1>4
<1>7. u \in Tables
  BY <1>5, <1>6 DEF Tables
<1>8. \A p \in PagesIn(s) : u[p] = FreePage
  BY <1>2, <1>4
<1> QED
  BY <1>4, <1>7, <1>8 DEF u

(* A handle that is no page releases nothing.                              *)
LEMMA ReleasedNone ==
  ASSUME NEW t \in Tables, NEW handle \in {LastPage, None}
  PROVE  MEM_ReleasePages(t, handle) = t
<1> DEFINE u == MEM_ReleasePages(t, handle)
<1>1. PagesOf(t, handle) = <<>>
  BY PagesOfNone
<1>2. DOMAIN t = Words /\ t = [p \in Words |-> t[p]]
  BY DEF Tables
<1>3. u = [p \in Words |-> IF \E i \in 1 .. Len(<<>>) : <<>>[i] = p THEN FreePage ELSE t[p]]
  BY <1>1, <1>2, Zenon DEF MEM_ReleasePages
<1>4. 1 .. Len(<<>>) = {}
  OBVIOUS
<1> QED
  BY <1>2, <1>3, <1>4

(***************************************************************************)
(* Gathering pages run after run.  Each step that has not enough takes one *)
(* page at least, so there are enough steps, if there are enough pages.    *)
(***************************************************************************)
GatherBy(n, s) ==
  LET w == Walk(s.table, BestMatch(s.table, 1), n - Len(s.got))
  IN  IF Len(s.got) = n \/ BestMatch(s.table, 1) = None THEN s
      ELSE [got |-> s.got \o w, table |-> Linked(s.table, w)]

GatherStep(t, n, k, s) == IF k = 0 THEN [got |-> <<>>, table |-> t] ELSE GatherBy(n, s)

Gathers(t, n, f) == f = [k \in 0 .. Pages |-> GatherStep(t, n, k, f[k - 1])]

(* Pages taken so far, after k steps.                                      *)
Gathering(t, n, k) ==
  {s \in [got : Seq(Memory), table : Tables] :
     /\ Once(s.got) /\ PagesIn(s.got) \subseteq FreePages(t)
     /\ FreePages(s.table) = FreePages(t) \ PagesIn(s.got)
     /\ Len(s.got) <= n /\ (Len(s.got) = n \/ Len(s.got) >= k)}

LEMMA Joined ==
  ASSUME NEW s \in Seq(Memory), NEW w \in Seq(Memory), Once(s), Once(w),
         PagesIn(s) \cap PagesIn(w) = {}
  PROVE  /\ s \o w \in Seq(Memory) /\ Once(s \o w) /\ Len(s \o w) = Len(s) + Len(w)
         /\ PagesIn(s \o w) = PagesIn(s) \cup PagesIn(w)
         /\ \A i \in 1 .. Len(s) : (s \o w)[i] = s[i]
         /\ \A i \in 1 .. Len(w) : (s \o w)[Len(s) + i] = w[i]
<1> DEFINE v == s \o w
           a == Len(s)
           b == Len(w)
<1>1. /\ v \in Seq(Memory) /\ Len(v) = a + b /\ a \in Nat /\ b \in Nat
      /\ \A i \in 1 .. a : v[i] = s[i]
      /\ \A i \in 1 .. b : v[a + i] = w[i]
  OBVIOUS
<1> HIDE DEF v, a, b
<1>2. \A i \in 1 .. a + b : \/ i \in 1 .. a /\ v[i] = s[i]
                            \/ i - a \in 1 .. b /\ v[i] = w[i - a]
  <2> SUFFICES ASSUME NEW i \in 1 .. a + b, i \notin 1 .. a
               PROVE  i - a \in 1 .. b /\ v[i] = w[i - a]
    BY <1>1
  <2>1. i - a \in 1 .. b /\ a + (i - a) = i
    BY <1>1
  <2> QED
    BY <1>1, <2>1
<1>3. \A i \in 1 .. a : s[i] \in PagesIn(s)
  BY DEF PagesIn, a
<1>4. \A i \in 1 .. b : w[i] \in PagesIn(w)
  BY DEF PagesIn, b
<1>5. ASSUME NEW i \in 1 .. a + b
      PROVE  IF i \in 1 .. a THEN v[i] \in PagesIn(s) ELSE v[i] \in PagesIn(w)
  <2>1. CASE i \in 1 .. a
    BY <1>1, <1>3, <2>1
  <2>2. CASE i \notin 1 .. a
    <3>1. i - a \in 1 .. b /\ v[i] = w[i - a]
      BY <1>2, <2>2
    <3> QED
      BY <1>4, <2>2, <3>1
  <2> QED
    BY <2>1, <2>2
<1>6. Once(v)
  <2> SUFFICES ASSUME NEW i \in 1 .. a + b, NEW j \in 1 .. a + b, v[i] = v[j] PROVE i = j
    BY <1>1 DEF Once
  <2>1. CASE i \in 1 .. a /\ j \in 1 .. a
    BY <1>1, <2>1 DEF Once, a
  <2>2. CASE i \in 1 .. a /\ j \notin 1 .. a
    BY <1>5, <2>2, Zenon
  <2>3. CASE i \notin 1 .. a /\ j \in 1 .. a
    BY <1>5, <2>3, Zenon
  <2>4. CASE i \notin 1 .. a /\ j \notin 1 .. a
    <3>1. i - a \in 1 .. b /\ j - a \in 1 .. b /\ w[i - a] = w[j - a]
      BY <1>2, <2>4
    <3>2. i - a = j - a
      BY <3>1 DEF Once, b
    <3> QED
      BY <1>1, <3>2
  <2> QED
    BY <2>1, <2>2, <2>3, <2>4
<1>7. PagesIn(v) = PagesIn(s) \cup PagesIn(w)
  <2>1. PagesIn(v) \subseteq PagesIn(s) \cup PagesIn(w)
    BY <1>1, <1>5, Zenon DEF PagesIn
  <2>2. PagesIn(s) \subseteq PagesIn(v)
    <3>1. \A i \in 1 .. a : i \in 1 .. a + b
      BY <1>1
    <3> QED
      BY <1>1, <3>1 DEF PagesIn, a
  <2>3. PagesIn(w) \subseteq PagesIn(v)
    <3>1. \A i \in 1 .. b : a + i \in 1 .. a + b
      BY <1>1
    <3> QED
      BY <1>1, <3>1 DEF PagesIn, b
  <2> QED
    BY <2>1, <2>2, <2>3
<1> QED
  BY <1>1, <1>6, <1>7 DEF v, a, b

LEMMA GatherByIs ==
  ASSUME NEW t \in Tables, NEW n \in Nat \ {0}, Past = 0 \/ n = 1, n <= MEM_FreeTotal(t),
         NEW k \in Nat, NEW s \in Gathering(t, n, k)
  PROVE  GatherBy(n, s) \in Gathering(t, n, k + 1)
<1> DEFINE g    == s.got
           m    == n - Len(g)
           from == BestMatch(s.table, 1)
           w    == Walk(s.table, from, m)
<1>1. /\ g \in Seq(Memory) /\ s.table \in Tables /\ Once(g) /\ PagesIn(g) \subseteq FreePages(t)
      /\ FreePages(s.table) = FreePages(t) \ PagesIn(g)
      /\ Len(g) \in Nat /\ Len(g) <= n /\ (Len(g) = n \/ Len(g) >= k)
  BY DEF Gathering
<1>2. CASE Len(g) = n
  <2>1. GatherBy(n, s) = s
    BY <1>2, Zenon DEF GatherBy
  <2> QED
    BY <1>1, <1>2, <2>1 DEF Gathering
<1>3. CASE Len(g) # n
  <2>1. m \in Nat \ {0} /\ (Past = 0 \/ m = 1)
    BY <1>1, <1>3
  <2>2. FreePages(s.table) # {}
    <3> SUFFICES ASSUME FreePages(t) \subseteq PagesIn(g) PROVE FALSE
      BY <1>1
    <3>1. Cardinality(PagesIn(g)) = Len(g) /\ IsFiniteSet(PagesIn(g))
      BY <1>1, OnceFits
    <3>2. FreePages(t) = PagesIn(g)
      BY <1>1
    <3> QED
      BY <1>1, <1>3, <3>1, <3>2 DEF MEM_FreeTotal
  <2>3. from # None /\ from \in FreePages(s.table)
    <3>1. 1 \in Nat \ {0}
      OBVIOUS
    <3>2. from # None
      BY <2>2, <3>1, BestMatchIs, Zenon
    <3>3. from \in Memory /\ from .. from + 1 - 1 \subseteq FreePages(s.table)
      BY <3>1, <3>2, BestMatchIs, Zenon
    <3>4. from \in from .. from + 1 - 1
      BY <3>3 DEF Memory
    <3> QED
      BY <3>2, <3>3, <3>4
  <2>4. /\ w \in Seq(Memory) /\ Once(w) /\ Len(w) \in 1 .. m
        /\ PagesIn(w) \subseteq FreePages(s.table)
    <3> HIDE DEF from, m
    <3> QED
      BY <1>1, <2>1, <2>3, WalkIs
  <2> DEFINE x == [got |-> g \o w, table |-> Linked(s.table, w)]
  <2>5. GatherBy(n, s) = x
    BY <1>3, <2>3, Zenon DEF GatherBy
  <2> HIDE DEF w, m
  <2>6. /\ g \o w \in Seq(Memory) /\ Once(g \o w) /\ Len(g \o w) = Len(g) + Len(w)
        /\ PagesIn(g \o w) = PagesIn(g) \cup PagesIn(w)
    <3>1. PagesIn(g) \cap PagesIn(w) = {}
      BY <1>1, <2>4
    <3> HIDE DEF g
    <3> QED
      BY <1>1, <2>4, <3>1, Joined
  <2>7. Linked(s.table, w) \in Tables /\ FreePages(Linked(s.table, w)) = FreePages(s.table) \ PagesIn(w)
    BY <1>1, <2>4, LinkedIs
  <2>8. Len(g) + Len(w) <= n /\ (Len(g) + Len(w) = n \/ Len(g) + Len(w) >= k + 1)
    BY <1>1, <1>3, <2>1, <2>4 DEF m
  <2>9. PagesIn(g \o w) \subseteq FreePages(t)
    BY <1>1, <2>4, <2>6
  <2>10. FreePages(Linked(s.table, w)) = FreePages(t) \ PagesIn(g \o w)
    BY <1>1, <2>6, <2>7
  <2>11. /\ x \in [got : Seq(Memory), table : Tables]
         /\ x.got = g \o w /\ x.table = Linked(s.table, w)
    BY <2>6, <2>7
  <2> HIDE DEF x, g
  <2> QED
    BY <2>5, <2>6, <2>8, <2>9, <2>10, <2>11 DEF Gathering
<1> QED
  BY <1>2, <1>3

LEMMA GatheredIs ==
  ASSUME NEW t \in Tables, NEW n \in Nat \ {0}, Past = 0 \/ n = 1, n <= MEM_FreeTotal(t)
  PROVE  /\ Gathered(t, n) \in Seq(Memory) /\ Once(Gathered(t, n))
         /\ Len(Gathered(t, n)) = n
         /\ PagesIn(Gathered(t, n)) \subseteq FreePages(t)
<1> DEFINE States == [got : Seq(Memory), table : Tables]
           start  == [got |-> <<>>, table |-> t]
           Upto(m) == {f \in [0 .. m -> States] :
                         \A k \in 0 .. m : /\ f[k] \in Gathering(t, n, k)
                                           /\ f[k] = GatherStep(t, n, k, f[k - 1])}
           Ms == {m \in Nat : Upto(m) # {}}
<1>1. start \in Gathering(t, n, 0)
  <2>1. start \in States /\ start.got = <<>> /\ start.table = t
    BY SMT
  <2>2. Once(<<>>) /\ PagesIn(<<>>) = {} /\ Len(<<>>) = 0
    BY DEF Once, PagesIn
  <2> HIDE DEF start
  <2> QED
    BY <2>1, <2>2 DEF Gathering
<1>2. 0 \in Ms
  <2> DEFINE f == [k \in 0 .. 0 |-> start]
  <2>1. \A k \in 0 .. 0 : k = 0 /\ f[k] = start
    OBVIOUS
  <2>2. start \in States
    BY <1>1 DEF Gathering
  <2>3. f \in [0 .. 0 -> States]
    BY <2>2
  <2>4. \A k \in 0 .. 0 : /\ f[k] \in Gathering(t, n, k)
                          /\ f[k] = GatherStep(t, n, k, f[k - 1])
    <3> SUFFICES ASSUME NEW k \in 0 .. 0
                 PROVE  f[k] \in Gathering(t, n, k) /\ f[k] = GatherStep(t, n, k, f[k - 1])
      BY Zenon
    <3>1. k = 0 /\ f[k] = start
      BY <2>1
    <3> HIDE DEF f
    <3>2. f[k] \in Gathering(t, n, k)
      BY <3>1, <1>1, Zenon
    <3>3. f[k] = GatherStep(t, n, k, f[k - 1])
      BY <3>1, Zenon DEF GatherStep
    <3> QED
      BY <3>2, <3>3
  <2>5. f \in Upto(0)
    BY <2>3, <2>4, Zenon
  <2> HIDE DEF Upto
  <2> QED
    BY <2>5
<1>3. ASSUME NEW m \in Nat, m \in Ms PROVE m + 1 \in Ms
  <2>1. PICK f \in Upto(m) : TRUE
    BY <1>3
  <2> DEFINE next == GatherBy(n, f[m])
             h == [k \in 0 .. m + 1 |-> IF k = m + 1 THEN next ELSE f[k]]
  <2>2. m \in 0 .. m
    OBVIOUS
  <2>3. /\ f \in [0 .. m -> States]
        /\ \A k \in 0 .. m : /\ f[k] \in Gathering(t, n, k)
                             /\ f[k] = GatherStep(t, n, k, f[k - 1])
    BY <2>1, Zenon
  <2>4. next \in Gathering(t, n, m + 1)
    BY <2>2, <2>3, GatherByIs, Zenon
  <2>5. next \in States
    BY <2>4 DEF Gathering
  <2> HIDE DEF next, States
  <2>6. \A k \in 0 .. m : k \in 0 .. m + 1 /\ h[k] = f[k] /\ k # m + 1
    OBVIOUS
  <2>7. h[m + 1] = next /\ m + 1 \in 0 .. m + 1
    OBVIOUS
  <2>8. \A k \in 0 .. m + 1 : k = m + 1 \/ k \in 0 .. m
    OBVIOUS
  <2>9. h \in [0 .. m + 1 -> States]
    BY <2>3, <2>5
  <2>10. ASSUME NEW k \in 0 .. m + 1
         PROVE  h[k] \in Gathering(t, n, k) /\ h[k] = GatherStep(t, n, k, h[k - 1])
    <3> HIDE DEF h
    <3>1. CASE k = m + 1
      <4>1. k - 1 = m /\ k # 0
        BY <3>1
      <4>2. h[k - 1] = f[m]
        BY <2>2, <2>6, <4>1
      <4>3. GatherStep(t, n, k, h[k - 1]) = next
        BY <4>1, <4>2, Zenon DEF GatherStep, next
      <4>4. h[k] = next
        BY <2>7, <3>1
      <4> QED
        BY <2>4, <3>1, <4>3, <4>4, Zenon
    <3>2. CASE k \in 0 .. m
      <4>1. h[k] = f[k]
        BY <2>6, <3>2
      <4>2. CASE k = 0
        <5>1. GatherStep(t, n, k, h[k - 1]) = GatherStep(t, n, k, f[k - 1])
          BY <4>2, Zenon DEF GatherStep
        <5> QED
          BY <2>3, <3>2, <4>1, <5>1, Zenon
      <4>3. CASE k # 0
        <5>1. k - 1 \in 0 .. m
          BY <3>2, <4>3
        <5>2. h[k - 1] = f[k - 1]
          BY <2>6, <5>1
        <5> QED
          BY <2>3, <3>2, <4>1, <5>2, Zenon
      <4> QED
        BY <4>2, <4>3
    <3> QED
      BY <2>8, <3>1, <3>2
  <2>11. h \in Upto(m + 1)
    <3> HIDE DEF h
    <3> QED
      BY <2>9, <2>10, Zenon
  <2> HIDE DEF Upto
  <2> QED
    BY <2>11
<1>4. Pages \in Nat /\ Pages \in Ms
  <2>1. Nat \subseteq Ms
    <3> HIDE DEF Ms
    <3> QED
      BY <1>2, <1>3, NatSets, Zenon
  <2> QED
    BY <2>1, PagesAssumption
<1>5. PICK g \in Upto(Pages) : TRUE
  BY <1>4
<1>6. \A k \in 0 .. Pages : /\ g[k] \in Gathering(t, n, k)
                            /\ g[k] = GatherStep(t, n, k, g[k - 1])
  BY <1>5, Zenon
<1>7. Gathers(t, n, g)
  <2> DEFINE v(k) == GatherStep(t, n, k, g[k - 1])
  <2>1. g = [k \in 0 .. Pages |-> g[k]]
    BY <1>5
  <2>2. \A k \in 0 .. Pages : g[k] = v(k)
    BY <1>6, Zenon
  <2> HIDE DEF v
  <2>3. g = [k \in 0 .. Pages |-> v(k)]
    BY <2>1, <2>2
  <2> QED
    BY <2>3, Zenon DEF Gathers, v
<1> DEFINE f == CHOOSE h : Gathers(t, n, h)
           Es == {m \in Nat : m <= Pages => f[m] = g[m]}
<1>8. Gathered(t, n) = f[Pages].got
  BY Zenon DEF Gathered, Gathers, GatherStep, GatherBy
<1>9. Gathers(t, n, f)
  BY <1>7, Zenon
<1> HIDE DEF f
<1>10. \A k \in 0 .. Pages : f[k] = GatherStep(t, n, k, f[k - 1])
  <2> DEFINE v(k) == GatherStep(t, n, k, f[k - 1])
  <2>1. f = [k \in 0 .. Pages |-> v(k)]
    BY <1>9, Zenon DEF Gathers
  <2> HIDE DEF v
  <2>2. \A k \in 0 .. Pages : f[k] = v(k)
    BY <2>1
  <2> QED
    BY <2>2, Zenon DEF v
<1>11. 0 \in Es
  <2>1. 0 \in 0 .. Pages
    BY <1>4
  <2>2. f[0] = start /\ g[0] = start
    BY <2>1, <1>6, <1>10, Zenon DEF GatherStep
  <2> QED
    BY <2>2
<1>12. ASSUME NEW m \in Nat, m \in Es PROVE m + 1 \in Es
  <2> SUFFICES ASSUME m + 1 <= Pages PROVE f[m + 1] = g[m + 1]
    BY SMT
  <2>1. m + 1 \in 0 .. Pages /\ f[m] = g[m] /\ (m + 1) - 1 = m
    BY <1>4, <1>12
  <2>2. f[m + 1] = GatherStep(t, n, m + 1, f[m]) /\ g[m + 1] = GatherStep(t, n, m + 1, g[m])
    BY <1>6, <1>10, <2>1, Zenon
  <2> QED
    BY <2>1, <2>2, Zenon
<1>13. f[Pages] = g[Pages]
  <2>1. Nat \subseteq Es
    <3> HIDE DEF Es
    <3> QED
      BY <1>11, <1>12, NatSets, Zenon
  <2> QED
    BY <1>4, <2>1
<1>14. g[Pages] \in Gathering(t, n, Pages)
  BY <1>4, <1>6
<1>15. n <= Pages
  <2>1. IsFiniteSet(Memory) /\ Cardinality(Memory) = Pages
    <3>1. 1 \in Int /\ Pages \in Int /\ ~(1 > Pages)
      BY PagesAssumption
    <3>2. IsFiniteSet(1 .. Pages) /\ Cardinality(1 .. Pages) = IF 1 > Pages THEN 0 ELSE Pages - 1 + 1
      BY <3>1, FS_Interval, Zenon
    <3> QED
      BY <3>1, <3>2 DEF Memory
  <2>2. FreePages(t) \subseteq Memory
    BY DEF FreePages
  <2>3. Cardinality(FreePages(t)) <= Pages /\ Cardinality(FreePages(t)) \in Nat
    BY <2>1, <2>2, FS_Subset, FS_CardinalityType
  <2> QED
    BY <2>3, PagesAssumption DEF MEM_FreeTotal
<1> DEFINE s == g[Pages]
<1> HIDE DEF s
<1>16. /\ s.got \in Seq(Memory) /\ Once(s.got) /\ PagesIn(s.got) \subseteq FreePages(t)
       /\ Len(s.got) <= n /\ (Len(s.got) = n \/ Len(s.got) >= Pages)
  BY <1>14 DEF Gathering, s
<1>17. Len(s.got) = n
  BY <1>15, <1>16, PagesAssumption
<1> QED
  BY <1>8, <1>13, <1>16, <1>17, Zenon DEF s

(***************************************************************************)
(* What MEM_AllocatePages and MEM_ReAllocatePages give.                    *)
(***************************************************************************)
InRow(s) == \A i \in 1 .. Len(s) : s[i] = s[1] + i - 1

LEMMA AllocatedIs ==
  ASSUME NEW t \in Tables, NEW n \in Nat, NEW sequence \in BOOLEAN,
         sequence \/ Past = 0 \/ n = 1,
         NEW s, s = MEM_AllocatePages(t, n, sequence)
  PROVE  /\ s \in Seq(Memory) /\ Once(s) /\ PagesIn(s) \subseteq FreePages(t)
         /\ s = <<>> \/ Len(s) = n
         /\ sequence => InRow(s)
         /\ ~sequence /\ n <= MEM_FreeTotal(t) => Len(s) = n
<1>1. CASE s = <<>> /\ (n = 0 \/ sequence \/ MEM_FreeTotal(t) < n)
  <2>1. Once(s) /\ PagesIn(s) = {} /\ Len(s) = 0 /\ InRow(s)
    BY <1>1 DEF Once, PagesIn, InRow
  <2>2. MEM_FreeTotal(t) \in Nat
    <3>1. IsFiniteSet(Memory)
      <4>1. 1 \in Int /\ Pages \in Int
        BY PagesAssumption
      <4> QED
        BY <4>1, FS_Interval, Zenon DEF Memory
    <3> QED
      BY <3>1, FS_Subset, FS_CardinalityType DEF MEM_FreeTotal, FreePages
  <2> QED
    BY <1>1, <2>1, <2>2
<1>2. CASE n # 0 /\ sequence /\ BestMatch(t, n) # None
  <2> DEFINE a == BestMatch(t, n)
  <2>1. a \in Memory /\ a .. a + n - 1 \subseteq FreePages(t) /\ n \in Nat \ {0}
    BY <1>2, BestMatchIs
  <2>2. s = [i \in 1 .. n |-> a + i - 1]
    BY <1>2, Zenon DEF MEM_AllocatePages
  <2> HIDE DEF a
  <2>3. a \in Nat
    BY <2>1 DEF Memory
  <2>4. \A i \in 1 .. n : s[i] = a + i - 1 /\ a + i - 1 \in FreePages(t)
    <3> SUFFICES ASSUME NEW i \in 1 .. n PROVE s[i] = a + i - 1 /\ a + i - 1 \in FreePages(t)
      OBVIOUS
    <3>1. a + i - 1 \in a .. a + n - 1
      BY <2>3
    <3> QED
      BY <2>1, <2>2, <3>1
  <2>5. s \in [1 .. n -> Memory]
    BY <2>2, <2>4 DEF FreePages
  <2>6. s \in Seq(Memory) /\ Len(s) = n
    BY <2>5
  <2>7. Once(s)
    BY <2>3, <2>4, <2>6 DEF Once
  <2>8. PagesIn(s) \subseteq FreePages(t)
    BY <2>4, <2>6 DEF PagesIn
  <2>9. InRow(s)
    <3>1. s[1] = a
      BY <2>1, <2>3, <2>4
    <3> QED
      BY <2>4, <2>6, <3>1 DEF InRow
  <2> QED
    BY <1>2, <2>6, <2>7, <2>8, <2>9
<1>3. CASE n # 0 /\ ~sequence /\ ~(MEM_FreeTotal(t) < n)
  <2>1. s = Gathered(t, n)
    BY <1>3, Zenon DEF MEM_AllocatePages
  <2>2. n <= MEM_FreeTotal(t)
    <3>1. IsFiniteSet(Memory)
      <4>1. 1 \in Int /\ Pages \in Int
        BY PagesAssumption
      <4> QED
        BY <4>1, FS_Interval, Zenon DEF Memory
    <3>2. MEM_FreeTotal(t) \in Nat
      BY <3>1, FS_Subset, FS_CardinalityType DEF MEM_FreeTotal, FreePages
    <3> QED
      BY <1>3, <3>2
  <2> QED
    BY <1>3, <2>1, <2>2, GatheredIs
<1>4. \/ s = <<>> /\ (n = 0 \/ sequence \/ MEM_FreeTotal(t) < n)
      \/ n # 0 /\ sequence /\ BestMatch(t, n) # None
      \/ n # 0 /\ ~sequence /\ ~(MEM_FreeTotal(t) < n)
  BY Zenon DEF MEM_AllocatePages
<1> QED
  BY <1>1, <1>2, <1>3, <1>4

(* A handle and the block it stands for.                                   *)
Holds(t, s, handle) ==
  \/ s = <<>> /\ handle \in {LastPage, None}
  \/ IsBlock(t, s) /\ handle = s[1]

LEMMA HoldsPages ==
  ASSUME NEW t, NEW s, NEW handle, Holds(t, s, handle)
  PROVE  PagesOf(t, handle) = s
BY PagesOfNone, PagesOfBlock DEF Holds

(* The pages that a block may be given instead of those it has: it is cut, *)
(* grows at its end, or moves as a whole.                                  *)
Regrown(t, old, s) ==
  /\ s \in Seq(Memory) /\ Once(s) /\ s # <<>>
  /\ PagesIn(s) \subseteq FreePages(t) \cup PagesIn(old)
  /\ \/ \A i \in 1 .. Len(old) : i \in 1 .. Len(s) => s[i] = old[i]
     \/ Len(old) < Len(s) /\ PagesIn(s) \cap PagesIn(old) = {}

GrownTo(t, old, n, sequence, s) ==
  /\ Regrown(t, old, s) /\ Len(s) = n
  /\ IF sequence THEN InRow(s)
                 ELSE \A i \in 1 .. Len(old) : i \in 1 .. Len(s) => s[i] = old[i]

LEMMA BlockTaken ==
  ASSUME NEW t \in Tables, NEW s, IsBlock(t, s)
  PROVE  PagesIn(s) \cap FreePages(t) = {} /\ PagesIn(s) \subseteq Memory
<1>1. s \in Seq(Memory) /\ Len(s) \in Nat /\ \A i \in 1 .. Len(s) : s[i] \in Memory
  BY DEF IsBlock
<1>2. ASSUME NEW i \in 1 .. Len(s) PROVE t[s[i]] # FreePage
  <2>1. CASE i = Len(s)
    BY <2>1 DEF IsBlock, LastPage, FreePage
  <2>2. CASE i # Len(s)
    <3>1. i \in 1 .. Len(s) - 1 /\ i + 1 \in 1 .. Len(s)
      BY <1>1, <2>2
    <3>2. t[s[i]] = s[i + 1] /\ s[i + 1] \in Memory
      BY <1>1, <3>1 DEF IsBlock
    <3> QED
      BY <3>2 DEF Memory, FreePage
  <2> QED
    BY <2>1, <2>2
<1> QED
  BY <1>1, <1>2 DEF PagesIn, FreePages

LEMMA ReallocatedIs ==
  ASSUME NEW t \in Tables, NEW old, NEW handle, Holds(t, old, handle),
         NEW n \in Nat \ {0}, NEW sequence \in BOOLEAN, sequence => InRow(old),
         sequence \/ Past = 0,
         NEW s, s = Reallocated(t, handle, n, sequence), s # <<>>
  PROVE  GrownTo(t, old, n, sequence, s)
<1> DEFINE l    == Len(old)
           more == MEM_AllocatePages(t, n - l, FALSE)
           row  == MEM_AllocatePages(t, n, TRUE)
           tail == [i \in 1 .. n - l |-> old[l] + i]
<1>1. PagesOf(t, handle) = old
  BY HoldsPages
<1>2. /\ old \in Seq(Memory) /\ Once(old) /\ l \in Nat /\ PagesIn(old) \cap FreePages(t) = {}
      /\ \A i \in 1 .. l : old[i] \in Memory
  <2>1. CASE old = <<>>
    BY <2>1 DEF Once, PagesIn
  <2>2. CASE old # <<>>
    <3>1. IsBlock(t, old)
      BY <2>2 DEF Holds
    <3> QED
      BY <3>1, BlockTaken DEF IsBlock
  <2> QED
    BY <2>1, <2>2
<1>3. CASE l >= n
  <2>1. s = SubSeq(old, 1, n)
    <3>1. ~(l < n)
      BY <1>2, <1>3
    <3> QED
      BY <1>1, <1>3, <3>1, Zenon DEF Reallocated
  <2>2. s \in Seq(Memory) /\ Len(s) = n /\ \A i \in 1 .. n : s[i] = old[i] /\ i \in 1 .. l
    BY <1>2, <1>3, <2>1
  <2>3. Once(s)
    BY <1>2, <2>2 DEF Once
  <2>4. PagesIn(s) \subseteq PagesIn(old)
    BY <2>2 DEF PagesIn
  <2>5. InRow(old) => InRow(s)
    <3>1. s[1] = old[1]
      BY <2>2
    <3> QED
      BY <2>2, <3>1 DEF InRow
  <2> QED
    BY <2>2, <2>3, <2>4, <2>5 DEF Regrown, GrownTo
<1>4. CASE ~(l >= n) /\ sequence /\ l > 0 /\ GrowsInPlace(t, old, n)
  <2>1. s = old \o tail
    <3>1. l < n
      BY <1>2, <1>4
    <3> QED
      BY <1>1, <1>4, <3>1, Zenon DEF Reallocated
  <2>2. \A i \in 1 .. n - l : tail[i] = old[l] + i /\ tail[i] \in FreePages(t)
    <3> SUFFICES ASSUME NEW i \in 1 .. n - l PROVE tail[i] \in FreePages(t)
      OBVIOUS
    <3>1. old[l] \in Nat
      BY <1>2, <1>4 DEF Memory
    <3>2. old[l] + i \in old[l] + 1 .. old[l] + n - l
      BY <1>2, <1>4, <3>1
    <3>3. \A p \in old[l] + 1 .. old[l] + n - l : p \in FreePages(t)
      BY <1>4, Zenon DEF GrowsInPlace
    <3> QED
      BY <3>2, <3>3
  <2>3. n - l \in Nat /\ tail \in [1 .. n - l -> Memory]
    BY <1>2, <1>4, <2>2 DEF FreePages
  <2>4. tail \in Seq(Memory) /\ Len(tail) = n - l
    <3> HIDE DEF tail
    <3> QED
      BY <2>3
  <2>5. old[l] \in Nat
    BY <1>2, <1>4 DEF Memory
  <2> HIDE DEF tail
  <2>6. Once(tail) /\ PagesIn(tail) \subseteq FreePages(t)
    <3>1. \A i \in 1 .. Len(tail) : tail[i] = old[l] + i /\ tail[i] \in FreePages(t)
      BY <2>2, <2>4, Zenon
    <3> HIDE DEF l
    <3>2. Once(tail)
      BY <2>5, <3>1 DEF Once
    <3> QED
      BY <3>1, <3>2 DEF PagesIn
  <2>7. PagesIn(old) \cap PagesIn(tail) = {}
    BY <1>2, <2>6
  <2>8. /\ s \in Seq(Memory) /\ Once(s) /\ Len(s) = l + (n - l)
        /\ PagesIn(s) = PagesIn(old) \cup PagesIn(tail)
        /\ \A i \in 1 .. l : s[i] = old[i]
        /\ \A i \in 1 .. n - l : s[l + i] = tail[i]
    BY <1>2, <2>1, <2>4, <2>6, <2>7, Joined
  <2>9. InRow(s)
    <3>1. InRow(old) /\ s[1] = old[1] /\ old[l] = old[1] + l - 1
      <4>1. 1 \in 1 .. l /\ l \in 1 .. l
        BY <1>2, <1>4
      <4>2. InRow(old)
        BY <1>4
      <4> QED
        BY <2>8, <4>1, <4>2, Zenon DEF InRow
    <3> SUFFICES ASSUME NEW i \in 1 .. n PROVE s[i] = s[1] + i - 1
      BY <1>2, <2>8 DEF InRow
    <3>2. CASE i \in 1 .. l
      BY <2>8, <3>1, <3>2 DEF InRow
    <3>3. CASE i \notin 1 .. l
      <4>1. i - l \in 1 .. n - l /\ l + (i - l) = i
        BY <1>2, <3>3
      <4>2. s[i] = old[l] + (i - l)
        BY <2>2, <2>8, <4>1
      <4>3. old[1] \in Nat
        BY <1>2, <1>4 DEF Memory
      <4> QED
        BY <1>2, <3>1, <4>2, <4>3
    <3> QED
      BY <3>2, <3>3
  <2>10. Len(s) = n /\ s # <<>>
    BY <1>2, <2>8
  <2> QED
    BY <2>6, <2>8, <2>9, <2>10, <1>2 DEF Regrown, GrownTo
<1>5. CASE ~(l >= n) /\ sequence /\ ~(l > 0 /\ GrowsInPlace(t, old, n))
  <2>1. s = row
    <3>1. l < n
      BY <1>2, <1>5
    <3> QED
      BY <1>1, <1>5, <3>1, Zenon DEF Reallocated
  <2>2. /\ s \in Seq(Memory) /\ Once(s) /\ PagesIn(s) \subseteq FreePages(t)
        /\ Len(s) = n /\ InRow(s)
    <3>1. n \in Nat
      OBVIOUS
    <3> QED
      BY <2>1, <3>1, AllocatedIs
  <2>3. Len(old) < Len(s) /\ PagesIn(s) \cap PagesIn(old) = {}
    <3>1. Len(old) < Len(s)
      <4>1. ~(l >= n) /\ l \in Nat /\ Len(s) = n
        BY <1>2, <1>5, <2>2, Zenon
      <4> QED
        BY <4>1
    <3> QED
      BY <1>2, <2>2, <3>1
  <2> QED
    BY <1>5, <2>2, <2>3 DEF Regrown, GrownTo
<1>6. CASE ~(l >= n) /\ ~sequence
  <2>1. s = old \o more /\ more # <<>>
    BY <1>1, <1>6, Zenon DEF Reallocated
  <2>2. n - l \in Nat
    BY <1>2, <1>6
  <2>3. /\ more \in Seq(Memory) /\ Once(more) /\ PagesIn(more) \subseteq FreePages(t)
        /\ Len(more) = n - l
    <3> HIDE DEF l
    <3> QED
      BY <1>6, <2>1, <2>2, AllocatedIs
  <2>4. PagesIn(old) \cap PagesIn(more) = {}
    BY <1>2, <2>3
  <2> HIDE DEF more
  <2>5. /\ s \in Seq(Memory) /\ Once(s) /\ Len(s) = l + (n - l)
        /\ PagesIn(s) = PagesIn(old) \cup PagesIn(more)
        /\ \A i \in 1 .. l : s[i] = old[i]
    BY <1>2, <2>1, <2>3, <2>4, Joined
  <2>6. Len(s) = n
    BY <1>2, <2>5
  <2> QED
    BY <1>6, <2>3, <2>5, <2>6 DEF Regrown, GrownTo
<1> QED
  BY <1>3, <1>4, <1>5, <1>6

(***************************************************************************)
(* A table in which one block is given up for another.                     *)
(***************************************************************************)
Turns(t, u, old, new) ==
  /\ u \in Tables
  /\ new = <<>> \/ IsBlock(u, new)
  /\ PagesIn(new) \subseteq FreePages(t) \cup PagesIn(old)
  /\ \A p \in Words : p \notin PagesIn(new) =>
        u[p] = IF p \in PagesIn(old) THEN FreePage ELSE t[p]

LEMMA LinkedTurns ==
  ASSUME NEW t \in Tables, NEW s \in Seq(Memory), Once(s), PagesIn(s) \subseteq FreePages(t)
  PROVE  Turns(t, Linked(t, s), <<>>, s)
<1>1. PagesIn(<<>>) = {}
  BY DEF PagesIn
<1> QED
  BY <1>1, LinkedIs DEF Turns

LEMMA ReleasedTurns ==
  ASSUME NEW t \in Tables, NEW s, NEW handle, Holds(t, s, handle)
  PROVE  Turns(t, MEM_ReleasePages(t, handle), s, <<>>)
<1>1. PagesIn(<<>>) = {}
  BY DEF PagesIn
<1>2. CASE s = <<>> /\ handle \in {LastPage, None}
  BY <1>1, <1>2, ReleasedNone DEF Turns
<1>3. CASE IsBlock(t, s) /\ handle = s[1]
  BY <1>1, <1>3, ReleasedIs DEF Turns
<1> QED
  BY <1>2, <1>3 DEF Holds

(* A block stays one where its pages keep their words.                     *)
LEMMA BlockStays ==
  ASSUME NEW t, NEW u, NEW s, IsBlock(t, s), \A p \in PagesIn(s) : u[p] = t[p]
  PROVE  IsBlock(u, s)
<1>1. Len(s) \in Nat /\ Len(s) >= 1
  BY DEF IsBlock
<1>2. \A i \in 1 .. Len(s) : u[s[i]] = t[s[i]]
  BY DEF PagesIn
<1>3. \A i \in 1 .. Len(s) - 1 : i \in 1 .. Len(s)
  BY <1>1
<1>4. Len(s) \in 1 .. Len(s)
  BY <1>1
<1> QED
  BY <1>2, <1>3, <1>4 DEF IsBlock

LEMMA ReallocatedTurns ==
  ASSUME NEW t \in Tables, NEW old, NEW handle, Holds(t, old, handle), NEW s, Regrown(t, old, s)
  PROVE  Turns(t, MEM_ReAllocatePages(t, handle, s), old, s)
<1> DEFINE u == MEM_ReAllocatePages(t, handle, s)
<1>1. /\ PagesOf(t, handle) = old
      /\ s \in Seq(Memory) /\ Once(s) /\ s # <<>> /\ Len(s) \in Nat /\ 1 \in 1 .. Len(s)
      /\ PagesIn(s) \subseteq FreePages(t) \cup PagesIn(old) /\ PagesIn(s) \subseteq Memory
      /\ Memory \subseteq Words
  <2>1. Memory \subseteq Words
    BY PagesAssumption DEF Memory, Words
  <2>2. /\ s \in Seq(Memory) /\ Once(s) /\ s # <<>>
        /\ PagesIn(s) \subseteq FreePages(t) \cup PagesIn(old)
    BY DEF Regrown
  <2>3. Len(s) \in Nat /\ 1 \in 1 .. Len(s) /\ PagesIn(s) \subseteq Memory
    BY <2>2 DEF PagesIn
  <2> QED
    BY <2>1, <2>2, <2>3, HoldsPages
<1>2. s[1] \in PagesIn(s) /\ s[1] \in Memory
  BY <1>1 DEF PagesIn
<1>3. CASE Len(old) = Len(s)
  <2>1. IsBlock(t, old) /\ u = t
    <3>1. u = t
      BY <1>1, <1>3, Zenon DEF MEM_ReAllocatePages
    <3>2. old # <<>>
      BY <1>1, <1>3
    <3> QED
      BY <3>1, <3>2 DEF Holds
  <2>2. old \in Seq(Memory) /\ \A i \in 1 .. Len(old) : s[i] = old[i]
    <3>1. ~(Len(old) < Len(s))
      BY <1>1, <1>3
    <3> QED
      BY <1>3, <2>1, <3>1, Zenon DEF Regrown, IsBlock
  <2>3. s = old
    BY <1>1, <1>3, <2>2
  <2>4. \A p \in PagesIn(old) : TRUE
    OBVIOUS
  <2> QED
    BY <1>1, <2>1, <2>3 DEF Turns
<1>4. CASE Len(old) # Len(s) /\ s[1] = handle
  <2>1. IsBlock(t, old) /\ handle = old[1]
    BY <1>2, <1>4 DEF Holds, Memory, LastPage, None
  <2> DEFINE r == MEM_ReleasePages(t, handle)
  <2>2. Turns(t, r, old, <<>>)
    BY ReleasedTurns
  <2>3. u = Linked(r, s)
    BY <1>1, <1>4, Zenon DEF MEM_ReAllocatePages
  <2> HIDE DEF r, u
  <2>4. r \in Tables /\ \A p \in Words : r[p] = IF p \in PagesIn(old) THEN FreePage ELSE t[p]
    BY <2>2 DEF Turns, PagesIn
  <2>5. /\ u \in Tables /\ IsBlock(u, s)
        /\ \A p \in Words : p \notin PagesIn(s) => u[p] = r[p]
    BY <1>1, <2>3, <2>4, LinkedIs
  <2> QED
    BY <1>1, <2>4, <2>5 DEF Turns, u
<1>5. CASE Len(old) # Len(s) /\ s[1] # handle
  <2> DEFINE l == Linked(t, s)
  <2>1. u = MEM_ReleasePages(l, handle)
    BY <1>1, <1>5, Zenon DEF MEM_ReAllocatePages
  <2>2. PagesIn(s) \cap PagesIn(old) = {}
    <3>1. CASE old = <<>>
      BY <3>1 DEF PagesIn
    <3>2. CASE old # <<>>
      <4>1. handle = old[1] /\ 1 \in 1 .. Len(old)
        BY <3>2 DEF Holds, IsBlock
      <4> QED
        BY <1>1, <1>5, <4>1, Zenon DEF Regrown
    <3> QED
      BY <3>1, <3>2
  <2>3. /\ l \in Tables /\ IsBlock(l, s)
        /\ \A p \in Words : p \notin PagesIn(s) => l[p] = t[p]
    BY <1>1, LinkedIs
  <2> HIDE DEF l, u
  <2>4. Holds(l, old, handle)
    <3>1. CASE old = <<>>
      BY <3>1 DEF Holds, IsBlock
    <3>2. CASE old # <<>>
      <4>1. IsBlock(t, old) /\ handle = old[1]
        BY <3>2 DEF Holds
      <4>2. PagesIn(old) \subseteq Words
        BY <1>1, <4>1, BlockTaken
      <4>3. \A p \in PagesIn(old) : l[p] = t[p]
        BY <2>2, <2>3, <4>2
      <4> QED
        BY <4>1, <4>3, BlockStays DEF Holds
    <3> QED
      BY <3>1, <3>2
  <2>5. Turns(l, u, old, <<>>)
    BY <2>1, <2>3, <2>4, ReleasedTurns
  <2>6. u \in Tables /\ \A p \in Words : u[p] = IF p \in PagesIn(old) THEN FreePage ELSE l[p]
    BY <2>5 DEF Turns, PagesIn
  <2>7. IsBlock(u, s)
    <3>1. \A p \in PagesIn(s) : u[p] = l[p]
      BY <1>1, <2>2, <2>6
    <3> QED
      BY <2>3, <3>1, BlockStays
  <2>8. \A p \in Words : p \notin PagesIn(s) => u[p] = IF p \in PagesIn(old) THEN FreePage ELSE t[p]
    BY <2>3, <2>6
  <2> QED
    BY <1>1, <2>6, <2>7, <2>8 DEF Turns, u
<1> QED
  BY <1>3, <1>4, <1>5

(***************************************************************************)
(* The heap: the table, what its pages hold, and whose they are.           *)
(***************************************************************************)
Owners == ({"xms"} \X XmsHandles) \cup ({"ems"} \X EmsHandles) \cup ({"vcpi"} \X Memory)

Heap(t, c, own) ==
  /\ t \in Tables
  /\ own \in [Owners -> Seq(Memory)]
  /\ \A k \in Owners : own[k] = <<>> \/ IsBlock(t, own[k])
  /\ \A k \in Owners : \A i \in 1 .. Len(own[k]) : c[own[k][i]] = <<k[1], k[2], i>>
  /\ \A p \in Memory : t[p] # FreePage => \E k \in Owners : p \in PagesIn(own[k])

(* The contents when a block is given other pages.                         *)
Filled(c, d, k, old, new) ==
  /\ \A i \in 1 .. Len(new) : d[new[i]] = <<k[1], k[2], i>>
  /\ \A p \in Memory : p \notin PagesIn(new) \cup PagesIn(old) => d[p] = c[p]

LEMMA OwnersApart ==
  ASSUME NEW t, NEW c, NEW own, Heap(t, c, own),
         NEW j \in Owners, NEW k \in Owners, PagesIn(own[j]) \cap PagesIn(own[k]) # {}
  PROVE  j = k
<1>1. PICK m \in 1 .. Len(own[j]), n \in 1 .. Len(own[k]) : own[j][m] = own[k][n]
  BY DEF PagesIn
<1>2. c[own[j][m]] = <<j[1], j[2], m>> /\ c[own[k][n]] = <<k[1], k[2], n>>
  BY DEF Heap
<1>3. j[1] = k[1] /\ j[2] = k[2]
  BY <1>1, <1>2
<1>4. j = <<j[1], j[2]>> /\ k = <<k[1], k[2]>>
  BY DEF Owners
<1> QED
  BY <1>3, <1>4, Zenon

LEMMA HeapTurns ==
  ASSUME NEW t, NEW c, NEW own, Heap(t, c, own), NEW k \in Owners,
         NEW u, NEW new, Turns(t, u, own[k], new), NEW d, Filled(c, d, k, own[k], new)
  PROVE  Heap(u, d, [own EXCEPT ![k] = new])
<1> DEFINE o == [own EXCEPT ![k] = new]
<1>1. /\ u \in Tables /\ (new = <<>> \/ IsBlock(u, new)) /\ new \in Seq(Memory)
      /\ PagesIn(new) \subseteq FreePages(t) \cup PagesIn(own[k])
      /\ \A p \in Words : p \notin PagesIn(new) =>
            u[p] = IF p \in PagesIn(own[k]) THEN FreePage ELSE t[p]
  <2>1. /\ u \in Tables /\ (new = <<>> \/ IsBlock(u, new))
        /\ PagesIn(new) \subseteq FreePages(t) \cup PagesIn(own[k])
        /\ \A p \in Words : p \notin PagesIn(new) =>
              u[p] = IF p \in PagesIn(own[k]) THEN FreePage ELSE t[p]
    BY DEF Turns
  <2>2. new \in Seq(Memory)
    <3>1. <<>> \in Seq(Memory)
      OBVIOUS
    <3> QED
      BY <2>1, <3>1, Zenon DEF IsBlock
  <2> QED
    BY <2>1, <2>2, Zenon
<1>2. /\ t \in Tables /\ own \in [Owners -> Seq(Memory)]
      /\ \A j \in Owners : own[j] = <<>> \/ IsBlock(t, own[j])
  BY DEF Heap
<1>3. o[k] = new /\ \A j \in Owners : j # k => o[j] = own[j]
  BY <1>2
<1>4. o \in [Owners -> Seq(Memory)]
  BY <1>1, <1>2
<1> HIDE DEF o
<1>5. Memory \subseteq Words
  BY PagesAssumption DEF Memory, Words
<1>6. ASSUME NEW j \in Owners, j # k
      PROVE  /\ PagesIn(own[j]) \subseteq Memory
             /\ PagesIn(own[j]) \cap (PagesIn(new) \cup PagesIn(own[k])) = {}
  <2>1. PagesIn(own[j]) \cap PagesIn(own[k]) = {}
    BY <1>6, OwnersApart
  <2>2. PagesIn(own[j]) \subseteq Memory /\ PagesIn(own[j]) \cap FreePages(t) = {}
    <3>1. CASE own[j] = <<>>
      BY <3>1 DEF PagesIn
    <3>2. CASE IsBlock(t, own[j])
      BY <1>2, <3>2, BlockTaken
    <3> QED
      BY <1>2, <3>1, <3>2
  <2> QED
    BY <1>1, <2>1, <2>2
<1>7. ASSUME NEW j \in Owners PROVE o[j] = <<>> \/ IsBlock(u, o[j])
  <2>1. CASE j = k
    BY <1>1, <1>3, <2>1
  <2>2. CASE j # k /\ own[j] # <<>>
    <3>1. \A p \in PagesIn(own[j]) : u[p] = t[p]
      BY <1>1, <1>5, <1>6, <2>2
    <3>2. IsBlock(t, own[j])
      BY <1>2, <2>2
    <3> QED
      BY <1>3, <2>2, <3>1, <3>2, BlockStays
  <2> QED
    BY <1>3, <2>1, <2>2
<1>8. ASSUME NEW j \in Owners, NEW i \in 1 .. Len(o[j])
      PROVE  d[o[j][i]] = <<j[1], j[2], i>>
  <2>1. CASE j = k
    BY <1>3, <2>1 DEF Filled
  <2>2. CASE j # k
    <3>1. o[j] = own[j] /\ own[j][i] \in PagesIn(own[j])
      BY <1>3, <2>2 DEF PagesIn
    <3>2. d[own[j][i]] = c[own[j][i]]
      BY <1>6, <2>2, <3>1 DEF Filled
    <3>3. c[own[j][i]] = <<j[1], j[2], i>>
      BY <3>1, Zenon DEF Heap
    <3> QED
      BY <3>1, <3>2, <3>3, Zenon
  <2> QED
    BY <2>1, <2>2
<1>9. ASSUME NEW p \in Memory, u[p] # FreePage PROVE \E j \in Owners : p \in PagesIn(o[j])
  <2>1. CASE p \in PagesIn(new)
    BY <1>3, <2>1, Zenon
  <2>2. CASE p \notin PagesIn(new)
    <3>1. p \notin PagesIn(own[k]) /\ t[p] # FreePage
      BY <1>1, <1>5, <1>9, <2>2
    <3>2. PICK j \in Owners : p \in PagesIn(own[j])
      BY <3>1, Zenon DEF Heap
    <3>3. j # k
      BY <3>1, <3>2
    <3> QED
      BY <1>3, <3>2, <3>3
  <2> QED
    BY <2>1, <2>2
<1> QED
  BY <1>1, <1>4, <1>7, <1>8, <1>9, Zenon DEF Heap, o

(* The pages of a block but the first few are filled; those hold already   *)
(* what they must.                                                         *)
LEMMA Refilled ==
  ASSUME NEW c, NEW b, NEW kind, NEW h, NEW s \in Seq(Memory), Once(s), NEW old,
         NEW from \in Nat \ {0},
         \A i \in 1 .. Len(s) : i < from => b[s[i]] = <<kind, h, i>>,
         \A p \in Memory : p \notin PagesIn(s) \cup PagesIn(old) => b[p] = c[p]
  PROVE  Filled(c, Fill(b, kind, h, s, from), <<kind, h>>, old, s)
<1> DEFINE d == Fill(b, kind, h, s, from)
           k == <<kind, h>>
           l == Len(s)
           I == from .. l
<1>1. d = [p \in Memory |-> IF \E i \in I : s[i] = p
                              THEN <<kind, h, CHOOSE i \in I : s[i] = p>> ELSE b[p]]
  BY Zenon DEF Fill
<1>2. l \in Nat /\ \A i : i \in I <=> i \in 1 .. l /\ i >= from
  OBVIOUS
<1>3. ASSUME NEW i \in I PROVE d[s[i]] = <<kind, h, i>>
  <2> DEFINE j == CHOOSE j \in I : s[j] = s[i]
  <2>1. j \in I /\ s[j] = s[i]
    BY Zenon
  <2>2. i \in 1 .. l /\ s[i] \in Memory
    BY <1>2
  <2>3. j = i
    BY <1>2, <2>1 DEF Once
  <2>4. d[s[i]] = <<kind, h, j>>
    <3> HIDE DEF I
    <3> QED
      BY <1>1, <2>2, Zenon
  <2> HIDE DEF j
  <2> QED
    BY <2>3, <2>4, Zenon
<1>4. ASSUME NEW p \in Memory, \A i \in 1 .. l : i >= from => s[i] # p PROVE d[p] = b[p]
  <2>1. ~ \E i \in I : s[i] = p
    BY <1>2, <1>4
  <2> HIDE DEF I
  <2> QED
    BY <1>1, <2>1, Zenon
<1>5. k[1] = kind /\ k[2] = h
  OBVIOUS
<1> HIDE DEF d, k, I
<1>6. ASSUME NEW i \in 1 .. Len(s) PROVE d[s[i]] = <<kind, h, i>>
  <2>1. CASE i >= from
    BY <1>2, <1>3, <2>1
  <2>2. CASE ~(i >= from)
    <3>1. \A j \in 1 .. Len(s) : j >= from => s[j] # s[i]
      BY <2>2 DEF Once
    <3>2. s[i] \in Memory /\ i < from
      BY <2>2
    <3>3. d[s[i]] = b[s[i]]
      BY <1>4, <3>1, <3>2
    <3> QED
      BY <3>2, <3>3
  <2> QED
    BY <2>1, <2>2
<1>7. ASSUME NEW p \in Memory, p \notin PagesIn(s) \cup PagesIn(old) PROVE d[p] = c[p]
  <2>1. \A i \in 1 .. Len(s) : i >= from => s[i] # p
    BY <1>7 DEF PagesIn
  <2>2. d[p] = b[p]
    BY <1>4, <2>1
  <2> QED
    BY <1>7, <2>2
<1>8. Filled(c, d, k, old, s)
  BY <1>5, <1>6, <1>7 DEF Filled
<1> QED
  BY <1>8 DEF d, k

LEMMA FilledNew ==
  ASSUME NEW c, NEW kind, NEW h, NEW s \in Seq(Memory), Once(s), NEW old
  PROVE  Filled(c, Fill(c, kind, h, s, 1), <<kind, h>>, old, s)
<1>1. 1 \in Nat \ {0}
  OBVIOUS
<1>2. \A i \in 1 .. Len(s) : i < 1 => c[s[i]] = <<kind, h, i>>
  OBVIOUS
<1>3. \A p \in Memory : p \notin PagesIn(s) \cup PagesIn(old) => c[p] = c[p]
  OBVIOUS
<1> QED
  BY <1>1, <1>2, <1>3, Refilled, Zenon

(***************************************************************************)
(* The inductive invariant: some division of the table into blocks is what *)
(* the drivers' handles say.                                               *)
(***************************************************************************)
Names(s, handle) == IF s = <<>> THEN handle \in {LastPage, None} ELSE handle = s[1]

(* A block of no size that names a page it was not given.                  *)
Stray(r) == r.size = 0 /\ r.mem > 0

XmsMatch(r, s) ==
  /\ Len(s) = PagesFor(r.size) /\ InRow(s)
  /\ IF Stray(r) THEN r.mem \in Memory ELSE Names(s, r.mem)
  /\ r.free => r.size = 0

EmsMatch(r, s) ==
  Len(s) = (IF r.pages = Unused THEN 0 ELSE r.pages * PerEmsPage) /\ Names(s, r.mem)

Matches(x, e, v, own) ==
  /\ \A h \in XmsHandles : XmsMatch(x[h], own[<<"xms", h>>])
  /\ \A h \in EmsHandles : EmsMatch(e[h], own[<<"ems", h>>])
  /\ \A p \in Memory : own[<<"vcpi", p>>] = IF p \in v THEN <<p>> ELSE <<>>

XmsRecord == [free : BOOLEAN, mem : Int, size : Nat, locked : 0 .. MaxLock]
EmsRecord == [pages : Nat \cup {Unused}, mem : Int]

Types ==
  /\ xms \in [XmsHandles -> XmsRecord]
  /\ emm \in [EmsHandles -> EmsRecord]
  /\ vcpi \subseteq Memory
  /\ stopped \in {"no", "reallocation"}

Divided(own) == Heap(table, content, own) /\ Matches(xms, emm, vcpi, own)

IInv == Types /\ \E own : Divided(own)

LEMMA HeapHolds ==
  ASSUME NEW t, NEW c, NEW own, Heap(t, c, own), NEW k \in Owners, NEW handle,
         Names(own[k], handle)
  PROVE  Holds(t, own[k], handle) /\ PagesOf(t, handle) = own[k]
<1>1. Holds(t, own[k], handle)
  BY DEF Heap, Names, Holds
<1> QED
  BY <1>1, HoldsPages

(* A block that stays as it is.                                            *)
LEMMA SameTurns ==
  ASSUME NEW t, NEW c, NEW own, Heap(t, c, own), NEW k \in Owners
  PROVE  Turns(t, t, own[k], own[k]) /\ Filled(c, c, k, own[k], own[k])
<1>1. Turns(t, t, own[k], own[k])
  BY DEF Heap, Turns
<1>2. \A i \in 1 .. Len(own[k]) : c[own[k][i]] = <<k[1], k[2], i>>
  BY Zenon DEF Heap
<1> QED
  BY <1>1, <1>2, Zenon DEF Filled

LEMMA XmsTurn ==
  ASSUME NEW own, Divided(own), NEW h \in XmsHandles, NEW new,
         Turns(table, table', own[<<"xms", h>>], new),
         Filled(content, content', <<"xms", h>>, own[<<"xms", h>>], new),
         \A g \in XmsHandles : g # h => xms'[g] = xms[g],
         XmsMatch(xms'[h], new), UNCHANGED <<emm, vcpi>>, Types'
  PROVE  IInv'
<1> DEFINE k == <<"xms", h>>
           o == [own EXCEPT ![k] = new]
<1>1. /\ k \in Owners /\ own \in [Owners -> Seq(Memory)]
      /\ \A g \in XmsHandles : <<"xms", g>> \in Owners /\ (g # h => <<"xms", g>> # k)
      /\ \A g \in EmsHandles : <<"ems", g>> \in Owners /\ <<"ems", g>> # k
      /\ \A p \in Memory : <<"vcpi", p>> \in Owners /\ <<"vcpi", p>> # k
  BY DEF Owners, Divided, Heap
<1>2. Heap(table', content', o)
  <2>1. Heap(table, content, own)
    BY DEF Divided
  <2> HIDE DEF k
  <2> QED
    BY <1>1, <2>1, HeapTurns DEF k
<1>3. Matches(xms', emm', vcpi', o)
  <2>1. o[k] = new /\ \A j \in Owners : j # k => o[j] = own[j]
    BY <1>1
  <2>2. Matches(xms, emm, vcpi, own)
    BY DEF Divided
  <2> HIDE DEF o
  <2>3. \A g \in XmsHandles : XmsMatch(xms'[g], o[<<"xms", g>>])
    BY <1>1, <2>1, <2>2, Zenon DEF Matches
  <2>4. \A g \in EmsHandles : EmsMatch(emm'[g], o[<<"ems", g>>])
    BY <1>1, <2>1, <2>2, Zenon DEF Matches
  <2>5. \A p \in Memory : o[<<"vcpi", p>>] = IF p \in vcpi' THEN <<p>> ELSE <<>>
    BY <1>1, <2>1, <2>2, Zenon DEF Matches
  <2> QED
    BY <2>3, <2>4, <2>5, Zenon DEF Matches
<1> QED
  BY <1>2, <1>3, Zenon DEF IInv, Divided

LEMMA EmsTurn ==
  ASSUME NEW own, Divided(own), NEW h \in EmsHandles, NEW new,
         Turns(table, table', own[<<"ems", h>>], new),
         Filled(content, content', <<"ems", h>>, own[<<"ems", h>>], new),
         \A g \in EmsHandles : g # h => emm'[g] = emm[g],
         EmsMatch(emm'[h], new), UNCHANGED <<xms, vcpi>>, Types'
  PROVE  IInv'
<1> DEFINE k == <<"ems", h>>
           o == [own EXCEPT ![k] = new]
<1>1. /\ k \in Owners /\ own \in [Owners -> Seq(Memory)]
      /\ \A g \in XmsHandles : <<"xms", g>> \in Owners /\ <<"xms", g>> # k
      /\ \A g \in EmsHandles : <<"ems", g>> \in Owners /\ (g # h => <<"ems", g>> # k)
      /\ \A p \in Memory : <<"vcpi", p>> \in Owners /\ <<"vcpi", p>> # k
  BY DEF Owners, Divided, Heap
<1>2. Heap(table', content', o)
  <2>1. Heap(table, content, own)
    BY DEF Divided
  <2> HIDE DEF k
  <2> QED
    BY <1>1, <2>1, HeapTurns DEF k
<1>3. Matches(xms', emm', vcpi', o)
  <2>1. o[k] = new /\ \A j \in Owners : j # k => o[j] = own[j]
    BY <1>1
  <2>2. Matches(xms, emm, vcpi, own)
    BY DEF Divided
  <2> HIDE DEF o
  <2>3. \A g \in XmsHandles : XmsMatch(xms'[g], o[<<"xms", g>>])
    BY <1>1, <2>1, <2>2, Zenon DEF Matches
  <2>4. \A g \in EmsHandles : EmsMatch(emm'[g], o[<<"ems", g>>])
    BY <1>1, <2>1, <2>2, Zenon DEF Matches
  <2>5. \A p \in Memory : o[<<"vcpi", p>>] = IF p \in vcpi' THEN <<p>> ELSE <<>>
    BY <1>1, <2>1, <2>2, Zenon DEF Matches
  <2> QED
    BY <2>3, <2>4, <2>5, Zenon DEF Matches
<1> QED
  BY <1>2, <1>3, Zenon DEF IInv, Divided

LEMMA VcpiTurn ==
  ASSUME NEW own, Divided(own), NEW q \in Memory, NEW new,
         Turns(table, table', own[<<"vcpi", q>>], new),
         Filled(content, content', <<"vcpi", q>>, own[<<"vcpi", q>>], new),
         \A p \in Memory : p # q => (p \in vcpi' <=> p \in vcpi),
         new = IF q \in vcpi' THEN <<q>> ELSE <<>>, UNCHANGED <<xms, emm>>, Types'
  PROVE  IInv'
<1> DEFINE k == <<"vcpi", q>>
           o == [own EXCEPT ![k] = new]
<1>1. /\ k \in Owners /\ own \in [Owners -> Seq(Memory)]
      /\ \A g \in XmsHandles : <<"xms", g>> \in Owners /\ <<"xms", g>> # k
      /\ \A g \in EmsHandles : <<"ems", g>> \in Owners /\ <<"ems", g>> # k
      /\ \A p \in Memory : <<"vcpi", p>> \in Owners /\ (p # q => <<"vcpi", p>> # k)
  BY DEF Owners, Divided, Heap
<1>2. Heap(table', content', o)
  <2>1. Heap(table, content, own)
    BY DEF Divided
  <2> HIDE DEF k
  <2> QED
    BY <1>1, <2>1, HeapTurns DEF k
<1>3. Matches(xms', emm', vcpi', o)
  <2>1. o[k] = new /\ \A j \in Owners : j # k => o[j] = own[j]
    BY <1>1
  <2>2. Matches(xms, emm, vcpi, own)
    BY DEF Divided
  <2> HIDE DEF o
  <2>3. \A g \in XmsHandles : XmsMatch(xms'[g], o[<<"xms", g>>])
    BY <1>1, <2>1, <2>2, Zenon DEF Matches
  <2>4. \A g \in EmsHandles : EmsMatch(emm'[g], o[<<"ems", g>>])
    BY <1>1, <2>1, <2>2, Zenon DEF Matches
  <2>5. ASSUME NEW p \in Memory PROVE o[<<"vcpi", p>>] = IF p \in vcpi' THEN <<p>> ELSE <<>>
    <3>1. CASE p = q
      BY <2>1, <3>1, Zenon
    <3>2. CASE p # q
      <4>1. o[<<"vcpi", p>>] = own[<<"vcpi", p>>] /\ (p \in vcpi' <=> p \in vcpi)
        BY <1>1, <2>1, <3>2, Zenon
      <4>2. own[<<"vcpi", p>>] = IF p \in vcpi THEN <<p>> ELSE <<>>
        BY <2>2, Zenon DEF Matches
      <4> QED
        BY <4>1, <4>2
    <3> QED
      BY <3>1, <3>2, Zenon
  <2> QED
    BY <2>3, <2>4, <2>5, Zenon DEF Matches
<1> QED
  BY <1>2, <1>3, Zenon DEF IInv, Divided

LEMMA InitIInv ==
  ASSUME Init
  PROVE  IInv
<1> DEFINE own == [k \in Owners |-> <<>>]
<1>1. Words = 1 .. Pages + Past + 1 /\ Pages \in Nat /\ Past \in Nat
  BY PagesAssumption DEF Words
<1>2. table = [p \in Words |-> IF p = Pages + Past + 1 THEN LastPage ELSE FreePage]
  BY <1>1 DEF Init
<1>3. table \in Tables
  <2>1. Past = 0 => \A w \in Words : w \notin Memory => w = Pages + Past + 1
    BY <1>1 DEF Memory
  <2> QED
    BY <1>2, <2>1 DEF Tables, LastPage, FreePage
<1>4. \A p \in Memory : table[p] = FreePage
  <2>1. \A p \in Memory : p \in Words /\ p # Pages + Past + 1
    BY <1>1 DEF Memory
  <2> QED
    BY <1>2, <2>1
<1>5. own \in [Owners -> Seq(Memory)] /\ \A k \in Owners : own[k] = <<>>
  OBVIOUS
<1> HIDE DEF own
<1>6. Heap(table, content, own)
  <2>1. \A k \in Owners : 1 .. Len(own[k]) = {}
    BY <1>5
  <2> QED
    BY <1>3, <1>4, <1>5, <2>1 DEF Heap
<1>7. Matches(xms, emm, vcpi, own)
  <2>1. /\ \A h \in XmsHandles : <<"xms", h>> \in Owners
        /\ \A h \in EmsHandles : <<"ems", h>> \in Owners
        /\ \A p \in Memory : <<"vcpi", p>> \in Owners
    BY DEF Owners
  <2>2. PagesFor(0) = 0 /\ InRow(<<>>) /\ Len(<<>>) = 0
    BY DEF PagesFor, InRow
  <2>3. ASSUME NEW h \in XmsHandles PROVE XmsMatch(xms[h], own[<<"xms", h>>])
    <3>1. own[<<"xms", h>>] = <<>> /\ xms[h].size = 0 /\ xms[h].mem = LastPage
      BY <1>5, <2>1 DEF Init
    <3> QED
      BY <2>2, <3>1 DEF XmsMatch, Names, Stray, LastPage
  <2>4. ASSUME NEW h \in EmsHandles PROVE EmsMatch(emm[h], own[<<"ems", h>>])
    <3>1. own[<<"ems", h>>] = <<>> /\ emm[h].pages = Unused /\ emm[h].mem = None
      BY <1>5, <2>1 DEF Init
    <3> QED
      BY <2>2, <3>1 DEF EmsMatch, Names
  <2>5. \A p \in Memory : own[<<"vcpi", p>>] = IF p \in vcpi THEN <<p>> ELSE <<>>
    BY <1>5, <2>1 DEF Init
  <2> QED
    BY <2>3, <2>4, <2>5, Zenon DEF Matches
<1>8. Types
  BY HandlesAssumption DEF Init, Types, XmsRecord, EmsRecord, LastPage, None
<1> QED
  BY <1>6, <1>7, <1>8, Zenon DEF IInv, Divided

(* What a handle of a driver says of its block.                            *)
LEMMA XmsHolds ==
  ASSUME Types, NEW own, Divided(own), NEW h \in XmsHandles
  PROVE  /\ <<"xms", h>> \in Owners /\ XmsMatch(xms[h], own[<<"xms", h>>])
         /\ own[<<"xms", h>>] \in Seq(Memory)
         /\ ~Stray(xms[h]) => /\ Holds(table, own[<<"xms", h>>], xms[h].mem)
                              /\ PagesOf(table, xms[h].mem) = own[<<"xms", h>>]
         /\ Stray(xms[h]) => own[<<"xms", h>>] = <<>> /\ xms[h].mem \in Memory
         /\ xms[h] \in XmsRecord /\ table \in Tables
<1>1. <<"xms", h>> \in Owners
  BY DEF Owners
<1>2. XmsMatch(xms[h], own[<<"xms", h>>])
  BY Zenon DEF Divided, Matches
<1>3. Heap(table, content, own)
  BY DEF Divided
<1>4. ASSUME ~Stray(xms[h])
      PROVE  /\ Holds(table, own[<<"xms", h>>], xms[h].mem)
             /\ PagesOf(table, xms[h].mem) = own[<<"xms", h>>]
  <2>1. Names(own[<<"xms", h>>], xms[h].mem)
    BY <1>2, <1>4, Zenon DEF XmsMatch
  <2> DEFINE k == <<"xms", h>>
  <2>2. k \in Owners /\ Names(own[k], xms[h].mem)
    BY <1>1, <2>1
  <2> HIDE DEF k
  <2>3. Holds(table, own[k], xms[h].mem) /\ PagesOf(table, xms[h].mem) = own[k]
    BY <1>3, <2>2, HeapHolds
  <2> QED
    BY <2>3, Zenon DEF k
<1>5. own[<<"xms", h>>] \in Seq(Memory) /\ table \in Tables
  BY <1>1, <1>3 DEF Heap
<1>6. xms[h] \in XmsRecord
  BY DEF Types
<1>7. ASSUME Stray(xms[h])
      PROVE  own[<<"xms", h>>] = <<>> /\ xms[h].mem \in Memory
  <2>1. Len(own[<<"xms", h>>]) = 0
    BY <1>2, <1>7 DEF XmsMatch, Stray, PagesFor
  <2> QED
    BY <1>2, <1>5, <1>7, <2>1 DEF XmsMatch
<1> QED
  BY <1>1, <1>2, <1>4, <1>5, <1>6, <1>7

LEMMA PagesForSize ==
  ASSUME NEW size \in Nat
  PROVE  PagesFor(size) \in Nat /\ (PagesFor(size) = 0 <=> size = 0)
BY DEF PagesFor

(* A record of which the block stays.                                      *)
LEMMA XmsSame ==
  ASSUME IInv, NEW h \in XmsHandles, NEW r \in XmsRecord,
         xms' = [xms EXCEPT ![h] = r],
         r.size = xms[h].size, r.free = xms[h].free,
         r.mem = xms[h].mem \/ (r.mem = None /\ ~(xms[h].mem > 0)),
         UNCHANGED <<table, emm, vcpi, content, stopped>>
  PROVE  IInv'
<1>1. Types
  BY DEF IInv
<1>2. PICK own : Divided(own)
  BY Zenon DEF IInv
<1> DEFINE k == <<"xms", h>>
           s == own[k]
<1>3. /\ k \in Owners /\ XmsMatch(xms[h], s) /\ s \in Seq(Memory) /\ table \in Tables
  BY <1>1, <1>2, XmsHolds
<1>4. Heap(table, content, own)
  BY <1>2 DEF Divided
<1>5. Turns(table, table', s, s) /\ Filled(content, content', k, s, s)
  <2> HIDE DEF k
  <2> QED
    BY <1>3, <1>4, SameTurns
<1>6. xms'[h] = r /\ \A g \in XmsHandles : g # h => xms'[g] = xms[g]
  BY <1>1 DEF Types
<1>7. XmsMatch(r, s)
  <2>1. ~Stray(xms[h]) => xms[h].mem > 0 \/ s = <<>>
    <3>1. ~Stray(xms[h]) /\ s # <<>> => s[1] \in Memory /\ xms[h].mem = s[1]
      BY <1>3 DEF XmsMatch, Names
    <3> QED
      BY <3>1 DEF Memory
  <2> HIDE DEF s
  <2>2. CASE Stray(xms[h])
    <3>1. r.mem = xms[h].mem
      BY <2>2 DEF Stray
    <3> QED
      BY <1>3, <2>2, <3>1 DEF XmsMatch, Stray
  <2>3. CASE ~Stray(xms[h])
    <3>1. Names(s, r.mem)
      BY <1>3, <2>1, <2>3 DEF XmsMatch, Names
    <3>2. ~Stray(r)
      BY <2>3 DEF Stray, None
    <3> QED
      BY <1>3, <3>1, <3>2 DEF XmsMatch
  <2> QED
    BY <2>2, <2>3
<1>8. Types'
  BY <1>1 DEF Types
<1> QED
  BY <1>2, <1>5, <1>6, <1>7, <1>8, XmsTurn

LEMMA XMS_LockKeeps ==
  ASSUME IInv, NEW h \in XmsHandles, XMS_LockMemory(h) \/ XMS_UnlockMemory(h)
  PROVE  IInv'
<1>1. xms \in [XmsHandles -> XmsRecord] /\ xms[h] \in XmsRecord
  BY DEF IInv, Types
<1>2. CASE XMS_LockMemory(h)
  <2> DEFINE r == [xms[h] EXCEPT !.locked = Min({xms[h].locked + 1, MaxLock})]
  <2>1. Min({xms[h].locked + 1, MaxLock}) \in 0 .. MaxLock
    <3> DEFINE T == {xms[h].locked + 1, MaxLock}
    <3>1. T \subseteq Nat /\ T # {} /\ MaxLock \in T
      BY <1>1, HandlesAssumption DEF XmsRecord
    <3>2. Min(T) \in T /\ \A j \in T : Min(T) <= j
      BY <3>1, MinIs, Zenon
    <3> HIDE DEF T
    <3> QED
      BY <3>1, <3>2 DEF T
  <2>2. r \in XmsRecord /\ r.size = xms[h].size /\ r.free = xms[h].free /\ r.mem = xms[h].mem
    <3> DEFINE m == Min({xms[h].locked + 1, MaxLock})
    <3> HIDE DEF m
    <3>1. m \in 0 .. MaxLock
      BY <2>1 DEF m
    <3>2. r = [xms[h] EXCEPT !.locked = m]
      BY DEF m
    <3> HIDE DEF r
    <3> QED
      BY <1>1, <3>1, <3>2 DEF XmsRecord
  <2>3. xms' = [xms EXCEPT ![h] = r]
    BY <1>2, Zenon DEF XMS_LockMemory
  <2> HIDE DEF r
  <2> QED
    BY <1>2, <2>2, <2>3, XmsSame DEF XMS_LockMemory
<1>3. CASE XMS_UnlockMemory(h)
  <2> DEFINE r == [xms[h] EXCEPT !.locked = xms[h].locked - 1]
  <2>1. xms[h].locked > 0
    BY <1>3 DEF XMS_UnlockMemory
  <2>2. r \in XmsRecord /\ r.size = xms[h].size /\ r.free = xms[h].free /\ r.mem = xms[h].mem
    BY <1>1, <2>1, HandlesAssumption DEF XmsRecord
  <2>3. xms' = [xms EXCEPT ![h] = r]
    BY <1>3, Zenon DEF XMS_UnlockMemory
  <2> HIDE DEF r
  <2> QED
    BY <1>3, <2>2, <2>3, XmsSame DEF XMS_UnlockMemory
<1> QED
  BY <1>2, <1>3

LEMMA XMS_AllocateKeeps ==
  ASSUME ~Strays, IInv, NEW size \in XmsSizes, XMS_AllocateMemory(size)
  PROVE  IInv'
<1> DEFINE h     == Min(FreeXms)
           pages == MEM_AllocatePages(table, PagesFor(size), TRUE)
           k     == <<"xms", h>>
           mem   == IF size = 0 THEN MEM_GetNextFreePage(table) ELSE pages[1]
           r     == [free |-> FALSE, mem |-> mem, size |-> size, locked |-> 0]
<1>1. Types
  BY DEF IInv
<1>2. PICK own : Divided(own)
  BY Zenon DEF IInv
<1>3. /\ FreeXms # {} /\ (size # 0 => pages # <<>>)
      /\ table' = Linked(table, pages)
      /\ xms' = [xms EXCEPT ![h] = r]
      /\ content' = Fill(content, "xms", h, pages, 1)
      /\ UNCHANGED <<emm, vcpi, stopped>>
  BY Zenon DEF XMS_AllocateMemory
<1>4. h \in XmsHandles /\ xms[h].free
  <2>1. FreeXms \subseteq XmsHandles /\ FreeXms \subseteq Nat
    BY HandlesAssumption DEF FreeXms
  <2>2. h \in FreeXms
    BY <1>3, <2>1, MinIs
  <2> QED
    BY <2>2 DEF FreeXms
<1>5. size \in Nat /\ PagesFor(size) \in Nat /\ (PagesFor(size) = 0 <=> size = 0) /\ PagesFor(0) = 0
  BY <1>3, HandlesAssumption, PagesForSize
<1> HIDE DEF h
<1>6. /\ k \in Owners /\ XmsMatch(xms[h], own[k]) /\ own[k] \in Seq(Memory)
      /\ table \in Tables /\ xms[h] \in XmsRecord
  BY <1>1, <1>2, <1>4, XmsHolds
<1>7. own[k] = <<>>
  BY <1>4, <1>5, <1>6 DEF XmsMatch
<1>8. /\ pages \in Seq(Memory) /\ Once(pages) /\ PagesIn(pages) \subseteq FreePages(table)
      /\ Len(pages) = PagesFor(size) /\ InRow(pages)
  <2> DEFINE q == TRUE
  <2>1. q \in BOOLEAN /\ q /\ pages = MEM_AllocatePages(table, PagesFor(size), q)
    OBVIOUS
  <2> HIDE DEF q, pages
  <2>2. /\ pages \in Seq(Memory) /\ Once(pages) /\ PagesIn(pages) \subseteq FreePages(table)
        /\ (pages = <<>> \/ Len(pages) = PagesFor(size)) /\ InRow(pages)
    BY <1>5, <1>6, <2>1, AllocatedIs
  <2>3. pages = <<>> => Len(pages) = 0
    OBVIOUS
  <2> QED
    BY <1>3, <1>5, <2>2, <2>3
<1> HIDE DEF pages
<1>9. Turns(table, table', own[k], pages)
  BY <1>3, <1>6, <1>7, <1>8, LinkedTurns
<1>10. Filled(content, content', k, own[k], pages)
  BY <1>3, <1>8, FilledNew, Zenon
<1>11. IF size = 0 THEN pages = <<>> /\ mem \in Memory \cup {None}
                   ELSE mem = pages[1] /\ mem \in Memory /\ pages # <<>>
  <2>1. CASE size = 0
    <3>1. mem = BestMatch(table, 1)
      BY <2>1 DEF MEM_GetNextFreePage
    <3>2. 1 \in Nat \ {0}
      OBVIOUS
    <3>3. BestMatch(table, 1) \in Memory \cup {None}
      BY <3>2, BestMatchIs, Zenon
    <3> QED
      BY <1>5, <1>8, <2>1, <3>1, <3>3
  <2>2. CASE size # 0
    BY <1>5, <1>8, <2>2
  <2> QED
    BY <2>1, <2>2
<1> HIDE DEF mem
<1>12. r \in XmsRecord /\ r.mem = mem /\ r.size = size /\ r.free = FALSE
  BY <1>5, <1>11, HandlesAssumption DEF XmsRecord, Memory, None
<1>13. xms'[h] = r /\ \A g \in XmsHandles : g # h => xms'[g] = xms[g]
  BY <1>1, <1>3, <1>4 DEF Types
<1> HIDE DEF r
<1>14. XmsMatch(xms'[h], pages)
  <2>1. CASE size = 0
    BY <1>8, <1>11, <1>12, <1>13, <2>1 DEF XmsMatch, Names, Stray, None, Memory
  <2>2. CASE size # 0
    BY <1>8, <1>11, <1>12, <1>13, <2>2 DEF XmsMatch, Names, Stray
  <2> QED
    BY <2>1, <2>2
<1>15. Types'
  BY <1>1, <1>3, <1>4, <1>12 DEF Types
<1> QED
  BY <1>2, <1>3, <1>4, <1>9, <1>10, <1>13, <1>14, <1>15, XmsTurn

(* Releasing a page that is free changes nothing.                          *)
LEMMA ReleasedFree ==
  ASSUME NEW t \in Tables, NEW p \in Memory, t[p] = FreePage
  PROVE  MEM_ReleasePages(t, p) = t
<1>1. PagesOf(t, p) = <<p>>
  BY PagesOfFree
<1>2. DOMAIN t = Words /\ t = [w \in Words |-> t[w]]
  BY DEF Tables
<1>3. MEM_ReleasePages(t, p)
        = [w \in Words |-> IF \E i \in 1 .. Len(<<p>>) : <<p>>[i] = w THEN FreePage ELSE t[w]]
  BY <1>1, <1>2, Zenon DEF MEM_ReleasePages
<1>4. Len(<<p>>) = 1 /\ \A i \in 1 .. Len(<<p>>) : <<p>>[i] = p
  OBVIOUS
<1>5. \A w \in Words : t[w] = IF \E i \in 1 .. Len(<<p>>) : <<p>>[i] = w THEN FreePage ELSE t[w]
  BY <1>4
<1> QED
  BY <1>2, <1>3, <1>5

(* A stray block's page that is still free is not taken from anybody.      *)
LEMMA StrayReleased ==
  ASSUME Types, NEW own, Divided(own), NEW h \in XmsHandles, ~Strayed(h, <<>>)
  PROVE  Turns(table, MEM_ReleasePages(table, xms[h].mem), own[<<"xms", h>>], <<>>)
<1> DEFINE k == <<"xms", h>>
<1>1. /\ k \in Owners /\ table \in Tables
      /\ ~Stray(xms[h]) => Holds(table, own[k], xms[h].mem)
      /\ Stray(xms[h]) => own[k] = <<>> /\ xms[h].mem \in Memory
  BY XmsHolds
<1>2. CASE ~Stray(xms[h])
  <2> HIDE DEF k
  <2>1. Turns(table, MEM_ReleasePages(table, xms[h].mem), own[k], <<>>)
    BY <1>1, <1>2, ReleasedTurns
  <2> QED
    BY <2>1 DEF k
<1>3. CASE Stray(xms[h])
  <2>1. table[xms[h].mem] = FreePage
    BY <1>3 DEF Strayed, Stray
  <2>2. MEM_ReleasePages(table, xms[h].mem) = table
    BY <1>1, <1>3, <2>1, ReleasedFree
  <2>3. Heap(table, content, own)
    BY DEF Divided
  <2>4. Turns(table, table, own[k], own[k])
    <3> HIDE DEF k
    <3> QED
      BY <1>1, <2>3, SameTurns
  <2>5. own[k] = <<>>
    BY <1>1, <1>3
  <2> HIDE DEF k
  <2>6. Turns(table, MEM_ReleasePages(table, xms[h].mem), own[k], <<>>)
    BY <2>2, <2>4, <2>5
  <2> QED
    BY <2>6 DEF k
<1> QED
  BY <1>2, <1>3

LEMMA XMS_FreeKeeps ==
  ASSUME ~Strays, IInv, NEW h \in XmsHandles, XMS_FreeMemory(h)
  PROVE  IInv'
<1> DEFINE k == <<"xms", h>>
           r == [free |-> TRUE, mem |-> LastPage, size |-> 0, locked |-> 0]
<1>1. Types
  BY DEF IInv
<1>2. PICK own : Divided(own)
  BY Zenon DEF IInv
<1>3. /\ table' = MEM_ReleasePages(table, xms[h].mem)
      /\ xms' = [xms EXCEPT ![h] = r]
      /\ UNCHANGED <<emm, vcpi, content, stopped>>
  BY Zenon DEF XMS_FreeMemory
<1>4. ~Strayed(h, <<>>)
  BY Zenon DEF XMS_FreeMemory
<1>5. Turns(table, table', own[k], <<>>)
  BY <1>1, <1>2, <1>3, <1>4, StrayReleased
<1>6. Filled(content, content', k, own[k], <<>>)
  <2> HIDE DEF k
  <2> QED
    BY <1>3 DEF Filled
<1>7. r \in XmsRecord /\ r.mem = LastPage /\ r.size = 0
  BY HandlesAssumption DEF XmsRecord, LastPage
<1>8. xms'[h] = r /\ \A g \in XmsHandles : g # h => xms'[g] = xms[g]
  BY <1>1, <1>3 DEF Types
<1> HIDE DEF r
<1>9. XmsMatch(xms'[h], <<>>)
  <2>1. PagesFor(0) = 0 /\ Len(<<>>) = 0 /\ InRow(<<>>)
    BY DEF PagesFor, InRow
  <2> QED
    BY <1>7, <1>8, <2>1 DEF XmsMatch, Names, Stray, LastPage
<1>10. Types'
  BY <1>1, <1>3, <1>7 DEF Types
<1> QED
  BY <1>2, <1>3, <1>5, <1>6, <1>8, <1>9, <1>10, XmsTurn

(* What a move of pages in a row and the program's filling of the new      *)
(* pages leave behind.                                                     *)
LEMMA MovedFills ==
  ASSUME NEW t \in Tables, NEW c, NEW kind, NEW h, NEW s, NEW handle, Holds(t, s, handle),
         InRow(s), \A i \in 1 .. Len(s) : c[s[i]] = <<kind, h, i>>,
         NEW new, Regrown(t, s, new), InRow(new), NEW b,
         b = IF handle > 0 /\ new[1] # handle THEN Copied(c, new[1], handle, Len(s)) ELSE c
  PROVE  Filled(c, Fill(b, kind, h, new, Len(s) + 1), <<kind, h>>, s, new)
<1> DEFINE l == Len(s)
           m == Len(new)
<1>1. new \in Seq(Memory) /\ Once(new) /\ m \in Nat \ {0} /\ new[1] \in Nat \ {0}
  <2>1. new \in Seq(Memory) /\ Once(new) /\ new # <<>>
    BY Zenon DEF Regrown
  <2>2. m \in Nat \ {0} /\ new[1] \in Memory
    BY <2>1
  <2>3. new[1] \in Nat \ {0}
    BY <2>2 DEF Memory
  <2> QED
    BY <2>1, <2>2, <2>3
<1>2. \A i \in 1 .. m : new[i] = new[1] + i - 1
  BY DEF InRow
<1>3. s = <<>> \/ (s \in Seq(Memory) /\ l \in Nat \ {0} /\ s[1] \in Nat \ {0} /\ handle = s[1])
  <2> SUFFICES ASSUME s # <<>>
               PROVE  s \in Seq(Memory) /\ l \in Nat \ {0} /\ s[1] \in Nat \ {0} /\ handle = s[1]
    OBVIOUS
  <2>1. s \in Seq(Memory) /\ handle = s[1]
    BY DEF Holds, IsBlock
  <2>2. l \in Nat \ {0} /\ s[1] \in Memory
    BY <2>1
  <2>3. s[1] \in Nat \ {0}
    BY <2>2 DEF Memory
  <2> QED
    BY <2>1, <2>2, <2>3
<1>4. /\ \A i \in 1 .. m : i < l + 1 => b[new[i]] = <<kind, h, i>>
      /\ \A p \in Memory : p \notin PagesIn(new) \cup PagesIn(s) => b[p] = c[p]
  <2>1. CASE s = <<>>
    <3>1. ~(handle > 0) /\ l = 0
      BY <2>1 DEF Holds, IsBlock, LastPage, None
    <3>2. b = c
      BY <3>1
    <3> QED
      BY <3>1, <3>2
  <2>2. CASE s # <<>> /\ new[1] = handle
    <3>1. b = c /\ 1 \in 1 .. m /\ 1 \in 1 .. l /\ handle = s[1]
      BY <1>1, <1>3, <2>2
    <3>2. \A i \in 1 .. l : i \in 1 .. m => new[i] = s[i]
      <4>1. new[1] \in PagesIn(new) /\ new[1] \in PagesIn(s)
        BY <2>2, <3>1, Zenon DEF PagesIn
      <4> QED
        BY <4>1 DEF Regrown
    <3>3. \A i \in 1 .. m : i < l + 1 => i \in 1 .. l
      BY <1>3, <2>2
    <3> QED
      BY <3>1, <3>2, <3>3
  <2>3. CASE s # <<>> /\ new[1] # handle
    <3>1. /\ handle = s[1] /\ 1 \in 1 .. m /\ 1 \in 1 .. l /\ handle > 0 /\ handle \in Nat
          /\ l \in Nat /\ m \in Nat /\ new[1] \in Nat
      BY <1>1, <1>3, <2>3
    <3>2. l < m
      BY <2>3, <3>1 DEF Regrown
    <3> DEFINE a == new[1]
    <3>3. b = [p \in Memory |-> IF p \in a .. a + l - 1 THEN c[handle + p - a] ELSE c[p]]
      BY <2>3, <3>1 DEF Copied
    <3>4. ASSUME NEW i \in 1 .. m, i < l + 1 PROVE b[new[i]] = <<kind, h, i>>
      <4>1. /\ new[i] = a + i - 1 /\ new[i] \in Memory
        BY <1>1, <1>2
      <4>2. new[i] \in a .. a + l - 1 /\ handle + new[i] - a = handle + i - 1 /\ i \in 1 .. l
        BY <3>1, <3>4, <4>1
      <4>3. b[new[i]] = c[handle + i - 1]
        BY <3>3, <4>1, <4>2
      <4>4. s[i] = handle + i - 1 /\ c[s[i]] = <<kind, h, i>>
        BY <3>1, <4>2 DEF InRow
      <4> QED
        BY <4>3, <4>4
    <3>5. ASSUME NEW p \in Memory, p \notin PagesIn(new) \cup PagesIn(s) PROVE b[p] = c[p]
      <4>1. CASE p \in a .. a + l - 1
        <5>1. p - a + 1 \in 1 .. m /\ a + (p - a + 1) - 1 = p
          <6>1. a \in Nat /\ l \in Nat /\ m \in Nat /\ l < m
            BY <3>1, <3>2
          <6> HIDE DEF a, l, m
          <6>2. p \in Int /\ a <= p /\ p <= a + l - 1
            BY <4>1, <6>1
          <6>3. p - a + 1 \in Int /\ 1 <= p - a + 1 /\ p - a + 1 <= m
            BY <6>1, <6>2
          <6> QED
            BY <6>1, <6>2, <6>3
        <5>2. new[p - a + 1] = p
          BY <1>2, <5>1
        <5> QED
          BY <3>5, <5>1, <5>2 DEF PagesIn
      <4>2. CASE ~(p \in a .. a + l - 1)
        <5> HIDE DEF a
        <5> QED
          BY <3>3, <4>2
      <4> QED
        BY <4>1, <4>2
    <3> QED
      BY <3>4, <3>5
  <2> QED
    BY <2>1, <2>2, <2>3
<1>5. l + 1 \in Nat \ {0}
  BY <1>3
<1>6. \A i \in 1 .. Len(new) : i < l + 1 => b[new[i]] = <<kind, h, i>>
  BY <1>4
<1>7. \A p \in Memory : p \notin PagesIn(new) \cup PagesIn(s) => b[p] = c[p]
  BY <1>4
<1> QED
  BY <1>1, <1>5, <1>6, <1>7, Refilled, Zenon

LEMMA Follows ==
  ASSUME NEW s \in Seq(Memory), NEW w \in Seq(Memory)
  PROVE  /\ s \o w \in Seq(Memory) /\ Len(s \o w) = Len(s) + Len(w)
         /\ \A i \in 1 .. Len(s) : (s \o w)[i] = s[i]
         /\ \A i \in 1 .. Len(w) : (s \o w)[Len(s) + i] = w[i]
OBVIOUS

(* A page that is none of a block's, or its first.                         *)
FirstAtMost(s, p) == \A i \in 1 .. Len(s) : i > 1 => s[i] # p

InRowFor(t, p, n, s) == s = Reallocated(t, p, n, TRUE)

(* Given other pages, a stray block's page that is free is either their    *)
(* first or stays free.                                                    *)
LEMMA StrayReallocated ==
  ASSUME NEW t \in Tables, NEW p \in Memory, t[p] = FreePage, NEW n \in Nat, n > 1,
         NEW s, InRowFor(t, p, n, s), s # <<>>, FirstAtMost(s, p)
  PROVE  /\ s \in Seq(Memory) /\ Once(s) /\ PagesIn(s) \subseteq FreePages(t)
         /\ Len(s) = n /\ InRow(s) /\ MEM_ReAllocatePages(t, p, s) = Linked(t, s)
<1> DEFINE old  == <<p>>
           tail == [i \in 1 .. n - 1 |-> p + i]
<1>1. /\ PagesOf(t, p) = old /\ Len(old) = 1 /\ old[1] = p /\ old \in Seq(Memory)
      /\ p \in Nat \ {0} /\ p \in FreePages(t)
  BY PagesOfFree DEF FreePages, Memory
<1> HIDE DEF old
<1>2. n \in Nat /\ n > 1
  OBVIOUS
<1>3. ~(Len(old) >= n) /\ Len(old) < n /\ Len(old) > 0
  BY <1>1, <1>2
<1>4. CASE GrowsInPlace(t, old, n)
  <2>1. s = old \o [i \in 1 .. n - Len(old) |-> old[Len(old)] + i]
    BY <1>1, <1>3, <1>4, Zenon DEF Reallocated, InRowFor
  <2>2. s = old \o tail
    BY <1>1, <2>1, Zenon
  <2>3. \A i \in 1 .. n - 1 : tail[i] = p + i /\ tail[i] \in FreePages(t)
    <3> SUFFICES ASSUME NEW i \in 1 .. n - 1 PROVE p + i \in FreePages(t)
      OBVIOUS
    <3>1. p + i \in p + 1 .. p + n - 1
      BY <1>1
    <3>2. \A q \in p + 1 .. p + n - 1 : q \in FreePages(t)
      BY <1>1, <1>4, Zenon DEF GrowsInPlace
    <3> QED
      BY <3>1, <3>2
  <2>4. tail \in Seq(Memory) /\ Len(tail) = n - 1
    <3>1. n - 1 \in Nat /\ tail \in [1 .. n - 1 -> Memory]
      BY <2>3 DEF FreePages
    <3> HIDE DEF tail
    <3> QED
      BY <3>1
  <2> HIDE DEF tail
  <2>5. /\ s \in Seq(Memory) /\ Len(s) = n /\ s[1] = p
        /\ \A i \in 1 .. n - 1 : s[1 + i] = tail[i]
    <3>1. /\ s \in Seq(Memory) /\ Len(s) = Len(old) + Len(tail)
          /\ \A i \in 1 .. Len(old) : s[i] = old[i]
          /\ \A i \in 1 .. Len(tail) : s[Len(old) + i] = tail[i]
      BY <1>1, <2>2, <2>4, Follows
    <3>2. 1 \in 1 .. Len(old) /\ Len(old) + Len(tail) = n
      BY <1>1, <1>2, <2>4
    <3>3. s[1] = p
      BY <1>1, <3>1, <3>2
    <3> QED
      BY <1>1, <2>4, <3>1, <3>2, <3>3
  <2>6. \A i \in 1 .. n : s[i] = p + i - 1 /\ s[i] \in FreePages(t)
    <3> SUFFICES ASSUME NEW i \in 1 .. n PROVE s[i] = p + i - 1 /\ s[i] \in FreePages(t)
      OBVIOUS
    <3>1. CASE i = 1
      BY <1>1, <2>5, <3>1
    <3>2. CASE i # 1
      <4>1. i - 1 \in 1 .. n - 1 /\ 1 + (i - 1) = i
        BY <3>2
      <4>2. s[i] = tail[i - 1]
        BY <2>5, <4>1
      <4>3. p + (i - 1) = p + i - 1
        BY <1>1
      <4> QED
        BY <2>3, <4>1, <4>2, <4>3
    <3> QED
      BY <3>1, <3>2
  <2>7. Once(s) /\ InRow(s) /\ PagesIn(s) \subseteq FreePages(t)
    BY <1>1, <2>5, <2>6 DEF Once, InRow, PagesIn
  <2>8. MEM_ReAllocatePages(t, p, s) = Linked(MEM_ReleasePages(t, p), s)
    <3>1. Len(old) # Len(s)
      BY <1>1, <1>2, <2>5
    <3> QED
      BY <1>1, <2>5, <3>1, Zenon DEF MEM_ReAllocatePages
  <2>9. MEM_ReleasePages(t, p) = t
    BY ReleasedFree
  <2> QED
    BY <2>5, <2>7, <2>8, <2>9
<1>5. CASE ~GrowsInPlace(t, old, n)
  <2> DEFINE q == TRUE
  <2>1. q \in BOOLEAN /\ q /\ s = MEM_AllocatePages(t, n, q) /\ n \in Nat
    <3>1. s = MEM_AllocatePages(t, n, TRUE)
      BY <1>1, <1>3, <1>5, Zenon DEF Reallocated, InRowFor
    <3> QED
      BY <3>1
  <2> HIDE DEF q
  <2>2. /\ s \in Seq(Memory) /\ Once(s) /\ PagesIn(s) \subseteq FreePages(t)
        /\ Len(s) = n /\ InRow(s)
    BY <2>1, AllocatedIs
  <2>3. s[1] # p
    <3> SUFFICES ASSUME s[1] = p PROVE GrowsInPlace(t, old, n)
      BY <1>5
    <3>1. ASSUME NEW w \in p + 1 .. p + n - 1 PROVE w \in FreePages(t)
      <4>1. w - p + 1 \in 1 .. Len(s) /\ p + (w - p + 1) - 1 = w
        BY <1>1, <2>2
      <4>2. s[w - p + 1] = w
        BY <2>2, <4>1 DEF InRow
      <4> QED
        BY <2>2, <4>1, <4>2 DEF PagesIn
    <3>2. GrowsInPlace(t, old, n) <=> \A w \in p + 1 .. p + n - 1 : w \in FreePages(t)
      BY <1>1, Zenon DEF GrowsInPlace
    <3> QED
      BY <3>1, <3>2
  <2>4. p \notin PagesIn(s)
    <3> SUFFICES ASSUME NEW i \in 1 .. Len(s) PROVE s[i] # p
      BY DEF PagesIn
    <3>1. i = 1 \/ i > 1
      BY <2>2
    <3> QED
      BY <2>3, <3>1 DEF FirstAtMost
  <2> DEFINE u == Linked(t, s)
  <2>5. MEM_ReAllocatePages(t, p, s) = MEM_ReleasePages(u, p)
    <3>1. Len(old) # Len(s)
      BY <1>1, <1>2, <2>2
    <3> QED
      BY <1>1, <2>3, <3>1, Zenon DEF MEM_ReAllocatePages
  <2>6. u \in Tables /\ u[p] = FreePage
    <3>1. p \in Words
      BY PagesAssumption DEF Memory, Words
    <3> QED
      BY <2>2, <2>4, <3>1, LinkedIs
  <2>7. MEM_ReleasePages(u, p) = u
    <3> HIDE DEF u
    <3> QED
      BY <2>6, ReleasedFree
  <2> QED
    BY <2>2, <2>5, <2>7
<1> QED
  BY <1>4, <1>5

LEMMA XMS_ResizeKeeps ==
  ASSUME ~Strays, IInv, NEW h \in XmsHandles, NEW size \in XmsSizes, XMS_ResizeMemory(h, size)
  PROVE  IInv'
<1> DEFINE k      == <<"xms", h>>
           handle == xms[h].mem
           n      == PagesFor(size)
           had    == PagesFor(xms[h].size)
           pages  == Reallocated(table, handle, n, TRUE)
           base   == IF handle > 0 /\ pages[1] # handle
                       THEN Copied(content, pages[1], handle, Len(PagesOf(table, handle)))
                       ELSE content
           r1     == [xms[h] EXCEPT !.mem = pages[1], !.size = size]
           r2     == [xms[h] EXCEPT !.mem = IF handle > 0 THEN LastPage ELSE handle, !.size = size]
           r3     == [xms[h] EXCEPT !.mem = IF handle > 0 THEN handle ELSE None]
<1>1. Types
  BY DEF IInv
<1>2. PICK own : Divided(own)
  BY Zenon DEF IInv
<1> DEFINE s == own[k]
<1>3. /\ k \in Owners /\ XmsMatch(xms[h], s) /\ s \in Seq(Memory)
      /\ ~Stray(xms[h]) => Holds(table, s, handle) /\ PagesOf(table, handle) = s
      /\ Stray(xms[h]) => s = <<>> /\ handle \in Memory
      /\ xms[h] \in XmsRecord /\ table \in Tables
  BY <1>1, <1>2, XmsHolds
<1>4. ~xms[h].free /\ UNCHANGED <<emm, vcpi, stopped>>
  BY Zenon DEF XMS_ResizeMemory
<1>5. \/ /\ n > 0 /\ pages # <<>> /\ ~Strayed(h, pages)
         /\ table' = MEM_ReAllocatePages(table, handle, pages)
         /\ xms' = [xms EXCEPT ![h] = r1]
         /\ content' = Fill(base, "xms", h, pages, had + 1)
      \/ /\ n = 0 /\ ~Strayed(h, <<>>)
         /\ table' = MEM_ReleasePages(table, handle)
         /\ xms' = [xms EXCEPT ![h] = r2]
         /\ content' = content
      \/ /\ xms' = [xms EXCEPT ![h] = r3]
         /\ table' = table /\ content' = content
  BY DEF XMS_ResizeMemory
<1>6. size \in Nat /\ n \in Nat /\ (n = 0 <=> size = 0)
  BY HandlesAssumption, PagesForSize
<1>7. Len(s) = had /\ InRow(s) /\ (~Stray(xms[h]) => Names(s, handle))
  BY <1>3, Zenon DEF XmsMatch
<1>8. Heap(table, content, own)
  BY <1>2 DEF Divided
<1> HIDE DEF n, had
<1> DEFINE Given == /\ n > 0 /\ pages # <<>> /\ ~Strayed(h, pages)
                    /\ table' = MEM_ReAllocatePages(table, handle, pages)
                    /\ xms' = [xms EXCEPT ![h] = r1]
                    /\ content' = Fill(base, "xms", h, pages, had + 1)
<1>9. ASSUME Given, pages \in Seq(Memory), Len(pages) = n, InRow(pages),
             Turns(table, table', s, pages), Filled(content, content', k, s, pages)
      PROVE  IInv'
  <2> HIDE DEF pages
  <2>1. pages[1] \in Memory /\ pages # <<>> /\ pages[1] \in Int
    <3>1. pages \in Seq(Memory) /\ pages # <<>>
      BY <1>9, Zenon
    <3>2. pages[1] \in Memory
      BY <3>1
    <3> QED
      BY <3>1, <3>2 DEF Memory
  <2>2. r1 \in XmsRecord /\ r1.mem = pages[1] /\ r1.size = size /\ r1.free = FALSE
    BY <1>3, <1>4, <1>6, <2>1 DEF XmsRecord, Memory
  <2>3. xms'[h] = r1 /\ \A g \in XmsHandles : g # h => xms'[g] = xms[g]
    BY <1>1, <1>9 DEF Types
  <2> HIDE DEF r1
  <2>4. XmsMatch(xms'[h], pages)
    <3>1. size # 0
      BY <1>6, <1>9
    <3> QED
      BY <1>9, <2>1, <2>2, <2>3, <3>1 DEF XmsMatch, Names, Stray, n
  <2>5. Types'
    BY <1>1, <1>4, <1>9, <2>2 DEF Types
  <2> QED
    BY <1>2, <1>4, <1>9, <2>3, <2>4, <2>5, XmsTurn
<1>12. CASE Given /\ ~Stray(xms[h])
  <2>0. Holds(table, s, handle) /\ PagesOf(table, handle) = s
    BY <1>3, <1>12
  <2>1. Regrown(table, s, pages) /\ Len(pages) = n /\ InRow(pages)
    <3>1. pages # <<>> /\ n > 0
      BY <1>12, Zenon
    <3>2. pages = Reallocated(table, handle, n, TRUE)
      OBVIOUS
    <3> HIDE DEF pages, handle, s
    <3>3. n \in Nat \ {0}
      BY <1>6, <3>1
    <3> DEFINE q == TRUE
    <3>4. q \in BOOLEAN /\ q /\ pages = Reallocated(table, handle, n, q)
      BY <3>2
    <3> HIDE DEF q
    <3>5. GrownTo(table, s, n, q, pages)
      BY <1>3, <1>7, <2>0, <3>1, <3>3, <3>4, ReallocatedIs
    <3> QED
      BY <3>4, <3>5, Zenon DEF GrownTo
  <2> HIDE DEF pages
  <2>2. Turns(table, table', s, pages)
    BY <1>3, <1>12, <2>0, <2>1, ReallocatedTurns
  <2>3. Filled(content, content', k, s, pages)
    <3>1. \A i \in 1 .. Len(s) : content[s[i]] = <<"xms", h, i>>
      <4>1. k[1] = "xms" /\ k[2] = h
        OBVIOUS
      <4> HIDE DEF k
      <4> QED
        BY <1>3, <1>8, <4>1, Zenon DEF Heap
    <3>2. base = IF handle > 0 /\ pages[1] # handle
                   THEN Copied(content, pages[1], handle, Len(s)) ELSE content
      BY <2>0, Zenon
    <3>3. content' = Fill(base, "xms", h, pages, Len(s) + 1)
      BY <1>7, <1>12, Zenon
    <3> HIDE DEF s, base, handle
    <3>4. Filled(content, Fill(base, "xms", h, pages, Len(s) + 1), <<"xms", h>>, s, pages)
      BY <1>3, <1>7, <2>0, <2>1, <3>1, <3>2, MovedFills
    <3> QED
      BY <3>3, <3>4, Zenon
  <2>4. pages \in Seq(Memory)
    BY <2>1, Zenon DEF Regrown
  <2> QED
    BY <1>9, <1>12, <2>1, <2>2, <2>3, <2>4, Zenon
<1>13. CASE Given /\ Stray(xms[h])
  <2>1. s = <<>> /\ handle \in Memory /\ handle > 0 /\ had = 0
    <3>1. s = <<>> /\ handle \in Memory
      BY <1>3, <1>13
    <3> QED
      BY <1>7, <3>1 DEF Memory
  <2>2. table[handle] = FreePage /\ pages # <<handle>> /\ FirstAtMost(pages, handle)
    <3> DEFINE m == Len(pages)
    <3>1. \A i \in 2 .. m : pages[i] # handle
      <4> HIDE DEF pages
      <4> QED
        BY <1>13 DEF Strayed, Stray
    <3>2. \A i \in 1 .. m : i > 1 => i \in 2 .. m
      <4> HIDE DEF m
      <4> QED
        OBVIOUS
    <3>3. table[handle] = FreePage /\ pages # <<handle>>
      <4> HIDE DEF pages
      <4> QED
        BY <1>13 DEF Strayed, Stray
    <3> HIDE DEF pages
    <3> QED
      BY <3>1, <3>2, <3>3, Zenon DEF FirstAtMost
  <2>3. n \in Nat /\ n > 1 /\ pages # <<>>
    <3>1. n \in Nat /\ n # 0 /\ pages # <<>>
      <4> HIDE DEF pages
      <4> QED
        BY <1>6, <1>13
    <3>2. ASSUME n = 1 PROVE FALSE
      <4> DEFINE old == <<handle>>
      <4>1. PagesOf(table, handle) = old /\ Len(old) = 1 /\ old \in Seq(Memory)
        <5> HIDE DEF handle
        <5> QED
          BY <2>1, <2>2, PagesOfFree
      <4> HIDE DEF old, handle
      <4>2. pages = SubSeq(old, 1, 1)
        <5>1. Len(old) >= n /\ ~(Len(old) < n)
          BY <3>2, <4>1
        <5> QED
          BY <3>2, <4>1, <5>1, Zenon DEF Reallocated
      <4>3. SubSeq(old, 1, 1) = old
        BY <4>1
      <4> HIDE DEF pages
      <4>4. pages # old
        BY <2>2, Zenon DEF old
      <4> QED
        BY <4>2, <4>3, <4>4, Zenon
    <3> HIDE DEF pages
    <3> QED
      BY <3>1, <3>2
  <2>4. /\ pages \in Seq(Memory) /\ Once(pages) /\ PagesIn(pages) \subseteq FreePages(table)
        /\ Len(pages) = n /\ InRow(pages)
        /\ MEM_ReAllocatePages(table, handle, pages) = Linked(table, pages)
    <3>1. InRowFor(table, handle, n, pages)
      BY DEF InRowFor
    <3> HIDE DEF pages, handle
    <3> QED
      BY <1>3, <2>1, <2>2, <2>3, <3>1, StrayReallocated
  <2>5. PagesOf(table, handle) = <<handle>>
    <3> HIDE DEF handle
    <3> QED
      BY <2>1, <2>2, PagesOfFree
  <2> HIDE DEF pages
  <2>6. Turns(table, table', s, pages)
    <3>1. table' = Linked(table, pages)
      BY <1>13, <2>4, Zenon
    <3>2. Turns(table, table', <<>>, pages)
      BY <1>3, <2>4, <3>1, LinkedTurns
    <3> QED
      BY <2>1, <3>2, Zenon
  <2>7. Filled(content, content', k, s, pages)
    <3>1. \A p \in Memory : p \notin PagesIn(pages) \cup PagesIn(s) => base[p] = content[p]
      <4> SUFFICES ASSUME NEW p \in Memory, p \notin PagesIn(pages) PROVE base[p] = content[p]
        OBVIOUS
      <4>1. pages[1] \in PagesIn(pages) /\ pages[1] \in Memory
        <5>1. 1 \in 1 .. Len(pages)
          BY <2>3, <2>4
        <5> QED
          BY <2>4, <5>1 DEF PagesIn
      <4>2. p # pages[1] /\ p \in Nat /\ pages[1] \in Nat
        BY <4>1 DEF Memory
      <4>3. base = content \/ base = Copied(content, pages[1], handle, 1)
        <5>1. Len(<<handle>>) = 1
          OBVIOUS
        <5> HIDE DEF handle
        <5> QED
          BY <2>5, <5>1
      <4>4. Copied(content, pages[1], handle, 1)[p] = content[p]
        <5>1. p \notin pages[1] .. pages[1] + 1 - 1
          BY <4>2
        <5> QED
          BY <5>1 DEF Copied
      <4> HIDE DEF base
      <4> QED
        BY <4>3, <4>4, Zenon
    <3>2. 1 \in Nat \ {0} /\ \A i \in 1 .. Len(pages) : i < 1 => base[pages[i]] = <<"xms", h, i>>
      OBVIOUS
    <3>3. content' = Fill(base, "xms", h, pages, 1)
      <4>1. had + 1 = 1
        BY <2>1
      <4> HIDE DEF base
      <4> QED
        BY <1>13, <4>1, Zenon
    <3> HIDE DEF base, s
    <3>4. Filled(content, Fill(base, "xms", h, pages, 1), <<"xms", h>>, s, pages)
      BY <2>4, <3>1, <3>2, Refilled, Zenon
    <3> QED
      BY <3>3, <3>4, Zenon
  <2> QED
    BY <1>9, <1>13, <2>4, <2>6, <2>7, Zenon
<1>10. CASE /\ n = 0 /\ ~Strayed(h, <<>>)
            /\ table' = MEM_ReleasePages(table, handle)
            /\ xms' = [xms EXCEPT ![h] = r2]
            /\ content' = content
  <2>1. Turns(table, table', s, <<>>)
    BY <1>1, <1>2, <1>10, StrayReleased
  <2>2. Filled(content, content', k, s, <<>>)
    <3> HIDE DEF k
    <3> QED
      BY <1>10 DEF Filled
  <2>3. handle > 0 \/ handle \in {LastPage, None}
    <3>1. CASE s # <<>> /\ ~Stray(xms[h])
      <4>1. s[1] \in Memory /\ handle = s[1]
        BY <1>3, <1>7, <3>1 DEF Names
      <4> QED
        BY <4>1 DEF Memory
    <3>2. CASE s = <<>> /\ ~Stray(xms[h])
      BY <1>7, <3>2 DEF Names
    <3>3. CASE Stray(xms[h])
      BY <3>3 DEF Stray
    <3> QED
      BY <3>1, <3>2, <3>3
  <2>4. handle \in Int
    BY <1>3 DEF XmsRecord
  <2>5. /\ r2 \in XmsRecord /\ r2.mem \in {LastPage, None}
        /\ r2.size = size /\ r2.free = FALSE
    <3> DEFINE v == IF handle > 0 THEN LastPage ELSE handle
    <3>1. v \in {LastPage, None} /\ v \in Int
      BY <2>3, <2>4 DEF LastPage
    <3>2. r2 = [xms[h] EXCEPT !.mem = v, !.size = size]
      OBVIOUS
    <3> HIDE DEF v, r2
    <3> QED
      BY <1>3, <1>4, <1>6, <3>1, <3>2 DEF XmsRecord
  <2>6. xms'[h] = r2 /\ \A g \in XmsHandles : g # h => xms'[g] = xms[g]
    BY <1>1, <1>10 DEF Types
  <2> HIDE DEF r2
  <2>7. XmsMatch(xms'[h], <<>>)
    <3>1. PagesFor(size) = 0 /\ Len(<<>>) = 0 /\ InRow(<<>>)
      BY <1>10 DEF n, InRow
    <3> QED
      BY <2>5, <2>6, <3>1 DEF XmsMatch, Names, Stray, LastPage, None
  <2>8. Types'
    BY <1>1, <1>4, <1>10, <2>5 DEF Types
  <2> QED
    BY <1>2, <1>4, <2>1, <2>2, <2>6, <2>7, <2>8, XmsTurn
<1>11. CASE xms' = [xms EXCEPT ![h] = r3] /\ table' = table /\ content' = content
  <2>1. r3 \in XmsRecord /\ r3.size = xms[h].size /\ r3.free = xms[h].free
    BY <1>3 DEF XmsRecord, None
  <2>2. r3.mem = xms[h].mem \/ (r3.mem = None /\ ~(xms[h].mem > 0))
    BY <1>3 DEF XmsRecord
  <2> HIDE DEF r3
  <2> QED
    BY <1>4, <1>11, <2>1, <2>2, XmsSame
<1> QED
  BY <1>5, <1>10, <1>11, <1>12, <1>13, Zenon

LEMMA EmsHolds ==
  ASSUME Types, NEW own, Divided(own), NEW h \in EmsHandles
  PROVE  /\ <<"ems", h>> \in Owners /\ EmsMatch(emm[h], own[<<"ems", h>>])
         /\ own[<<"ems", h>>] \in Seq(Memory)
         /\ Holds(table, own[<<"ems", h>>], emm[h].mem)
         /\ PagesOf(table, emm[h].mem) = own[<<"ems", h>>]
         /\ emm[h] \in EmsRecord /\ table \in Tables
<1>1. <<"ems", h>> \in Owners
  BY DEF Owners
<1>2. EmsMatch(emm[h], own[<<"ems", h>>])
  BY Zenon DEF Divided, Matches
<1>3. Heap(table, content, own)
  BY DEF Divided
<1>4. /\ Holds(table, own[<<"ems", h>>], emm[h].mem)
      /\ PagesOf(table, emm[h].mem) = own[<<"ems", h>>]
  <2>1. Names(own[<<"ems", h>>], emm[h].mem)
    BY <1>2, Zenon DEF EmsMatch
  <2> DEFINE k == <<"ems", h>>
  <2>2. k \in Owners /\ Names(own[k], emm[h].mem)
    BY <1>1, <2>1
  <2> HIDE DEF k
  <2>3. Holds(table, own[k], emm[h].mem) /\ PagesOf(table, emm[h].mem) = own[k]
    BY <1>3, <2>2, HeapHolds
  <2> QED
    BY <2>3, Zenon DEF k
<1>5. own[<<"ems", h>>] \in Seq(Memory) /\ table \in Tables
  BY <1>1, <1>3 DEF Heap
<1>6. emm[h] \in EmsRecord
  BY DEF Types
<1> QED
  BY <1>1, <1>2, <1>4, <1>5, <1>6

LEMMA EnoughPages ==
  ASSUME NEW f \in Nat, NEW p \in Nat \ {0}, NEW size \in Nat, f \div p >= size
  PROVE  size * p \in Nat /\ size * p <= f /\ (size * p = 0 <=> size = 0)
<1>1. f \div p \in Nat /\ (f \div p) * p <= f
  OBVIOUS
<1> DEFINE q == f \div p
<1>2. q \in Nat /\ q * p <= f /\ size <= q
  BY <1>1
<1> HIDE DEF q
<1>3. size * p <= q * p
  BY <1>2
<1>4. size * p \in Nat /\ (size * p = 0 <=> size = 0) /\ q * p \in Nat
  BY <1>2
<1> QED
  BY <1>2, <1>3, <1>4

LEMMA FreeTotalIs ==
  ASSUME NEW t
  PROVE  MEM_FreeTotal(t) \in Nat
<1>1. FreePages(t) \subseteq 1 .. Pages
  BY DEF FreePages, Memory
<1>2. IsFiniteSet(1 .. Pages)
  BY PagesAssumption, FS_Interval
<1>3. IsFiniteSet(FreePages(t))
  BY <1>1, <1>2, FS_Subset
<1> QED
  BY <1>3, FS_CardinalityType DEF MEM_FreeTotal

LEMMA EMM_AllocateKeeps ==
  ASSUME Past = 0, IInv, NEW size \in EmsSizes, EMM_AllocateMemory(size)
  PROVE  IInv'
<1> DEFINE h     == Min(FreeEms)
           n     == size * PerEmsPage
           pages == MEM_AllocatePages(table, n, FALSE)
           k     == <<"ems", h>>
           r     == [pages |-> size, mem |-> IF size = 0 THEN None ELSE pages[1]]
<1>1. Types
  BY DEF IInv
<1>2. PICK own : Divided(own)
  BY Zenon DEF IInv
<1>3. EMM_GetFreePages >= size /\ FreeEms # {} /\ UNCHANGED <<xms, vcpi>>
  BY Zenon DEF EMM_AllocateMemory
<1>4. h \in EmsHandles /\ emm[h].pages = Unused
  <2>1. FreeEms \subseteq EmsHandles /\ FreeEms \subseteq Nat
    BY HandlesAssumption DEF FreeEms
  <2>2. h \in FreeEms
    BY <1>3, <2>1, MinIs
  <2> QED
    BY <2>2 DEF FreeEms
<1>5. size \in Nat /\ PerEmsPage \in Nat \ {0}
  BY HandlesAssumption
<1>6. n \in Nat /\ n <= MEM_FreeTotal(table) /\ (n = 0 <=> size = 0)
  <2>1. MEM_FreeTotal(table) \in Nat /\ MEM_FreeTotal(table) \div PerEmsPage >= size
    BY <1>3, FreeTotalIs DEF EMM_GetFreePages
  <2> QED
    BY <1>5, <2>1, EnoughPages
<1>7. /\ k \in Owners /\ EmsMatch(emm[h], own[k]) /\ own[k] \in Seq(Memory)
      /\ table \in Tables /\ emm[h] \in EmsRecord
  <2> HIDE DEF h
  <2> QED
    BY <1>1, <1>2, <1>4, EmsHolds
<1>8. own[k] = <<>>
  <2>1. Len(own[k]) = 0
    BY <1>4, <1>7, Zenon DEF EmsMatch
  <2> QED
    BY <1>7, <2>1
<1>9. /\ pages \in Seq(Memory) /\ Once(pages) /\ PagesIn(pages) \subseteq FreePages(table)
      /\ Len(pages) = n
  <2> DEFINE q == FALSE
  <2>1. q \in BOOLEAN /\ ~q /\ pages = MEM_AllocatePages(table, n, q)
    OBVIOUS
  <2> HIDE DEF q, pages, n
  <2> QED
    BY <1>6, <1>7, <2>1, AllocatedIs
<1>10. /\ table' = Linked(table, pages) /\ emm' = [emm EXCEPT ![h] = r]
       /\ content' = Fill(content, "ems", h, pages, 1) /\ stopped' = stopped
  BY <1>9, Zenon DEF EMM_AllocateMemory
<1> HIDE DEF h, n, pages
<1>11. Turns(table, table', own[k], pages)
  BY <1>7, <1>8, <1>9, <1>10, LinkedTurns
<1>12. Filled(content, content', k, own[k], pages)
  BY <1>9, <1>10, FilledNew, Zenon
<1>13. r \in EmsRecord /\ r.pages = size /\ r.mem = IF size = 0 THEN None ELSE pages[1]
  <2>1. size # 0 => pages[1] \in Memory
    BY <1>6, <1>9
  <2> DEFINE m == IF size = 0 THEN None ELSE pages[1]
  <2>2. m \in Int
    BY <2>1 DEF Memory, None
  <2> HIDE DEF m
  <2>3. [pages |-> size, mem |-> m] \in EmsRecord
    BY <1>5, <2>2 DEF EmsRecord
  <2> QED
    BY <2>3 DEF m
<1>14. emm'[h] = r /\ \A g \in EmsHandles : g # h => emm'[g] = emm[g]
  BY <1>1, <1>4, <1>10 DEF Types
<1> HIDE DEF r
<1>15. EmsMatch(emm'[h], pages)
  <2>1. size # Unused
    BY <1>5 DEF Unused
  <2>2. pages = <<>> <=> size = 0
    BY <1>6, <1>9
  <2> QED
    BY <1>9, <1>13, <1>14, <2>1, <2>2 DEF EmsMatch, Names, n
<1>16. Types'
  BY <1>1, <1>3, <1>4, <1>10, <1>13 DEF Types
<1> QED
  BY <1>2, <1>3, <1>4, <1>11, <1>12, <1>14, <1>15, <1>16, EmsTurn

LEMMA EMM_ReleaseKeeps ==
  ASSUME IInv, NEW h \in EmsHandles, EMM_ReleaseMemory(h)
  PROVE  IInv'
<1> DEFINE k == <<"ems", h>>
           r == [pages |-> Unused, mem |-> None]
<1>1. Types
  BY DEF IInv
<1>2. PICK own : Divided(own)
  BY Zenon DEF IInv
<1> DEFINE s == own[k]
<1>3. /\ k \in Owners /\ EmsMatch(emm[h], s) /\ s \in Seq(Memory) /\ Holds(table, s, emm[h].mem)
      /\ table \in Tables /\ emm[h] \in EmsRecord
  BY <1>1, <1>2, EmsHolds
<1>4. /\ emm[h].pages # Unused
      /\ table' = IF emm[h].pages # 0 THEN MEM_ReleasePages(table, emm[h].mem) ELSE table
      /\ emm' = [emm EXCEPT ![h] = r]
      /\ UNCHANGED <<xms, vcpi, content, stopped>>
  BY Zenon DEF EMM_ReleaseMemory
<1>5. Turns(table, table', s, <<>>)
  <2>1. CASE emm[h].pages # 0
    BY <1>3, <1>4, <2>1, ReleasedTurns
  <2>2. CASE emm[h].pages = 0
    <3>1. Len(s) = 0 * PerEmsPage /\ 0 * PerEmsPage = 0
      BY <1>3, <1>4, <2>2, HandlesAssumption DEF EmsMatch
    <3>2. s = <<>> /\ table' = table
      BY <1>3, <1>4, <2>2, <3>1
    <3>3. Heap(table, content, own)
      BY <1>2 DEF Divided
    <3>4. Turns(table, table, s, s)
      <4> HIDE DEF k
      <4> QED
        BY <1>3, <3>3, SameTurns
    <3> QED
      BY <3>2, <3>4
  <2> QED
    BY <2>1, <2>2
<1>6. Filled(content, content', k, s, <<>>)
  <2> HIDE DEF k
  <2> QED
    BY <1>4 DEF Filled
<1>7. r \in EmsRecord
  BY DEF EmsRecord, Unused, None
<1>8. emm'[h] = r /\ \A g \in EmsHandles : g # h => emm'[g] = emm[g]
  BY <1>1, <1>4 DEF Types
<1>9. EmsMatch(emm'[h], <<>>)
  BY <1>8 DEF EmsMatch, Names
<1> HIDE DEF r
<1>10. Types'
  BY <1>1, <1>4, <1>7 DEF Types
<1> QED
  BY <1>2, <1>4, <1>5, <1>6, <1>8, <1>9, <1>10, EmsTurn

LEMMA EMM_ReallocateKeeps ==
  ASSUME Past = 0, IInv, NEW h \in EmsHandles, NEW size \in EmsSizes, EMM_ReallocatePages(h, size)
  PROVE  IInv'
<1> DEFINE k      == <<"ems", h>>
           had    == emm[h].pages
           handle == emm[h].mem
           n      == size * PerEmsPage
           first  == MEM_AllocatePages(table, n, FALSE)
           more   == Reallocated(table, handle, n, FALSE)
           pages  == IF had = 0 THEN first ELSE more
           r1     == [pages |-> size, mem |-> IF n = 0 THEN LastPage ELSE pages[1]]
           r2     == [pages |-> size, mem |-> pages[1]]
<1>1. Types
  BY DEF IInv
<1>2. PICK own : Divided(own)
  BY Zenon DEF IInv
<1> DEFINE s == own[k]
<1>3. /\ k \in Owners /\ EmsMatch(emm[h], s) /\ s \in Seq(Memory) /\ Holds(table, s, handle)
      /\ PagesOf(table, handle) = s /\ table \in Tables /\ emm[h] \in EmsRecord
  BY <1>1, <1>2, EmsHolds
<1>4. had # Unused /\ UNCHANGED <<xms, vcpi>>
  BY Zenon DEF EMM_ReallocatePages
<1>5. \/ /\ had # 0 /\ (n = 0 \/ pages # <<>>)
         /\ table' = IF n = 0 THEN MEM_ReleasePages(table, handle)
                              ELSE MEM_ReAllocatePages(table, handle, pages)
         /\ emm' = [emm EXCEPT ![h] = r1]
         /\ content' = Fill(content, "ems", h, pages, had * PerEmsPage + 1)
         /\ stopped' = stopped
      \/ /\ had = 0 /\ pages # <<>>
         /\ table' = Linked(table, pages)
         /\ emm' = [emm EXCEPT ![h] = r2]
         /\ content' = Fill(content, "ems", h, pages, 1)
         /\ stopped' = stopped
      \/ /\ stopped' = "reallocation"
         /\ table' = table /\ emm' = emm /\ content' = content
  BY DEF EMM_ReallocatePages
<1>6. size \in Nat /\ PerEmsPage \in Nat \ {0} /\ n \in Nat /\ (n = 0 <=> size = 0)
  BY HandlesAssumption
<1>7. /\ had \in Nat /\ Len(s) = had * PerEmsPage /\ Names(s, handle) /\ Len(s) \in Nat
      /\ s = <<>> <=> had = 0
  <2>1. had \in Nat
    BY <1>3, <1>4 DEF EmsRecord
  <2>2. Len(s) = had * PerEmsPage /\ Names(s, handle)
    BY <1>3, <1>4, Zenon DEF EmsMatch
  <2>3. Len(s) \in Nat /\ (s = <<>> <=> Len(s) = 0)
    BY <1>3
  <2> DEFINE l == Len(s)
  <2> HIDE DEF l
  <2>4. l = had * PerEmsPage
    BY <2>2 DEF l
  <2>5. l = 0 <=> had = 0
    <3> HIDE DEF had
    <3> QED
      BY <1>6, <2>1, <2>4
  <2> QED
    BY <2>1, <2>2, <2>3, <2>5 DEF l
<1>8. Heap(table, content, own)
  BY <1>2 DEF Divided
<1>9. \A i \in 1 .. Len(s) : content[s[i]] = <<"ems", h, i>>
  <2>1. k[1] = "ems" /\ k[2] = h
    OBVIOUS
  <2> HIDE DEF k
  <2> QED
    BY <1>3, <1>8, <2>1, Zenon DEF Heap
<1> HIDE DEF n
<1>10. CASE /\ had # 0 /\ n = 0
            /\ table' = MEM_ReleasePages(table, handle)
            /\ emm' = [emm EXCEPT ![h] = r1]
            /\ content' = Fill(content, "ems", h, pages, had * PerEmsPage + 1)
            /\ stopped' = stopped
  <2>1. pages = <<>>
    <3>1. Len(s) >= 0 /\ ~(Len(s) < 0)
      BY <1>7
    <3>2. more = SubSeq(s, 1, 0)
      BY <1>3, <1>10, <3>1, Zenon DEF Reallocated
    <3>3. SubSeq(s, 1, 0) = <<>>
      BY <1>3
    <3> HIDE DEF more, first
    <3> QED
      BY <1>10, <3>2, <3>3
  <2> HIDE DEF pages
  <2>2. Turns(table, table', s, <<>>)
    BY <1>3, <1>10, ReleasedTurns
  <2>3. Filled(content, content', k, s, <<>>)
    <3>1. content' = [p \in Memory |-> content[p]]
      <4>1. had * PerEmsPage + 1 .. Len(<<>>) = {}
        BY <1>7
      <4>2. content' = Fill(content, "ems", h, <<>>, had * PerEmsPage + 1)
        BY <1>10, <2>1, Zenon
      <4> QED
        BY <4>1, <4>2 DEF Fill
    <3> HIDE DEF k
    <3> QED
      BY <3>1 DEF Filled
  <2>4. r1 \in EmsRecord /\ r1.pages = 0 /\ r1.mem = LastPage
    BY <1>6, <1>10 DEF EmsRecord, LastPage
  <2>5. emm'[h] = r1 /\ \A g \in EmsHandles : g # h => emm'[g] = emm[g]
    BY <1>1, <1>10 DEF Types
  <2> HIDE DEF r1
  <2>6. EmsMatch(emm'[h], <<>>)
    <3>1. 0 * PerEmsPage = 0
      BY <1>6
    <3> QED
      BY <2>4, <2>5, <3>1 DEF EmsMatch, Names, Unused
  <2>7. Types'
    BY <1>1, <1>4, <1>10, <2>4 DEF Types
  <2> QED
    BY <1>2, <1>4, <2>2, <2>3, <2>5, <2>6, <2>7, EmsTurn
<1>11. CASE /\ had # 0 /\ n # 0 /\ pages # <<>>
            /\ table' = MEM_ReAllocatePages(table, handle, pages)
            /\ emm' = [emm EXCEPT ![h] = r1]
            /\ content' = Fill(content, "ems", h, pages, had * PerEmsPage + 1)
            /\ stopped' = stopped
  <2>1. /\ Regrown(table, s, pages) /\ Len(pages) = n
        /\ \A i \in 1 .. Len(s) : i \in 1 .. Len(pages) => pages[i] = s[i]
    <3>1. pages # <<>> /\ n # 0 /\ pages = more
      BY <1>11, Zenon
    <3>2. n \in Nat \ {0}
      BY <1>6, <3>1
    <3> DEFINE q == FALSE
    <3>3. q \in BOOLEAN /\ ~q /\ pages = Reallocated(table, handle, n, q)
      BY <3>1
    <3> HIDE DEF pages, more, handle, s, q
    <3>4. GrownTo(table, s, n, q, pages)
      BY <1>3, <3>1, <3>2, <3>3, ReallocatedIs
    <3> QED
      BY <3>3, <3>4, Zenon DEF GrownTo
  <2> HIDE DEF pages
  <2>2. Turns(table, table', s, pages)
    BY <1>3, <1>11, <2>1, ReallocatedTurns
  <2>3. pages \in Seq(Memory) /\ Once(pages) /\ pages # <<>>
    BY <2>1, Zenon DEF Regrown
  <2>4. Filled(content, content', k, s, pages)
    <3>1. had * PerEmsPage + 1 \in Nat \ {0}
      BY <1>7
    <3>2. \A i \in 1 .. Len(pages) : i < had * PerEmsPage + 1 => content[pages[i]] = <<"ems", h, i>>
      <4> SUFFICES ASSUME NEW i \in 1 .. Len(pages), i < had * PerEmsPage + 1
                   PROVE  content[pages[i]] = <<"ems", h, i>>
        OBVIOUS
      <4>1. i \in 1 .. Len(s)
        <5> DEFINE l == Len(s)
        <5>1. l \in Nat /\ i < l + 1 /\ i \in Nat \ {0}
          BY <1>7, <2>3
        <5> HIDE DEF l
        <5>2. i \in 1 .. l
          BY <5>1
        <5> QED
          BY <5>2 DEF l
      <4>2. pages[i] = s[i]
        BY <2>1, <4>1, Zenon
      <4> QED
        BY <1>9, <4>1, <4>2, Zenon
    <3>3. \A p \in Memory : p \notin PagesIn(pages) \cup PagesIn(s) => content[p] = content[p]
      OBVIOUS
    <3> HIDE DEF s, had
    <3>4. Filled(content, Fill(content, "ems", h, pages, had * PerEmsPage + 1),
                 <<"ems", h>>, s, pages)
      BY <2>3, <3>1, <3>2, <3>3, Refilled, Zenon
    <3> QED
      BY <1>11, <3>4, Zenon
  <2>5. pages[1] \in Memory
    BY <2>3
  <2>6. r1 \in EmsRecord /\ r1.pages = size /\ r1.mem = pages[1]
    BY <1>6, <1>11, <2>5 DEF EmsRecord, Memory
  <2>7. emm'[h] = r1 /\ \A g \in EmsHandles : g # h => emm'[g] = emm[g]
    BY <1>1, <1>11 DEF Types
  <2> HIDE DEF r1
  <2>8. EmsMatch(emm'[h], pages)
    <3>1. size # Unused
      BY <1>6 DEF Unused
    <3> QED
      BY <2>1, <2>3, <2>6, <2>7, <3>1 DEF EmsMatch, Names, n
  <2>9. Types'
    BY <1>1, <1>4, <1>11, <2>6 DEF Types
  <2> QED
    BY <1>2, <1>4, <2>2, <2>4, <2>7, <2>8, <2>9, EmsTurn
<1>12. CASE /\ had = 0 /\ pages # <<>>
            /\ table' = Linked(table, pages)
            /\ emm' = [emm EXCEPT ![h] = r2]
            /\ content' = Fill(content, "ems", h, pages, 1)
            /\ stopped' = stopped
  <2>1. /\ pages \in Seq(Memory) /\ Once(pages) /\ PagesIn(pages) \subseteq FreePages(table)
        /\ Len(pages) = n
    <3>1. pages # <<>> /\ pages = first
      BY <1>12, Zenon
    <3> DEFINE q == FALSE
    <3>2. q \in BOOLEAN /\ pages = MEM_AllocatePages(table, n, q)
      BY <3>1
    <3> HIDE DEF q, pages, first
    <3> QED
      BY <1>3, <1>6, <3>1, <3>2, AllocatedIs
  <2> HIDE DEF pages
  <2>2. Turns(table, table', s, pages)
    <3>1. s = <<>>
      BY <1>7, <1>12, Zenon
    <3> HIDE DEF s
    <3> QED
      BY <1>3, <1>12, <2>1, <3>1, LinkedTurns
  <2>3. Filled(content, content', k, s, pages)
    BY <1>12, <2>1, FilledNew, Zenon
  <2>4. pages[1] \in Memory /\ size # 0 /\ pages # <<>>
    BY <1>6, <1>12, <2>1
  <2>5. r2 \in EmsRecord /\ r2.pages = size /\ r2.mem = pages[1]
    BY <1>6, <2>4 DEF EmsRecord, Memory
  <2>6. emm'[h] = r2 /\ \A g \in EmsHandles : g # h => emm'[g] = emm[g]
    BY <1>1, <1>12 DEF Types
  <2> HIDE DEF r2
  <2>7. EmsMatch(emm'[h], pages)
    <3>1. size # Unused
      BY <1>6 DEF Unused
    <3> QED
      BY <2>1, <2>4, <2>5, <2>6, <3>1 DEF EmsMatch, Names, n
  <2>8. Types'
    BY <1>1, <1>4, <1>12, <2>5 DEF Types
  <2> QED
    BY <1>2, <1>4, <2>2, <2>3, <2>6, <2>7, <2>8, EmsTurn
<1>13. CASE /\ stopped' = "reallocation"
            /\ table' = table /\ emm' = emm /\ content' = content
  <2>1. Turns(table, table', s, s) /\ Filled(content, content', k, s, s)
    <3> HIDE DEF k
    <3> QED
      BY <1>3, <1>8, <1>13, SameTurns
  <2>2. EmsMatch(emm'[h], s) /\ \A g \in EmsHandles : g # h => emm'[g] = emm[g]
    BY <1>3, <1>13
  <2>3. Types'
    BY <1>1, <1>4, <1>13 DEF Types
  <2> QED
    BY <1>2, <1>4, <2>1, <2>2, <2>3, EmsTurn
<1> HIDE DEF pages, r1, r2, had, handle
<1>14. \/ n = 0 /\ table' = MEM_ReleasePages(table, handle)
       \/ n # 0 /\ table' = MEM_ReAllocatePages(table, handle, pages)
       \/ ~(had # 0 /\ table' = IF n = 0 THEN MEM_ReleasePages(table, handle)
                                         ELSE MEM_ReAllocatePages(table, handle, pages))
  BY Zenon
<1> QED
  BY <1>5, <1>10, <1>11, <1>12, <1>13, <1>14, Zenon

LEMMA VcpiHolds ==
  ASSUME Types, NEW own, Divided(own), NEW p \in Memory
  PROVE  /\ <<"vcpi", p>> \in Owners
         /\ own[<<"vcpi", p>>] = IF p \in vcpi THEN <<p>> ELSE <<>>
         /\ p \in vcpi => IsBlock(table, <<p>>) /\ PagesOf(table, p) = <<p>>
         /\ table \in Tables
<1> DEFINE k == <<"vcpi", p>>
<1>1. k \in Owners
  BY DEF Owners
<1>2. own[k] = IF p \in vcpi THEN <<p>> ELSE <<>>
  BY Zenon DEF Divided, Matches
<1>3. Heap(table, content, own)
  BY DEF Divided
<1>4. table \in Tables
  BY <1>3, Zenon DEF Heap
<1> HIDE DEF k
<1>5. ASSUME p \in vcpi PROVE IsBlock(table, <<p>>) /\ PagesOf(table, p) = <<p>>
  <2>1. own[k] = <<p>>
    BY <1>2, <1>5
  <2>2. own[k] # <<>>
    BY <2>1
  <2>3. IsBlock(table, own[k])
    BY <1>1, <1>3, <2>2, Zenon DEF Heap
  <2>4. Names(own[k], p)
    BY <2>1 DEF Names
  <2>5. PagesOf(table, p) = own[k]
    BY <1>1, <1>3, <2>4, HeapHolds, Zenon
  <2> QED
    BY <2>1, <2>3, <2>5, Zenon
<1> QED
  BY <1>1, <1>2, <1>4, <1>5 DEF k

LEMMA OnePage ==
  ASSUME NEW s \in Seq(Memory), Len(s) = 1
  PROVE  s[1] \in Memory /\ s = <<s[1]>>
<1> DEFINE u == <<s[1]>>
<1>1. s[1] \in Memory
  OBVIOUS
<1>2. u \in Seq(Memory) /\ Len(u) = 1 /\ u[1] = s[1]
  BY <1>1
<1>3. \A i \in 1 .. 1 : i = 1
  OBVIOUS
<1> HIDE DEF u
<1>4. s = u
  BY <1>2, <1>3, SeqEqual
<1> QED
  BY <1>1, <1>4 DEF u

LEMMA VCPI_AllocateKeeps ==
  ASSUME IInv, VCPI_AllocatePage
  PROVE  IInv'
<1> DEFINE pages == MEM_AllocatePages(table, 1, FALSE)
           q     == pages[1]
           k     == <<"vcpi", q>>
<1>1. Types
  BY DEF IInv
<1>2. PICK own : Divided(own)
  BY Zenon DEF IInv
<1>3. /\ pages # <<>> /\ table' = Linked(table, pages)
      /\ vcpi' = vcpi \cup {q}
      /\ content' = Fill(content, "vcpi", q, pages, 1)
      /\ UNCHANGED <<xms, emm, stopped>>
  BY Zenon DEF VCPI_AllocatePage
<1>4. table \in Tables
  BY <1>2 DEF Divided, Heap
<1>5. /\ pages \in Seq(Memory) /\ Once(pages) /\ PagesIn(pages) \subseteq FreePages(table)
      /\ Len(pages) = 1
  <2> DEFINE f == FALSE
  <2>1. f \in BOOLEAN /\ pages = MEM_AllocatePages(table, 1, f) /\ 1 \in Nat
    OBVIOUS
  <2> HIDE DEF f, pages
  <2> QED
    BY <1>3, <1>4, <2>1, AllocatedIs
<1> HIDE DEF pages
<1>6. q \in Memory /\ pages = <<q>> /\ q \in FreePages(table)
  <2>1. q \in Memory /\ pages = <<q>>
    BY <1>5, OnePage
  <2>2. q \in PagesIn(pages)
    BY <1>5 DEF PagesIn
  <2> QED
    BY <1>5, <2>1, <2>2
<1> HIDE DEF q
<1>7. q \notin vcpi
  <2> SUFFICES ASSUME q \in vcpi PROVE FALSE
    OBVIOUS
  <2>1. IsBlock(table, <<q>>)
    BY <1>1, <1>2, <1>6, VcpiHolds
  <2>2. table[q] = LastPage
    BY <2>1 DEF IsBlock
  <2> QED
    BY <1>6, <2>2 DEF FreePages, FreePage, LastPage
<1>8. own[k] = <<>> /\ k \in Owners
  BY <1>1, <1>2, <1>6, <1>7, VcpiHolds
<1>9. Turns(table, table', own[k], pages)
  BY <1>3, <1>4, <1>5, <1>8, LinkedTurns
<1>10. Filled(content, content', k, own[k], pages)
  BY <1>3, <1>5, FilledNew, Zenon
<1>11. \A p \in Memory : p # q => (p \in vcpi' <=> p \in vcpi)
  BY <1>3
<1>12. pages = IF q \in vcpi' THEN <<q>> ELSE <<>>
  BY <1>3, <1>6
<1>13. Types'
  BY <1>1, <1>3, <1>6 DEF Types
<1> QED
  BY <1>2, <1>3, <1>6, <1>9, <1>10, <1>11, <1>12, <1>13, VcpiTurn

LEMMA VCPI_FreeKeeps ==
  ASSUME IInv, NEW q \in vcpi, VCPI_FreePage(q)
  PROVE  IInv'
<1> DEFINE k == <<"vcpi", q>>
<1>1. Types
  BY DEF IInv
<1>2. PICK own : Divided(own)
  BY Zenon DEF IInv
<1>3. /\ table' = MEM_ReleasePages(table, q) /\ vcpi' = vcpi \ {q}
      /\ UNCHANGED <<xms, emm, content, stopped>>
  BY Zenon DEF VCPI_FreePage
<1>4. q \in Memory
  BY <1>1 DEF Types
<1>5. k \in Owners /\ own[k] = <<q>> /\ IsBlock(table, <<q>>) /\ table \in Tables
  BY <1>1, <1>2, <1>4, VcpiHolds
<1>6. Turns(table, table', own[k], <<>>)
  <2>1. Holds(table, own[k], q)
    BY <1>5 DEF Holds
  <2> HIDE DEF k
  <2> QED
    BY <1>3, <1>5, <2>1, ReleasedTurns
<1>7. Filled(content, content', k, own[k], <<>>)
  <2> HIDE DEF k
  <2> QED
    BY <1>3 DEF Filled
<1>8. \A p \in Memory : p # q => (p \in vcpi' <=> p \in vcpi)
  BY <1>3
<1>9. <<>> = IF q \in vcpi' THEN <<q>> ELSE <<>>
  BY <1>3
<1>10. Types'
  BY <1>1, <1>3 DEF Types
<1> QED
  BY <1>2, <1>3, <1>4, <1>6, <1>7, <1>8, <1>9, <1>10, VcpiTurn
-----------------------------------------------------------------------------
LEMMA NextIInv ==
  ASSUME Past = 0 \/ EmsHandles = {}, ~Strays, IInv, [Next]_vars
  PROVE  IInv'
<1>1. CASE \E size \in XmsSizes : XMS_AllocateMemory(size)
  BY <1>1, XMS_AllocateKeeps
<1>2. CASE \E h \in XmsHandles : XMS_FreeMemory(h)
  BY <1>2, XMS_FreeKeeps
<1>3. CASE \E h \in XmsHandles, size \in XmsSizes : XMS_ResizeMemory(h, size)
  BY <1>3, XMS_ResizeKeeps
<1>4. CASE \E h \in XmsHandles : XMS_LockMemory(h) \/ XMS_UnlockMemory(h)
  BY <1>4, XMS_LockKeeps
<1>5. CASE \E size \in EmsSizes : EMM_AllocateMemory(size)
  <2>1. EmsHandles # {}
    BY <1>5 DEF EMM_AllocateMemory, FreeEms
  <2> QED
    BY <1>5, <2>1, EMM_AllocateKeeps
<1>6. CASE \E h \in EmsHandles, size \in EmsSizes : EMM_ReallocatePages(h, size)
  <2>1. EmsHandles # {}
    BY <1>6
  <2> QED
    BY <1>6, <2>1, EMM_ReallocateKeeps
<1>7. CASE \E h \in EmsHandles : EMM_ReleaseMemory(h)
  BY <1>7, EMM_ReleaseKeeps
<1>8. CASE VCPI_AllocatePage
  BY <1>8, VCPI_AllocateKeeps
<1>9. CASE \E p \in vcpi : VCPI_FreePage(p)
  BY <1>9, VCPI_FreeKeeps
<1>10. CASE UNCHANGED vars
  BY <1>10 DEF vars, IInv, Types, Divided, Matches
<1> QED
  BY <1>1, <1>2, <1>3, <1>4, <1>5, <1>6, <1>7, <1>8, <1>9, <1>10, Zenon DEF Next, Step

(***************************************************************************)
(* However programs allocate, resize, lock and free through the three      *)
(* drivers, some division of the pages among their owners is a heap, and   *)
(* the handles of the drivers name its blocks.                             *)
(***************************************************************************)
THEOREM Invariance ==
  ASSUME Past = 0 \/ EmsHandles = {}, ~Strays
  PROVE  Spec => []IInv
<1>1. Init => IInv
  BY InitIInv
<1>2. IInv /\ [Next]_vars => IInv'
  BY NextIInv
<1> QED
  BY <1>1, <1>2, PTL DEF Spec

(* What a program holds is the block of an owner.                          *)
LEMMA HeldIs ==
  ASSUME Types, NEW own, Divided(own), NEW b \in Held
  PROVE  /\ <<b[1], b[2]>> \in Owners
         /\ PagesOf(table, b[3]) = own[<<b[1], b[2]>>] /\ Len(own[<<b[1], b[2]>>]) = b[4]
<1>1. ASSUME NEW h \in XmsHandles, xms[h].size > 0,
             b = <<"xms", h, xms[h].mem, PagesFor(xms[h].size)>>
      PROVE  /\ <<b[1], b[2]>> \in Owners
             /\ PagesOf(table, b[3]) = own[<<b[1], b[2]>>] /\ Len(own[<<b[1], b[2]>>]) = b[4]
  <2>1. b[1] = "xms" /\ b[2] = h /\ b[3] = xms[h].mem /\ b[4] = PagesFor(xms[h].size)
    BY <1>1
  <2>2. ~Stray(xms[h])
    BY <1>1 DEF Stray
  <2> QED
    BY <2>1, <2>2, XmsHolds, Zenon DEF XmsMatch
<1>2. ASSUME NEW h \in EmsHandles, emm[h].pages > 0,
             b = <<"ems", h, emm[h].mem, emm[h].pages * PerEmsPage>>
      PROVE  /\ <<b[1], b[2]>> \in Owners
             /\ PagesOf(table, b[3]) = own[<<b[1], b[2]>>] /\ Len(own[<<b[1], b[2]>>]) = b[4]
  <2>1. b[1] = "ems" /\ b[2] = h /\ b[3] = emm[h].mem /\ b[4] = emm[h].pages * PerEmsPage
    BY <1>2
  <2>2. emm[h].pages # Unused
    BY <1>2 DEF Unused
  <2> QED
    BY <2>1, <2>2, EmsHolds, Zenon DEF EmsMatch
<1>3. ASSUME NEW p \in vcpi, b = <<"vcpi", p, p, 1>>
      PROVE  /\ <<b[1], b[2]>> \in Owners
             /\ PagesOf(table, b[3]) = own[<<b[1], b[2]>>] /\ Len(own[<<b[1], b[2]>>]) = b[4]
  <2>1. b[1] = "vcpi" /\ b[2] = p /\ b[3] = p /\ b[4] = 1
    BY <1>3
  <2>2. p \in Memory
    BY DEF Types
  <2>3. Len(<<p>>) = 1 /\ own[<<"vcpi", p>>] = <<p>>
    BY <2>2, VcpiHolds
  <2> QED
    BY <2>1, <2>2, <2>3, VcpiHolds, Zenon
<1> QED
  BY <1>1, <1>2, <1>3 DEF Held

(* Who owns pages holds them.                                              *)
LEMMA OwnerHolds ==
  ASSUME Types, NEW own, Divided(own), NEW k \in Owners, own[k] # <<>>
  PROVE  \E b \in Held : PagesOf(table, b[3]) = own[k] /\ b[4] = Len(own[k])
<1>1. ASSUME NEW h \in XmsHandles, k = <<"xms", h>>
      PROVE  \E b \in Held : PagesOf(table, b[3]) = own[k] /\ b[4] = Len(own[k])
  <2> DEFINE b == <<"xms", h, xms[h].mem, PagesFor(xms[h].size)>>
  <2>1. /\ XmsMatch(xms[h], own[k]) /\ own[k] \in Seq(Memory)
        /\ PagesOf(table, xms[h].mem) = own[k] /\ xms[h] \in XmsRecord
    <3>1. ~Stray(xms[h])
      BY <1>1, XmsHolds
    <3> QED
      BY <1>1, <3>1, XmsHolds
  <2>2. Len(own[k]) = PagesFor(xms[h].size) /\ Len(own[k]) # 0
    BY <2>1 DEF XmsMatch
  <2>3. xms[h].size \in Nat /\ xms[h].size # 0
    BY <2>1, <2>2, PagesForSize DEF XmsRecord
  <2>4. b \in Held
    BY <2>3 DEF Held
  <2>5. b[3] = xms[h].mem /\ b[4] = PagesFor(xms[h].size)
    OBVIOUS
  <2> QED
    BY <2>1, <2>2, <2>4, <2>5
<1>2. ASSUME NEW h \in EmsHandles, k = <<"ems", h>>
      PROVE  \E b \in Held : PagesOf(table, b[3]) = own[k] /\ b[4] = Len(own[k])
  <2> DEFINE b == <<"ems", h, emm[h].mem, emm[h].pages * PerEmsPage>>
  <2>1. /\ EmsMatch(emm[h], own[k]) /\ own[k] \in Seq(Memory)
        /\ PagesOf(table, emm[h].mem) = own[k] /\ emm[h] \in EmsRecord
    BY <1>2, EmsHolds
  <2>2. Len(own[k]) # 0
    BY <2>1
  <2>3. emm[h].pages # Unused
    BY <2>1, <2>2, Zenon DEF EmsMatch
  <2>4. Len(own[k]) = emm[h].pages * PerEmsPage
    BY <2>1, <2>3, Zenon DEF EmsMatch
  <2>5. emm[h].pages \in Nat
    BY <2>1, <2>3 DEF EmsRecord
  <2>6. emm[h].pages # 0
    <3>1. 0 * PerEmsPage = 0
      BY HandlesAssumption
    <3> QED
      BY <2>2, <2>4, <3>1, Zenon
  <2>7. b \in Held
    BY <2>5, <2>6 DEF Held
  <2>8. b[3] = emm[h].mem /\ b[4] = emm[h].pages * PerEmsPage
    OBVIOUS
  <2> QED
    BY <2>1, <2>4, <2>7, <2>8
<1>3. ASSUME NEW p \in Memory, k = <<"vcpi", p>>
      PROVE  \E b \in Held : PagesOf(table, b[3]) = own[k] /\ b[4] = Len(own[k])
  <2> DEFINE b == <<"vcpi", p, p, 1>>
  <2>1. own[k] = IF p \in vcpi THEN <<p>> ELSE <<>>
    BY <1>3, VcpiHolds
  <2>2. p \in vcpi
    BY <2>1
  <2>3. own[k] = <<p>> /\ PagesOf(table, p) = <<p>> /\ Len(<<p>>) = 1
    BY <2>1, <2>2, VcpiHolds
  <2>4. b \in Held /\ b[3] = p /\ b[4] = 1
    BY <2>2 DEF Held
  <2> HIDE DEF b
  <2> QED
    BY <2>3, <2>4, Zenon
<1> QED
  BY <1>1, <1>2, <1>3 DEF Owners

LEMMA IInvTypeOK == ASSUME IInv PROVE TypeOK
<1>1. Types
  BY DEF IInv
<1>2. PICK own : Divided(own)
  BY Zenon DEF IInv
<1>3. Memory \subseteq Words
  BY PagesAssumption DEF Memory, Words
<1>4. table \in [Words -> {LastPage, FreePage} \cup Words]
  <2>1. table \in Tables
    BY <1>2 DEF Divided, Heap
  <2> QED
    BY <1>3, <2>1 DEF Tables
<1>5. ASSUME NEW h \in XmsHandles
      PROVE  /\ xms[h].free \in BOOLEAN /\ xms[h].mem \in {LastPage, None} \cup Memory
             /\ xms[h].size \in Nat /\ xms[h].locked \in 0 .. MaxLock
  <2>1. /\ xms[h] \in XmsRecord
        /\ Stray(xms[h]) => xms[h].mem \in Memory
        /\ ~Stray(xms[h]) => Holds(table, own[<<"xms", h>>], xms[h].mem)
    BY <1>1, <1>2, XmsHolds
  <2>2. xms[h].mem \in {LastPage, None} \cup Memory
    BY <2>1 DEF Holds, IsBlock
  <2> QED
    BY <2>1, <2>2 DEF XmsRecord
<1>6. ASSUME NEW h \in EmsHandles
      PROVE  emm[h].pages \in Nat \cup {Unused} /\ emm[h].mem \in {LastPage, None} \cup Words
  <2>1. emm[h] \in EmsRecord /\ Holds(table, own[<<"ems", h>>], emm[h].mem)
    BY <1>1, <1>2, EmsHolds
  <2>2. emm[h].mem \in {LastPage, None} \cup Memory
    BY <2>1 DEF Holds, IsBlock
  <2> QED
    BY <1>3, <2>1, <2>2 DEF EmsRecord
<1> QED
  BY <1>1, <1>3, <1>4, <1>5, <1>6 DEF TypeOK, Types

LEMMA IInvDataKept == ASSUME IInv PROVE DataKept
<1>1. Types
  BY DEF IInv
<1>2. PICK own : Divided(own)
  BY Zenon DEF IInv
<1>3. ASSUME NEW b \in Held
      PROVE  LET pages == PagesOf(table, b[3])
             IN  /\ Len(pages) = b[4]
                 /\ \A i \in 1 .. Len(pages) :
                      pages[i] \in Memory /\ content[pages[i]] = <<b[1], b[2], i>>
  <2> DEFINE k == <<b[1], b[2]>>
  <2>1. k \in Owners /\ PagesOf(table, b[3]) = own[k] /\ Len(own[k]) = b[4]
    BY <1>1, <1>2, HeldIs
  <2>2. k[1] = b[1] /\ k[2] = b[2]
    OBVIOUS
  <2> HIDE DEF k
  <2>3. /\ own[k] \in Seq(Memory)
        /\ \A i \in 1 .. Len(own[k]) : content[own[k][i]] = <<k[1], k[2], i>>
    BY <1>2, <2>1 DEF Divided, Heap
  <2>4. \A i \in 1 .. Len(own[k]) : own[k][i] \in Memory
    BY <2>3
  <2> QED
    BY <2>1, <2>2, <2>3, <2>4
<1> QED
  BY <1>3 DEF DataKept

LEMMA IInvNoPageLost == ASSUME IInv PROVE NoPageLost
<1>1. Types
  BY DEF IInv
<1>2. PICK own : Divided(own)
  BY Zenon DEF IInv
<1>3. Heap(table, content, own)
  BY <1>2 DEF Divided
<1>4. ASSUME NEW p \in Memory, table[p] # FreePage
      PROVE  \E b \in Held : p \in {PagesOf(table, b[3])[i] : i \in 1 .. b[4]}
  <2>1. PICK k \in Owners : p \in PagesIn(own[k])
    BY <1>3, <1>4, Zenon DEF Heap
  <2>2. own[k] # <<>>
    BY <2>1 DEF PagesIn
  <2>3. PICK b \in Held : PagesOf(table, b[3]) = own[k] /\ b[4] = Len(own[k])
    BY <1>1, <1>2, <2>2, OwnerHolds
  <2> QED
    BY <2>1, <2>3 DEF PagesIn
<1>5. ASSUME NEW b \in Held, NEW i \in 1 .. b[4]
      PROVE  PagesOf(table, b[3])[i] \in Memory /\ table[PagesOf(table, b[3])[i]] # FreePage
  <2> DEFINE k == <<b[1], b[2]>>
  <2>1. k \in Owners /\ PagesOf(table, b[3]) = own[k] /\ Len(own[k]) = b[4]
    BY <1>1, <1>2, HeldIs
  <2> HIDE DEF k
  <2>2. IsBlock(table, own[k]) /\ table \in Tables
    <3>1. own[k] # <<>>
      BY <2>1
    <3> QED
      BY <1>3, <2>1, <3>1 DEF Heap
  <2>3. PagesIn(own[k]) \cap FreePages(table) = {} /\ PagesIn(own[k]) \subseteq Memory
    BY <2>2, BlockTaken
  <2>4. own[k][i] \in PagesIn(own[k])
    BY <2>1 DEF PagesIn
  <2> QED
    BY <2>1, <2>3, <2>4 DEF FreePages
<1>6. \A p : p \in {q \in Memory : table[q] # FreePage} <=>
             \E b \in Held : p \in {PagesOf(table, b[3])[i] : i \in 1 .. b[4]}
  BY <1>4, <1>5
<1> QED
  BY <1>6 DEF NoPageLost

LEMMA IInvXmsInARow == ASSUME IInv PROVE XmsInARow
<1>1. Types
  BY DEF IInv
<1>2. PICK own : Divided(own)
  BY Zenon DEF IInv
<1> SUFFICES ASSUME NEW h \in XmsHandles, xms[h].size > 0
             PROVE  PagesOf(table, xms[h].mem)
                      = [i \in 1 .. PagesFor(xms[h].size) |-> xms[h].mem + i - 1]
  BY DEF XmsInARow
<1> DEFINE s == own[<<"xms", h>>]
           n == PagesFor(xms[h].size)
           f == [i \in 1 .. n |-> xms[h].mem + i - 1]
<1>3. /\ ~Stray(xms[h]) /\ XmsMatch(xms[h], s) /\ s \in Seq(Memory)
      /\ PagesOf(table, xms[h].mem) = s /\ xms[h] \in XmsRecord
  <2>1. ~Stray(xms[h])
    BY DEF Stray
  <2> QED
    BY <1>1, <1>2, <2>1, XmsHolds
<1>4. n \in Nat \ {0}
  <2>1. xms[h].size \in Nat /\ xms[h].size # 0
    BY <1>3 DEF XmsRecord
  <2> QED
    BY <2>1, PagesForSize
<1>5. Len(s) = n /\ InRow(s) /\ Names(s, xms[h].mem)
  BY <1>3, Zenon DEF XmsMatch
<1> HIDE DEF s, n
<1>6. xms[h].mem = s[1]
  BY <1>3, <1>4, <1>5 DEF Names
<1>7. \A i \in 1 .. n : s[i] = xms[h].mem + i - 1
  BY <1>5, <1>6 DEF InRow
<1>8. s \in [1 .. n -> Memory]
  BY <1>3, <1>5
<1>9. s = f
  BY <1>7, <1>8
<1> QED
  BY <1>3, <1>9, Zenon DEF n

(***************************************************************************)
(* The page numbers and counts of the three drivers stay what the code     *)
(* takes them for.                                                         *)
(***************************************************************************)
THEOREM TypeCorrect ==
  ASSUME Past = 0 \/ EmsHandles = {}, ~Strays
  PROVE  Spec => []TypeOK
<1>1. IInv => TypeOK
  BY IInvTypeOK
<1> QED
  BY <1>1, Invariance, PTL

(***************************************************************************)
(* However programs allocate, resize, move and free, in any order and for  *)
(* any amount of memory, each finds in its blocks what it put there.       *)
(***************************************************************************)
THEOREM ContentsKept ==
  ASSUME Past = 0 \/ EmsHandles = {}, ~Strays
  PROVE  Spec => []DataKept
<1>1. IInv => DataKept
  BY IInvDataKept
<1> QED
  BY <1>1, Invariance, PTL

(* No sequence of calls of the three drivers loses a page.                 *)
THEOREM NoneLost ==
  ASSUME Past = 0 \/ EmsHandles = {}, ~Strays
  PROVE  Spec => []NoPageLost
<1>1. IInv => NoPageLost
  BY IInvNoPageLost
<1> QED
  BY <1>1, Invariance, PTL

(* An XMS block is in a row from its first page on, however often resized. *)
THEOREM XmsStaysInARow ==
  ASSUME Past = 0 \/ EmsHandles = {}, ~Strays
  PROVE  Spec => []XmsInARow
<1>1. IInv => XmsInARow
  BY IInvXmsInARow
<1> QED
  BY <1>1, Invariance, PTL

(* An EMS allocation that passes the check of free pages gets its pages.   *)
THEOREM EmsAllocationSucceeds ==
  ASSUME Past = 0 \/ EmsHandles = {}, ~Strays
  PROVE  Spec => []AllocationSucceeds
<1>1. IInv => AllocationSucceeds
  BY DEF IInv, Types, AllocationSucceeds
<1> QED
  BY <1>1, Invariance, PTL
=============================================================================
