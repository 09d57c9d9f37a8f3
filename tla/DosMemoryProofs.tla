-------------------------- MODULE DosMemoryProofs --------------------------
(***************************************************************************)
(* Theorems about the arena of DOS, for every layout of memory, every set  *)
(* of programs and requests and every order of calls: the chains tile      *)
(* memory, what programs hold is what the chains say, and neither an       *)
(* allocation nor a resize fails where there is room.                      *)
(***************************************************************************)
EXTENDS DosMemory, WellFoundedInduction, TLAPS

(***************************************************************************)
(* Numbers.                                                                *)
(***************************************************************************)
LEMMA LeastNat ==
  ASSUME NEW T, T \subseteq Nat, T # {}
  PROVE  \E i \in T : \A j \in T : i <= j
<1>1. PICK i \in T : \A j \in T : ~(<<j, i>> \in OpToRel(<, Nat))
  BY NatLessThanWellFounded, WFMin
<1>2. ASSUME NEW j \in T PROVE i <= j
  <2>1. <<j, i>> \in Nat \X Nat
    OBVIOUS
  <2>2. ~ (j < i)
    BY <1>1, <2>1 DEF OpToRel
  <2> QED
    BY <2>2
<1> QED
  BY <1>2

LEMMA GreatestNat ==
  ASSUME NEW b \in Nat, NEW T, T \subseteq 0 .. b, T # {}
  PROVE  \E i \in T : \A j \in T : j <= i
<1> DEFINE U == {b - i : i \in T}
<1>1. U \subseteq Nat /\ U # {}
  <2>1. \A i \in T : b - i \in Nat
    OBVIOUS
  <2> QED
    BY <2>1
<1>2. PICK u \in U : \A v \in U : u <= v
  <2> HIDE DEF U
  <2> QED
    BY <1>1, LeastNat
<1>3. PICK i \in T : u = b - i
  OBVIOUS
<1>4. ASSUME NEW j \in T PROVE j <= i
  <2>1. b - j \in U
    OBVIOUS
  <2>2. b - i <= b - j /\ i \in 0 .. b /\ j \in 0 .. b
    BY <1>2, <1>3, <2>1
  <2> QED
    BY <2>2
<1> QED
  BY <1>4

LEMMA MinIs ==
  ASSUME NEW T, T \subseteq Nat, T # {}
  PROVE  Min(T) \in T /\ \A j \in T : Min(T) <= j
<1>1. \E i \in T : \A j \in T : i <= j
  BY LeastNat
<1>2. Min(T) = CHOOSE i \in T : \A j \in T : i <= j
  BY DEF Min
<1> QED
  BY <1>1, <1>2

LEMMA MaxIs ==
  ASSUME NEW b \in Nat, NEW T, T \subseteq 0 .. b, T # {}
  PROVE  Max(T) \in T /\ \A j \in T : j <= Max(T)
<1>1. \E i \in T : \A j \in T : i >= j
  <2>1. PICK i \in T : \A j \in T : j <= i
    BY GreatestNat
  <2>2. \A j \in T : i >= j
    BY <2>1
  <2> QED
    BY <2>2
<1>2. Max(T) = CHOOSE i \in T : \A j \in T : i >= j
  BY DEF Max
<1>3. Max(T) \in T /\ \A j \in T : Max(T) >= j
  BY <1>1, <1>2
<1> QED
  BY <1>3

(***************************************************************************)
(* Arenas, and the blocks that tile one.                                   *)
(***************************************************************************)
Headers == [type : {"M", "Z", "-"}, owner : Psps \cup {Free, Dos}, size : 0 .. Top]
Arenas  == [Paras -> Headers]

(* where the last block ends, and where conventional memory does if apart *)
End     == IF HasUmb THEN Top ELSE UmbStart
Cut(on) == IF on THEN {} ELSE {UmbStart}

Ending(b, on) == IF b \in {End} \cup Cut(on) THEN "Z" ELSE "M"

Tiled(m, S, on) ==
  /\ m \in Arenas /\ S \subseteq Paras /\ FirstMCB \in S
  /\ HasUmb => UmbStart \in S
  /\ \A s \in S : s < End /\ After(m, s) \in S \cup {End}
  /\ \A s, t \in S : s < t => After(m, s) <= t
  /\ \A s \in S : m[s].type = Ending(After(m, s), on)

LEMMA Layout ==
  /\ Paras \subseteq Nat /\ Paras \subseteq 0 .. Top /\ Top \in Nat /\ FirstMCB \in Nat
  /\ UmbStart \in Nat /\ FirstMCB < UmbStart /\ UmbStart < Top
  /\ FirstMCB \in Paras /\ UmbStart \in Paras /\ FirstUmb \in Paras
  /\ FirstUmb \in Nat /\ UmbStart < FirstUmb /\ FirstUmb < Top
  /\ End \in Nat /\ End <= Top /\ UmbStart <= End
  /\ \A s : s \in Paras <=> s \in Nat /\ FirstMCB <= s /\ s < Top
<1>1. /\ FirstMCB \in Nat /\ UmbStart \in Nat /\ FirstUmb \in Nat /\ Top \in Nat
      /\ 0 < FirstMCB /\ FirstMCB < UmbStart /\ UmbStart < FirstUmb /\ FirstUmb < Top
  BY ArenaAssumption
<1>2. \A s : s \in Paras <=> s \in Nat /\ FirstMCB <= s /\ s < Top
  BY <1>1 DEF Paras
<1>3. End \in Nat /\ End <= Top /\ UmbStart <= End
  BY <1>1 DEF End
<1>4. FirstMCB \in Paras /\ UmbStart \in Paras /\ FirstUmb \in Paras
  BY <1>1, <1>2
<1>5. Paras \subseteq Nat /\ Paras \subseteq 0 .. Top
  BY <1>1 DEF Paras
<1> QED
  BY <1>1, <1>2, <1>3, <1>4, <1>5

LEMMA AfterIs ==
  ASSUME NEW m \in Arenas, NEW s \in Paras
  PROVE  /\ m[s].size \in 0 .. Top /\ After(m, s) \in Nat /\ s < After(m, s)
         /\ After(m, s) = s + m[s].size + 1
<1>1. m[s].size \in 0 .. Top
  BY DEF Arenas, Headers
<1>2. s \in Nat /\ Top \in Nat
  BY Layout
<1> QED
  BY <1>1, <1>2 DEF After

(***************************************************************************)
(* Chain is the value of a recursive function: the least sets closed under *)
(* "the next header" are one that meets its equation, so the equation      *)
(* holds of Chain.                                                         *)
(***************************************************************************)
Follows(m, s) == IF m[s].type = "M" /\ After(m, s) \in Paras THEN {After(m, s)} ELSE {}

Rest(m, f) ==
  [s \in Paras |->
     {s} \cup IF m[s].type = "M" /\ After(m, s) \in Paras THEN f[After(m, s)] ELSE {}]

Closed(m, C) == C \subseteq Paras /\ \A s \in C : Follows(m, s) \subseteq C

Reached(m, s) == {t \in Paras : \A C : Closed(m, C) /\ s \in C => t \in C}

LEMMA ReachedClosed ==
  ASSUME NEW m, NEW s \in Paras
  PROVE  Closed(m, Reached(m, s)) /\ s \in Reached(m, s)
<1>1. ASSUME NEW t \in Reached(m, s), NEW u \in Follows(m, t) PROVE u \in Reached(m, s)
  <2>1. u \in Paras
    BY <1>1 DEF Follows
  <2>2. ASSUME NEW C, Closed(m, C), s \in C PROVE u \in C
    <3>1. t \in C
      BY <2>2, Zenon DEF Reached
    <3> QED
      BY <2>2, <3>1, Zenon DEF Closed
  <2> QED
    BY <2>1, <2>2, Zenon DEF Reached
<1>2. s \in Reached(m, s)
  BY Zenon DEF Reached
<1>3. Reached(m, s) \subseteq Paras
  BY Zenon DEF Reached
<1> QED
  BY <1>1, <1>2, <1>3, Zenon DEF Closed

LEMMA ReachedRest ==
  ASSUME NEW m, NEW f, f = [s \in Paras |-> Reached(m, s)]
  PROVE  f = Rest(m, f)
<1>1. ASSUME NEW s \in Paras, NEW a \in Paras, m[s].type = "M", After(m, s) = a
      PROVE  Reached(m, s) = {s} \cup Reached(m, a)
  <2>1. Follows(m, s) = {a}
    BY <1>1 DEF Follows
  <2>2. Reached(m, s) \subseteq {s} \cup Reached(m, a)
    <3> DEFINE C == {s} \cup Reached(m, a)
    <3>1. Closed(m, Reached(m, a)) /\ a \in Reached(m, a)
      BY ReachedClosed
    <3>2. Closed(m, C)
      <4>1. C \subseteq Paras
        BY <3>1 DEF Closed
      <4>2. ASSUME NEW t \in C PROVE Follows(m, t) \subseteq C
        <5>1. CASE t = s
          BY <2>1, <3>1, <5>1
        <5>2. CASE t \in Reached(m, a)
          BY <3>1, <5>2 DEF Closed
        <5> QED
          BY <5>1, <5>2
      <4> QED
        BY <4>1, <4>2 DEF Closed
    <3> QED
      BY <3>2 DEF Reached
  <2>3. {s} \cup Reached(m, a) \subseteq Reached(m, s)
    <3>1. Closed(m, Reached(m, s)) /\ s \in Reached(m, s)
      BY ReachedClosed
    <3>2. a \in Reached(m, s)
      BY <2>1, <3>1 DEF Closed
    <3>3. \A t \in Reached(m, a) : t \in Reached(m, s)
      BY <3>1, <3>2, Zenon DEF Reached
    <3> QED
      BY <3>1, <3>3
  <2> QED
    BY <2>2, <2>3
<1>2. ASSUME NEW s \in Paras, ~(m[s].type = "M" /\ After(m, s) \in Paras)
      PROVE  Reached(m, s) = {s}
  <2>1. Follows(m, s) = {}
    BY <1>2, Zenon DEF Follows
  <2>2. Closed(m, {s})
    BY <2>1 DEF Closed
  <2>3. Reached(m, s) \subseteq {s}
    BY <2>2 DEF Reached
  <2>4. s \in Reached(m, s)
    BY Zenon DEF Reached
  <2> QED
    BY <2>3, <2>4
<1>3. ASSUME NEW s \in Paras
      PROVE  Reached(m, s) =
               {s} \cup IF m[s].type = "M" /\ After(m, s) \in Paras THEN f[After(m, s)] ELSE {}
  <2>1. CASE m[s].type = "M" /\ After(m, s) \in Paras
    <3>1. f[After(m, s)] = Reached(m, After(m, s))
      BY <2>1, Zenon
    <3>2. Reached(m, s) = {s} \cup Reached(m, After(m, s))
      BY <1>1, <2>1, Zenon
    <3> QED
      BY <2>1, <3>1, <3>2, Zenon
  <2>2. CASE ~(m[s].type = "M" /\ After(m, s) \in Paras)
    <3>1. Reached(m, s) = {s} \cup {}
      BY <1>2, <2>2
    <3> QED
      BY <2>2, <3>1, Zenon
  <2> QED
    BY <2>1, <2>2
<1>4. [s \in Paras |-> Reached(m, s)] = Rest(m, f)
  BY <1>3, Zenon DEF Rest
<1> QED
  BY <1>4, Zenon

LEMMA ChainUnfolds ==
  ASSUME NEW m, NEW s \in Paras
  PROVE  Chain(m, s) =
           {s} \cup IF m[s].type = "M" /\ After(m, s) \in Paras THEN Chain(m, After(m, s)) ELSE {}
<1> DEFINE g == CHOOSE f : f = Rest(m, f)
           r == [t \in Paras |-> Reached(m, t)]
<1>1. r = Rest(m, r)
  BY ReachedRest
<1>2. g = Rest(m, g)
  <2> HIDE DEF r
  <2> QED
    BY <1>1, Zenon
<1>3. \A t : Chain(m, t) = g[t]
  BY Zenon DEF Chain, Rest
<1> HIDE DEF g
<1>4. g[s] = {s} \cup IF m[s].type = "M" /\ After(m, s) \in Paras THEN g[After(m, s)] ELSE {}
  <2> DEFINE v(t) == {t} \cup IF m[t].type = "M" /\ After(m, t) \in Paras THEN g[After(m, t)] ELSE {}
  <2>1. g = [t \in Paras |-> v(t)]
    BY <1>2, Zenon DEF Rest
  <2> HIDE DEF v
  <2>2. g[s] = v(s)
    BY <2>1
  <2> QED
    BY <2>2, Zenon DEF v
<1>5. Chain(m, s) = g[s] /\ Chain(m, After(m, s)) = g[After(m, s)]
  BY <1>3, Zenon
<1>6. CASE m[s].type = "M" /\ After(m, s) \in Paras
  BY <1>4, <1>5, <1>6, Zenon
<1>7. CASE ~(m[s].type = "M" /\ After(m, s) \in Paras)
  BY <1>4, <1>5, <1>7, Zenon
<1> QED
  BY <1>6, <1>7

(***************************************************************************)
(* Blocks of a tiling.                                                     *)
(***************************************************************************)
LEMMA BlockIs ==
  ASSUME NEW m, NEW S, NEW on, Tiled(m, S, on), NEW s \in S
  PROVE  /\ s \in Paras /\ s \in Nat /\ FirstMCB <= s /\ s < End
         /\ After(m, s) \in Nat /\ s < After(m, s) /\ After(m, s) <= End
         /\ After(m, s) \in S \cup {End}
         /\ \A t \in S : s < t => After(m, s) <= t
<1>1. s \in Paras /\ m \in Arenas
  BY DEF Tiled
<1>2. s \in Nat /\ FirstMCB <= s /\ End \in Nat
  BY <1>1, Layout
<1>3. After(m, s) \in Nat /\ s < After(m, s)
  BY <1>1, AfterIs
<1>4. s < End /\ After(m, s) \in S \cup {End} /\ \A t \in S : s < t => After(m, s) <= t
  BY Zenon DEF Tiled
<1>5. After(m, s) <= End
  <2>1. \A t \in S : t < End
    BY Zenon DEF Tiled
  <2>2. CASE After(m, s) = End
    BY <1>2, <2>2
  <2>3. CASE After(m, s) \in S
    BY <1>2, <1>3, <2>1, <2>3
  <2> QED
    BY <1>4, <2>2, <2>3
<1> QED
  BY <1>1, <1>2, <1>3, <1>4, <1>5

(* The block that a paragraph lies in.                                     *)
LEMMA BlockAt ==
  ASSUME NEW m, NEW S, NEW on, Tiled(m, S, on), NEW p \in Nat, FirstMCB <= p, p < End
  PROVE  \E s \in S : s <= p /\ p < After(m, s)
<1> DEFINE T == {s \in S : s <= p}
<1>1. T \subseteq 0 .. p /\ T # {}
  <2>1. FirstMCB \in S
    BY DEF Tiled
  <2>2. \A s \in S : s \in Nat
    BY BlockIs
  <2> QED
    BY <2>1, <2>2
<1>2. PICK s \in T : \A j \in T : j <= s
  <2> HIDE DEF T
  <2> QED
    BY <1>1, GreatestNat
<1>3. s \in S /\ s <= p
  BY <1>2
<1>4. /\ s \in Nat /\ After(m, s) \in Nat /\ s < After(m, s)
      /\ After(m, s) \in S \cup {End}
  BY <1>3, BlockIs
<1>5. p < After(m, s)
  <2> SUFFICES ASSUME After(m, s) <= p PROVE FALSE
    BY <1>4
  <2>1. After(m, s) # End
    BY <1>4, Layout
  <2>2. After(m, s) \in T
    BY <1>4, <2>1
  <2>3. After(m, s) <= s
    BY <1>2, <2>2
  <2> QED
    BY <1>4, <2>3
<1> QED
  BY <1>3, <1>5

LEMMA BlockBefore ==
  ASSUME NEW m, NEW S, NEW on, Tiled(m, S, on), NEW t \in S, t # FirstMCB
  PROVE  \E s \in S : s < t /\ After(m, s) = t
<1>1. t \in Nat /\ FirstMCB <= t /\ t < End /\ FirstMCB \in Nat /\ End \in Nat
  BY BlockIs, Layout
<1>2. t - 1 \in Nat /\ FirstMCB <= t - 1 /\ t - 1 < End
  BY <1>1
<1>3. PICK s \in S : s <= t - 1 /\ t - 1 < After(m, s)
  BY <1>2, BlockAt
<1>4. /\ s \in Nat /\ After(m, s) \in Nat
      /\ s < t => After(m, s) <= t
  BY BlockIs
<1> QED
  BY <1>1, <1>3, <1>4

LEMMA ChainIs ==
  ASSUME NEW m, NEW S, NEW on \in BOOLEAN, Tiled(m, S, on), NEW from \in S
  PROVE  Chain(m, from) =
           {t \in S : from <= t /\ (on \/ t < UmbStart \/ UmbStart <= from)}
<1> DEFINE X(s) == {t \in S : s <= t /\ (on \/ t < UmbStart \/ UmbStart <= s)}
           Bad == {s \in S : Chain(m, s) # X(s)}
<1> SUFFICES ASSUME Bad # {} PROVE FALSE
  OBVIOUS
<1>1. \A s \in S : s \in 0 .. Top
  BY Layout DEF Tiled
<1>2. PICK s \in Bad : \A j \in Bad : j <= s
  <2>1. Bad \subseteq 0 .. Top
    BY <1>1
  <2> HIDE DEF Bad
  <2> QED
    BY <2>1, Layout, GreatestNat
<1> DEFINE a == After(m, s)
<1>3. /\ s \in S /\ s \in Paras /\ s \in Nat /\ a \in Nat /\ s < a
      /\ a \in S \cup {End} /\ \A t \in S : s < t => a <= t
  BY <1>2, BlockIs
<1>4. \A t \in S : t \in Nat /\ t < End
  BY BlockIs
<1>5. /\ Chain(m, s) = {s} \cup IF m[s].type = "M" /\ a \in Paras THEN Chain(m, a) ELSE {}
      /\ m[s].type = IF a \in {End} \cup Cut(on) THEN "Z" ELSE "M"
  BY <1>3, ChainUnfolds, Zenon DEF Tiled, Ending
<1>6. UmbStart \in Nat /\ End \in Nat /\ (HasUmb => UmbStart \in S) /\ (~HasUmb => UmbStart = End)
  BY Layout DEF Tiled, End
<1> HIDE DEF a
<1>7. CASE a \in {End} \cup Cut(on)
  <2>1. Chain(m, s) = {s}
    <3>1. m[s].type = "Z"
      BY <1>5, <1>7
    <3> QED
      BY <1>5, <3>1
  <2>2. X(s) = {s}
    <3>1. ASSUME NEW t \in X(s), t # s PROVE FALSE
      <4>1. t \in Nat /\ s < t /\ t \in S /\ t < End
        BY <1>3, <1>4, <3>1
      <4>2. a <= t
        BY <1>3, <4>1
      <4>3. a \in Cut(on)
        BY <1>3, <1>6, <1>7, <4>1, <4>2
      <4>4. a = UmbStart /\ ~on
        BY <4>3 DEF Cut
      <4> QED
        BY <1>3, <1>6, <3>1, <4>1, <4>2, <4>4
    <3>2. s \in X(s)
      BY <1>3, <1>6
    <3> QED
      BY <3>1, <3>2
  <2> QED
    BY <1>2, <2>1, <2>2
<1>8. CASE a \notin {End} \cup Cut(on)
  <2>1. a \in S /\ m[s].type = "M"
    BY <1>3, <1>5, <1>8
  <2>2. a \in Paras
    BY <2>1 DEF Tiled
  <2>3. Chain(m, a) = X(a)
    <3>1. a \notin Bad
      BY <1>2, <1>3
    <3> QED
      BY <2>1, <3>1
  <2>4. Chain(m, s) = {s} \cup X(a)
    BY <1>5, <2>1, <2>2, <2>3
  <2>5. on \/ a # UmbStart
    BY <1>8 DEF Cut
  <2>6. on \/ UmbStart <= s \/ a < UmbStart \/ a = End
    <3>1. CASE HasUmb
      BY <1>3, <1>6, <2>5, <3>1
    <3>2. CASE ~HasUmb
      BY <1>4, <1>6, <2>1, <3>2
    <3> QED
      BY <3>1, <3>2
  <2>7. X(s) = {s} \cup X(a)
    <3>1. ASSUME NEW t \in S
          PROVE  (s <= t /\ (on \/ t < UmbStart \/ UmbStart <= s)) <=>
                    t = s \/ (a <= t /\ (on \/ t < UmbStart \/ UmbStart <= a))
      <4>1. t \in Nat /\ t < End /\ (s < t => a <= t)
        BY <1>3, <1>4
      <4>2. CASE on
        BY <1>3, <4>1, <4>2
      <4>3. CASE ~on
        BY <1>3, <1>6, <2>6, <4>1, <4>3
      <4> QED
        BY <4>2, <4>3
    <3> QED
      BY <1>3, <3>1
  <2> QED
    BY <1>2, <2>4, <2>7
<1> QED
  BY <1>7, <1>8

LEMMA LowChain ==
  ASSUME NEW m, NEW S, NEW on \in BOOLEAN, Tiled(m, S, on)
  PROVE  Chain(m, FirstMCB) = {t \in S : on \/ t < UmbStart}
<1>1. FirstMCB \in S /\ FirstMCB < UmbStart /\ FirstMCB \in Nat /\ UmbStart \in Nat
  BY Layout DEF Tiled
<1>2. \A t \in S : FirstMCB <= t /\ t \in Nat
  BY BlockIs
<1>3. Chain(m, FirstMCB) =
        {t \in S : FirstMCB <= t /\ (on \/ t < UmbStart \/ UmbStart <= FirstMCB)}
  BY <1>1, ChainIs
<1>4. ~(UmbStart <= FirstMCB)
  BY <1>1
<1> QED
  BY <1>2, <1>3, <1>4, Zenon

LEMMA HighChain ==
  ASSUME NEW m, NEW S, NEW on \in BOOLEAN, Tiled(m, S, on), HasUmb
  PROVE  Chain(m, UmbStart) = {t \in S : UmbStart <= t}
<1>1. UmbStart \in S /\ UmbStart \in Nat
  BY Layout DEF Tiled
<1>2. \A t \in S : t \in Nat
  BY BlockIs
<1>3. Chain(m, UmbStart) =
        {t \in S : UmbStart <= t /\ (on \/ t < UmbStart \/ UmbStart <= UmbStart)}
  BY <1>1, ChainIs
<1> QED
  BY <1>1, <1>2, <1>3

(***************************************************************************)
(* Surgery: blocks from one on up to another are joined, or that stretch   *)
(* is divided anew in two.                                                 *)
(***************************************************************************)
Stretch(a, b) == a < b /\ (HasUmb => ~(a < UmbStart /\ UmbStart < b))
Outside(S, a, b) == {s \in S : ~(a < s /\ s < b)}
SameOutside(m, n, S, a, b) == \A s \in S : ~(a <= s /\ s < b) => n[s] = m[s]

LEMMA JoinTiles ==
  ASSUME NEW m, NEW S, NEW on \in BOOLEAN, Tiled(m, S, on), NEW a \in S, NEW b \in S \cup {End},
         Stretch(a, b), NEW n \in Arenas, After(n, a) = b, n[a].type = Ending(b, on),
         SameOutside(m, n, S, a, b), NEW T, T = Outside(S, a, b)
  PROVE  Tiled(n, T, on)
<1> USE DEF Outside, SameOutside
<1>1. a \in Nat /\ b \in Nat /\ a < b
  <2>1. \A s \in S : s \in Nat
    BY BlockIs
  <2> QED
    BY <2>1, Layout DEF Stretch
<1>2. ASSUME NEW s \in S PROVE s \in Nat /\ s < End /\ s \in Paras
  BY BlockIs
<1>3. ASSUME NEW s \in T, s # a
      PROVE  /\ After(n, s) = After(m, s) /\ After(m, s) \in T \cup {End} /\ n[s].type = m[s].type
             /\ \A t \in T : s < t => After(n, s) <= t
  <2>1. s \in S /\ ~(a < s /\ s < b)
    BY <1>3
  <2>2. /\ s \in Nat /\ After(m, s) \in Nat /\ s < After(m, s) /\ After(m, s) \in S \cup {End}
        /\ \A t \in S : s < t => After(m, s) <= t
    BY <2>1, BlockIs
  <2>3. n[s] = m[s]
    BY <1>1, <1>3, <2>1, <2>2
  <2>4. After(n, s) = After(m, s)
    BY <2>3, Zenon DEF After
  <2>5. ~(a < After(m, s) /\ After(m, s) < b)
    BY <1>1, <1>3, <2>1, <2>2
  <2> QED
    BY <2>2, <2>3, <2>4, <2>5
<1>4. a \in T /\ b \in T \cup {End} /\ T \subseteq S
  BY <1>1
<1>5. ASSUME NEW t \in T, a < t PROVE b <= t
  <2>1. t \in S /\ ~(t < b)
    BY <1>5
  <2> QED
    BY <1>1, <1>2, <2>1
<1>6. \A s \in T : s < End /\ After(n, s) \in T \cup {End}
  BY <1>2, <1>3, <1>4
<1>7. \A s, t \in T : s < t => After(n, s) <= t
  BY <1>3, <1>5
<1>8. \A s \in T : n[s].type = Ending(After(n, s), on)
  <2>1. \A s \in S : m[s].type = Ending(After(m, s), on)
    BY Zenon DEF Tiled
  <2> QED
    BY <1>3, <1>4, <2>1
<1>9. FirstMCB \in T /\ (HasUmb => UmbStart \in T)
  <2>1. FirstMCB \in S /\ (HasUmb => UmbStart \in S) /\ FirstMCB <= a /\ FirstMCB \in Nat
    BY BlockIs, Layout DEF Tiled
  <2>2. ~(a < FirstMCB)
    BY <1>1, <2>1
  <2> QED
    BY <2>1, <2>2 DEF Stretch
<1>10. T \subseteq Paras
  BY <1>2, <1>4
<1> QED
  BY <1>6, <1>7, <1>8, <1>9, <1>10, Zenon DEF Tiled

LEMMA SplitTiles ==
  ASSUME NEW m, NEW S, NEW on \in BOOLEAN, Tiled(m, S, on), NEW a \in S, NEW b \in S \cup {End},
         Stretch(a, b), NEW q \in Nat, a < q, q < b, HasUmb => q # UmbStart,
         NEW n \in Arenas, After(n, a) = q, n[a].type = "M",
         After(n, q) = b, n[q].type = Ending(b, on),
         SameOutside(m, n, S, a, b), NEW T, T = Outside(S, a, b) \cup {q}
  PROVE  Tiled(n, T, on)
<1> USE DEF Outside, SameOutside
<1>1. a \in Nat /\ b \in Nat /\ a < b /\ b <= End /\ End \in Nat /\ End <= Top
  <2>1. \A s \in S : s \in Nat /\ s < End
    BY BlockIs
  <2> QED
    BY <2>1, Layout DEF Stretch
<1>2. ASSUME NEW s \in S PROVE s \in Nat /\ s < End /\ s \in Paras /\ FirstMCB <= s
  BY BlockIs
<1>3. ASSUME NEW s \in T, s # a, s # q
      PROVE  /\ After(n, s) = After(m, s) /\ After(m, s) \in T \cup {End} /\ n[s].type = m[s].type
             /\ s \in S /\ \A t \in T : s < t => After(n, s) <= t
  <2>1. s \in S /\ ~(a < s /\ s < b)
    BY <1>3
  <2>2. /\ s \in Nat /\ After(m, s) \in Nat /\ s < After(m, s) /\ After(m, s) \in S \cup {End}
        /\ \A t \in S : s < t => After(m, s) <= t
    BY <2>1, BlockIs
  <2>3. n[s] = m[s]
    BY <1>1, <1>3, <2>1, <2>2
  <2>4. After(n, s) = After(m, s)
    BY <2>3, Zenon DEF After
  <2>5. ~(a < After(m, s) /\ After(m, s) < b)
    BY <1>1, <1>3, <2>1, <2>2
  <2>6. s < q => After(m, s) <= q
    BY <1>1, <1>3, <2>1, <2>2
  <2> QED
    BY <2>1, <2>2, <2>3, <2>4, <2>5, <2>6
<1>4. a \in T /\ q \in T /\ b \in T \cup {End} /\ T \subseteq S \cup {q}
  BY <1>1
<1>5. \A t \in T : (a < t => q <= t) /\ (q < t => b <= t)
  BY <1>1, <1>2
<1>6. \A s \in T : s < End /\ After(n, s) \in T \cup {End}
  <2>1. q < End
    BY <1>1
  <2> QED
    BY <1>2, <1>3, <1>4, <2>1
<1>7. \A s, t \in T : s < t => After(n, s) <= t
  BY <1>3, <1>5
<1>8. \A s \in T : n[s].type = Ending(After(n, s), on)
  <2>1. \A s \in S : m[s].type = Ending(After(m, s), on)
    BY Zenon DEF Tiled
  <2>2. Ending(q, on) = "M"
    BY <1>1, Layout DEF Ending, Cut, End
  <2> QED
    BY <1>3, <1>4, <2>1, <2>2
<1>9. FirstMCB \in T /\ (HasUmb => UmbStart \in T) /\ FirstMCB <= a
  <2>1. FirstMCB \in S /\ (HasUmb => UmbStart \in S) /\ FirstMCB <= a /\ FirstMCB \in Nat
    BY BlockIs, Layout DEF Tiled
  <2>2. ~(a < FirstMCB)
    BY <1>1, <2>1
  <2> QED
    BY <2>1, <2>2 DEF Stretch
<1>10. T \subseteq Paras
  <2>1. q \in Paras
    BY <1>1, <1>9, Layout
  <2> QED
    BY <1>2, <1>4, <2>1
<1> QED
  BY <1>6, <1>7, <1>8, <1>9, <1>10, Zenon DEF Tiled

(* Owners change.                                                          *)
LEMMA SameTiles ==
  ASSUME NEW m, NEW S, NEW on \in BOOLEAN, Tiled(m, S, on), NEW n \in Arenas,
         \A s \in S : n[s].type = m[s].type /\ n[s].size = m[s].size
  PROVE  Tiled(n, S, on)
<1>1. \A s \in S : After(n, s) = After(m, s)
  BY DEF After
<1> QED
  BY <1>1 DEF Tiled

(* The end of conventional memory is linked to upper memory or cut off.    *)
LEMMA LinkTiles ==
  ASSUME NEW m, NEW S, NEW on \in BOOLEAN, Tiled(m, S, on), HasUmb,
         NEW l \in S, After(m, l) = UmbStart, NEW n,
         n = [m EXCEPT ![l].type = IF on THEN "Z" ELSE "M"]
  PROVE  Tiled(n, S, ~on)
<1>1. l \in Paras /\ S \subseteq Paras /\ m \in Arenas
  BY DEF Tiled
<1>2. /\ n \in Arenas /\ n[l].type = (IF on THEN "Z" ELSE "M")
      /\ \A s \in S : n[s].size = m[s].size /\ (s # l => n[s].type = m[s].type)
  BY <1>1 DEF Arenas, Headers
<1>3. \A s \in S : After(n, s) = After(m, s)
  BY <1>2 DEF After
<1>4. ASSUME NEW s \in S, s # l PROVE After(m, s) # UmbStart
  <2>1. /\ s \in Nat /\ l \in Nat /\ After(m, s) \in Nat
        /\ s < l => After(m, s) <= l
        /\ l < s => UmbStart <= s
        /\ s < After(m, s) /\ l < UmbStart
    BY BlockIs
  <2> QED
    BY <1>4, <2>1, Layout
<1>5. UmbStart # End
  BY Layout DEF End
<1>6. \A s \in S : n[s].type = Ending(After(n, s), ~on)
  <2>1. \A s \in S : m[s].type = Ending(After(m, s), on)
    BY Zenon DEF Tiled
  <2>2. n[l].type = Ending(UmbStart, ~on)
    BY <1>2, <1>5 DEF Ending, Cut
  <2>3. ASSUME NEW s \in S, s # l PROVE n[s].type = Ending(After(n, s), ~on)
    <3>1. Ending(After(m, s), on) = Ending(After(m, s), ~on)
      BY <1>4, <2>3 DEF Ending, Cut
    <3> QED
      BY <1>2, <1>3, <2>1, <2>3, <3>1
  <2> QED
    BY <1>3, <2>2, <2>3
<1> QED
  BY <1>2, <1>3, <1>6 DEF Tiled

(***************************************************************************)
(* DOS_CompressMemory.                                                     *)
(***************************************************************************)
Low(S, on) == {t \in S : on \/ t < UmbStart}

RunOf(m, C, s) == {t \in C : t >= s /\ \A u \in C \cap s .. t : m[u].owner = Free}

Starts(m, C, from) ==
  {s \in C : /\ s >= from /\ m[s].owner = Free
             /\ \A p \in C : After(m, p) = s => m[p].owner # Free \/ p < from}

Merged(m, C, from) ==
  {s \in C : m[s].owner = Free /\ \E p \in C : After(m, p) = s /\ m[p].owner = Free /\ p >= from}

(* What is left of the blocks, and of what.                                *)
Compressed(m, S, n, T, on, from) ==
  /\ Tiled(n, T, on) /\ T \subseteq S
  /\ \A s \in S : m[s].owner # Free => s \in T /\ n[s] = m[s]
  /\ \A s \in T : m[s].owner = Free => n[s].owner = Free
  /\ \A s, t \in T :
       s >= from /\ After(n, s) = t /\ (on \/ t < UmbStart) /\ n[s].owner = Free
         => n[t].owner # Free

LEMMA RunEnds ==
  ASSUME NEW m, NEW S, NEW on \in BOOLEAN, Tiled(m, S, on), NEW C, C = Low(S, on),
         NEW s \in C, m[s].owner = Free, NEW l, l = Max(RunOf(m, C, s))
  PROVE  /\ l \in C /\ s <= l /\ \A u \in C : s <= u /\ u <= l => m[u].owner = Free
         /\ After(m, l) \in C => m[After(m, l)].owner # Free
<1> DEFINE R == RunOf(m, C, s)
<1>1. C \subseteq S /\ \A u \in C : u \in Nat /\ u \in 0 .. Top
  <2>1. C \subseteq S
    BY DEF Low
  <2>2. \A u \in S : u \in Nat /\ u \in 0 .. Top
    BY BlockIs, Layout
  <2> QED
    BY <2>1, <2>2
<1>2. s \in R /\ R \subseteq 0 .. Top
  <2>1. \A u \in C \cap s .. s : u = s
    BY <1>1
  <2>2. s \in R
    BY <1>1, <2>1 DEF RunOf
  <2>3. R \subseteq C
    BY DEF RunOf
  <2> QED
    BY <1>1, <2>2, <2>3
<1>3. l \in R /\ \A j \in R : j <= l
  <2> HIDE DEF R
  <2>1. R # {} /\ Top \in Nat
    BY <1>2, Layout
  <2> QED
    BY <1>2, <2>1, MaxIs, Zenon DEF R
<1>4. l \in C /\ s <= l /\ \A u \in C \cap s .. l : m[u].owner = Free
  BY <1>1, <1>3 DEF RunOf
<1>5. \A u \in C : s <= u /\ u <= l => m[u].owner = Free
  BY <1>1, <1>4
<1>6. ASSUME After(m, l) \in C PROVE m[After(m, l)].owner # Free
  <2> DEFINE a == After(m, l)
  <2> SUFFICES ASSUME m[a].owner = Free PROVE FALSE
    OBVIOUS
  <2>1. l \in Nat /\ a \in Nat /\ l < a /\ \A t \in S : l < t => a <= t
    BY <1>1, <1>4, BlockIs
  <2> HIDE DEF a
  <2>2. \A u \in C \cap s .. a : m[u].owner = Free
    <3> SUFFICES ASSUME NEW u \in C, s <= u, u <= a PROVE m[u].owner = Free
      BY <1>1, <2>1
    <3>1. u = a \/ u <= l
      BY <1>1, <2>1
    <3> QED
      BY <1>5, <3>1
  <2>3. a \in R
    <3>1. a \in C /\ a >= s
      BY <1>1, <1>4, <1>6, <2>1 DEF a
    <3> QED
      BY <2>2, <3>1, Zenon DEF RunOf
  <2> QED
    BY <1>3, <2>1, <2>3
<1> QED
  BY <1>4, <1>5, <1>6

LEMMA AfterOnce ==
  ASSUME NEW m, NEW S, NEW on \in BOOLEAN, Tiled(m, S, on), NEW s \in S, NEW t \in S,
         After(m, s) = After(m, t)
  PROVE  s = t
<1>1. /\ s \in Nat /\ t \in Nat /\ After(m, s) \in Nat /\ After(m, t) \in Nat
      /\ s < After(m, s) /\ t < After(m, t)
      /\ s < t => After(m, s) <= t
      /\ t < s => After(m, t) <= s
  BY BlockIs
<1> QED
  BY <1>1

LEMMA HeaderIs ==
  ASSUME NEW type, NEW owner, NEW size, NEW r, r = Header(type, owner, size)
  PROVE  /\ r.type = type /\ r.owner = owner /\ r.size = size
         /\ type \in {"M", "Z", "-"} /\ owner \in Psps \cup {Free, Dos} /\ size \in 0 .. Top =>
              r \in Headers
BY DEF Header, Headers

LEMMA CompressIs ==
  ASSUME NEW m, NEW S, NEW on \in BOOLEAN, Tiled(m, S, on), NEW from \in Nat,
         HasUmb => m[UmbStart].owner # Free, NEW n, n = Compress(m, from), NEW T, T = S \ Merged(m, Low(S, on), from)
  PROVE  Compressed(m, S, n, T, on, from)
<1> DEFINE C    == Low(S, on)
           L(s) == Max(RunOf(m, C, s))
           e(s) == IF s \in Starts(m, C, from) THEN L(s) ELSE s
<1>1. Chain(m, FirstMCB) = C
  <2>1. Chain(m, FirstMCB) = {t \in S : on \/ t < UmbStart}
    BY LowChain
  <2> QED
    BY <2>1, Zenon DEF Low
<1>2. n = [s \in Paras |-> IF s \in Starts(m, C, from)
                             THEN Header(m[L(s)].type, Free, After(m, L(s)) - s - 1)
                             ELSE m[s]]
  BY <1>1, Zenon DEF Compress, Starts, RunOf
<1>3. C \subseteq S /\ T \subseteq S /\ S \subseteq Paras /\ m \in Arenas
  BY DEF Low, Tiled
<1>4. ASSUME NEW s \in Starts(m, C, from)
      PROVE  /\ s \in C /\ m[s].owner = Free /\ s >= from /\ s \notin Merged(m, C, from)
             /\ L(s) \in C /\ s <= L(s) /\ \A u \in C : s <= u /\ u <= L(s) => m[u].owner = Free
             /\ After(m, L(s)) \in C => m[After(m, L(s))].owner # Free
  <2>1. /\ s \in C /\ s >= from /\ m[s].owner = Free
        /\ \A p \in C : After(m, p) = s => m[p].owner # Free \/ p < from
    BY Zenon DEF Starts
  <2>2. s \notin Merged(m, C, from)
    <3> SUFFICES ASSUME NEW p \in C, After(m, p) = s, m[p].owner = Free, p >= from PROVE FALSE
      BY DEF Merged
    <3>1. p < from /\ p \in Nat
      BY <1>3, <2>1, BlockIs
    <3> QED
      BY <3>1
  <2> HIDE DEF C
  <2>3. /\ L(s) \in C /\ s <= L(s) /\ \A u \in C : s <= u /\ u <= L(s) => m[u].owner = Free
        /\ After(m, L(s)) \in C => m[After(m, L(s))].owner # Free
    BY <2>1, RunEnds DEF C
  <2> QED
    BY <2>1, <2>2, <2>3
<1> HIDE DEF L
<1>5. ASSUME NEW s \in Starts(m, C, from)
      PROVE  /\ n[s] = Header(m[L(s)].type, Free, After(m, L(s)) - s - 1)
             /\ n[s].type = m[L(s)].type /\ n[s].owner = Free
             /\ n[s].size = After(m, L(s)) - s - 1
             /\ After(m, L(s)) - s - 1 \in 0 .. Top
  <2>1. s \in S /\ L(s) \in S /\ s \in Paras
    BY <1>3, <1>4
  <2>2. /\ s \in Nat /\ L(s) \in Nat /\ After(m, L(s)) \in Nat /\ s <= L(s)
        /\ L(s) < After(m, L(s)) /\ After(m, L(s)) <= End
    BY <1>4, <2>1, BlockIs
  <2>3. After(m, L(s)) - s - 1 \in 0 .. Top
    BY <2>2, Layout
  <2>4. n[s] = Header(m[L(s)].type, Free, After(m, L(s)) - s - 1)
    BY <1>2, <2>1, Zenon
  <2> DEFINE y == m[L(s)].type
             z == After(m, L(s)) - s - 1
             r == n[s]
  <2>5. r = Header(y, Free, z)
    BY <2>4
  <2> HIDE DEF y, z, r
  <2>6. r.type = y /\ r.owner = Free /\ r.size = z
    BY <2>5 DEF Header
  <2> QED
    BY <2>3, <2>4, <2>6 DEF y, z, r
<1>6. ASSUME NEW s \in Paras, s \notin Starts(m, C, from) PROVE n[s] = m[s]
  BY <1>2, <1>6
<1>7. n \in Arenas
  <2>1. ASSUME NEW s \in Paras
        PROVE  n[s] \in Headers
    <3>1. CASE s \in Starts(m, C, from)
      <4>1. L(s) \in Paras
        BY <1>3, <1>4, <3>1
      <4>2. m[L(s)].type \in {"M", "Z", "-"}
        BY <1>3, <4>1 DEF Arenas, Headers
      <4>3. Free \in Psps \cup {Free, Dos}
        OBVIOUS
      <4> DEFINE y == m[L(s)].type
                 z == After(m, L(s)) - s - 1
                 r == n[s]
      <4>4. r = Header(y, Free, z) /\ z \in 0 .. Top
        BY <1>5, <3>1
      <4> HIDE DEF z, r
      <4> QED
        BY <4>2, <4>3, <4>4, HeaderIs DEF r
    <3>2. CASE s \notin Starts(m, C, from)
      BY <1>3, <1>6, <3>2 DEF Arenas, Headers
    <3> QED
      BY <3>1, <3>2
  <2>2. n = [s \in Paras |-> n[s]]
    BY <1>2
  <2> QED
    BY <2>1, <2>2 DEF Arenas, Headers
<1>8. ASSUME NEW s \in S
      PROVE  /\ e(s) \in S /\ s <= e(s) /\ After(n, s) = After(m, e(s)) /\ n[s].type = m[e(s)].type
  <2>1. s \in Paras /\ s \in Nat
    BY <1>3, BlockIs
  <2>2. CASE s \in Starts(m, C, from)
    <3>1. L(s) \in S /\ s <= L(s) /\ e(s) = L(s)
      BY <1>3, <1>4, <2>2
    <3>2. After(m, L(s)) \in Nat
      BY <3>1, BlockIs
    <3>3. n[s].size = After(m, L(s)) - s - 1 /\ n[s].type = m[L(s)].type
      BY <1>5, <2>2, Zenon
    <3>4. After(n, s) = s + (After(m, L(s)) - s - 1) + 1
      BY <3>3 DEF After
    <3>5. After(n, s) = After(m, L(s))
      BY <2>1, <3>2, <3>4
    <3> QED
      BY <3>1, <3>3, <3>5
  <2>3. CASE s \notin Starts(m, C, from)
    <3>1. n[s] = m[s] /\ e(s) = s
      BY <1>6, <2>1, <2>3
    <3> QED
      BY <2>1, <3>1 DEF After
  <2> QED
    BY <2>2, <2>3
<1> HIDE DEF C
<1>9. ASSUME NEW s \in T PROVE After(n, s) \in T \cup {End}
  <2> DEFINE a == After(m, e(s))
  <2>1. s \in S /\ e(s) \in S /\ After(n, s) = a /\ a \in S \cup {End}
    BY <1>3, <1>8, BlockIs
  <2> HIDE DEF a
  <2>2. ASSUME a \in Merged(m, C, from) PROVE FALSE
    <3>1. PICK p \in C : After(m, p) = a /\ m[p].owner = Free /\ p >= from
      BY <2>2 DEF Merged
    <3>2. a \in C /\ m[a].owner = Free
      BY <2>2 DEF Merged
    <3>3. p = e(s)
      BY <1>3, <2>1, <3>1, AfterOnce DEF a
    <3>4. CASE s \in Starts(m, C, from)
      BY <1>4, <3>2, <3>4 DEF a
    <3>5. CASE s \notin Starts(m, C, from)
      <4>1. p = s
        BY <3>3, <3>5
      <4>2. s \notin Merged(m, C, from)
        BY DEF C
      <4>3. s \in C /\ s >= from /\ m[s].owner = Free
        BY <3>1, <4>1
      <4>4. PICK q \in C : After(m, q) = s /\ m[q].owner = Free /\ ~(q < from)
        BY <3>5, <4>3, Zenon DEF Starts
      <4>5. q >= from
        BY <1>3, <4>4, BlockIs
      <4> QED
        BY <4>2, <4>3, <4>4, <4>5, Zenon DEF Merged
    <3> QED
      BY <3>4, <3>5
  <2> QED
    BY <2>1, <2>2 DEF C
<1>10. ASSUME NEW s \in T, NEW t \in T, s < t PROVE After(n, s) <= t
  <2>1. /\ s \in S /\ t \in S /\ e(s) \in S /\ s <= e(s) /\ After(n, s) = After(m, e(s))
        /\ s \in Nat /\ t \in Nat /\ e(s) \in Nat
        /\ e(s) < t => After(m, e(s)) <= t
    BY <1>3, <1>8, BlockIs
  <2>2. ASSUME t <= e(s) PROVE FALSE
    <3>1. s \in Starts(m, C, from) /\ e(s) = L(s)
      BY <1>10, <2>1, <2>2
    <3>2. L(s) \in C /\ s \in C /\ s >= from /\ \A u \in C : s <= u /\ u <= L(s) => m[u].owner = Free
      BY <1>4, <3>1
    <3>3. \A u \in S : s <= u /\ u <= L(s) => u \in C
      <4>1. \A u \in S : u \in Nat
        BY BlockIs
      <4>2. L(s) \in S /\ (on \/ L(s) < UmbStart)
        BY <3>2 DEF C, Low
      <4>3. \A u \in S : s <= u /\ u <= L(s) => (on \/ u < UmbStart)
        BY <4>1, <4>2, Layout
      <4> QED
        BY <4>3 DEF C, Low
    <3>4. t \in C /\ m[t].owner = Free
      BY <1>10, <2>1, <2>2, <3>1, <3>2, <3>3
    <3>5. t # FirstMCB
      BY <1>10, <2>1, BlockIs, Layout
    <3>6. PICK p \in S : p < t /\ After(m, p) = t
      <4>1. t \in S
        BY <2>1, Zenon
      <4> QED
        BY <3>5, <4>1, BlockBefore
    <3>7. p \in Nat /\ s <= p
      <4>1. p \in Nat /\ (p < s => t <= s)
        BY <2>1, <3>6, BlockIs
      <4> QED
        BY <1>10, <2>1, <4>1
    <3>8. p <= L(s)
      BY <2>1, <2>2, <3>1, <3>6, <3>7
    <3>9. p \in C /\ m[p].owner = Free
      BY <3>2, <3>3, <3>7, <3>8
    <3>10. p >= from
      BY <2>1, <3>2, <3>7
    <3>11. t \in Merged(m, C, from)
      BY <3>4, <3>6, <3>9, <3>10, Zenon DEF Merged
    <3> QED
      BY <3>11 DEF C
  <2> QED
    BY <2>1, <2>2
<1>11. \A s \in S : n[s].type = Ending(After(n, s), on)
  <2>1. \A s \in S : m[s].type = Ending(After(m, s), on)
    BY Zenon DEF Tiled
  <2> QED
    BY <1>8, <2>1
<1>12. \A s \in S : m[s].owner # Free => s \in T /\ n[s] = m[s]
  <2>1. ASSUME NEW s \in S, m[s].owner # Free PROVE s \in T /\ n[s] = m[s]
    <3>1. s \notin Merged(m, C, from)
      BY <2>1 DEF Merged
    <3>2. s \notin Starts(m, C, from)
      BY <2>1 DEF Starts
    <3> QED
      BY <1>3, <1>6, <3>1, <3>2 DEF C
  <2> QED
    BY <2>1
<1>13. \A s \in S : m[s].owner = Free => n[s].owner = Free
  <2>1. \A s \in Starts(m, C, from) : n[s].owner = Free
    BY <1>5, Zenon
  <2> QED
    BY <1>3, <1>6, <2>1
<1>14. FirstMCB \in T /\ (HasUmb => UmbStart \in T) /\ \A s \in T : s < End
  <2>1. FirstMCB \in S /\ (HasUmb => UmbStart \in S) /\ \A s \in S : s < End
    BY Zenon DEF Tiled
  <2>2. FirstMCB \notin Merged(m, C, from)
    <3> SUFFICES ASSUME NEW p \in C, After(m, p) = FirstMCB PROVE FALSE
      BY DEF Merged
    <3>1. p \in Nat /\ FirstMCB <= p /\ p < FirstMCB
      BY <1>3, BlockIs
    <3> QED
      BY <3>1, Layout
  <2> QED
    BY <1>3, <1>12, <2>1, <2>2 DEF C
<1>15. Tiled(n, T, on)
  <2>1. T \subseteq Paras
    BY <1>3
  <2>2. \A s \in T : n[s].type = Ending(After(n, s), on)
    BY <1>3, <1>11
  <2> QED
    BY <1>7, <1>9, <1>10, <1>14, <2>1, <2>2, Zenon DEF Tiled
<1>16. ASSUME NEW s \in T, NEW t \in T, s >= from, After(n, s) = t, on \/ t < UmbStart,
              n[s].owner = Free
       PROVE  n[t].owner # Free
  <2>1. s \in S /\ t \in S /\ s \in Nat /\ t \in Nat /\ s < t /\ s \in Paras
    <3>1. s < After(n, s) /\ s \in Nat /\ After(n, s) \in Nat
      BY <1>15, BlockIs
    <3> QED
      BY <1>3, <1>16, <3>1
  <2>2. s \in C /\ t \in C
    BY <1>16, <2>1, Layout DEF C, Low
  <2>3. m[s].owner = Free
    BY <1>12, <1>16, <2>1
  <2>4. s \in Starts(m, C, from)
    <3>1. s \notin Merged(m, C, from)
      BY DEF C
    <3>2. \A p \in C : p \in Nat
      BY <1>3, BlockIs
    <3>3. \A p \in C : After(m, p) = s => m[p].owner # Free \/ p < from
      <4> SUFFICES ASSUME NEW p \in C, After(m, p) = s, m[p].owner = Free, ~(p < from) PROVE FALSE
        OBVIOUS
      <4>1. p >= from
        BY <3>2
      <4> QED
        BY <2>2, <2>3, <3>1, <4>1, Zenon DEF Merged
    <3> QED
      BY <1>16, <2>2, <2>3, <3>3, Zenon DEF Starts
  <2>5. After(m, L(s)) = t
    BY <1>8, <1>16, <2>1, <2>4
  <2>6. m[t].owner # Free
    BY <1>4, <2>2, <2>4, <2>5
  <2> QED
    BY <1>12, <2>1, <2>6
<1> QED
  BY <1>3, <1>12, <1>13, <1>15, <1>16 DEF Compressed

(***************************************************************************)
(* The inductive invariant: some set of blocks tiles memory, the cover of  *)
(* video memory is one of them and the only one of DOS, and the blocks of  *)
(* programs are what programs were told.                                   *)
(***************************************************************************)
Owned(m, S) ==
  /\ \A s \in S : m[s].owner = Dos => HasUmb /\ s = UmbStart
  /\ HasUmb => m[UmbStart] = Header("M", Dos, FirstUmb - UmbStart - 1)

Theirs(m, S) == {s \in S : m[s].owner \in Psps}

Told(m, S, x) ==
  /\ DOMAIN x = {s + 1 : s \in Theirs(m, S)}
  /\ \A s \in Theirs(m, S) : x[s + 1].size = m[s].size /\ x[s + 1].owner = m[s].owner

Arena(m, S, on, x) == Tiled(m, S, on) /\ Owned(m, S) /\ Told(m, S, x)

StrategyOK ==
  strategy \in [fit : {"first", "best", "last"}, area : {"low", "high", "high then low"}]

IInv ==
  /\ linked \in BOOLEAN /\ (linked => HasUmb) /\ StrategyOK
  /\ \E S : Arena(mcb, S, linked, held)

LEMMA OwnersAre ==
  ASSUME NEW m, NEW S, NEW on, NEW x, Arena(m, S, on, x), NEW s \in S
  PROVE  /\ m[s] \in Headers /\ m[s].owner \in Psps \cup {Free, Dos}
         /\ m[s].owner \in Psps <=> m[s].owner \notin {Free, Dos}
         /\ HasUmb /\ s = UmbStart => m[s].owner = Dos
         /\ m[s].owner = Dos => HasUmb /\ s = UmbStart
<1>1. m \in Arenas /\ s \in Paras
  BY DEF Arena, Tiled
<1>2. m[s] \in Headers /\ m[s].owner \in Psps \cup {Free, Dos}
  BY <1>1 DEF Arenas, Headers
<1>3. m[s].owner \in Psps <=> m[s].owner \notin {Free, Dos}
  BY <1>2, ArenaAssumption
<1>4. m[s].owner = Dos => HasUmb /\ s = UmbStart
  BY Zenon DEF Arena, Owned
<1>5. HasUmb /\ s = UmbStart => m[s].owner = Dos
  <2> SUFFICES ASSUME HasUmb, s = UmbStart PROVE m[s].owner = Dos
    OBVIOUS
  <2>1. m[s] = Header("M", Dos, FirstUmb - UmbStart - 1)
    BY Zenon DEF Arena, Owned
  <2> QED
    BY <2>1 DEF Header
<1> QED
  BY <1>2, <1>3, <1>4, <1>5

(* A block that a program was told of.                                     *)
LEMMA ToldOf ==
  ASSUME NEW m, NEW S, NEW on, NEW x, Arena(m, S, on, x), NEW seg \in DOMAIN x
  PROVE  /\ seg - 1 \in S /\ seg \in Nat /\ seg - 1 \in Nat /\ (seg - 1) + 1 = seg
         /\ m[seg - 1].owner \in Psps /\ m[seg - 1].owner # Free
         /\ x[seg].size = m[seg - 1].size /\ x[seg].owner = m[seg - 1].owner
         /\ HasUmb => seg - 1 # UmbStart
<1>1. PICK s \in Theirs(m, S) : seg = s + 1
  BY DEF Arena, Told
<1>2. s \in S /\ m[s].owner \in Psps /\ x[s + 1].size = m[s].size /\ x[s + 1].owner = m[s].owner
  BY DEF Arena, Told, Theirs
<1>3. s \in Nat
  <2>1. Tiled(m, S, on)
    BY DEF Arena
  <2> QED
    BY <1>2, <2>1, BlockIs
<1>4. m[s].owner # Free /\ m[s].owner # Dos /\ (HasUmb => s # UmbStart)
  BY <1>2, OwnersAre
<1>5. seg - 1 = s /\ seg \in Nat
  BY <1>1, <1>3
<1> QED
  BY <1>1, <1>2, <1>3, <1>4, <1>5

(* One block is given to a program, anew or again.                         *)
Kept(m, S, n, T, at) ==
  /\ \A s \in S : m[s].owner # Free /\ s # at => s \in T /\ n[s] = m[s]
  /\ \A s \in T : s # at /\ (s \in S => m[s].owner = Free) => n[s].owner = Free

LEMMA HoldArena ==
  ASSUME NEW m, NEW S, NEW on \in BOOLEAN, Arena(m, S, on, held), NEW n, NEW T, Tiled(n, T, on),
         NEW at \in T, NEW psp \in Psps, NEW size, n[at].owner = psp, n[at].size = size,
         HasUmb => at # UmbStart, Kept(m, S, n, T, at),
         NEW x, x = Hold(at + 1, size, psp)
  PROVE  Arena(n, T, on, x)
<1> USE DEF Kept
<1>1. psp # Free /\ psp # Dos
  BY ArenaAssumption
<1>2. Owned(n, T)
  <2>1. ASSUME NEW s \in T, n[s].owner = Dos PROVE HasUmb /\ s = UmbStart
    <3>1. s # at
      BY <1>1, <2>1
    <3>2. s \in S /\ m[s].owner # Free
      BY <2>1, <3>1 DEF Free, Dos
    <3>3. n[s] = m[s]
      BY <3>1, <3>2
    <3> QED
      BY <2>1, <3>2, <3>3, OwnersAre
  <2>2. ASSUME HasUmb PROVE n[UmbStart] = Header("M", Dos, FirstUmb - UmbStart - 1)
    <3>1. UmbStart \in S /\ m[UmbStart] = Header("M", Dos, FirstUmb - UmbStart - 1)
      BY <2>2, Zenon DEF Arena, Tiled, Owned
    <3>2. m[UmbStart].owner # Free /\ UmbStart # at
      BY <2>2, <3>1 DEF Header, Free, Dos
    <3>3. n[UmbStart] = m[UmbStart]
      BY <3>1, <3>2
    <3> QED
      BY <3>1, <3>3
  <2> QED
    BY <2>1, <2>2 DEF Owned
<1>3. ASSUME NEW s, s # at
      PROVE  /\ s \in Theirs(n, T) <=> s \in Theirs(m, S)
             /\ s \in Theirs(n, T) => n[s] = m[s]
  <2>1. ASSUME s \in Theirs(n, T) PROVE s \in Theirs(m, S) /\ n[s] = m[s]
    <3>1. s \in T /\ n[s].owner \in Psps /\ n[s].owner # Free
      BY <2>1, ArenaAssumption DEF Theirs
    <3>2. s \in S /\ m[s].owner # Free
      BY <1>3, <3>1
    <3>3. n[s] = m[s]
      BY <1>3, <3>2
    <3> QED
      BY <3>1, <3>2, <3>3 DEF Theirs
  <2>2. ASSUME s \in Theirs(m, S) PROVE s \in Theirs(n, T)
    <3>1. s \in S /\ m[s].owner \in Psps /\ m[s].owner # Free
      BY <2>2, ArenaAssumption DEF Theirs
    <3>2. s \in T /\ n[s] = m[s]
      BY <1>3, <3>1
    <3> QED
      BY <3>1, <3>2 DEF Theirs
  <2> QED
    BY <2>1, <2>2
<1>4. at \in Theirs(n, T)
  BY DEF Theirs
<1>5. /\ DOMAIN x = DOMAIN held \cup {at + 1}
      /\ x[at + 1].size = size /\ x[at + 1].owner = psp
      /\ \A t \in DOMAIN held : t # at + 1 => x[t] = held[t]
  BY DEF Hold
<1>6. /\ DOMAIN held = {s + 1 : s \in Theirs(m, S)}
      /\ \A s \in Theirs(m, S) : held[s + 1].size = m[s].size /\ held[s + 1].owner = m[s].owner
  BY Zenon DEF Arena, Told
<1>7. /\ \A s \in Theirs(m, S) : s \in Nat
      /\ \A s \in Theirs(n, T) : s \in Nat
      /\ at \in Nat
  <2>1. Tiled(m, S, on)
    BY DEF Arena
  <2>2. \A s \in S : s \in Nat
    BY <2>1, BlockIs
  <2>3. \A s \in T : s \in Nat
    BY BlockIs
  <2> QED
    BY <2>2, <2>3 DEF Theirs
<1>8. DOMAIN x = {s + 1 : s \in Theirs(n, T)}
  <2>1. \A t : t \in DOMAIN x => t \in {s + 1 : s \in Theirs(n, T)}
    <3> SUFFICES ASSUME NEW t \in DOMAIN x, t # at + 1 PROVE \E s \in Theirs(n, T) : t = s + 1
      BY <1>4
    <3>1. PICK s \in Theirs(m, S) : t = s + 1
      BY <1>5, <1>6
    <3>2. s # at
      BY <3>1
    <3> QED
      BY <1>3, <3>1, <3>2
  <2>2. \A s \in Theirs(n, T) : s + 1 \in DOMAIN x
    <3> SUFFICES ASSUME NEW s \in Theirs(n, T), s # at PROVE s + 1 \in DOMAIN x
      BY <1>5
    <3>1. s \in Theirs(m, S)
      BY <1>3
    <3> QED
      BY <1>5, <1>6, <3>1
  <2> QED
    BY <2>1, <2>2
<1>9. ASSUME NEW s \in Theirs(n, T)
      PROVE  x[s + 1].size = n[s].size /\ x[s + 1].owner = n[s].owner
  <2>1. CASE s = at
    BY <1>5, <2>1
  <2>2. CASE s # at
    <3>1. s \in Theirs(m, S) /\ n[s] = m[s]
      BY <1>3, <2>2
    <3>2. s + 1 # at + 1
      BY <1>7, <2>2
    <3>3. s + 1 \in DOMAIN held /\ x[s + 1] = held[s + 1]
      BY <1>5, <1>6, <3>1, <3>2
    <3> QED
      BY <1>6, <3>1, <3>3
  <2> QED
    BY <2>1, <2>2
<1>10. Told(n, T, x)
  BY <1>8, <1>9, Zenon DEF Told
<1> QED
  BY <1>2, <1>10 DEF Arena

(* Merging free blocks takes nothing from programs.                        *)
LEMMA CompressArena ==
  ASSUME NEW m, NEW S, NEW on \in BOOLEAN, NEW x, Arena(m, S, on, x), NEW n, NEW T,
         Tiled(n, T, on), T \subseteq S,
         \A s \in S : m[s].owner # Free => s \in T /\ n[s] = m[s],
         \A s \in T : m[s].owner = Free => n[s].owner = Free
  PROVE  Arena(n, T, on, x)
<1>1. Owned(n, T)
  <2>1. ASSUME NEW s \in T, n[s].owner = Dos PROVE HasUmb /\ s = UmbStart
    <3>1. s \in S /\ m[s].owner # Free
      BY <2>1 DEF Free, Dos
    <3>2. n[s] = m[s]
      BY <3>1
    <3> QED
      BY <2>1, <3>1, <3>2, OwnersAre
  <2>2. ASSUME HasUmb PROVE n[UmbStart] = Header("M", Dos, FirstUmb - UmbStart - 1)
    <3>1. UmbStart \in S /\ m[UmbStart] = Header("M", Dos, FirstUmb - UmbStart - 1)
      BY <2>2, Zenon DEF Arena, Tiled, Owned
    <3>2. m[UmbStart].owner # Free
      BY <3>1 DEF Header, Free, Dos
    <3> QED
      BY <3>1, <3>2
  <2> QED
    BY <2>1, <2>2 DEF Owned
<1>2. Free \notin Psps
  BY ArenaAssumption
<1>3. ASSUME NEW s \in Theirs(m, S) PROVE s \in Theirs(n, T) /\ n[s] = m[s]
  <2>1. s \in S /\ m[s].owner \in Psps
    BY DEF Theirs
  <2>2. s \in T /\ n[s] = m[s]
    BY <1>2, <2>1
  <2> QED
    BY <2>1, <2>2 DEF Theirs
<1>4. ASSUME NEW s \in Theirs(n, T) PROVE s \in Theirs(m, S)
  <2>1. s \in T /\ s \in S /\ n[s].owner \in Psps
    BY DEF Theirs
  <2>2. m[s].owner # Free
    BY <1>2, <2>1
  <2>3. n[s] = m[s]
    BY <2>1, <2>2
  <2> QED
    BY <2>1, <2>3 DEF Theirs
<1>5. Theirs(n, T) = Theirs(m, S)
  BY <1>3, <1>4, Zenon
<1>6. Told(n, T, x)
  <2>1. Told(m, S, x)
    BY Zenon DEF Arena
  <2> QED
    BY <1>3, <1>5, <2>1 DEF Told
<1> QED
  BY <1>1, <1>6 DEF Arena

LEMMA CompressKeeps ==
  ASSUME NEW m, NEW S, NEW on \in BOOLEAN, NEW x, Arena(m, S, on, x), NEW from \in Nat,
         NEW n, n = Compress(m, from)
  PROVE  \E T : Arena(n, T, on, x) /\ Compressed(m, S, n, T, on, from)
<1> DEFINE T == S \ Merged(m, Low(S, on), from)
<1>1. Tiled(m, S, on)
  BY Zenon DEF Arena
<1>2. HasUmb => m[UmbStart].owner # Free
  <2> SUFFICES ASSUME HasUmb PROVE m[UmbStart].owner # Free
    OBVIOUS
  <2>1. m[UmbStart] = Header("M", Dos, FirstUmb - UmbStart - 1)
    BY Zenon DEF Arena, Owned
  <2> QED
    BY <2>1 DEF Header, Free, Dos
<1> HIDE DEF T
<1>3. Compressed(m, S, n, T, on, from)
  BY <1>1, <1>2, CompressIs DEF T
<1>4. /\ Tiled(n, T, on) /\ T \subseteq S
      /\ \A s \in S : m[s].owner # Free => s \in T /\ n[s] = m[s]
      /\ \A s \in T : m[s].owner = Free => n[s].owner = Free
  BY <1>3, Zenon DEF Compressed
<1>5. Arena(n, T, on, x)
  BY <1>4, CompressArena, Zenon
<1> QED
  BY <1>3, <1>5, Zenon

(* A stretch of free blocks, or of a block of its holder and free ones, is *)
(* joined or divided, and one part of it held.                             *)
Room(m, S, a, b) ==
  /\ a \in S /\ b \in S \cup {End} /\ Stretch(a, b) /\ (HasUmb => a # UmbStart)
  /\ \A s \in S : a < s /\ s < b => m[s].owner = Free

Joined(m, S, on, a, b, n) ==
  /\ n \in Arenas /\ a + n[a].size + 1 = b /\ n[a].type = Ending(b, on)
  /\ \A s \in S : s # a => n[s] = m[s]

Divided(m, S, on, a, q, b, n) ==
  /\ n \in Arenas /\ q \in Nat /\ a < q /\ q < b
  /\ n[a].type = "M" /\ a + n[a].size + 1 = q
  /\ n[q].type = Ending(b, on) /\ q + n[q].size + 1 = b
  /\ \A s \in S : s # a /\ s # q => n[s] = m[s]

HeldAt(n, at, psp, x) == n[at].owner = psp /\ x = Hold(at + 1, n[at].size, psp)

LEMMA JoinArena ==
  ASSUME NEW m, NEW S, NEW on \in BOOLEAN, Arena(m, S, on, held), NEW a, NEW b, Room(m, S, a, b),
         NEW n, Joined(m, S, on, a, b, n), NEW psp \in Psps, NEW x, HeldAt(n, a, psp, x)
  PROVE  \E T : Arena(n, T, on, x)
<1>0. /\ a \in S /\ b \in S \cup {End} /\ Stretch(a, b) /\ n \in Arenas
      /\ HasUmb => a # UmbStart
      /\ \A s \in S : a < s /\ s < b => m[s].owner = Free
      /\ n[a].owner = psp /\ x = Hold(a + 1, n[a].size, psp)
  BY Zenon DEF Room, Joined, HeldAt
<1> DEFINE T == Outside(S, a, b)
<1>1. Tiled(m, S, on) /\ m \in Arenas /\ a \in Paras
  BY <1>0 DEF Arena, Tiled
<1>2. \A s \in S : s # a => n[s] = m[s]
  BY Zenon DEF Joined
<1>3. After(n, a) = b /\ n[a].type = Ending(b, on)
  BY DEF After, Joined
<1>4. SameOutside(m, n, S, a, b)
  <2>1. a \in Nat /\ a < b
    BY <1>0, <1>1, BlockIs DEF Stretch
  <2> QED
    BY <1>2, <2>1 DEF SameOutside
<1>5. a \in T
  <2>1. a \in Nat
    BY <1>0, <1>1, BlockIs
  <2> QED
    BY <1>0, <2>1 DEF Outside
<1>6. Kept(m, S, n, T, a)
  BY <1>0, <1>2 DEF Outside, Kept
<1> HIDE DEF T
<1>8. Tiled(n, T, on)
  <2>1. T = Outside(S, a, b)
    BY DEF T
  <2> QED
    BY <1>0, <1>1, <1>3, <1>4, <2>1, JoinTiles, Zenon
<1>10. Arena(n, T, on, x)
  BY <1>0, <1>5, <1>6, <1>8, HoldArena, Zenon
<1> QED
  BY <1>10

LEMMA DivideArena ==
  ASSUME NEW m, NEW S, NEW on \in BOOLEAN, Arena(m, S, on, held), NEW a, NEW b, Room(m, S, a, b),
         NEW n, NEW q, Divided(m, S, on, a, q, b, n), NEW psp \in Psps, NEW x,
         \/ HeldAt(n, a, psp, x) /\ n[q].owner = Free
         \/ HeldAt(n, q, psp, x) /\ n[a].owner = Free /\ m[a].owner = Free
  PROVE  \E T : Arena(n, T, on, x)
<1> DEFINE T == Outside(S, a, b) \cup {q}
<1>1. /\ a \in S /\ b \in S \cup {End} /\ Stretch(a, b) /\ n \in Arenas
      /\ HasUmb => a # UmbStart
      /\ q \in Nat /\ a < q /\ q < b
  BY Zenon DEF Room, Divided
<1>2. Tiled(m, S, on) /\ m \in Arenas /\ a \in Paras /\ S \subseteq Paras
  BY <1>1 DEF Arena, Tiled
<1>3. a \in Nat /\ FirstMCB <= a /\ b \in Nat /\ b <= End
  <2>1. \A s \in S : s \in Nat /\ FirstMCB <= s /\ s < End
    BY <1>2, BlockIs
  <2> QED
    BY <1>1, <2>1, Layout
<1>4. \A s \in S : s # a /\ s # q => n[s] = m[s]
  BY Zenon DEF Divided
<1>5. /\ After(n, a) = q /\ n[a].type = "M"
      /\ After(n, q) = b /\ n[q].type = Ending(b, on)
  BY DEF After, Divided
<1>6. SameOutside(m, n, S, a, b)
  <2>1. \A s : ~(a <= s /\ s < b) => s # a /\ s # q
    BY <1>1, <1>3
  <2> QED
    BY <1>4, <2>1, Zenon DEF SameOutside
<1>7. a \in T /\ q \in T
  BY <1>1, <1>3 DEF Outside
<1>8. HasUmb => q # UmbStart
  BY <1>1 DEF Stretch
<1>9. \A s \in S : a < s /\ s < b => m[s].owner = Free
  BY Zenon DEF Room
<1>10. \A s \in S : m[s].owner # Free /\ s # a /\ s # q => s \in T /\ n[s] = m[s]
  BY <1>4, <1>9 DEF Outside
<1>11. \A s \in T : s # a /\ s # q => s \in S /\ n[s] = m[s]
  BY <1>4 DEF Outside
<1>12. q \in S => m[q].owner = Free
  BY <1>1, <1>9
<1> HIDE DEF T
<1>13. Tiled(n, T, on)
  <2>1. T = Outside(S, a, b) \cup {q}
    BY DEF T
  <2> QED
    BY <1>1, <1>2, <1>5, <1>6, <1>8, <2>1, SplitTiles
<1>14. CASE HeldAt(n, a, psp, x) /\ n[q].owner = Free
  <2>1. n[a].owner = psp /\ x = Hold(a + 1, n[a].size, psp)
    BY <1>14, Zenon DEF HeldAt
  <2>2. \A s \in S : m[s].owner # Free /\ s # a => s \in T /\ n[s] = m[s]
    BY <1>10, <1>12
  <2>3. \A s \in T : s # a /\ (s \in S => m[s].owner = Free) => n[s].owner = Free
    BY <1>11, <1>14
  <2>4. Kept(m, S, n, T, a)
    BY <2>2, <2>3, Zenon DEF Kept
  <2>5. Arena(n, T, on, x)
    BY <1>1, <1>7, <1>13, <2>1, <2>4, HoldArena, Zenon
  <2> QED
    BY <2>5
<1>15. CASE HeldAt(n, q, psp, x) /\ n[a].owner = Free /\ m[a].owner = Free
  <2>1. n[q].owner = psp /\ x = Hold(q + 1, n[q].size, psp)
    BY <1>15, Zenon DEF HeldAt
  <2>2. \A s \in S : m[s].owner # Free /\ s # q => s \in T /\ n[s] = m[s]
    BY <1>10, <1>15
  <2>3. \A s \in T : s # q /\ (s \in S => m[s].owner = Free) => n[s].owner = Free
    BY <1>11, <1>15
  <2>4. Kept(m, S, n, T, q)
    BY <2>2, <2>3, Zenon DEF Kept
  <2>5. Arena(n, T, on, x)
    BY <1>7, <1>8, <1>13, <2>1, <2>4, HoldArena, Zenon
  <2> QED
    BY <2>5
<1> QED
  BY <1>14, <1>15

(* Blocks are given up, in place.                                          *)
Dropped(m, S, D, n) ==
  /\ n \in Arenas /\ D \subseteq Theirs(m, S)
  /\ \A s \in S : n[s].type = m[s].type /\ n[s].size = m[s].size
  /\ \A s \in D : n[s].owner = Free
  /\ \A s \in S \ D : n[s] = m[s]

Without(x, D, y) ==
  DOMAIN y = DOMAIN x \ {s + 1 : s \in D} /\ \A t \in DOMAIN y : y[t] = x[t]

LEMMA DropArena ==
  ASSUME NEW m, NEW S, NEW on \in BOOLEAN, NEW x, Arena(m, S, on, x),
         NEW D, NEW n, Dropped(m, S, D, n), NEW y, Without(x, D, y)
  PROVE  Arena(n, S, on, y)
<1> USE DEF Dropped, Without
<1>1. Tiled(m, S, on) /\ Tiled(n, S, on)
  <2>1. Tiled(m, S, on)
    BY Zenon DEF Arena
  <2> QED
    BY <2>1, SameTiles
<1>2. \A s \in Theirs(m, S) : s \in Nat /\ s \in S /\ m[s].owner # Dos /\ m[s].owner # Free
  <2>1. \A s \in S : s \in Nat
    BY <1>1, BlockIs
  <2> QED
    BY <2>1, ArenaAssumption DEF Theirs
<1>3. Owned(n, S)
  <2>1. ASSUME NEW s \in S, n[s].owner = Dos PROVE HasUmb /\ s = UmbStart
    <3>1. s \notin D
      BY <2>1 DEF Free, Dos
    <3> QED
      BY <2>1, <3>1, OwnersAre
  <2>2. ASSUME HasUmb PROVE n[UmbStart] = Header("M", Dos, FirstUmb - UmbStart - 1)
    <3>1. UmbStart \in S /\ m[UmbStart] = Header("M", Dos, FirstUmb - UmbStart - 1)
      BY <2>2, Zenon DEF Arena, Tiled, Owned
    <3>2. m[UmbStart].owner = Dos
      BY <3>1 DEF Header
    <3>3. UmbStart \notin D
      BY <1>2, <3>2
    <3> QED
      BY <3>1, <3>3
  <2> QED
    BY <2>1, <2>2 DEF Owned
<1>4. Theirs(n, S) = Theirs(m, S) \ D
  <2>1. Free \notin Psps
    BY ArenaAssumption
  <2>2. D \subseteq S
    BY DEF Theirs
  <2> QED
    BY <2>1, <2>2 DEF Theirs
<1>5. /\ DOMAIN x = {s + 1 : s \in Theirs(m, S)}
      /\ \A s \in Theirs(m, S) : x[s + 1].size = m[s].size /\ x[s + 1].owner = m[s].owner
  BY Zenon DEF Arena, Told
<1>6. DOMAIN y = {s + 1 : s \in Theirs(n, S)}
  <2>1. \A s \in Theirs(m, S) : s \notin D => s + 1 \notin {t + 1 : t \in D}
    BY <1>2
  <2> QED
    BY <1>4, <1>5, <2>1
<1>7. ASSUME NEW s \in Theirs(n, S) PROVE y[s + 1].size = n[s].size /\ y[s + 1].owner = n[s].owner
  <2>1. s \in Theirs(m, S) /\ n[s] = m[s] /\ s + 1 \in DOMAIN y
    BY <1>2, <1>4, <1>6
  <2> QED
    BY <1>5, <2>1
<1> QED
  BY <1>1, <1>3, <1>6, <1>7 DEF Arena, Told

(***************************************************************************)
(* The operations on one block.                                            *)
(***************************************************************************)
LEMMA OwnStretch ==
  ASSUME NEW m, NEW S, NEW on, Tiled(m, S, on), NEW a \in S
  PROVE  /\ Stretch(a, After(m, a)) /\ \A s \in S : ~(a < s /\ s < After(m, a))
         /\ m[a].type = Ending(After(m, a), on)
<1>1. /\ a \in Nat /\ After(m, a) \in Nat /\ a < After(m, a)
      /\ \A t \in S : t \in Nat /\ (a < t => After(m, a) <= t)
  BY BlockIs
<1>2. \A s \in S : ~(a < s /\ s < After(m, a))
  BY <1>1
<1>3. (HasUmb => UmbStart \in S) /\ m[a].type = Ending(After(m, a), on)
  BY Zenon DEF Tiled
<1> QED
  BY <1>1, <1>2, <1>3 DEF Stretch

Reowned(m, a, psp) == [m EXCEPT ![a].owner = psp]

Headed(m, a, q, type, y, first, z, second) ==
  [m EXCEPT ![q] = Header(type, z, second), ![a] = Header("M", y, first)]

LEMMA AllotArena ==
  ASSUME NEW m, NEW S, NEW on \in BOOLEAN, Arena(m, S, on, held), NEW a \in S,
         HasUmb => a # UmbStart, NEW psp \in Psps, NEW n, n = Reowned(m, a, psp),
         NEW size, size = m[a].size, NEW x, x = Hold(a + 1, size, psp)
  PROVE  \E T : Arena(n, T, on, x)
<1>1. Tiled(m, S, on) /\ m \in Arenas /\ a \in Paras /\ S \subseteq Paras
  BY DEF Arena, Tiled
<1> DEFINE b == After(m, a)
<1>2. Stretch(a, b) /\ (\A s \in S : ~(a < s /\ s < b)) /\ m[a].type = Ending(b, on)
  BY <1>1, OwnStretch
<1>3. b \in S \cup {End} /\ a \in Nat
  BY <1>1, BlockIs
<1>4. /\ n \in Arenas /\ n[a].owner = psp /\ n[a].size = m[a].size /\ n[a].type = m[a].type
      /\ \A s \in S : s # a => n[s] = m[s]
  BY <1>1 DEF Arenas, Headers, Reowned
<1>5. a + n[a].size + 1 = b
  BY <1>4 DEF After
<1>6. Room(m, S, a, b)
  BY <1>2, <1>3 DEF Room
<1>7. Joined(m, S, on, a, b, n)
  BY <1>2, <1>4, <1>5 DEF Joined
<1>8. HeldAt(n, a, psp, x)
  BY <1>4 DEF HeldAt
<1> QED
  BY <1>6, <1>7, <1>8, JoinArena

(* A stretch is divided in the code.                                       *)
Lengths(a, q, b, first, second) ==
  first \in Nat /\ second \in Nat /\ q = a + first + 1 /\ b = q + second + 1

LEMMA DividedIs ==
  ASSUME NEW m, NEW S, NEW on \in BOOLEAN, Tiled(m, S, on), NEW a, NEW b, Room(m, S, a, b),
         NEW type, type = Ending(b, on), NEW q, NEW first, NEW second, Lengths(a, q, b, first, second),
         NEW y \in Psps \cup {Free, Dos}, NEW z \in Psps \cup {Free, Dos},
         NEW n, n = Headed(m, a, q, type, y, first, z, second)
  PROVE  /\ Divided(m, S, on, a, q, b, n)
         /\ n[a].owner = y /\ n[a].size = first /\ n[q].owner = z /\ n[q].size = second
<1>1. m \in Arenas /\ S \subseteq Paras /\ a \in S /\ b \in S \cup {End}
  BY DEF Tiled, Room
<1>2. a \in Nat /\ FirstMCB <= a /\ b \in Nat /\ b <= End /\ a \in Paras
  <2>1. \A s \in S : s \in Nat /\ FirstMCB <= s /\ s < End
    BY BlockIs
  <2> QED
    BY <1>1, <2>1, Layout
<1>3. q \in Nat /\ a < q /\ q < b /\ q \in Paras /\ first \in 0 .. Top /\ second \in 0 .. Top
  BY <1>2, Layout DEF Lengths
<1> DEFINE u == Header("M", y, first)
           v == Header(type, z, second)
<1>4. type \in {"M", "Z", "-"}
  BY DEF Ending
<1>5. u \in Headers /\ u.type = "M" /\ u.owner = y /\ u.size = first
  BY <1>3 DEF Header, Headers
<1>6. v \in Headers /\ v.type = type /\ v.owner = z /\ v.size = second
  BY <1>3, <1>4 DEF Header, Headers
<1>7. n = [m EXCEPT ![q] = v, ![a] = u]
  BY DEF Headed
<1> HIDE DEF u, v
<1>8. /\ n \in Arenas /\ n[a] = u /\ n[q] = v
      /\ \A s \in S : s # a /\ s # q => n[s] = m[s]
  BY <1>1, <1>2, <1>3, <1>5, <1>6, <1>7 DEF Arenas
<1> QED
  BY <1>3, <1>5, <1>6, <1>8 DEF Divided, Lengths

LEMMA OwnRoom ==
  ASSUME NEW m, NEW S, NEW on, Tiled(m, S, on), NEW a \in S, HasUmb => a # UmbStart
  PROVE  Room(m, S, a, After(m, a)) /\ m[a].type = Ending(After(m, a), on)
<1>1. /\ Stretch(a, After(m, a)) /\ \A s \in S : ~(a < s /\ s < After(m, a))
      /\ m[a].type = Ending(After(m, a), on)
  BY OwnStretch
<1>2. After(m, a) \in S \cup {End}
  BY BlockIs
<1> QED
  BY <1>1, <1>2, Zenon DEF Room

LEMMA CarveFrontArena ==
  ASSUME NEW m, NEW S, NEW on \in BOOLEAN, Arena(m, S, on, held), NEW a \in S, m[a].owner = Free,
         NEW blocks \in Nat, blocks <= m[a].size, NEW psp \in Psps,
         NEW n, n = CarveFront(m, a, blocks, psp), NEW x, x = Hold(a + 1, blocks, psp)
  PROVE  \E T : Arena(n, T, on, x)
<1>1. Tiled(m, S, on) /\ a \in Nat /\ m[a].size \in Nat /\ After(m, a) = a + m[a].size + 1
  <2>1. Tiled(m, S, on) /\ m \in Arenas /\ a \in Paras
    BY DEF Arena, Tiled
  <2> QED
    BY <2>1, AfterIs, BlockIs
<1>2. HasUmb => a # UmbStart
  BY OwnersAre DEF Free, Dos
<1>3. CASE m[a].size = blocks
  <2>1. n = Reowned(m, a, psp)
    BY <1>3, Zenon DEF CarveFront, Reowned
  <2>2. blocks = m[a].size
    BY <1>3
  <2> QED
    BY <1>2, <2>1, <2>2, AllotArena
<1>4. CASE m[a].size # blocks
  <2> DEFINE b    == After(m, a)
             q    == a + blocks + 1
             rest == m[a].size - blocks - 1
             type == m[a].type
  <2>1. n = Headed(m, a, q, type, psp, blocks, Free, rest)
    BY <1>4, Zenon DEF CarveFront, Headed
  <2>2. Lengths(a, q, b, blocks, rest)
    BY <1>1, <1>4 DEF Lengths
  <2>3. Room(m, S, a, b) /\ type = Ending(b, on)
    BY <1>1, <1>2, OwnRoom
  <2>4. psp \in Psps \cup {Free, Dos} /\ Free \in Psps \cup {Free, Dos}
    OBVIOUS
  <2> HIDE DEF b, q, rest, type
  <2>5. Divided(m, S, on, a, q, b, n) /\ n[a].owner = psp /\ n[a].size = blocks /\ n[q].owner = Free
    BY <1>1, <2>1, <2>2, <2>3, <2>4, DividedIs
  <2>6. HeldAt(n, a, psp, x)
    BY <2>5 DEF HeldAt
  <2> QED
    BY <2>3, <2>5, <2>6, DivideArena
<1> QED
  BY <1>3, <1>4

LEMMA CarveBackArena ==
  ASSUME NEW m, NEW S, NEW on \in BOOLEAN, Arena(m, S, on, held), NEW a \in S, m[a].owner = Free,
         NEW blocks \in Nat, blocks <= m[a].size, NEW psp \in Psps,
         NEW n, n = CarveBack(m, a, blocks, psp),
         NEW x, x = Hold((a + m[a].size - blocks) + 1, blocks, psp)
  PROVE  \E T : Arena(n, T, on, x)
<1>1. Tiled(m, S, on) /\ a \in Nat /\ m[a].size \in Nat /\ After(m, a) = a + m[a].size + 1
  <2>1. Tiled(m, S, on) /\ m \in Arenas /\ a \in Paras
    BY DEF Arena, Tiled
  <2> QED
    BY <2>1, AfterIs, BlockIs
<1>2. HasUmb => a # UmbStart
  BY OwnersAre DEF Free, Dos
<1>3. CASE m[a].size = blocks
  <2>1. n = Reowned(m, a, psp)
    BY <1>3, Zenon DEF CarveBack, Reowned
  <2>2. a + m[a].size - blocks = a
    BY <1>1, <1>3
  <2>3. x = Hold(a + 1, blocks, psp) /\ blocks = m[a].size
    BY <1>3, <2>2
  <2> QED
    BY <1>2, <2>1, <2>3, AllotArena
<1>4. CASE m[a].size # blocks
  <2> DEFINE b    == After(m, a)
             q    == a + m[a].size - blocks
             rest == m[a].size - blocks - 1
             type == m[a].type
  <2>1. n = Headed(m, a, q, type, Free, rest, psp, blocks)
    BY <1>4, Zenon DEF CarveBack, Headed
  <2>2. Lengths(a, q, b, rest, blocks)
    BY <1>1, <1>4 DEF Lengths
  <2>3. Room(m, S, a, b) /\ type = Ending(b, on)
    BY <1>1, <1>2, OwnRoom
  <2>4. psp \in Psps \cup {Free, Dos} /\ Free \in Psps \cup {Free, Dos}
    OBVIOUS
  <2>5. x = Hold(q + 1, blocks, psp)
    OBVIOUS
  <2> HIDE DEF b, q, rest, type
  <2>6. Divided(m, S, on, a, q, b, n) /\ n[q].owner = psp /\ n[q].size = blocks /\ n[a].owner = Free
    BY <1>1, <2>1, <2>2, <2>3, <2>4, DividedIs
  <2>7. HeldAt(n, q, psp, x)
    BY <2>5, <2>6 DEF HeldAt
  <2> QED
    BY <2>3, <2>6, <2>7, DivideArena
<1> QED
  BY <1>3, <1>4

(***************************************************************************)
(* The block that an allocation chooses is free and large enough.          *)
(***************************************************************************)
LEMMA OnePass ==
  ASSUME NEW S, NEW c, c \subseteq S, NEW P, P = <<c>>
  PROVE  DOMAIN P \subseteq 0 .. 2 /\ \A i \in DOMAIN P : P[i] \subseteq S
OBVIOUS

LEMMA TwoPasses ==
  ASSUME NEW S, NEW c, c \subseteq S, NEW d, d \subseteq S, NEW P, P = <<d, c>>
  PROVE  DOMAIN P \subseteq 0 .. 2 /\ \A i \in DOMAIN P : P[i] \subseteq S
OBVIOUS

LEMMA SizesAre ==
  ASSUME NEW m, NEW S, NEW on, Tiled(m, S, on)
  PROVE  \A s \in S : m[s].size \in Nat /\ s \in 0 .. Top
<1>1. m \in Arenas /\ S \subseteq Paras
  BY Zenon DEF Tiled
<1> QED
  BY <1>1, Layout DEF Arenas, Headers

LEMMA PassesAre ==
  ASSUME NEW m, NEW S, NEW on \in BOOLEAN, Tiled(m, S, on),
         NEW P, P = Passes(m)
  PROVE  /\ DOMAIN P \subseteq 0 .. 2 /\ \A i \in DOMAIN P : P[i] \subseteq S
         /\ ToSet(P) = {P[i] : i \in DOMAIN P}
<1> DEFINE c == Chain(m, FirstMCB)
           d == Chain(m, UmbStart)
<1>1. c \subseteq S
  <2>1. c = {t \in S : on \/ t < UmbStart}
    BY LowChain
  <2> HIDE DEF c
  <2> QED
    BY <2>1
<1>2. ASSUME HasUmb PROVE d \subseteq S
  <2>1. d = {t \in S : UmbStart <= t}
    BY <1>2, HighChain
  <2> HIDE DEF d
  <2> QED
    BY <2>1
<1>3. \/ P = <<c>>
      \/ HasUmb /\ P = <<d>>
      \/ HasUmb /\ P = <<d, c>>
  <2> DEFINE A == strategy.area = "low" \/ ~HasUmb
             B == strategy.area = "high" /\ HasUmb
  <2>1. P = CASE A -> <<c>> [] B -> <<d>> [] OTHER -> <<d, c>>
    BY Zenon DEF Passes
  <2>2. ~ (A /\ B) /\ (B => HasUmb) /\ (~A => HasUmb)
    OBVIOUS
  <2> HIDE DEF A, B, c, d
  <2>3. CASE A
    <3>1. ~B
      BY <2>2, <2>3
    <3> QED
      BY <2>1, <2>3, <3>1
  <2>4. CASE B
    <3>1. ~A
      BY <2>2, <2>4
    <3> QED
      BY <2>1, <2>2, <2>4, <3>1
  <2>5. CASE ~A /\ ~B
    BY <2>1, <2>2, <2>5
  <2> QED
    BY <2>3, <2>4, <2>5
<1> HIDE DEF c, d
<1>4. DOMAIN P \subseteq 0 .. 2 /\ \A i \in DOMAIN P : P[i] \subseteq S
  <2>1. CASE P = <<c>>
    BY <1>1, <2>1, OnePass
  <2>2. CASE HasUmb /\ P = <<d>>
    BY <1>2, <2>2, OnePass
  <2>3. CASE HasUmb /\ P = <<d, c>>
    BY <1>1, <1>2, <2>3, TwoPasses
  <2> QED
    BY <1>3, <2>1, <2>2, <2>3
<1> QED
  BY <1>4, Zenon DEF ToSet

LEMMA PicksOne ==
  ASSUME NEW P, DOMAIN P \subseteq 0 .. 2, NEW set, set # {}, set \subseteq 0 .. Top,
         set \subseteq UNION {P[i] : i \in DOMAIN P},
         NEW W, W = {i \in DOMAIN P : P[i] \cap set # {}}
  PROVE  Min(P[Min(W)] \cap set) \in set /\ Max(P[Max(W)] \cap set) \in set
<1>1. W # {} /\ W \subseteq 0 .. 2 /\ \A i \in W : P[i] \cap set # {}
  <2>1. PICK s \in set : TRUE
    OBVIOUS
  <2>2. PICK i \in DOMAIN P : s \in P[i]
    BY <2>1
  <2>3. i \in W
    BY <2>1, <2>2
  <2> QED
    BY <2>3
<1>2. Min(W) \in W /\ Max(W) \in W
  <2>1. W \subseteq 0 .. 2 /\ W # {} /\ 2 \in Nat
    BY <1>1
  <2>2. W \subseteq Nat
    BY <2>1
  <2> QED
    BY <2>1, <2>2, MinIs, MaxIs, Zenon
<1> DEFINE A == P[Min(W)] \cap set
           B == P[Max(W)] \cap set
<1>3. A # {} /\ A \subseteq set /\ B # {} /\ B \subseteq set
  BY <1>1, <1>2, Zenon
<1> HIDE DEF A, B
<1>4. A \subseteq 0 .. Top /\ B \subseteq 0 .. Top /\ A \subseteq Nat /\ Top \in Nat
  BY <1>3, Layout
<1>5. Min(A) \in A /\ Max(B) \in B
  BY <1>3, <1>4, MinIs, MaxIs, Zenon
<1> QED
  BY <1>3, <1>5 DEF A, B

LEMMA ChosenIs ==
  ASSUME NEW m, NEW S, NEW on \in BOOLEAN, Tiled(m, S, on),
         StrategyOK, NEW P, P = Passes(m), NEW blocks, Fitting(m, P, blocks) # {}
  PROVE  Chosen(m, P, blocks) \in Fitting(m, P, blocks) /\ Fitting(m, P, blocks) \subseteq S
<1> DEFINE fits == Fitting(m, P, blocks)
           best == {s \in fits : \A t \in fits : m[s].size <= m[t].size}
           With(set) == {i \in DOMAIN P : P[i] \cap set # {}}
<1>1. /\ DOMAIN P \subseteq 0 .. 2 /\ \A i \in DOMAIN P : P[i] \subseteq S
      /\ ToSet(P) = {P[i] : i \in DOMAIN P}
  BY PassesAre
<1>2. fits \subseteq UNION {P[i] : i \in DOMAIN P}
  <2>1. fits \subseteq UNION ToSet(P)
    BY Zenon DEF Fitting
  <2> QED
    BY <1>1, <2>1, Zenon
<1>3. fits \subseteq S
  <2> SUFFICES ASSUME NEW s \in fits PROVE s \in S
    BY Zenon
  <2>1. PICK i \in DOMAIN P : s \in P[i]
    BY <1>2, Zenon
  <2> QED
    BY <1>1, <2>1, Zenon
<1>4. \A s \in S : m[s].size \in Nat /\ s \in 0 .. Top
  BY SizesAre
<1>5. best \subseteq fits /\ best # {}
  <2> DEFINE Z == {m[s].size : s \in fits}
  <2>1. Z \subseteq Nat /\ Z # {}
    BY <1>3, <1>4, Zenon
  <2>2. PICK z \in Z : \A y \in Z : z <= y
    <3> HIDE DEF Z
    <3> QED
      BY <2>1, LeastNat, Zenon
  <2>3. PICK s \in fits : z = m[s].size
    BY Zenon
  <2>4. \A t \in fits : m[s].size <= m[t].size
    BY <2>2, <2>3, Zenon
  <2> QED
    BY <2>3, <2>4, Zenon
<1>6. fits # {} /\ fits \subseteq 0 .. Top /\ best \subseteq 0 .. Top
  BY <1>3, <1>4, <1>5, Zenon
<1> HIDE DEF fits, best
<1>7. ASSUME NEW set, set \subseteq fits, set # {}
      PROVE  /\ Min(P[Min(With(set))] \cap set) \in set
             /\ Max(P[Max(With(set))] \cap set) \in set
  <2> DEFINE W == With(set)
  <2>1. W = {i \in DOMAIN P : P[i] \cap set # {}}
    BY Zenon
  <2>2. /\ set \subseteq 0 .. Top /\ set \subseteq UNION {P[i] : i \in DOMAIN P}
        /\ DOMAIN P \subseteq 0 .. 2
    BY <1>1, <1>2, <1>6, <1>7, Zenon
  <2> HIDE DEF W
  <2>3. Min(P[Min(W)] \cap set) \in set /\ Max(P[Max(W)] \cap set) \in set
    BY <1>7, <2>1, <2>2, PicksOne, Zenon
  <2> QED
    BY <2>3, Zenon DEF W
<1>8. /\ Min(P[Min(With(fits))] \cap fits) \in fits
      /\ Max(P[Max(With(fits))] \cap fits) \in fits
      /\ Min(P[Min(With(best))] \cap best) \in fits
  <2>1. fits \subseteq fits
    OBVIOUS
  <2> HIDE DEF With
  <2> QED
    BY <1>5, <1>6, <1>7, <2>1, Zenon
<1> DEFINE f == Min(P[Min(With(fits))] \cap fits)
           l == Max(P[Max(With(fits))] \cap fits)
           e == Min(P[Min(With(best))] \cap best)
<1>9. Chosen(m, P, blocks) =
        CASE strategy.fit = "first" -> f [] strategy.fit = "best" -> e [] strategy.fit = "last" -> l
  BY Zenon DEF Chosen, fits, best
<1> HIDE DEF f, l, e
<1>10. Chosen(m, P, blocks) \in {f, l, e}
  <2> DEFINE A == strategy.fit = "first"
             B == strategy.fit = "best"
             C == strategy.fit = "last"
             c == Chosen(m, P, blocks)
  <2>1. c = CASE A -> f [] B -> e [] C -> l
    BY <1>9
  <2>2. (A /\ ~B /\ ~C) \/ (~A /\ B /\ ~C) \/ (~A /\ ~B /\ C)
    BY DEF StrategyOK
  <2> HIDE DEF A, B, C, c
  <2>3. c \in {f, l, e}
    BY <2>1, <2>2
  <2> QED
    BY <2>3 DEF c
<1> QED
  BY <1>3, <1>8, <1>10, Zenon DEF fits, f, l, e

(***************************************************************************)
(* Every operation keeps the arena.                                        *)
(***************************************************************************)
LEMMA AllocateArena ==
  ASSUME NEW S, linked \in BOOLEAN, StrategyOK, Arena(mcb, S, linked, held),
         NEW psp \in Psps, NEW blocks \in Nat, DOS_AllocateMemory(psp, blocks)
  PROVE  \E T : Arena(mcb', T, linked, held')
<1> DEFINE m == Compress(mcb, 0)
           P == Passes(m)
           F == Fitting(m, P, blocks)
           s == Chosen(m, P, blocks)
           at == IF strategy.fit = "last" THEN s + m[s].size - blocks ELSE s
<1>1. PICK T : Arena(m, T, linked, held)
  BY CompressKeeps
<1>2. IF F # {}
        THEN /\ mcb' = IF strategy.fit = "last" THEN CarveBack(m, s, blocks, psp)
                                                ELSE CarveFront(m, s, blocks, psp)
             /\ held' = Hold(at + 1, blocks, psp)
        ELSE mcb' = m /\ UNCHANGED held
  BY Zenon DEF DOS_AllocateMemory
<1>3. ASSUME F # {} PROVE s \in T /\ m[s].owner = Free /\ m[s].size \in Nat /\ blocks <= m[s].size
  <2>1. Tiled(m, T, linked)
    BY <1>1, Zenon DEF Arena
  <2>2. s \in F /\ F \subseteq T
    <3> HIDE DEF m
    <3> QED
      BY <1>3, <2>1, ChosenIs
  <2>3. m[s].owner = Free /\ m[s].size >= blocks
    BY <2>2, Zenon DEF Fitting
  <2>4. m[s].size \in Nat
    <3> HIDE DEF m, s, F
    <3> QED
      BY <2>1, <2>2, SizesAre
  <2> HIDE DEF m, s, F
  <2> QED
    BY <2>2, <2>3, <2>4
<1>4. CASE F = {}
  <2>1. mcb' = m /\ held' = held
    BY <1>2, <1>4, Zenon
  <2> QED
    BY <1>1, <2>1, Zenon
<1>5. CASE F # {} /\ strategy.fit = "last"
  <2>1. /\ mcb' = CarveBack(m, s, blocks, psp)
        /\ held' = Hold((s + m[s].size - blocks) + 1, blocks, psp)
    BY <1>2, <1>5, Zenon
  <2> HIDE DEF m, s, F
  <2> QED
    BY <1>1, <1>3, <1>5, <2>1, CarveBackArena
<1>6. CASE F # {} /\ strategy.fit # "last"
  <2>1. /\ mcb' = CarveFront(m, s, blocks, psp)
        /\ held' = Hold(s + 1, blocks, psp)
    BY <1>2, <1>6, Zenon
  <2> HIDE DEF m, s, F
  <2> QED
    BY <1>1, <1>3, <1>6, <2>1, CarveFrontArena
<1> QED
  BY <1>4, <1>5, <1>6, Zenon

LEMMA SetPSPSegArena ==
  ASSUME NEW S, linked \in BOOLEAN, Arena(mcb, S, linked, held),
         NEW psp \in Psps, NEW seg, SetPSPSeg(seg, psp)
  PROVE  \E T : Arena(mcb', T, linked, held')
<1>1. /\ seg \in DOMAIN held /\ mcb' = [mcb EXCEPT ![seg - 1].owner = psp]
      /\ held' = Hold(seg, held[seg].size, psp)
  BY Zenon DEF SetPSPSeg
<1>2. /\ seg - 1 \in S /\ (seg - 1) + 1 = seg /\ held[seg].size = mcb[seg - 1].size
      /\ HasUmb => seg - 1 # UmbStart
  BY <1>1, ToldOf
<1> DEFINE a == seg - 1
           size == held[seg].size
           n == mcb'
           x == held'
<1>3. n = Reowned(mcb, a, psp) /\ size = mcb[a].size /\ x = Hold(a + 1, size, psp) /\ a \in S
      /\ (HasUmb => a # UmbStart)
  BY <1>1, <1>2 DEF Reowned
<1> HIDE DEF a, size, n, x
<1>4. \E T : Arena(n, T, linked, x)
  BY <1>3, AllotArena
<1> QED
  BY <1>4 DEF n, x

LEMMA FreeArena ==
  ASSUME NEW S, linked \in BOOLEAN, Arena(mcb, S, linked, held), NEW seg, DOS_FreeMemory(seg)
  PROVE  \E T : Arena(mcb', T, linked, held')
<1>1. /\ seg \in DOMAIN held /\ mcb' = [mcb EXCEPT ![seg - 1].owner = Free]
      /\ held' = [s \in DOMAIN held \ {seg} |-> held[s]]
  BY Zenon DEF DOS_FreeMemory
<1>2. seg - 1 \in S /\ (seg - 1) + 1 = seg /\ mcb[seg - 1].owner \in Psps
  BY <1>1, ToldOf
<1> DEFINE a == seg - 1
           n == mcb'
           y == held'
<1>3. mcb \in Arenas /\ S \subseteq Paras
  BY Zenon DEF Arena, Tiled
<1>4. /\ n \in Arenas /\ n[a].owner = Free
      /\ \A s \in S : n[s].type = mcb[s].type /\ n[s].size = mcb[s].size
      /\ \A s \in S \ {a} : n[s] = mcb[s]
  BY <1>1, <1>2, <1>3 DEF Arenas, Headers
<1>5. {a} \subseteq Theirs(mcb, S) /\ \A s \in {a} : n[s].owner = Free
  BY <1>2, <1>4 DEF Theirs
<1>6. DOMAIN y = DOMAIN held \ {s + 1 : s \in {a}} /\ \A t \in DOMAIN y : y[t] = held[t]
  <2>1. {s + 1 : s \in {a}} = {seg}
    BY <1>2
  <2>2. y = [s \in DOMAIN held \ {seg} |-> held[s]]
    BY <1>1
  <2> HIDE DEF y
  <2> QED
    BY <2>1, <2>2
<1> HIDE DEF a, n, y
<1>7. Arena(n, S, linked, y)
  <2>1. Dropped(mcb, S, {a}, n)
    BY <1>4, <1>5, Zenon DEF Dropped
  <2>2. Without(held, {a}, y)
    BY <1>6, Zenon DEF Without
  <2> QED
    BY <2>1, <2>2, DropArena
<1> QED
  BY <1>7 DEF n, y

LEMMA BlocksAre ==
  ASSUME NEW m, NEW S, NEW on \in BOOLEAN, Tiled(m, S, on)
  PROVE  Chain(m, FirstMCB) \cup (IF HasUmb THEN Chain(m, UmbStart) ELSE {}) = S
<1>1. Chain(m, FirstMCB) = {t \in S : on \/ t < UmbStart}
  BY LowChain
<1>2. \A t \in S : t \in Nat /\ t < End /\ UmbStart \in Nat
  BY BlockIs, Layout
<1>3. CASE HasUmb
  <2>1. Chain(m, UmbStart) = {t \in S : UmbStart <= t}
    BY <1>3, HighChain
  <2> DEFINE c == Chain(m, FirstMCB)
             d == Chain(m, UmbStart)
  <2>2. c \cup d = S
    <3>1. c = {t \in S : on \/ t < UmbStart} /\ d = {t \in S : UmbStart <= t}
      BY <1>1, <2>1
    <3> HIDE DEF c, d
    <3> QED
      BY <1>2, <3>1
  <2> QED
    BY <1>3, <2>2
<1>4. CASE ~HasUmb
  <2>1. End = UmbStart
    BY <1>4 DEF End
  <2> DEFINE c == Chain(m, FirstMCB)
  <2>2. c = S
    <3>1. c = {t \in S : on \/ t < UmbStart}
      BY <1>1
    <3> HIDE DEF c
    <3> QED
      BY <1>2, <2>1, <3>1
  <2> QED
    BY <1>4, <2>2
<1> QED
  BY <1>3, <1>4

LEMMA ReleasedArena ==
  ASSUME NEW S, NEW on \in BOOLEAN, Arena(mcb, S, on, held), NEW psp \in Psps,
         NEW n, n = Released(mcb, psp),
         NEW y, y = [s \in {t \in DOMAIN held : held[t].owner # psp} |-> held[s]]
  PROVE  Arena(n, S, on, y)
<1> DEFINE D == {s \in S : mcb[s].owner = psp}
<1>1. Tiled(mcb, S, on) /\ mcb \in Arenas /\ S \subseteq Paras
  BY DEF Arena, Tiled
<1>2. n = [s \in Paras |-> IF s \in S /\ mcb[s].owner = psp
                             THEN [mcb[s] EXCEPT !.owner = Free] ELSE mcb[s]]
  <2>1. Chain(mcb, FirstMCB) \cup (IF HasUmb THEN Chain(mcb, UmbStart) ELSE {}) = S
    BY <1>1, BlocksAre
  <2> QED
    BY <2>1, Zenon DEF Released
<1>3. Dropped(mcb, S, D, n)
  <2>1. \A s \in Paras : mcb[s] \in Headers /\ [mcb[s] EXCEPT !.owner = Free] \in Headers
    BY <1>1 DEF Arenas, Headers
  <2>2. n \in Arenas
    BY <1>2, <2>1 DEF Arenas
  <2>3. D \subseteq Theirs(mcb, S)
    BY DEF Theirs
  <2>4. \A s \in S : n[s].type = mcb[s].type /\ n[s].size = mcb[s].size
    BY <1>1, <1>2, <2>1 DEF Headers
  <2>5. \A s \in D : n[s].owner = Free
    BY <1>1, <1>2, <2>1 DEF Headers
  <2>6. \A s \in S \ D : n[s] = mcb[s]
    BY <1>1, <1>2
  <2> HIDE DEF D
  <2> QED
    BY <2>2, <2>3, <2>4, <2>5, <2>6, Zenon DEF Dropped
<1>4. Without(held, D, y)
  <2>1. DOMAIN y = {t \in DOMAIN held : held[t].owner # psp} /\ \A t \in DOMAIN y : y[t] = held[t]
    OBVIOUS
  <2>2. ASSUME NEW t \in DOMAIN held PROVE held[t].owner = psp <=> t \in {s + 1 : s \in D}
    <3>1. t - 1 \in S /\ (t - 1) + 1 = t /\ held[t].owner = mcb[t - 1].owner
      BY ToldOf
    <3>2. ASSUME NEW s \in D, t = s + 1 PROVE held[t].owner = psp
      <4>1. s \in Nat /\ mcb[s].owner = psp
        BY <1>1, BlockIs
      <4>2. t - 1 = s
        BY <3>2, <4>1
      <4> QED
        BY <3>1, <4>1, <4>2
    <3>3. ASSUME held[t].owner = psp PROVE t \in {s + 1 : s \in D}
      <4>1. t - 1 \in D
        BY <3>1, <3>3
      <4> HIDE DEF D
      <4> QED
        BY <3>1, <4>1
    <3> QED
      BY <3>2, <3>3
  <2> HIDE DEF D
  <2>3. DOMAIN y = DOMAIN held \ {s + 1 : s \in D}
    BY <2>1, <2>2
  <2> QED
    BY <2>1, <2>3, Zenon DEF Without
<1> HIDE DEF D
<1> QED
  BY <1>3, <1>4, DropArena

LEMMA FreeProcessArena ==
  ASSUME NEW S, linked \in BOOLEAN, Arena(mcb, S, linked, held), NEW psp \in Psps,
         DOS_FreeProcessMemory(psp)
  PROVE  \E T : Arena(mcb', T, linked, held')
<1> DEFINE n == Released(mcb, psp)
           y == held'
<1>1. mcb' = Compress(n, 0) /\ y = [s \in {t \in DOMAIN held : held[t].owner # psp} |-> held[s]]
  BY Zenon DEF DOS_FreeProcessMemory
<1>2. n = Released(mcb, psp)
  OBVIOUS
<1> HIDE DEF n, y
<1>3. Arena(n, S, linked, y)
  BY <1>1, <1>2, ReleasedArena
<1>4. \E T : Arena(mcb', T, linked, y)
  BY <1>1, <1>3, CompressKeeps
<1> QED
  BY <1>4 DEF y

LEMMA RetypeArena ==
  ASSUME NEW m, NEW S, NEW on \in BOOLEAN, NEW x, Arena(m, S, on, x), HasUmb,
         NEW l \in S, After(m, l) = UmbStart, NEW n,
         n = [m EXCEPT ![l].type = IF on THEN "Z" ELSE "M"]
  PROVE  Arena(n, S, ~on, x)
<1>1. Tiled(m, S, on) /\ m \in Arenas /\ S \subseteq Paras
  BY DEF Arena, Tiled
<1>2. Tiled(n, S, ~on)
  BY <1>1, LinkTiles
<1>3. l # UmbStart
  BY <1>1, BlockIs
<1>4. /\ \A s \in S : n[s].size = m[s].size /\ n[s].owner = m[s].owner
      /\ n[UmbStart] = m[UmbStart]
  BY <1>1, <1>3, Layout DEF Arenas, Headers
<1>5. Theirs(n, S) = Theirs(m, S)
  BY <1>4 DEF Theirs
<1>6. Told(n, S, x)
  <2>1. Told(m, S, x) /\ Theirs(m, S) \subseteq S
    BY DEF Arena, Theirs
  <2> QED
    BY <1>4, <1>5, <2>1 DEF Told
<1>7. Owned(n, S)
  BY <1>4 DEF Arena, Owned
<1> QED
  BY <1>2, <1>6, <1>7 DEF Arena

LEMMA LinkArena ==
  ASSUME NEW S, linked \in BOOLEAN, Arena(mcb, S, linked, held), NEW on \in BOOLEAN,
         DOS_LinkUMBsToMemChain(on)
  PROVE  Arena(mcb', S, on, held) /\ linked' = on /\ held' = held /\ HasUmb
<1> DEFINE low == Chain(mcb, FirstMCB)
<1>1. /\ HasUmb /\ on # linked
      /\ on => After(mcb, Max(low)) = UmbStart /\ mcb' = [mcb EXCEPT ![Max(low)].type = "M"]
      /\ ~on => mcb' = Unlinked(mcb)
      /\ linked' = on /\ held' = held
  BY DEF DOS_LinkUMBsToMemChain
<1>2. Tiled(mcb, S, linked) /\ Top \in Nat /\ S \subseteq 0 .. Top /\ FirstMCB \in S /\ UmbStart \in S
  <2>1. Tiled(mcb, S, linked)
    BY DEF Arena
  <2>2. S \subseteq 0 .. Top
    BY <2>1, SizesAre
  <2> QED
    BY <1>1, <2>1, <2>2, Layout DEF Tiled
<1>3. low = {t \in S : linked \/ t < UmbStart}
  BY <1>2, LowChain
<1> DEFINE before == {s \in S : s < UmbStart}
<1>4. before # {} /\ before \subseteq 0 .. Top
  BY <1>2, Layout
<1>5. Max(before) \in before /\ \A j \in before : j <= Max(before)
  <2> HIDE DEF before
  <2> QED
    BY <1>2, <1>4, MaxIs
<1> DEFINE l == Max(before)
<1>6. l \in S /\ After(mcb, l) = UmbStart
  <2>1. PICK p \in S : p < UmbStart /\ After(mcb, p) = UmbStart
    <3>1. UmbStart # FirstMCB
      BY Layout
    <3> QED
      BY <1>2, <3>1, BlockBefore
  <2>2. p <= l /\ l \in S /\ l < UmbStart
    BY <1>5, <2>1
  <2>3. l \in Nat /\ p \in Nat /\ (p < l => UmbStart <= l) /\ UmbStart \in Nat
    BY <1>2, <2>1, <2>2, BlockIs, Layout
  <2> HIDE DEF l
  <2>4. p = l
    BY <2>2, <2>3
  <2> QED
    BY <2>1, <2>4
<1>7. mcb' = [mcb EXCEPT ![l].type = IF linked THEN "Z" ELSE "M"]
  <2>1. CASE linked
    <3>1. ~on /\ mcb' = Unlinked(mcb)
      BY <1>1, <2>1
    <3>2. low = S
      BY <1>3, <2>1
    <3> HIDE DEF low, l
    <3> QED
      BY <1>2, <2>1, <3>1, <3>2, Zenon DEF Unlinked, low, l
  <2>2. CASE ~linked
    <3>1. low = before /\ on
      BY <1>1, <1>3, <2>2
    <3>2. mcb' = [mcb EXCEPT ![Max(low)].type = "M"]
      BY <1>1, <3>1
    <3> HIDE DEF low, before
    <3> QED
      BY <2>2, <3>1, <3>2, Zenon
  <2> QED
    BY <2>1, <2>2
<1> HIDE DEF l
<1> DEFINE n == mcb'
<1>8. n = [mcb EXCEPT ![l].type = IF linked THEN "Z" ELSE "M"]
  BY <1>7
<1> HIDE DEF n
<1>9. Arena(n, S, ~linked, held)
  BY <1>1, <1>6, <1>8, RetypeArena
<1>10. ~linked = on
  BY <1>1
<1> QED
  BY <1>1, <1>9, <1>10 DEF n

(* A block and the free one after it, if there is one.                     *)
LEMMA ReachIs ==
  ASSUME NEW m, NEW S, NEW on \in BOOLEAN, NEW x, Arena(m, S, on, x), NEW a \in S,
         HasUmb => a # UmbStart, NEW size, size = m[a].size, NEW all, all = Reach(m, a, size),
         NEW next, next = a + size + 1,
         NEW type, type = IF all # size THEN m[next].type ELSE m[a].type
  PROVE  /\ size \in Nat /\ all \in Nat /\ size <= all /\ Room(m, S, a, a + all + 1)
         /\ type = Ending(a + all + 1, on)
<1>1. Tiled(m, S, on) /\ a \in Nat /\ size \in Nat /\ After(m, a) = next
  <2>1. Tiled(m, S, on)
    BY Zenon DEF Arena
  <2> QED
    BY <2>1, BlockIs, SizesAre DEF After
<1>2. Room(m, S, a, next) /\ m[a].type = Ending(next, on)
  BY <1>1, OwnRoom
<1>3. CASE m[a].type # "Z" /\ m[next].owner = Free
  <2>1. all = size + m[next].size + 1
    BY <1>3, Zenon DEF Reach
  <2>2. next # End
    BY <1>2, <1>3 DEF Ending
  <2>3. next \in S
    BY <1>2, <2>2 DEF Room
  <2>4. m[next].size \in Nat /\ next \in Nat
    BY <1>1, <2>3, BlockIs, SizesAre
  <2>5. all \in Nat /\ size < all /\ all # size
    BY <1>1, <2>1, <2>4
  <2> DEFINE b == After(m, next)
  <2>6. b = a + all + 1
    BY <1>1, <2>1, <2>4 DEF After
  <2>7. type = m[next].type
    BY <2>5
  <2>8. HasUmb => next # UmbStart
    BY <1>3, <2>3, OwnersAre DEF Free, Dos
  <2>9. Room(m, S, next, b) /\ m[next].type = Ending(b, on)
    BY <1>1, <2>3, <2>8, OwnRoom
  <2>10. b \in S \cup {End} /\ b \in Nat /\ next < b
    BY <1>1, <2>3, BlockIs
  <2>11. \A s \in S : s \in Nat
    BY <1>1, BlockIs
  <2> HIDE DEF b
  <2>12. a < next
    BY <1>1
  <2>13. Stretch(a, b)
    <3>1. Stretch(a, next) /\ Stretch(next, b)
      BY <1>2, <2>9 DEF Room
    <3>2. UmbStart \in Nat
      BY Layout
    <3> QED
      BY <1>1, <2>4, <2>8, <2>10, <2>12, <3>1, <3>2 DEF Stretch
  <2>14. \A s \in S : a < s /\ s < b => m[s].owner = Free
    <3> SUFFICES ASSUME NEW s \in S, a < s, s < b PROVE m[s].owner = Free
      OBVIOUS
    <3>1. (s < next => m[s].owner = Free) /\ (next < s => m[s].owner = Free)
      BY <1>2, <2>9 DEF Room
    <3>2. s \in Nat
      BY <2>11
    <3>3. s = next \/ s < next \/ next < s
      BY <2>4, <3>2
    <3> QED
      BY <1>3, <3>1, <3>3
  <2>15. Room(m, S, a, b)
    BY <1>2, <2>10, <2>13, <2>14 DEF Room
  <2> QED
    BY <1>1, <2>5, <2>6, <2>7, <2>9, <2>15
<1>4. CASE ~ (m[a].type # "Z" /\ m[next].owner = Free)
  <2>1. all = size
    BY <1>4, Zenon DEF Reach
  <2> QED
    BY <1>1, <1>2, <2>1
<1> QED
  BY <1>3, <1>4

LEMMA MinTwo ==
  ASSUME NEW i \in Nat, NEW j \in Nat
  PROVE  Min({i, j}) = IF i < j THEN i ELSE j
<1>1. Min({i, j}) \in {i, j} /\ \A k \in {i, j} : Min({i, j}) <= k
  <2>1. {i, j} \subseteq Nat /\ {i, j} # {}
    OBVIOUS
  <2> QED
    BY <2>1, MinIs
<1> DEFINE k == Min({i, j})
<1>2. (k = i \/ k = j) /\ k <= i /\ k <= j
  BY <1>1
<1> HIDE DEF k
<1>3. k = IF i < j THEN i ELSE j
  BY <1>2
<1> QED
  BY <1>3 DEF k

LEMMA ShrinkArena ==
  ASSUME NEW m, NEW S, NEW on \in BOOLEAN, Arena(m, S, on, held), NEW a \in S, HasUmb => a # UmbStart,
         NEW seg, seg = a + 1, NEW blocks \in Nat, blocks < m[a].size, NEW psp \in Psps,
         NEW n, n = Shrink(m, seg, blocks, psp), NEW x, x = Hold(seg, blocks, psp)
  PROVE  \E T : Arena(n, T, on, x)
<1> DEFINE b    == After(m, a)
           q    == seg + blocks
           rest == m[a].size - blocks - 1
           type == m[a].type
           k    == Headed(m, a, q, type, psp, blocks, Free, rest)
<1>1. Tiled(m, S, on) /\ a \in Nat /\ m[a].size \in Nat /\ After(m, a) = a + m[a].size + 1
  <2>1. Tiled(m, S, on)
    BY Zenon DEF Arena
  <2> QED
    BY <2>1, BlockIs, SizesAre DEF After
<1>2. n = Compress(k, 0)
  <2>1. seg - 1 = a
    BY <1>1
  <2> QED
    BY <2>1, Zenon DEF Shrink, Headed
<1>3. Lengths(a, q, b, blocks, rest)
  BY <1>1 DEF Lengths
<1>4. Room(m, S, a, b) /\ type = Ending(b, on)
  BY <1>1, OwnRoom
<1>5. psp \in Psps \cup {Free, Dos} /\ Free \in Psps \cup {Free, Dos}
      /\ k = Headed(m, a, q, type, psp, blocks, Free, rest)
  OBVIOUS
<1> HIDE DEF b, q, rest, type, k
<1>6. Divided(m, S, on, a, q, b, k) /\ k[a].owner = psp /\ k[a].size = blocks /\ k[q].owner = Free
  BY <1>1, <1>3, <1>4, <1>5, DividedIs
<1>7. HeldAt(k, a, psp, x)
  BY <1>6 DEF HeldAt
<1>8. PICK T : Arena(k, T, on, x)
  BY <1>4, <1>6, <1>7, DivideArena
<1> QED
  BY <1>2, <1>8, CompressKeeps

LEMMA GrowArena ==
  ASSUME NEW m, NEW S, NEW on \in BOOLEAN, Arena(m, S, on, held), NEW a \in S, HasUmb => a # UmbStart,
         NEW seg, seg = a + 1, NEW size, size = m[a].size,
         NEW blocks \in Nat, NEW psp \in Psps, NEW n, n = Grow(m, seg, size, blocks, psp),
         NEW x, x = Hold(seg, Min({blocks, Reach(m, a, size)}), psp)
  PROVE  \E T : Arena(n, T, on, x)
<1> DEFINE all  == Reach(m, a, size)
           next == a + size + 1
           type == IF all # size THEN m[next].type ELSE m[a].type
           b    == a + all + 1
           q    == seg + blocks
           rest == all - blocks - 1
<1>1. Tiled(m, S, on) /\ a \in Nat /\ m \in Arenas /\ S \subseteq Paras
  <2>1. Tiled(m, S, on)
    BY Zenon DEF Arena
  <2> QED
    BY <2>1, BlockIs DEF Tiled
<1>2. size \in Nat /\ all \in Nat /\ Room(m, S, a, b) /\ type = Ending(b, on)
  <2> HIDE DEF all, next, type
  <2>1. next = a + size + 1 /\ all = Reach(m, a, size)
        /\ type = IF all # size THEN m[next].type ELSE m[a].type
    BY DEF all, next, type
  <2> QED
    BY <2>1, ReachIs
<1>3. n = IF blocks < all THEN Headed(m, a, q, type, psp, blocks, Free, rest)
          ELSE [m EXCEPT ![a] = Header(type, psp, all)]
  <2>1. seg - 1 = a /\ seg + size = next
    BY <1>1, <1>2
  <2> QED
    BY <2>1, Zenon DEF Grow, Headed
<1>4. x = Hold(a + 1, IF blocks < all THEN blocks ELSE all, psp)
  <2> HIDE DEF all
  <2>1. Min({blocks, all}) = IF blocks < all THEN blocks ELSE all
    BY <1>2, MinTwo
  <2> QED
    BY <2>1 DEF all
<1>5. psp \in Psps \cup {Free, Dos} /\ Free \in Psps \cup {Free, Dos}
  OBVIOUS
<1>6. b \in Nat /\ b <= End /\ a < b
  <2>1. b \in S \cup {End} /\ a < b
    BY <1>2 DEF Room, Stretch
  <2>2. \A s \in S : s \in Nat /\ s < End
    BY <1>1, BlockIs
  <2> HIDE DEF b
  <2> QED
    BY <2>1, <2>2, Layout
<1> HIDE DEF all, next, type, b
<1>7. CASE blocks < all
  <2>1. Lengths(a, q, b, blocks, rest)
    BY <1>1, <1>2, <1>7 DEF Lengths, b
  <2>2. n = Headed(m, a, q, type, psp, blocks, Free, rest)
    BY <1>3, <1>7, Zenon
  <2> HIDE DEF q, rest
  <2>3. Divided(m, S, on, a, q, b, n) /\ n[a].owner = psp /\ n[a].size = blocks /\ n[q].owner = Free
    BY <1>1, <1>2, <1>5, <2>1, <2>2, DividedIs
  <2>4. HeldAt(n, a, psp, x)
    BY <1>4, <1>7, <2>3 DEF HeldAt
  <2> QED
    BY <1>2, <2>3, <2>4, DivideArena
<1>8. CASE ~(blocks < all)
  <2> DEFINE u == Header(type, psp, all)
  <2>1. n = [m EXCEPT ![a] = u]
    BY <1>3, <1>8, Zenon
  <2>2. all \in 0 .. Top
    BY <1>1, <1>2, <1>6, Layout DEF b
  <2>3. u \in Headers /\ u.type = type /\ u.owner = psp /\ u.size = all
    BY <1>2, <1>5, <2>2 DEF Header, Headers, Ending
  <2> HIDE DEF u
  <2>4. n \in Arenas /\ n[a] = u /\ \A s \in S : s # a => n[s] = m[s]
    BY <1>1, <2>1, <2>3 DEF Arenas
  <2>5. Joined(m, S, on, a, b, n)
    BY <1>2, <2>3, <2>4 DEF Joined, b
  <2>6. HeldAt(n, a, psp, x)
    BY <1>4, <1>8, <2>3, <2>4 DEF HeldAt
  <2> QED
    BY <1>2, <2>5, <2>6, JoinArena
<1> QED
  BY <1>7, <1>8

LEMMA ResizeArena ==
  ASSUME NEW S, linked \in BOOLEAN, Arena(mcb, S, linked, held),
         NEW psp \in Psps, NEW seg, NEW blocks \in Nat, DOS_ResizeMemory(psp, seg, blocks)
  PROVE  \E T : Arena(mcb', T, linked, held')
<1> DEFINE size == mcb[seg - 1].size
           from == IF blocks > size THEN seg - 1 ELSE 0
           m    == Compress(mcb, from)
           a    == seg - 1
<1>1. /\ seg \in DOMAIN held
      /\ \/ /\ blocks = size
            /\ mcb' = m /\ UNCHANGED held
         \/ /\ blocks < size
            /\ mcb' = Shrink(m, seg, blocks, psp)
            /\ held' = Hold(seg, blocks, psp)
         \/ /\ blocks > size
            /\ mcb' = Grow(m, seg, size, blocks, psp)
            /\ held' = Hold(seg, Min({blocks, Reach(m, seg - 1, size)}), psp)
  BY Zenon DEF DOS_ResizeMemory
<1>2. a \in S /\ a \in Nat /\ seg = a + 1 /\ mcb[a].owner # Free /\ (HasUmb => a # UmbStart)
  BY <1>1, ToldOf
<1>3. from \in Nat
  BY <1>2
<1>4. PICK T : Arena(m, T, linked, held) /\ Compressed(mcb, S, m, T, linked, from)
  <2> HIDE DEF from
  <2> QED
    BY <1>3, CompressKeeps
<1>5. a \in T /\ m[a].size = size
  <2>1. a \in T /\ m[a] = mcb[a]
    <3> HIDE DEF m, a, from
    <3> QED
      BY <1>2, <1>4 DEF Compressed
  <2> QED
    BY <2>1
<1>6. CASE blocks = size /\ mcb' = m /\ UNCHANGED held
  BY <1>4, <1>6, Zenon
<1>7. CASE blocks < size /\ mcb' = Shrink(m, seg, blocks, psp) /\ held' = Hold(seg, blocks, psp)
  <2> HIDE DEF m, size, a
  <2>1. blocks < m[a].size
    BY <1>5, <1>7
  <2> QED
    BY <1>2, <1>4, <1>5, <1>7, <2>1, ShrinkArena
<1>8. CASE /\ mcb' = Grow(m, seg, size, blocks, psp)
           /\ held' = Hold(seg, Min({blocks, Reach(m, a, size)}), psp)
  <2> HIDE DEF m, size, a
  <2> QED
    BY <1>2, <1>4, <1>5, <1>8, GrowArena
<1> QED
  BY <1>1, <1>6, <1>7, <1>8, Zenon

LEMMA InitArena ==
  ASSUME Init
  PROVE  \E S : Arena(mcb, S, linked, held)
<1> DEFINE S == {FirstMCB} \cup IF HasUmb THEN {UmbStart, FirstUmb} ELSE {}
           l == UmbStart - FirstMCB - 1
           c == FirstUmb - UmbStart - 1
           h == Top - FirstUmb - 1
<1>1. /\ FirstMCB \in Nat /\ UmbStart \in Nat /\ FirstUmb \in Nat /\ Top \in Nat
      /\ FirstMCB < UmbStart /\ UmbStart < FirstUmb /\ FirstUmb < Top
      /\ FirstMCB \in Paras /\ UmbStart \in Paras /\ FirstUmb \in Paras
      /\ l \in 0 .. Top /\ c \in 0 .. Top /\ h \in 0 .. Top
  BY Layout
<1> DEFINE A(s) == s = FirstMCB
           B(s) == s = UmbStart /\ HasUmb
           C(s) == s = FirstUmb /\ HasUmb
           u == Header("Z", Free, l)
           v == Header("M", Dos, c)
           w == Header("Z", Free, h)
           z == Header("-", Free, 0)
<1>2. /\ mcb = [s \in Paras |-> CASE A(s) -> u [] B(s) -> v [] C(s) -> w [] OTHER -> z]
      /\ linked = FALSE /\ held = <<>>
  BY Zenon DEF Init
<1>3. u \in Headers /\ u.type = "Z" /\ u.owner = Free /\ u.size = l
  BY <1>1 DEF Header, Headers
<1>4. v \in Headers /\ v.type = "M" /\ v.owner = Dos /\ v.size = c
  BY <1>1 DEF Header, Headers
<1>5. w \in Headers /\ w.type = "Z" /\ w.owner = Free /\ w.size = h
  BY <1>1 DEF Header, Headers
<1>6. z \in Headers
  BY <1>1 DEF Header, Headers
<1>7. \A s \in Paras : ~(A(s) /\ B(s)) /\ ~(A(s) /\ C(s)) /\ ~(B(s) /\ C(s))
  BY <1>1
<1>8. A(FirstMCB) /\ (HasUmb => B(UmbStart) /\ C(FirstUmb))
  OBVIOUS
<1>9. /\ mcb \in Arenas /\ mcb[FirstMCB] = u
      /\ HasUmb => mcb[UmbStart] = v /\ mcb[FirstUmb] = w
  <2> HIDE DEF A, B, C, u, v, w, z
  <2>1. ASSUME NEW s \in Paras
        PROVE  /\ A(s) => mcb[s] = u
               /\ B(s) => mcb[s] = v
               /\ C(s) => mcb[s] = w
               /\ ~A(s) /\ ~B(s) /\ ~C(s) => mcb[s] = z
    <3> DEFINE a == A(s)
               b == B(s)
               d == C(s)
    <3>1. mcb[s] = CASE a -> u [] b -> v [] d -> w [] OTHER -> z
      BY <1>2
    <3>2. ~(a /\ b) /\ ~(a /\ d) /\ ~(b /\ d)
      BY <1>7
    <3> HIDE DEF a, b, d
    <3>3. (a => mcb[s] = u) /\ (b => mcb[s] = v) /\ (d => mcb[s] = w) /\ (~a /\ ~b /\ ~d => mcb[s] = z)
      BY <3>1, <3>2
    <3> QED
      BY <3>3 DEF a, b, d
  <2>2. \A s \in Paras : mcb[s] \in Headers
    BY <1>3, <1>4, <1>5, <1>6, <2>1
  <2>3. mcb = [s \in Paras |-> mcb[s]]
    BY <1>2
  <2> QED
    BY <1>1, <1>8, <2>1, <2>2, <2>3 DEF Arenas
<1> HIDE DEF u, v, w, z, l, c, h
<1>10. /\ After(mcb, FirstMCB) = UmbStart
       /\ HasUmb => After(mcb, UmbStart) = FirstUmb /\ After(mcb, FirstUmb) = Top
  BY <1>1, <1>3, <1>4, <1>5, <1>9 DEF After, l, c, h
<1>11. Tiled(mcb, S, FALSE)
  <2>1. S \subseteq Paras /\ FirstMCB \in S /\ (HasUmb => UmbStart \in S)
    BY <1>1
  <2>2. \A s \in S : s < End /\ After(mcb, s) \in S \cup {End}
    BY <1>1, <1>10 DEF End
  <2>3. \A s, t \in S : s < t => After(mcb, s) <= t
    BY <1>1, <1>10
  <2>4. \A s \in S : mcb[s].type = Ending(After(mcb, s), FALSE)
    BY <1>1, <1>3, <1>4, <1>5, <1>9, <1>10 DEF Ending, Cut, End
  <2> HIDE DEF S
  <2> QED
    BY <1>9, <2>1, <2>2, <2>3, <2>4, Zenon DEF Tiled
<1>12. Free # Dos /\ Free \notin Psps /\ Dos \notin Psps
  BY ArenaAssumption DEF Free, Dos
<1>13. Owned(mcb, S)
  BY <1>1, <1>3, <1>4, <1>5, <1>9, <1>12 DEF Owned, v, c
<1>14. Theirs(mcb, S) = {}
  BY <1>3, <1>4, <1>5, <1>9, <1>12 DEF Theirs
<1>15. Told(mcb, S, held)
  <2>1. DOMAIN held = {}
    BY <1>2
  <2> QED
    BY <1>14, <2>1 DEF Told
<1>16. Arena(mcb, S, linked, held)
  BY <1>2, <1>11, <1>13, <1>15, Zenon DEF Arena
<1> QED
  BY <1>16

LEMMA StepKeeps ==
  ASSUME IInv, [Next]_vars
  PROVE  IInv'
<1>1. linked \in BOOLEAN /\ (linked => HasUmb) /\ StrategyOK
  BY Zenon DEF IInv
<1>2. PICK S : Arena(mcb, S, linked, held)
  BY Zenon DEF IInv
<1>3. Requests \subseteq Nat
  BY ArenaAssumption
<1>4. ASSUME linked' = linked, strategy' = strategy, \E T : Arena(mcb', T, linked, held')
      PROVE  IInv'
  BY <1>1, <1>4, Zenon DEF IInv, StrategyOK
<1>5. ASSUME NEW psp \in Psps, NEW blocks \in Requests, DOS_AllocateMemory(psp, blocks)
      PROVE  IInv'
  <2>1. linked' = linked /\ strategy' = strategy
    BY <1>5, Zenon DEF DOS_AllocateMemory
  <2>2. blocks \in Nat
    BY <1>3
  <2>3. \E T : Arena(mcb', T, linked, held')
    BY <1>1, <1>2, <1>5, <2>2, AllocateArena
  <2> QED
    BY <1>4, <2>1, <2>3
<1>6. ASSUME NEW psp \in Psps, NEW blocks \in Requests, NEW seg \in DOMAIN held,
             DOS_ResizeMemory(psp, seg, blocks)
      PROVE  IInv'
  <2>1. linked' = linked /\ strategy' = strategy
    BY <1>6, Zenon DEF DOS_ResizeMemory
  <2>2. blocks \in Nat
    BY <1>3
  <2>3. \E T : Arena(mcb', T, linked, held')
    BY <1>1, <1>2, <1>6, <2>2, ResizeArena
  <2> QED
    BY <1>4, <2>1, <2>3
<1>7. ASSUME NEW seg \in DOMAIN held, DOS_FreeMemory(seg)
      PROVE  IInv'
  <2>1. linked' = linked /\ strategy' = strategy
    BY <1>7, Zenon DEF DOS_FreeMemory
  <2>2. \E T : Arena(mcb', T, linked, held')
    BY <1>1, <1>2, <1>7, FreeArena
  <2> QED
    BY <1>4, <2>1, <2>2
<1>8. ASSUME NEW psp \in Psps, DOS_FreeProcessMemory(psp)
      PROVE  IInv'
  <2>1. linked' = linked /\ strategy' = strategy
    BY <1>8, Zenon DEF DOS_FreeProcessMemory
  <2>2. \E T : Arena(mcb', T, linked, held')
    BY <1>1, <1>2, <1>8, FreeProcessArena
  <2> QED
    BY <1>4, <2>1, <2>2
<1>9. ASSUME NEW psp \in Psps, NEW seg \in DOMAIN held, SetPSPSeg(seg, psp)
      PROVE  IInv'
  <2>1. linked' = linked /\ strategy' = strategy
    BY <1>9, Zenon DEF SetPSPSeg
  <2>2. \E T : Arena(mcb', T, linked, held')
    BY <1>1, <1>2, <1>9, SetPSPSegArena
  <2> QED
    BY <1>4, <2>1, <2>2
<1>10. ASSUME NEW on \in BOOLEAN, DOS_LinkUMBsToMemChain(on)
       PROVE  IInv'
  <2>1. strategy' = strategy
    BY <1>10, Zenon DEF DOS_LinkUMBsToMemChain
  <2>2. Arena(mcb', S, on, held) /\ linked' = on /\ held' = held /\ HasUmb
    BY <1>1, <1>2, <1>10, LinkArena
  <2>3. Arena(mcb', S, linked', held') /\ linked' \in BOOLEAN
    BY <2>2
  <2> QED
    BY <1>1, <2>1, <2>2, <2>3, Zenon DEF IInv, StrategyOK
<1>11. ASSUME NEW s \in Strategies, DOS_SetMemAllocStrategy(s)
       PROVE  IInv'
  <2>1. strategy' = s /\ mcb' = mcb /\ linked' = linked /\ held' = held
    BY <1>11, Zenon DEF DOS_SetMemAllocStrategy
  <2>2. s \in [fit : {"first", "best", "last"}, area : {"low", "high", "high then low"}]
    BY ArenaAssumption
  <2> QED
    BY <1>1, <1>2, <2>1, <2>2, Zenon DEF IInv, StrategyOK
<1>12. CASE UNCHANGED vars
  <2>1. strategy' = strategy /\ mcb' = mcb /\ linked' = linked /\ held' = held
    BY <1>12 DEF vars
  <2> QED
    BY <1>2, <1>4, <2>1, Zenon
<1> QED
  BY <1>5, <1>6, <1>7, <1>8, <1>9, <1>10, <1>11, <1>12, Zenon DEF Next

(***************************************************************************)
(* Whatever programs allocate, resize, free and hand over, and however the *)
(* chains are linked and cut, some set of blocks tiles memory, and those   *)
(* of programs are what programs were told.                                *)
(***************************************************************************)
THEOREM Invariance == Spec => []IInv
<1>1. ASSUME Init PROVE IInv
  <2>1. \E S : Arena(mcb, S, linked, held)
    BY <1>1, InitArena
  <2>2. linked = FALSE /\ strategy = [fit |-> "first", area |-> "low"]
    BY <1>1, Zenon DEF Init
  <2>3. linked \in BOOLEAN /\ (linked => HasUmb) /\ StrategyOK
    BY <2>2 DEF StrategyOK
  <2> QED
    BY <2>1, <2>3, Zenon DEF IInv
<1>2. IInv /\ [Next]_vars => IInv'
  BY StepKeeps
<1> QED
  BY <1>1, <1>2, PTL DEF Spec

LEMMA HeldAre ==
  ASSUME NEW m, NEW S, NEW on, NEW x, Arena(m, S, on, x), NEW seg \in DOMAIN x
  PROVE  /\ x[seg].size \in 0 .. Top /\ x[seg].owner \in Psps
         /\ seg \in FirstMCB + 1 .. Top
<1>1. /\ seg - 1 \in S /\ seg \in Nat /\ m[seg - 1].owner \in Psps
      /\ x[seg].size = m[seg - 1].size /\ x[seg].owner = m[seg - 1].owner
  BY ToldOf
<1>2. m[seg - 1] \in Headers
  BY <1>1, OwnersAre
<1>3. x[seg].size \in 0 .. Top
  BY <1>1, <1>2 DEF Headers
<1>4. Tiled(m, S, on)
  BY Zenon DEF Arena
<1>5. seg - 1 \in Nat /\ FirstMCB <= seg - 1 /\ seg - 1 < End
  BY <1>1, <1>4, BlockIs
<1>6. seg \in FirstMCB + 1 .. Top
  BY <1>1, <1>5, Layout
<1> QED
  BY <1>1, <1>3, <1>6

(***************************************************************************)
(* The headers and what programs hold have their types: no size below zero *)
(* or beyond memory is ever written into a header.                         *)
(***************************************************************************)
THEOREM TypeCorrect == Spec => []TypeOK
<1>1. IInv => TypeOK
  <2> SUFFICES ASSUME IInv PROVE TypeOK
    OBVIOUS
  <2>1. linked \in BOOLEAN /\ StrategyOK
    BY Zenon DEF IInv
  <2>2. PICK S : Arena(mcb, S, linked, held)
    BY Zenon DEF IInv
  <2>3. mcb \in [Paras -> [type : {"M", "Z", "-"}, owner : Psps \cup {Free, Dos}, size : 0 .. Top]]
    BY <2>2, Zenon DEF Arena, Tiled, Arenas, Headers
  <2>4. strategy.fit \in {"first", "best", "last"}
    BY <2>1 DEF StrategyOK
  <2>5. \A s \in DOMAIN held : held[s].size \in 0 .. Top /\ held[s].owner \in Psps /\ s \in FirstMCB + 1 .. Top
    BY <2>2, HeldAre
  <2>6. DOMAIN held \subseteq FirstMCB + 1 .. Top
    BY <2>5
  <2> QED
    BY <2>1, <2>3, <2>4, <2>5, <2>6, Zenon DEF TypeOK
<1> QED
  BY <1>1, Invariance, PTL

(***************************************************************************)
(* The chain from the first header ends at the end of conventional memory  *)
(* or, where the chains are linked, of all memory; the other where memory  *)
(* does.                                                                   *)
(***************************************************************************)
UpTo(m, C, s, b) == s \in C /\ After(m, s) = b /\ \A t \in C : After(m, t) <= b

Ended(m, C, b) == m[Max(C)].type = "Z" /\ After(m, Max(C)) = b

LEMMA LastOf ==
  ASSUME NEW m, NEW S, NEW on \in BOOLEAN, Tiled(m, S, on), NEW C, C \subseteq S,
         NEW s, NEW b, UpTo(m, C, s, b), b \in {End} \cup Cut(on)
  PROVE  Ended(m, C, b)
<1> USE DEF UpTo, Ended
<1>1. C \subseteq 0 .. Top /\ Top \in Nat /\ C # {}
  BY SizesAre, Layout
<1>2. Max(C) \in C /\ \A j \in C : j <= Max(C)
  BY <1>1, MaxIs
<1> DEFINE l == Max(C)
<1>3. l \in C /\ s <= l /\ l \in S /\ s \in S
  BY <1>2
<1> HIDE DEF l
<1>4. /\ l \in Nat /\ s \in Nat /\ After(m, l) \in Nat /\ l < After(m, l) /\ After(m, l) <= b
      /\ s < l => After(m, s) <= l
  BY <1>3, BlockIs
<1>5. l = s
  <2>1. After(m, s) = b /\ b \in Nat
    <3>1. After(m, s) \in Nat
      BY <1>3, BlockIs
    <3> QED
      BY <3>1
  <2> QED
    BY <1>3, <1>4, <2>1
<1>6. m[s].type = "Z"
  BY <1>3 DEF Tiled, Ending
<1> QED
  BY <1>5, <1>6 DEF l

(***************************************************************************)
(* The chains that the code walks tile memory.                             *)
(***************************************************************************)
THEOREM Tiling == Spec => []ChainsTile
<1>1. IInv => ChainsTile
  <2> SUFFICES ASSUME IInv PROVE ChainsTile
    OBVIOUS
  <2>1. linked \in BOOLEAN /\ (linked => HasUmb)
    BY Zenon DEF IInv
  <2>2. PICK S : Arena(mcb, S, linked, held)
    BY Zenon DEF IInv
  <2> DEFINE low  == Chain(mcb, FirstMCB)
             high == Chain(mcb, UmbStart)
  <2>3. Tiled(mcb, S, linked) /\ FirstMCB \in S /\ (HasUmb => UmbStart \in S)
    BY <2>2, Zenon DEF Arena, Tiled
  <2>4. low = {t \in S : linked \/ t < UmbStart}
    BY <2>1, <2>3, LowChain
  <2>5. HasUmb => high = {t \in S : UmbStart <= t}
    BY <2>1, <2>3, HighChain
  <2>6. /\ UmbStart \in Nat /\ End \in Nat /\ UmbStart <= End /\ FirstMCB < UmbStart /\ FirstMCB \in Nat
        /\ HasUmb => End = Top
        /\ ~HasUmb => End = UmbStart
        /\ UmbStart < Top
    BY Layout DEF End
  <2>7. \A t \in S : t \in Nat /\ After(mcb, t) \in Nat /\ t < After(mcb, t) /\ After(mcb, t) <= End
    BY <2>3, BlockIs
  <2>8. PICK e \in S : After(mcb, e) = End
    <3>1. End - 1 \in Nat /\ FirstMCB <= End - 1 /\ End - 1 < End
      BY <2>6
    <3>2. PICK e \in S : e <= End - 1 /\ End - 1 < After(mcb, e)
      BY <2>3, <3>1, BlockAt
    <3>3. After(mcb, e) = End
      BY <2>6, <2>7, <3>2
    <3> QED
      BY <3>3
  <2> HIDE DEF low, high
  <2>9. mcb[Max(low)].type = "Z" /\ After(mcb, Max(low)) = IF linked THEN Top ELSE UmbStart
    <3>1. CASE linked
      <4>1. low = S /\ End = Top
        BY <2>1, <2>4, <2>6, <3>1
      <4>2. UpTo(mcb, low, e, End) /\ low \subseteq S
        BY <2>7, <2>8, <4>1 DEF UpTo
      <4>3. Ended(mcb, low, End)
        BY <2>1, <2>3, <4>2, LastOf
      <4> QED
        BY <3>1, <4>1, <4>3 DEF Ended
    <3>2. CASE ~linked
      <4>1. PICK l \in S : l < UmbStart /\ After(mcb, l) = UmbStart
        <5>1. CASE HasUmb
          <6>1. UmbStart \in S /\ UmbStart # FirstMCB
            BY <2>3, <2>6, <5>1
          <6> QED
            BY <2>3, <6>1, BlockBefore
        <5>2. CASE ~HasUmb
          BY <2>6, <2>7, <2>8, <5>2
        <5> QED
          BY <5>1, <5>2
      <4>2. l \in low /\ low \subseteq S
        BY <2>4, <4>1
      <4>3. \A t \in low : After(mcb, t) <= UmbStart
        <5>1. ASSUME NEW t \in low PROVE After(mcb, t) <= UmbStart
          <6>1. t \in S /\ t < UmbStart
            BY <2>4, <3>2
          <6>2. CASE HasUmb
            BY <2>3, <6>1, <6>2, BlockIs
          <6>3. CASE ~HasUmb
            BY <2>6, <2>7, <6>1, <6>3
          <6> QED
            BY <6>2, <6>3
        <5> QED
          BY <5>1
      <4>4. UmbStart \in {End} \cup Cut(linked)
        BY <3>2 DEF Cut
      <4>5. UpTo(mcb, low, l, UmbStart)
        BY <4>1, <4>2, <4>3 DEF UpTo
      <4>6. Ended(mcb, low, UmbStart)
        BY <2>1, <2>3, <4>2, <4>4, <4>5, LastOf
      <4> QED
        BY <3>2, <4>6 DEF Ended
    <3> QED
      BY <2>1, <3>1, <3>2
  <2>10. linked => UmbStart \in low
    BY <2>1, <2>3, <2>4
  <2>11. HasUmb => mcb[UmbStart] = Header("M", Dos, FirstUmb - UmbStart - 1)
    BY <2>2, Zenon DEF Arena, Owned
  <2>12. HasUmb => mcb[Max(high)].type = "Z" /\ After(mcb, Max(high)) = Top
    <3> SUFFICES ASSUME HasUmb PROVE mcb[Max(high)].type = "Z" /\ After(mcb, Max(high)) = Top
      OBVIOUS
    <3>1. high \subseteq S /\ e \in high
      <4>1. UmbStart \in S
        BY <2>3
      <4>2. UmbStart <= e
        <5>1. e < UmbStart => After(mcb, e) <= UmbStart
          BY <2>3, <4>1, BlockIs
        <5> QED
          BY <2>6, <2>7, <2>8, <5>1
      <4> QED
        BY <2>5, <4>2
    <3>2. \A t \in high : After(mcb, t) <= End
      BY <2>7, <3>1
    <3>3. UpTo(mcb, high, e, End)
      BY <2>8, <3>1, <3>2 DEF UpTo
    <3>4. Ended(mcb, high, End)
      BY <2>1, <2>3, <3>1, <3>3, LastOf
    <3> QED
      BY <2>6, <3>4 DEF Ended
  <2> QED
    BY <2>9, <2>10, <2>11, <2>12, Zenon DEF ChainsTile, low, high
<1> QED
  BY <1>1, Invariance, PTL

(* A block of a program is one that a program was told of.                 *)
LEMMA BlockHeld ==
  ASSUME NEW m, NEW S, NEW on, NEW x, Arena(m, S, on, x), NEW s \in S, m[s].owner \notin {Free, Dos}
  PROVE  s + 1 \in DOMAIN x /\ x[s + 1].size = m[s].size /\ x[s + 1].owner = m[s].owner
<1>1. m[s].owner \in Psps
  BY OwnersAre
<1>2. s \in Theirs(m, S)
  BY <1>1 DEF Theirs
<1> QED
  BY <1>2, Zenon DEF Arena, Told

(***************************************************************************)
(* What programs were told is what the chains say.                         *)
(***************************************************************************)
THEOREM Intact == Spec => []HeldIntact
<1>1. IInv => HeldIntact
  <2> SUFFICES ASSUME IInv PROVE HeldIntact
    OBVIOUS
  <2>1. linked \in BOOLEAN
    BY Zenon DEF IInv
  <2>2. PICK S : Arena(mcb, S, linked, held)
    BY Zenon DEF IInv
  <2>3. Blocks = S
    <3>1. Tiled(mcb, S, linked)
      BY <2>2, Zenon DEF Arena
    <3> QED
      BY <2>1, <3>1, BlocksAre DEF Blocks
  <2> DEFINE c(s) == <<s + 1, mcb[s].size, mcb[s].owner>>
             d(s) == <<s, held[s].size, held[s].owner>>
             U    == {t \in S : mcb[t].owner \notin {Free, Dos}}
  <2>4. ASSUME NEW s \in U PROVE s + 1 \in DOMAIN held /\ c(s) = d(s + 1)
    BY <2>2, BlockHeld
  <2>5. ASSUME NEW t \in DOMAIN held PROVE \E s \in U : d(t) = c(s)
    <3>1. /\ t - 1 \in S /\ (t - 1) + 1 = t
          /\ mcb[t - 1].owner \in Psps
          /\ held[t].size = mcb[t - 1].size /\ held[t].owner = mcb[t - 1].owner
      BY <2>2, ToldOf
    <3>2. t - 1 \in U
      BY <3>1, ArenaAssumption
    <3>3. d(t) = c(t - 1)
      BY <3>1
    <3> QED
      BY <3>2, <3>3, Zenon
  <2> HIDE DEF c, d, U
  <2>6. {c(s) : s \in U} = {d(t) : t \in DOMAIN held}
    BY <2>4, <2>5
  <2> QED
    BY <2>3, <2>6, Zenon DEF HeldIntact, c, d, U
<1> QED
  BY <1>1, Invariance, PTL

LEMMA OnlyPass ==
  ASSUME NEW c, NEW P, P = <<c>>
  PROVE  UNION ToSet(P) = c
<1>1. DOMAIN P = {1} /\ P[1] = c
  OBVIOUS
<1>2. ToSet(P) = {c}
  BY <1>1 DEF ToSet
<1> QED
  BY <1>2

LEMMA LowFits ==
  ASSUME NEW m, NEW S, Tiled(m, S, FALSE), strategy.area = "low", NEW blocks
  PROVE  Fitting(m, Passes(m), blocks) =
           {s \in S : s < UmbStart /\ m[s].owner = Free /\ m[s].size >= blocks}
<1> DEFINE off == FALSE
           c == Chain(m, FirstMCB)
           P == Passes(m)
<1>1. off \in BOOLEAN /\ Tiled(m, S, off) /\ ~off
  OBVIOUS
<1> HIDE DEF off
<1>2. c = {t \in S : off \/ t < UmbStart}
  BY <1>1, LowChain
<1>3. c = {t \in S : t < UmbStart}
  <2> HIDE DEF c
  <2> QED
    BY <1>1, <1>2
<1>4. P = <<c>>
  <2> DEFINE A == strategy.area = "low" \/ ~HasUmb
             B == strategy.area = "high" /\ HasUmb
             d == Chain(m, UmbStart)
  <2>1. P = CASE A -> <<c>> [] B -> <<d>> [] OTHER -> <<d, c>>
    BY Zenon DEF Passes
  <2>2. A /\ ~B
    OBVIOUS
  <2> HIDE DEF A, B, c, d, P
  <2> QED
    BY <2>1, <2>2
<1> HIDE DEF c, P
<1>5. UNION ToSet(P) = c
  BY <1>4, OnlyPass
<1>6. Fitting(m, P, blocks) = {s \in c : m[s].owner = Free /\ m[s].size >= blocks}
  BY <1>5, Zenon DEF Fitting
<1> DEFINE F == Fitting(m, P, blocks)
<1>7. F = {s \in c : m[s].owner = Free /\ m[s].size >= blocks}
  BY <1>6
<1> HIDE DEF F
<1>8. F = {s \in S : s < UmbStart /\ m[s].owner = Free /\ m[s].size >= blocks}
  BY <1>3, <1>7, Zenon
<1> QED
  BY <1>8 DEF F, P

LEMMA FitLeavesGap ==
  ASSUME NEW m, NEW S, NEW on, Arena(m, S, on, held), NEW blocks \in Nat,
         NEW s \in S, s < UmbStart, m[s].owner = Free, m[s].size >= blocks
  PROVE  \E p \in FirstMCB .. UmbStart - 1 - blocks : Gap(p, p + blocks)
<1>1. Tiled(m, S, on)
  BY Zenon DEF Arena
<1>2. /\ s \in Nat /\ FirstMCB <= s /\ m[s].size \in Nat /\ After(m, s) = s + m[s].size + 1
      /\ FirstMCB \in Nat /\ UmbStart \in Nat
  BY <1>1, BlockIs, SizesAre, Layout DEF After
<1>3. After(m, s) <= UmbStart
  <2>1. CASE HasUmb
    <3>1. UmbStart \in S
      BY <1>1, <2>1, Zenon DEF Tiled
    <3> QED
      BY <1>1, <3>1, BlockIs
  <2>2. CASE ~HasUmb
    <3>1. End = UmbStart
      BY <2>2 DEF End
    <3> QED
      BY <1>1, <3>1, BlockIs
  <2> QED
    BY <2>1, <2>2
<1>4. s \in FirstMCB .. UmbStart - 1 - blocks
  BY <1>2, <1>3
<1>5. ASSUME NEW t \in DOMAIN held PROVE t + held[t].size - 1 < s \/ s + blocks < t - 1
  <2>1. /\ t - 1 \in S /\ (t - 1) + 1 = t /\ t \in Nat /\ m[t - 1].owner # Free
        /\ held[t].size = m[t - 1].size
    BY ToldOf
  <2> DEFINE h == t - 1
  <2>2. h \in S /\ h # s /\ t = h + 1 /\ held[t].size = m[h].size
    BY <2>1
  <2> HIDE DEF h
  <2>3. /\ h \in Nat /\ m[h].size \in Nat /\ After(m, h) = h + m[h].size + 1
        /\ (h < s => After(m, h) <= s) /\ (s < h => After(m, s) <= h)
    BY <1>1, <2>2, BlockIs, SizesAre DEF After
  <2> QED
    BY <1>2, <2>2, <2>3
<1>6. Gap(s, s + blocks)
  BY <1>5 DEF Gap
<1> QED
  BY <1>4, <1>6

LEMMA GapFits ==
  ASSUME NEW m, NEW S, NEW on, Arena(m, S, on, held), NEW blocks \in Nat,
         \A s, t \in S : After(m, s) = t /\ t < UmbStart /\ m[s].owner = Free => m[t].owner # Free,
         NEW p \in FirstMCB .. UmbStart - 1 - blocks, Gap(p, p + blocks)
  PROVE  \E s \in S : s < UmbStart /\ m[s].owner = Free /\ m[s].size >= blocks
<1>1. Tiled(m, S, on)
  BY Zenon DEF Arena
<1>2. /\ p \in Nat /\ FirstMCB <= p /\ p + blocks < UmbStart /\ p < End /\ UmbStart <= End
      /\ UmbStart \in Nat /\ End \in Nat
  BY Layout
<1>3. PICK s \in S : s <= p /\ p < After(m, s)
  BY <1>1, <1>2, BlockAt
<1>4. ASSUME NEW t \in S, t <= p + blocks, p < After(m, t)
      PROVE  m[t].owner = Free
  <2>1. t \in Nat /\ m[t].size \in Nat /\ After(m, t) = t + m[t].size + 1
    BY <1>1, BlockIs, SizesAre DEF After
  <2>2. m[t].owner # Dos
    <3>1. m[t].owner = Dos => t = UmbStart
      BY OwnersAre
    <3> QED
      BY <1>2, <1>4, <2>1, <3>1
  <2>3. ASSUME m[t].owner # Free PROVE FALSE
    <3>1. m[t].owner \notin {Free, Dos}
      BY <2>2, <2>3
    <3>2. t + 1 \in DOMAIN held /\ held[t + 1].size = m[t].size
      BY <3>1, BlockHeld
    <3> DEFINE seg == t + 1
    <3>3. seg \in DOMAIN held /\ held[seg].size = m[t].size
      BY <3>2
    <3>4. seg + held[seg].size - 1 < p \/ p + blocks < seg - 1
      <4> HIDE DEF seg
      <4> QED
        BY <3>3, Zenon DEF Gap
    <3> QED
      BY <1>2, <1>4, <2>1, <3>3, <3>4
  <2> QED
    BY <2>3
<1>5. /\ s \in Nat /\ m[s].size \in Nat /\ After(m, s) = s + m[s].size + 1
      /\ After(m, s) \in S \cup {End} /\ After(m, s) \in Nat
  BY <1>1, BlockIs, SizesAre DEF After
<1>6. m[s].owner = Free
  BY <1>2, <1>3, <1>4, <1>5
<1>7. ASSUME After(m, s) <= p + blocks PROVE FALSE
  <2> DEFINE t == After(m, s)
  <2>1. t \in S /\ t < UmbStart
    BY <1>2, <1>5, <1>7
  <2>2. t <= p + blocks /\ p < t /\ t \in Nat /\ After(m, s) = t
    BY <1>3, <1>5, <1>7
  <2> HIDE DEF t
  <2>3. p < After(m, t)
    <3>1. t < After(m, t) /\ After(m, t) \in Nat
      BY <1>1, <2>1, BlockIs
    <3> QED
      BY <1>2, <2>2, <3>1
  <2>4. m[t].owner = Free
    BY <1>4, <2>1, <2>2, <2>3
  <2>5. m[t].owner # Free
    BY <1>6, <2>1, <2>2
  <2> QED
    BY <2>4, <2>5
<1>8. m[s].size >= blocks /\ s < UmbStart
  BY <1>2, <1>3, <1>5, <1>7
<1> QED
  BY <1>6, <1>8

(***************************************************************************)
(* An allocation in conventional memory fails exactly when no gap between  *)
(* the blocks of programs is large enough.                                 *)
(***************************************************************************)
THEOREM NoneFailsFalsely == Spec => []NoFalseFailure
<1>1. IInv => NoFalseFailure
  <2> SUFFICES ASSUME IInv, strategy.area = "low", ~linked, NEW blocks \in Requests
               PROVE  Fitting(Compress(mcb, 0), Passes(Compress(mcb, 0)), blocks) # {} <=>
                        \E p \in FirstMCB .. UmbStart - 1 - blocks : Gap(p, p + blocks)
    BY Zenon DEF NoFalseFailure
  <2> DEFINE off == FALSE
             m == Compress(mcb, 0)
  <2>1. PICK S : Arena(mcb, S, off, held)
    <3>1. linked = FALSE
      BY Zenon DEF IInv
    <3> QED
      BY <3>1, Zenon DEF IInv
  <2>2. off \in BOOLEAN /\ 0 \in Nat /\ m = Compress(mcb, 0)
    OBVIOUS
  <2> HIDE DEF off, m
  <2>3. PICK T : Arena(m, T, off, held) /\ Compressed(mcb, S, m, T, off, 0)
    BY <2>1, <2>2, CompressKeeps
  <2>4. Tiled(m, T, FALSE) /\ Tiled(m, T, off) /\ Arena(m, T, off, held)
    BY <2>3, Zenon DEF Arena, off
  <2>5. blocks \in Nat
    BY ArenaAssumption
  <2>6. \A s, t \in T : After(m, s) = t /\ t < UmbStart /\ m[s].owner = Free => m[t].owner # Free
    <3>1. \A s \in T : s \in Nat
      BY <2>4, BlockIs
    <3>2. \A s \in T : s >= 0
      BY <3>1
    <3> QED
      BY <2>3, <3>2, Zenon DEF Compressed
  <2> DEFINE F == Fitting(m, Passes(m), blocks)
  <2>7. F = {s \in T : s < UmbStart /\ m[s].owner = Free /\ m[s].size >= blocks}
    BY <2>4, LowFits
  <2> HIDE DEF F
  <2>8. ASSUME F # {} PROVE \E p \in FirstMCB .. UmbStart - 1 - blocks : Gap(p, p + blocks)
    <3>1. PICK s \in T : s < UmbStart /\ m[s].owner = Free /\ m[s].size >= blocks
      BY <2>7, <2>8
    <3> QED
      BY <2>4, <2>5, <3>1, FitLeavesGap
  <2>9. ASSUME NEW p \in FirstMCB .. UmbStart - 1 - blocks, Gap(p, p + blocks) PROVE F # {}
    <3>1. \E s \in T : s < UmbStart /\ m[s].owner = Free /\ m[s].size >= blocks
      BY <2>4, <2>5, <2>6, <2>9, GapFits
    <3> QED
      BY <2>7, <3>1
  <2>10. F # {} <=> \E p \in FirstMCB .. UmbStart - 1 - blocks : Gap(p, p + blocks)
    BY <2>8, <2>9
  <2> QED
    BY <2>10, Zenon DEF F, m
<1> QED
  BY <1>1, Invariance, PTL

(* Behind all that a block can have there is no free block, if the chain   *)
(* was compressed from it on.                                              *)
Apart(m, S, a, on) ==
  \A s, t \in S : s >= a /\ After(m, s) = t /\ (on \/ t < UmbStart) /\ m[s].owner = Free
                    => m[t].owner # Free

LEMMA ReachEnds ==
  ASSUME NEW m, NEW S, NEW on \in BOOLEAN, NEW x, Arena(m, S, on, x), NEW a \in S,
         HasUmb => a # UmbStart, NEW size, size = m[a].size, NEW all, all = Reach(m, a, size),
         NEW b, b = a + all + 1, b \in S, b < UmbStart, Apart(m, S, a, on)
  PROVE  m[b].owner # Free
<1> USE DEF Apart
<1> DEFINE next == After(m, a)
<1>1. Tiled(m, S, on) /\ a \in Nat /\ size \in Nat /\ next = a + size + 1
  <2>1. Tiled(m, S, on)
    BY Zenon DEF Arena
  <2> QED
    BY <2>1, BlockIs, SizesAre DEF After
<1>2. next \in S \cup {End} /\ next \in Nat /\ a < next /\ m[a].type = Ending(next, on)
  <2>1. m[a].type = Ending(next, on)
    BY <1>1, OwnStretch
  <2> QED
    BY <1>1, <2>1, BlockIs
<1>3. b \in Nat /\ b # End /\ UmbStart \in Nat /\ End \in Nat /\ UmbStart <= End
  BY <1>1, BlockIs, Layout
<1> HIDE DEF next
<1>4. CASE m[a].type # "Z" /\ m[next].owner = Free
  <2>1. all = size + m[next].size + 1
    BY <1>1, <1>4, Zenon DEF Reach
  <2>2. next # End
    BY <1>2, <1>4 DEF Ending
  <2>3. next \in S
    BY <1>2, <2>2
  <2>4. m[next].size \in Nat /\ After(m, next) = next + m[next].size + 1
    BY <1>1, <2>3, SizesAre DEF After
  <2>5. After(m, next) = b /\ next >= a
    BY <1>1, <1>2, <2>1, <2>4
  <2> QED
    BY <1>4, <2>3, <2>5
<1>5. CASE ~ (m[a].type # "Z" /\ m[next].owner = Free)
  <2>1. all = size
    BY <1>1, <1>5, Zenon DEF Reach
  <2>2. b = next
    BY <1>1, <2>1
  <2>3. b \notin {End} \cup Cut(on)
    BY <1>3 DEF Cut
  <2>4. m[a].type = "M"
    BY <1>2, <2>2, <2>3 DEF Ending
  <2> QED
    BY <1>5, <2>2, <2>4
<1> QED
  BY <1>4, <1>5

(***************************************************************************)
(* One resize that gives less than asked: compressed, no two free blocks   *)
(* are left side by side, so the block ends at memory's end or at a held   *)
(* block's header.                                                         *)
(***************************************************************************)
LEMMA GrownToTheEnd ==
  ASSUME NEW S, linked \in BOOLEAN, Arena(mcb, S, linked, held),
         NEW psp \in Psps, NEW seg \in DOMAIN held, seg \in FirstMCB .. UmbStart, NEW blocks \in Nat,
         held'[seg].size < blocks, DOS_ResizeMemory(psp, seg, blocks),
         NEW end, end = seg + held'[seg].size
  PROVE  end \in {UmbStart, Top} \/ ~Gap(end, end)
<1> DEFINE size == mcb[seg - 1].size
           from == IF blocks > size THEN seg - 1 ELSE 0
           m    == Compress(mcb, from)
           a    == seg - 1
           all  == Reach(m, a, size)
           b    == a + all + 1
<1>1. \/ blocks = size /\ held' = held
      \/ blocks < size /\ held' = Hold(seg, blocks, psp)
      \/ blocks > size /\ held' = Hold(seg, Min({blocks, all}), psp)
  BY Zenon DEF DOS_ResizeMemory
<1>2. /\ a \in S /\ a \in Nat /\ seg = a + 1 /\ mcb[a].owner # Free /\ (HasUmb => a # UmbStart)
      /\ held[seg].size = size /\ a < UmbStart /\ size \in Nat
  <2>1. /\ a \in S /\ a \in Nat /\ seg = a + 1 /\ mcb[a].owner # Free /\ (HasUmb => a # UmbStart)
        /\ held[seg].size = size
    BY ToldOf
  <2>2. Tiled(mcb, S, linked)
    BY Zenon DEF Arena
  <2>3. size \in Nat
    BY <2>1, <2>2, SizesAre
  <2> QED
    BY <2>1, <2>3, Layout
<1>3. \A z : (Hold(seg, z, psp))[seg].size = z
  BY DEF Hold
<1>4. blocks > size /\ held'[seg].size = Min({blocks, all})
  <2> HIDE DEF all, size
  <2>1. ~(blocks = size /\ held' = held)
    BY <1>2
  <2>2. ASSUME held' = Hold(seg, blocks, psp) PROVE FALSE
    <3>1. held'[seg].size = blocks
      BY <1>3, <2>2, Zenon
    <3> QED
      BY <3>1
  <2>3. blocks > size /\ held' = Hold(seg, Min({blocks, all}), psp)
    BY <1>1, <2>1, <2>2, Zenon
  <2> QED
    BY <1>3, <2>3, Zenon
<1>5. from = a
  BY <1>4
<1>6. PICK T : Arena(m, T, linked, held) /\ Compressed(mcb, S, m, T, linked, a)
  <2>1. m = Compress(mcb, a)
    BY <1>5
  <2> HIDE DEF m, a
  <2> QED
    BY <1>2, <2>1, CompressKeeps
<1>7. a \in T /\ m[a].size = size
  <2>1. a \in T /\ m[a] = mcb[a]
    <3> HIDE DEF m, a, from
    <3> QED
      BY <1>2, <1>6 DEF Compressed
  <2> QED
    BY <2>1
<1> DEFINE next == a + size + 1
           type == IF all # size THEN m[next].type ELSE m[a].type
<1>8. all \in Nat /\ Room(m, T, a, b)
  <2>1. next = a + size + 1 /\ all = Reach(m, a, size)
        /\ type = IF all # size THEN m[next].type ELSE m[a].type
    OBVIOUS
  <2> HIDE DEF all, next, type, m, size, a, from
  <2> QED
    BY <1>2, <1>6, <1>7, <2>1, ReachIs
<1>9. held'[seg].size = all /\ end = b
  <2> HIDE DEF all, size, a
  <2>1. Min({blocks, all}) = IF blocks < all THEN blocks ELSE all
    BY <1>8, MinTwo
  <2>2. held'[seg].size = all
    BY <1>4, <1>8, <2>1
  <2> QED
    BY <1>2, <1>8, <2>2
<1>10. b \in T \cup {End} /\ Stretch(a, b)
  BY <1>8, Zenon DEF Room
<1>11. Tiled(m, T, linked)
  BY <1>6, Zenon DEF Arena
<1>12. CASE b = End
  BY <1>9, <1>12 DEF End
<1>13. CASE b \in T /\ b # UmbStart
  <2>1. b < UmbStart /\ b \in Nat
    <3>1. b \in Nat /\ b < End /\ UmbStart \in Nat
      <4> HIDE DEF b, m
      <4> QED
        BY <1>11, <1>13, BlockIs, Layout
    <3>2. CASE HasUmb
      <4> HIDE DEF b, m, a
      <4> QED
        BY <1>2, <1>10, <1>13, <3>1, <3>2 DEF Stretch
    <3>3. CASE ~HasUmb
      <4> HIDE DEF b
      <4> QED
        BY <3>1, <3>3 DEF End
    <3> QED
      BY <3>1, <3>2, <3>3
  <2>2. m[b].owner # Free
    <3>1. Apart(m, T, a, linked)
      <4> HIDE DEF m, a
      <4> QED
        BY <1>6, Zenon DEF Compressed, Apart
    <3>2. b = a + all + 1 /\ all = Reach(m, a, size)
      OBVIOUS
    <3> HIDE DEF m, a, all, b, size, from
    <3> QED
      BY <1>2, <1>6, <1>7, <1>13, <2>1, <3>1, <3>2, ReachEnds
  <2> HIDE DEF m, b
  <2>3. m[b].owner # Dos
    <3>1. m[b].owner = Dos => b = UmbStart
      BY <1>6, <1>13, OwnersAre
    <3> QED
      BY <1>13, <3>1
  <2>4. b + 1 \in DOMAIN held /\ held[b + 1].size = m[b].size
    BY <1>6, <1>13, <2>2, <2>3, BlockHeld
  <2>5. m[b].size \in Nat
    BY <1>11, <1>13, SizesAre
  <2>6. ~((b + 1) + held[b + 1].size - 1 < b) /\ ~(b < (b + 1) - 1)
    BY <2>1, <2>4, <2>5
  <2>7. ~Gap(b, b)
    BY <2>4, <2>6, Zenon DEF Gap
  <2> QED
    BY <1>9, <2>7 DEF b
<1>14. CASE b = UmbStart
  BY <1>9, <1>14
<1> QED
  BY <1>10, <1>12, <1>13, <1>14

(***************************************************************************)
(* A block of conventional memory that cannot grow as asked gets all there *)
(* is up to the next held block.                                           *)
(***************************************************************************)
THEOREM ResizedToMaximum == Spec => ResizedToMaximumLow
<1>1. IInv /\ [Next]_vars => [LeavesNoGap(FirstMCB .. UmbStart)]_vars
  <2> SUFFICES ASSUME IInv, NEW psp \in Psps, NEW seg \in DOMAIN held \cap FirstMCB .. UmbStart,
                      NEW blocks \in Requests, held'[seg].size < blocks,
                      DOS_ResizeMemory(psp, seg, blocks)
               PROVE  LET end == seg + held'[seg].size
                      IN  end \in {UmbStart, Top} \/ ~Gap(end, end)
    BY Zenon DEF LeavesNoGap
  <2>1. PICK S : Arena(mcb, S, linked, held) /\ linked \in BOOLEAN
    BY Zenon DEF IInv
  <2>2. blocks \in Nat /\ seg \in DOMAIN held /\ seg \in FirstMCB .. UmbStart
    BY ArenaAssumption
  <2> DEFINE end == seg + held'[seg].size
  <2>3. end = seg + held'[seg].size
    OBVIOUS
  <2> HIDE DEF end
  <2>4. end \in {UmbStart, Top} \/ ~Gap(end, end)
    BY <2>1, <2>2, <2>3, GrownToTheEnd
  <2> QED
    BY <2>4, Zenon DEF end
<1> QED
  BY <1>1, Invariance, PTL DEF Spec, ResizedToMaximumLow
=============================================================================
