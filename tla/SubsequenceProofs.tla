-------------------------- MODULE SubsequenceProofs --------------------------
(***************************************************************************)
(* Induction over an array, from the well-foundedness of < on the naturals,  *)
(* and with it what the loops of module Subsequences compute.              *)
(***************************************************************************)
EXTENDS Subsequences, SequenceTheorems, FiniteSetTheorems, WellFoundedInduction, TLAPS

\* Every set of naturals that is not empty has a least member.
LEMMA LeastMember ==
    ASSUME NEW T \in SUBSET Nat, T # {}
    PROVE  \E x \in T : \A y \in T : x <= y
<1> DEFINE R == OpToRel(<, Nat)
<1>1. \A x, y \in Nat : <<x, y>> \in R <=> x < y
  BY DEF OpToRel
<1>2. IsWellFoundedOn(R, Nat)
  BY NatLessThanWellFounded
<1> HIDE DEF R
<1>3. PICK x \in T : \A y \in T : ~(<<y, x>> \in R)
  BY <1>2, WFMin
<1>4. \A y \in T : ~(y < x)
  BY <1>1, <1>3
<1> QED BY <1>4

\* A bounded one has a greatest.
LEMMA GreatestMember ==
    ASSUME NEW T \in SUBSET Nat, T # {}, NEW bound \in Nat, \A x \in T : x <= bound
    PROVE  \E x \in T : \A y \in T : y <= x
<1> DEFINE above == {u \in Nat : \A x \in T : x <= u}
<1>1. PICK u \in above : \A v \in above : u <= v
  <2>1. above \in SUBSET Nat /\ bound \in above
    OBVIOUS
  <2> QED BY <2>1, LeastMember
<1>2. u \in T
  <2> SUFFICES ASSUME u \notin T PROVE FALSE
    OBVIOUS
  <2>1. PICK x \in T : TRUE
    OBVIOUS
  <2>2. x < u /\ u - 1 \in Nat
    BY <1>1
  <2>3. \A y \in T : y <= u - 1
    BY <1>1
  <2>4. u - 1 \in above
    BY <2>2, <2>3
  <2> QED BY <1>1, <2>4
<1> QED BY <1>1, <1>2

\* Induction along the indices of an array, for the set S of those that have a property.
LEMMA IndexInduction ==
    ASSUME NEW n \in Nat, NEW S, 0 \in S, \A i \in 1..n : i - 1 \in S => i \in S
    PROVE  \A i \in 0..n : i \in S
<1> DEFINE T == {i \in 0..n : i \notin S}
<1> SUFFICES ASSUME T # {} PROVE FALSE
  OBVIOUS
<1>1. PICK x \in T : \A y \in T : x <= y
  <2>1. T \in SUBSET Nat
    OBVIOUS
  <2> QED BY <2>1, LeastMember
<1>2. x # 0 /\ x \in 1..n /\ x - 1 \in 0..n
  BY <1>1
<1>3. x - 1 \notin T
  BY <1>1, <1>2
<1> QED BY <1>1, <1>2, <1>3

----------------------------------------------------------------------------
(***************************************************************************)
(* The loop is well defined: its recursive definition has a solution.        *)
(***************************************************************************)

LEMMA KeptUpToDef ==
    ASSUME NEW T, NEW s \in Seq(T), NEW at
    PROVE  /\ KeptUpTo(s, at) =
                  [i \in 0..Len(s) |->
                      IF i = 0 THEN <<>>
                      ELSE IF i \in at THEN Append(KeptUpTo(s, at)[i - 1], s[i])
                                       ELSE KeptUpTo(s, at)[i - 1]]
           /\ \A i \in 0..Len(s) : KeptUpTo(s, at)[i] \in Seq(T)
<1> DEFINE Solves(f, m) ==
               f = [i \in 0..m |-> IF i = 0 THEN <<>>
                                   ELSE IF i \in at THEN Append(f[i - 1], s[i]) ELSE f[i - 1]]
           Typed(f, m) == \A i \in 0..m : f[i] \in Seq(T)
           S == {m \in 0..Len(s) : \E f : Solves(f, m) /\ Typed(f, m)}
           n == Len(s)
<1>0. n \in Nat /\ \A i \in 1..n : s[i] \in T
  OBVIOUS
<1>1. 0 \in S
  <2> DEFINE g == [i \in 0..0 |-> <<>>]
  <2>1. Solves(g, 0) /\ Typed(g, 0)
    OBVIOUS
  <2>2. 0 \in 0..Len(s)
    BY <1>0
  <2> HIDE DEF g, Solves, Typed
  <2> QED BY <2>1, <2>2
<1>2. ASSUME NEW m \in 1..n, m - 1 \in S PROVE m \in S
  <2>1. PICK f : Solves(f, m - 1) /\ Typed(f, m - 1)
    BY <1>2
  <2> DEFINE new == IF m \in at THEN Append(f[m - 1], s[m]) ELSE f[m - 1]
             g == [i \in 0..m |-> IF i = m THEN new ELSE f[i]]
  <2>2. \A i \in 0..(m - 1) : /\ f[i] = IF i = 0 THEN <<>>
                                       ELSE IF i \in at THEN Append(f[i - 1], s[i]) ELSE f[i - 1]
                             /\ f[i] \in Seq(T)
    <3> HIDE DEF S
    <3> QED BY <2>1
  <2>3. new \in Seq(T)
    BY <1>0, <2>2
  <2> HIDE DEF new
  <2>4. Typed(g, m)
    BY <2>2, <2>3
  <2>5. \A i \in 0..m : g[i] = IF i = 0 THEN <<>>
                               ELSE IF i \in at THEN Append(g[i - 1], s[i]) ELSE g[i - 1]
    <3> SUFFICES ASSUME NEW i \in 0..m
                 PROVE  g[i] = IF i = 0 THEN <<>>
                               ELSE IF i \in at THEN Append(g[i - 1], s[i]) ELSE g[i - 1]
      OBVIOUS
    <3>1. CASE i = m
      <4>1. g[i] = new /\ g[i - 1] = f[m - 1] /\ i # 0
        BY <3>1
      <4> QED BY <3>1, <4>1 DEF new
    <3>2. CASE i # m
      <4>1. i \in 0..(m - 1) /\ g[i] = f[i] /\ (i # 0 => g[i - 1] = f[i - 1])
        BY <3>2
      <4> QED BY <2>2, <4>1
    <3> QED BY <3>1, <3>2
  <2>6. Solves(g, m)
    <3>1. g = [i \in 0..m |-> g[i]]
      OBVIOUS
    <3> HIDE DEF g
    <3> QED BY <2>5, <3>1
  <2>7. m \in 0..Len(s)
    BY <1>0
  <2> HIDE DEF g, Solves, Typed
  <2> QED BY <2>4, <2>6, <2>7
<1>3. n \in S
  <2> HIDE DEF S, n
  <2>1. \A m \in 1..n : m - 1 \in S => m \in S
    BY <1>2
  <2>2. \A m \in 0..n : m \in S
    BY <1>0, <1>1, <2>1, IndexInduction
  <2> QED BY <1>0, <2>2
<1>4. PICK f : Solves(f, n) /\ Typed(f, n)
  BY <1>3
<1>5. Solves(KeptUpTo(s, at), n)
  BY <1>4 DEF KeptUpTo
<1>6. ASSUME NEW g, Solves(g, n) PROVE Typed(g, n)
  <2> DEFINE U == {i \in 0..n : g[i] \in Seq(T)}
  <2>1. \A i \in 0..n : g[i] = IF i = 0 THEN <<>>
                               ELSE IF i \in at THEN Append(g[i - 1], s[i]) ELSE g[i - 1]
    <3> HIDE DEF n
    <3> QED BY <1>6
  <2>2. 0 \in U
    <3>1. 0 \in 0..n /\ g[0] = <<>>
      BY <1>0, <2>1
    <3>2. g[0] \in Seq(T)
      BY <3>1
    <3> HIDE DEF n
    <3> QED BY <3>1, <3>2
  <2>3. ASSUME NEW i \in 1..n, i - 1 \in U PROVE i \in U
    <3>1. i \in 0..n /\ i # 0 /\ s[i] \in T /\ g[i - 1] \in Seq(T)
      BY <1>0, <2>3
    <3>2. g[i] = IF i \in at THEN Append(g[i - 1], s[i]) ELSE g[i - 1]
      BY <2>1, <3>1
    <3>3. g[i] \in Seq(T)
      BY <3>1, <3>2
    <3> QED BY <3>1, <3>3
  <2> HIDE DEF U, n
  <2>4. \A i \in 0..n : i \in U
    BY <1>0, <2>2, <2>3, IndexInduction
  <2> QED BY <2>4 DEF U
<1> QED BY <1>5, <1>6

----------------------------------------------------------------------------
(***************************************************************************)
(* What the loop keeps.                                                    *)
(***************************************************************************)

LEMMA KeptStep ==
    ASSUME NEW T, NEW s \in Seq(T), NEW at
    PROVE  /\ KeptUpTo(s, at)[0] = <<>>
           /\ \A i \in 1..Len(s) :
                 KeptUpTo(s, at)[i] = IF i \in at THEN Append(KeptUpTo(s, at)[i - 1], s[i])
                                                  ELSE KeptUpTo(s, at)[i - 1]
           /\ \A i \in 0..Len(s) : KeptUpTo(s, at)[i] \in Seq(T)
<1> DEFINE f == KeptUpTo(s, at)
           rule == [i \in 0..Len(s) |-> IF i = 0 THEN <<>>
                                        ELSE IF i \in at THEN Append(f[i - 1], s[i]) ELSE f[i - 1]]
<1>1. f = rule /\ \A i \in 0..Len(s) : f[i] \in Seq(T)
  BY KeptUpToDef
<1>2. Len(s) \in Nat
  OBVIOUS
<1>3. \A i \in 0..Len(s) : rule[i] = IF i = 0 THEN <<>>
                                      ELSE IF i \in at THEN Append(f[i - 1], s[i]) ELSE f[i - 1]
  OBVIOUS
<1> HIDE DEF f, rule
<1>4. \A i \in 0..Len(s) : f[i] = IF i = 0 THEN <<>>
                                   ELSE IF i \in at THEN Append(f[i - 1], s[i]) ELSE f[i - 1]
  BY <1>1, <1>3
<1>5. f[0] = <<>> /\ \A i \in 1..Len(s) : f[i] = IF i \in at THEN Append(f[i - 1], s[i]) ELSE f[i - 1]
  BY <1>2, <1>4
<1> QED BY <1>1, <1>5 DEF f

LEMMA SelectedType ==
    ASSUME NEW T, NEW s \in Seq(T), NEW at
    PROVE  Selected(s, at) \in Seq(T)
<1>1. Len(s) \in 0..Len(s)
  OBVIOUS
<1> QED BY <1>1, KeptStep DEF Selected

\* What is kept lies in a set that all the entries at those indices lie in.
LEMMA SelectedInto ==
    ASSUME NEW T, NEW s \in Seq(T), NEW at, NEW U, \A i \in 1..Len(s) : i \in at => s[i] \in U
    PROVE  Selected(s, at) \in Seq(U)
<1> DEFINE f == KeptUpTo(s, at)
           n == Len(s)
           S == {i \in 0..n : f[i] \in Seq(U)}
<1>0. /\ n \in Nat /\ f[0] = <<>>
      /\ \A i \in 1..n : f[i] = IF i \in at THEN Append(f[i - 1], s[i]) ELSE f[i - 1]
      /\ \A i \in 1..n : i \in at => s[i] \in U
  BY KeptStep
<1> HIDE DEF f, n
<1>1. 0 \in S
  <2>1. 0 \in 0..n /\ f[0] \in Seq(U)
    BY <1>0
  <2> QED BY <2>1
<1>2. ASSUME NEW i \in 1..n, i - 1 \in S PROVE i \in S
  <2>1. i \in 0..n /\ f[i - 1] \in Seq(U)
    BY <1>0, <1>2
  <2>2. f[i] = IF i \in at THEN Append(f[i - 1], s[i]) ELSE f[i - 1]
    BY <1>0
  <2>3. f[i] \in Seq(U)
    BY <1>0, <2>1, <2>2
  <2> QED BY <2>1, <2>3
<1>3. \A i \in 0..n : i \in S
  <2> HIDE DEF S
  <2>1. \A i \in 1..n : i - 1 \in S => i \in S
    BY <1>2
  <2> QED BY <1>0, <1>1, <2>1, IndexInduction
<1>4. n \in 0..n
  BY <1>0
<1> QED BY <1>3, <1>4 DEF Selected, f, n

LEMMA SelectedShorter ==
    ASSUME NEW T, NEW s \in Seq(T), NEW at
    PROVE  Len(Selected(s, at)) \in 0..Len(s)
<1> DEFINE f == KeptUpTo(s, at)
           n == Len(s)
           S == {i \in 0..n : Len(f[i]) \in 0..i}
<1>0. /\ n \in Nat /\ f[0] = <<>>
      /\ \A i \in 1..n : f[i] = IF i \in at THEN Append(f[i - 1], s[i]) ELSE f[i - 1]
      /\ \A i \in 0..n : f[i] \in Seq(T)
  BY KeptStep
<1> HIDE DEF f, n
<1>1. 0 \in S
  <2>1. 0 \in 0..n /\ Len(f[0]) = 0
    BY <1>0
  <2> QED BY <2>1
<1>2. ASSUME NEW i \in 1..n, i - 1 \in S PROVE i \in S
  <2>1. i \in 0..n /\ Len(f[i - 1]) \in 0..(i - 1) /\ f[i - 1] \in Seq(T)
    BY <1>0, <1>2
  <2>2. f[i] = IF i \in at THEN Append(f[i - 1], s[i]) ELSE f[i - 1]
    BY <1>0
  <2>3. Len(f[i]) = Len(f[i - 1]) \/ Len(f[i]) = Len(f[i - 1]) + 1
    BY <2>1, <2>2
  <2> QED BY <2>1, <2>3
<1>3. \A i \in 0..n : i \in S
  <2> HIDE DEF S
  <2>1. \A i \in 1..n : i - 1 \in S => i \in S
    BY <1>2
  <2> QED BY <1>0, <1>1, <2>1, IndexInduction
<1>4. n \in 0..n
  BY <1>0
<1> QED BY <1>3, <1>4 DEF Selected, f, n

\* Only what lies before an index decides what is kept up to it.
AgreeUpTo(s, at, t, bt, n) ==
    /\ n \in Nat /\ n <= Len(s) /\ n <= Len(t)
    /\ \A i \in 1..n : s[i] = t[i] /\ (i \in at <=> i \in bt)

LEMMA KeptSame ==
    ASSUME NEW T, NEW s \in Seq(T), NEW t \in Seq(T), NEW at, NEW bt, NEW n,
           AgreeUpTo(s, at, t, bt, n)
    PROVE  KeptUpTo(s, at)[n] = KeptUpTo(t, bt)[n]
<1> DEFINE S == {i \in 0..n : KeptUpTo(s, at)[i] = KeptUpTo(t, bt)[i]}
<1>0. /\ n \in Nat /\ n <= Len(s) /\ n <= Len(t)
      /\ \A i \in 1..n : s[i] = t[i] /\ (i \in at <=> i \in bt)
  BY DEF AgreeUpTo
<1>1. 0 \in S
  BY <1>0, KeptStep
<1>2. ASSUME NEW i \in 1..n, i - 1 \in S PROVE i \in S
  <2>1. i \in 1..Len(s) /\ i \in 1..Len(t) /\ i \in 0..n
    BY <1>0
  <2>2. /\ KeptUpTo(s, at)[i] = IF i \in at THEN Append(KeptUpTo(s, at)[i - 1], s[i])
                                             ELSE KeptUpTo(s, at)[i - 1]
        /\ KeptUpTo(t, bt)[i] = IF i \in bt THEN Append(KeptUpTo(t, bt)[i - 1], t[i])
                                             ELSE KeptUpTo(t, bt)[i - 1]
    BY <2>1, KeptStep
  <2> QED BY <1>0, <1>2, <2>1, <2>2
<1>3. \A i \in 0..n : i \in S
  <2> HIDE DEF S
  <2>1. \A i \in 1..n : i - 1 \in S => i \in S
    BY <1>2
  <2> QED BY <1>0, <1>1, <2>1, IndexInduction
<1> QED BY <1>0, <1>3

LEMMA SelectedSame ==
    ASSUME NEW T, NEW s \in Seq(T), NEW at, NEW bt,
           \A i \in 1..Len(s) : i \in at <=> i \in bt
    PROVE  Selected(s, at) = Selected(s, bt)
<1>1. AgreeUpTo(s, at, s, bt, Len(s))
  BY DEF AgreeUpTo
<1>2. KeptUpTo(s, at)[Len(s)] = KeptUpTo(s, bt)[Len(s)]
  BY <1>1, KeptSame
<1> QED BY <1>2 DEF Selected

\* Everything.
LEMMA SelectedAll ==
    ASSUME NEW T, NEW s \in Seq(T), NEW at, \A i \in 1..Len(s) : i \in at
    PROVE  Selected(s, at) = s
<1> DEFINE n == Len(s)
           S == {i \in 0..n : KeptUpTo(s, at)[i] = SubSeq(s, 1, i)}
<1>0. n \in Nat
  OBVIOUS
<1>1. 0 \in S
  <2>1. SubSeq(s, 1, 0) = <<>> /\ 0 \in 0..n
    OBVIOUS
  <2> QED BY <2>1, KeptStep
<1>2. ASSUME NEW i \in 1..n, i - 1 \in S PROVE i \in S
  <2>1. KeptUpTo(s, at)[i] = Append(KeptUpTo(s, at)[i - 1], s[i])
    BY KeptStep
  <2>2. SubSeq(s, 1, i) = Append(SubSeq(s, 1, i - 1), s[i])
    OBVIOUS
  <2>3. KeptUpTo(s, at)[i - 1] = SubSeq(s, 1, i - 1) /\ i \in 0..n
    BY <1>2
  <2>4. KeptUpTo(s, at)[i] = SubSeq(s, 1, i)
    BY <2>1, <2>2, <2>3
  <2> QED BY <2>3, <2>4
<1>3. \A i \in 0..n : i \in S
  <2> HIDE DEF S, n
  <2>1. \A i \in 1..n : i - 1 \in S => i \in S
    BY <1>2
  <2> QED BY <1>0, <1>1, <2>1, IndexInduction
<1>4. KeptUpTo(s, at)[n] = SubSeq(s, 1, n)
  BY <1>0, <1>3
<1>5. SubSeq(s, 1, n) = s
  OBVIOUS
<1> QED BY <1>4, <1>5 DEF Selected

\* Nothing.
LEMMA SelectedNone ==
    ASSUME NEW T, NEW s \in Seq(T), NEW at, \A i \in 1..Len(s) : i \notin at
    PROVE  Selected(s, at) = <<>>
<1> DEFINE n == Len(s)
           S == {i \in 0..n : KeptUpTo(s, at)[i] = <<>>}
<1>0. n \in Nat
  OBVIOUS
<1>1. 0 \in S
  BY KeptStep
<1>2. ASSUME NEW i \in 1..n, i - 1 \in S PROVE i \in S
  BY <1>2, KeptStep
<1>3. \A i \in 0..n : i \in S
  <2> HIDE DEF S, n
  <2>1. \A i \in 1..n : i - 1 \in S => i \in S
    BY <1>2
  <2> QED BY <1>0, <1>1, <2>1, IndexInduction
<1> QED BY <1>0, <1>3 DEF Selected

LEMMA ConcatIndices ==
    ASSUME NEW T, NEW u \in Seq(T), NEW v \in Seq(T)
    PROVE  /\ u \o v \in Seq(T) /\ Len(u \o v) = Len(u) + Len(v)
           /\ \A i \in 1..Len(u) : (u \o v)[i] = u[i]
           /\ \A i \in 1..Len(v) : (u \o v)[Len(u) + i] = v[i]
  OBVIOUS

LEMMA AppendToConcat ==
    ASSUME NEW T, NEW u \in Seq(T), NEW v \in Seq(T), NEW x \in T, NEW w, w = Append(v, x)
    PROVE  Append(u \o v, x) = u \o w
<1>1. Append(u \o v, x) = u \o Append(v, x)
  OBVIOUS
<1> QED BY <1>1, Zenon

\* One array after another.
Joins(s, at, t, bt, ct) ==
    /\ \A i \in 1..Len(s) : i \in ct <=> i \in at
    /\ \A i \in 1..Len(t) : Len(s) + i \in ct <=> i \in bt

\* What such a loop keeps of one array after another is what it keeps of each: the keys
\* a node gives in two batches are those of the batches (raw.rs:99-117).
THEOREM SelectedConcat ==
    ASSUME NEW T, NEW s \in Seq(T), NEW t \in Seq(T), NEW at, NEW bt, NEW ct,
           Joins(s, at, t, bt, ct)
    PROVE  Selected(s \o t, ct) = Selected(s, at) \o Selected(t, bt)
<1> DEFINE m == Len(s)
           n == Len(t)
           st == s \o t
           f == KeptUpTo(st, ct)
           g == KeptUpTo(t, bt)
           head == Selected(s, at)
           S == {i \in 0..n : f[m + i] = head \o g[i]}
<1>0. /\ m \in Nat /\ n \in Nat /\ st \in Seq(T) /\ Len(st) = m + n /\ Len(s) = m /\ Len(t) = n
      /\ \A i \in 1..m : st[i] = s[i] /\ (i \in ct <=> i \in at)
      /\ \A i \in 1..n : st[m + i] = t[i] /\ t[i] \in T /\ (m + i \in ct <=> i \in bt)
  BY DEF Joins
<1>1. head \in Seq(T) /\ head = KeptUpTo(s, at)[m]
  BY SelectedType DEF Selected
<1> HIDE DEF m, n, st
<1>2. /\ \A i \in 1..(m + n) : f[i] = IF i \in ct THEN Append(f[i - 1], st[i]) ELSE f[i - 1]
      /\ g[0] = <<>>
      /\ \A i \in 1..n : g[i] = IF i \in bt THEN Append(g[i - 1], t[i]) ELSE g[i - 1]
      /\ \A i \in 0..n : g[i] \in Seq(T)
  <2>1. \A i \in 1..Len(st) : f[i] = IF i \in ct THEN Append(f[i - 1], st[i]) ELSE f[i - 1]
    <3>1. st \in Seq(T)
      BY <1>0
    <3> QED BY <3>1, KeptStep
  <2>2. /\ g[0] = <<>>
        /\ \A i \in 1..Len(t) : g[i] = IF i \in bt THEN Append(g[i - 1], t[i]) ELSE g[i - 1]
        /\ \A i \in 0..Len(t) : g[i] \in Seq(T)
    BY KeptStep
  <2> HIDE DEF f, g
  <2> QED BY <1>0, <2>1, <2>2
<1>3. 0 \in S
  <2>1. m <= Len(st) /\ m <= Len(s) /\ m \in Nat /\ st \in Seq(T)
    BY <1>0
  <2>2. f[m] = KeptUpTo(s, at)[m]
    <3>1. AgreeUpTo(st, ct, s, at, m)
      BY <1>0, <2>1 DEF AgreeUpTo
    <3> QED BY <2>1, <3>1, KeptSame
  <2> HIDE DEF f, g, head
  <2>3. head \o <<>> = head
    BY <1>1
  <2>4. 0 \in 0..n /\ m + 0 = m
    BY <1>0
  <2> QED BY <1>1, <1>2, <2>2, <2>3, <2>4
<1>4. ASSUME NEW i \in 1..n, i - 1 \in S PROVE i \in S
  <2> HIDE DEF f, g, head
  <2>1. /\ i \in 0..n /\ i - 1 \in 0..n /\ m + i \in 1..(m + n) /\ (m + i) - 1 = m + (i - 1)
        /\ f[m + (i - 1)] = head \o g[i - 1]
    BY <1>0, <1>4
  <2>2. f[m + i] = IF i \in bt THEN Append(f[m + (i - 1)], t[i]) ELSE f[m + (i - 1)]
    <3>1. st[m + i] = t[i] /\ (m + i \in ct <=> i \in bt)
      BY <1>0
    <3>2. f[m + i] = IF m + i \in ct THEN Append(f[(m + i) - 1], st[m + i]) ELSE f[(m + i) - 1]
      BY <1>2, <2>1
    <3> QED BY <2>1, <3>1, <3>2, Zenon
  <2>3. g[i] = IF i \in bt THEN Append(g[i - 1], t[i]) ELSE g[i - 1]
    BY <1>2
  <2>4. g[i - 1] \in Seq(T) /\ t[i] \in T
    BY <1>0, <1>2, <2>1
  <2>5. Append(head \o g[i - 1], t[i]) = head \o Append(g[i - 1], t[i])
    <3> DEFINE v == g[i - 1]
               w == Append(g[i - 1], t[i])
               x == t[i]
    <3>1. head \in Seq(T) /\ v \in Seq(T) /\ x \in T /\ w = Append(v, x)
      BY <1>1, <2>4
    <3> HIDE DEF v, w, x
    <3>2. Append(head \o v, x) = head \o w
      BY <3>1, AppendToConcat
    <3> QED BY <3>2, Zenon DEF v, w, x
  <2>6. f[m + i] = head \o g[i]
    <3>1. CASE i \in bt
      BY <2>1, <2>2, <2>3, <2>5, <3>1, Zenon
    <3>2. CASE i \notin bt
      BY <2>1, <2>2, <2>3, <3>2, Zenon
    <3> QED BY <3>1, <3>2
  <2> QED BY <2>1, <2>6
<1>5. \A i \in 0..n : i \in S
  <2> HIDE DEF S
  <2>1. \A i \in 1..n : i - 1 \in S => i \in S
    BY <1>4
  <2> QED BY <1>0, <1>3, <2>1, IndexInduction
<1>6. n \in 0..n
  BY <1>0
<1>7. f[m + n] = head \o g[n]
  <2> HIDE DEF f, g, head
  <2> QED BY <1>5, <1>6
<1>8. Selected(st, ct) = f[m + n] /\ Selected(t, bt) = g[n]
  BY <1>0 DEF Selected
<1> QED BY <1>7, <1>8 DEF st

\* The head of an array gives the head of what the whole array gives.
LEMMA KeptGrows ==
    ASSUME NEW T, NEW s \in Seq(T), NEW at, NEW m \in 0..Len(s)
    PROVE  /\ Len(KeptUpTo(s, at)[m]) <= Len(Selected(s, at))
           /\ \A k \in 1..Len(KeptUpTo(s, at)[m]) : KeptUpTo(s, at)[m][k] = Selected(s, at)[k]
<1> DEFINE f == KeptUpTo(s, at)
           h == f[m]
           n == Len(s)
           S == {i \in 0..n : i >= m => /\ Len(h) <= Len(f[i])
                                        /\ \A k \in 1..Len(h) : h[k] = f[i][k]}
<1>0. /\ n \in Nat /\ m \in 0..n
      /\ \A i \in 1..n : f[i] = IF i \in at THEN Append(f[i - 1], s[i]) ELSE f[i - 1]
      /\ \A i \in 1..n : s[i] \in T
      /\ \A i \in 0..n : f[i] \in Seq(T)
  BY KeptStep
<1> HIDE DEF f, n
<1>1. h \in Seq(T) /\ Len(h) \in Nat
  BY <1>0
<1>2. 0 \in S
  BY <1>0, <1>1
<1>3. ASSUME NEW i \in 1..n, i - 1 \in S PROVE i \in S
  <2>1. i \in 0..n /\ i - 1 \in 0..n /\ f[i - 1] \in Seq(T) /\ f[i] \in Seq(T) /\ s[i] \in T
    BY <1>0
  <2>2. CASE m <= i - 1
    <3>1. Len(h) <= Len(f[i - 1]) /\ \A k \in 1..Len(h) : h[k] = f[i - 1][k]
      BY <1>3, <2>2
    <3>2. /\ Len(f[i - 1]) <= Len(f[i])
          /\ \A k \in 1..Len(f[i - 1]) : f[i][k] = f[i - 1][k]
      <4>1. f[i] = IF i \in at THEN Append(f[i - 1], s[i]) ELSE f[i - 1]
        BY <1>0
      <4> QED BY <2>1, <4>1
    <3>3. Len(h) <= Len(f[i]) /\ \A k \in 1..Len(h) : h[k] = f[i][k]
      <4> HIDE DEF h
      <4>1. Len(f[i - 1]) \in Nat /\ Len(f[i]) \in Nat
        BY <2>1
      <4> QED BY <1>1, <3>1, <3>2, <4>1
    <3> QED BY <2>1, <3>3
  <2>3. CASE ~(m <= i - 1)
    <3>1. i >= m => i = m
      BY <1>0, <2>1, <2>3
    <3>2. i >= m => h = f[i]
      BY <3>1
    <3> HIDE DEF h
    <3> QED BY <1>1, <2>1, <3>2
  <2> QED BY <2>2, <2>3
<1>4. \A i \in 0..n : i \in S
  <2> HIDE DEF S, h
  <2>1. \A i \in 1..n : i - 1 \in S => i \in S
    BY <1>3
  <2> QED BY <1>0, <1>2, <2>1, IndexInduction
<1>5. n \in 0..n /\ n >= m
  BY <1>0
<1>6. Len(h) <= Len(f[n]) /\ \A k \in 1..Len(h) : h[k] = f[n][k]
  <2> HIDE DEF h
  <2> QED BY <1>4, <1>5
<1> QED BY <1>6 DEF Selected, f, n

LEMMA SelectedOfHead ==
    ASSUME NEW T, NEW s \in Seq(T), NEW at, NEW bt, NEW m \in 0..Len(s),
           \A i \in 1..m : i \in at <=> i \in bt
    PROVE  /\ Len(Selected(SubSeq(s, 1, m), bt)) <= Len(Selected(s, at))
           /\ \A k \in 1..Len(Selected(SubSeq(s, 1, m), bt)) :
                 Selected(SubSeq(s, 1, m), bt)[k] = Selected(s, at)[k]
<1> DEFINE h == SubSeq(s, 1, m)
<1>1. h \in Seq(T) /\ Len(h) = m /\ \A i \in 1..m : h[i] = s[i]
  OBVIOUS
<1> HIDE DEF h
<1>2. AgreeUpTo(h, bt, s, at, m)
  BY <1>1 DEF AgreeUpTo
<1>3. Selected(h, bt) = KeptUpTo(s, at)[m]
  <2>1. KeptUpTo(h, bt)[m] = KeptUpTo(s, at)[m]
    BY <1>1, <1>2, KeptSame
  <2> QED BY <1>1, <2>1 DEF Selected
<1> QED BY <1>3, KeptGrows DEF h

\* Where what is kept ends up: an entry has as many before it as were kept before it.
\* That is the counter agh.c indexes its top lists with while it skips the objects
\* that are no pair (agh.c:135-147).
THEOREM SelectedNth ==
    ASSUME NEW T, NEW s \in Seq(T), NEW at, at \in SUBSET (1..Len(s)),
           NEW rank, rank = [i \in 0..Len(s) |-> Cardinality({j \in at : j <= i})]
    PROVE  /\ rank[Len(s)] = Cardinality(at) /\ Len(Selected(s, at)) = Cardinality(at)
           /\ \A i \in at : rank[i] \in 1..Cardinality(at) /\ Selected(s, at)[rank[i]] = s[i]
           /\ \A k \in 1..Cardinality(at) : \E i \in at : rank[i] = k
<1> DEFINE f == KeptUpTo(s, at)
           n == Len(s)
           upto(i) == {j \in at : j <= i}
           Known(i) == /\ rank[i] \in Nat /\ f[i] \in Seq(T) /\ Len(f[i]) = rank[i]
                       /\ \A j \in upto(i) : rank[j] \in 1..rank[i] /\ f[i][rank[j]] = s[j]
                       /\ \A k \in 1..rank[i] : \E j \in upto(i) : rank[j] = k
           S == {i \in 0..n : Known(i)}
<1>1. /\ n \in Nat /\ \A i \in 1..n : s[i] \in T
      /\ at \in SUBSET (1..n)
  OBVIOUS
<1>2. /\ f[0] = <<>>
      /\ \A i \in 1..n : f[i] = IF i \in at THEN Append(f[i - 1], s[i]) ELSE f[i - 1]
      /\ \A i \in 0..n : f[i] \in Seq(T)
  BY KeptStep
<1>3. \A i \in 0..n : rank[i] = Cardinality(upto(i))
  OBVIOUS
<1>4. \A i \in 0..n : IsFiniteSet(upto(i))
  <2>1. IsFiniteSet(1..n)
    BY <1>1, FS_Interval
  <2>2. \A i \in 0..n : upto(i) \in SUBSET (1..n)
    BY <1>1
  <2> HIDE DEF upto, n
  <2> QED BY <2>1, <2>2, FS_Subset
<1> HIDE DEF f, n
<1>5. 0 \in S
  <2>1. 0 \in 0..n /\ upto(0) = {}
    BY <1>1
  <2>2. rank[0] = 0
    BY <1>3, <2>1, FS_EmptySet
  <2>3. f[0] \in Seq(T) /\ Len(f[0]) = 0
    BY <1>2, <2>1
  <2>4. Known(0)
    <3> HIDE DEF upto
    <3>1. 0 \in Nat /\ \A k : k \notin 1..0
      OBVIOUS
    <3> QED BY <2>1, <2>2, <2>3, <3>1
  <2> HIDE DEF Known
  <2> QED BY <2>1, <2>4
<1>6. ASSUME NEW i \in 1..n, i - 1 \in S PROVE i \in S
  <2>1. i \in 0..n /\ i - 1 \in 0..n /\ i - 1 \in Nat
    BY <1>1
  <2>2. Known(i - 1)
    BY <1>6
  <2> DEFINE g == f[i - 1]
             r == rank[i - 1]
  <2>3. /\ r \in Nat /\ g \in Seq(T) /\ Len(g) = r
        /\ \A j \in upto(i - 1) : rank[j] \in 1..r /\ g[rank[j]] = s[j]
        /\ \A k \in 1..r : \E j \in upto(i - 1) : rank[j] = k
    BY <2>2
  <2>4. CASE i \in at
    <3>1. upto(i) = upto(i - 1) \cup {i} /\ i \notin upto(i - 1)
      <4>1. \A j \in at : j \in Nat
        BY <1>1
      <4>2. i \in Nat /\ \A j \in at : j <= i <=> j <= i - 1 \/ j = i
        BY <1>1, <4>1
      <4> QED BY <2>1, <2>4, <4>2
    <3>2. rank[i] = r + 1
      <4> HIDE DEF upto
      <4>1. Cardinality(upto(i)) = Cardinality(upto(i - 1)) + 1
        BY <1>4, <2>1, <3>1, FS_AddElement
      <4> QED BY <1>3, <2>1, <4>1
    <3>3. f[i] = Append(g, s[i]) /\ s[i] \in T
      BY <1>1, <1>2, <2>4
    <3> HIDE DEF g, r, upto
    <3>4. f[i] \in Seq(T) /\ Len(f[i]) = r + 1 /\ f[i][r + 1] = s[i]
      BY <2>3, <3>3
    <3>5. \A k \in 1..r : f[i][k] = g[k]
      BY <2>3, <3>3
    <3>6. ASSUME NEW j \in upto(i) PROVE rank[j] \in 1..rank[i] /\ f[i][rank[j]] = s[j]
      <4>1. CASE j = i
        BY <2>3, <3>2, <3>4, <4>1
      <4>2. CASE j # i
        <5>1. j \in upto(i - 1)
          BY <3>1, <4>2
        <5>2. rank[j] \in 1..r /\ g[rank[j]] = s[j]
          BY <2>3, <5>1
        <5> QED BY <2>3, <3>2, <3>5, <5>2
      <4> QED BY <4>1, <4>2
    <3>7. ASSUME NEW k \in 1..rank[i] PROVE \E j \in upto(i) : rank[j] = k
      <4>1. CASE k = r + 1
        BY <3>1, <3>2, <4>1
      <4>2. CASE k # r + 1
        <5>1. k \in 1..r
          BY <2>3, <3>2, <4>2
        <5> QED BY <2>3, <3>1, <5>1
      <4> QED BY <4>1, <4>2
    <3>8. rank[i] \in Nat
      BY <2>3, <3>2
    <3>9. Known(i)
      BY <3>2, <3>4, <3>6, <3>7, <3>8
    <3> HIDE DEF Known
    <3> QED BY <2>1, <3>9
  <2>5. CASE i \notin at
    <3>1. upto(i) = upto(i - 1)
      BY <1>1, <2>1, <2>5
    <3>2. rank[i] = r
      <4> HIDE DEF upto
      <4> QED BY <1>3, <2>1, <3>1
    <3>3. f[i] = g
      BY <1>2, <2>5
    <3> HIDE DEF g, r, upto
    <3>4. Known(i)
      BY <2>3, <3>1, <3>2, <3>3
    <3> HIDE DEF Known
    <3> QED BY <2>1, <3>4
  <2> QED BY <2>4, <2>5
<1>7. Known(n)
  <2> HIDE DEF S, Known
  <2>1. \A i \in 1..n : i - 1 \in S => i \in S
    BY <1>6
  <2>2. \A i \in 0..n : i \in S
    BY <1>1, <1>5, <2>1, IndexInduction
  <2>3. n \in S
    BY <1>1, <2>2
  <2> QED BY <2>3 DEF S
<1>8. upto(n) = at
  BY <1>1
<1>9. f[n] = Selected(s, at)
  BY DEF Selected, f, n
<1>10. rank[n] = Cardinality(at)
  <2> HIDE DEF upto
  <2>1. n \in 0..n
    BY <1>1
  <2> QED BY <1>3, <1>8, <2>1
<1> HIDE DEF upto
<1>11. /\ Len(Selected(s, at)) = Cardinality(at)
       /\ \A i \in at : rank[i] \in 1..Cardinality(at) /\ Selected(s, at)[rank[i]] = s[i]
       /\ \A k \in 1..Cardinality(at) : \E i \in at : rank[i] = k
  BY <1>7, <1>8, <1>9, <1>10
<1> QED BY <1>10, <1>11 DEF n

=============================================================================
