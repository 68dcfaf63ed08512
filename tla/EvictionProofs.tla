--------------------------- MODULE EvictionProofs ---------------------------
(***************************************************************************)
(* Theorems about module Eviction, for every size of the pool, every limit *)
(* on memory and every number of keys.                                     *)
(***************************************************************************)
EXTENDS Eviction, FiniteSetTheorems, SequenceTheorems, TLAPS

-----------------------------------------------------------------------------
(* Numbers and sequences. *)

(* A non-empty set of natural numbers has a least element. *)
LEMMA LeastNat ==
  ASSUME NEW S \in SUBSET Nat, S # {}
  PROVE  \E x \in S : \A y \in S : x <= y
<1> DEFINE T == {1 .. i : i \in S}
<1>1. T \subseteq FiniteSubsetsOf(Nat)
  <2>1. \A i \in S : IsFiniteSet(1 .. i)
    BY FS_Interval
  <2>2. \A i \in S : 1 .. i \in SUBSET Nat
    OBVIOUS
  <2>. QED BY <2>1, <2>2 DEF FiniteSubsetsOf
<1>2. T # {}
  OBVIOUS
<1>3. PICK t \in T : \A u \in T : <<u, t>> \notin StrictSubsetOrdering(Nat)
  <2>. HIDE DEF T
  <2>. QED BY <1>1, <1>2, FS_StrictSubsetOrderingWellFounded, WFMin
<1>4. PICK x \in S : t = 1 .. x
  OBVIOUS
<1>5. ASSUME NEW y \in S, y < x PROVE FALSE
  <2>1. x \in 1 .. x /\ x \notin 1 .. y
    BY <1>5
  <2>2. <<1 .. y, t>> \in StrictSubsetOrdering(Nat)
    BY <1>4, <1>5, <2>1 DEF StrictSubsetOrdering
  <2>. QED BY <1>3, <2>2
<1>. QED BY <1>5

(* Quotient and remainder are determined by what they make up. *)
LEMMA Division ==
  ASSUME NEW n \in Nat, NEW d \in Nat \ {0}
  PROVE  /\ n \div d \in Nat /\ n % d \in 0 .. d - 1
         /\ n = ((n \div d) * d) + (n % d)
OBVIOUS

LEMMA QuotientIs ==
  ASSUME NEW d \in Nat \ {0}, NEW q \in Int, NEW r \in 0 .. d - 1, NEW p \in Int, NEW s \in 0 .. d - 1,
         q * d + r = p * d + s
  PROVE  q = p /\ r = s
<1>1. (q - p) * d = s - r
  OBVIOUS
<1>2. PICK e \in Int : e = q - p
  OBVIOUS
<1>3. e * d = s - r
  BY <1>1, <1>2
<1>4. CASE e >= 1
  <2>1. e * d >= d
    BY <1>4
  <2>. QED BY <2>1, <1>3
<1>5. CASE e <= -1
  <2>1. e * d <= -d
    BY <1>5
  <2>. QED BY <2>1, <1>3
<1>6. CASE e = 0
  <2>1. e * d = 0
    BY <1>6
  <2>. QED BY <2>1, <1>3, <1>2, <1>6
<1>. QED BY <1>4, <1>5, <1>6

LEMMA ModAdd ==
  ASSUME NEW n \in Nat, NEW d \in Nat \ {0}
  PROVE  (n + d) % d = n % d
<1>1. n = ((n \div d) * d) + (n % d) /\ n % d \in 0 .. d - 1 /\ n \div d \in Nat
  BY Division
<1>2. n + d = (((n + d) \div d) * d) + ((n + d) % d) /\ (n + d) % d \in 0 .. d - 1 /\ (n + d) \div d \in Nat
  BY Division, n + d \in Nat
<1>3. PICK q, p, r, s : q = n \div d /\ p = (n + d) \div d /\ r = n % d /\ s = (n + d) % d
  OBVIOUS
<1>4. q \in Nat /\ p \in Nat /\ r \in 0 .. d - 1 /\ s \in 0 .. d - 1 /\ n = q * d + r /\ n + d = p * d + s
  BY <1>1, <1>2, <1>3
<1>5. (q + 1) * d + r = p * d + s
  BY <1>4
<1>6. r = s
  BY <1>4, <1>5, QuotientIs
<1>. QED BY <1>3, <1>6

LEMMA DivisionMonotonic ==
  ASSUME NEW n \in Nat, NEW m \in Nat, n <= m, NEW d \in Nat \ {0}
  PROVE  n \div d <= m \div d
<1>1. PICK q, p, r, s : q = n \div d /\ p = m \div d /\ r = n % d /\ s = m % d
  OBVIOUS
<1>2. q \in Nat /\ p \in Nat /\ r \in 0 .. d - 1 /\ s \in 0 .. d - 1 /\ n = q * d + r /\ m = p * d + s
  BY <1>1, Division
<1>3. PICK e \in Int : e = q - p
  BY <1>2
<1>4. e * d <= s - r
  BY <1>2, <1>3
<1>5. CASE e >= 1
  <2>1. e * d >= d
    BY <1>5
  <2>. QED BY <2>1, <1>2, <1>4
<1>. QED BY <1>1, <1>2, <1>3, <1>5

(* A concatenation, element by element. *)
LEMMA ConcatIs ==
  ASSUME NEW S, NEW u \in Seq(S), NEW v \in Seq(S)
  PROVE  /\ u \o v \in Seq(S) /\ Len(u \o v) = Len(u) + Len(v)
         /\ \A i \in 1 .. Len(u) : (u \o v)[i] = u[i]
         /\ \A i \in 1 .. Len(v) : (u \o v)[i + Len(u)] = v[i]
<1>1. /\ u \o v \in Seq(S) /\ Len(u \o v) = Len(u) + Len(v)
      /\ \A i \in 1 .. Len(u) + Len(v) : (u \o v)[i] = IF i <= Len(u) THEN u[i] ELSE v[i - Len(u)]
  BY ConcatProperties
<1>2. PICK a \in Nat : a = Len(u)
  BY LenProperties
<1>3. PICK b \in Nat : b = Len(v)
  BY LenProperties
<1> DEFINE w == u \o v
<1>. HIDE DEF w
<1>4. \A i \in 1 .. a + b : w[i] = IF i <= a THEN u[i] ELSE v[i - a]
  BY <1>1, <1>2, <1>3 DEF w
<1>5. ASSUME NEW i \in 1 .. a PROVE w[i] = u[i]
  BY <1>4
<1>6. ASSUME NEW i \in 1 .. b PROVE w[i + a] = v[i]
  <2>1. PICK j \in 1 .. a + b : j = i + a /\ ~(j <= a) /\ j - a = i
    OBVIOUS
  <2>. QED BY <1>4, <2>1
<1>. QED BY <1>1, <1>2, <1>3, <1>5, <1>6 DEF w

-----------------------------------------------------------------------------
(* The pool as it fills. *)

(* f holds the pool after each of the first n keys of s.                   *)
Filling(f, n, s) == f = [i \in 0 .. n |-> IF i = 0 THEN pool ELSE Pooled(f[i - 1], s[i])]

(* There is such a function, though its definition is recursive.           *)
LEMMA FillingExists ==
  ASSUME NEW n \in Nat, NEW s
  PROVE  \E f : Filling(f, n, s)
<1> DEFINE S == {m \in Nat : ~ \E f : Filling(f, m, s)}
<1>1. SUFFICES S = {}
  OBVIOUS
<1>2. SUFFICES ASSUME S # {} PROVE FALSE
  OBVIOUS
<1>3. PICK x \in S : \A y \in S : x <= y
  <2>. HIDE DEF S
  <2>1. S \in SUBSET Nat
    BY DEF S
  <2>. QED BY <1>2, <2>1, LeastNat
<1>4. CASE x = 0
  <2>1. Filling([i \in 0 .. 0 |-> pool], 0, s)
    BY DEF Filling
  <2>. QED BY <1>3, <1>4, <2>1
<1>5. CASE x # 0
  <2>1. x - 1 \in Nat /\ x - 1 \notin S
    BY <1>3, <1>5
  <2>2. PICK f : Filling(f, x - 1, s)
    BY <2>1
  <2> DEFINE g == [i \in 0 .. x |-> IF i = x THEN Pooled(f[x - 1], s[x]) ELSE f[i]]
             h == [i \in 0 .. x |-> IF i = 0 THEN pool ELSE Pooled(g[i - 1], s[i])]
  <2>3. ASSUME NEW i \in 0 .. x PROVE g[i] = h[i]
    <3>1. CASE i = x
      <4>1. g[i] = Pooled(f[x - 1], s[x])
        BY <3>1
      <4>2. x - 1 \in 0 .. x /\ x - 1 # x /\ i # 0
        BY <1>5, <3>1
      <4>3. g[x - 1] = f[x - 1]
        BY <4>2
      <4>4. h[i] = Pooled(g[i - 1], s[i])
        BY <4>2
      <4>. QED BY <3>1, <4>1, <4>3, <4>4
    <3>2. CASE i # x
      <4>1. i \in 0 .. x - 1 /\ g[i] = f[i]
        BY <3>2
      <4>2. f[i] = IF i = 0 THEN pool ELSE Pooled(f[i - 1], s[i])
        BY <2>2, <4>1 DEF Filling
      <4>3. i # 0 => i - 1 \in 0 .. x /\ i - 1 # x /\ g[i - 1] = f[i - 1]
        BY <4>1
      <4>4. h[i] = IF i = 0 THEN pool ELSE Pooled(g[i - 1], s[i])
        OBVIOUS
      <4>. QED BY <4>1, <4>2, <4>3, <4>4
    <3>. QED BY <3>1, <3>2
  <2>4. g = h
    <3>1. /\ g = [i \in 0 .. x |-> g[i]]
          /\ h = [i \in 0 .. x |-> h[i]]
      OBVIOUS
    <3>. HIDE DEF g, h
    <3>. QED BY <2>3, <3>1
  <2>5. Filling(g, x, s)
    BY <2>4 DEF Filling
  <2>. QED BY <1>3, <2>5
<1>. QED BY <1>4, <1>5

LEMMA FilledIs ==
  ASSUME NEW s, Len(s) \in Nat
  PROVE  \E f : Filling(f, Len(s), s) /\ Filled(s) = f[Len(s)]
<1>1. \E f : Filling(f, Len(s), s)
  BY FillingExists
<1> DEFINE g == CHOOSE f : f = [i \in 0 .. Len(s) |-> IF i = 0 THEN pool ELSE Pooled(f[i - 1], s[i])]
<1>2. g = [i \in 0 .. Len(s) |-> IF i = 0 THEN pool ELSE Pooled(g[i - 1], s[i])]
  BY <1>1 DEF Filling
<1>3. Filled(s) = g[Len(s)]
  BY DEF Filled
<1>4. Filling(g, Len(s), s)
  BY <1>2 DEF Filling
<1>. QED BY <1>3, <1>4

Entry == [key : Key, idle : Int]

(* The entries of p are of stored keys, with their idle times.             *)
Truthful(p) ==
  \A i \in 1 .. Len(p) : /\ p[i].key \in Stored
                         /\ p[i].idle = estimateObjectIdleTime(p[i].key)

(* No key has two entries, and the most idle comes last.                   *)
Ascending(p) == \A i, j \in 1 .. Len(p) : i < j => p[i].idle <= p[j].idle
Once(p)      == \A i, j \in 1 .. Len(p) : i < j => p[i].key # p[j].key

Sound(p) == p \in Seq(Entry) /\ Truthful(p) /\ Ascending(p) /\ Once(p)

(* q is p with e put in behind the first m elements.                       *)
HasInserted(q, p, m, e) ==
  /\ Len(q) = Len(p) + 1
  /\ \A i \in 1 .. m : q[i] = p[i]
  /\ q[m + 1] = e
  /\ \A i \in m + 2 .. Len(p) + 1 : q[i] = p[i - 1]

LEMMA InsertIs ==
  ASSUME NEW p \in Seq(Entry), NEW e \in Entry, NEW m \in 0 .. Len(p)
  PROVE  InsertAt(p, m + 1, e) \in Seq(Entry) /\ HasInserted(InsertAt(p, m + 1, e), p, m, e)
<1> DEFINE E == Entry
<1>q. PICK q : q = InsertAt(p, m + 1, e)
  OBVIOUS
<1>. HIDE DEF E
<1>e. p \in Seq(E) /\ e \in E /\ E = Entry
  BY DEF E
<1>1. Len(p) \in Nat /\ m \in Nat /\ m <= Len(p)
  BY <1>e, LenProperties
<1>2. PICK a : a = SubSeq(p, 1, m)
  OBVIOUS
<1>3. PICK b : b = SubSeq(p, m + 1, Len(p))
  OBVIOUS
<1>4. \A i \in 1 .. Len(p) : p[i] \in E
  BY <1>e, ElementOfSeq
<1>5. a \in Seq(E) /\ Len(a) = m /\ \A i \in 1 .. m : a[i] = p[i]
  <2>1. \A i \in 1 .. m : p[i] \in E
    BY <1>1, <1>4
  <2>. QED BY <1>1, <1>2, <2>1, SubSeqProperties
<1>6. b \in Seq(E) /\ Len(b) = Len(p) - m /\ \A i \in 1 .. Len(p) - m : b[i] = p[m + i]
  <2>1. \A i \in m + 1 .. Len(p) : p[i] \in E
    BY <1>1, <1>4
  <2>2. Len(b) = Len(p) - m /\ b \in Seq(E)
    BY <1>1, <1>3, <2>1, SubSeqProperties
  <2>3. \A i \in 1 .. Len(p) - m : b[i] = p[m + 1 + i - 1]
    BY <1>1, <1>3, <2>1, SubSeqProperties
  <2>. QED BY <1>1, <2>2, <2>3
<1>7. PICK o : o = <<e>>
  OBVIOUS
<1>8. PICK c : c = a \o o
  OBVIOUS
<1>9. c \in Seq(E) /\ Len(c) = m + 1 /\ c[m + 1] = e /\ \A i \in 1 .. m : c[i] = p[i]
  <2>1. o \in Seq(E) /\ Len(o) = 1 /\ o[1] = e
    BY <1>e, <1>7
  <2>2. /\ a \o o \in Seq(E) /\ Len(a \o o) = Len(a) + Len(o)
        /\ \A i \in 1 .. Len(a) : (a \o o)[i] = a[i]
        /\ \A i \in 1 .. Len(o) : (a \o o)[i + Len(a)] = o[i]
    <3>1. a \in Seq(E) /\ o \in Seq(E)
      BY <1>5, <2>1
    <3>. QED BY <3>1, ConcatIs
  <2>3. 1 \in 1 .. Len(o) /\ 1 + Len(a) = m + 1
    BY <1>1, <1>5, <2>1
  <2>4. c[m + 1] = e
    BY <1>8, <2>1, <2>2, <2>3
  <2>. QED BY <1>1, <1>5, <1>8, <2>1, <2>2, <2>4
<1>10. q = c \o b
  <2>1. (m + 1) - 1 = m
    BY <1>1
  <2>2. InsertAt(p, m + 1, e) = SubSeq(p, 1, (m + 1) - 1) \o <<e>> \o SubSeq(p, m + 1, Len(p))
    BY Zenon DEF InsertAt
  <2>. QED BY <1>q, <1>2, <1>3, <1>7, <1>8, <2>1, <2>2, Zenon
<1>11. /\ q \in Seq(E) /\ Len(q) = Len(c) + Len(b)
       /\ \A i \in 1 .. Len(c) : q[i] = c[i]
       /\ \A i \in 1 .. Len(b) : q[i + Len(c)] = b[i]
  <2>1. b \in Seq(E) /\ c \in Seq(E)
    BY <1>6, <1>9
  <2>2. /\ c \o b \in Seq(E) /\ Len(c \o b) = Len(c) + Len(b)
        /\ \A i \in 1 .. Len(c) : (c \o b)[i] = c[i]
        /\ \A i \in 1 .. Len(b) : (c \o b)[i + Len(c)] = b[i]
    BY <2>1, ConcatIs
  <2>. QED BY <1>10, <2>2, Zenon
<1>13. \A i \in m + 2 .. Len(p) + 1 : q[i] = p[i - 1]
  <2> SUFFICES ASSUME NEW i \in m + 2 .. Len(p) + 1 PROVE q[i] = p[i - 1]
    OBVIOUS
  <2>1. i - (m + 1) \in 1 .. Len(p) - m /\ m + (i - (m + 1)) = i - 1 /\ i - (m + 1) + Len(c) = i
    BY <1>1, <1>9
  <2>2. q[i - (m + 1) + Len(c)] = b[i - (m + 1)]
    BY <1>6, <1>11, <2>1
  <2>. QED BY <1>6, <2>1, <2>2
<1>14. \A i \in 1 .. m + 1 : q[i] = c[i]
  BY <1>1, <1>9, <1>11
<1>15. Len(q) = Len(p) + 1
  BY <1>1, <1>6, <1>9, <1>11
<1>16. q[m + 1] = e
  BY <1>1, <1>9, <1>14
<1>17. \A i \in 1 .. m : q[i] = p[i]
  BY <1>1, <1>9, <1>14
<1>18. HasInserted(q, p, m, e)
  BY <1>13, <1>15, <1>16, <1>17 DEF HasInserted
<1>. QED BY <1>q, <1>e, <1>11, <1>18

(* Place counts the entries less idle than the given time, which are the   *)
(* first ones.                                                             *)
LEMMA PlaceIs ==
  ASSUME NEW p \in Seq(Entry), Ascending(p), NEW x \in Int
  PROVE  /\ Place(p, x) \in 0 .. Len(p)
         /\ \A i \in 1 .. Place(p, x) : p[i].idle < x
         /\ \A i \in Place(p, x) + 1 .. Len(p) : x <= p[i].idle
<1>1. Len(p) \in Nat /\ DOMAIN p = 1 .. Len(p) /\ \A i \in 1 .. Len(p) : p[i].idle \in Int
  <2>1. \A i \in 1 .. Len(p) : p[i] \in Entry
    BY ElementOfSeq
  <2>. QED BY <2>1, LenProperties DEF Entry
<1> DEFINE S == {i \in 1 .. Len(p) + 1 : i = Len(p) + 1 \/ x <= p[i].idle}
<1>2. S \in SUBSET Nat /\ Len(p) + 1 \in S
  BY <1>1
<1>3. PICK l \in S : \A y \in S : l <= y
  <2>. HIDE DEF S
  <2>. QED BY <1>2, LeastNat
<1>4. l \in 1 .. Len(p) + 1 /\ \A i \in 1 .. l - 1 : p[i].idle < x
  <2>1. l \in 1 .. Len(p) + 1
    BY <1>3
  <2> SUFFICES ASSUME NEW i \in 1 .. l - 1 PROVE p[i].idle < x
    BY <2>1
  <2>2. i \notin S /\ i \in 1 .. Len(p)
    BY <1>1, <1>3, <2>1
  <2>. QED BY <1>1, <2>2
<1>5. ASSUME NEW i \in l .. Len(p) PROVE x <= p[i].idle
  <2>1. l \in 1 .. Len(p) /\ i \in 1 .. Len(p)
    BY <1>1, <1>4
  <2>2. x <= p[l].idle
    BY <1>1, <1>3, <2>1
  <2>3. p[l].idle <= p[i].idle
    BY <1>1, <2>1 DEF Ascending
  <2>. QED BY <1>1, <2>1, <2>2, <2>3
<1>6. {i \in DOMAIN p : \A j \in 1 .. i : p[j].idle < x} = 1 .. l - 1
  <2>1. ASSUME NEW i \in 1 .. Len(p) PROVE (\A j \in 1 .. i : p[j].idle < x) <=> i \in 1 .. l - 1
    <3>1. CASE i <= l - 1
      <4>1. \A j \in 1 .. i : j \in 1 .. l - 1
        BY <1>4, <3>1
      <4>. QED BY <1>4, <4>1, <3>1
    <3>2. CASE ~(i <= l - 1)
      <4>1. i \in l .. Len(p) /\ i \in 1 .. i
        BY <1>4, <3>2
      <4>. QED BY <1>1, <1>5, <4>1
    <3>. QED BY <3>1, <3>2
  <2>2. 1 .. l - 1 \subseteq 1 .. Len(p)
    BY <1>1, <1>4
  <2>. QED BY <1>1, <2>1, <2>2
<1>7. Place(p, x) = l - 1
  <2>1. Cardinality(1 .. l - 1) = l - 1
    BY <1>4, FS_Interval
  <2>. QED BY <1>6, <2>1 DEF Place
<1>. QED BY <1>1, <1>4, <1>5, <1>7

LEMMA PooledIs ==
  ASSUME NEW p, Sound(p), Len(p) < PoolSize,
         NEW k \in Key, k \in Stored, estimateObjectIdleTime(k) \in Int,
         \A i \in 1 .. Len(p) : p[i].key # k
  PROVE  /\ Sound(Pooled(p, k)) /\ Len(Pooled(p, k)) = Len(p) + 1
         /\ \A i \in 1 .. Len(p) + 1 : Pooled(p, k)[i].key = k \/ \E j \in 1 .. Len(p) : Pooled(p, k)[i].key = p[j].key
<1>1. p \in Seq(Entry) /\ Len(p) \in Nat
  BY LenProperties DEF Sound
<1>2. PICK x \in Int : x = estimateObjectIdleTime(k)
  OBVIOUS
<1>3. PICK e \in Entry : e = [key |-> k, idle |-> x]
  BY DEF Entry
<1>4. e.key = k /\ e.idle = x
  BY <1>3
<1>5. PICK m : m = Place(p, x)
  OBVIOUS
<1>6. /\ m \in 0 .. Len(p)
      /\ \A i \in 1 .. m : p[i].idle < x
      /\ \A i \in m + 1 .. Len(p) : x <= p[i].idle
  BY <1>1, <1>5, PlaceIs DEF Sound
<1>7. PICK q : q = InsertAt(p, m + 1, e)
  OBVIOUS
<1>8. Pooled(p, k) = q
  <2>1. Len(p) # PoolSize
    BY <1>1, SizeAssumption
  <2>. QED BY <1>2, <1>3, <1>4, <1>5, <1>7, <2>1 DEF Pooled
<1>9. /\ q \in Seq(Entry) /\ Len(q) = Len(p) + 1
      /\ \A i \in 1 .. m : q[i] = p[i]
      /\ q[m + 1] = e
      /\ \A i \in m + 2 .. Len(p) + 1 : q[i] = p[i - 1]
  <2>1. p \in Seq(Entry) /\ e \in Entry /\ m \in 0 .. Len(p)
    BY <1>1, <1>6
  <2>. QED BY <1>7, <2>1, InsertIs DEF HasInserted
<1>10. ASSUME NEW i \in 1 .. Len(p) + 1
       PROVE  \/ i = m + 1 /\ q[i] = e
              \/ i <= m /\ i \in 1 .. Len(p) /\ q[i] = p[i]
              \/ i > m + 1 /\ i - 1 \in 1 .. Len(p) /\ q[i] = p[i - 1]
  <2>1. i = m + 1 \/ i \in 1 .. m \/ i \in m + 2 .. Len(p) + 1
    BY <1>1, <1>6
  <2>. QED BY <1>1, <1>6, <1>9, <2>1
<1>11. Truthful(q)
  <2> SUFFICES ASSUME NEW i \in 1 .. Len(p) + 1
               PROVE  q[i].key \in Stored /\ q[i].idle = estimateObjectIdleTime(q[i].key)
    BY <1>9 DEF Truthful
  <2>1. \A j \in 1 .. Len(p) : p[j].key \in Stored /\ p[j].idle = estimateObjectIdleTime(p[j].key)
    BY DEF Sound, Truthful
  <2>. QED BY <1>2, <1>4, <1>10, <2>1
<1>12. \A i \in 1 .. Len(p) : p[i].idle \in Int
  <2>1. \A i \in 1 .. Len(p) : p[i] \in Entry
    BY <1>1, ElementOfSeq
  <2>. QED BY <2>1 DEF Entry
<1>13. Ascending(q)
  <2> SUFFICES ASSUME NEW i \in 1 .. Len(p) + 1, NEW j \in 1 .. Len(p) + 1, i < j
               PROVE  q[i].idle <= q[j].idle
    BY <1>9 DEF Ascending
  <2>1. \A a, b \in 1 .. Len(p) : a < b => p[a].idle <= p[b].idle
    BY DEF Sound, Ascending
  <2>2. CASE i = m + 1
    <3>1. q[i].idle = x /\ j - 1 \in m + 1 .. Len(p) /\ q[j] = p[j - 1]
      BY <1>1, <1>4, <1>6, <1>10, <2>2
    <3>. QED BY <1>6, <3>1
  <2>3. CASE j = m + 1
    <3>1. q[j].idle = x /\ i \in 1 .. m /\ q[i] = p[i] /\ i \in 1 .. Len(p)
      BY <1>1, <1>4, <1>6, <1>10, <2>3
    <3>. QED BY <1>6, <1>12, <3>1
  <2>4. CASE i # m + 1 /\ j # m + 1
    <3>1. \E a, b \in 1 .. Len(p) : q[i] = p[a] /\ q[j] = p[b] /\ a < b
      <4>1. CASE i <= m /\ j <= m
        BY <1>6, <1>10, <4>1, <2>4
      <4>2. CASE i <= m /\ j > m + 1
        <5>1. i \in 1 .. Len(p) /\ j - 1 \in 1 .. Len(p) /\ q[i] = p[i] /\ q[j] = p[j - 1] /\ i < j - 1
          BY <1>1, <1>6, <1>10, <4>2
        <5>. QED BY <5>1
      <4>3. CASE i > m + 1 /\ j > m + 1
        <5>1. i - 1 \in 1 .. Len(p) /\ j - 1 \in 1 .. Len(p) /\ q[i] = p[i - 1] /\ q[j] = p[j - 1] /\ i - 1 < j - 1
          BY <1>1, <1>6, <1>10, <4>3
        <5>. QED BY <5>1
      <4>. QED BY <1>1, <1>6, <2>4, <4>1, <4>2, <4>3
    <3>. QED BY <2>1, <3>1
  <2>. QED BY <2>2, <2>3, <2>4
<1>14. Once(q)
  <2> SUFFICES ASSUME NEW i \in 1 .. Len(p) + 1, NEW j \in 1 .. Len(p) + 1, i < j
               PROVE  q[i].key # q[j].key
    BY <1>9 DEF Once
  <2>1. \A a, b \in 1 .. Len(p) : a # b => p[a].key # p[b].key
    <3>1. \A a, b \in 1 .. Len(p) : a < b => p[a].key # p[b].key
      BY DEF Sound, Once
    <3>2. \A a, b \in 1 .. Len(p) : a # b => a < b \/ b < a
      OBVIOUS
    <3>. QED BY <3>1, <3>2
  <2>2. CASE i = m + 1
    <3>1. q[i].key = k /\ j - 1 \in 1 .. Len(p) /\ q[j] = p[j - 1]
      BY <1>1, <1>4, <1>6, <1>10, <2>2
    <3>. QED BY <3>1
  <2>3. CASE j = m + 1
    <3>1. q[j].key = k /\ q[i] = p[i] /\ i \in 1 .. Len(p)
      BY <1>1, <1>4, <1>6, <1>10, <2>3
    <3>. QED BY <3>1
  <2>4. CASE i # m + 1 /\ j # m + 1
    <3>1. \E a, b \in 1 .. Len(p) : q[i] = p[a] /\ q[j] = p[b] /\ a # b
      <4>1. CASE i <= m /\ j <= m
        BY <1>6, <1>10, <4>1, <2>4
      <4>2. CASE i <= m /\ j > m + 1
        <5>1. i \in 1 .. Len(p) /\ j - 1 \in 1 .. Len(p) /\ q[i] = p[i] /\ q[j] = p[j - 1] /\ i # j - 1
          BY <1>1, <1>6, <1>10, <4>2
        <5>. QED BY <5>1
      <4>3. CASE i > m + 1 /\ j > m + 1
        <5>1. i - 1 \in 1 .. Len(p) /\ j - 1 \in 1 .. Len(p) /\ q[i] = p[i - 1] /\ q[j] = p[j - 1] /\ i - 1 # j - 1
          BY <1>1, <1>6, <1>10, <4>3
        <5>. QED BY <5>1
      <4>. QED BY <1>1, <1>6, <2>4, <4>1, <4>2, <4>3
    <3>. QED BY <2>1, <3>1
  <2>. QED BY <2>2, <2>3, <2>4
<1>15. \A i \in 1 .. Len(p) + 1 : q[i].key = k \/ \E j \in 1 .. Len(p) : q[i].key = p[j].key
  BY <1>4, <1>10
<1>. QED BY <1>8, <1>9, <1>11, <1>13, <1>14, <1>15 DEF Sound

LEMMA MinIs ==
  ASSUME NEW a \in Int, NEW b \in Int
  PROVE  Min({a, b}) = IF a <= b THEN a ELSE b
<1> DEFINE P(x) == x \in {a, b} /\ \A y \in {a, b} : x <= y
<1>1. \E x : P(x)
  <2>1. CASE a <= b
    <3>1. P(a)
      BY <2>1
    <3>. QED BY <3>1
  <2>2. CASE ~(a <= b)
    <3>1. P(b)
      BY <2>2
    <3>. QED BY <3>1
  <2>. QED BY <2>1, <2>2
<1>2. P(Min({a, b}))
  BY <1>1 DEF Min
<1>. QED BY <1>2

(* A sample is of different stored keys, as many as fit in the pool.       *)
LEMMA SampleIs ==
  ASSUME IsFiniteSet(Stored), NEW s \in Samples
  PROVE  /\ Len(s) \in Nat
         /\ Len(s) = IF PoolSize <= Cardinality(Stored) THEN PoolSize ELSE Cardinality(Stored)
         /\ \A i \in 1 .. Len(s) : s[i] \in Stored
         /\ \A i, j \in 1 .. Len(s) : i # j => s[i] # s[j]
<1>1. PICK n \in Nat : n = Cardinality(Stored)
  BY FS_CardinalityType
<1>2. SampleSize = IF PoolSize <= n THEN PoolSize ELSE n
  BY <1>1, MinIs, SizeAssumption DEF SampleSize
<1>3. PICK S \in kSubset(SampleSize, Stored) : s \in SetToSeqs(S)
  BY DEF Samples
<1>4. S \subseteq Stored /\ Cardinality(S) = SampleSize
  BY <1>3 DEF kSubset
<1>5. PICK l \in Nat : l = SampleSize
  BY <1>2, SizeAssumption
<1>6. s \in [1 .. l -> S] /\ \A i, j \in 1 .. l : i # j => s[i] # s[j]
  BY <1>3, <1>4, <1>5 DEF SetToSeqs
<1>7. Len(s) = l
  BY <1>6
<1>. QED BY <1>1, <1>2, <1>4, <1>5, <1>6, <1>7

LEMMA EmptySound == Sound(<<>>) /\ Len(<<>>) = 0
<1>1. <<>> \in Seq(Entry) /\ Len(<<>>) = 0
  BY EmptySeq
<1>. QED BY <1>1 DEF Sound, Truthful, Ascending, Once

(* An empty pool takes the whole sample.                                   *)
LEMMA FilledSound ==
  ASSUME IsFiniteSet(Stored), Stored \subseteq Key, pool = <<>>,
         \A k \in Stored : estimateObjectIdleTime(k) \in Int,
         NEW s \in Samples
  PROVE  Sound(Filled(s)) /\ Len(Filled(s)) = Len(s)
<1>1. PICK n \in Nat : n = Len(s)
  BY SampleIs
<1>2. /\ n <= PoolSize
      /\ \A i \in 1 .. n : s[i] \in Stored
      /\ \A i, j \in 1 .. n : i # j => s[i] # s[j]
  BY <1>1, SampleIs, SizeAssumption, FS_CardinalityType
<1>3. PICK f : Filling(f, n, s) /\ Filled(s) = f[n]
  BY <1>1, FilledIs
<1>4. f[0] = <<>> /\ \A i \in 1 .. n : f[i] = Pooled(f[i - 1], s[i])
  BY <1>3 DEF Filling
<1> DEFINE P(i) == /\ Sound(f[i]) /\ Len(f[i]) = i
                   /\ \A j \in 1 .. i : \E l \in 1 .. i : f[i][j].key = s[l]
           S == {i \in 0 .. n : ~P(i)}
<1>5. P(0)
  BY <1>4, EmptySound
<1>6. ASSUME NEW i \in 1 .. n, P(i - 1) PROVE P(i)
  <2>1. PICK p, k : p = f[i - 1] /\ k = s[i]
    OBVIOUS
  <2>2. Sound(p) /\ Len(p) = i - 1 /\ \A j \in 1 .. i - 1 : \E l \in 1 .. i - 1 : p[j].key = s[l]
    BY <1>6, <2>1
  <2>3. k \in Stored /\ k \in Key /\ estimateObjectIdleTime(k) \in Int
    BY <1>2, <2>1
  <2>4. Len(p) < PoolSize
    BY <1>2, <2>2, SizeAssumption
  <2>5. \A j \in 1 .. Len(p) : p[j].key # k
    <3> SUFFICES ASSUME NEW j \in 1 .. i - 1 PROVE p[j].key # k
      BY <2>2
    <3>1. PICK l \in 1 .. i - 1 : p[j].key = s[l]
      BY <2>2
    <3>2. l \in 1 .. n /\ l # i
      OBVIOUS
    <3>. QED BY <1>2, <2>1, <3>1, <3>2
  <2>6. PICK q : q = Pooled(p, k)
    OBVIOUS
  <2>7. /\ Sound(q) /\ Len(q) = i - 1 + 1
        /\ \A j \in 1 .. Len(p) + 1 : q[j].key = k \/ \E l \in 1 .. Len(p) : q[j].key = p[l].key
    BY <2>2, <2>3, <2>4, <2>5, <2>6, PooledIs
  <2>8. ASSUME NEW j \in 1 .. i PROVE \E l \in 1 .. i : q[j].key = s[l]
    <3>1. j \in 1 .. Len(p) + 1 /\ i \in 1 .. i
      BY <2>2
    <3>2. CASE q[j].key = k
      BY <2>1, <3>1, <3>2
    <3>3. CASE \E l \in 1 .. Len(p) : q[j].key = p[l].key
      <4>1. PICK l \in 1 .. i - 1 : q[j].key = p[l].key
        BY <2>2, <3>3
      <4>2. PICK t \in 1 .. i - 1 : p[l].key = s[t]
        BY <2>2
      <4>3. t \in 1 .. i
        OBVIOUS
      <4>. QED BY <4>1, <4>2, <4>3
    <3>. QED BY <2>7, <3>1, <3>2, <3>3
  <2>9. f[i] = q /\ i - 1 + 1 = i
    BY <1>4, <2>1, <2>6
  <2>. QED BY <2>7, <2>8, <2>9
<1>7. S = {}
  <2>1. SUFFICES ASSUME S # {} PROVE FALSE
    OBVIOUS
  <2>2. S \in SUBSET Nat
    OBVIOUS
  <2>. HIDE DEF P
  <2>3. PICK x \in S : \A y \in S : x <= y
    <3>. HIDE DEF S
    <3>. QED BY <2>1, <2>2, LeastNat
  <2>4. x \in 1 .. n /\ ~P(x)
    BY <1>5, <2>3
  <2>5. P(x - 1)
    BY <2>3, <2>4
  <2>. QED BY <1>6, <2>4, <2>5
<1>8. P(n)
  <2>. HIDE DEF P
  <2>. QED BY <1>7
<1>. QED BY <1>1, <1>3, <1>8

-----------------------------------------------------------------------------
(* The inductive invariant. *)

(* A stamp tells when the object was made, for a key not looked up since.  *)
Stamped(v, second) ==
  \A k \in DOMAIN v : /\ v[k].lru \in 0 .. UnsignedMax
                      /\ v[k].born \in {LookedUp} \cup 0 .. second
                      /\ v[k].born # LookedUp => v[k].lru = v[k].born % (ClockMax + 1)

Typed ==
  /\ Stored \subseteq Key
  /\ Stamped(val, Second)
  /\ deadlines \subseteq Stored /\ spare \subseteq Key
  /\ now \in Nat /\ other \in Nat

Flags ==
  /\ expiresHasTable \in BOOLEAN /\ undefined \in BOOLEAN
  /\ undefined => expiresHasTable

Job == [step : {"serve", "store", "sample", "drain"}, tofree : Nat, freed : Nat, before : Nat]

(* What the eviction j counts, when n keys are stored, other memory        *)
(* measures m and the pool has l entries.  What has been freed comes in    *)
(* whole samples.                                                          *)
Counting(j) == j.step \in {"sample", "drain"} \/ (j.step = "store" /\ j.tofree # 0)
Account(j, n, m, l) ==
  /\ j \in Job
  /\ j.freed <= j.before /\ j.before <= Cardinality(Key)
  /\ Counting(j) => /\ j.freed = j.before - n
                    /\ j.tofree = j.before + m - maxmemory
  /\ j.step \in {"sample", "store"} => n = 0 \/ j.freed % PoolSize = 0
  /\ j.step = "store" => j.freed >= j.tofree
  /\ j.step = "drain" => l = n \/ (j.freed + l) % PoolSize = 0
  /\ j.step # "drain" => l = 0
  /\ l <= PoolSize

IInv ==
  /\ Typed
  /\ Flags
  /\ Sound(pool)
  /\ Account(job, Cardinality(Stored), other, Len(pool))

-----------------------------------------------------------------------------
(* The clock. *)

LEMMA SecondIs == now \in Nat => Second \in Nat /\ getLRUClock \in 0 .. ClockMax
<1> SUFFICES ASSUME now \in Nat PROVE Second \in Nat /\ getLRUClock \in 0 .. ClockMax
  OBVIOUS
<1>1. Second \in Nat
  BY Division, ClockAssumption DEF Second
<1>2. PICK s \in Nat, d \in Nat \ {0} : s = Second /\ d = ClockMax + 1
  BY <1>1, ClockAssumption
<1>3. s % d \in 0 .. d - 1
  BY Division
<1>4. 0 .. d - 1 = 0 .. ClockMax
  BY <1>2, ClockAssumption
<1>. QED BY <1>1, <1>2, <1>3, <1>4 DEF getLRUClock

LEMMA ModIsInt == \A a \in Int, d \in Nat \ {0} : a % d \in 0 .. d - 1
OBVIOUS

(* Idle times are numbers. *)
LEMMA IdleInt ==
  ASSUME Typed, NEW k \in Stored
  PROVE  estimateObjectIdleTime(k) \in Int
<1>1. PICK c \in 0 .. ClockMax : c = getLRUClock
  BY SecondIs DEF Typed
<1>2. PICK l \in 0 .. UnsignedMax : l = val[k].lru
  BY DEF Typed, Stamped, Stored
<1>3. PICK w \in Int : w = (ClockMax - l) % (UnsignedMax + 1)
  <2>1. ClockMax - l \in Int /\ UnsignedMax + 1 \in Nat \ {0}
    BY ClockAssumption
  <2>. QED BY <2>1, ModIsInt
<1>4. (c - l) * Resolution \in Int /\ (c + w) * Resolution \in Int /\ (c >= l) \in BOOLEAN
  BY ClockAssumption
<1>. QED BY <1>1, <1>2, <1>3, <1>4 DEF estimateObjectIdleTime

(* Time that passes keeps stamps. *)
LEMMA StampedLater ==
  ASSUME NEW v, NEW s \in Nat, NEW t \in Nat, s <= t, Stamped(v, s)
  PROVE  Stamped(v, t)
<1>1. 0 .. s \subseteq 0 .. t
  OBVIOUS
<1>. QED BY <1>1 DEF Stamped

LEMMA StampType == now \in Nat => Stamp \in 0 .. UnsignedMax
<1> SUFFICES ASSUME now \in Nat PROVE Stamp \in 0 .. UnsignedMax
  OBVIOUS
<1>1. PICK d \in Nat \ {0} : d = UnsignedMax + 1
  BY ClockAssumption
<1>2. now % d \in 0 .. d - 1
  BY Division
<1>3. 0 .. d - 1 = 0 .. UnsignedMax
  BY <1>1, ClockAssumption
<1>. QED BY <1>1, <1>2, <1>3 DEF Stamp

LEMMA LookupKeeps ==
  ASSUME now \in Nat, Stamped(val, Second), NEW k \in Stored
  PROVE  DOMAIN Lookup(k) = Stored /\ Stamped(Lookup(k), Second)
<1>1. PICK f, s : f = Lookup(k) /\ s = Stamp
  OBVIOUS
<1>2. PICK r : r = [lru |-> s, born |-> LookedUp]
  OBVIOUS
<1>3. s \in 0 .. UnsignedMax
  BY <1>1, StampType
<1>4. f = [val EXCEPT ![k] = r]
  BY <1>1, <1>2 DEF Lookup
<1>5. DOMAIN f = Stored /\ f[k] = r /\ \A x \in Stored : x # k => f[x] = val[x]
  BY <1>4 DEF Stored
<1>6. r.lru = s /\ r.born = LookedUp
  BY <1>2
<1>7. ASSUME NEW x \in Stored
      PROVE  /\ f[x].lru \in 0 .. UnsignedMax
             /\ f[x].born \in {LookedUp} \cup 0 .. Second
             /\ f[x].born # LookedUp => f[x].lru = f[x].born % (ClockMax + 1)
  <2>1. CASE x = k
    BY <2>1, <1>3, <1>5, <1>6
  <2>2. CASE x # k
    BY <2>2, <1>5 DEF Stamped, Stored
  <2>. QED BY <2>1, <2>2
<1>8. Stamped(f, Second)
  BY <1>5, <1>7 DEF Stamped
<1>. QED BY <1>1, <1>5, <1>8

LEMMA UnlinkedKeeps ==
  ASSUME NEW v, NEW k, NEW s, Stamped(v, s)
  PROVE  /\ DOMAIN Unlinked(v, k) = DOMAIN v \ {k}
         /\ Stamped(Unlinked(v, k), s)
         /\ \A x \in DOMAIN v \ {k} : Unlinked(v, k)[x] = v[x]
<1>1. PICK f : f = Unlinked(v, k)
  OBVIOUS
<1>2. f = [x \in DOMAIN v \ {k} |-> v[x]]
  BY <1>1 DEF Unlinked
<1>3. DOMAIN f = DOMAIN v \ {k} /\ \A x \in DOMAIN v \ {k} : f[x] = v[x]
  BY <1>2
<1>4. Stamped(f, s)
  BY <1>3 DEF Stamped
<1>. QED BY <1>1, <1>3, <1>4

LEMMA StoreKeeps ==
  ASSUME now \in Nat, Stamped(val, Second), NEW k, NEW v,
         v = [x \in Stored \cup {k} |->
                IF x \in Stored THEN val[x] ELSE [lru |-> getLRUClock, born |-> Second]]
  PROVE  DOMAIN v = Stored \cup {k} /\ Stamped(v, Second)
<1>1. PICK s \in Nat, c \in 0 .. ClockMax : s = Second /\ c = getLRUClock
  BY SecondIs
<1>2. PICK r : r = [lru |-> c, born |-> s]
  OBVIOUS
<1>3. r.lru = c /\ r.born = s /\ c = s % (ClockMax + 1) /\ c \in 0 .. UnsignedMax
  BY <1>1, <1>2, ClockAssumption DEF getLRUClock
<1>4. DOMAIN v = Stored \cup {k} /\ \A x \in Stored \cup {k} : v[x] = IF x \in Stored THEN val[x] ELSE r
  BY <1>1, <1>2
<1>5. ASSUME NEW x \in Stored \cup {k}
      PROVE  /\ v[x].lru \in 0 .. UnsignedMax
             /\ v[x].born \in {LookedUp} \cup 0 .. Second
             /\ v[x].born # LookedUp => v[x].lru = v[x].born % (ClockMax + 1)
  <2>1. CASE x \in Stored
    BY <2>1, <1>4 DEF Stamped, Stored
  <2>2. CASE x \notin Stored
    <3>1. v[x] = r
      BY <2>2, <1>4
    <3>. QED BY <3>1, <1>1, <1>3
  <2>. QED BY <2>1, <2>2
<1>6. Stamped(v, Second)
  BY <1>4, <1>5 DEF Stamped
<1>. QED BY <1>4, <1>6

-----------------------------------------------------------------------------
(* What the steps do to the pool and to the account. *)

LEMMA StoredFinite == Stored \subseteq Key => IsFiniteSet(Stored) /\ Cardinality(Stored) \in Nat /\ Cardinality(Stored) <= Cardinality(Key)
BY FS_Subset, FS_CardinalityType, SizeAssumption

(* An empty pool is sound, whatever becomes of the keys.                   *)
LEMMA SoundEmptied == pool' = <<>> => Sound(pool)' /\ Len(pool') = 0
<1> SUFFICES ASSUME pool' = <<>> PROVE Sound(pool)' /\ Len(pool') = 0
  OBVIOUS
<1>1. pool' \in Seq(Entry) /\ Len(pool') = 0
  BY EmptySeq
<1>. QED BY <1>1 DEF Sound, Truthful, Ascending, Once

(* A pool stays sound while neither keys nor the clock change.             *)
LEMMA SoundKept ==
  ASSUME val' = val, now' = now, NEW p, Sound(p), pool' = p
  PROVE  Sound(pool)'
<1>1. Stored' = Stored /\ \A k : estimateObjectIdleTime(k)' = estimateObjectIdleTime(k)
  BY DEF Stored, estimateObjectIdleTime, getLRUClock, Second
<1>2. p \in Seq(Entry) /\ Ascending(p) /\ Once(p)
  BY DEF Sound
<1>3. \A i \in 1 .. Len(p) : p[i].key \in Stored /\ p[i].idle = estimateObjectIdleTime(p[i].key)
  BY DEF Sound, Truthful
<1>4. Truthful(pool)'
  BY <1>1, <1>3 DEF Truthful
<1>5. Ascending(pool)' /\ Once(pool)' /\ pool' \in Seq(Entry)
  BY <1>2 DEF Ascending, Once
<1>. QED BY <1>4, <1>5 DEF Sound

(* So it does when it and the keys lose the key of its last entry.         *)
LEMMA SoundDrained ==
  ASSUME Sound(pool), pool # <<>>, now' = now,
         NEW k, k = Last(pool).key, pool' = Front(pool),
         DOMAIN val' = Stored \ {k}, \A x \in Stored \ {k} : val'[x] = val[x]
  PROVE  Sound(pool)' /\ Len(pool') = Len(pool) - 1 /\ Len(pool) \in Nat \ {0} /\ k \in Stored
<1>1. pool \in Seq(Entry) /\ Truthful(pool) /\ Ascending(pool) /\ Once(pool)
  BY DEF Sound
<1>2. PICK n \in Nat \ {0} : n = Len(pool)
  BY <1>1, EmptySeq
<1>3. PICK q : q = pool'
  OBVIOUS
<1>4. q \in Seq(Entry) /\ Len(q) = n - 1 /\ \A i \in 1 .. n - 1 : q[i] = pool[i]
  <2>1. \A i \in 1 .. n - 1 : pool[i] \in Entry
    BY <1>1, <1>2, ElementOfSeq
  <2>2. q = SubSeq(pool, 1, n - 1)
    BY <1>2, <1>3 DEF Front
  <2>3. 1 \in Int /\ n - 1 \in Int
    OBVIOUS
  <2>4. /\ SubSeq(pool, 1, n - 1) \in Seq(Entry)
        /\ Len(SubSeq(pool, 1, n - 1)) = IF 1 <= n - 1 THEN n - 1 - 1 + 1 ELSE 0
        /\ \A i \in 1 .. n - 1 - 1 + 1 : SubSeq(pool, 1, n - 1)[i] = pool[1 + i - 1]
    BY <2>1, <2>3, SubSeqProperties
  <2>. QED BY <2>2, <2>4
<1>5. k = pool[n].key
  BY <1>2 DEF Last
<1>6. k \in Stored
  BY <1>1, <1>2, <1>5 DEF Truthful
<1>7. ASSUME NEW i \in 1 .. n - 1
      PROVE  /\ q[i].key \in Stored \ {k}
             /\ q[i].idle = estimateObjectIdleTime(q[i].key)
  <2>1. i \in 1 .. n /\ n \in 1 .. n /\ i < n
    OBVIOUS
  <2>2. pool[i].key # k
    BY <1>1, <1>2, <1>5, <2>1 DEF Once
  <2>. QED BY <1>1, <1>2, <1>4, <2>1, <2>2 DEF Truthful
<1>8. ASSUME NEW x \in Stored \ {k} PROVE estimateObjectIdleTime(x)' = estimateObjectIdleTime(x)
  <2>1. val'[x] = val[x] /\ getLRUClock' = getLRUClock
    BY DEF getLRUClock, Second
  <2>. QED BY <2>1 DEF estimateObjectIdleTime
<1>9. Truthful(pool)'
  <2>1. \A i \in 1 .. n - 1 : q[i].key \in Stored' /\ q[i].idle = estimateObjectIdleTime(q[i].key)'
    BY <1>7, <1>8 DEF Stored
  <2>. QED BY <1>3, <1>4, <2>1 DEF Truthful
<1>10. \A i \in 1 .. n - 1 : i \in 1 .. Len(pool)
  BY <1>2
<1>11. Ascending(pool)'
  <2>1. \A i, j \in 1 .. n - 1 : i < j => q[i].idle <= q[j].idle
    BY <1>1, <1>4, <1>10 DEF Ascending
  <2>. QED BY <1>3, <1>4, <2>1 DEF Ascending
<1>12. Once(pool)'
  <2>1. \A i, j \in 1 .. n - 1 : i < j => q[i].key # q[j].key
    BY <1>1, <1>4, <1>10 DEF Once
  <2>. QED BY <1>3, <1>4, <2>1 DEF Once
<1>. QED BY <1>2, <1>3, <1>4, <1>6, <1>9, <1>11, <1>12 DEF Sound

(* While no eviction is on, keys and memory change at will.                *)
LEMMA AccountServe ==
  ASSUME NEW j, NEW n, NEW m, NEW l, NEW o, NEW i, Account(j, n, m, l), j.step = "serve"
  PROVE  l = 0 /\ Account(j, o, i, l)
BY DEF Account, Counting, Job

LEMMA AccountIdle == \A n, m : Account(Idle, n, m, 0)
<1>1. Idle.step = "serve" /\ Idle.tofree = 0 /\ Idle.freed = 0 /\ Idle.before = 0
  BY DEF Idle
<1>3. Idle \in Job
  BY DEF Idle, Job
<1>2. 0 <= Cardinality(Key) /\ 0 <= PoolSize
  BY SizeAssumption, FS_CardinalityType
<1>. QED BY <1>1, <1>2, <1>3 DEF Account, Counting

LEMMA ZeroMod == 0 % PoolSize = 0
<1>1. PICK r \in 0 .. PoolSize - 1 : r = 0 % PoolSize
  BY Division, SizeAssumption
<1>2. PICK q \in Nat : 0 = q * PoolSize + r
  BY <1>1, Division, SizeAssumption
<1>3. 0 = 0 * PoolSize + 0
  BY SizeAssumption
<1>4. 0 \in 0 .. PoolSize - 1 /\ 0 \in Int /\ q \in Int
  BY SizeAssumption
<1>5. q * PoolSize + r = 0 * PoolSize + 0
  BY <1>2, <1>3
<1>. QED BY <1>1, <1>4, <1>5, QuotientIs, SizeAssumption

LEMMA AccountBegins ==
  ASSUME NEW n \in Nat, n <= Cardinality(Key), NEW m \in Nat, NEW u, u = n + m, NEW j \in Job,
         j.step = (IF maxmemory > u THEN "store" ELSE "sample"),
         j.tofree = (IF maxmemory > u THEN 0 ELSE u - maxmemory),
         j.freed = 0, j.before = n
  PROVE  Account(j, n, m, 0)
<1>1. 0 <= PoolSize /\ maxmemory \in Nat
  BY SizeAssumption
<1>. QED BY <1>1, ZeroMod DEF Account, Counting, Job

(* Another step of the same eviction.                                      *)
SameJob(i, j) == i.tofree = j.tofree /\ i.freed = j.freed /\ i.before = j.before

LEMMA AccountSampled ==
  ASSUME NEW n \in Nat, NEW m \in Nat, NEW j, Account(j, n, m, 0), j.step = "sample",
         NEW i \in Job, i.step = "drain", SameJob(i, j),
         NEW l \in Nat, l = IF PoolSize <= n THEN PoolSize ELSE n
  PROVE  Account(i, n, m, l)
<1>1. l <= PoolSize
  BY SizeAssumption
<1>2. l = n \/ (j.freed + l) % PoolSize = 0
  <2>1. CASE PoolSize <= n /\ j.freed % PoolSize = 0
    <3>1. l = PoolSize /\ j.freed \in Nat
      BY <2>1 DEF Account, Job
    <3>2. (j.freed + PoolSize) % PoolSize = j.freed % PoolSize
      BY <3>1, ModAdd, SizeAssumption
    <3>. QED BY <2>1, <3>1, <3>2
  <2>2. CASE n = 0
    BY <2>2, SizeAssumption
  <2>3. CASE ~(PoolSize <= n)
    BY <2>3
  <2>. QED BY <2>1, <2>2, <2>3 DEF Account
<1>. QED BY <1>1, <1>2 DEF Account, Counting, Job, SameJob

LEMMA AccountEnough ==
  ASSUME NEW n \in Nat, NEW m \in Nat, NEW j, Account(j, n, m, 0), j.step = "sample", j.freed >= j.tofree,
         NEW i \in Job, i.step = "store", SameJob(i, j)
  PROVE  Account(i, n, m, 0)
BY DEF Account, Counting, Job, SameJob

LEMMA CountingAt ==
  ASSUME NEW n, NEW m, NEW l, NEW j, Account(j, n, m, l), j.step = "drain"
  PROVE  /\ j.freed = j.before - n /\ j.freed \in Nat /\ j.before \in Nat
         /\ l = n \/ (j.freed + l) % PoolSize = 0
<1>1. Counting(j)
  BY Zenon DEF Counting
<1>2. j \in Job
  BY Zenon DEF Account
<1>3. j.freed \in Nat /\ j.before \in Nat
  BY <1>2 DEF Job
<1>4. j.freed = j.before - n
  BY <1>1, Zenon DEF Account
<1>5. l = n \/ (j.freed + l) % PoolSize = 0
  BY Zenon DEF Account
<1>. QED BY <1>3, <1>4, <1>5

LEMMA AccountDrained ==
  ASSUME NEW n \in Nat, NEW m \in Nat, NEW j, Account(j, n, m, 0), j.step = "drain",
         NEW i \in Job, i.step = "sample", SameJob(i, j)
  PROVE  Account(i, n, m, 0)
<1>1. PICK f \in Nat : f = j.freed /\ (0 = n \/ (f + 0) % PoolSize = 0)
  BY CountingAt
<1>2. n = 0 \/ j.freed % PoolSize = 0
  BY <1>1
<1>. QED BY <1>2 DEF Account, Counting, Job, SameJob

LEMMA AccountEvicts ==
  ASSUME NEW n \in Nat \ {0}, NEW m \in Nat, NEW l \in Nat \ {0}, NEW j, Account(j, n, m, l), j.step = "drain",
         NEW i \in Job, i.step = "drain", i.tofree = j.tofree, i.before = j.before, i.freed = j.freed + 1
  PROVE  Account(i, n - 1, m, l - 1)
<1>1. j.freed = j.before - n /\ j.freed \in Nat /\ j.before \in Nat
  BY CountingAt
<1>2. i.freed + (l - 1) = j.freed + l /\ i.freed = i.before - (n - 1) /\ i.freed \in Nat /\ i.freed <= i.before
  BY <1>1
<1>3. (l - 1 = n - 1) <=> (l = n)
  OBVIOUS
<1>. QED BY <1>1, <1>2, <1>3, SizeAssumption DEF Account, Counting, Job

-----------------------------------------------------------------------------
(* The invariant is inductive: one lemma for each kind of step. *)

LEMMA Start == Init => IInv
<1> SUFFICES ASSUME Init PROVE IInv
  OBVIOUS
<1>1. Stored = {} /\ deadlines = {} /\ spare = {} /\ now = 0 /\ other = 0
      /\ pool = <<>> /\ job = Idle /\ expiresHasTable = FALSE /\ undefined = FALSE
  BY DEF Init, Stored
<1>2. Typed
  BY <1>1 DEF Typed, Stamped, Stored
<1>3. Flags
  BY <1>1 DEF Flags
<1>4. Sound(pool) /\ Len(pool) = 0
  BY <1>1, EmptySound
<1>5. Account(job, Cardinality(Stored), other, Len(pool))
  BY <1>1, <1>4, AccountIdle
<1>. QED BY <1>2, <1>3, <1>4, <1>5 DEF IInv

(* Between evictions.                                                      *)
LEMMA ServeStep ==
  ASSUME IInv, Serving, job' = job, Typed', Flags'
  PROVE  IInv'
<1>1. job.step = "serve" /\ pool' = pool
  BY DEF Serving
<1>2. Len(pool) = 0 /\ Account(job', Cardinality(Stored)', other', Len(pool))
  BY <1>1, AccountServe DEF IInv
<1>3. pool = <<>>
  BY <1>2, EmptySeq DEF IInv, Sound
<1>4. Sound(pool)'
  BY <1>1, <1>3, SoundEmptied
<1>. QED BY <1>1, <1>2, <1>4 DEF IInv

LEMMA GetStep ==
  ASSUME IInv, NEW k \in Key, GetValue(k)
  PROVE  IInv'
<1>1. Serving /\ k \in Stored /\ job' = job /\ Typed /\ Flags /\ now' = now /\ undefined' = undefined
      /\ deadlines' = deadlines /\ spare' = spare /\ expiresHasTable' = expiresHasTable /\ other' = other
  BY DEF GetValue, Serving, IInv
<1>2. PICK f : f = Lookup(k)
  OBVIOUS
<1>3. val' = f
  BY <1>2 DEF GetValue
<1>4. DOMAIN f = Stored /\ Stamped(f, Second)
  BY <1>1, <1>2, LookupKeeps DEF Typed
<1>5. Typed'
  BY <1>1, <1>3, <1>4 DEF Typed, Stored, Second
<1>. QED BY <1>1, <1>5, ServeStep DEF Flags

LEMMA ExpiresStep ==
  ASSUME IInv, NEW k \in Key, SetExpires(k)
  PROVE  IInv'
<1>1. Serving /\ k \in Stored /\ job' = job /\ Typed /\ Flags /\ now' = now /\ undefined' = undefined
      /\ deadlines' = deadlines \cup {k} /\ spare' \subseteq spare \cup {k}
      /\ expiresHasTable' = TRUE /\ other' = other
  BY DEF SetExpires, Serving, IInv
<1>2. PICK f : f = Lookup(k)
  OBVIOUS
<1>3. val' = f
  BY <1>2 DEF SetExpires
<1>4. DOMAIN f = Stored /\ Stamped(f, Second)
  BY <1>1, <1>2, LookupKeeps DEF Typed
<1>5. Typed'
  BY <1>1, <1>3, <1>4 DEF Typed, Stored, Second
<1>. QED BY <1>1, <1>5, ServeStep DEF Flags

LEMMA DeleteStep ==
  ASSUME IInv, NEW k \in Key, DeleteKey(k)
  PROVE  IInv'
<1>1. Serving /\ k \in Stored /\ job' = job /\ Typed /\ Flags /\ now' = now /\ undefined' = undefined
      /\ deadlines' = deadlines \ {k} /\ spare' = spare \ {k}
      /\ expiresHasTable' = expiresHasTable /\ other' = other
  BY DEF DeleteKey, Serving, IInv
<1>2. PICK f : f = Unlinked(val, k)
  OBVIOUS
<1>3. val' = f
  BY <1>2 DEF DeleteKey
<1>4. DOMAIN f = Stored \ {k} /\ Stamped(f, Second)
  BY <1>1, <1>2, UnlinkedKeeps DEF Typed, Stored
<1>5. Typed'
  BY <1>1, <1>3, <1>4 DEF Typed, Stored, Second
<1>. QED BY <1>1, <1>5, ServeStep DEF Flags

LEMMA MemoryStep ==
  ASSUME IInv, OtherMemory
  PROVE  IInv'
<1>1. Serving /\ job' = job /\ Typed /\ Flags /\ now' = now /\ undefined' = undefined
      /\ deadlines' = deadlines /\ spare' = spare /\ val' = val
      /\ expiresHasTable' = expiresHasTable /\ other' \in Nat
  BY SizeAssumption DEF OtherMemory, Serving, IInv
<1>2. Typed'
  BY <1>1 DEF Typed, Stored, Second
<1>. QED BY <1>1, <1>2, ServeStep DEF Flags

LEMMA TickStep ==
  ASSUME IInv, Tick
  PROVE  IInv'
<1>1. Serving /\ job' = job /\ Typed /\ Flags /\ now' = now + 1 /\ undefined' = undefined
      /\ deadlines' = deadlines /\ spare' = spare /\ val' = val
      /\ expiresHasTable' = expiresHasTable /\ other' = other
  BY DEF Tick, Serving, IInv
<1>2. now \in Nat /\ now + 1 \in Nat
  BY <1>1 DEF Typed
<1>3. PICK s \in Nat, t \in Nat : s = now \div Resolution /\ t = (now + 1) \div Resolution
  BY <1>2, Division, ClockAssumption
<1>4. s <= t
  BY <1>2, <1>3, DivisionMonotonic, ClockAssumption
<1>5. Stamped(val, t)
  BY <1>1, <1>3, <1>4, StampedLater DEF Typed, Second
<1>6. Typed'
  BY <1>1, <1>2, <1>3, <1>5 DEF Typed, Stored, Second
<1>. QED BY <1>1, <1>6, ServeStep DEF Flags

LEMMA SetStep ==
  ASSUME IInv, SetValue
  PROVE  IInv'
<1>1. Serving /\ Typed /\ Flags /\ now' = now /\ undefined' = undefined
      /\ deadlines' = deadlines /\ spare' = spare /\ val' = val /\ pool' = pool
      /\ expiresHasTable' = expiresHasTable /\ other' = other
      /\ job.step = "serve"
  BY DEF SetValue, Serving, IInv
<1>2. PICK n, m \in Nat : n = Cardinality(Stored) /\ m = other /\ n \in Nat /\ n <= Cardinality(Key)
  BY <1>1, StoredFinite DEF Typed
<1>3. Len(pool) = 0
  BY <1>1, AccountServe DEF IInv
<1>4. PICK j : j = job'
  OBVIOUS
<1>5. PICK u \in Nat : u = n + m /\ u = Used
  BY <1>2 DEF Used
<1>6. j = [step |-> IF maxmemory > u THEN "store" ELSE "sample",
           tofree |-> IF maxmemory > u THEN 0 ELSE u - maxmemory,
           freed |-> 0, before |-> n]
  BY <1>2, <1>4, <1>5 DEF SetValue
<1>7. Account(j, n, m, 0)
  <2>1. maxmemory > u \/ u - maxmemory \in Nat
    BY SizeAssumption
  <2>2. j \in Job
    BY <1>6, <2>1 DEF Job
  <2>3. /\ j.step = (IF maxmemory > u THEN "store" ELSE "sample")
        /\ j.tofree = (IF maxmemory > u THEN 0 ELSE u - maxmemory)
        /\ j.freed = 0 /\ j.before = n
    BY <1>6
  <2>. QED BY <1>2, <1>5, <2>2, <2>3, AccountBegins
<1>8. Typed' /\ Flags'
  BY <1>1 DEF Typed, Flags, Stored, Second
<1>9. Sound(pool)'
  BY <1>1, SoundKept DEF IInv
<1>. QED BY <1>1, <1>2, <1>3, <1>4, <1>7, <1>8, <1>9 DEF IInv, Stored

LEMMA StoreStep ==
  ASSUME IInv, NEW k \in Key, Store(k)
  PROVE  IInv'
<1>1. job.step = "store" /\ job' = Idle /\ Typed /\ Flags /\ now' = now /\ undefined' = undefined
      /\ deadlines' = deadlines \ {k} /\ spare' = spare /\ pool' = pool
      /\ expiresHasTable' = expiresHasTable /\ other' = other
  BY DEF Store, IInv
<1>2. PICK f : f = val'
  OBVIOUS
<1>3. f = [x \in Stored \cup {k} |->
             IF x \in Stored THEN val[x] ELSE [lru |-> getLRUClock, born |-> Second]]
  BY <1>2 DEF Store
<1>4. DOMAIN f = Stored \cup {k} /\ Stamped(f, Second)
  BY <1>1, <1>3, StoreKeeps DEF Typed
<1>5. Typed'
  BY <1>1, <1>2, <1>4 DEF Typed, Stored, Second
<1>6. Len(pool) = 0 /\ pool = <<>>
  <2>1. Len(pool) = 0
    BY <1>1 DEF IInv, Account
  <2>. QED BY <2>1, EmptySeq DEF IInv, Sound
<1>7. Sound(pool)'
  BY <1>1, <1>6, SoundEmptied
<1>8. Account(job', Cardinality(Stored)', other', Len(pool'))
  BY <1>1, <1>6, AccountIdle
<1>9. Flags'
  BY <1>1 DEF Flags
<1>. QED BY <1>5, <1>7, <1>8, <1>9 DEF IInv

(* The steps of an eviction.                                               *)
LEMMA PoolingStep ==
  ASSUME IInv, update_eliminatepool
  PROVE  IInv'
<1>1. job.step = "sample" /\ Typed /\ Flags /\ now' = now /\ undefined' = undefined
      /\ deadlines' = deadlines /\ spare' = spare /\ val' = val
      /\ expiresHasTable' = expiresHasTable /\ other' = other
  BY DEF update_eliminatepool, Looping, IInv
<1>2. PICK n \in Nat, m \in Nat : n = Cardinality(Stored) /\ m = other
  BY <1>1, StoredFinite DEF Typed
<1>3. Len(pool) = 0 /\ pool = <<>>
  <2>1. Len(pool) = 0
    BY <1>1 DEF IInv, Account
  <2>. QED BY <2>1, EmptySeq DEF IInv, Sound
<1>4. PICK s \in Samples : pool' = Filled(s)
  BY DEF update_eliminatepool
<1>5. PICK p : p = Filled(s)
  OBVIOUS
<1>6. Sound(p) /\ Len(p) = Len(s)
  BY <1>1, <1>3, <1>5, FilledSound, IdleInt, StoredFinite DEF Typed
<1>7. PICK l \in Nat : l = Len(s) /\ l = IF PoolSize <= n THEN PoolSize ELSE n
  BY <1>1, <1>2, SampleIs, StoredFinite DEF Typed
<1>8. Sound(pool)' /\ Len(pool') = l
  BY <1>1, <1>4, <1>5, <1>6, <1>7, SoundKept
<1>9. PICK i, j : i = job' /\ j = job
  OBVIOUS
<1>10. i = [j EXCEPT !.step = "drain"]
  BY <1>9 DEF update_eliminatepool
<1>11. Account(j, n, m, 0) /\ j.step = "sample"
  BY <1>1, <1>2, <1>3, <1>9 DEF IInv
<1>12. i \in Job /\ i.step = "drain" /\ SameJob(i, j)
  BY <1>10, <1>11 DEF SameJob, Account, Job
<1>13. Account(i, n, m, l)
  BY <1>7, <1>11, <1>12, AccountSampled
<1>14. Typed' /\ Flags'
  BY <1>1 DEF Typed, Flags, Stored, Second
<1>. QED BY <1>1, <1>2, <1>8, <1>9, <1>13, <1>14 DEF IInv, Stored

LEMMA EnoughStep ==
  ASSUME IInv, FreedEnough
  PROVE  IInv'
<1>1. job.step = "sample" /\ Typed /\ Flags /\ now' = now /\ undefined' = undefined
      /\ deadlines' = deadlines /\ spare' = spare /\ val' = val /\ pool' = pool
      /\ expiresHasTable' = expiresHasTable /\ other' = other
  BY DEF FreedEnough, Looping, IInv
<1>2. PICK n \in Nat, m \in Nat : n = Cardinality(Stored) /\ m = other
  BY <1>1, StoredFinite DEF Typed
<1>3. PICK i, j : i = job' /\ j = job
  OBVIOUS
<1>4. Len(pool) = 0
  BY <1>1 DEF IInv, Account
<1>5. Account(j, n, m, 0) /\ j.step = "sample" /\ j.freed >= j.tofree
  BY <1>1, <1>2, <1>3, <1>4 DEF IInv, FreedEnough
<1>6. i = [j EXCEPT !.step = "store"]
  BY <1>3 DEF FreedEnough
<1>7. i \in Job /\ i.step = "store" /\ SameJob(i, j)
  BY <1>5, <1>6 DEF SameJob, Account, Job
<1>8. Account(i, n, m, 0)
  BY <1>5, <1>7, AccountEnough
<1>9. Typed' /\ Flags'
  BY <1>1 DEF Typed, Flags, Stored, Second
<1>10. Sound(pool)'
  BY <1>1, SoundKept DEF IInv
<1>. QED BY <1>1, <1>2, <1>3, <1>4, <1>8, <1>9, <1>10 DEF IInv, Stored

LEMMA RoundStep ==
  ASSUME IInv, RoundEnds
  PROVE  IInv'
<1>1. job.step = "drain" /\ Typed /\ Flags /\ now' = now /\ undefined' = undefined
      /\ deadlines' = deadlines /\ spare' = spare /\ val' = val /\ pool' = pool
      /\ expiresHasTable' = expiresHasTable /\ other' = other /\ pool = <<>>
  BY DEF RoundEnds, Drained, Looping, IInv
<1>2. PICK n \in Nat, m \in Nat : n = Cardinality(Stored) /\ m = other
  BY <1>1, StoredFinite DEF Typed
<1>3. PICK i, j : i = job' /\ j = job
  OBVIOUS
<1>4. Len(pool) = 0
  BY <1>1
<1>5. Account(j, n, m, 0) /\ j.step = "drain"
  BY <1>1, <1>2, <1>3, <1>4 DEF IInv
<1>6. i = [j EXCEPT !.step = "sample"]
  BY <1>3 DEF RoundEnds
<1>7. i \in Job /\ i.step = "sample" /\ SameJob(i, j)
  BY <1>5, <1>6 DEF SameJob, Account, Job
<1>8. Account(i, n, m, 0)
  BY <1>5, <1>7, AccountDrained
<1>9. Typed' /\ Flags'
  BY <1>1 DEF Typed, Flags, Stored, Second
<1>10. Sound(pool)'
  BY <1>1, SoundKept DEF IInv
<1>. QED BY <1>1, <1>2, <1>3, <1>4, <1>8, <1>9, <1>10 DEF IInv, Stored

LEMMA EvictStep ==
  ASSUME IInv, Evict
  PROVE  IInv'
<1>1. job.step = "drain" /\ Typed /\ Flags /\ now' = now /\ pool # <<>> /\ pool' = Front(pool)
      /\ expiresHasTable' = expiresHasTable /\ other' = other
  BY DEF Evict, Looping, IInv
<1>2. PICK k : k = Last(pool).key
  OBVIOUS
<1>3. PICK f : f = Unlinked(val, k)
  OBVIOUS
<1>4. val' = f /\ deadlines' = deadlines \ {k} /\ spare' = spare \ {k} /\ undefined' = UsesFreedKey(k)
      /\ job' = [job EXCEPT !.freed = Counted(job.freed)]
  BY <1>2, <1>3 DEF Evict, DeadlinesWithout
<1>5. DOMAIN f = Stored \ {k} /\ Stamped(f, Second) /\ \A x \in Stored \ {k} : f[x] = val[x]
  BY <1>1, <1>3, UnlinkedKeeps DEF Typed, Stored
<1>6. Sound(pool)' /\ Len(pool') = Len(pool) - 1 /\ Len(pool) \in Nat \ {0} /\ k \in Stored
  BY <1>1, <1>2, <1>4, <1>5, SoundDrained DEF IInv
<1>7. PICK l \in Nat \ {0} : l = Len(pool)
  BY <1>6
<1>8. PICK n \in Nat \ {0}, m \in Nat : n = Cardinality(Stored) /\ m = other /\ Cardinality(Stored \ {k}) = n - 1
  <2>1. IsFiniteSet(Stored) /\ Cardinality(Stored) \in Nat
    BY <1>1, StoredFinite DEF Typed
  <2>2. Cardinality(Stored \ {k}) = Cardinality(Stored) - 1 /\ Cardinality(Stored \ {k}) \in Nat
    BY <1>6, <2>1, FS_RemoveElement, FS_CardinalityType
  <2>. QED BY <1>1, <2>1, <2>2 DEF Typed
<1>9. PICK i, j : i = job' /\ j = job
  OBVIOUS
<1>10. Account(j, n, m, l) /\ j.step = "drain"
  BY <1>1, <1>7, <1>8, <1>9 DEF IInv
<1>11. i = [j EXCEPT !.freed = j.freed + 1]
  BY <1>4, <1>9 DEF Counted
<1>12. i \in Job /\ i.step = "drain" /\ i.tofree = j.tofree /\ i.before = j.before /\ i.freed = j.freed + 1
  BY <1>10, <1>11 DEF Account, Job
<1>13. Account(i, n - 1, m, l - 1)
  BY <1>10, <1>12, AccountEvicts
<1>14. Typed'
  BY <1>1, <1>4, <1>5 DEF Typed, Stored, Second
<1>15. Flags'
  BY <1>1, <1>4 DEF Flags, UsesFreedKey
<1>16. Cardinality(Stored') = n - 1 /\ other' = m /\ Len(pool') = l - 1
  BY <1>1, <1>4, <1>5, <1>6, <1>7, <1>8 DEF Stored
<1>. QED BY <1>6, <1>9, <1>13, <1>14, <1>15, <1>16 DEF IInv

LEMMA Inductive == IInv /\ [Next]_vars => IInv'
<1> SUFFICES ASSUME IInv, [Next]_vars PROVE IInv'
  OBVIOUS
<1>1. CASE \E k \in Key : GetValue(k) \/ SetExpires(k) \/ DeleteKey(k)
  BY <1>1, GetStep, ExpiresStep, DeleteStep
<1>2. CASE SetValue
  BY <1>2, SetStep
<1>3. CASE OtherMemory
  BY <1>3, MemoryStep
<1>4. CASE Tick
  BY <1>4, TickStep
<1>5. CASE Running
  BY <1>5, PoolingStep, EnoughStep, EvictStep, RoundStep, StoreStep DEF Running
<1>6. CASE UNCHANGED vars
  <2>1. now' = now /\ val' = val /\ pool' = pool /\ job' = job /\ other' = other /\ deadlines' = deadlines
        /\ spare' = spare /\ expiresHasTable' = expiresHasTable /\ undefined' = undefined
    BY <1>6 DEF vars
  <2>2. Sound(pool)'
    BY <2>1, SoundKept DEF IInv
  <2>3. Typed' /\ Flags'
    BY <2>1 DEF IInv, Typed, Flags, Stored, Second
  <2>. QED BY <2>1, <2>2, <2>3 DEF IInv, Stored
<1>. QED BY <1>1, <1>2, <1>3, <1>4, <1>5, <1>6 DEF Next

LEMMA Invariance == Spec => []IInv
<1>1. Init => IInv
  BY Start
<1>2. IInv /\ [Next]_vars => IInv'
  BY Inductive
<1>. QED BY <1>1, <1>2, PTL DEF Spec

-----------------------------------------------------------------------------
(* The order of a pool, read as an order of ages. *)

(* A second n that is less than a turn of the clock after b: the clock     *)
(* shows it behind b only when it has wrapped in between, once.            *)
LEMMA Wrapped ==
  ASSUME NEW M \in Nat \ {0}, NEW n \in Nat, NEW b \in 0 .. n, n - b < M
  PROVE  /\ n \div M \in Nat /\ b \div M \in Nat /\ n % M \in 0 .. M - 1 /\ b % M \in 0 .. M - 1
         /\ IF n % M >= b % M
            THEN n \div M = b \div M /\ (n % M) - (b % M) = n - b
            ELSE n \div M = (b \div M) + 1 /\ (n % M) + M - (b % M) = n - b
<1>1. PICK q, p, r, s : q = n \div M /\ p = b \div M /\ r = n % M /\ s = b % M
  OBVIOUS
<1>2. q \in Nat /\ p \in Nat /\ r \in 0 .. M - 1 /\ s \in 0 .. M - 1 /\ n = q * M + r /\ b = p * M + s
  <2>1. b \in Nat
    OBVIOUS
  <2>. QED BY <1>1, <2>1, Division
<1>3. PICK e \in Int : e = q - p
  BY <1>2
<1>4. e * M = n - b + s - r
  BY <1>2, <1>3
<1>5. e = 0 \/ e = 1
  <2>1. CASE e >= 2
    <3>1. e * M >= 2 * M
      BY <2>1
    <3>. QED BY <3>1, <1>2, <1>4
  <2>2. CASE e <= -1
    <3>1. e * M <= -M
      BY <2>2
    <3>. QED BY <3>1, <1>2, <1>4
  <2>. QED BY <2>1, <2>2
<1>6. CASE e = 0
  <2>1. n - b + s - r = 0
    BY <1>4, <1>6
  <2>2. r >= s /\ r - s = n - b /\ q = p
    BY <1>2, <1>3, <1>6, <2>1
  <2>. QED BY <1>1, <1>2, <2>2
<1>7. CASE e = 1
  <2>1. n - b + s - r = M
    BY <1>4, <1>7
  <2>2. ~(r >= s) /\ r + M - s = n - b /\ q = p + 1
    BY <1>2, <1>3, <1>7, <2>1
  <2>. QED BY <1>1, <1>2, <2>2
<1>. QED BY <1>5, <1>6, <1>7

LEMMA SmallMod ==
  ASSUME NEW d \in Nat \ {0}, NEW a \in 0 .. d - 1
  PROVE  a % d = a
<1>1. a \in Nat
  OBVIOUS
<1>2. PICK q \in Nat, r \in 0 .. d - 1 : r = a % d /\ a = q * d + r
  BY <1>1, Division
<1>3. q * d + r = 0 * d + a /\ q \in Int /\ 0 \in Int
  BY <1>2
<1>. QED BY <1>2, <1>3, QuotientIs

(* The idle time of a key that goes by age tells that age.                 *)
LEMMA IdleOfAged ==
  ASSUME Typed, NEW k, ByAge(k)
  PROVE  Seeming(k) \in Int /\ estimateObjectIdleTime(k) = (Second - Seeming(k)) * Resolution
<1>1. PICK n \in Nat, M \in Nat \ {0} : n = Second /\ M = ClockMax + 1
  BY SecondIs, ClockAssumption DEF Typed
<1>2. PICK b : b = val[k].born
  OBVIOUS
<1>3. PICK l : l = val[k].lru
  OBVIOUS
<1>4. /\ b \in 0 .. n /\ n - b < M /\ l = b % M
  <2>1. b # LookedUp /\ n - b <= ClockMax /\ k \in DOMAIN val
    BY <1>1, <1>2 DEF ByAge, Stored
  <2>2. b \in {LookedUp} \cup 0 .. n /\ l = b % M
    BY <1>1, <1>2, <1>3, <2>1 DEF Typed, Stamped
  <2>. QED BY <1>1, <2>1, <2>2, ClockAssumption
<1>5. PICK q, p, c : q = n \div M /\ p = b \div M /\ c = n % M
  OBVIOUS
<1>6. /\ q \in Nat /\ p \in Nat /\ c \in 0 .. M - 1 /\ l \in 0 .. M - 1
      /\ IF c >= l THEN q = p /\ c - l = n - b ELSE q = p + 1 /\ c + M - l = n - b
  BY <1>4, <1>5, Wrapped
<1>7. Seeming(k) = b + (q - p) /\ getLRUClock = c
  BY <1>1, <1>2, <1>5 DEF Seeming, Turn, getLRUClock
<1>8. CASE c >= l
  <2>1. estimateObjectIdleTime(k) = (c - l) * Resolution
    BY <1>3, <1>7, <1>8 DEF estimateObjectIdleTime
  <2>2. b + (q - p) = b /\ c - l = n - b
    BY <1>4, <1>6, <1>8
  <2>. QED BY <1>1, <1>4, <1>7, <2>1, <2>2
<1>9. CASE ~(c >= l)
  <2>1. estimateObjectIdleTime(k) = (c + ((ClockMax - l) % (UnsignedMax + 1))) * Resolution
    BY <1>3, <1>7, <1>9 DEF estimateObjectIdleTime
  <2>2. (ClockMax - l) % (UnsignedMax + 1) = ClockMax - l
    <3>1. PICK d \in Nat \ {0} : d = UnsignedMax + 1
      BY ClockAssumption
    <3>2. PICK a \in 0 .. d - 1 : a = ClockMax - l
      BY <1>1, <1>6, <3>1, ClockAssumption
    <3>. QED BY <3>1, <3>2, SmallMod
  <2>3. b + (q - p) = b + 1 /\ c + (ClockMax - l) = n - (b + 1)
    BY <1>1, <1>4, <1>6, <1>9, ClockAssumption
  <2>. QED BY <1>1, <1>4, <1>7, <2>1, <2>2, <2>3
<1>. QED BY <1>8, <1>9

LEMMA ScaledOrder ==
  ASSUME NEW a \in Int, NEW b \in Int, NEW r \in Nat \ {0}, a * r <= b * r
  PROVE  a <= b
<1>1. PICK d \in Int : d = a - b
  OBVIOUS
<1>2. d * r <= 0
  BY <1>1
<1>3. CASE d >= 1
  <2>1. d * r >= r
    BY <1>3
  <2>. QED BY <2>1, <1>2
<1>. QED BY <1>1, <1>3

-----------------------------------------------------------------------------
(* The theorems. *)

LEMMA IInvTypeOK == IInv => TypeOK
<1> SUFFICES ASSUME IInv PROVE TypeOK
  OBVIOUS
<1>1. Typed /\ Flags
  BY DEF IInv
<1>2. \A k \in Stored : val[k].lru \in 0 .. UnsignedMax /\ val[k].born \in {LookedUp} \cup 0 .. Second
  BY <1>1 DEF Typed, Stamped, Stored
<1>3. job \in Job /\ Len(pool) <= PoolSize /\ job.freed <= job.before /\ job.before <= Cardinality(Key)
  BY Zenon DEF IInv, Account
<1>4. job.step \in {"serve", "store", "sample", "drain"} /\ job.freed \in 0 .. Cardinality(Key)
  <2>1. Cardinality(Key) \in Nat
    BY FS_CardinalityType, SizeAssumption
  <2>. QED BY <1>3, <2>1 DEF Job
<1>. QED BY <1>1, <1>2, <1>3, <1>4 DEF Typed, Flags, TypeOK

LEMMA IInvPool == IInv => PoolSound
<1> SUFFICES ASSUME IInv PROVE PoolSound
  OBVIOUS
<1>1. Sound(pool) /\ DOMAIN pool = 1 .. Len(pool)
  BY LenProperties DEF IInv, Sound
<1>2. \A i \in DOMAIN pool : pool[i].key \in Stored /\ pool[i].idle = estimateObjectIdleTime(pool[i].key)
  BY <1>1 DEF Sound, Truthful
<1>3. \A i, j \in DOMAIN pool : i < j => pool[i].key # pool[j].key /\ pool[i].idle <= pool[j].idle
  BY <1>1 DEF Sound, Ascending, Once
<1>4. job.step # "drain" => pool = <<>>
  <2>1. job.step # "drain" => Len(pool) = 0
    BY Zenon DEF IInv, Account
  <2>. QED BY <1>1, <2>1, EmptySeq DEF Sound
<1>. QED BY <1>2, <1>3, <1>4 DEF PoolSound

LEMMA IInvOldest == IInv => OldestGoesFirst
<1> SUFFICES ASSUME IInv PROVE OldestGoesFirst
  OBVIOUS
<1>1. Sound(pool) /\ DOMAIN pool = 1 .. Len(pool) /\ Typed
  BY LenProperties DEF IInv, Sound
<1> SUFFICES ASSUME NEW i \in DOMAIN pool, NEW j \in DOMAIN pool, i < j,
                    NEW k, k = pool[i].key, NEW l, l = pool[j].key, ByAge(k), ByAge(l)
             PROVE  Seeming(k) >= Seeming(l)
  BY DEF OldestGoesFirst
<1>2. pool[i].idle <= pool[j].idle /\ pool[i].idle = estimateObjectIdleTime(k) /\ pool[j].idle = estimateObjectIdleTime(l)
  BY <1>1 DEF Sound, Ascending, Truthful
<1>3. PICK a, b : a = Seeming(k) /\ b = Seeming(l)
  OBVIOUS
<1>4. PICK n \in Nat : n = Second
  BY <1>1, SecondIs DEF Typed
<1>5. /\ a \in Int /\ estimateObjectIdleTime(k) = (n - a) * Resolution
      /\ b \in Int /\ estimateObjectIdleTime(l) = (n - b) * Resolution
  BY <1>1, <1>3, <1>4, IdleOfAged
<1>6. (n - a) * Resolution <= (n - b) * Resolution
  BY <1>2, <1>5
<1>7. n - a \in Int /\ n - b \in Int
  BY <1>5
<1>8. n - a <= n - b
  BY <1>6, <1>7, ScaledOrder, ClockAssumption
<1>. QED BY <1>3, <1>5, <1>8

LEMMA IInvEnough == IInv => EnoughIsFreed
<1> SUFFICES ASSUME IInv, job.step = "store", job.tofree > 0
             PROVE  /\ Used <= maxmemory
                    /\ Stored = {} \/ (job.before - Cardinality(Stored)) % PoolSize = 0
  BY DEF EnoughIsFreed
<1>1. PICK n \in Nat, m \in Nat : n = Cardinality(Stored) /\ m = other /\ IsFiniteSet(Stored)
  BY StoredFinite DEF IInv, Typed
<1>2. Account(job, n, m, Len(pool)) /\ job.tofree # 0
  BY <1>1 DEF IInv
<1>3. job \in Job
  BY <1>2, Zenon DEF Account
<1>4. Counting(job)
  BY <1>2, Zenon DEF Counting
<1>5. /\ job.freed = job.before - n /\ job.tofree = job.before + m - maxmemory
      /\ job.freed >= job.tofree
      /\ n = 0 \/ job.freed % PoolSize = 0
  BY <1>2, <1>4, Zenon DEF Account
<1>6. PICK f \in Nat, t \in Nat, b \in Nat : f = job.freed /\ t = job.tofree /\ b = job.before
  BY <1>3 DEF Job
<1>7. n + m <= maxmemory
  BY <1>5, <1>6, SizeAssumption
<1>8. n = 0 => Stored = {}
  BY <1>1, FS_EmptySet
<1>. QED BY <1>1, <1>5, <1>7, <1>8 DEF Used

LEMMA IInvDeadlines == IInv => DeadlinesFollowKeys
BY DEF IInv, Typed, Flags, DeadlinesFollowKeys

(* TypeOK: among others, the pool never holds more than its size, and no   *)
(* eviction counts more than the keys there were.                          *)
THEOREM TypeCorrect == Spec => []TypeOK
BY Invariance, IInvTypeOK, PTL

(* The pool lru_eliminated drains holds stored keys only, each once, by    *)
(* ascending idle time, and it is empty whenever a command may run.        *)
THEOREM PoolStaysSound == Spec => []PoolSound
BY Invariance, IInvPool, PTL

(* Of two sampled keys that nobody looked up and that are younger than a   *)
(* turn of the clock, the one that seems older is evicted first, at every  *)
(* resolution of the clock and wherever it wraps.                          *)
THEOREM OldestIsEvictedFirst == Spec => []OldestGoesFirst
BY Invariance, IInvOldest, PTL

(* When lru_eliminated returns, memory is within its limit, and what went  *)
(* is a number of whole samples, or everything.                            *)
THEOREM EvictionFreesEnough == Spec => []EnoughIsFreed
BY Invariance, IInvEnough, PTL

(* No deadline outlives its key, and a freed key is used only where        *)
(* expires has a table.                                                    *)
THEOREM DeadlinesGoWithKeys == Spec => []DeadlinesFollowKeys
BY Invariance, IInvDeadlines, PTL
=============================================================================
