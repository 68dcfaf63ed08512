-------------------------- MODULE ContainersProofs --------------------------
(***************************************************************************)
(* Theorems about module Containers, for every set of values, members,     *)
(* scores and counts, every number of levels and every size of the         *)
(* encodings.                                                              *)
(***************************************************************************)
EXTENDS Containers, FiniteSetTheorems, SequenceTheorems, TLAPS

-----------------------------------------------------------------------------
(* Numbers and sequences. *)

(* A non-empty set of natural numbers has a least element. *)
LEMMA LeastNat ==
  ASSUME NEW S \in SUBSET Nat, S # {}
  PROVE  \E x \in S : \A y \in S : x <= y
<1> DEFINE T == {1 .. i : i \in S}
<1>1. T \subseteq FiniteSubsetsOf(Nat)
  <2>1. \A i \in S : IsFiniteSet(1 .. i)
    BY FS_Interval
  <2>2. \A i \in S : 1 .. i \in SUBSET Nat
    OBVIOUS
  <2>. QED BY <2>1, <2>2 DEF FiniteSubsetsOf
<1>2. T # {}
  OBVIOUS
<1>3. PICK t \in T : \A u \in T : <<u, t>> \notin StrictSubsetOrdering(Nat)
  <2>. HIDE DEF T
  <2>. QED BY <1>1, <1>2, FS_StrictSubsetOrderingWellFounded, WFMin
<1>4. PICK x \in S : t = 1 .. x
  OBVIOUS
<1>5. ASSUME NEW y \in S, y < x PROVE FALSE
  <2>1. x \in 1 .. x /\ x \notin 1 .. y
    BY <1>5
  <2>2. <<1 .. y, t>> \in StrictSubsetOrdering(Nat)
    BY <1>4, <1>5, <2>1 DEF StrictSubsetOrdering
  <2>. QED BY <1>3, <2>2
<1>. QED BY <1>5

(* Quotient and remainder are determined by what they make up. *)
LEMMA Division ==
  ASSUME NEW n \in Nat, NEW d \in Nat \ {0}
  PROVE  /\ n \div d \in Nat /\ n % d \in 0 .. d - 1
         /\ n = ((n \div d) * d) + (n % d)
OBVIOUS

(* A concatenation, element by element. *)
LEMMA ConcatIs ==
  ASSUME NEW S, NEW u \in Seq(S), NEW v \in Seq(S)
  PROVE  /\ u \o v \in Seq(S) /\ Len(u \o v) = Len(u) + Len(v)
         /\ \A i \in 1 .. Len(u) : (u \o v)[i] = u[i]
         /\ \A i \in 1 .. Len(v) : (u \o v)[i + Len(u)] = v[i]
<1>1. /\ u \o v \in Seq(S) /\ Len(u \o v) = Len(u) + Len(v)
      /\ \A i \in 1 .. Len(u) + Len(v) : (u \o v)[i] = IF i <= Len(u) THEN u[i] ELSE v[i - Len(u)]
  BY ConcatProperties
<1>2. PICK a \in Nat : a = Len(u)
  BY LenProperties
<1>3. PICK b \in Nat : b = Len(v)
  BY LenProperties
<1> DEFINE w == u \o v
<1>. HIDE DEF w
<1>4. \A i \in 1 .. a + b : w[i] = IF i <= a THEN u[i] ELSE v[i - a]
  BY <1>1, <1>2, <1>3 DEF w
<1>5. ASSUME NEW i \in 1 .. a PROVE w[i] = u[i]
  BY <1>4
<1>6. ASSUME NEW i \in 1 .. b PROVE w[i + a] = v[i]
  <2>1. PICK j \in 1 .. a + b : j = i + a /\ ~(j <= a) /\ j - a = i
    OBVIOUS
  <2>. QED BY <1>4, <2>1
<1>. QED BY <1>1, <1>2, <1>3, <1>5, <1>6 DEF w

-----------------------------------------------------------------------------
(* A sound skiplist, by the place pos of each node in one order: every     *)
(* level links the nodes it has in that order, a span is the difference of *)
(* two places, and backward leads one place back.                          *)
IsLevel(lv, h) == lv \in [1 .. h -> [forward : Address \cup {nullptr}, span : Int]]

IsNode(x) ==
  /\ x = [obj |-> x.obj, score |-> x.score, backward |-> x.backward, level |-> x.level]
  /\ x.obj \in Nat /\ x.score \in Int
  /\ \E h \in 1 .. MaxLevel : IsLevel(x.level, h)

Shape(sl) ==
  /\ sl = [node |-> sl.node, level |-> sl.level, length |-> sl.length, tail |-> sl.tail]
  /\ sl.node = [a \in DOMAIN sl.node |-> sl.node[a]]
  /\ header \in DOMAIN sl.node /\ Nodes(sl) \subseteq Address
  /\ \A a \in DOMAIN sl.node : IsNode(sl.node[a])
  /\ sl.node[header].obj = NoObj /\ DOMAIN sl.node[header].level = 1 .. MaxLevel
  /\ \A n \in Nodes(sl) : sl.node[n].obj # NoObj /\ DOMAIN sl.node[n].level \subseteq 1 .. sl.level
  /\ sl.level \in 1 .. MaxLevel /\ sl.length \in Nat
  /\ \A i \in sl.level + 1 .. MaxLevel : sl.node[header].level[i].forward = nullptr

(* pos: the place of each node in the order, the header in front. *)
Numbered(sl, pos) ==
  /\ pos \in [DOMAIN sl.node -> 0 .. sl.length] /\ pos[header] = 0
  /\ \A a, b \in DOMAIN sl.node : pos[a] = pos[b] => a = b
  /\ \A p \in 0 .. sl.length : \E a \in DOMAIN sl.node : pos[a] = p

InOrder(sl, pos) ==
  \A a, b \in Nodes(sl) : pos[a] < pos[b] => ~Precedes(sl, b, sl.node[a].score, sl.node[a].obj)

(* f comes next after a among the nodes of level i. *)
NextOn(sl, pos, i, a, f) ==
  /\ f = nullptr \/ (f \in OnLevel(sl, i) /\ pos[a] < pos[f])
  /\ \A b \in OnLevel(sl, i) : pos[b] <= pos[a] \/ (f # nullptr /\ pos[f] <= pos[b])

PosOf(sl, pos, f) == IF f = nullptr THEN sl.length ELSE pos[f]

Chained(sl, pos) ==
  \A i \in 1 .. sl.level : \A a \in OnLevel(sl, i) :
    /\ NextOn(sl, pos, i, a, sl.node[a].level[i].forward)
    /\ sl.node[a].level[i].span = PosOf(sl, pos, sl.node[a].level[i].forward) - pos[a]

Mirrored(sl, pos) ==
  /\ \A n \in Nodes(sl) : \/ pos[n] = 1 /\ sl.node[n].backward = nullptr
                          \/ /\ sl.node[n].backward \in Nodes(sl)
                             /\ pos[sl.node[n].backward] = pos[n] - 1
  /\ \/ sl.length = 0 /\ sl.tail = nullptr
     \/ sl.tail \in Nodes(sl) /\ pos[sl.tail] = sl.length

Ordered(sl, pos) ==
  Shape(sl) /\ Numbered(sl, pos) /\ InOrder(sl, pos) /\ Chained(sl, pos) /\ Mirrored(sl, pos)

-----------------------------------------------------------------------------
(* Places on a level. *)

LEMMA NullIsNowhere == nullptr \notin Address /\ header # nullptr /\ header \notin Address
BY AddressAssumption DEF header, nullptr

LEMMA LevelsOf ==
  ASSUME NEW sl, Shape(sl), NEW a \in DOMAIN sl.node
  PROVE  \E h \in 1 .. MaxLevel :
           /\ IsLevel(sl.node[a].level, h)
           /\ \A i : a \in OnLevel(sl, i) <=> i \in 1 .. h
<1>1. PICK h \in 1 .. MaxLevel : IsLevel(sl.node[a].level, h)
  BY DEF Shape, IsNode
<1>2. DOMAIN sl.node[a].level = 1 .. h
  BY <1>1 DEF IsLevel
<1>. QED BY <1>1, <1>2 DEF OnLevel

LEMMA PlacesAreNumbers ==
  ASSUME NEW sl, NEW pos, Shape(sl), Numbered(sl, pos), NEW a \in DOMAIN sl.node
  PROVE  /\ pos[a] \in Nat /\ pos[a] <= sl.length
         /\ pos[a] = 0 <=> a = header
         /\ a # nullptr
BY NullIsNowhere DEF Shape, Numbered, Nodes

LEMMA HeaderOnLevel ==
  ASSUME NEW sl, Shape(sl), NEW i \in 1 .. MaxLevel
  PROVE  header \in OnLevel(sl, i)
BY DEF Shape, OnLevel

(* b is the last on level i that has a place up to k. *)
LastOn(sl, pos, i, k, b) ==
  /\ b \in OnLevel(sl, i) /\ pos[b] <= k
  /\ \A c \in OnLevel(sl, i) : pos[c] <= k => pos[c] <= pos[b]

(* A non-empty set of natural numbers with a bound has a greatest element. *)
LEMMA GreatestNat ==
  ASSUME NEW S \in SUBSET Nat, S # {}, NEW m \in Nat, \A x \in S : x <= m
  PROVE  \E x \in S : \A y \in S : y <= x
<1> DEFINE T == {m - x : x \in S}
<1>1. T \in SUBSET Nat /\ T # {}
  <2>1. \A x \in S : x \in Nat /\ x <= m /\ m - x \in Nat
    OBVIOUS
  <2>. QED BY <2>1
<1>2. PICK t \in T : \A u \in T : t <= u
  <2>. HIDE DEF T
  <2>. QED BY <1>1, LeastNat
<1>3. PICK x \in S : t = m - x
  OBVIOUS
<1>4. ASSUME NEW y \in S PROVE y <= x
  <2>1. m - y \in T
    OBVIOUS
  <2>. QED BY <1>2, <1>3, <2>1
<1>. QED BY <1>4

LEMMA LastOnExists ==
  ASSUME NEW sl, NEW pos, Shape(sl), Numbered(sl, pos), NEW i \in 1 .. MaxLevel, NEW k \in Nat
  PROVE  \E b : LastOn(sl, pos, i, k, b)
<1> DEFINE S == {pos[c] : c \in {d \in OnLevel(sl, i) : pos[d] <= k}}
<1>1. \A c \in OnLevel(sl, i) : c \in DOMAIN sl.node /\ pos[c] \in Nat
  BY PlacesAreNumbers DEF OnLevel
<1>2. S \in SUBSET Nat /\ \A x \in S : x <= k
  BY <1>1
<1>3. 0 \in S
  <2>1. header \in OnLevel(sl, i) /\ pos[header] = 0
    BY HeaderOnLevel DEF Numbered
  <2>. QED BY <2>1
<1>4. PICK x \in S : \A y \in S : y <= x
  <2>. HIDE DEF S
  <2>. QED BY <1>2, <1>3, GreatestNat
<1>5. PICK b \in OnLevel(sl, i) : pos[b] <= k /\ pos[b] = x
  BY <1>4
<1>. QED BY <1>4, <1>5 DEF LastOn

LEMMA LastOnIsOne ==
  ASSUME NEW sl, NEW pos, Shape(sl), Numbered(sl, pos), NEW i, NEW k, NEW b, NEW c,
         LastOn(sl, pos, i, k, b), LastOn(sl, pos, i, k, c)
  PROVE  b = c
<1>1. pos[b] \in Nat /\ pos[c] \in Nat /\ b \in DOMAIN sl.node /\ c \in DOMAIN sl.node
  BY PlacesAreNumbers DEF LastOn, OnLevel
<1>2. pos[b] = pos[c]
  BY <1>1 DEF LastOn
<1>. QED BY <1>1, <1>2 DEF Numbered

-----------------------------------------------------------------------------
(* A walk along level i. Goes: the walk from p goes over to c.             *)

Points(sl, i) == [at : OnLevel(sl, i), rank : Int]
Point(a, r)   == [at |-> a, rank |-> r]

Goes(sl, pos, S, R, p, c) == c \in S /\ p.rank + (pos[c] - pos[p.at]) \in R

(* b is where the walk from p ends.                                        *)
StopsAt(sl, pos, S, R, i, p, b) ==
  /\ b \in OnLevel(sl, i) /\ pos[p.at] <= pos[b]
  /\ \A c \in OnLevel(sl, i) : pos[p.at] < pos[c] /\ pos[c] <= pos[b] => Goes(sl, pos, S, R, p, c)
  /\ \A c \in OnLevel(sl, i) :
       pos[b] < pos[c] => \E d \in OnLevel(sl, i) : /\ pos[p.at] < pos[d] /\ pos[d] <= pos[c]
                                                  /\ ~Goes(sl, pos, S, R, p, d)

LEMMA StopsSomewhere ==
  ASSUME NEW sl, NEW pos, Shape(sl), Numbered(sl, pos), NEW S, NEW R, NEW i, NEW p \in Points(sl, i)
  PROVE  \E b : StopsAt(sl, pos, S, R, i, p, b)
<1> DEFINE G == {b \in OnLevel(sl, i) :
                   /\ pos[p.at] <= pos[b]
                   /\ \A c \in OnLevel(sl, i) :
                        pos[p.at] < pos[c] /\ pos[c] <= pos[b] => Goes(sl, pos, S, R, p, c)}
           P == {pos[b] : b \in G}
<1>1. \A c \in OnLevel(sl, i) : pos[c] \in Nat /\ pos[c] <= sl.length
  BY PlacesAreNumbers DEF OnLevel
<1>2. p.at \in G
  BY <1>1 DEF Points
<1>3. P \in SUBSET Nat /\ P # {} /\ \A x \in P : x <= sl.length
  <2>1. \A b \in G : b \in OnLevel(sl, i)
    OBVIOUS
  <2>. HIDE DEF G
  <2>. QED BY <1>1, <1>2, <2>1
<1>4. PICK x \in P : \A y \in P : y <= x
  <2>1. sl.length \in Nat
    BY DEF Shape
  <2>. HIDE DEF P
  <2>. QED BY <1>3, <2>1, GreatestNat
<1>5. PICK b \in G : x = pos[b]
  OBVIOUS
<1>6. ASSUME NEW c \in OnLevel(sl, i), pos[b] < pos[c]
      PROVE  \E d \in OnLevel(sl, i) : pos[p.at] < pos[d] /\ pos[d] <= pos[c] /\ ~Goes(sl, pos, S, R, p, d)
  <2>1. c \notin G
    <3>1. ~(pos[c] <= x)
      BY <1>1, <1>5, <1>6
    <3>. QED BY <1>4, <3>1
  <2>2. pos[p.at] <= pos[c]
    BY <1>1, <1>2, <1>5, <1>6 DEF Points
  <2>. QED BY <2>1, <2>2
<1>. QED BY <1>5, <1>6 DEF StopsAt

LEMMA StopsOnce ==
  ASSUME NEW sl, NEW pos, Shape(sl), Numbered(sl, pos), NEW S, NEW R, NEW i, NEW p \in Points(sl, i),
         NEW b, NEW c, StopsAt(sl, pos, S, R, i, p, b), StopsAt(sl, pos, S, R, i, p, c)
  PROVE  b = c
<1>1. \A d \in OnLevel(sl, i) : d \in DOMAIN sl.node /\ pos[d] \in Nat
  BY PlacesAreNumbers DEF OnLevel
<1>2. b \in OnLevel(sl, i) /\ c \in OnLevel(sl, i)
  BY DEF StopsAt
<1>3. ~(pos[b] < pos[c]) /\ ~(pos[c] < pos[b])
  BY <1>1, <1>2 DEF StopsAt
<1>4. pos[b] = pos[c]
  BY <1>1, <1>2, <1>3
<1>. QED BY <1>1, <1>2, <1>4 DEF Numbered

(* What the code does at p, given the rest of the walk.                    *)
Next1(sl, i, p) ==
  Point(sl.node[p.at].level[i].forward, p.rank + sl.node[p.at].level[i].span)
Walking(f, sl, S, R, i) ==
  f = [p \in Points(sl, i) |->
         IF Next1(sl, i, p).at \in S /\ Next1(sl, i, p).rank \in R THEN f[Next1(sl, i, p)] ELSE p]

LEMMA NextIs ==
  ASSUME NEW sl, NEW pos, Shape(sl), Numbered(sl, pos), Chained(sl, pos),
         NEW i \in 1 .. sl.level, NEW p \in Points(sl, i), NEW q, q = Next1(sl, i, p)
  PROVE  /\ NextOn(sl, pos, i, p.at, q.at)
         /\ q.at # nullptr => /\ q \in Points(sl, i) /\ q.rank = p.rank + (pos[q.at] - pos[p.at])
                              /\ \A S, R : q.at \in S /\ q.rank \in R <=> Goes(sl, pos, S, R, p, q.at)
<1>1. q.at = sl.node[p.at].level[i].forward /\ q.rank = p.rank + sl.node[p.at].level[i].span
  BY DEF Next1, Point
<1>2. p.at \in OnLevel(sl, i) /\ p.rank \in Int
  BY DEF Points
<1>3. NextOn(sl, pos, i, p.at, q.at) /\ sl.node[p.at].level[i].span = PosOf(sl, pos, q.at) - pos[p.at]
  BY <1>1, <1>2 DEF Chained
<1>4. ASSUME q.at # nullptr
      PROVE  /\ q \in Points(sl, i) /\ q.rank = p.rank + (pos[q.at] - pos[p.at])
             /\ \A S, R : q.at \in S /\ q.rank \in R <=> Goes(sl, pos, S, R, p, q.at)
  <2>1. q.at \in OnLevel(sl, i) /\ pos[q.at] \in Nat /\ pos[p.at] \in Nat
    BY <1>2, <1>3, <1>4, PlacesAreNumbers DEF NextOn, OnLevel
  <2>2. q.rank = p.rank + (pos[q.at] - pos[p.at])
    BY <1>1, <1>3, <1>4 DEF PosOf
  <2>3. q = Point(q.at, q.rank)
    BY DEF Next1, Point
  <2>. QED BY <1>2, <2>1, <2>2, <2>3 DEF Points, Point, Goes
<1>. QED BY <1>3, <1>4

(* The closed form of a walk satisfies what the code does at each point.   *)
LEMMA StopsGoOn ==
  ASSUME NEW sl, NEW pos, Shape(sl), Numbered(sl, pos), Chained(sl, pos),
         NEW i \in 1 .. sl.level, NEW S, NEW R, nullptr \notin S,
         NEW p \in Points(sl, i), NEW q, q = Next1(sl, i, p), NEW b
  PROVE  /\ q.at \in S /\ q.rank \in R => (StopsAt(sl, pos, S, R, i, q, b) => StopsAt(sl, pos, S, R, i, p, b))
         /\ ~(q.at \in S /\ q.rank \in R) => StopsAt(sl, pos, S, R, i, p, p.at)
<1>1. /\ NextOn(sl, pos, i, p.at, q.at)
      /\ q.at # nullptr => /\ q \in Points(sl, i) /\ q.rank = p.rank + (pos[q.at] - pos[p.at])
                           /\ q.at \in S /\ q.rank \in R <=> Goes(sl, pos, S, R, p, q.at)
  <2>1. /\ NextOn(sl, pos, i, p.at, q.at)
        /\ q.at # nullptr => /\ q \in Points(sl, i) /\ q.rank = p.rank + (pos[q.at] - pos[p.at])
                             /\ \A X, Y : q.at \in X /\ q.rank \in Y <=> Goes(sl, pos, X, Y, p, q.at)
    BY NextIs
  <2>. QED BY <2>1
<1>2. /\ \A c \in OnLevel(sl, i) : pos[c] \in Nat
      /\ p.at \in OnLevel(sl, i) /\ p.rank \in Int
  BY PlacesAreNumbers DEF OnLevel, Points
<1>3. ASSUME q.at \in S, q.rank \in R, StopsAt(sl, pos, S, R, i, q, b)
      PROVE  StopsAt(sl, pos, S, R, i, p, b)
  <2>1. /\ q \in Points(sl, i) /\ q.at \in OnLevel(sl, i) /\ pos[p.at] < pos[q.at]
        /\ q.rank = p.rank + (pos[q.at] - pos[p.at]) /\ Goes(sl, pos, S, R, p, q.at)
    BY <1>1, <1>3 DEF NextOn
  <2>2. ASSUME NEW c \in OnLevel(sl, i) PROVE Goes(sl, pos, S, R, q, c) <=> Goes(sl, pos, S, R, p, c)
    <3>1. q.rank + (pos[c] - pos[q.at]) = p.rank + (pos[c] - pos[p.at])
      BY <1>2, <2>1
    <3>. QED BY <3>1 DEF Goes
  <2>3. b \in OnLevel(sl, i) /\ pos[p.at] <= pos[b]
    BY <1>2, <1>3, <2>1 DEF StopsAt
  <2>4. ASSUME NEW c \in OnLevel(sl, i), pos[p.at] < pos[c], pos[c] <= pos[b]
        PROVE  Goes(sl, pos, S, R, p, c)
    <3>1. pos[q.at] <= pos[c]
      BY <1>1, <1>2, <1>3, <2>4 DEF NextOn
    <3>2. CASE pos[q.at] = pos[c]
      <4>1. q.at = c
        BY <2>1, <3>2 DEF Numbered, OnLevel
      <4>. QED BY <2>1, <4>1
    <3>3. CASE pos[q.at] < pos[c]
      BY <1>3, <2>2, <2>4, <3>3 DEF StopsAt
    <3>. QED BY <1>2, <2>1, <3>1, <3>2, <3>3
  <2>5. ASSUME NEW c \in OnLevel(sl, i), pos[b] < pos[c]
        PROVE  \E d \in OnLevel(sl, i) : pos[p.at] < pos[d] /\ pos[d] <= pos[c] /\ ~Goes(sl, pos, S, R, p, d)
    <3>1. PICK d \in OnLevel(sl, i) : pos[q.at] < pos[d] /\ pos[d] <= pos[c] /\ ~Goes(sl, pos, S, R, q, d)
      BY <1>3, <2>5 DEF StopsAt
    <3>. QED BY <1>2, <2>1, <2>2, <3>1
  <2>. QED BY <2>3, <2>4, <2>5 DEF StopsAt
<1>4. ASSUME ~(q.at \in S /\ q.rank \in R)
      PROVE  StopsAt(sl, pos, S, R, i, p, p.at)
  <2>1. ASSUME NEW c \in OnLevel(sl, i), pos[p.at] < pos[c]
        PROVE  \E d \in OnLevel(sl, i) : pos[p.at] < pos[d] /\ pos[d] <= pos[c] /\ ~Goes(sl, pos, S, R, p, d)
    <3>1. q.at # nullptr /\ pos[q.at] <= pos[c]
      BY <1>1, <1>2, <2>1 DEF NextOn
    <3>2. q.at \in OnLevel(sl, i) /\ pos[p.at] < pos[q.at] /\ ~Goes(sl, pos, S, R, p, q.at)
      BY <1>1, <1>4, <3>1 DEF NextOn
    <3>. QED BY <3>1, <3>2
  <2>2. \A c \in OnLevel(sl, i) : ~(pos[p.at] < pos[c] /\ pos[c] <= pos[p.at])
    BY <1>2
  <2>. QED BY <1>2, <2>1, <2>2 DEF StopsAt
<1>. QED BY <1>3, <1>4

LEMMA WalkSolves ==
  ASSUME NEW sl, NEW pos, Shape(sl), Numbered(sl, pos), Chained(sl, pos),
         NEW i \in 1 .. sl.level, NEW S, NEW R, nullptr \notin S
  PROVE  Walking(Walk(sl, S, R, i), sl, S, R, i)
<1> DEFINE End(p) == CHOOSE b : StopsAt(sl, pos, S, R, i, p, b)
           e == [p \in Points(sl, i) |-> Point(End(p), p.rank + (pos[End(p)] - pos[p.at]))]
           g == [p \in Points(sl, i) |->
                   IF Next1(sl, i, p).at \in S /\ Next1(sl, i, p).rank \in R THEN e[Next1(sl, i, p)] ELSE p]
<1>1. \A p \in Points(sl, i) : StopsAt(sl, pos, S, R, i, p, End(p))
  BY StopsSomewhere
<1>2. ASSUME NEW p \in Points(sl, i) PROVE e[p] = g[p]
  <2>1. PICK q : q = Next1(sl, i, p)
    OBVIOUS
  <2>2. /\ \A c \in OnLevel(sl, i) : pos[c] \in Nat
        /\ p.at \in OnLevel(sl, i) /\ p.rank \in Int /\ p = Point(p.at, p.rank)
    BY PlacesAreNumbers DEF OnLevel, Points, Point
  <2>3. e[p] = Point(End(p), p.rank + (pos[End(p)] - pos[p.at]))
    OBVIOUS
  <2>4. CASE q.at \in S /\ q.rank \in R
    <3>1. q \in Points(sl, i) /\ q.rank = p.rank + (pos[q.at] - pos[p.at])
      BY <2>1, <2>4, NextIs
    <3>2. StopsAt(sl, pos, S, R, i, q, End(q))
      BY <1>1, <3>1
    <3>3. StopsAt(sl, pos, S, R, i, p, End(q)) /\ StopsAt(sl, pos, S, R, i, p, End(p))
      BY <1>1, <2>1, <2>4, <3>2, StopsGoOn
    <3>4. PICK b : b = End(q)
      OBVIOUS
    <3>5. End(p) = b
      <4>. HIDE DEF End
      <4>. QED BY <3>3, <3>4, StopsOnce
    <3>6. b \in OnLevel(sl, i) /\ q.at \in OnLevel(sl, i)
      BY <3>1, <3>2, <3>4 DEF StopsAt, Points
    <3>7. e[p] = Point(b, p.rank + (pos[b] - pos[p.at])) /\ e[q] = Point(b, q.rank + (pos[b] - pos[q.at]))
      <4>1. e[q] = Point(End(q), q.rank + (pos[End(q)] - pos[q.at]))
        BY <3>1
      <4>. HIDE DEF End, e
      <4>. QED BY <2>3, <3>4, <3>5, <4>1
    <3>8. p.rank + (pos[b] - pos[p.at]) = q.rank + (pos[b] - pos[q.at])
      BY <2>2, <3>1, <3>6
    <3>9. g[p] = e[q]
      <4>. HIDE DEF e
      <4>. QED BY <2>1, <2>4
    <3>. HIDE DEF e, g
    <3>. QED BY <3>7, <3>8, <3>9
  <2>5. CASE ~(q.at \in S /\ q.rank \in R)
    <3>1. StopsAt(sl, pos, S, R, i, p, p.at) /\ StopsAt(sl, pos, S, R, i, p, End(p))
      BY <1>1, <2>1, <2>5, StopsGoOn
    <3>2. End(p) = p.at
      <4>. HIDE DEF End
      <4>. QED BY <3>1, StopsOnce
    <3>3. e[p] = Point(p.at, p.rank + (pos[p.at] - pos[p.at]))
      <4>. HIDE DEF End, e
      <4>. QED BY <2>3, <3>2
    <3>4. g[p] = p
      <4>. HIDE DEF e
      <4>. QED BY <2>1, <2>5
    <3>5. p.rank + (pos[p.at] - pos[p.at]) = p.rank
      BY <2>2
    <3>. HIDE DEF e, g
    <3>. QED BY <2>2, <3>3, <3>4, <3>5
  <2>. QED BY <2>4, <2>5
<1>3. e = g
  <2>1. e = [p \in Points(sl, i) |-> e[p]] /\ g = [p \in Points(sl, i) |-> g[p]]
    OBVIOUS
  <2>. HIDE DEF e, g
  <2>. QED BY <1>2, <2>1
<1>4. Walking(e, sl, S, R, i)
  <2>. HIDE DEF e
  <2>. QED BY <1>3 DEF Walking
<1>5. \E f : Walking(f, sl, S, R, i)
  BY <1>4
<1>6. Walk(sl, S, R, i) = CHOOSE f : Walking(f, sl, S, R, i)
  BY DEF Walk, Walking, Points, Next1, Point
<1>. QED BY <1>5, <1>6

(* S and R let a walk pass up to place k, and no further.                  *)
PassesTo(sl, pos, S, R, k) ==
  /\ nullptr \notin S
  /\ \A n \in Nodes(sl) : n \in S /\ pos[n] \in R <=> pos[n] <= k

(* A walk that starts with the place of its node for a rank ends with the  *)
(* place of the last node it may pass.                                     *)
LEMMA WalkIs ==
  ASSUME NEW sl, NEW pos, Shape(sl), Numbered(sl, pos), Chained(sl, pos),
         NEW i \in 1 .. sl.level, NEW S, NEW R, NEW k \in Nat, PassesTo(sl, pos, S, R, k),
         NEW a \in OnLevel(sl, i), pos[a] <= k, NEW b, LastOn(sl, pos, i, k, b)
  PROVE  Walk(sl, S, R, i)[Point(a, pos[a])] = Point(b, pos[b])
<1> DEFINE w == Walk(sl, S, R, i)
           D == {m \in Nat : \E c \in OnLevel(sl, i) :
                   pos[c] <= k /\ m = sl.length - pos[c] /\ w[Point(c, pos[c])] # Point(b, pos[b])}
<1>0. /\ \A c \in OnLevel(sl, i) : c \in DOMAIN sl.node /\ pos[c] \in Nat /\ pos[c] <= sl.length
      /\ sl.length \in Nat /\ b \in OnLevel(sl, i)
  BY PlacesAreNumbers DEF OnLevel, LastOn, Shape
<1>1. Walking(w, sl, S, R, i)
  BY WalkSolves DEF PassesTo
<1>. HIDE DEF w
<1>2. ASSUME D # {} PROVE FALSE
  <2>1. PICK m \in D : \A x \in D : m <= x
    <3>1. D \in SUBSET Nat
      OBVIOUS
    <3>. HIDE DEF D
    <3>. QED BY <1>2, <3>1, LeastNat
  <2>2. PICK c \in OnLevel(sl, i) : pos[c] <= k /\ m = sl.length - pos[c] /\ w[Point(c, pos[c])] # Point(b, pos[b])
    BY <2>1
  <2>3. PICK p : p = Point(c, pos[c])
    OBVIOUS
  <2>4. p \in Points(sl, i) /\ p.at = c /\ p.rank = pos[c]
    BY <1>0, <2>3 DEF Points, Point
  <2>5. PICK q : q = Next1(sl, i, p)
    OBVIOUS
  <2>6. w[p] = IF q.at \in S /\ q.rank \in R THEN w[q] ELSE p
    BY <1>1, <2>4, <2>5 DEF Walking
  <2>7. /\ NextOn(sl, pos, i, c, q.at)
        /\ q.at # nullptr => q \in Points(sl, i) /\ q.rank = pos[c] + (pos[q.at] - pos[c])
    <3>1. nullptr \notin S
      BY DEF PassesTo
    <3>2. /\ NextOn(sl, pos, i, p.at, q.at)
          /\ q.at # nullptr => q \in Points(sl, i) /\ q.rank = p.rank + (pos[q.at] - pos[p.at])
      <4>. HIDE DEF D
      <4>1. ASSUME NEW x \in Points(sl, i), NEW y, y = Next1(sl, i, x)
            PROVE  /\ NextOn(sl, pos, i, x.at, y.at)
                   /\ y.at # nullptr => y \in Points(sl, i) /\ y.rank = x.rank + (pos[y.at] - pos[x.at])
        BY <3>1, <4>1, NextIs
      <4>. QED BY <2>4, <2>5, <4>1
    <3>. QED BY <2>4, <3>2
  <2>8. CASE q.at \in S /\ q.rank \in R
    <3>1. q.at # nullptr /\ q.at \in OnLevel(sl, i) /\ pos[c] < pos[q.at]
      BY <2>7, <2>8 DEF NextOn, PassesTo
    <3>2. q.rank = pos[q.at]
      BY <1>0, <2>7, <3>1
    <3>3. q.at \in Nodes(sl)
      BY <1>0, <3>1, PlacesAreNumbers DEF Nodes, Numbered
    <3>4. pos[q.at] <= k
      BY <2>8, <3>2, <3>3 DEF PassesTo
    <3>5. q = Point(q.at, pos[q.at])
      BY <2>5, <3>2 DEF Next1, Point
    <3>6. w[Point(q.at, pos[q.at])] # Point(b, pos[b])
      BY <2>2, <2>3, <2>6, <2>8, <3>5
    <3>7. sl.length - pos[q.at] \in D
      BY <1>0, <3>1, <3>4, <3>6
    <3>. HIDE DEF D
    <3>. QED BY <1>0, <2>1, <2>2, <3>1, <3>7
  <2>9. CASE ~(q.at \in S /\ q.rank \in R)
    <3>1. c # b
      BY <2>2, <2>3, <2>6, <2>9
    <3>2. pos[c] < pos[b] /\ pos[b] <= k
      <4>1. pos[c] <= pos[b] /\ pos[b] <= k
        BY <2>2 DEF LastOn
      <4>2. pos[c] # pos[b]
        BY <1>0, <3>1 DEF Numbered
      <4>. QED BY <1>0, <4>1, <4>2
    <3>3. q.at # nullptr /\ pos[q.at] <= pos[b]
      BY <1>0, <2>7, <3>2 DEF NextOn
    <3>4. q.at \in OnLevel(sl, i) /\ pos[c] < pos[q.at] /\ q.rank = pos[q.at]
      BY <1>0, <2>7, <3>3 DEF NextOn
    <3>5. q.at \in Nodes(sl)
      BY <1>0, <3>4, PlacesAreNumbers DEF Nodes, Numbered
    <3>6. pos[q.at] <= k
      BY <1>0, <3>2, <3>3, <3>4
    <3>. QED BY <2>9, <3>4, <3>5, <3>6 DEF PassesTo
  <2>. QED BY <2>8, <2>9
<1>3. ASSUME w[Point(a, pos[a])] # Point(b, pos[b]) PROVE FALSE
  <2>1. sl.length - pos[a] \in D
    BY <1>0, <1>3
  <2>. QED BY <1>2, <2>1
<1>. QED BY <1>3 DEF w

(* The descent: on each level the last node that may be passed.            *)
LEMMA DescentIs ==
  ASSUME NEW sl, NEW pos, Shape(sl), Numbered(sl, pos), Chained(sl, pos),
         NEW S, NEW R, NEW k \in Nat, PassesTo(sl, pos, S, R, k),
         NEW i \in 1 .. sl.level
  PROVE  \E b : LastOn(sl, pos, i, k, b) /\ Descent(sl, S, R)[i] = Point(b, pos[b])
<1> DEFINE L == 1 .. sl.level
           Last1(j) == CHOOSE b : LastOn(sl, pos, j, k, b)
           e == [j \in L |-> Point(Last1(j), pos[Last1(j)])]
           From(f, j) == Walk(sl, S, R, j)[IF j = sl.level THEN Start ELSE f[j + 1]]
<1>0. sl.level \in 1 .. MaxLevel /\ MaxLevel \in Nat /\ pos[header] = 0
  BY LevelAssumption DEF Shape, Numbered
<1>1. \A j \in L : LastOn(sl, pos, j, k, Last1(j))
  <2>1. ASSUME NEW j \in L PROVE \E b : LastOn(sl, pos, j, k, b)
    BY <1>0, LastOnExists
  <2>. QED BY <2>1
<1>2. \A j \in L : e[j] = Point(Last1(j), pos[Last1(j)])
  OBVIOUS
<1>3. ASSUME NEW j \in L, j # sl.level PROVE Walk(sl, S, R, j)[e[j + 1]] = e[j]
  <2>1. PICK a, b : a = Last1(j + 1) /\ b = Last1(j)
    OBVIOUS
  <2>2. j + 1 \in L
    BY <1>0, <1>3
  <2>3. LastOn(sl, pos, j + 1, k, a) /\ LastOn(sl, pos, j, k, b)
    BY <1>1, <2>1, <2>2
  <2>4. a \in OnLevel(sl, j) /\ pos[a] <= k
    <3>1. a \in OnLevel(sl, j + 1) /\ pos[a] <= k /\ a \in DOMAIN sl.node
      BY <2>3 DEF LastOn, OnLevel
    <3>2. PICK h \in 1 .. MaxLevel : \A x : a \in OnLevel(sl, x) <=> x \in 1 .. h
      BY <3>1, LevelsOf
    <3>. QED BY <1>0, <3>1, <3>2
  <2>5. Walk(sl, S, R, j)[Point(a, pos[a])] = Point(b, pos[b])
    BY <2>3, <2>4, WalkIs
  <2>6. e[j + 1] = Point(a, pos[a]) /\ e[j] = Point(b, pos[b])
    BY <1>2, <2>1, <2>2
  <2>. HIDE DEF e, Last1
  <2>. QED BY <2>5, <2>6
<1>4. Walk(sl, S, R, sl.level)[Start] = e[sl.level]
  <2>1. PICK b : b = Last1(sl.level)
    OBVIOUS
  <2>2. sl.level \in L /\ LastOn(sl, pos, sl.level, k, b)
    BY <1>0, <1>1, <2>1
  <2>3. header \in OnLevel(sl, sl.level) /\ pos[header] <= k
    BY <1>0, HeaderOnLevel
  <2>4. Walk(sl, S, R, sl.level)[Point(header, pos[header])] = Point(b, pos[b])
    BY <2>2, <2>3, WalkIs
  <2>5. Start = Point(header, pos[header])
    BY <1>0 DEF Start, Point
  <2>. QED BY <1>2, <2>1, <2>2, <2>4, <2>5
<1>. HIDE DEF e, Last1
<1>5. e = [j \in L |-> From(e, j)]
  <2>1. e = [j \in L |-> e[j]]
    BY DEF e
  <2>2. \A j \in L : e[j] = From(e, j)
    BY <1>3, <1>4
  <2>. QED BY <2>1, <2>2
<1>6. PICK d : d = Descent(sl, S, R)
  OBVIOUS
<1>7. d = [j \in L |-> From(d, j)]
  <2>1. d = CHOOSE f : f = [j \in L |-> From(f, j)]
    BY <1>6 DEF Descent
  <2>2. \E f : f = [j \in L |-> From(f, j)]
    BY <1>5
  <2>. QED BY <2>1, <2>2
<1> DEFINE D == {m \in Nat : \E j \in L : m = sl.level - j /\ d[j] # e[j]}
<1>8. ASSUME D # {} PROVE FALSE
  <2>1. PICK m \in D : \A x \in D : m <= x
    <3>1. D \in SUBSET Nat
      OBVIOUS
    <3>. HIDE DEF D
    <3>. QED BY <1>8, <3>1, LeastNat
  <2>2. PICK j \in L : m = sl.level - j /\ d[j] # e[j]
    BY <2>1
  <2>3. d[j] = From(d, j) /\ e[j] = From(e, j)
    BY <1>5, <1>7
  <2>4. j # sl.level
    BY <2>2, <2>3
  <2>5. j + 1 \in L /\ sl.level - (j + 1) \in Nat /\ sl.level - (j + 1) < m
    BY <1>0, <2>2, <2>4
  <2>6. d[j + 1] # e[j + 1]
    BY <2>2, <2>3, <2>4
  <2>7. sl.level - (j + 1) \in D
    BY <2>5, <2>6
  <2>. QED BY <2>1, <2>5, <2>7
<1>9. d[i] = e[i]
  <2>1. CASE d[i] # e[i]
    <3>1. sl.level - i \in D
      BY <1>0, <2>1
    <3>. QED BY <1>8, <3>1
  <2>. QED BY <2>1
<1>10. LastOn(sl, pos, i, k, Last1(i)) /\ e[i] = Point(Last1(i), pos[Last1(i)])
  BY <1>1, <1>2
<1>. QED BY <1>6, <1>9, <1>10

-----------------------------------------------------------------------------
(* Insertion. *)

(* A set of nodes with every node in front of its members is what is found *)
(* up to some place.                                                       *)
LEMMA PrefixIs ==
  ASSUME NEW sl, NEW pos, Shape(sl), Numbered(sl, pos), NEW S \in SUBSET Nodes(sl),
         \A a, b \in Nodes(sl) : pos[a] < pos[b] /\ b \in S => a \in S
  PROVE  \E k \in 0 .. sl.length : PassesTo(sl, pos, S, Int, k)
<1>0. /\ sl.length \in Nat /\ nullptr \notin S
      /\ \A a \in Nodes(sl) : pos[a] \in Nat /\ pos[a] # 0 /\ pos[a] <= sl.length /\ a \in DOMAIN sl.node
  BY PlacesAreNumbers DEF Shape, Nodes
<1> DEFINE P == {0} \cup {pos[a] : a \in S}
<1>1. PICK k \in P : \A x \in P : x <= k
  <2>1. P \in SUBSET Nat /\ P # {} /\ \A x \in P : x <= sl.length
    BY <1>0
  <2>. HIDE DEF P
  <2>. QED BY <1>0, <2>1, GreatestNat
<1>2. k \in 0 .. sl.length
  BY <1>0
<1>3. ASSUME NEW a \in Nodes(sl) PROVE a \in S /\ pos[a] \in Int <=> pos[a] <= k
  <2>1. ASSUME a \in S PROVE pos[a] <= k
    BY <1>1, <2>1
  <2>2. ASSUME pos[a] <= k PROVE a \in S
    <3>1. PICK b \in S : k = pos[b]
      BY <1>0, <2>2
    <3>2. pos[a] = pos[b] => a = b
      BY <1>0, <3>1 DEF Numbered
    <3>. QED BY <1>0, <2>2, <3>1, <3>2
  <2>. QED BY <1>0, <2>1, <2>2
<1>. QED BY <1>0, <1>2, <1>3 DEF PassesTo

LEMMA BeforeIs ==
  ASSUME NEW sl, NEW pos, Ordered(sl, pos), NEW score \in Int, NEW member \in Nat
  PROVE  \E k \in 0 .. sl.length : PassesTo(sl, pos, Before(sl, score, member), Int, k)
<1>1. \A a \in Nodes(sl) : sl.node[a].score \in Int /\ sl.node[a].obj \in Nat
  BY DEF Ordered, Shape, IsNode, Nodes
<1>2. ASSUME NEW a \in Nodes(sl), NEW b \in Nodes(sl), pos[a] < pos[b], Precedes(sl, b, score, member)
      PROVE  Precedes(sl, a, score, member)
  <2>1. ~Precedes(sl, b, sl.node[a].score, sl.node[a].obj)
    BY <1>2 DEF Ordered, InOrder
  <2>. QED BY <1>1, <1>2, <2>1 DEF Precedes
<1>3. Before(sl, score, member) \in SUBSET Nodes(sl)
  BY DEF Before
<1>4. \A a, b \in Nodes(sl) : pos[a] < pos[b] /\ b \in Before(sl, score, member) => a \in Before(sl, score, member)
  BY <1>2 DEF Before
<1>. QED BY <1>3, <1>4, PrefixIs DEF Ordered

(* Above the levels in use there is the header only. *)
LEMMA AboveIsHeader ==
  ASSUME NEW sl, Shape(sl), NEW i \in sl.level + 1 .. MaxLevel
  PROVE  /\ OnLevel(sl, i) = {header}
         /\ sl.node[header].level[i].forward = nullptr
<1>1. header \in OnLevel(sl, i)
  BY LevelAssumption DEF Shape, OnLevel
<1>2. \A a \in OnLevel(sl, i) : a = header
  BY LevelAssumption DEF Shape, OnLevel, Nodes
<1>. QED BY <1>1, <1>2 DEF Shape

(* The list after slInsert as a function of the path it has found.         *)
Onto(sl, path, n, score, member, lv) ==
  LET update(i) == IF i <= sl.level THEN path[i] ELSE Start
      from(i)   == IF i <= sl.level THEN sl.node[path[i].at].level[i] ELSE RawLevels(sl, i)
      ahead(i)  == path[1].rank - update(i).rank
      top       == Max({lv, sl.level})
      relinked(a, i, l) ==
        IF i > top \/ update(i).at # a THEN l
        ELSE IF i <= lv THEN Link(n, ahead(i) + 1) ELSE Link(l.forward, l.span + 1)
      x    == [obj |-> member, score |-> score,
               backward |-> IF path[1].at = header THEN nullptr ELSE path[1].at,
               level |-> [i \in 1 .. lv |-> Link(from(i).forward, from(i).span - ahead(i))]]
      next == x.level[1].forward
      node(a) == Rewired(sl.node[a], IF a = next THEN n ELSE sl.node[a].backward,
                         [i \in DOMAIN sl.node[a].level |-> relinked(a, i, sl.node[a].level[i])])
  IN  [node   |-> [a \in DOMAIN sl.node \cup {n} |-> IF a = n THEN x ELSE node(a)],
       level  |-> top,
       length |-> sl.length + 1,
       tail   |-> IF next = nullptr THEN n ELSE sl.tail]

LEMMA slInsertIs ==
  ASSUME NEW sl, NEW n, NEW score, NEW member, NEW lv
  PROVE  slInsert(sl, n, score, member, lv) = Onto(sl, Descend(sl, Before(sl, score, member)), n, score, member, lv)
BY DEF slInsert, Onto

LEMMA MaxOfTwo ==
  ASSUME NEW a \in Nat, NEW b \in Nat
  PROVE  Max({a, b}) \in {a, b} /\ a <= Max({a, b}) /\ b <= Max({a, b})
<1>1. \E x \in {a, b} : \A y \in {a, b} : x >= y
  OBVIOUS
<1>. QED BY <1>1 DEF Max

(* What is in front of the new node on level i, and its link.              *)
LinkAt(sl, a, i) == IF i <= sl.level THEN sl.node[a].level[i] ELSE Link(nullptr, sl.length)
IsUpdate(sl, pos, k, u) ==
  \A i \in 1 .. MaxLevel : IF i <= sl.level THEN LastOn(sl, pos, i, k, u[i]) ELSE u[i] = header

(* x is put behind the nodes up to place k. *)
Linked(sl, pos, k, u, n, lv, t) ==
  /\ DOMAIN t.node = DOMAIN sl.node \cup {n}
  /\ t = [node |-> t.node, level |-> t.level, length |-> sl.length + 1, tail |-> t.tail]
  /\ t.node = [a \in DOMAIN t.node |-> t.node[a]]
  /\ t.level = Max({lv, sl.level})
  /\ t.tail = IF LinkAt(sl, u[1], 1).forward = nullptr THEN n ELSE sl.tail
  /\ t.node[n] = [obj |-> t.node[n].obj, score |-> t.node[n].score,
                  backward |-> IF u[1] = header THEN nullptr ELSE u[1],
                  level |-> [i \in 1 .. lv |-> Link(LinkAt(sl, u[i], i).forward,
                                                    LinkAt(sl, u[i], i).span - (k - pos[u[i]]))]]
  /\ \A a \in DOMAIN sl.node :
       t.node[a] = [obj |-> sl.node[a].obj, score |-> sl.node[a].score,
                    backward |-> IF a = LinkAt(sl, u[1], 1).forward THEN n ELSE sl.node[a].backward,
                    level |-> [i \in DOMAIN sl.node[a].level |->
                                 IF i > t.level \/ u[i] # a THEN sl.node[a].level[i]
                                 ELSE IF i <= lv THEN Link(n, (k - pos[u[i]]) + 1)
                                 ELSE Link(sl.node[a].level[i].forward, sl.node[a].level[i].span + 1)]]

LEMMA PointIs ==
  ASSUME NEW a, NEW r
  PROVE  Point(a, r).at = a /\ Point(a, r).rank = r
BY DEF Point

LEMMA OntoIsLinked ==
  ASSUME NEW sl, NEW pos, Shape(sl), Numbered(sl, pos), NEW path, NEW u, NEW k \in Nat,
         IsUpdate(sl, pos, k, u), pos[u[1]] = k,
         \A i \in 1 .. sl.level : path[i] = Point(u[i], pos[u[i]]),
         NEW n, n \notin DOMAIN sl.node, NEW score, NEW member, NEW lv \in 1 .. MaxLevel
  PROVE  /\ Linked(sl, pos, k, u, n, lv, Onto(sl, path, n, score, member, lv))
         /\ Onto(sl, path, n, score, member, lv).node[n].obj = member
         /\ Onto(sl, path, n, score, member, lv).node[n].score = score
<1> DEFINE update(i) == IF i <= sl.level THEN path[i] ELSE Start
           from(i)   == IF i <= sl.level THEN sl.node[path[i].at].level[i] ELSE RawLevels(sl, i)
           ahead(i)  == path[1].rank - update(i).rank
<1>0. sl.level \in 1 .. MaxLevel /\ MaxLevel \in Nat /\ pos[header] = 0
  BY LevelAssumption DEF Shape, Numbered
<1>1. \A i \in 1 .. MaxLevel : update(i) = Point(u[i], pos[u[i]])
  BY <1>0 DEF IsUpdate, Start, Point
<1>2. ASSUME NEW i \in 1 .. MaxLevel PROVE from(i) = LinkAt(sl, u[i], i)
  <2>1. CASE i <= sl.level
    <3>1. path[i].at = u[i]
      <4>1. path[i] = Point(u[i], pos[u[i]])
        BY <1>0, <2>1
      <4>. QED BY <4>1, PointIs
    <3>. QED BY <2>1, <3>1 DEF LinkAt
  <2>2. CASE ~(i <= sl.level)
    <3>1. sl.node[header].level[i].forward = nullptr
      BY <1>0, <2>2, AboveIsHeader
    <3>. QED BY <2>2, <3>1 DEF LinkAt, RawLevels
  <2>. QED BY <2>1, <2>2
<1>3. \A i \in 1 .. MaxLevel : ahead(i) = k - pos[u[i]] /\ update(i).at = u[i]
  <2>1. path[1].rank = k
    <3>1. path[1] = Point(u[1], k)
      BY <1>0
    <3>. QED BY <3>1, PointIs
  <2>. HIDE DEF update
  <2>. QED BY <1>1, <2>1 DEF Point
<1>4. path[1].at = u[1]
  <2>1. path[1] = Point(u[1], pos[u[1]])
    BY <1>0
  <2>. QED BY <2>1, PointIs
<1>5. PICK t : t = Onto(sl, path, n, score, member, lv)
  OBVIOUS
<1> DEFINE top == Max({lv, sl.level})
           x   == [obj |-> member, score |-> score,
                   backward |-> IF path[1].at = header THEN nullptr ELSE path[1].at,
                   level |-> [i \in 1 .. lv |-> Link(from(i).forward, from(i).span - ahead(i))]]
           lev(a) == [i \in DOMAIN sl.node[a].level |->
                        IF i > top \/ update(i).at # a THEN sl.node[a].level[i]
                        ELSE IF i <= lv THEN Link(n, ahead(i) + 1)
                        ELSE Link(sl.node[a].level[i].forward, sl.node[a].level[i].span + 1)]
           node(a) == Rewired(sl.node[a], IF a = x.level[1].forward THEN n ELSE sl.node[a].backward, lev(a))
<1>6. t = [node |-> [a \in DOMAIN sl.node \cup {n} |-> IF a = n THEN x ELSE node(a)],
           level |-> top, length |-> sl.length + 1,
           tail |-> IF x.level[1].forward = nullptr THEN n ELSE sl.tail]
  BY <1>5 DEF Onto
<1>7. x.level[1].forward = LinkAt(sl, u[1], 1).forward
  <2>1. x.level[1] = Link(from(1).forward, from(1).span - ahead(1))
    OBVIOUS
  <2>. HIDE DEF x, from, ahead
  <2>. QED BY <1>0, <1>2, <2>1 DEF Link
<1>8. x = [obj |-> member, score |-> score,
           backward |-> IF u[1] = header THEN nullptr ELSE u[1],
           level |-> [i \in 1 .. lv |-> Link(LinkAt(sl, u[i], i).forward,
                                             LinkAt(sl, u[i], i).span - (k - pos[u[i]]))]]
  <2>1. \A i \in 1 .. lv : from(i) = LinkAt(sl, u[i], i) /\ ahead(i) = k - pos[u[i]]
    BY <1>0, <1>2, <1>3
  <2>. HIDE DEF from, ahead
  <2>. QED BY <1>4, <2>1
<1>9. ASSUME NEW a \in DOMAIN sl.node
      PROVE  node(a) = [obj |-> sl.node[a].obj, score |-> sl.node[a].score,
                        backward |-> IF a = LinkAt(sl, u[1], 1).forward THEN n ELSE sl.node[a].backward,
                        level |-> [i \in DOMAIN sl.node[a].level |->
                                     IF i > top \/ u[i] # a THEN sl.node[a].level[i]
                                     ELSE IF i <= lv THEN Link(n, (k - pos[u[i]]) + 1)
                                     ELSE Link(sl.node[a].level[i].forward, sl.node[a].level[i].span + 1)]]
  <2>1. DOMAIN sl.node[a].level \subseteq 1 .. MaxLevel
    <3>1. PICK h \in 1 .. MaxLevel : IsLevel(sl.node[a].level, h)
      BY LevelsOf
    <3>. QED BY <1>0, <3>1 DEF IsLevel
  <2>2. lev(a) = [i \in DOMAIN sl.node[a].level |->
                     IF i > top \/ u[i] # a THEN sl.node[a].level[i]
                     ELSE IF i <= lv THEN Link(n, (k - pos[u[i]]) + 1)
                     ELSE Link(sl.node[a].level[i].forward, sl.node[a].level[i].span + 1)]
    <3>1. \A i \in DOMAIN sl.node[a].level : update(i).at = u[i] /\ ahead(i) = k - pos[u[i]]
      BY <1>3, <2>1
    <3>. HIDE DEF update, ahead, top
    <3>. QED BY <3>1
  <2>3. node(a) = [obj |-> sl.node[a].obj, score |-> sl.node[a].score,
                   backward |-> IF a = x.level[1].forward THEN n ELSE sl.node[a].backward, level |-> lev(a)]
    BY DEF Rewired
  <2>. HIDE DEF node, lev, x
  <2>. QED BY <1>7, <2>2, <2>3
<1>. HIDE DEF node, x, top
<1>10. /\ t.node = [a \in DOMAIN sl.node \cup {n} |-> IF a = n THEN x ELSE node(a)]
       /\ t.level = top /\ t.tail = IF LinkAt(sl, u[1], 1).forward = nullptr THEN n ELSE sl.tail
       /\ t = [node |-> t.node, level |-> t.level, length |-> sl.length + 1, tail |-> t.tail]
  BY <1>6, <1>7
<1>11. t.node[n] = x /\ \A a \in DOMAIN sl.node : t.node[a] = node(a)
  BY <1>10
<1>12. x.obj = member /\ x.score = score
  BY <1>8
<1>13. Linked(sl, pos, k, u, n, lv, t)
  <2>1. DOMAIN t.node = DOMAIN sl.node \cup {n} /\ t.node = [a \in DOMAIN t.node |-> t.node[a]]
    BY <1>10
  <2>2. t.level = Max({lv, sl.level})
    BY <1>10 DEF top
  <2>3. t.node[n] = [obj |-> t.node[n].obj, score |-> t.node[n].score,
                     backward |-> IF u[1] = header THEN nullptr ELSE u[1],
                     level |-> [i \in 1 .. lv |-> Link(LinkAt(sl, u[i], i).forward,
                                                       LinkAt(sl, u[i], i).span - (k - pos[u[i]]))]]
    BY <1>8, <1>11, <1>12
  <2>4. ASSUME NEW a \in DOMAIN sl.node
        PROVE  t.node[a] = [obj |-> sl.node[a].obj, score |-> sl.node[a].score,
                        backward |-> IF a = LinkAt(sl, u[1], 1).forward THEN n ELSE sl.node[a].backward,
                        level |-> [i \in DOMAIN sl.node[a].level |->
                                     IF i > t.level \/ u[i] # a THEN sl.node[a].level[i]
                                     ELSE IF i <= lv THEN Link(n, (k - pos[u[i]]) + 1)
                                     ELSE Link(sl.node[a].level[i].forward, sl.node[a].level[i].span + 1)]]
    BY <1>9, <1>10, <1>11
  <2>. QED BY <1>10, <2>1, <2>2, <2>3, <2>4 DEF Linked
<1>. QED BY <1>5, <1>11, <1>12, <1>13

(* Every link, with those of levels not in use taken as slInsert starts    *)
(* them, leads to the next node of its level.                              *)
LEMMA LinksLead ==
  ASSUME NEW sl, NEW pos, Shape(sl), Numbered(sl, pos), Chained(sl, pos),
         NEW i \in 1 .. MaxLevel, NEW a \in OnLevel(sl, i)
  PROVE  /\ NextOn(sl, pos, i, a, LinkAt(sl, a, i).forward)
         /\ LinkAt(sl, a, i).span = PosOf(sl, pos, LinkAt(sl, a, i).forward) - pos[a]
<1>1. CASE i <= sl.level
  <2>1. i \in 1 .. sl.level
    BY <1>1 DEF Shape
  <2>. QED BY <1>1, <2>1 DEF Chained, LinkAt
<1>2. CASE ~(i <= sl.level)
  <2>1. OnLevel(sl, i) = {header}
    BY <1>2, AboveIsHeader DEF Shape
  <2>2. LinkAt(sl, a, i).forward = nullptr /\ LinkAt(sl, a, i).span = sl.length
    BY <1>2 DEF LinkAt, Link
  <2>3. a = header /\ pos[a] = 0 /\ sl.length \in Nat
    BY <2>1 DEF Numbered, Shape
  <2>. QED BY <2>1, <2>2, <2>3 DEF NextOn, PosOf
<1>. QED BY <1>1, <1>2

(* Places after a new one behind place k. *)
Moved(p, k)       == IF p <= k THEN p ELSE p + 1
PosWith(sl, pos, k, n) ==
  [a \in DOMAIN sl.node \cup {n} |-> IF a = n THEN k + 1 ELSE Moved(pos[a], k)]

LEMMA MovedIs ==
  ASSUME NEW p \in Nat, NEW q \in Nat, NEW k \in Nat
  PROVE  /\ Moved(p, k) \in Nat /\ Moved(p, k) # k + 1
         /\ Moved(p, k) <= Moved(q, k) <=> p <= q
         /\ Moved(p, k) < Moved(q, k) <=> p < q
         /\ Moved(p, k) = Moved(q, k) <=> p = q
         /\ Moved(p, k) <= k + 1 <=> p <= k
         /\ Moved(p, k) < k + 1 <=> p <= k
         /\ k + 1 <= Moved(p, k) <=> k < p
         /\ k + 1 < Moved(p, k) <=> k < p
         /\ p <= k => Moved(p, k) = p
         /\ k < p => Moved(p, k) = p + 1
BY DEF Moved

LEMMA PosWithIs ==
  ASSUME NEW sl, NEW pos, Shape(sl), Numbered(sl, pos), NEW n, n \notin DOMAIN sl.node, NEW k \in Nat,
         NEW q, q = PosWith(sl, pos, k, n)
  PROVE  /\ q[n] = k + 1
         /\ \A a \in DOMAIN sl.node : q[a] = Moved(pos[a], k) /\ q[a] \in Nat /\ pos[a] \in Nat
<1>1. \A a \in DOMAIN sl.node : pos[a] \in Nat
  BY PlacesAreNumbers
<1>2. \A a \in DOMAIN sl.node : q[a] = Moved(pos[a], k)
  BY DEF PosWith
<1>3. \A a \in DOMAIN sl.node : Moved(pos[a], k) \in Nat
  BY <1>1, MovedIs
<1>. QED BY <1>1, <1>2, <1>3 DEF PosWith

LEMMA InsertNumbers ==
  ASSUME NEW sl, NEW pos, Shape(sl), Numbered(sl, pos), NEW n, n \notin DOMAIN sl.node,
         NEW k \in 0 .. sl.length, NEW t, DOMAIN t.node = DOMAIN sl.node \cup {n}, t.length = sl.length + 1
  PROVE  Numbered(t, PosWith(sl, pos, k, n))
<1>1. PICK q : q = PosWith(sl, pos, k, n)
  OBVIOUS
<1>2. /\ q[n] = k + 1 /\ k \in Nat /\ sl.length \in Nat
      /\ \A a \in DOMAIN sl.node : q[a] = Moved(pos[a], k) /\ q[a] \in Nat /\ pos[a] \in Nat
  BY <1>1, PosWithIs DEF Shape
<1>3. q \in [DOMAIN t.node -> 0 .. t.length]
  <2>1. \A a \in DOMAIN sl.node : pos[a] <= sl.length
    BY PlacesAreNumbers
  <2>2. \A a \in DOMAIN t.node : q[a] \in 0 .. t.length
    BY <1>2, <2>1 DEF Moved
  <2>. QED BY <1>1, <2>2 DEF PosWith
<1>4. q[header] = 0
  <2>1. header \in DOMAIN sl.node /\ pos[header] = 0
    BY DEF Shape, Numbered
  <2>. QED BY <1>2, <2>1 DEF Moved
<1>5. ASSUME NEW a \in DOMAIN t.node, NEW b \in DOMAIN t.node, q[a] = q[b] PROVE a = b
  <2>1. CASE a = n \/ b = n
    <3>1. \A c \in DOMAIN sl.node : q[c] # k + 1
      BY <1>2 DEF Moved
    <3>. QED BY <1>2, <1>5, <2>1, <3>1
  <2>2. CASE a # n /\ b # n
    <3>1. a \in DOMAIN sl.node /\ b \in DOMAIN sl.node
      BY <2>2
    <3>2. pos[a] = pos[b]
      BY <1>2, <1>5, <3>1 DEF Moved
    <3>. QED BY <3>1, <3>2 DEF Numbered
  <2>. QED BY <2>1, <2>2
<1>6. ASSUME NEW p \in 0 .. t.length PROVE \E a \in DOMAIN t.node : q[a] = p
  <2>1. CASE p <= k
    <3>1. PICK a \in DOMAIN sl.node : pos[a] = p
      BY <1>2, <2>1 DEF Numbered
    <3>. QED BY <1>2, <2>1, <3>1 DEF Moved
  <2>2. CASE p = k + 1
    BY <1>2, <2>2
  <2>3. CASE p > k + 1
    <3>1. PICK a \in DOMAIN sl.node : pos[a] = p - 1
      <4>1. p - 1 \in 0 .. sl.length
        BY <1>2, <2>3
      <4>. QED BY <4>1 DEF Numbered
    <3>. QED BY <1>2, <2>3, <3>1 DEF Moved
  <2>. QED BY <1>2, <2>1, <2>2, <2>3
<1>. QED BY <1>1, <1>3, <1>4, <1>5, <1>6 DEF Numbered

(* t is a list in order with node n put behind place k.                    *)
Inserted(sl, pos, k, u, n, lv, t) ==
  /\ Shape(sl) /\ Numbered(sl, pos) /\ Chained(sl, pos)
  /\ k \in 0 .. sl.length /\ IsUpdate(sl, pos, k, u)
  /\ n \in Address /\ n \notin DOMAIN sl.node /\ lv \in 1 .. MaxLevel
  /\ Linked(sl, pos, k, u, n, lv, t)

(* What the nodes of the list are once the new one is linked.              *)
LEMMA LinkedNodes ==
  ASSUME NEW sl, NEW pos, NEW k, NEW u, NEW n, NEW lv, NEW t, Inserted(sl, pos, k, u, n, lv, t)
  PROVE  /\ Nodes(t) = Nodes(sl) \cup {n} /\ n \in DOMAIN t.node
         /\ t.length = sl.length + 1 /\ t.level \in 1 .. MaxLevel
         /\ sl.level <= t.level /\ lv <= t.level /\ t.level \in {lv, sl.level}
         /\ \A a \in DOMAIN sl.node : /\ a \in DOMAIN t.node /\ t.node[a].obj = sl.node[a].obj
                                      /\ t.node[a].score = sl.node[a].score
                                      /\ DOMAIN t.node[a].level = DOMAIN sl.node[a].level
         /\ DOMAIN t.node[n].level = 1 .. lv
         /\ \A i : OnLevel(t, i) = OnLevel(sl, i) \cup (IF i \in 1 .. lv THEN {n} ELSE {})
<1>0. /\ Shape(sl) /\ n \in Address /\ n \notin DOMAIN sl.node /\ lv \in 1 .. MaxLevel
      /\ Linked(sl, pos, k, u, n, lv, t)
  BY DEF Inserted
<1>1. /\ DOMAIN t.node = DOMAIN sl.node \cup {n} /\ t.length = sl.length + 1 /\ t.level = Max({lv, sl.level})
  BY <1>0 DEF Linked
<1>2. DOMAIN t.node[n].level = 1 .. lv
  BY <1>0 DEF Linked
<1>3. ASSUME NEW a \in DOMAIN sl.node
      PROVE  /\ a \in DOMAIN t.node /\ t.node[a].obj = sl.node[a].obj
             /\ t.node[a].score = sl.node[a].score
             /\ DOMAIN t.node[a].level = DOMAIN sl.node[a].level
  <2> DEFINE lev == [i \in DOMAIN sl.node[a].level |->
                       IF i > t.level \/ u[i] # a THEN sl.node[a].level[i]
                       ELSE IF i <= lv THEN Link(n, (k - pos[u[i]]) + 1)
                       ELSE Link(sl.node[a].level[i].forward, sl.node[a].level[i].span + 1)]
             b == IF a = LinkAt(sl, u[1], 1).forward THEN n ELSE sl.node[a].backward
  <2>1. t.node[a] = [obj |-> sl.node[a].obj, score |-> sl.node[a].score, backward |-> b, level |-> lev]
    BY <1>0 DEF Linked
  <2>2. DOMAIN lev = DOMAIN sl.node[a].level
    OBVIOUS
  <2>. HIDE DEF lev, b
  <2>. QED BY <1>1, <2>1, <2>2
<1>4. sl.level \in 1 .. MaxLevel /\ MaxLevel \in Nat /\ header # n
  BY <1>0, LevelAssumption, NullIsNowhere DEF Shape
<1>5. t.level \in {lv, sl.level} /\ sl.level <= t.level /\ lv <= t.level
  BY <1>0, <1>1, <1>4, MaxOfTwo
<1>6. \A i : OnLevel(t, i) = OnLevel(sl, i) \cup (IF i \in 1 .. lv THEN {n} ELSE {})
  BY <1>1, <1>2, <1>3 DEF OnLevel
<1>7. Nodes(t) = Nodes(sl) \cup {n}
  BY <1>0, <1>1, <1>4 DEF Nodes
<1>. QED BY <1>0, <1>1, <1>2, <1>3, <1>4, <1>5, <1>6, <1>7

(* The links of the list once the new one is linked.                       *)
LEMMA LinkedLinks ==
  ASSUME NEW sl, NEW pos, NEW k, NEW u, NEW n, NEW lv, NEW t, Inserted(sl, pos, k, u, n, lv, t),
         NEW i \in 1 .. t.level, NEW a \in OnLevel(t, i), NEW g, g = LinkAt(sl, u[i], i)
  PROVE  /\ a = n => /\ t.node[n].level[i].forward = g.forward
                     /\ t.node[n].level[i].span = g.span - (k - pos[u[i]])
         /\ a # n => a \in OnLevel(sl, i) /\ a \in DOMAIN sl.node
         /\ a # n /\ u[i] = a /\ i <= lv =>
              t.node[a].level[i].forward = n /\ t.node[a].level[i].span = (k - pos[a]) + 1
         /\ a # n /\ u[i] = a /\ ~(i <= lv) =>
              t.node[a].level[i].forward = g.forward /\ t.node[a].level[i].span = g.span + 1
         /\ a # n /\ u[i] # a => t.node[a].level[i] = LinkAt(sl, a, i)
<1>. /\ Shape(sl) /\ n \in Address /\ n \notin DOMAIN sl.node /\ lv \in 1 .. MaxLevel
     /\ Linked(sl, pos, k, u, n, lv, t) /\ IsUpdate(sl, pos, k, u)
  BY DEF Inserted
<1>0. /\ t.level \in 1 .. MaxLevel /\ t.level \in {lv, sl.level} /\ sl.level <= t.level /\ lv <= t.level
      /\ OnLevel(t, i) = OnLevel(sl, i) \cup (IF i \in 1 .. lv THEN {n} ELSE {})
      /\ MaxLevel \in Nat /\ sl.level \in 1 .. MaxLevel
  <2>1. MaxLevel \in Nat /\ sl.level \in 1 .. MaxLevel
    BY LevelAssumption DEF Shape
  <2>. QED BY <2>1, LinkedNodes
<1>1. ASSUME a = n
      PROVE  /\ t.node[n].level[i].forward = g.forward
             /\ t.node[n].level[i].span = g.span - (k - pos[u[i]])
  <2>1. i \in 1 .. lv
    <3>1. n \notin OnLevel(sl, i)
      BY DEF OnLevel
    <3>. QED BY <1>0, <1>1, <3>1
  <2> DEFINE lev == [j \in 1 .. lv |-> Link(LinkAt(sl, u[j], j).forward,
                                            LinkAt(sl, u[j], j).span - (k - pos[u[j]]))]
  <2>2. t.node[n].level = lev
    <3>1. t.node[n] = [obj |-> t.node[n].obj, score |-> t.node[n].score,
                       backward |-> IF u[1] = header THEN nullptr ELSE u[1], level |-> lev]
      BY DEF Linked
    <3>. HIDE DEF lev
    <3>. QED BY <3>1
  <2>3. lev[i] = Link(g.forward, g.span - (k - pos[u[i]]))
    BY <2>1
  <2>. HIDE DEF lev
  <2>. QED BY <2>2, <2>3 DEF Link
<1>2. ASSUME a # n
      PROVE  /\ a \in OnLevel(sl, i) /\ a \in DOMAIN sl.node
             /\ u[i] = a /\ i <= lv =>
                  t.node[a].level[i].forward = n /\ t.node[a].level[i].span = (k - pos[a]) + 1
             /\ u[i] = a /\ ~(i <= lv) =>
                  t.node[a].level[i].forward = g.forward /\ t.node[a].level[i].span = g.span + 1
             /\ u[i] # a => t.node[a].level[i] = LinkAt(sl, a, i)
  <2>1. a \in OnLevel(sl, i) /\ a \in DOMAIN sl.node /\ i \in DOMAIN sl.node[a].level
    BY <1>0, <1>2 DEF OnLevel
  <2> DEFINE lev == [j \in DOMAIN sl.node[a].level |->
                       IF j > t.level \/ u[j] # a THEN sl.node[a].level[j]
                       ELSE IF j <= lv THEN Link(n, (k - pos[u[j]]) + 1)
                       ELSE Link(sl.node[a].level[j].forward, sl.node[a].level[j].span + 1)]
             b == IF a = LinkAt(sl, u[1], 1).forward THEN n ELSE sl.node[a].backward
  <2>2. t.node[a].level = lev
    <3>1. t.node[a] = [obj |-> sl.node[a].obj, score |-> sl.node[a].score, backward |-> b, level |-> lev]
      BY <2>1 DEF Linked
    <3>. HIDE DEF lev, b
    <3>. QED BY <3>1
  <2>3. lev[i] = IF u[i] # a THEN sl.node[a].level[i]
                 ELSE IF i <= lv THEN Link(n, (k - pos[u[i]]) + 1)
                 ELSE Link(sl.node[a].level[i].forward, sl.node[a].level[i].span + 1)
    BY <1>0, <2>1
  <2>4. ~(i <= lv) => i <= sl.level
    BY <1>0
  <2>5. u[i] # a => i <= sl.level
    <3>1. ASSUME ~(i <= sl.level) PROVE u[i] = a
      <4>1. i \in sl.level + 1 .. MaxLevel /\ i \in 1 .. MaxLevel
        BY <1>0, <3>1
      <4>2. OnLevel(sl, i) = {header}
        BY <4>1, AboveIsHeader
      <4>3. u[i] = header
        BY <3>1, <4>1 DEF IsUpdate
      <4>. QED BY <2>1, <4>2, <4>3
    <3>. QED BY <3>1
  <2>. HIDE DEF lev
  <2>. QED BY <2>1, <2>2, <2>3, <2>4, <2>5 DEF Link, LinkAt
<1>. QED BY <1>1, <1>2

LEMMA InsertChains ==
  ASSUME NEW sl, NEW pos, NEW k, NEW u, NEW n, NEW lv, NEW t, Inserted(sl, pos, k, u, n, lv, t)
  PROVE  Chained(t, PosWith(sl, pos, k, n))
<1>. /\ Shape(sl) /\ Numbered(sl, pos) /\ Chained(sl, pos)
     /\ k \in 0 .. sl.length /\ IsUpdate(sl, pos, k, u)
     /\ n \in Address /\ n \notin DOMAIN sl.node /\ lv \in 1 .. MaxLevel
  BY DEF Inserted
<1>1. PICK q : q = PosWith(sl, pos, k, n)
  OBVIOUS
<1>2. /\ q[n] = k + 1 /\ k \in Nat /\ sl.length \in Nat /\ n # nullptr
      /\ \A a \in DOMAIN sl.node : q[a] = Moved(pos[a], k) /\ q[a] \in Nat /\ pos[a] \in Nat /\ a # nullptr
  BY <1>1, PosWithIs, PlacesAreNumbers, NullIsNowhere DEF Shape
<1>3. ASSUME NEW i \in 1 .. t.level, NEW a \in OnLevel(t, i)
      PROVE  /\ NextOn(t, q, i, a, t.node[a].level[i].forward)
             /\ t.node[a].level[i].span = PosOf(t, q, t.node[a].level[i].forward) - q[a]
  <2>0. /\ t.length = sl.length + 1 /\ i \in 1 .. MaxLevel /\ lv \in Nat
        /\ OnLevel(t, i) = OnLevel(sl, i) \cup (IF i \in 1 .. lv THEN {n} ELSE {})
        /\ \A b \in OnLevel(sl, i) : b \in DOMAIN sl.node
    BY LinkedNodes, LevelAssumption DEF OnLevel
  <2>1. PICK g : g = LinkAt(sl, u[i], i)
    OBVIOUS
  <2>2. PICK v : v = u[i]
    OBVIOUS
  <2>3. v \in OnLevel(sl, i) /\ pos[v] <= k /\ \A c \in OnLevel(sl, i) : pos[c] <= k => pos[c] <= pos[v]
    <3>1. CASE i <= sl.level
      BY <2>0, <2>2, <3>1 DEF IsUpdate, LastOn
    <3>2. CASE ~(i <= sl.level)
      <4>1. OnLevel(sl, i) = {header} /\ v = header
        BY <2>0, <2>2, <3>2, AboveIsHeader DEF IsUpdate, Shape
      <4>. QED BY <1>2, <4>1 DEF Numbered
    <3>. QED BY <3>1, <3>2
  <2>4. NextOn(sl, pos, i, v, g.forward) /\ g.span = PosOf(sl, pos, g.forward) - pos[v]
    BY <2>0, <2>1, <2>2, <2>3, LinksLead
  <2>5. g.forward # nullptr => g.forward \in OnLevel(sl, i) /\ pos[g.forward] > k
    BY <1>2, <2>0, <2>3, <2>4 DEF NextOn
  <2>6. \A b \in OnLevel(sl, i) : pos[b] > k => g.forward # nullptr /\ pos[g.forward] <= pos[b]
    BY <1>2, <2>0, <2>3, <2>4 DEF NextOn
  <2>7. CASE a = n
    <3>1. t.node[a].level[i].forward = g.forward /\ t.node[a].level[i].span = g.span - (k - pos[v])
      BY <2>1, <2>2, <2>7, LinkedLinks
    <3>2. NextOn(t, q, i, a, g.forward)
      BY <1>2, <2>0, <2>5, <2>6, <2>7 DEF NextOn, Moved
    <3>3. g.span - (k - pos[v]) = PosOf(t, q, g.forward) - q[a]
      BY <1>2, <2>0, <2>3, <2>4, <2>5, <2>7 DEF PosOf, Moved
    <3>. QED BY <3>1, <3>2, <3>3
  <2>8. CASE a # n /\ u[i] = a /\ i <= lv
    <3>1. t.node[a].level[i].forward = n /\ t.node[a].level[i].span = (k - pos[a]) + 1
      BY <2>8, LinkedLinks
    <3>2. NextOn(t, q, i, a, n)
      BY <1>2, <2>0, <2>2, <2>3, <2>8 DEF NextOn, Moved
    <3>3. (k - pos[a]) + 1 = PosOf(t, q, n) - q[a]
      BY <1>2, <2>0, <2>2, <2>3, <2>8 DEF PosOf, Moved
    <3>. QED BY <3>1, <3>2, <3>3
  <2>9. CASE a # n /\ u[i] = a /\ ~(i <= lv)
    <3>1. t.node[a].level[i].forward = g.forward /\ t.node[a].level[i].span = g.span + 1
      BY <2>1, <2>9, LinkedLinks
    <3>2. OnLevel(t, i) = OnLevel(sl, i)
      BY <2>0, <2>9
    <3>3. NextOn(t, q, i, a, g.forward)
      BY <1>2, <2>0, <2>2, <2>3, <2>5, <2>6, <2>9, <3>2 DEF NextOn, Moved
    <3>4. g.span + 1 = PosOf(t, q, g.forward) - q[a]
      BY <1>2, <2>0, <2>2, <2>3, <2>4, <2>5, <2>9 DEF PosOf, Moved
    <3>. QED BY <3>1, <3>3, <3>4
  <2>10. CASE a # n /\ u[i] # a
    <3>1. t.node[a].level[i] = LinkAt(sl, a, i) /\ a \in OnLevel(sl, i)
      BY <2>10, LinkedLinks
    <3>2. PICK f : f = LinkAt(sl, a, i).forward
      OBVIOUS
    <3>3. NextOn(sl, pos, i, a, f) /\ LinkAt(sl, a, i).span = PosOf(sl, pos, f) - pos[a]
      BY <2>0, <3>1, <3>2, LinksLead
    <3>4. CASE pos[a] <= k
      <4>1. pos[a] < pos[v]
        <5>1. pos[a] <= pos[v] /\ pos[a] # pos[v]
          BY <2>0, <2>2, <2>3, <2>10, <3>1, <3>4 DEF Numbered
        <5>. QED BY <1>2, <2>0, <2>3, <3>1, <5>1
      <4>2. f # nullptr /\ f \in OnLevel(sl, i) /\ pos[a] < pos[f] /\ pos[f] <= k
        BY <1>2, <2>0, <2>3, <3>1, <3>3, <4>1 DEF NextOn
      <4>3. NextOn(t, q, i, a, f)
        BY <1>2, <2>0, <3>1, <3>3, <3>4, <4>2 DEF NextOn, Moved
      <4>4. PosOf(sl, pos, f) - pos[a] = PosOf(t, q, f) - q[a]
        BY <1>2, <2>0, <3>1, <3>4, <4>2 DEF PosOf, Moved
      <4>. QED BY <3>1, <3>2, <3>3, <4>3, <4>4
    <3>5. CASE ~(pos[a] <= k)
      <4>1. f # nullptr => f \in OnLevel(sl, i) /\ pos[a] < pos[f]
        BY <3>3 DEF NextOn
      <4>2. NextOn(t, q, i, a, f)
        BY <1>2, <2>0, <3>1, <3>3, <3>5, <4>1 DEF NextOn, Moved
      <4>3. PosOf(sl, pos, f) - pos[a] = PosOf(t, q, f) - q[a]
        BY <1>2, <2>0, <3>1, <3>5, <4>1 DEF PosOf, Moved
      <4>. QED BY <3>1, <3>2, <3>3, <4>2, <4>3
    <3>. QED BY <3>4, <3>5
  <2>. QED BY <2>7, <2>8, <2>9, <2>10
<1>. QED BY <1>1, <1>3 DEF Chained

LEMMA InsertShapes ==
  ASSUME NEW sl, NEW pos, NEW k, NEW u, NEW n, NEW lv, NEW t, Inserted(sl, pos, k, u, n, lv, t),
         t.node[n].obj \in Nat \ {NoObj}, t.node[n].score \in Int
  PROVE  Shape(t)
<1>. /\ Shape(sl) /\ Numbered(sl, pos) /\ Chained(sl, pos)
     /\ k \in 0 .. sl.length /\ IsUpdate(sl, pos, k, u)
     /\ n \in Address /\ n \notin DOMAIN sl.node /\ lv \in 1 .. MaxLevel
     /\ Linked(sl, pos, k, u, n, lv, t)
  BY DEF Inserted
<1>1. /\ Nodes(t) = Nodes(sl) \cup {n} /\ n \in DOMAIN t.node
      /\ t.length = sl.length + 1 /\ t.level \in 1 .. MaxLevel
      /\ sl.level <= t.level /\ lv <= t.level /\ t.level \in {lv, sl.level}
      /\ \A a \in DOMAIN sl.node : /\ a \in DOMAIN t.node /\ t.node[a].obj = sl.node[a].obj
                                   /\ t.node[a].score = sl.node[a].score
                                   /\ DOMAIN t.node[a].level = DOMAIN sl.node[a].level
      /\ DOMAIN t.node[n].level = 1 .. lv
      /\ \A i : OnLevel(t, i) = OnLevel(sl, i) \cup (IF i \in 1 .. lv THEN {n} ELSE {})
  BY LinkedNodes
<1>2. /\ MaxLevel \in Nat /\ sl.level \in 1 .. MaxLevel /\ sl.length \in Nat /\ header \in DOMAIN sl.node
      /\ Nodes(sl) \subseteq Address
      /\ sl.node[header].obj = NoObj /\ DOMAIN sl.node[header].level = 1 .. MaxLevel
      /\ \A a \in Nodes(sl) : sl.node[a].obj # NoObj /\ DOMAIN sl.node[a].level \subseteq 1 .. sl.level
      /\ \A i \in sl.level + 1 .. MaxLevel : sl.node[header].level[i].forward = nullptr
  BY LevelAssumption DEF Shape
<1>3. /\ t = [node |-> t.node, level |-> t.level, length |-> t.length, tail |-> t.tail]
      /\ t.node = [a \in DOMAIN t.node |-> t.node[a]] /\ DOMAIN t.node = DOMAIN sl.node \cup {n}
  BY DEF Linked
<1>4. ASSUME NEW i \in 1 .. MaxLevel
      PROVE  /\ u[i] \in OnLevel(sl, i) /\ pos[u[i]] \in Nat
             /\ LinkAt(sl, u[i], i).forward \in Address \cup {nullptr} /\ LinkAt(sl, u[i], i).span \in Int
  <2>1. u[i] \in OnLevel(sl, i)
    BY <1>2, HeaderOnLevel DEF IsUpdate, LastOn
  <2>2. u[i] \in DOMAIN sl.node /\ pos[u[i]] \in Nat
    BY <2>1, PlacesAreNumbers DEF OnLevel
  <2>3. CASE i <= sl.level
    <3>1. PICK h \in 1 .. MaxLevel : IsLevel(sl.node[u[i]].level, h) /\ i \in 1 .. h
      BY <2>1, <2>2, LevelsOf
    <3>2. sl.node[u[i]].level[i] \in [forward : Address \cup {nullptr}, span : Int]
      BY <3>1 DEF IsLevel
    <3>. QED BY <2>1, <2>2, <2>3, <3>2 DEF LinkAt
  <2>4. CASE ~(i <= sl.level)
    BY <1>2, <2>1, <2>2, <2>4 DEF LinkAt, Link
  <2>. QED BY <2>3, <2>4
<1>5. IsNode(t.node[n])
  <2> DEFINE lev == [i \in 1 .. lv |-> Link(LinkAt(sl, u[i], i).forward,
                                            LinkAt(sl, u[i], i).span - (k - pos[u[i]]))]
             b == IF u[1] = header THEN nullptr ELSE u[1]
  <2>1. t.node[n] = [obj |-> t.node[n].obj, score |-> t.node[n].score, backward |-> b, level |-> lev]
    BY DEF Linked
  <2>2. IsLevel(lev, lv)
    <3>1. \A i \in 1 .. lv : lev[i] \in [forward : Address \cup {nullptr}, span : Int]
      <4>1. \A i \in 1 .. lv : i \in 1 .. MaxLevel
        BY <1>2
      <4>. QED BY <1>2, <1>4, <4>1 DEF Link
    <3>. QED BY <3>1 DEF IsLevel
  <2>. HIDE DEF lev, b
  <2>3. t.node[n] = [obj |-> t.node[n].obj, score |-> t.node[n].score,
                     backward |-> t.node[n].backward, level |-> t.node[n].level] /\ t.node[n].level = lev
    BY <2>1
  <2>. QED BY <2>2, <2>3 DEF IsNode
<1>6. ASSUME NEW a \in DOMAIN sl.node PROVE IsNode(t.node[a])
  <2> DEFINE lev == [i \in DOMAIN sl.node[a].level |->
                       IF i > t.level \/ u[i] # a THEN sl.node[a].level[i]
                       ELSE IF i <= lv THEN Link(n, (k - pos[u[i]]) + 1)
                       ELSE Link(sl.node[a].level[i].forward, sl.node[a].level[i].span + 1)]
             b == IF a = LinkAt(sl, u[1], 1).forward THEN n ELSE sl.node[a].backward
  <2>1. t.node[a] = [obj |-> sl.node[a].obj, score |-> sl.node[a].score, backward |-> b, level |-> lev]
    BY DEF Linked
  <2>2. PICK h \in 1 .. MaxLevel : IsLevel(sl.node[a].level, h)
    BY LevelsOf
  <2>3. IsLevel(lev, h)
    <3>1. DOMAIN sl.node[a].level = 1 .. h
      BY <2>2 DEF IsLevel
    <3>2. ASSUME NEW i \in 1 .. h PROVE lev[i] \in [forward : Address \cup {nullptr}, span : Int]
      <4>1. sl.node[a].level[i] \in [forward : Address \cup {nullptr}, span : Int] /\ i \in 1 .. MaxLevel
        BY <1>2, <2>2 DEF IsLevel
      <4>2. pos[u[i]] \in Nat
        BY <1>4, <4>1
      <4>. QED BY <1>2, <3>1, <4>1, <4>2 DEF Link
    <3>3. lev = [i \in 1 .. h |-> lev[i]]
      BY <3>1
    <3>. HIDE DEF lev
    <3>. QED BY <3>2, <3>3 DEF IsLevel
  <2>4. sl.node[a].obj \in Nat /\ sl.node[a].score \in Int
    BY DEF Shape, IsNode
  <2>. HIDE DEF lev, b
  <2>5. t.node[a] = [obj |-> t.node[a].obj, score |-> t.node[a].score,
                     backward |-> t.node[a].backward, level |-> t.node[a].level] /\ t.node[a].level = lev
        /\ t.node[a].obj \in Nat /\ t.node[a].score \in Int
    BY <2>1, <2>4
  <2>. QED BY <2>3, <2>5 DEF IsNode
<1>7. ASSUME NEW i \in t.level + 1 .. MaxLevel PROVE t.node[header].level[i].forward = nullptr
  <2>1. i \in 1 .. MaxLevel /\ i \in sl.level + 1 .. MaxLevel /\ i > t.level
    BY <1>1, <1>2
  <2> DEFINE lev == [j \in DOMAIN sl.node[header].level |->
                       IF j > t.level \/ u[j] # header THEN sl.node[header].level[j]
                       ELSE IF j <= lv THEN Link(n, (k - pos[u[j]]) + 1)
                       ELSE Link(sl.node[header].level[j].forward, sl.node[header].level[j].span + 1)]
             b == IF header = LinkAt(sl, u[1], 1).forward THEN n ELSE sl.node[header].backward
  <2>2. t.node[header] = [obj |-> sl.node[header].obj, score |-> sl.node[header].score, backward |-> b, level |-> lev]
    BY <1>2 DEF Linked
  <2>3. lev[i] = sl.node[header].level[i]
    BY <1>2, <2>1
  <2>. HIDE DEF lev, b
  <2>. QED BY <1>2, <2>1, <2>2, <2>3
<1>8. \A a \in Nodes(t) : t.node[a].obj # NoObj /\ DOMAIN t.node[a].level \subseteq 1 .. t.level
  <2>1. DOMAIN t.node[n].level \subseteq 1 .. t.level /\ t.node[n].obj # NoObj
    BY <1>1, <1>2
  <2>2. ASSUME NEW a \in Nodes(sl) PROVE t.node[a].obj # NoObj /\ DOMAIN t.node[a].level \subseteq 1 .. t.level
    <3>1. 1 .. sl.level \subseteq 1 .. t.level
      BY <1>1, <1>2
    <3>. QED BY <1>1, <1>2, <3>1 DEF Nodes
  <2>. QED BY <1>1, <2>1, <2>2
<1>9. /\ header \in DOMAIN t.node /\ Nodes(t) \subseteq Address /\ t.length \in Nat
      /\ t.node[header].obj = NoObj /\ DOMAIN t.node[header].level = 1 .. MaxLevel
  BY <1>1, <1>2
<1>. QED BY <1>1, <1>3, <1>5, <1>6, <1>7, <1>8, <1>9 DEF Shape

LEMMA InsertOrders ==
  ASSUME NEW sl, NEW pos, NEW k, NEW u, NEW n, NEW lv, NEW t, Inserted(sl, pos, k, u, n, lv, t),
         InOrder(sl, pos), t.node[n].obj \in Nat, t.node[n].score \in Int,
         \A a \in Nodes(sl) : Precedes(sl, a, t.node[n].score, t.node[n].obj) <=> pos[a] <= k
  PROVE  InOrder(t, PosWith(sl, pos, k, n))
<1>. /\ Shape(sl) /\ Numbered(sl, pos) /\ n \in Address /\ n \notin DOMAIN sl.node
     /\ k \in 0 .. sl.length
  BY DEF Inserted
<1>1. PICK q : q = PosWith(sl, pos, k, n)
  OBVIOUS
<1>2. /\ q[n] = k + 1 /\ k \in Nat
      /\ \A a \in DOMAIN sl.node : q[a] = Moved(pos[a], k) /\ pos[a] \in Nat
  BY <1>1, PosWithIs DEF Shape
<1>3. /\ Nodes(t) = Nodes(sl) \cup {n}
      /\ \A a \in DOMAIN sl.node : t.node[a].obj = sl.node[a].obj /\ t.node[a].score = sl.node[a].score
  BY LinkedNodes
<1>4. \A a \in Nodes(sl) : a \in DOMAIN sl.node /\ sl.node[a].obj \in Nat /\ sl.node[a].score \in Int
  BY DEF Shape, IsNode, Nodes
<1>5. ASSUME NEW a \in Nodes(t), NEW b \in Nodes(t), q[a] < q[b]
      PROVE  ~Precedes(t, b, t.node[a].score, t.node[a].obj)
  <2>1. CASE a = n /\ b = n
    BY <1>2, <1>5, <2>1
  <2>2. CASE a = n /\ b # n
    <3>1. b \in Nodes(sl) /\ pos[b] > k
      BY <1>2, <1>3, <1>4, <1>5, <2>2 DEF Moved
    <3>2. ~Precedes(sl, b, t.node[n].score, t.node[n].obj)
      BY <1>2, <1>4, <3>1
    <3>. QED BY <1>3, <1>4, <2>2, <3>1, <3>2 DEF Precedes
  <2>3. CASE a # n /\ b = n
    <3>1. a \in Nodes(sl) /\ pos[a] <= k
      BY <1>2, <1>3, <1>4, <1>5, <2>3 DEF Moved
    <3>2. Precedes(sl, a, t.node[n].score, t.node[n].obj)
      BY <3>1
    <3>. QED BY <1>3, <1>4, <2>3, <3>1, <3>2 DEF Precedes
  <2>4. CASE a # n /\ b # n
    <3>1. a \in Nodes(sl) /\ b \in Nodes(sl) /\ pos[a] < pos[b]
      BY <1>2, <1>3, <1>4, <1>5, <2>4 DEF Moved
    <3>2. ~Precedes(sl, b, sl.node[a].score, sl.node[a].obj)
      BY <3>1 DEF InOrder
    <3>. QED BY <1>3, <1>4, <3>1, <3>2 DEF Precedes
  <2>. QED BY <2>1, <2>2, <2>3, <2>4
<1>. QED BY <1>1, <1>5 DEF InOrder

(* Every node is on the lowest level, so a link of it leads to the next    *)
(* place.                                                                  *)
LEMMA OnLowest ==
  ASSUME NEW sl, Shape(sl)
  PROVE  OnLevel(sl, 1) = DOMAIN sl.node
<1>1. ASSUME NEW a \in DOMAIN sl.node PROVE a \in OnLevel(sl, 1)
  <2>1. PICK h \in 1 .. MaxLevel : a \in OnLevel(sl, 1) <=> 1 \in 1 .. h
    BY LevelsOf
  <2>2. 1 \in 1 .. h
    BY <2>1, LevelAssumption
  <2>. QED BY <2>1, <2>2
<1>. QED BY <1>1 DEF OnLevel

LEMMA LowestLink ==
  ASSUME NEW sl, NEW pos, Shape(sl), Numbered(sl, pos), NEW a \in DOMAIN sl.node, NEW f, NextOn(sl, pos, 1, a, f)
  PROVE  /\ f = nullptr => pos[a] = sl.length
         /\ f # nullptr => f \in Nodes(sl) /\ pos[f] = pos[a] + 1
<1>1. /\ OnLevel(sl, 1) = DOMAIN sl.node /\ sl.length \in Nat
      /\ \A b \in DOMAIN sl.node : pos[b] \in Nat /\ pos[b] <= sl.length
  BY OnLowest, PlacesAreNumbers DEF Shape
<1>2. ASSUME pos[a] < sl.length PROVE f # nullptr /\ pos[f] <= pos[a] + 1
  <2>1. PICK b \in DOMAIN sl.node : pos[b] = pos[a] + 1
    <3>1. pos[a] + 1 \in 0 .. sl.length
      BY <1>1, <1>2
    <3>. QED BY <3>1 DEF Numbered
  <2>. QED BY <1>1, <2>1 DEF NextOn
<1>3. ASSUME f # nullptr PROVE f \in Nodes(sl) /\ pos[f] = pos[a] + 1
  <2>1. f \in DOMAIN sl.node /\ pos[a] < pos[f]
    BY <1>1, <1>3 DEF NextOn
  <2>2. pos[a] < sl.length
    BY <1>1, <2>1
  <2>3. f # header
    BY <1>1, <2>1 DEF Numbered
  <2>. QED BY <1>1, <1>2, <2>1, <2>2, <2>3 DEF Nodes
<1>. QED BY <1>1, <1>2, <1>3

LEMMA InsertMirrors ==
  ASSUME NEW sl, NEW pos, NEW k, NEW u, NEW n, NEW lv, NEW t, Inserted(sl, pos, k, u, n, lv, t),
         Mirrored(sl, pos), pos[u[1]] = k
  PROVE  Mirrored(t, PosWith(sl, pos, k, n))
<1>. /\ Shape(sl) /\ Numbered(sl, pos) /\ Chained(sl, pos)
     /\ k \in 0 .. sl.length /\ IsUpdate(sl, pos, k, u)
     /\ n \in Address /\ n \notin DOMAIN sl.node /\ lv \in 1 .. MaxLevel
     /\ Linked(sl, pos, k, u, n, lv, t)
  BY DEF Inserted
<1>1. PICK q : q = PosWith(sl, pos, k, n)
  OBVIOUS
<1>2. /\ q[n] = k + 1 /\ k \in Nat /\ sl.length \in Nat
      /\ \A a \in DOMAIN sl.node : q[a] = Moved(pos[a], k) /\ pos[a] \in Nat
  BY <1>1, PosWithIs DEF Shape
<1>3. /\ Nodes(t) = Nodes(sl) \cup {n} /\ t.length = sl.length + 1
  BY LinkedNodes
<1>4. PICK f : f = LinkAt(sl, u[1], 1).forward
  OBVIOUS
<1>5. u[1] \in DOMAIN sl.node /\ (u[1] = header <=> k = 0)
  <2>1. 1 \in 1 .. MaxLevel /\ 1 <= sl.level
    BY LevelAssumption DEF Shape
  <2>2. u[1] \in DOMAIN sl.node
    BY <2>1 DEF IsUpdate, LastOn, OnLevel
  <2>. QED BY <2>2, PlacesAreNumbers
<1>6. /\ f = nullptr => k = sl.length
      /\ f # nullptr => f \in Nodes(sl) /\ pos[f] = k + 1
  <2>1. u[1] \in OnLevel(sl, 1) /\ 1 \in 1 .. MaxLevel
    BY <1>5, OnLowest, LevelAssumption
  <2>2. NextOn(sl, pos, 1, u[1], f)
    BY <1>4, <2>1, LinksLead
  <2>. QED BY <1>5, <2>2, LowestLink
<1>7. \A a \in Nodes(sl) : a \in DOMAIN sl.node /\ pos[a] \in Nat /\ pos[a] <= sl.length /\ pos[a] # 0
  BY PlacesAreNumbers DEF Nodes
<1>8. \/ q[n] = 1 /\ t.node[n].backward = nullptr
      \/ t.node[n].backward \in Nodes(t) /\ q[t.node[n].backward] = q[n] - 1
  <2>1. t.node[n].backward = IF u[1] = header THEN nullptr ELSE u[1]
    <3> DEFINE lev == [i \in 1 .. lv |-> Link(LinkAt(sl, u[i], i).forward,
                                              LinkAt(sl, u[i], i).span - (k - pos[u[i]]))]
    <3>1. t.node[n] = [obj |-> t.node[n].obj, score |-> t.node[n].score,
                       backward |-> IF u[1] = header THEN nullptr ELSE u[1], level |-> lev]
      BY DEF Linked
    <3>. HIDE DEF lev
    <3>. QED BY <3>1
  <2>2. CASE k = 0
    BY <1>2, <1>5, <2>1, <2>2
  <2>3. CASE k # 0
    <3>1. t.node[n].backward = u[1] /\ u[1] \in Nodes(t)
      BY <1>3, <1>5, <2>1, <2>3 DEF Nodes
    <3>2. q[u[1]] = k
      BY <1>2, <1>5 DEF Moved
    <3>. QED BY <1>2, <3>1, <3>2
  <2>. QED BY <2>2, <2>3
<1>9. ASSUME NEW a \in Nodes(sl)
      PROVE  \/ q[a] = 1 /\ t.node[a].backward = nullptr
             \/ t.node[a].backward \in Nodes(t) /\ q[t.node[a].backward] = q[a] - 1
  <2>1. t.node[a].backward = IF a = f THEN n ELSE sl.node[a].backward
    <3> DEFINE lev == [i \in DOMAIN sl.node[a].level |->
                         IF i > t.level \/ u[i] # a THEN sl.node[a].level[i]
                         ELSE IF i <= lv THEN Link(n, (k - pos[u[i]]) + 1)
                         ELSE Link(sl.node[a].level[i].forward, sl.node[a].level[i].span + 1)]
    <3>1. t.node[a] = [obj |-> sl.node[a].obj, score |-> sl.node[a].score,
                       backward |-> IF a = f THEN n ELSE sl.node[a].backward, level |-> lev]
      BY <1>4, <1>7 DEF Linked
    <3>. HIDE DEF lev
    <3>. QED BY <3>1
  <2>2. CASE a = f
    <3>1. a # nullptr
      BY <1>7, PlacesAreNumbers
    <3>2. pos[a] = k + 1 /\ t.node[a].backward = n
      BY <1>6, <2>1, <2>2, <3>1
    <3>3. q[a] = k + 2
      BY <1>2, <1>7, <3>2 DEF Moved
    <3>. QED BY <1>2, <1>3, <3>2, <3>3
  <2>3. CASE a # f
    <3>1. pos[a] # k + 1
      <4>1. ASSUME pos[a] = k + 1 PROVE FALSE
        <5>1. f # nullptr
          BY <1>2, <1>6, <1>7, <4>1
        <5>2. f \in DOMAIN sl.node /\ pos[f] = pos[a]
          BY <1>6, <1>7, <4>1, <5>1
        <5>. QED BY <1>7, <2>3, <5>2 DEF Numbered
      <4>. QED BY <4>1
    <3>2. CASE pos[a] = 1 /\ sl.node[a].backward = nullptr
      BY <1>2, <1>7, <2>1, <2>3, <3>1, <3>2 DEF Moved
    <3>3. CASE sl.node[a].backward \in Nodes(sl) /\ pos[sl.node[a].backward] = pos[a] - 1
      <4>1. q[sl.node[a].backward] = q[a] - 1
        BY <1>2, <1>7, <3>1, <3>3 DEF Moved
      <4>. QED BY <1>3, <2>1, <2>3, <3>3, <4>1
    <3>. QED BY <3>2, <3>3 DEF Mirrored
  <2>. QED BY <2>2, <2>3
<1>10. t.tail \in Nodes(t) /\ q[t.tail] = t.length
  <2>1. t.tail = IF f = nullptr THEN n ELSE sl.tail
    BY <1>4 DEF Linked
  <2>2. CASE f = nullptr
    BY <1>2, <1>3, <1>6, <2>1, <2>2
  <2>3. CASE f # nullptr
    <3>1. sl.tail \in Nodes(sl) /\ pos[sl.tail] = sl.length /\ sl.length > k
      BY <1>2, <1>6, <1>7, <2>3 DEF Mirrored
    <3>. QED BY <1>2, <1>3, <1>7, <2>1, <2>3, <3>1 DEF Moved
  <2>. QED BY <2>2, <2>3
<1>. QED BY <1>1, <1>3, <1>8, <1>9, <1>10 DEF Mirrored

(* slInsert puts a node into an ordered list at the one place it belongs.  *)
LEMMA InsertKeepsOrder ==
  ASSUME NEW sl, NEW pos, Ordered(sl, pos), NEW n \in Address, n \notin DOMAIN sl.node,
         NEW score \in Int, NEW member \in Nat \ {NoObj}, NEW lv \in 1 .. MaxLevel,
         NEW t, t = slInsert(sl, n, score, member, lv)
  PROVE  /\ \E q : Ordered(t, q)
         /\ Nodes(t) = Nodes(sl) \cup {n}
         /\ t.node[n].obj = member /\ t.node[n].score = score
         /\ \A a \in Nodes(sl) : t.node[a].obj = sl.node[a].obj /\ t.node[a].score = sl.node[a].score
<1>. Shape(sl) /\ Numbered(sl, pos) /\ InOrder(sl, pos) /\ Chained(sl, pos) /\ Mirrored(sl, pos)
  BY DEF Ordered
<1>1. PICK S : S = Before(sl, score, member)
  OBVIOUS
<1>2. PICK k \in 0 .. sl.length : PassesTo(sl, pos, S, Int, k)
  BY <1>1, BeforeIs
<1>3. /\ k \in Nat /\ sl.level \in 1 .. MaxLevel /\ MaxLevel \in Nat /\ sl.length \in Nat
      /\ \A a \in Nodes(sl) : a \in DOMAIN sl.node /\ pos[a] \in Nat /\ pos[a] \in Int
  BY LevelAssumption, PlacesAreNumbers DEF Shape, Nodes
<1>4. PICK path : path = Descent(sl, S, Int)
  OBVIOUS
<1>5. \A i \in 1 .. sl.level : \E b : LastOn(sl, pos, i, k, b) /\ path[i] = Point(b, pos[b])
  BY <1>2, <1>3, <1>4, DescentIs
<1> DEFINE w == [i \in 1 .. MaxLevel |-> IF i <= sl.level THEN path[i].at ELSE header]
<1>6. PICK u : u = w
  OBVIOUS
<1>7. \A i \in 1 .. MaxLevel : u[i] = IF i <= sl.level THEN path[i].at ELSE header
  BY <1>6
<1>8. ASSUME NEW i \in 1 .. sl.level PROVE LastOn(sl, pos, i, k, u[i]) /\ path[i] = Point(u[i], pos[u[i]])
  <2>1. PICK b : LastOn(sl, pos, i, k, b) /\ path[i] = Point(b, pos[b])
    BY <1>5
  <2>2. u[i] = b
    BY <1>3, <1>7, <2>1, PointIs
  <2>. QED BY <2>1, <2>2
<1>9. IsUpdate(sl, pos, k, u)
  BY <1>3, <1>7, <1>8 DEF IsUpdate
<1>10. pos[u[1]] = k
  <2>1. LastOn(sl, pos, 1, k, u[1])
    BY <1>3, <1>8
  <2>2. PICK a \in DOMAIN sl.node : pos[a] = k
    BY <1>2 DEF Numbered
  <2>3. a \in OnLevel(sl, 1) /\ u[1] \in DOMAIN sl.node
    BY <2>1, OnLowest DEF LastOn
  <2>4. pos[u[1]] \in Nat
    BY <2>3, PlacesAreNumbers
  <2>. QED BY <1>3, <2>1, <2>2, <2>3, <2>4 DEF LastOn
<1>11. t = Onto(sl, path, n, score, member, lv)
  BY <1>1, <1>4, slInsertIs DEF Descend
<1>12. Linked(sl, pos, k, u, n, lv, t) /\ t.node[n].obj = member /\ t.node[n].score = score
  BY <1>3, <1>8, <1>9, <1>10, <1>11, OntoIsLinked
<1>13. Inserted(sl, pos, k, u, n, lv, t)
  BY <1>9, <1>12 DEF Inserted
<1>14. \A a \in Nodes(sl) : Precedes(sl, a, t.node[n].score, t.node[n].obj) <=> pos[a] <= k
  BY <1>1, <1>2, <1>3, <1>12 DEF PassesTo, Before
<1>15. Shape(t)
  BY <1>12, <1>13, InsertShapes
<1>16. Numbered(t, PosWith(sl, pos, k, n))
  <2>1. DOMAIN t.node = DOMAIN sl.node \cup {n} /\ t.length = sl.length + 1
    BY <1>12 DEF Linked
  <2>. QED BY <2>1, InsertNumbers
<1>17. InOrder(t, PosWith(sl, pos, k, n))
  <2>1. t.node[n].obj \in Nat /\ t.node[n].score \in Int
    BY <1>12
  <2>. QED BY <1>13, <1>14, <2>1, InsertOrders
<1>18. Chained(t, PosWith(sl, pos, k, n))
  BY <1>13, InsertChains
<1>19. Mirrored(t, PosWith(sl, pos, k, n))
  BY <1>10, <1>13, InsertMirrors
<1>20. Ordered(t, PosWith(sl, pos, k, n))
  BY <1>15, <1>16, <1>17, <1>18, <1>19 DEF Ordered
<1>21. Nodes(t) = Nodes(sl) \cup {n} /\ \A a \in Nodes(sl) : t.node[a].obj = sl.node[a].obj /\ t.node[a].score = sl.node[a].score
  BY <1>3, <1>13, LinkedNodes
<1>. QED BY <1>12, <1>20, <1>21

-----------------------------------------------------------------------------
(* Deletion. *)

LEMMA MaxOfSet ==
  ASSUME NEW S \in SUBSET Nat, S # {}, NEW m \in Nat, \A x \in S : x <= m
  PROVE  Max(S) \in S /\ \A x \in S : x <= Max(S)
<1>1. \E x \in S : \A y \in S : x >= y
  <2>1. PICK x \in S : \A y \in S : y <= x
    BY GreatestNat
  <2>. QED BY <2>1
<1>. QED BY <1>1 DEF Max

(* The list without x, u[i] being the last node in front of it on level i. *)
Cut(sl, u, x, t) ==
  /\ DOMAIN t.node = DOMAIN sl.node \ {x}
  /\ t = [node |-> t.node, level |-> t.level, length |-> sl.length - 1, tail |-> t.tail]
  /\ t.node = [a \in DOMAIN t.node |-> t.node[a]]
  /\ t.level = Max({1} \cup {i \in 1 .. sl.level : t.node[header].level[i].forward # nullptr})
  /\ t.tail = IF Follow(sl, x) = nullptr THEN sl.node[x].backward ELSE sl.tail
  /\ \A a \in DOMAIN t.node :
       t.node[a] = [obj |-> sl.node[a].obj, score |-> sl.node[a].score, backward |-> Back(sl, x, a),
                    level |-> [i \in DOMAIN sl.node[a].level |->
                                 IF i <= sl.level /\ u[i] = a THEN Unlinked(sl, x, sl.node[a].level[i], i)
                                 ELSE sl.node[a].level[i]]]

CutOut(sl, pos, k, u, x, t) ==
  /\ Ordered(sl, pos) /\ k \in Nat /\ x \in Nodes(sl) /\ pos[x] = k + 1
  /\ \A i \in 1 .. sl.level : LastOn(sl, pos, i, k, u[i])
  /\ Cut(sl, u, x, t)

Closed(p, k)          == IF p <= k THEN p ELSE p - 1
PosWithout(sl, pos, k, x) == [a \in DOMAIN sl.node \ {x} |-> Closed(pos[a], k)]

LEMMA DeleteIsCut ==
  ASSUME NEW sl, Shape(sl), NEW x, NEW path, NEW u, NEW r, \A i \in 1 .. sl.level : path[i] = Point(u[i], r[i]),
         NEW t, t = slDeleteNode(sl, x, path)
  PROVE  Cut(sl, u, x, t)
<1> DEFINE lev(a) == [i \in DOMAIN sl.node[a].level |->
                        IF i <= sl.level /\ u[i] = a THEN Unlinked(sl, x, sl.node[a].level[i], i)
                        ELSE sl.node[a].level[i]]
           levp(a) == [i \in DOMAIN sl.node[a].level |->
                        IF i <= sl.level /\ path[i].at = a THEN Unlinked(sl, x, sl.node[a].level[i], i)
                        ELSE sl.node[a].level[i]]
           node == [a \in DOMAIN sl.node \ {x} |-> Rewired(sl.node[a], Back(sl, x, a), levp(a))]
           lvl  == Max({1} \cup {i \in 1 .. sl.level : node[header].level[i].forward # nullptr})
           tail == IF Follow(sl, x) = nullptr THEN sl.node[x].backward ELSE sl.tail
<1>1. t = [node |-> node, level |-> lvl, length |-> sl.length - 1, tail |-> tail]
  BY DEF slDeleteNode
<1>2. t.node = node /\ t.level = lvl /\ t.length = sl.length - 1 /\ t.tail = tail
  <2>. HIDE DEF node, lvl, tail
  <2>. QED BY <1>1
<1>3. t.level = Max({1} \cup {i \in 1 .. sl.level : t.node[header].level[i].forward # nullptr})
  <2>. HIDE DEF node
  <2>. QED BY <1>2
<1>4. ASSUME NEW a \in DOMAIN sl.node \ {x} PROVE levp(a) = lev(a)
  <2>1. ASSUME NEW i \in DOMAIN sl.node[a].level, i <= sl.level PROVE path[i].at = u[i]
    <3>1. PICK h \in 1 .. MaxLevel : IsLevel(sl.node[a].level, h)
      BY LevelsOf
    <3>2. i \in 1 .. sl.level
      BY <2>1, <3>1, LevelAssumption DEF IsLevel, Shape
    <3>3. path[i] = Point(u[i], r[i])
      BY <3>2
    <3>. QED BY <3>3, PointIs
  <2>. QED BY <2>1
<1>5. ASSUME NEW a \in DOMAIN sl.node \ {x}
      PROVE  t.node[a] = [obj |-> sl.node[a].obj, score |-> sl.node[a].score, backward |-> Back(sl, x, a),
                          level |-> lev(a)]
  <2>1. t.node[a] = Rewired(sl.node[a], Back(sl, x, a), levp(a))
    <3>. HIDE DEF levp
    <3>. QED BY <1>2
  <2>. HIDE DEF levp, lev
  <2>. QED BY <1>4, <2>1 DEF Rewired
<1>6. DOMAIN t.node = DOMAIN sl.node \ {x} /\ t.node = [a \in DOMAIN t.node |-> t.node[a]]
  BY <1>2
<1>7. t = [node |-> t.node, level |-> t.level, length |-> sl.length - 1, tail |-> t.tail]
  <2>. HIDE DEF node, lvl, tail
  <2>. QED BY <1>1
<1>. QED BY <1>2, <1>3, <1>5, <1>6, <1>7 DEF Cut

(* What is left in the list. *)
LEMMA CutNodes ==
  ASSUME NEW sl, NEW pos, NEW k, NEW u, NEW x, NEW t, CutOut(sl, pos, k, u, x, t)
  PROVE  /\ Nodes(t) = Nodes(sl) \ {x} /\ header \in DOMAIN t.node /\ t.length = sl.length - 1
         /\ DOMAIN t.node = DOMAIN sl.node \ {x}
         /\ \A a \in DOMAIN t.node : /\ a \in DOMAIN sl.node /\ t.node[a].obj = sl.node[a].obj
                                     /\ t.node[a].score = sl.node[a].score
                                     /\ t.node[a].backward = Back(sl, x, a)
                                     /\ DOMAIN t.node[a].level = DOMAIN sl.node[a].level
         /\ \A i : OnLevel(t, i) = OnLevel(sl, i) \ {x}
         /\ \A a \in DOMAIN t.node : \A i \in DOMAIN sl.node[a].level :
              t.node[a].level[i] = IF i <= sl.level /\ u[i] = a THEN Unlinked(sl, x, sl.node[a].level[i], i)
                                   ELSE sl.node[a].level[i]
<1>1. Cut(sl, u, x, t) /\ Shape(sl) /\ x \in Nodes(sl)
  BY DEF CutOut, Ordered
<1>2. ASSUME NEW a \in DOMAIN t.node
      PROVE  /\ a \in DOMAIN sl.node /\ t.node[a].obj = sl.node[a].obj
             /\ t.node[a].score = sl.node[a].score /\ t.node[a].backward = Back(sl, x, a)
             /\ DOMAIN t.node[a].level = DOMAIN sl.node[a].level
             /\ \A i \in DOMAIN sl.node[a].level :
                  t.node[a].level[i] = IF i <= sl.level /\ u[i] = a THEN Unlinked(sl, x, sl.node[a].level[i], i)
                                       ELSE sl.node[a].level[i]
  <2> DEFINE lev == [i \in DOMAIN sl.node[a].level |->
                        IF i <= sl.level /\ u[i] = a THEN Unlinked(sl, x, sl.node[a].level[i], i)
                        ELSE sl.node[a].level[i]]
  <2>1. t.node[a] = [obj |-> sl.node[a].obj, score |-> sl.node[a].score, backward |-> Back(sl, x, a), level |-> lev]
    BY <1>1 DEF Cut
  <2>2. /\ DOMAIN lev = DOMAIN sl.node[a].level
        /\ \A i \in DOMAIN sl.node[a].level :
             lev[i] = IF i <= sl.level /\ u[i] = a THEN Unlinked(sl, x, sl.node[a].level[i], i)
                      ELSE sl.node[a].level[i]
    OBVIOUS
  <2>3. a \in DOMAIN sl.node
    BY <1>1 DEF Cut
  <2>. HIDE DEF lev
  <2>. QED BY <2>1, <2>2, <2>3
<1>3. DOMAIN t.node = DOMAIN sl.node \ {x} /\ t.length = sl.length - 1
  BY <1>1 DEF Cut
<1>4. header \in DOMAIN t.node /\ Nodes(t) = Nodes(sl) \ {x}
  BY <1>1, <1>3 DEF Shape, Nodes
<1>5. \A i : OnLevel(t, i) = OnLevel(sl, i) \ {x}
  BY <1>2, <1>3 DEF OnLevel
<1>. QED BY <1>2, <1>3, <1>4, <1>5

(* The link of a on level i once x is gone. *)
LEMMA CutLinks ==
  ASSUME NEW sl, NEW pos, NEW k, NEW u, NEW x, NEW t, CutOut(sl, pos, k, u, x, t),
         NEW i \in 1 .. sl.level, NEW a \in OnLevel(t, i), NEW l, l = sl.node[a].level[i]
  PROVE  /\ a \in OnLevel(sl, i) /\ a # x
         /\ u[i] # a => t.node[a].level[i] = l
         /\ u[i] = a /\ l.forward # x =>
              t.node[a].level[i].forward = l.forward /\ t.node[a].level[i].span = l.span - 1
         /\ u[i] = a /\ l.forward = x =>
              /\ t.node[a].level[i].forward = sl.node[x].level[i].forward
              /\ t.node[a].level[i].span = l.span + sl.node[x].level[i].span - 1
<1>1. a \in OnLevel(sl, i) /\ a # x
  BY CutNodes
<1>2. a \in DOMAIN t.node /\ i \in DOMAIN sl.node[a].level
  BY <1>1, CutNodes DEF OnLevel
<1>3. t.node[a].level[i] = IF u[i] = a THEN Unlinked(sl, x, l, i) ELSE l
  BY <1>2, CutNodes
<1>. QED BY <1>1, <1>3 DEF Unlinked, Link

LEMMA CutPositions ==
  ASSUME NEW sl, NEW pos, NEW k, NEW u, NEW x, NEW t, CutOut(sl, pos, k, u, x, t),
         NEW q, q = PosWithout(sl, pos, k, x)
  PROVE  /\ k \in Nat /\ sl.length \in Nat /\ k < sl.length
         /\ x # header /\ x \in DOMAIN sl.node /\ pos[x] = k + 1
         /\ \A a \in DOMAIN t.node : /\ a \in DOMAIN sl.node /\ a # x /\ pos[a] \in Nat /\ pos[a] # k + 1
                                     /\ pos[a] <= sl.length /\ q[a] = Closed(pos[a], k)
<1>1. Shape(sl) /\ Numbered(sl, pos) /\ k \in Nat /\ x \in Nodes(sl) /\ pos[x] = k + 1
  BY DEF CutOut, Ordered
<1>2. x \in DOMAIN sl.node /\ x # header
  BY <1>1 DEF Nodes
<1>3. \A a \in DOMAIN sl.node : pos[a] \in Nat /\ pos[a] <= sl.length
  BY <1>1, PlacesAreNumbers
<1>4. sl.length \in Nat
  BY <1>1 DEF Shape
<1>5. DOMAIN t.node = DOMAIN sl.node \ {x}
  BY CutNodes
<1>6. ASSUME NEW a \in DOMAIN t.node PROVE pos[a] # k + 1
  BY <1>1, <1>2, <1>5 DEF Numbered
<1>. QED BY <1>1, <1>2, <1>3, <1>4, <1>5, <1>6 DEF PosWithout

LEMMA CutNumbers ==
  ASSUME NEW sl, NEW pos, NEW k, NEW u, NEW x, NEW t, CutOut(sl, pos, k, u, x, t)
  PROVE  Numbered(t, PosWithout(sl, pos, k, x))
<1>1. PICK q : q = PosWithout(sl, pos, k, x)
  OBVIOUS
<1>2. /\ k \in Nat /\ sl.length \in Nat /\ k < sl.length
      /\ x # header /\ x \in DOMAIN sl.node /\ pos[x] = k + 1
      /\ \A a \in DOMAIN t.node : /\ a \in DOMAIN sl.node /\ a # x /\ pos[a] \in Nat /\ pos[a] # k + 1
                                  /\ pos[a] <= sl.length /\ q[a] = Closed(pos[a], k)
  BY <1>1, CutPositions
<1>3. DOMAIN t.node = DOMAIN sl.node \ {x} /\ t.length = sl.length - 1 /\ header \in DOMAIN t.node
  BY CutNodes
<1>4. Numbered(sl, pos)
  BY DEF CutOut, Ordered
<1>5. q \in [DOMAIN t.node -> 0 .. t.length]
  <2>1. \A a \in DOMAIN t.node : q[a] \in 0 .. t.length
    BY <1>2, <1>3 DEF Closed
  <2>. QED BY <1>1, <1>3, <2>1 DEF PosWithout
<1>6. q[header] = 0
  BY <1>2, <1>3, <1>4 DEF Closed, Numbered
<1>7. ASSUME NEW a \in DOMAIN t.node, NEW b \in DOMAIN t.node, q[a] = q[b] PROVE a = b
  <2>1. pos[a] = pos[b]
    BY <1>2, <1>7 DEF Closed
  <2>. QED BY <1>2, <1>4, <2>1 DEF Numbered
<1>8. ASSUME NEW p \in 0 .. t.length PROVE \E a \in DOMAIN t.node : q[a] = p
  <2>1. CASE p <= k
    <3>1. PICK a \in DOMAIN sl.node : pos[a] = p
      BY <1>2, <2>1, <1>4 DEF Numbered
    <3>. QED BY <1>2, <1>3, <2>1, <3>1 DEF Closed
  <2>2. CASE p > k
    <3>1. PICK a \in DOMAIN sl.node : pos[a] = p + 1
      <4>1. p + 1 \in 0 .. sl.length
        BY <1>2, <1>3, <2>2
      <4>. QED BY <1>4, <4>1 DEF Numbered
    <3>. QED BY <1>2, <1>3, <2>2, <3>1 DEF Closed
  <2>. QED BY <1>2, <2>1, <2>2
<1>. QED BY <1>1, <1>5, <1>6, <1>7, <1>8 DEF Numbered

LEMMA CutOrders ==
  ASSUME NEW sl, NEW pos, NEW k, NEW u, NEW x, NEW t, CutOut(sl, pos, k, u, x, t)
  PROVE  InOrder(t, PosWithout(sl, pos, k, x))
<1>1. PICK q : q = PosWithout(sl, pos, k, x)
  OBVIOUS
<1>2. /\ k \in Nat
      /\ \A a \in DOMAIN t.node : pos[a] \in Nat /\ pos[a] # k + 1 /\ q[a] = Closed(pos[a], k)
  BY <1>1, CutPositions
<1>3. ASSUME NEW a \in Nodes(t), NEW b \in Nodes(t), q[a] < q[b]
      PROVE  ~Precedes(t, b, t.node[a].score, t.node[a].obj)
  <2>1. a \in Nodes(sl) /\ b \in Nodes(sl) /\ a \in DOMAIN t.node /\ b \in DOMAIN t.node
    BY CutNodes DEF Nodes
  <2>2. pos[a] < pos[b]
    BY <1>2, <1>3, <2>1 DEF Closed
  <2>3. ~Precedes(sl, b, sl.node[a].score, sl.node[a].obj)
    BY <2>1, <2>2 DEF CutOut, Ordered, InOrder
  <2>4. /\ t.node[a].obj = sl.node[a].obj /\ t.node[a].score = sl.node[a].score
        /\ t.node[b].obj = sl.node[b].obj /\ t.node[b].score = sl.node[b].score
    BY <2>1, CutNodes
  <2>. QED BY <2>3, <2>4 DEF Precedes
<1>. QED BY <1>1, <1>3 DEF InOrder

(* On every level that was in use a link leads to the next node still.     *)
LEMMA CutLinksLead ==
  ASSUME NEW sl, NEW pos, NEW k, NEW u, NEW x, NEW t, CutOut(sl, pos, k, u, x, t),
         NEW q, q = PosWithout(sl, pos, k, x), NEW i \in 1 .. sl.level, NEW a \in OnLevel(t, i)
  PROVE  /\ NextOn(t, q, i, a, t.node[a].level[i].forward)
         /\ t.node[a].level[i].span = PosOf(t, q, t.node[a].level[i].forward) - q[a]
<1>1. /\ k \in Nat /\ sl.length \in Nat /\ k < sl.length
      /\ x # header /\ x \in DOMAIN sl.node /\ pos[x] = k + 1
      /\ \A b \in DOMAIN t.node : /\ b \in DOMAIN sl.node /\ b # x /\ pos[b] \in Nat /\ pos[b] # k + 1
                                  /\ pos[b] <= sl.length /\ q[b] = Closed(pos[b], k)
  BY CutPositions
<1>2. /\ OnLevel(t, i) = OnLevel(sl, i) \ {x} /\ t.length = sl.length - 1
      /\ \A b \in OnLevel(sl, i) : b # x => b \in DOMAIN t.node
  BY CutNodes DEF OnLevel
<1>3. a \in DOMAIN t.node /\ a \in OnLevel(sl, i) /\ a # x
  BY <1>2
<1>4. PICK l : l = sl.node[a].level[i]
  OBVIOUS
<1>5. PICK f : f = l.forward
  OBVIOUS
<1>6. Chained(sl, pos) /\ LastOn(sl, pos, i, k, u[i]) /\ Numbered(sl, pos) /\ Shape(sl)
  BY DEF CutOut, Ordered
<1>7. NextOn(sl, pos, i, a, f) /\ l.span = PosOf(sl, pos, f) - pos[a]
  BY <1>3, <1>4, <1>5, <1>6 DEF Chained
<1>8. PICK v : v = u[i]
  OBVIOUS
<1>9. /\ v \in OnLevel(sl, i) /\ pos[v] <= k /\ v # x /\ v \in DOMAIN t.node
      /\ \A c \in OnLevel(sl, i) : pos[c] <= k => pos[c] <= pos[v]
  <2>1. v \in OnLevel(sl, i) /\ pos[v] <= k /\ \A c \in OnLevel(sl, i) : pos[c] <= k => pos[c] <= pos[v]
    BY <1>6, <1>8 DEF LastOn
  <2>2. v # x
    BY <1>1, <2>1
  <2>. QED BY <1>2, <2>1, <2>2
<1>10. f # nullptr => f \in OnLevel(sl, i) /\ pos[a] < pos[f]
  BY <1>7 DEF NextOn
<1>11. CASE u[i] # a
  <2>1. t.node[a].level[i] = l
    BY <1>4, <1>11, CutLinks
  <2>2. CASE pos[a] <= k
    <3>1. pos[a] < pos[v]
      <4>1. pos[a] <= pos[v] /\ pos[a] # pos[v]
        BY <1>1, <1>3, <1>6, <1>8, <1>9, <1>11, <2>2 DEF Numbered
      <4>. QED BY <1>1, <1>3, <1>9, <4>1
    <3>2. f # nullptr /\ pos[f] <= pos[v]
      BY <1>1, <1>3, <1>7, <1>9, <3>1 DEF NextOn
    <3>3. f \in OnLevel(sl, i) /\ f # x /\ pos[a] < pos[f]
      <4>1. f # x
        BY <1>1, <1>9, <3>2
      <4>. QED BY <1>10, <3>2, <4>1
    <3>4. f \in DOMAIN t.node /\ pos[f] <= k
      BY <1>1, <1>2, <1>9, <3>2, <3>3
    <3>5. NextOn(t, q, i, a, f)
      BY <1>1, <1>2, <1>3, <1>7, <2>2, <3>2, <3>3, <3>4 DEF NextOn, Closed
    <3>6. PosOf(sl, pos, f) - pos[a] = PosOf(t, q, f) - q[a]
      BY <1>1, <1>3, <2>2, <3>2, <3>4 DEF PosOf, Closed
    <3>. QED BY <1>5, <1>7, <2>1, <3>5, <3>6
  <2>3. CASE ~(pos[a] <= k)
    <3>1. f # nullptr => f \in DOMAIN t.node /\ f # x /\ pos[f] > k
      BY <1>1, <1>2, <1>3, <1>10, <2>3
    <3>2. NextOn(t, q, i, a, f)
      BY <1>1, <1>2, <1>3, <1>7, <1>10, <2>3, <3>1 DEF NextOn, Closed
    <3>3. PosOf(sl, pos, f) - pos[a] = PosOf(t, q, f) - q[a]
      BY <1>1, <1>2, <1>3, <1>10, <2>3, <3>1 DEF PosOf, Closed
    <3>. QED BY <1>5, <1>7, <2>1, <3>2, <3>3
  <2>. QED BY <2>2, <2>3
<1>12. CASE u[i] = a
  <2>0. a = v /\ pos[a] <= k
    BY <1>8, <1>9, <1>12
  <2>1. CASE f # x
    <3>1. t.node[a].level[i].forward = f /\ t.node[a].level[i].span = l.span - 1
      BY <1>4, <1>5, <1>12, <2>1, CutLinks
    <3>2. f # nullptr => f \in DOMAIN t.node /\ pos[f] > k
      <4>1. ASSUME f # nullptr PROVE f \in DOMAIN t.node /\ pos[f] > k
        <5>1. f \in DOMAIN t.node
          BY <1>2, <1>10, <2>1, <4>1
        <5>. QED BY <1>1, <1>3, <1>9, <1>10, <2>0, <4>1, <5>1
      <4>. QED BY <4>1
    <3>3. NextOn(t, q, i, a, f)
      BY <1>1, <1>2, <1>3, <1>7, <1>10, <2>0, <2>1, <3>2 DEF NextOn, Closed
    <3>4. l.span - 1 = PosOf(t, q, f) - q[a]
      BY <1>1, <1>2, <1>3, <1>7, <1>10, <2>0, <3>2 DEF PosOf, Closed
    <3>. QED BY <3>1, <3>3, <3>4
  <2>2. CASE f = x
    <3>1. PICK y : y = sl.node[x].level[i]
      OBVIOUS
    <3>2. PICK g : g = y.forward
      OBVIOUS
    <3>3. t.node[a].level[i].forward = g /\ t.node[a].level[i].span = l.span + y.span - 1
      <4>1. l = sl.node[a].level[i] /\ u[i] = a /\ l.forward = x
        BY <1>4, <1>5, <1>12, <2>2
      <4>2. /\ t.node[a].level[i].forward = sl.node[x].level[i].forward
            /\ t.node[a].level[i].span = l.span + sl.node[x].level[i].span - 1
        BY <4>1, CutLinks
      <4>. QED BY <3>1, <3>2, <4>2
    <3>4. x # nullptr /\ x \in OnLevel(sl, i)
      BY <1>1, <1>6, <1>10, <2>2, PlacesAreNumbers
    <3>5. NextOn(sl, pos, i, x, g) /\ y.span = PosOf(sl, pos, g) - pos[x]
      BY <1>6, <3>1, <3>2, <3>4 DEF Chained
    <3>6. g # nullptr => g \in OnLevel(sl, i) /\ g \in DOMAIN t.node /\ pos[g] > k + 1
      <4>1. ASSUME g # nullptr PROVE g \in OnLevel(sl, i) /\ g \in DOMAIN t.node /\ pos[g] > k + 1
        <5>1. g \in OnLevel(sl, i) /\ pos[x] < pos[g]
          BY <3>5, <4>1 DEF NextOn
        <5>2. g # x
          BY <1>1, <5>1
        <5>. QED BY <1>1, <1>2, <5>1, <5>2
      <4>. QED BY <4>1
    <3>7. ASSUME NEW b \in OnLevel(t, i)
          PROVE  q[b] <= q[a] \/ (g # nullptr /\ q[g] <= q[b])
      <4>1. b \in DOMAIN t.node /\ b \in OnLevel(sl, i)
        BY <1>2
      <4>2. CASE pos[b] <= k
        BY <1>1, <1>3, <1>9, <2>0, <4>1, <4>2 DEF Closed
      <4>3. CASE ~(pos[b] <= k)
        <5>1. g # nullptr /\ pos[g] <= pos[b]
          BY <1>1, <3>5, <4>1, <4>3 DEF NextOn
        <5>. QED BY <1>1, <3>6, <4>1, <4>3, <5>1 DEF Closed
      <4>. QED BY <4>2, <4>3
    <3>8. g # nullptr => g \in OnLevel(t, i) /\ q[a] < q[g]
      <4>1. ASSUME g # nullptr PROVE g \in OnLevel(t, i) /\ q[a] < q[g]
        <5>1. g \in OnLevel(t, i)
          BY <1>1, <1>2, <3>6, <4>1
        <5>. QED BY <1>1, <1>3, <2>0, <3>6, <4>1, <5>1 DEF Closed
      <4>. QED BY <4>1
    <3>9. l.span + y.span - 1 = PosOf(t, q, g) - q[a]
      <4>1. l.span = (k + 1) - pos[a]
        BY <1>1, <1>7, <2>2, <3>4 DEF PosOf
      <4>2. y.span = PosOf(sl, pos, g) - (k + 1)
        BY <1>1, <3>5
      <4>3. q[a] = pos[a] /\ PosOf(t, q, g) = PosOf(sl, pos, g) - 1 /\ PosOf(sl, pos, g) \in Nat /\ pos[a] \in Nat
        BY <1>1, <1>2, <1>3, <2>0, <3>6 DEF PosOf, Closed
      <4>. QED BY <1>1, <4>1, <4>2, <4>3
    <3>. QED BY <3>3, <3>7, <3>8, <3>9 DEF NextOn
  <2>. QED BY <2>1, <2>2
<1>. QED BY <1>11, <1>12

LEMMA CutShapes ==
  ASSUME NEW sl, NEW pos, NEW k, NEW u, NEW x, NEW t, CutOut(sl, pos, k, u, x, t)
  PROVE  Shape(t) /\ t.level <= sl.level
<1>1. Shape(sl) /\ Numbered(sl, pos) /\ Cut(sl, u, x, t) /\ x \in Nodes(sl)
  BY DEF CutOut, Ordered
<1>2. /\ Nodes(t) = Nodes(sl) \ {x} /\ header \in DOMAIN t.node /\ t.length = sl.length - 1
      /\ DOMAIN t.node = DOMAIN sl.node \ {x}
      /\ \A a \in DOMAIN t.node : /\ a \in DOMAIN sl.node /\ t.node[a].obj = sl.node[a].obj
                                  /\ t.node[a].score = sl.node[a].score
                                  /\ DOMAIN t.node[a].level = DOMAIN sl.node[a].level
  BY CutNodes
<1>3. /\ MaxLevel \in Nat /\ sl.level \in 1 .. MaxLevel /\ sl.length \in Nat
      /\ Nodes(sl) \subseteq Address
      /\ sl.node[header].obj = NoObj /\ DOMAIN sl.node[header].level = 1 .. MaxLevel
      /\ \A a \in Nodes(sl) : sl.node[a].obj # NoObj /\ DOMAIN sl.node[a].level \subseteq 1 .. sl.level
      /\ \A i \in sl.level + 1 .. MaxLevel : sl.node[header].level[i].forward = nullptr
  BY <1>1, LevelAssumption DEF Shape
<1>4. PICK T : T = {1} \cup {i \in 1 .. sl.level : t.node[header].level[i].forward # nullptr}
  OBVIOUS
<1>5. t.level = Max(T)
  BY <1>1, <1>4 DEF Cut
<1>6. Max(T) \in T /\ \A i \in T : i <= Max(T)
  <2>1. T \in SUBSET Nat /\ T # {} /\ \A i \in T : i <= sl.level
    BY <1>3, <1>4
  <2>2. sl.level \in Nat
    BY <1>3
  <2>. QED BY <2>1, <2>2, MaxOfSet
<1>7. t.level \in 1 .. sl.level /\ t.level \in 1 .. MaxLevel /\ t.level <= sl.level
  <2>1. t.level \in T
    BY <1>5, <1>6
  <2>2. t.level = 1 \/ t.level \in 1 .. sl.level
    BY <1>4, <2>1
  <2>. QED BY <1>3, <2>2
<1>8. PICK q : q = PosWithout(sl, pos, k, x)
  OBVIOUS
<1>9. ASSUME NEW a \in Nodes(t) PROVE DOMAIN t.node[a].level \subseteq 1 .. t.level
  <2>1. ASSUME NEW i \in DOMAIN t.node[a].level PROVE i \in 1 .. t.level
    <3>1. a \in DOMAIN t.node /\ a \in Nodes(sl) /\ a # header
      BY <1>2 DEF Nodes
    <3>2. i \in 1 .. sl.level
      BY <1>2, <1>3, <3>1
    <3>3. a \in OnLevel(t, i) /\ header \in OnLevel(t, i)
      BY <1>2, <1>3, <3>1, <3>2 DEF OnLevel
    <3>4. NextOn(t, q, i, header, t.node[header].level[i].forward)
      BY <1>8, <3>2, <3>3, CutLinksLead
    <3>5. ~(q[a] <= q[header])
      <4>1. Numbered(t, q)
        BY <1>8, CutNumbers
      <4>2. q[header] = 0 /\ q[a] # q[header] /\ q[a] \in Nat
        <5>1. t.length \in Int
          BY <1>2, <1>3
        <5>. QED BY <1>2, <3>1, <4>1, <5>1 DEF Numbered
      <4>. QED BY <4>2
    <3>6. t.node[header].level[i].forward # nullptr
      BY <3>3, <3>4, <3>5 DEF NextOn
    <3>7. i \in T
      BY <1>4, <3>2, <3>6
    <3>. QED BY <1>3, <1>5, <1>6, <1>7, <3>2, <3>7
  <2>. QED BY <2>1
<1>10. ASSUME NEW i \in t.level + 1 .. MaxLevel PROVE t.node[header].level[i].forward = nullptr
  <2>1. i \notin T /\ i \in 1 .. MaxLevel
    BY <1>3, <1>5, <1>6, <1>7
  <2>2. CASE i <= sl.level
    BY <1>4, <2>1, <2>2
  <2>3. CASE ~(i <= sl.level)
    <3>1. i \in sl.level + 1 .. MaxLevel /\ i \in DOMAIN sl.node[header].level
      BY <1>3, <2>1, <2>3
    <3>2. t.node[header].level[i] = sl.node[header].level[i]
      BY <1>2, <2>3, <3>1, CutNodes
    <3>. QED BY <1>3, <3>1, <3>2
  <2>. QED BY <2>2, <2>3
<1>11. ASSUME NEW a \in DOMAIN t.node PROVE IsNode(t.node[a])
  <2> DEFINE lev == [i \in DOMAIN sl.node[a].level |->
                        IF i <= sl.level /\ u[i] = a THEN Unlinked(sl, x, sl.node[a].level[i], i)
                        ELSE sl.node[a].level[i]]
  <2>1. t.node[a] = [obj |-> sl.node[a].obj, score |-> sl.node[a].score, backward |-> Back(sl, x, a), level |-> lev]
    BY <1>1 DEF Cut
  <2>2. PICK h \in 1 .. MaxLevel : IsLevel(sl.node[a].level, h)
    BY <1>1, <1>2, LevelsOf
  <2>3. IsLevel(lev, h)
    <3>1. DOMAIN sl.node[a].level = 1 .. h
      BY <2>2 DEF IsLevel
    <3>2. ASSUME NEW i \in 1 .. h PROVE lev[i] \in [forward : Address \cup {nullptr}, span : Int]
      <4>1. sl.node[a].level[i] \in [forward : Address \cup {nullptr}, span : Int]
        BY <2>2 DEF IsLevel
      <4>2. lev[i] = IF i <= sl.level /\ u[i] = a THEN Unlinked(sl, x, sl.node[a].level[i], i)
                     ELSE sl.node[a].level[i]
        BY <3>1
      <4>3. CASE ~(i <= sl.level /\ u[i] = a /\ sl.node[a].level[i].forward = x)
        <5>1. \/ lev[i] = sl.node[a].level[i]
              \/ lev[i] = Link(sl.node[a].level[i].forward, sl.node[a].level[i].span - 1)
          <6>. HIDE DEF lev
          <6>. QED BY <4>2, <4>3 DEF Unlinked
        <5>2. Link(sl.node[a].level[i].forward, sl.node[a].level[i].span - 1)
                \in [forward : Address \cup {nullptr}, span : Int]
          BY <4>1 DEF Link
        <5>. HIDE DEF lev
        <5>. QED BY <4>1, <5>1, <5>2
      <4>4. CASE i <= sl.level /\ u[i] = a /\ sl.node[a].level[i].forward = x
        <5>1. a \in OnLevel(sl, i) /\ i \in 1 .. sl.level
          BY <1>2, <1>3, <3>1, <4>4 DEF OnLevel
        <5>2. NextOn(sl, pos, i, a, x)
          <6>1. Chained(sl, pos)
            BY DEF CutOut, Ordered
          <6>. QED BY <4>4, <5>1, <6>1 DEF Chained
        <5>3. x \in OnLevel(sl, i) /\ x \in DOMAIN sl.node
          BY <1>1, <5>2, PlacesAreNumbers DEF NextOn, Nodes
        <5>4. PICK m \in 1 .. MaxLevel : IsLevel(sl.node[x].level, m) /\ i \in 1 .. m
          BY <1>1, <5>3, LevelsOf
        <5>5. sl.node[x].level[i] \in [forward : Address \cup {nullptr}, span : Int]
          BY <5>4 DEF IsLevel
        <5>6. lev[i] = Link(sl.node[x].level[i].forward,
                            sl.node[a].level[i].span + sl.node[x].level[i].span - 1)
          <6>. HIDE DEF lev
          <6>. QED BY <4>2, <4>4 DEF Unlinked
        <5>. HIDE DEF lev
        <5>. QED BY <4>1, <5>5, <5>6 DEF Link
      <4>. QED BY <4>3, <4>4
    <3>3. lev = [i \in 1 .. h |-> lev[i]]
      BY <3>1
    <3>. HIDE DEF lev
    <3>. QED BY <3>2, <3>3 DEF IsLevel
  <2>4. sl.node[a].obj \in Nat /\ sl.node[a].score \in Int
    BY <1>1, <1>2 DEF Shape, IsNode
  <2>. HIDE DEF lev
  <2>5. t.node[a] = [obj |-> t.node[a].obj, score |-> t.node[a].score,
                     backward |-> t.node[a].backward, level |-> t.node[a].level] /\ t.node[a].level = lev
        /\ t.node[a].obj \in Nat /\ t.node[a].score \in Int
    BY <2>1, <2>4
  <2>. QED BY <2>3, <2>5 DEF IsNode
<1>12. t = [node |-> t.node, level |-> t.level, length |-> t.length, tail |-> t.tail]
       /\ t.node = [a \in DOMAIN t.node |-> t.node[a]]
  BY <1>1 DEF Cut
<1>13. t.length \in Nat
  <2>1. k \in Nat /\ sl.length \in Nat /\ k < sl.length
    BY CutPositions
  <2>. QED BY <1>2, <2>1
<1>14. \A a \in Nodes(t) : t.node[a].obj # NoObj
  BY <1>2, <1>3 DEF Nodes
<1>15. t.node[header].obj = NoObj /\ DOMAIN t.node[header].level = 1 .. MaxLevel /\ Nodes(t) \subseteq Address
  BY <1>2, <1>3
<1>. QED BY <1>2, <1>7, <1>9, <1>10, <1>11, <1>12, <1>13, <1>14, <1>15 DEF Shape

LEMMA CutMirrors ==
  ASSUME NEW sl, NEW pos, NEW k, NEW u, NEW x, NEW t, CutOut(sl, pos, k, u, x, t)
  PROVE  Mirrored(t, PosWithout(sl, pos, k, x))
<1>1. PICK q : q = PosWithout(sl, pos, k, x)
  OBVIOUS
<1>2. /\ k \in Nat /\ sl.length \in Nat /\ k < sl.length
      /\ x # header /\ x \in DOMAIN sl.node /\ pos[x] = k + 1
      /\ \A a \in DOMAIN t.node : /\ a \in DOMAIN sl.node /\ a # x /\ pos[a] \in Nat /\ pos[a] # k + 1
                                  /\ pos[a] <= sl.length /\ q[a] = Closed(pos[a], k)
  BY <1>1, CutPositions
<1>3. /\ Nodes(t) = Nodes(sl) \ {x} /\ header \in DOMAIN t.node /\ t.length = sl.length - 1
      /\ DOMAIN t.node = DOMAIN sl.node \ {x}
      /\ \A a \in DOMAIN t.node : t.node[a].backward = Back(sl, x, a)
  BY CutNodes
<1>4. /\ Shape(sl) /\ Numbered(sl, pos) /\ Chained(sl, pos) /\ Mirrored(sl, pos) /\ Cut(sl, u, x, t)
      /\ x \in Nodes(sl)
  BY DEF CutOut, Ordered
<1>5. PICK g : g = Follow(sl, x)
  OBVIOUS
<1>6. /\ g = nullptr => pos[x] = sl.length
      /\ g # nullptr => g \in Nodes(sl) /\ pos[g] = k + 2
  <2>1. x \in OnLevel(sl, 1) /\ 1 \in 1 .. sl.level
    BY <1>2, <1>4, OnLowest, LevelAssumption DEF Shape
  <2>2. NextOn(sl, pos, 1, x, g)
    BY <1>4, <1>5, <2>1 DEF Chained, Follow
  <2>3. /\ g = nullptr => pos[x] = sl.length
        /\ g # nullptr => g \in Nodes(sl) /\ pos[g] = pos[x] + 1
    BY <1>2, <1>4, <2>2, LowestLink
  <2>. QED BY <1>2, <2>3
<1>7. \A a \in Nodes(t) : a \in Nodes(sl) /\ a \in DOMAIN t.node /\ pos[a] # 0
  <2>1. \A a \in Nodes(t) : a \in Nodes(sl) /\ a \in DOMAIN t.node /\ a # header
    BY <1>3 DEF Nodes
  <2>2. \A a \in DOMAIN sl.node : pos[a] = 0 <=> a = header
    BY <1>4, PlacesAreNumbers
  <2>. QED BY <1>2, <2>1, <2>2
<1>8. \A a \in Nodes(sl) \ {x} : a \in Nodes(t)
  BY <1>3
<1>9. ASSUME NEW a \in Nodes(t)
      PROVE  \/ q[a] = 1 /\ t.node[a].backward = nullptr
             \/ t.node[a].backward \in Nodes(t) /\ q[t.node[a].backward] = q[a] - 1
  <2>1. t.node[a].backward = IF a = g THEN sl.node[x].backward ELSE sl.node[a].backward
    BY <1>3, <1>5, <1>7 DEF Back
  <2>2. PICK b : b = t.node[a].backward
    OBVIOUS
  <2>3. CASE a = g
    <3>1. pos[a] = k + 2 /\ q[a] = k + 1 /\ b = sl.node[x].backward
      <4>1. g # nullptr
        BY <1>2, <1>4, <1>7, <2>3, PlacesAreNumbers
      <4>. QED BY <1>2, <1>6, <1>7, <2>1, <2>2, <2>3, <4>1 DEF Closed
    <3>2. CASE pos[x] = 1 /\ b = nullptr
      BY <1>2, <2>2, <3>1, <3>2
    <3>3. CASE b \in Nodes(sl) /\ pos[b] = pos[x] - 1
      <4>1. b # x
        BY <1>2, <3>3
      <4>2. b \in Nodes(t) /\ pos[b] = k
        BY <1>2, <1>8, <3>3, <4>1
      <4>. QED BY <1>2, <1>7, <2>2, <3>1, <4>2 DEF Closed
    <3>. QED BY <1>4, <3>1, <3>2, <3>3 DEF Mirrored
  <2>4. CASE a # g
    <3>1. b = sl.node[a].backward /\ a \in Nodes(sl) /\ a \in DOMAIN t.node
      BY <1>7, <2>1, <2>2, <2>4
    <3>2. pos[a] # k + 2
      <4>1. ASSUME pos[a] = k + 2 PROVE FALSE
        <5>1. g # nullptr
          BY <1>2, <1>6, <3>1, <4>1
        <5>2. g \in DOMAIN sl.node /\ pos[g] = pos[a]
          BY <1>6, <4>1, <5>1 DEF Nodes
        <5>. QED BY <1>2, <1>4, <2>4, <3>1, <5>2 DEF Numbered
      <4>. QED BY <4>1
    <3>3. CASE pos[a] = 1 /\ b = nullptr
      BY <1>2, <2>2, <3>1, <3>3 DEF Closed
    <3>4. CASE b \in Nodes(sl) /\ pos[b] = pos[a] - 1
      <4>1. b # x
        BY <1>2, <3>1, <3>2, <3>4
      <4>2. b \in Nodes(t)
        BY <1>8, <3>4, <4>1
      <4>3. q[b] = q[a] - 1
        BY <1>2, <1>7, <3>1, <3>2, <3>4, <4>2 DEF Closed
      <4>. QED BY <2>2, <4>2, <4>3
    <3>. QED BY <1>4, <3>1, <3>3, <3>4 DEF Mirrored
  <2>. QED BY <2>3, <2>4
<1>10. \/ t.length = 0 /\ t.tail = nullptr
       \/ t.tail \in Nodes(t) /\ q[t.tail] = t.length
  <2>1. t.tail = IF g = nullptr THEN sl.node[x].backward ELSE sl.tail
    BY <1>4, <1>5 DEF Cut
  <2>2. CASE g = nullptr
    <3>1. PICK b : b = sl.node[x].backward
      OBVIOUS
    <3>2. CASE pos[x] = 1 /\ b = nullptr
      BY <1>2, <1>3, <1>6, <2>1, <2>2, <3>1, <3>2
    <3>3. CASE b \in Nodes(sl) /\ pos[b] = pos[x] - 1
      <4>1. b # x
        BY <1>2, <3>3
      <4>2. b \in Nodes(t) /\ pos[b] = k
        BY <1>2, <1>8, <3>3, <4>1
      <4>3. q[b] = k
        BY <1>2, <1>7, <4>2 DEF Closed
      <4>. QED BY <1>2, <1>3, <1>6, <2>1, <2>2, <3>1, <4>2, <4>3
    <3>. QED BY <1>4, <3>1, <3>2, <3>3 DEF Mirrored
  <2>3. CASE g # nullptr
    <3>1. k + 1 < sl.length
      <4>1. pos[g] <= sl.length
        BY <1>4, <1>6, <2>3, PlacesAreNumbers DEF Nodes
      <4>. QED BY <1>2, <1>6, <2>3, <4>1
    <3>2. sl.tail \in Nodes(sl) /\ pos[sl.tail] = sl.length
      BY <1>2, <1>4, <3>1 DEF Mirrored
    <3>3. sl.tail \in Nodes(t)
      BY <1>2, <1>8, <3>1, <3>2
    <3>. QED BY <1>2, <1>3, <1>7, <2>1, <2>3, <3>1, <3>2, <3>3 DEF Closed
  <2>. QED BY <2>2, <2>3
<1>. QED BY <1>1, <1>9, <1>10 DEF Mirrored

LEMMA CutKeepsOrder ==
  ASSUME NEW sl, NEW pos, NEW k, NEW u, NEW x, NEW t, CutOut(sl, pos, k, u, x, t)
  PROVE  /\ Ordered(t, PosWithout(sl, pos, k, x))
         /\ Nodes(t) = Nodes(sl) \ {x}
         /\ \A a \in Nodes(t) : t.node[a].obj = sl.node[a].obj /\ t.node[a].score = sl.node[a].score
<1>1. PICK q : q = PosWithout(sl, pos, k, x)
  OBVIOUS
<1>2. Shape(t) /\ t.level <= sl.level
  BY CutShapes
<1>3. Chained(t, q)
  <2>1. ASSUME NEW i \in 1 .. t.level, NEW a \in OnLevel(t, i)
        PROVE  /\ NextOn(t, q, i, a, t.node[a].level[i].forward)
               /\ t.node[a].level[i].span = PosOf(t, q, t.node[a].level[i].forward) - q[a]
    <3>1. t.level \in Nat /\ sl.level \in Nat
      <4>1. Shape(sl)
        BY DEF CutOut, Ordered
      <4>. QED BY <1>2, <4>1, LevelAssumption DEF Shape
    <3>2. i \in 1 .. sl.level
      BY <1>2, <3>1
    <3>. QED BY <1>1, <3>2, CutLinksLead
  <2>. QED BY <2>1 DEF Chained
<1>4. Numbered(t, q) /\ InOrder(t, q) /\ Mirrored(t, q)
  BY <1>1, CutNumbers, CutOrders, CutMirrors
<1>5. \A a \in Nodes(t) : t.node[a].obj = sl.node[a].obj /\ t.node[a].score = sl.node[a].score
  BY CutNodes DEF Nodes
<1>6. Nodes(t) = Nodes(sl) \ {x}
  BY CutNodes
<1>. QED BY <1>1, <1>2, <1>3, <1>4, <1>5, <1>6 DEF Ordered

(* slDelete takes one node with that score and member out of the list, and *)
(* leaves a list without one as it is.                                     *)
LEMMA DeleteKeepsOrder ==
  ASSUME NEW sl, NEW pos, Ordered(sl, pos), NEW score \in Int, NEW member \in Nat,
         NEW t, t = slDelete(sl, score, member)
  PROVE  /\ \E q : Ordered(t, q)
         /\ \/ t = sl /\ \A a \in Nodes(sl) : ~Matches(sl, a, score, member)
            \/ \E x \in Nodes(sl) : Matches(sl, x, score, member) /\ Nodes(t) = Nodes(sl) \ {x}
         /\ \A a \in Nodes(t) : t.node[a].obj = sl.node[a].obj /\ t.node[a].score = sl.node[a].score
<1>. Shape(sl) /\ Numbered(sl, pos) /\ InOrder(sl, pos) /\ Chained(sl, pos) /\ Mirrored(sl, pos)
  BY DEF Ordered
<1>1. PICK S : S = Before(sl, score, member)
  OBVIOUS
<1>2. PICK k \in 0 .. sl.length : PassesTo(sl, pos, S, Int, k)
  BY <1>1, BeforeIs
<1>3. /\ k \in Nat /\ sl.level \in 1 .. MaxLevel /\ MaxLevel \in Nat /\ sl.length \in Nat
      /\ \A a \in Nodes(sl) : a \in DOMAIN sl.node /\ pos[a] \in Nat /\ pos[a] \in Int /\ pos[a] <= sl.length
  BY LevelAssumption, PlacesAreNumbers DEF Shape, Nodes
<1>4. PICK path : path = Descent(sl, S, Int)
  OBVIOUS
<1>5. \A i \in 1 .. sl.level : \E b : LastOn(sl, pos, i, k, b) /\ path[i] = Point(b, pos[b])
  BY <1>2, <1>3, <1>4, DescentIs
<1>6. PICK u : u = [i \in 1 .. sl.level |-> path[i].at]
  OBVIOUS
<1>7. ASSUME NEW i \in 1 .. sl.level PROVE LastOn(sl, pos, i, k, u[i]) /\ path[i] = Point(u[i], pos[u[i]])
  <2>1. PICK b : LastOn(sl, pos, i, k, b) /\ path[i] = Point(b, pos[b])
    BY <1>5
  <2>2. u[i] = b
    BY <1>6, <2>1, PointIs
  <2>. QED BY <2>1, <2>2
<1>8. u[1] \in DOMAIN sl.node /\ pos[u[1]] = k /\ path[1].at = u[1]
  <2>1. LastOn(sl, pos, 1, k, u[1]) /\ path[1] = Point(u[1], pos[u[1]])
    BY <1>3, <1>7
  <2>2. PICK a \in DOMAIN sl.node : pos[a] = k
    BY <1>2 DEF Numbered
  <2>3. a \in OnLevel(sl, 1) /\ u[1] \in DOMAIN sl.node
    BY <2>1, OnLowest DEF LastOn
  <2>4. pos[u[1]] \in Nat
    BY <2>3, PlacesAreNumbers
  <2>5. pos[u[1]] = k
    BY <1>3, <2>1, <2>2, <2>3, <2>4 DEF LastOn
  <2>. QED BY <2>1, <2>3, <2>5, PointIs
<1>9. PICK x : x = Follow(sl, u[1])
  OBVIOUS
<1>10. /\ x = nullptr => k = sl.length
       /\ x # nullptr => x \in Nodes(sl) /\ pos[x] = k + 1
  <2>1. u[1] \in OnLevel(sl, 1) /\ 1 \in 1 .. sl.level
    BY <1>3, <1>8, OnLowest
  <2>2. NextOn(sl, pos, 1, u[1], x)
    BY <1>9, <2>1 DEF Chained, Follow
  <2>. QED BY <1>8, <2>2, LowestLink
<1>11. t = IF Matches(sl, x, score, member) THEN slDeleteNode(sl, x, path) ELSE sl
  BY <1>1, <1>4, <1>8, <1>9 DEF slDelete, Descend
<1>12. CASE Matches(sl, x, score, member)
  <2>1. t = slDeleteNode(sl, x, path) /\ x \in Nodes(sl)
    BY <1>11, <1>12 DEF Matches
  <2>2. pos[x] = k + 1
    <3>1. x # nullptr
      BY <1>3, <2>1, PlacesAreNumbers
    <3>. QED BY <1>10, <3>1
  <2>3. Cut(sl, u, x, t)
    <3>1. PICK r : r = [i \in 1 .. sl.level |-> pos[u[i]]]
      OBVIOUS
    <3>2. \A i \in 1 .. sl.level : path[i] = Point(u[i], r[i])
      BY <1>7, <3>1
    <3>. QED BY <2>1, <3>2, DeleteIsCut
  <2>4. CutOut(sl, pos, k, u, x, t)
    BY <1>3, <1>7, <2>1, <2>2, <2>3 DEF CutOut
  <2>5. /\ Ordered(t, PosWithout(sl, pos, k, x)) /\ Nodes(t) = Nodes(sl) \ {x}
        /\ \A a \in Nodes(t) : t.node[a].obj = sl.node[a].obj /\ t.node[a].score = sl.node[a].score
    BY <2>4, CutKeepsOrder
  <2>. QED BY <1>12, <2>1, <2>5
<1>13. CASE ~Matches(sl, x, score, member)
  <2>1. t = sl
    BY <1>11, <1>13
  <2>2. ASSUME NEW a \in Nodes(sl), Matches(sl, a, score, member) PROVE FALSE
    <3>0. /\ sl.node[a].score = score /\ sl.node[a].obj = member /\ sl.node[a].score \in Int /\ sl.node[a].obj \in Nat
      BY <1>3, <2>2 DEF Matches, Shape, IsNode
    <3>1. pos[a] > k
      <4>1. a \notin S
        BY <1>1, <3>0 DEF Before, Precedes
      <4>. QED BY <1>2, <1>3, <4>1 DEF PassesTo
    <3>2. x # nullptr
      BY <1>3, <1>10, <3>1
    <3>3. x \in Nodes(sl) /\ pos[x] = k + 1 /\ x # a
      BY <1>10, <1>13, <2>2, <3>2
    <3>4. pos[x] < pos[a]
      <4>1. pos[x] # pos[a]
        BY <1>3, <3>3 DEF Numbered
      <4>. QED BY <1>3, <3>1, <3>3, <4>1
    <3>5. ~Precedes(sl, a, sl.node[x].score, sl.node[x].obj)
      BY <3>3, <3>4 DEF InOrder
    <3>6. x \notin S
      BY <1>2, <1>3, <3>3 DEF PassesTo
    <3>7. ~Precedes(sl, x, score, member)
      BY <1>1, <3>3, <3>6 DEF Before
    <3>8. sl.node[x].score \in Int /\ sl.node[x].obj \in Nat
      BY <1>3, <3>3 DEF Shape, IsNode
    <3>9. sl.node[x].score = score /\ sl.node[x].obj = member
      BY <3>0, <3>5, <3>7, <3>8 DEF Precedes
    <3>. QED BY <1>13, <3>3, <3>9 DEF Matches
  <2>. QED BY <2>1, <2>2
<1>. QED BY <1>12, <1>13

LEMMA EmptyIsOrdered == \E pos : Ordered(slEmpty, pos)
<1> DEFINE pos == [a \in {header} |-> 0]
           lev == [i \in 1 .. MaxLevel |-> Link(nullptr, 0)]
           top == [obj |-> NoObj, score |-> 0, backward |-> nullptr, level |-> lev]
<1>1. /\ slEmpty.node = [a \in {header} |-> top] /\ slEmpty.level = 1 /\ slEmpty.length = 0
      /\ slEmpty.tail = nullptr
      /\ slEmpty = [node |-> slEmpty.node, level |-> slEmpty.level, length |-> slEmpty.length, tail |-> slEmpty.tail]
  BY DEF slEmpty
<1>2. IsLevel(lev, MaxLevel) /\ DOMAIN lev = 1 .. MaxLevel
  BY DEF IsLevel, Link
<1>3. /\ top.obj = NoObj /\ top.score = 0 /\ top.backward = nullptr /\ top.level = lev
      /\ top = [obj |-> top.obj, score |-> top.score, backward |-> top.backward, level |-> top.level]
  OBVIOUS
<1>. HIDE DEF lev, top
<1>4. /\ DOMAIN slEmpty.node = {header} /\ slEmpty.node[header] = top /\ Nodes(slEmpty) = {}
      /\ slEmpty.node = [a \in DOMAIN slEmpty.node |-> slEmpty.node[a]]
  BY <1>1 DEF Nodes
<1>5. IsNode(top)
  BY <1>2, <1>3, LevelAssumption DEF IsNode, NoObj
<1>6. ASSUME NEW i \in 1 .. MaxLevel
      PROVE  slEmpty.node[header].level[i].forward = nullptr /\ slEmpty.node[header].level[i].span = 0
  <2>1. slEmpty.node[header].level = lev
    BY <1>3, <1>4
  <2>2. lev[i] = [forward |-> nullptr, span |-> 0]
    BY DEF lev, Link
  <2>. QED BY <2>1, <2>2
<1>7. Shape(slEmpty)
  <2>1. \A i \in slEmpty.level + 1 .. MaxLevel : slEmpty.node[header].level[i].forward = nullptr
    BY <1>1, <1>6, LevelAssumption
  <2>. QED BY <1>1, <1>2, <1>3, <1>4, <1>5, <2>1, LevelAssumption DEF Shape
<1>8. Numbered(slEmpty, pos)
  BY <1>1, <1>4 DEF Numbered
<1>9. InOrder(slEmpty, pos)
  BY <1>4 DEF InOrder
<1>10. Chained(slEmpty, pos)
  <2>1. ASSUME NEW i \in 1 .. slEmpty.level, NEW a \in OnLevel(slEmpty, i)
        PROVE  /\ NextOn(slEmpty, pos, i, a, slEmpty.node[a].level[i].forward)
               /\ slEmpty.node[a].level[i].span = PosOf(slEmpty, pos, slEmpty.node[a].level[i].forward) - pos[a]
    <3>1. a = header /\ i \in 1 .. MaxLevel /\ \A b \in OnLevel(slEmpty, i) : b = header
      BY <1>1, <1>4, LevelAssumption DEF OnLevel
    <3>2. slEmpty.node[a].level[i].forward = nullptr /\ slEmpty.node[a].level[i].span = 0 /\ pos[a] = 0
      BY <1>6, <3>1
    <3>. QED BY <1>1, <3>1, <3>2 DEF NextOn, PosOf
  <2>. QED BY <2>1 DEF Chained
<1>11. Mirrored(slEmpty, pos)
  BY <1>1, <1>4 DEF Mirrored
<1>. QED BY <1>7, <1>8, <1>9, <1>10, <1>11 DEF Ordered

-----------------------------------------------------------------------------
(* What an ordered list looks like from outside. *)

LEMMA CountIs ==
  ASSUME NEW S, NEW n \in Nat, NEW f \in [1 .. n -> S],
         \A i, j \in 1 .. n : f[i] = f[j] => i = j,
         \A x \in S : \E i \in 1 .. n : f[i] = x
  PROVE  IsFiniteSet(S) /\ Cardinality(S) = n
<1>1. f \in Bijection(1 .. n, S)
  BY DEF Bijection, Injection, Surjection, IsInjective
<1>2. ExistsBijection(1 .. n, S)
  BY <1>1 DEF ExistsBijection
<1>. QED BY <1>2, FS_CountingElements, FS_NatBijection

(* The node at a place. *)
NodeAt(sl, pos, p) == CHOOSE a \in DOMAIN sl.node : pos[a] = p

LEMMA NodeAtIs ==
  ASSUME NEW sl, NEW pos, Shape(sl), Numbered(sl, pos), NEW p \in 0 .. sl.length
  PROVE  /\ NodeAt(sl, pos, p) \in DOMAIN sl.node /\ pos[NodeAt(sl, pos, p)] = p
         /\ NodeAt(sl, pos, p) # nullptr
         /\ \A a \in DOMAIN sl.node : pos[a] = p => a = NodeAt(sl, pos, p)
         /\ p = 0 => NodeAt(sl, pos, p) = header
         /\ p # 0 => NodeAt(sl, pos, p) \in Nodes(sl)
<1>1. \E a \in DOMAIN sl.node : pos[a] = p
  BY DEF Numbered
<1>2. NodeAt(sl, pos, p) \in DOMAIN sl.node /\ pos[NodeAt(sl, pos, p)] = p
  BY <1>1 DEF NodeAt
<1>3. \A a \in DOMAIN sl.node : pos[a] = p => a = NodeAt(sl, pos, p)
  BY <1>2 DEF Numbered
<1>4. NodeAt(sl, pos, p) # nullptr /\ (p = 0 <=> NodeAt(sl, pos, p) = header)
  BY <1>2, PlacesAreNumbers
<1>. QED BY <1>2, <1>3, <1>4 DEF Nodes

Following(f, sl) ==
  f = [k \in Nat |-> IF k = 0 THEN header
                     ELSE IF f[k - 1] = nullptr THEN nullptr ELSE Follow(sl, f[k - 1])]

LEMMA AfterIs ==
  ASSUME NEW sl, NEW pos, Shape(sl), Numbered(sl, pos), Chained(sl, pos), NEW k \in Nat
  PROVE  After(sl)[k] = IF k <= sl.length THEN NodeAt(sl, pos, k) ELSE nullptr
<1> DEFINE e == [m \in Nat |-> IF m <= sl.length THEN NodeAt(sl, pos, m) ELSE nullptr]
           g == [m \in Nat |-> IF m = 0 THEN header
                               ELSE IF e[m - 1] = nullptr THEN nullptr ELSE Follow(sl, e[m - 1])]
<1>0. sl.length \in Nat /\ 1 \in 1 .. sl.level
  BY LevelAssumption DEF Shape
<1>1. ASSUME NEW m \in Nat PROVE e[m] = g[m]
  <2>1. CASE m = 0
    BY <1>0, <2>1, NodeAtIs
  <2>2. CASE m # 0 /\ m <= sl.length + 1
    <3>1. m - 1 \in 0 .. sl.length /\ m - 1 \in Nat
      BY <1>0, <2>2
    <3>2. PICK a : a = NodeAt(sl, pos, m - 1)
      OBVIOUS
    <3>3. a \in DOMAIN sl.node /\ pos[a] = m - 1 /\ a # nullptr
      BY <3>1, <3>2, NodeAtIs
    <3>4. e[m - 1] = a
      BY <1>0, <3>1, <3>2
    <3>5. g[m] = Follow(sl, a)
      <4>. HIDE DEF e
      <4>. QED BY <2>2, <3>3, <3>4
    <3>6. NextOn(sl, pos, 1, a, Follow(sl, a))
      BY <1>0, <3>3, OnLowest DEF Chained, Follow
    <3>7. /\ Follow(sl, a) = nullptr => m - 1 = sl.length
          /\ Follow(sl, a) # nullptr => Follow(sl, a) \in Nodes(sl) /\ pos[Follow(sl, a)] = m
      BY <3>1, <3>3, <3>6, LowestLink
    <3>8. CASE Follow(sl, a) = nullptr
      <4>1. ~(m <= sl.length)
        BY <1>0, <3>7, <3>8
      <4>2. e[m] = nullptr
        BY <4>1
      <4>. QED BY <3>5, <3>8, <4>2
    <3>9. CASE Follow(sl, a) # nullptr
      <4>1. m <= sl.length /\ Follow(sl, a) \in DOMAIN sl.node
        BY <3>7, <3>9, PlacesAreNumbers DEF Nodes
      <4>2. Follow(sl, a) = NodeAt(sl, pos, m)
        BY <3>7, <3>9, <4>1, NodeAtIs
      <4>3. e[m] = NodeAt(sl, pos, m)
        BY <4>1
      <4>. QED BY <3>5, <4>2, <4>3
    <3>. QED BY <3>8, <3>9
  <2>3. CASE m > sl.length + 1
    <3>1. m - 1 \in Nat /\ ~(m - 1 <= sl.length) /\ ~(m <= sl.length) /\ m # 0
      BY <1>0, <2>3
    <3>2. e[m - 1] = nullptr /\ e[m] = nullptr
      BY <3>1
    <3>3. g[m] = nullptr
      <4>. HIDE DEF e
      <4>. QED BY <3>1, <3>2
    <3>. QED BY <3>2, <3>3
  <2>. QED BY <1>0, <2>1, <2>2, <2>3
<1>2. e = g
  <2>1. e = [m \in Nat |-> e[m]] /\ g = [m \in Nat |-> g[m]]
    OBVIOUS
  <2>. HIDE DEF e, g
  <2>. QED BY <1>1, <2>1
<1>3. Following(e, sl)
  <2>. HIDE DEF e
  <2>. QED BY <1>2 DEF Following
<1>4. PICK f : f = After(sl)
  OBVIOUS
<1>5. Following(f, sl)
  <2>1. f = CHOOSE h : Following(h, sl)
    BY <1>4 DEF After, Following
  <2>2. \E h : Following(h, sl)
    BY <1>3
  <2>. QED BY <2>1, <2>2
<1>6. e[k] = IF k <= sl.length THEN NodeAt(sl, pos, k) ELSE nullptr
  OBVIOUS
<1>. HIDE DEF e
<1> DEFINE D == {m \in Nat : f[m] # e[m]}
<1>7. ASSUME D # {} PROVE FALSE
  <2>1. PICK m \in D : \A x \in D : m <= x
    <3>1. D \in SUBSET Nat
      OBVIOUS
    <3>. HIDE DEF D
    <3>. QED BY <1>7, <3>1, LeastNat
  <2>2. m \in Nat /\ f[m] # e[m]
    OBVIOUS
  <2>3. f[m] = (IF m = 0 THEN header ELSE IF f[m - 1] = nullptr THEN nullptr ELSE Follow(sl, f[m - 1]))
    BY <1>5, <2>2 DEF Following
  <2>4. e[m] = (IF m = 0 THEN header ELSE IF e[m - 1] = nullptr THEN nullptr ELSE Follow(sl, e[m - 1]))
    BY <1>3, <2>2 DEF Following
  <2>5. m # 0 /\ f[m - 1] # e[m - 1]
    BY <2>2, <2>3, <2>4
  <2>6. m - 1 \in D
    BY <2>2, <2>5
  <2>. QED BY <2>1, <2>2, <2>6
<1>8. f[k] = e[k]
  BY <1>7
<1>. QED BY <1>4, <1>6, <1>8

LEMMA ChainIs ==
  ASSUME NEW sl, NEW pos, Shape(sl), Numbered(sl, pos), Chained(sl, pos)
  PROVE  /\ DOMAIN Chain(sl) = 1 .. sl.length
         /\ \A p \in 1 .. sl.length : Chain(sl)[p] = NodeAt(sl, pos, p)
<1>1. Chain(sl) = [p \in 1 .. sl.length |-> After(sl)[p]]
  BY DEF Chain
<1>2. sl.length \in Nat
  BY DEF Shape
<1>3. \A p \in 1 .. sl.length : After(sl)[p] = NodeAt(sl, pos, p)
  <2>1. ASSUME NEW p \in 1 .. sl.length PROVE After(sl)[p] = NodeAt(sl, pos, p)
    <3>1. p \in Nat /\ p <= sl.length
      BY <1>2
    <3>. QED BY <3>1, AfterIs
  <2>. QED BY <2>1
<1>. QED BY <1>1, <1>3

LEMMA PlaceIs ==
  ASSUME NEW sl, NEW pos, Shape(sl), Numbered(sl, pos), Chained(sl, pos)
  PROVE  /\ \A a \in DOMAIN sl.node : Place(sl, a) = pos[a]
         /\ Place(sl, nullptr) = sl.length
<1>1. ASSUME NEW a \in DOMAIN sl.node, a # header PROVE Place(sl, a) = pos[a]
  <2>1. pos[a] \in 1 .. sl.length /\ a # nullptr /\ sl.length \in Nat
    BY <1>1, PlacesAreNumbers DEF Shape
  <2>2. PICK c : c = Chain(sl)
    OBVIOUS
  <2>3. DOMAIN c = 1 .. sl.length /\ \A p \in 1 .. sl.length : c[p] = NodeAt(sl, pos, p)
    BY <2>2, ChainIs
  <2>4. \A p \in 1 .. sl.length : c[p] = a <=> p = pos[a]
    <3>1. \A p \in 1 .. sl.length : p \in 0 .. sl.length
      BY <2>1
    <3>. QED BY <2>1, <2>3, <3>1, NodeAtIs
  <2>5. Place(sl, a) = CHOOSE p \in DOMAIN c : c[p] = a
    BY <1>1, <2>1, <2>2 DEF Place
  <2>. QED BY <2>1, <2>3, <2>4, <2>5
<1>2. Place(sl, header) = 0 /\ pos[header] = 0
  BY DEF Place, Numbered
<1>3. Place(sl, nullptr) = sl.length
  BY NullIsNowhere DEF Place
<1>. QED BY <1>1, <1>2, <1>3

LEMMA OrderedSpans ==
  ASSUME NEW sl, NEW pos, Ordered(sl, pos)
  PROVE  SpansAreDistances(sl)
<1>. Shape(sl) /\ Numbered(sl, pos) /\ Chained(sl, pos)
  BY DEF Ordered
<1>1. ASSUME NEW i \in 1 .. sl.level, NEW a \in OnLevel(sl, i)
      PROVE  sl.node[a].level[i].span = Place(sl, sl.node[a].level[i].forward) - Place(sl, a)
  <2>1. PICK f : f = sl.node[a].level[i].forward
    OBVIOUS
  <2>2. NextOn(sl, pos, i, a, f) /\ sl.node[a].level[i].span = PosOf(sl, pos, f) - pos[a]
    BY <2>1 DEF Chained
  <2>3. Place(sl, f) = PosOf(sl, pos, f)
    <3>1. f = nullptr \/ f \in DOMAIN sl.node
      BY <2>2 DEF NextOn, OnLevel
    <3>. QED BY <3>1, PlaceIs, PlacesAreNumbers DEF PosOf
  <2>4. Place(sl, a) = pos[a]
    BY PlaceIs DEF OnLevel
  <2>. QED BY <2>1, <2>2, <2>3, <2>4
<1>. QED BY <1>1 DEF SpansAreDistances

LEMMA OrderedLevels ==
  ASSUME NEW sl, NEW pos, Ordered(sl, pos)
  PROVE  LevelsAreSublists(sl)
<1>. Shape(sl) /\ Numbered(sl, pos) /\ Chained(sl, pos)
  BY DEF Ordered
<1>1. ASSUME NEW i \in 1 .. sl.level, NEW a \in OnLevel(sl, i), NEW f, f = sl.node[a].level[i].forward,
             NEW later, later = {n \in OnLevel(sl, i) : Place(sl, n) > Place(sl, a)}
      PROVE  IF later = {} THEN f = nullptr
             ELSE f \in later /\ \A n \in later : Place(sl, f) <= Place(sl, n)
  <2>1. NextOn(sl, pos, i, a, f)
    BY <1>1 DEF Chained
  <2>2. \A b \in OnLevel(sl, i) : Place(sl, b) = pos[b] /\ pos[b] \in Nat
    BY PlaceIs, PlacesAreNumbers DEF OnLevel
  <2>. QED BY <1>1, <2>1, <2>2 DEF NextOn
<1>. QED BY <1>1 DEF LevelsAreSublists

LEMMA OrderedSorts ==
  ASSUME NEW sl, NEW pos, Ordered(sl, pos)
  PROVE  Sorted(sl)
<1>. Shape(sl) /\ Numbered(sl, pos) /\ Chained(sl, pos) /\ InOrder(sl, pos)
  BY DEF Ordered
<1>1. PICK c : c = Chain(sl)
  OBVIOUS
<1>2. ASSUME NEW p \in 1 .. sl.length - 1
      PROVE  ~Precedes(sl, c[p + 1], sl.node[c[p]].score, sl.node[c[p]].obj)
  <2>1. /\ p \in 1 .. sl.length /\ p + 1 \in 1 .. sl.length /\ p # 0 /\ p + 1 # 0
        /\ p \in 0 .. sl.length /\ p + 1 \in 0 .. sl.length
    BY DEF Shape
  <2>2. c[p] = NodeAt(sl, pos, p) /\ c[p + 1] = NodeAt(sl, pos, p + 1)
    BY <1>1, <2>1, ChainIs
  <2>3. c[p] \in Nodes(sl) /\ pos[c[p]] = p
    BY <2>1, <2>2, NodeAtIs
  <2>4. c[p + 1] \in Nodes(sl) /\ pos[c[p + 1]] = p + 1
    BY <2>1, <2>2, NodeAtIs
  <2>5. pos[c[p]] < pos[c[p + 1]]
    BY <2>1, <2>3, <2>4
  <2>. QED BY <2>3, <2>4, <2>5 DEF InOrder
<1>. QED BY <1>1, <1>2 DEF Sorted

LEMMA OrderedCounts ==
  ASSUME NEW sl, NEW pos, Shape(sl), Numbered(sl, pos)
  PROVE  IsFiniteSet(Nodes(sl)) /\ Cardinality(Nodes(sl)) = sl.length
<1> DEFINE f == [p \in 1 .. sl.length |-> NodeAt(sl, pos, p)]
<1>1. ASSUME NEW p \in 1 .. sl.length PROVE f[p] \in Nodes(sl) /\ pos[f[p]] = p
  <2>1. p \in 0 .. sl.length /\ p # 0
    BY DEF Shape
  <2>. QED BY <2>1, NodeAtIs
<1>2. ASSUME NEW a \in Nodes(sl) PROVE \E p \in 1 .. sl.length : f[p] = a
  <2>1. a \in DOMAIN sl.node /\ pos[a] \in 1 .. sl.length /\ pos[a] \in 0 .. sl.length
    BY PlacesAreNumbers DEF Nodes, Shape
  <2>2. f[pos[a]] = a
    BY <2>1, NodeAtIs
  <2>. QED BY <2>1, <2>2
<1>3. f \in [1 .. sl.length -> Nodes(sl)]
  BY <1>1
<1>4. \A i, j \in 1 .. sl.length : f[i] = f[j] => i = j
  BY <1>1
<1>5. sl.length \in Nat
  BY DEF Shape
<1>6. PICK n \in Nat : n = sl.length
  BY <1>5
<1>7. PICK S : S = Nodes(sl)
  OBVIOUS
<1>8. PICK g : g = f
  OBVIOUS
<1>. HIDE DEF f
<1>9. g \in [1 .. n -> S]
  BY <1>3, <1>6, <1>7, <1>8
<1>10. \A i, j \in 1 .. n : g[i] = g[j] => i = j
  BY <1>4, <1>6, <1>8
<1>11. \A a \in S : \E p \in 1 .. n : g[p] = a
  BY <1>2, <1>6, <1>7, <1>8
<1>12. IsFiniteSet(S) /\ Cardinality(S) = n
  BY <1>9, <1>10, <1>11, CountIs
<1>. QED BY <1>6, <1>7, <1>12

LEMMA OrderedMirrors ==
  ASSUME NEW sl, NEW pos, Ordered(sl, pos)
  PROVE  BackwardMirrorsForward(sl)
<1>. Shape(sl) /\ Numbered(sl, pos) /\ Chained(sl, pos) /\ Mirrored(sl, pos)
  BY DEF Ordered
<1>0. sl.length \in Nat
  BY DEF Shape
<1>1. PICK c : c = Chain(sl)
  OBVIOUS
<1>2. DOMAIN c = 1 .. sl.length /\ \A p \in 1 .. sl.length : c[p] = NodeAt(sl, pos, p)
  BY <1>1, ChainIs
<1>3. ASSUME NEW p \in 1 .. sl.length
      PROVE  /\ c[p] \in Nodes(sl) /\ pos[c[p]] = p
             /\ \A a \in DOMAIN sl.node : pos[a] = p => a = c[p]
  <2>1. p \in 0 .. sl.length /\ p # 0
    BY <1>0
  <2>. QED BY <1>2, <2>1, NodeAtIs
<1>4. sl.length = Cardinality(Nodes(sl))
  BY OrderedCounts
<1>5. {c[p] : p \in DOMAIN c} = Nodes(sl)
  <2>1. ASSUME NEW a \in Nodes(sl) PROVE \E p \in 1 .. sl.length : c[p] = a
    <3>1. a \in DOMAIN sl.node /\ pos[a] \in 1 .. sl.length
      BY <1>0, PlacesAreNumbers DEF Nodes
    <3>. QED BY <1>3, <3>1
  <2>. QED BY <1>2, <1>3, <2>1
<1>6. After(sl)[sl.length + 1] = nullptr
  <2>1. sl.length + 1 \in Nat /\ ~(sl.length + 1 <= sl.length)
    BY <1>0
  <2>. QED BY <2>1, AfterIs
<1>7. ASSUME NEW p \in DOMAIN c PROVE sl.node[c[p]].backward = IF p = 1 THEN nullptr ELSE c[p - 1]
  <2>1. p \in 1 .. sl.length /\ c[p] \in Nodes(sl) /\ pos[c[p]] = p
    BY <1>2, <1>3
  <2>2. PICK b : b = sl.node[c[p]].backward
    OBVIOUS
  <2>3. \/ p = 1 /\ b = nullptr
        \/ b \in Nodes(sl) /\ pos[b] = p - 1
    BY <2>1, <2>2 DEF Mirrored
  <2>4. CASE p = 1
    <3>1. b \in Nodes(sl) => pos[b] # 0
      BY PlacesAreNumbers DEF Nodes
    <3>. QED BY <2>2, <2>3, <2>4, <3>1
  <2>5. CASE p # 1
    <3>1. p - 1 \in 1 .. sl.length /\ b \in DOMAIN sl.node /\ pos[b] = p - 1
      BY <1>0, <2>1, <2>3, <2>5 DEF Nodes
    <3>. QED BY <1>3, <2>2, <2>5, <3>1
  <2>. QED BY <2>4, <2>5
<1>8. sl.tail = IF sl.length = 0 THEN nullptr ELSE c[sl.length]
  <2>1. CASE sl.length = 0
    <3>1. sl.tail \notin Nodes(sl) \/ pos[sl.tail] # sl.length
      BY <2>1, PlacesAreNumbers DEF Nodes
    <3>. QED BY <2>1, <3>1 DEF Mirrored
  <2>2. CASE sl.length # 0
    <3>1. sl.tail \in DOMAIN sl.node /\ pos[sl.tail] = sl.length /\ sl.length \in 1 .. sl.length
      BY <1>0, <2>2 DEF Mirrored, Nodes
    <3>. QED BY <1>3, <2>2, <3>1
  <2>. QED BY <2>1, <2>2
<1>9. \A n \in Nodes(sl) : DOMAIN sl.node[n].level \subseteq 1 .. sl.level
  BY DEF Shape
<1>. QED BY <1>1, <1>4, <1>5, <1>6, <1>7, <1>8, <1>9 DEF BackwardMirrorsForward

-----------------------------------------------------------------------------
(* The sorted set: its list is in order, and in step with its dictionary.  *)

ZsetNodes(z) == \A n \in Nodes(z.sl) : z.sl.node[n].obj \in Member /\ ScoreOf(z, n) \in Score
ZsetDict(z)  == z.dict \in [DOMAIN z.dict -> Score] /\ DOMAIN z.dict \subseteq Member

ZsetInv(z) ==
  /\ z = [type |-> "zset", sl |-> z.sl, dict |-> z.dict]
  /\ ZsetDict(z) /\ ZsetNodes(z)
  /\ \E pos : Ordered(z.sl, pos)
  /\ InStepButForRounding(z)

LEMMA NewZsetIs == ZsetInv(NewZset)
<1>1. NewZset = [type |-> "zset", sl |-> slEmpty, dict |-> [m \in {} |-> 0]]
  BY DEF NewZset
<1>. HIDE DEF NewZset
<1>2. NewZset.sl = slEmpty /\ DOMAIN NewZset.dict = {} /\ NewZset.dict = [m \in {} |-> 0]
  BY <1>1
<1>3. Nodes(NewZset.sl) = {}
  <2>1. DOMAIN slEmpty.node = {header}
    BY DEF slEmpty
  <2>. QED BY <1>2, <2>1 DEF Nodes
<1>4. NewZset = [type |-> "zset", sl |-> NewZset.sl, dict |-> NewZset.dict]
  BY <1>1, <1>2
<1>5. ZsetDict(NewZset)
  BY <1>2 DEF ZsetDict
<1>. QED BY <1>2, <1>3, <1>4, <1>5, EmptyIsOrdered DEF ZsetInv, ZsetNodes, InStepButForRounding

(* Once the old node of m is deleted, no node whose score survives is left *)
(* of m, and nothing else has changed.                                     *)
LEMMA DeletedIs ==
  ASSUME NEW z, ZsetInv(z), NEW m \in Member, NEW t, t = Deleted(z, m)
  PROVE  /\ \E pos : Ordered(t, pos)
         /\ Nodes(t) \subseteq Nodes(z.sl)
         /\ \A a \in Nodes(t) : t.node[a].obj = z.sl.node[a].obj /\ t.node[a].score = z.sl.node[a].score
         /\ \A a \in Nodes(z.sl) : z.sl.node[a].obj # m => a \in Nodes(t)
         /\ \A a \in Nodes(t) : t.node[a].obj = m => ~Exact(t.node[a].score)
<1>1. PICK pos : Ordered(z.sl, pos)
  BY DEF ZsetInv
<1>2. CASE m \notin DOMAIN z.dict
  <2>1. t = z.sl
    BY <1>2 DEF Deleted
  <2>2. \A a \in Nodes(t) : t.node[a].obj = m => ~Exact(t.node[a].score)
    BY <1>2, <2>1 DEF ZsetInv, InStepButForRounding, ScoreOf
  <2>. QED BY <1>1, <2>1, <2>2
<1>3. CASE m \in DOMAIN z.dict
  <2>1. t = slDelete(z.sl, z.dict[m], m) /\ z.dict[m] \in Int /\ m \in Nat
    BY <1>3, OrderAssumption DEF Deleted, ZsetInv, ZsetDict
  <2>2. /\ \E q : Ordered(t, q)
        /\ \/ t = z.sl /\ \A a \in Nodes(z.sl) : ~Matches(z.sl, a, z.dict[m], m)
           \/ \E x \in Nodes(z.sl) : Matches(z.sl, x, z.dict[m], m) /\ Nodes(t) = Nodes(z.sl) \ {x}
        /\ \A a \in Nodes(t) : t.node[a].obj = z.sl.node[a].obj /\ t.node[a].score = z.sl.node[a].score
    BY <1>1, <2>1, DeleteKeepsOrder
  <2>3. ASSUME NEW a \in Nodes(z.sl), z.sl.node[a].obj = m, Exact(z.sl.node[a].score)
        PROVE  Matches(z.sl, a, z.dict[m], m) /\ \A k \in Nodes(z.sl) : Matches(z.sl, k, z.dict[m], m) => k = a
    <3>1. /\ z.dict[m] = z.sl.node[a].score
          /\ \A k \in NodesOf(z, m) \ {a} : ~Exact(ScoreOf(z, k))
      BY <2>3 DEF ZsetInv, InStepButForRounding, ScoreOf
    <3>2. Matches(z.sl, a, z.dict[m], m)
      BY <2>3, <3>1 DEF Matches
    <3>3. ASSUME NEW k \in Nodes(z.sl), Matches(z.sl, k, z.dict[m], m) PROVE k = a
      BY <2>3, <3>1, <3>3 DEF Matches, NodesOf, ScoreOf
    <3>. QED BY <3>2, <3>3
  <2>4. CASE t = z.sl /\ \A a \in Nodes(z.sl) : ~Matches(z.sl, a, z.dict[m], m)
    BY <2>2, <2>3, <2>4
  <2>5. CASE \E x \in Nodes(z.sl) : Matches(z.sl, x, z.dict[m], m) /\ Nodes(t) = Nodes(z.sl) \ {x}
    <3>1. PICK x \in Nodes(z.sl) : Matches(z.sl, x, z.dict[m], m) /\ Nodes(t) = Nodes(z.sl) \ {x}
      BY <2>5
    <3>2. z.sl.node[x].obj = m
      BY <3>1 DEF Matches
    <3>3. ASSUME NEW a \in Nodes(t), t.node[a].obj = m, Exact(t.node[a].score) PROVE FALSE
      <4>1. a \in Nodes(z.sl) /\ a # x /\ z.sl.node[a].obj = m /\ Exact(z.sl.node[a].score)
        BY <2>2, <3>1, <3>3
      <4>. QED BY <2>3, <3>1, <4>1
    <3>. QED BY <2>2, <3>1, <3>2, <3>3
  <2>. QED BY <2>2, <2>4, <2>5
<1>. QED BY <1>2, <1>3

LEMMA AddKeepsStep ==
  ASSUME NEW z, ZsetInv(z), NEW m \in Member, NEW score \in Score, NEW n \in FreeFor(z, m),
         NEW lv \in 1 .. MaxLevel
  PROVE  ZsetInv(ZsetAdd(z, m, score, n, lv))
<1>1. PICK t : t = Deleted(z, m)
  OBVIOUS
<1>2. /\ \E pos : Ordered(t, pos)
      /\ Nodes(t) \subseteq Nodes(z.sl)
      /\ \A a \in Nodes(t) : t.node[a].obj = z.sl.node[a].obj /\ t.node[a].score = z.sl.node[a].score
      /\ \A a \in Nodes(z.sl) : z.sl.node[a].obj # m => a \in Nodes(t)
      /\ \A a \in Nodes(t) : t.node[a].obj = m => ~Exact(t.node[a].score)
  BY <1>1, DeletedIs
<1>3. PICK y : y = ZsetAdd(z, m, score, n, lv)
  OBVIOUS
<1>4. /\ y.sl = slInsert(t, n, score, m, lv)
      /\ y.dict = [x \in DOMAIN z.dict \cup {m} |-> IF x = m THEN ReadBack[score] ELSE z.dict[x]]
      /\ y = [type |-> "zset", sl |-> y.sl, dict |-> y.dict]
  <2>1. PICK sl, dict : z = [type |-> "zset", sl |-> sl, dict |-> dict]
    BY DEF ZsetInv
  <2>. QED BY <1>1, <1>3, <2>1 DEF ZsetAdd
<1>5. n \in Address /\ n \notin Nodes(t) /\ n \notin DOMAIN t.node
  BY <1>1, NullIsNowhere DEF FreeFor, Nodes
<1>6. score \in Int /\ m \in Nat \ {NoObj} /\ ReadBack[score] \in Score
  BY OrderAssumption, ReadBackAssumption
<1>7. /\ \E q : Ordered(y.sl, q)
      /\ Nodes(y.sl) = Nodes(t) \cup {n}
      /\ y.sl.node[n].obj = m /\ y.sl.node[n].score = score
      /\ \A a \in Nodes(t) : y.sl.node[a].obj = t.node[a].obj /\ y.sl.node[a].score = t.node[a].score
  BY <1>2, <1>4, <1>5, <1>6, InsertKeepsOrder
<1>8. ZsetDict(y)
  BY <1>4, <1>6 DEF ZsetInv, ZsetDict
<1>9. ZsetNodes(y)
  BY <1>2, <1>7 DEF ZsetInv, ZsetNodes, ScoreOf
<1>10. ASSUME NEW x \in DOMAIN y.dict PROVE \E k \in NodesOf(y, x) : ReadBack[ScoreOf(y, k)] = y.dict[x]
  <2>1. CASE x = m
    BY <1>4, <1>7, <2>1 DEF NodesOf, ScoreOf
  <2>2. CASE x # m
    <3>1. x \in DOMAIN z.dict /\ y.dict[x] = z.dict[x]
      BY <1>4, <2>2
    <3>2. PICK k \in NodesOf(z, x) : ReadBack[ScoreOf(z, k)] = z.dict[x]
      BY <3>1 DEF ZsetInv, InStepButForRounding
    <3>3. k \in Nodes(t) /\ z.sl.node[k].obj = x
      BY <1>2, <2>2 DEF NodesOf
    <3>. QED BY <1>2, <1>7, <3>1, <3>2, <3>3 DEF NodesOf, ScoreOf
  <2>. QED BY <2>1, <2>2
<1>11. ASSUME NEW a \in Nodes(y.sl), Exact(ScoreOf(y, a)), NEW x, x = y.sl.node[a].obj
       PROVE  /\ x \in DOMAIN y.dict /\ y.dict[x] = ScoreOf(y, a)
              /\ \A k \in NodesOf(y, x) \ {a} : ~Exact(ScoreOf(y, k))
  <2>1. CASE a = n
    <3>1. x = m /\ ScoreOf(y, a) = score /\ ReadBack[score] = score
      BY <1>7, <1>11, <2>1 DEF ScoreOf, Exact
    <3>2. ASSUME NEW k \in NodesOf(y, m) \ {n} PROVE ~Exact(ScoreOf(y, k))
      <4>1. k \in Nodes(t) /\ t.node[k].obj = m /\ ScoreOf(y, k) = t.node[k].score
        BY <1>7 DEF NodesOf, ScoreOf
      <4>. QED BY <1>2, <4>1
    <3>. QED BY <1>4, <2>1, <3>1, <3>2
  <2>2. CASE a # n
    <3>1. a \in Nodes(t) /\ t.node[a].obj = x /\ t.node[a].score = ScoreOf(y, a)
      BY <1>7, <1>11, <2>2 DEF ScoreOf
    <3>2. x # m
      BY <1>2, <1>11, <3>1
    <3>3. a \in Nodes(z.sl) /\ z.sl.node[a].obj = x /\ ScoreOf(z, a) = ScoreOf(y, a)
      BY <1>2, <3>1 DEF ScoreOf
    <3>4. /\ x \in DOMAIN z.dict /\ z.dict[x] = ScoreOf(z, a)
          /\ \A k \in NodesOf(z, x) \ {a} : ~Exact(ScoreOf(z, k))
      BY <1>11, <3>3 DEF ZsetInv, InStepButForRounding
    <3>5. x \in DOMAIN y.dict /\ y.dict[x] = ScoreOf(y, a)
      BY <1>4, <3>2, <3>3, <3>4
    <3>6. ASSUME NEW k \in NodesOf(y, x) \ {a} PROVE ~Exact(ScoreOf(y, k))
      <4>1. k # n /\ k \in Nodes(t)
        BY <1>7, <3>2 DEF NodesOf
      <4>2. k \in NodesOf(z, x) \ {a} /\ ScoreOf(z, k) = ScoreOf(y, k)
        BY <1>2, <1>7, <4>1 DEF NodesOf, ScoreOf
      <4>. QED BY <3>4, <4>2
    <3>. QED BY <3>5, <3>6
  <2>. QED BY <2>1, <2>2
<1>12. InStepButForRounding(y)
  BY <1>10, <1>11 DEF InStepButForRounding
<1>. QED BY <1>3, <1>4, <1>7, <1>8, <1>9, <1>12 DEF ZsetInv

LEMMA RemKeepsStep ==
  ASSUME NEW z, ZsetInv(z), NEW m \in Member
  PROVE  ZsetInv(ZsetRem(z, m))
<1>1. PICK t : t = Deleted(z, m)
  OBVIOUS
<1>2. /\ \E pos : Ordered(t, pos)
      /\ Nodes(t) \subseteq Nodes(z.sl)
      /\ \A a \in Nodes(t) : t.node[a].obj = z.sl.node[a].obj /\ t.node[a].score = z.sl.node[a].score
      /\ \A a \in Nodes(z.sl) : z.sl.node[a].obj # m => a \in Nodes(t)
      /\ \A a \in Nodes(t) : t.node[a].obj = m => ~Exact(t.node[a].score)
  BY <1>1, DeletedIs
<1>3. PICK y : y = ZsetRem(z, m)
  OBVIOUS
<1>4. /\ y.sl = t
      /\ y.dict = [x \in DOMAIN z.dict \ {m} |-> z.dict[x]]
      /\ y = [type |-> "zset", sl |-> y.sl, dict |-> y.dict]
  <2>1. PICK sl, dict : z = [type |-> "zset", sl |-> sl, dict |-> dict]
    BY DEF ZsetInv
  <2>. QED BY <1>1, <1>3, <2>1 DEF ZsetRem
<1>5. ZsetDict(y)
  BY <1>4 DEF ZsetInv, ZsetDict
<1>6. ZsetNodes(y)
  BY <1>2, <1>4 DEF ZsetInv, ZsetNodes, ScoreOf
<1>7. ASSUME NEW x \in DOMAIN y.dict PROVE \E k \in NodesOf(y, x) : ReadBack[ScoreOf(y, k)] = y.dict[x]
  <2>1. x \in DOMAIN z.dict /\ y.dict[x] = z.dict[x] /\ x # m
    BY <1>4
  <2>2. PICK k \in NodesOf(z, x) : ReadBack[ScoreOf(z, k)] = z.dict[x]
    BY <2>1 DEF ZsetInv, InStepButForRounding
  <2>. QED BY <1>2, <1>4, <2>1, <2>2 DEF NodesOf, ScoreOf
<1>8. ASSUME NEW a \in Nodes(y.sl), Exact(ScoreOf(y, a)), NEW x, x = y.sl.node[a].obj
      PROVE  /\ x \in DOMAIN y.dict /\ y.dict[x] = ScoreOf(y, a)
             /\ \A k \in NodesOf(y, x) \ {a} : ~Exact(ScoreOf(y, k))
  <2>1. x # m
    BY <1>2, <1>4, <1>8 DEF ScoreOf
  <2>2. a \in Nodes(z.sl) /\ z.sl.node[a].obj = x /\ ScoreOf(z, a) = ScoreOf(y, a)
    BY <1>2, <1>4, <1>8 DEF ScoreOf
  <2>3. /\ x \in DOMAIN z.dict /\ z.dict[x] = ScoreOf(z, a)
        /\ \A k \in NodesOf(z, x) \ {a} : ~Exact(ScoreOf(z, k))
    BY <1>8, <2>2 DEF ZsetInv, InStepButForRounding
  <2>4. ASSUME NEW k \in NodesOf(y, x) \ {a} PROVE ~Exact(ScoreOf(y, k))
    <3>1. k \in NodesOf(z, x) \ {a} /\ ScoreOf(z, k) = ScoreOf(y, k)
      BY <1>2, <1>4 DEF NodesOf, ScoreOf
    <3>. QED BY <2>3, <3>1
  <2>. QED BY <1>4, <2>1, <2>2, <2>3, <2>4
<1>9. InStepButForRounding(y)
  BY <1>7, <1>8 DEF InStepButForRounding
<1>. QED BY <1>2, <1>3, <1>4, <1>5, <1>6, <1>9 DEF ZsetInv

LEMMA ZsetInvIsSound ==
  ASSUME NEW z, ZsetInv(z)
  PROVE  /\ Sorted(z.sl) /\ LevelsAreSublists(z.sl) /\ BackwardMirrorsForward(z.sl)
         /\ SpansAreDistances(z.sl) /\ InStepButForRounding(z)
<1>1. PICK pos : Ordered(z.sl, pos)
  BY DEF ZsetInv
<1>. QED BY <1>1, OrderedSorts, OrderedLevels, OrderedMirrors, OrderedSpans DEF ZsetInv

-----------------------------------------------------------------------------
(* Ranks and ranges: what the list answers is what the dictionary says.   *)

ObjAt(sl, pos, p)   == sl.node[NodeAt(sl, pos, p)].obj
ScoreAt(sl, pos, p) == sl.node[NodeAt(sl, pos, p)].score

(* o lists the keys of d once each, by value and then by key.              *)
Lists(o, d, n) ==
  /\ \A p \in 1 .. n : o[p] \in DOMAIN d
  /\ \A m \in DOMAIN d : \E p \in 1 .. n : o[p] = m
  /\ \A p, q \in 1 .. n : p < q => d[o[p]] < d[o[q]] \/ (d[o[p]] = d[o[q]] /\ o[p] < o[q])

Numbers(d) == DOMAIN d \subseteq Nat /\ \A m \in DOMAIN d : d[m] \in Int

LEMMA ListsOnce ==
  ASSUME NEW o, NEW d, NEW n \in Nat, Numbers(d), Lists(o, d, n),
         NEW p \in 1 .. n, NEW q \in 1 .. n, o[p] = o[q]
  PROVE  p = q
<1>1. o[p] \in DOMAIN d /\ o[q] \in DOMAIN d /\ p \in Int /\ q \in Int
  BY DEF Lists
<1>2. o[p] \in Int /\ o[q] \in Int /\ d[o[p]] \in Int /\ d[o[q]] \in Int
  BY <1>1 DEF Numbers
<1>3. ASSUME p < q PROVE FALSE
  BY <1>2, <1>3 DEF Lists
<1>4. ASSUME q < p PROVE FALSE
  BY <1>2, <1>4 DEF Lists
<1>. QED BY <1>1, <1>3, <1>4

(* As many keys are listed at the places above a and up to b as there are  *)
(* places.                                                                 *)
LEMMA CountPlaces ==
  ASSUME NEW o, NEW d, NEW n \in Nat, Numbers(d), Lists(o, d, n),
         NEW a \in 0 .. n, NEW b \in 0 .. n, a <= b,
         NEW S, \A m : m \in S <=> \E p \in a + 1 .. b : o[p] = m
  PROVE  Cardinality(S) = b - a
<1>1. PICK k \in Nat : k = b - a
  OBVIOUS
<1>2. PICK f : f = [i \in 1 .. k |-> o[i + a]]
  OBVIOUS
<1>3. \A i \in 1 .. k : i + a \in a + 1 .. b /\ i + a \in 1 .. n /\ f[i] = o[i + a]
  BY <1>1, <1>2
<1>4. f \in [1 .. k -> S]
  BY <1>2, <1>3
<1>5. ASSUME NEW i \in 1 .. k, NEW j \in 1 .. k, f[i] = f[j] PROVE i = j
  <2>1. i + a = j + a
    BY <1>3, <1>5, ListsOnce
  <2>. QED BY <2>1
<1>6. ASSUME NEW m \in S PROVE \E i \in 1 .. k : f[i] = m
  <2>1. PICK p \in a + 1 .. b : o[p] = m
    OBVIOUS
  <2>2. PICK i \in 1 .. k : i + a = p
    <3>1. p - a \in 1 .. k /\ (p - a) + a = p
      BY <1>1
    <3>. QED BY <3>1
  <2>. QED BY <1>3, <2>1, <2>2
<1>7. Cardinality(S) = k
  BY <1>4, <1>5, <1>6, CountIs
<1>. QED BY <1>1, <1>7

(* The keys before the one at place p are those listed before it.          *)
LEMMA RankIsPlace ==
  ASSUME NEW o, NEW d, NEW n \in Nat, Numbers(d), Lists(o, d, n), NEW p \in 1 .. n
  PROVE  1 + Cardinality({x \in DOMAIN d : \/ d[x] < d[o[p]]
                                           \/ (d[x] = d[o[p]] /\ x < o[p])}) = p
<1>1. PICK S : S = {x \in DOMAIN d : d[x] < d[o[p]] \/ (d[x] = d[o[p]] /\ x < o[p])}
  OBVIOUS
<1>2. p - 1 \in 0 .. n /\ 0 \in 0 .. n /\ 0 <= p - 1 /\ p \in Int
  OBVIOUS
<1>3. ASSUME NEW m PROVE m \in S <=> \E q \in 0 + 1 .. p - 1 : o[q] = m
  <2>1. ASSUME NEW q \in 0 + 1 .. p - 1, o[q] = m PROVE m \in S
    <3>1. q \in 1 .. n /\ q < p
      OBVIOUS
    <3>2. o[q] \in DOMAIN d /\ (d[o[q]] < d[o[p]] \/ (d[o[q]] = d[o[p]] /\ o[q] < o[p]))
      BY <3>1 DEF Lists
    <3>. QED BY <1>1, <2>1, <3>2
  <2>2. ASSUME m \in S PROVE \E q \in 0 + 1 .. p - 1 : o[q] = m
    <3>1. m \in DOMAIN d /\ (d[m] < d[o[p]] \/ (d[m] = d[o[p]] /\ m < o[p]))
      BY <1>1, <2>2
    <3>2. PICK q \in 1 .. n : o[q] = m
      BY <3>1 DEF Lists
    <3>3. o[p] \in Int /\ o[q] \in Int /\ d[o[p]] \in Int /\ d[o[q]] \in Int
      BY DEF Lists, Numbers
    <3>4. q # p
      BY <3>1, <3>2, <3>3
    <3>5. ~(p < q)
      <4>1. ASSUME p < q PROVE FALSE
        <5>1. d[o[p]] < d[o[q]] \/ (d[o[p]] = d[o[q]] /\ o[p] < o[q])
          BY <4>1 DEF Lists
        <5>. QED BY <3>1, <3>2, <3>3, <5>1
      <4>. QED BY <4>1
    <3>6. q \in 0 + 1 .. p - 1
      BY <1>2, <3>4, <3>5
    <3>. QED BY <3>2, <3>6
  <2>. QED BY <2>1, <2>2
<1>4. Cardinality(S) = (p - 1) - 0
  <2>1. PICK a \in 0 .. n, b \in 0 .. n : a = 0 /\ b = p - 1
    BY <1>2
  <2>2. \A m : m \in S <=> \E q \in a + 1 .. b : o[q] = m
    BY <1>3, <2>1
  <2>3. a <= b
    BY <1>2, <2>1
  <2>4. Cardinality(S) = b - a
    BY <2>2, <2>3, CountPlaces
  <2>. QED BY <2>1, <2>4
<1>. QED BY <1>1, <1>2, <1>4

Listed(sl, pos) == [p \in 1 .. sl.length |-> ObjAt(sl, pos, p)]

(* What the nodes hold, in their order, lists the dictionary.              *)
LEMMA NodesListDict ==
  ASSUME NEW z, ZsetInv(z), AllExact(z), NEW pos, Ordered(z.sl, pos),
         NEW o, o = Listed(z.sl, pos)
  PROVE  /\ Numbers(z.dict) /\ Lists(o, z.dict, z.sl.length)
         /\ \A p \in 1 .. z.sl.length : /\ ScoreAt(z.sl, pos, p) = z.dict[o[p]]
                                        /\ NodeAt(z.sl, pos, p) \in Nodes(z.sl)
         /\ \A n \in Nodes(z.sl) : pos[n] \in 1 .. z.sl.length /\ n = NodeAt(z.sl, pos, pos[n])
<1>1. PICK sl, d : sl = z.sl /\ d = z.dict
  OBVIOUS
<1>2. Shape(sl) /\ Numbered(sl, pos) /\ InOrder(sl, pos) /\ sl.length \in Nat
  BY <1>1 DEF Ordered, Shape
<1>3. ASSUME NEW n \in Nodes(sl)
      PROVE  /\ sl.node[n].obj \in DOMAIN d /\ d[sl.node[n].obj] = sl.node[n].score
             /\ sl.node[n].score \in Int
             /\ \A k \in Nodes(sl) : sl.node[k].obj = sl.node[n].obj => k = n
  <2>1. Exact(ScoreOf(z, n)) /\ ScoreOf(z, n) = sl.node[n].score
    BY <1>1 DEF AllExact, ScoreOf
  <2>2. /\ z.sl.node[n].obj \in DOMAIN z.dict /\ z.dict[z.sl.node[n].obj] = ScoreOf(z, n)
        /\ \A k \in NodesOf(z, z.sl.node[n].obj) \ {n} : ~Exact(ScoreOf(z, k))
    BY <1>1, <2>1 DEF ZsetInv, InStepButForRounding
  <2>3. ASSUME NEW k \in Nodes(sl), sl.node[k].obj = sl.node[n].obj, k # n PROVE FALSE
    <3>1. k \in NodesOf(z, z.sl.node[n].obj)
      BY <1>1, <2>3 DEF NodesOf
    <3>2. Exact(ScoreOf(z, k))
      BY <1>1 DEF AllExact
    <3>. QED BY <2>2, <2>3, <3>1, <3>2
  <2>4. ScoreOf(z, n) \in Int
    BY <1>1, OrderAssumption DEF ZsetInv, ZsetNodes
  <2>. QED BY <1>1, <2>1, <2>2, <2>3, <2>4
<1>4. ASSUME NEW m \in DOMAIN d PROVE \E n \in Nodes(sl) : sl.node[n].obj = m
  BY <1>1 DEF ZsetInv, InStepButForRounding, NodesOf
<1>5. Numbers(d)
  <2>1. DOMAIN d \subseteq Nat
    BY <1>1, OrderAssumption DEF ZsetInv, ZsetDict
  <2>2. ASSUME NEW m \in DOMAIN d PROVE d[m] \in Int
    BY <1>3, <1>4
  <2>. QED BY <2>1, <2>2 DEF Numbers
<1>6. ASSUME NEW p \in 1 .. sl.length
      PROVE  /\ NodeAt(sl, pos, p) \in Nodes(sl) /\ pos[NodeAt(sl, pos, p)] = p
             /\ o[p] = sl.node[NodeAt(sl, pos, p)].obj
  <2>1. p \in 0 .. sl.length /\ p # 0
    BY <1>2
  <2>. QED BY <1>1, <1>2, <2>1, NodeAtIs DEF ObjAt, Listed
<1>7. ASSUME NEW n \in Nodes(sl) PROVE pos[n] \in 1 .. sl.length /\ n = NodeAt(sl, pos, pos[n])
  <2>1. n \in DOMAIN sl.node /\ pos[n] \in 1 .. sl.length /\ pos[n] \in 0 .. sl.length
    BY <1>2, PlacesAreNumbers DEF Nodes
  <2>. QED BY <1>2, <2>1, NodeAtIs
<1>8. \A p \in 1 .. sl.length : o[p] \in DOMAIN d
  BY <1>3, <1>6
<1>9. ASSUME NEW m \in DOMAIN d PROVE \E p \in 1 .. sl.length : o[p] = m
  <2>1. PICK n \in Nodes(sl) : sl.node[n].obj = m
    BY <1>4
  <2>2. pos[n] \in 1 .. sl.length /\ n = NodeAt(sl, pos, pos[n])
    BY <1>7
  <2>. QED BY <1>6, <2>1, <2>2
<1>10. ASSUME NEW p \in 1 .. sl.length, NEW q \in 1 .. sl.length, p < q
       PROVE  d[o[p]] < d[o[q]] \/ (d[o[p]] = d[o[q]] /\ o[p] < o[q])
  <2>1. PICK a \in Nodes(sl) : a = NodeAt(sl, pos, p) /\ pos[a] = p /\ o[p] = sl.node[a].obj
    BY <1>6
  <2>2. PICK b \in Nodes(sl) : b = NodeAt(sl, pos, q) /\ pos[b] = q /\ o[q] = sl.node[b].obj
    BY <1>6
  <2>3. ~Precedes(sl, b, sl.node[a].score, sl.node[a].obj)
    BY <1>2, <1>10, <2>1, <2>2 DEF InOrder
  <2>4. o[p] # o[q]
    <3>1. a # b
      BY <1>10, <2>1, <2>2
    <3>. QED BY <1>3, <2>1, <2>2, <3>1
  <2>5. o[p] \in Int /\ o[q] \in Int
    <3>1. o[p] \in DOMAIN d /\ o[q] \in DOMAIN d
      BY <1>8
    <3>2. DOMAIN d \subseteq Int
      BY <1>5 DEF Numbers
    <3>. QED BY <3>1, <3>2
  <2>6. d[o[p]] = sl.node[a].score /\ d[o[q]] = sl.node[b].score /\ d[o[p]] \in Int /\ d[o[q]] \in Int
    BY <1>3, <2>1, <2>2
  <2>. QED BY <2>1, <2>2, <2>3, <2>4, <2>5, <2>6 DEF Precedes
<1>11. Lists(o, d, sl.length)
  BY <1>8, <1>9, <1>10 DEF Lists
<1>12. ASSUME NEW p \in 1 .. sl.length PROVE ScoreAt(sl, pos, p) = d[o[p]] /\ NodeAt(sl, pos, p) \in Nodes(sl)
  BY <1>3, <1>6 DEF ScoreAt
<1>. QED BY <1>1, <1>5, <1>7, <1>11, <1>12

(* On every level the descent has stopped where the last passable node is. *)
LEMMA DescentStops ==
  ASSUME NEW sl, NEW pos, Ordered(sl, pos), NEW S, NEW R, NEW k \in Nat, PassesTo(sl, pos, S, R, k),
         NEW i \in 1 .. sl.level
  PROVE  /\ LastOn(sl, pos, i, k, Descent(sl, S, R)[i].at)
         /\ Descent(sl, S, R)[i].rank = pos[Descent(sl, S, R)[i].at]
<1>1. Shape(sl) /\ Numbered(sl, pos) /\ Chained(sl, pos)
  BY DEF Ordered
<1>2. PICK b : LastOn(sl, pos, i, k, b) /\ Descent(sl, S, R)[i] = Point(b, pos[b])
  BY <1>1, DescentIs
<1>3. Point(b, pos[b]).at = b /\ Point(b, pos[b]).rank = pos[b]
  BY DEF Point
<1>. QED BY <1>2, <1>3

LEMMA LastOnLowest ==
  ASSUME NEW sl, NEW pos, Ordered(sl, pos), NEW k \in 0 .. sl.length, NEW b, LastOn(sl, pos, 1, k, b)
  PROVE  b = NodeAt(sl, pos, k) /\ pos[b] = k
<1>1. Shape(sl) /\ Numbered(sl, pos)
  BY DEF Ordered
<1>2. PICK a : a = NodeAt(sl, pos, k)
  OBVIOUS
<1>3. a \in DOMAIN sl.node /\ pos[a] = k /\ \A c \in DOMAIN sl.node : pos[c] = k => c = a
  BY <1>1, <1>2, NodeAtIs
<1>4. a \in OnLevel(sl, 1)
  BY <1>1, <1>3, OnLowest
<1>5. b \in DOMAIN sl.node /\ pos[b] \in Nat /\ k \in Nat /\ pos[b] <= k /\ k <= pos[b]
  <2>1. b \in DOMAIN sl.node /\ pos[b] <= k /\ pos[a] <= pos[b]
    BY <1>3, <1>4 DEF LastOn, OnLevel
  <2>. QED BY <1>1, <1>3, <2>1, PlacesAreNumbers
<1>. QED BY <1>2, <1>3, <1>5

LEMMA GetRankIs ==
  ASSUME NEW sl, NEW pos, Ordered(sl, pos), NEW n \in Nodes(sl), NEW score, NEW member,
         Matches(sl, n, score, member), \A k : Matches(sl, k, score, member) => k = n
  PROVE  slGetRank(sl, score, member) = pos[n]
<1>1. /\ Shape(sl) /\ Numbered(sl, pos) /\ InOrder(sl, pos)
      /\ \A a \in Nodes(sl) : /\ sl.node[a].score \in Int /\ sl.node[a].obj \in Nat
                              /\ pos[a] \in Nat /\ a \in DOMAIN sl.node /\ pos[a] <= sl.length
  BY PlacesAreNumbers DEF Ordered, Shape, IsNode, Nodes
<1>2. score = sl.node[n].score /\ member = sl.node[n].obj
  BY DEF Matches
<1>3. PICK S : S = {k \in Nodes(sl) : Precedes(sl, k, score, member) \/ Matches(sl, k, score, member)}
  OBVIOUS
<1>4. ASSUME NEW k \in Nodes(sl) PROVE k \in S /\ pos[k] \in Int <=> pos[k] <= pos[n]
  <2>1. ASSUME k \in S PROVE pos[k] <= pos[n]
    <3>1. CASE Matches(sl, k, score, member)
      BY <1>1, <3>1
    <3>2. CASE Precedes(sl, k, score, member)
      BY <1>1, <1>2, <3>2 DEF InOrder
    <3>. QED BY <1>3, <2>1, <3>1, <3>2
  <2>2. ASSUME pos[k] <= pos[n] PROVE k \in S
    <3>1. CASE pos[k] = pos[n]
      <4>1. k = n
        BY <1>1, <3>1 DEF Numbered
      <4>. QED BY <1>3, <4>1
    <3>2. CASE pos[k] < pos[n]
      <4>1. ~Precedes(sl, n, sl.node[k].score, sl.node[k].obj)
        BY <1>1, <3>2 DEF InOrder
      <4>2. Precedes(sl, k, score, member) \/ Matches(sl, k, score, member)
        BY <1>1, <1>2, <4>1 DEF Precedes, Matches
      <4>. QED BY <1>3, <4>2
    <3>. QED BY <1>1, <2>2, <3>1, <3>2
  <2>. QED BY <1>1, <2>1, <2>2
<1>5. PassesTo(sl, pos, S, Int, pos[n])
  <2>1. nullptr \notin S
    BY <1>1, <1>3, NullIsNowhere DEF Shape
  <2>. QED BY <1>4, <2>1 DEF PassesTo
<1>6. PICK path : path = Descend(sl, S)
  OBVIOUS
<1>7. \A i \in 1 .. sl.level : LastOn(sl, pos, i, pos[n], path[i].at) /\ path[i].rank = pos[path[i].at]
  <2>1. pos[n] \in Nat
    BY <1>1
  <2>. QED BY <1>5, <1>6, <2>1, DescentStops DEF Descend
<1>8. PICK hits : hits = {i \in 1 .. sl.level : Matches(sl, path[i].at, score, member)}
  OBVIOUS
<1>9. sl.level \in Nat /\ 1 \in 1 .. sl.level
  BY <1>1, LevelAssumption DEF Shape
<1>10. 1 \in hits
  <2>1. pos[n] \in 0 .. sl.length /\ LastOn(sl, pos, 1, pos[n], path[1].at)
    BY <1>1, <1>7, <1>9
  <2>2. pos[path[1].at] = pos[n] /\ path[1].at \in DOMAIN sl.node
    BY <2>1, LastOnLowest DEF LastOn, OnLevel
  <2>3. path[1].at = n
    BY <1>1, <2>2 DEF Numbered
  <2>. QED BY <1>8, <1>9, <2>3
<1>11. hits \in SUBSET Nat /\ hits # {} /\ \A x \in hits : x <= sl.level
  BY <1>8, <1>9, <1>10
<1>12. Max(hits) \in hits
  BY <1>9, <1>11, MaxOfSet
<1>13. path[Max(hits)].at = n /\ path[Max(hits)].rank = pos[n]
  <2>1. PICK i : i = Max(hits)
    OBVIOUS
  <2>2. i \in 1 .. sl.level /\ Matches(sl, path[i].at, score, member)
    BY <1>8, <1>12, <2>1
  <2>. QED BY <1>7, <2>1, <2>2
<1>14. slGetRank(sl, score, member) = IF hits = {} THEN 0 ELSE path[Max(hits)].rank
  BY <1>3, <1>6, <1>8 DEF slGetRank
<1>. QED BY <1>11, <1>13, <1>14

LEMMA GetByRankIs ==
  ASSUME NEW sl, NEW pos, Ordered(sl, pos), NEW rank \in Nat
  PROVE  slGetElementByRank(sl, rank) = IF rank <= sl.length THEN NodeAt(sl, pos, rank) ELSE nullptr
<1>1. /\ Shape(sl) /\ Numbered(sl, pos) /\ sl.length \in Nat
      /\ \A a \in DOMAIN sl.node : pos[a] \in Nat /\ pos[a] <= sl.length
  BY PlacesAreNumbers DEF Ordered, Shape
<1>2. PassesTo(sl, pos, Nodes(sl), 0 .. rank, rank)
  <2>1. nullptr \notin Nodes(sl)
    BY <1>1, NullIsNowhere DEF Shape
  <2>2. \A n \in Nodes(sl) : n \in Nodes(sl) /\ pos[n] \in 0 .. rank <=> pos[n] <= rank
    BY <1>1 DEF Nodes
  <2>. QED BY <2>1, <2>2 DEF PassesTo
<1>3. PICK path : path = Descent(sl, Nodes(sl), 0 .. rank)
  OBVIOUS
<1>4. \A i \in 1 .. sl.level : LastOn(sl, pos, i, rank, path[i].at) /\ path[i].rank = pos[path[i].at]
  BY <1>2, <1>3, DescentStops
<1>5. PICK hits : hits = {i \in 1 .. sl.level : path[i].rank = rank}
  OBVIOUS
<1>6. sl.level \in Nat /\ 1 \in 1 .. sl.level
  BY <1>1, LevelAssumption DEF Shape
<1>7. slGetElementByRank(sl, rank) = IF hits = {} THEN nullptr ELSE path[Max(hits)].at
  BY <1>3, <1>5 DEF slGetElementByRank
<1>8. CASE rank <= sl.length
  <2>1. rank \in 0 .. sl.length
    BY <1>1, <1>8
  <2>2. path[1].rank = rank
    BY <1>4, <1>6, <2>1, LastOnLowest
  <2>3. hits \in SUBSET Nat /\ hits # {} /\ \A x \in hits : x <= sl.level
    BY <1>5, <1>6, <2>2
  <2>4. PICK i : i = Max(hits)
    OBVIOUS
  <2>5. i \in hits
    BY <1>6, <2>3, <2>4, MaxOfSet
  <2>6. path[i].at \in DOMAIN sl.node /\ pos[path[i].at] = rank
    <3>1. i \in 1 .. sl.level /\ path[i].rank = rank
      BY <1>5, <2>5
    <3>. QED BY <1>4, <3>1 DEF LastOn, OnLevel
  <2>7. path[i].at = NodeAt(sl, pos, rank)
    BY <1>1, <2>1, <2>6, NodeAtIs
  <2>. QED BY <1>7, <1>8, <2>3, <2>4, <2>7
<1>9. CASE ~(rank <= sl.length)
  <2>1. ASSUME NEW i \in hits PROVE FALSE
    <3>1. i \in 1 .. sl.level /\ path[i].rank = rank
      BY <1>5
    <3>2. path[i].at \in DOMAIN sl.node /\ pos[path[i].at] = rank
      BY <1>4, <3>1 DEF LastOn, OnLevel
    <3>. QED BY <1>1, <1>9, <3>2
  <2>. QED BY <1>7, <1>9, <2>1
<1>. QED BY <1>8, <1>9


RangeSpec(r) == r.min \in Int /\ r.max \in Int /\ r.minex \in BOOLEAN /\ r.maxex \in BOOLEAN

(* The nodes after place lo are not below the range, those up to place hi  *)
(* are not above it.                                                       *)
Between(sl, pos, r, lo, hi) ==
  \A n \in Nodes(sl) : /\ slValueGteMin(sl.node[n].score, r) <=> lo < pos[n]
                       /\ slValueLteMax(sl.node[n].score, r) <=> pos[n] <= hi

LEMMA BetweenExists ==
  ASSUME NEW sl, NEW pos, Ordered(sl, pos), NEW r, RangeSpec(r)
  PROVE  \E lo, hi \in 0 .. sl.length : Between(sl, pos, r, lo, hi)
<1>1. /\ Shape(sl) /\ Numbered(sl, pos) /\ InOrder(sl, pos)
      /\ \A a \in Nodes(sl) : /\ sl.node[a].score \in Int /\ pos[a] \in Nat
  BY PlacesAreNumbers DEF Ordered, Shape, IsNode, Nodes
<1>2. PICK S : S = {n \in Nodes(sl) : ~slValueGteMin(sl.node[n].score, r)}
  OBVIOUS
<1>3. PICK T : T = {n \in Nodes(sl) : slValueLteMax(sl.node[n].score, r)}
  OBVIOUS
<1>4. ASSUME NEW a \in Nodes(sl), NEW b \in Nodes(sl), pos[a] < pos[b]
      PROVE  sl.node[a].score <= sl.node[b].score
  <2>1. ~Precedes(sl, b, sl.node[a].score, sl.node[a].obj)
    BY <1>1, <1>4 DEF InOrder
  <2>. QED BY <1>1, <2>1 DEF Precedes
<1>5. ASSUME NEW a \in Nodes(sl), NEW b \in Nodes(sl), pos[a] < pos[b]
      PROVE  (b \in S => a \in S) /\ (b \in T => a \in T)
  <2>1. /\ ~slValueGteMin(sl.node[b].score, r) => ~slValueGteMin(sl.node[a].score, r)
        /\ slValueLteMax(sl.node[b].score, r) => slValueLteMax(sl.node[a].score, r)
    BY <1>1, <1>4, <1>5 DEF RangeSpec, slValueGteMin, slValueLteMax
  <2>. QED BY <1>2, <1>3, <2>1
<1>6. PICK lo \in 0 .. sl.length : PassesTo(sl, pos, S, Int, lo)
  BY <1>1, <1>2, <1>5, PrefixIs
<1>7. PICK hi \in 0 .. sl.length : PassesTo(sl, pos, T, Int, hi)
  BY <1>1, <1>3, <1>5, PrefixIs
<1>8. ASSUME NEW n \in Nodes(sl)
      PROVE  /\ slValueGteMin(sl.node[n].score, r) <=> lo < pos[n]
             /\ slValueLteMax(sl.node[n].score, r) <=> pos[n] <= hi
  <2>1. n \in S <=> pos[n] <= lo
    BY <1>1, <1>6 DEF PassesTo
  <2>2. n \in T <=> pos[n] <= hi
    BY <1>1, <1>7 DEF PassesTo
  <2>3. pos[n] <= lo <=> ~(lo < pos[n])
    BY <1>1
  <2>. QED BY <1>2, <1>3, <2>1, <2>2, <2>3
<1>. QED BY <1>8 DEF Between

LEMMA FollowIs ==
  ASSUME NEW sl, NEW pos, Ordered(sl, pos), NEW p \in 0 .. sl.length
  PROVE  Follow(sl, NodeAt(sl, pos, p)) = IF p < sl.length THEN NodeAt(sl, pos, p + 1) ELSE nullptr
<1>1. Shape(sl) /\ Numbered(sl, pos) /\ Chained(sl, pos) /\ sl.length \in Nat /\ 1 \in 1 .. sl.level
  BY LevelAssumption DEF Ordered, Shape
<1>2. PICK a : a = NodeAt(sl, pos, p)
  OBVIOUS
<1>3. a \in DOMAIN sl.node /\ pos[a] = p
  BY <1>1, <1>2, NodeAtIs
<1>4. NextOn(sl, pos, 1, a, Follow(sl, a))
  BY <1>1, <1>3, OnLowest DEF Chained, Follow
<1>5. /\ Follow(sl, a) = nullptr => p = sl.length
      /\ Follow(sl, a) # nullptr => Follow(sl, a) \in Nodes(sl) /\ pos[Follow(sl, a)] = p + 1
  BY <1>1, <1>3, <1>4, LowestLink
<1>6. CASE Follow(sl, a) = nullptr
  BY <1>1, <1>2, <1>5, <1>6
<1>7. CASE Follow(sl, a) # nullptr
  <2>1. Follow(sl, a) \in DOMAIN sl.node /\ pos[Follow(sl, a)] = p + 1 /\ p + 1 <= sl.length
    BY <1>1, <1>5, <1>7, PlacesAreNumbers DEF Nodes
  <2>2. p + 1 \in 0 .. sl.length /\ p < sl.length
    BY <1>1, <2>1
  <2>3. Follow(sl, a) = NodeAt(sl, pos, p + 1)
    BY <1>1, <2>1, <2>2, NodeAtIs
  <2>. QED BY <1>2, <2>2, <2>3
<1>. QED BY <1>6, <1>7

(* A list that has nodes has a first and a last one.                       *)
LEMMA EndsAre ==
  ASSUME NEW sl, NEW pos, Ordered(sl, pos)
  PROVE  /\ sl.length = 0 => sl.tail = nullptr
         /\ sl.length # 0 => /\ sl.tail = NodeAt(sl, pos, sl.length)
                             /\ First(sl) = NodeAt(sl, pos, 1)
<1>1. Shape(sl) /\ Numbered(sl, pos) /\ sl.length \in Nat
  BY DEF Ordered, Shape
<1>2. \A n \in Nodes(sl) : n \in DOMAIN sl.node /\ pos[n] # 0
  BY <1>1, PlacesAreNumbers DEF Nodes
<1>3. \/ sl.length = 0 /\ sl.tail = nullptr
      \/ sl.tail \in Nodes(sl) /\ pos[sl.tail] = sl.length
  BY DEF Ordered, Mirrored
<1>4. ASSUME sl.length # 0 PROVE sl.tail = NodeAt(sl, pos, sl.length) /\ First(sl) = NodeAt(sl, pos, 1)
  <2>1. sl.length \in 0 .. sl.length /\ 0 \in 0 .. sl.length /\ 0 < sl.length
    BY <1>1, <1>4
  <2>2. sl.tail = NodeAt(sl, pos, sl.length)
    BY <1>1, <1>2, <1>3, <1>4, <2>1, NodeAtIs
  <2>3. NodeAt(sl, pos, 0) = header
    BY <1>1, <2>1, NodeAtIs
  <2>4. Follow(sl, NodeAt(sl, pos, 0)) = NodeAt(sl, pos, 0 + 1)
    BY <2>1, FollowIs
  <2>5. First(sl) = Follow(sl, header)
    BY DEF First, Follow
  <2>. QED BY <2>2, <2>3, <2>4, <2>5
<1>. QED BY <1>2, <1>3, <1>4

(* Where the two bounds leave nodes, the quick test does not say no; where *)
(* it says yes, there are nodes on both sides.                             *)
LEMMA IsInRangeIs ==
  ASSUME NEW sl, NEW pos, Ordered(sl, pos), NEW r, RangeSpec(r),
         NEW lo \in 0 .. sl.length, NEW hi \in 0 .. sl.length, Between(sl, pos, r, lo, hi)
  PROVE  /\ lo < hi => slIsInRange(sl, r)
         /\ slIsInRange(sl, r) => lo < sl.length /\ 0 < hi
<1>1. Shape(sl) /\ Numbered(sl, pos) /\ sl.length \in Nat
  BY DEF Ordered, Shape
<1>2. ASSUME NEW p \in 1 .. sl.length
      PROVE  /\ NodeAt(sl, pos, p) # nullptr
             /\ ScoreAt(sl, pos, p) \in Int
             /\ slValueGteMin(ScoreAt(sl, pos, p), r) <=> lo < p
             /\ slValueLteMax(ScoreAt(sl, pos, p), r) <=> p <= hi
  <2>1. p \in 0 .. sl.length /\ p # 0
    BY <1>1
  <2>2. PICK n : n = NodeAt(sl, pos, p)
    OBVIOUS
  <2>3. n \in Nodes(sl) /\ pos[n] = p /\ n # nullptr
    BY <1>1, <2>1, <2>2, NodeAtIs
  <2>4. sl.node[n].score \in Int
    BY <1>1, <2>3 DEF Shape, IsNode, Nodes
  <2>. QED BY <2>2, <2>3, <2>4 DEF Between, ScoreAt
<1>3. ASSUME sl.length # 0
      PROVE  /\ sl.tail # nullptr /\ First(sl) # nullptr
             /\ slValueGteMin(sl.node[sl.tail].score, r) <=> lo < sl.length
             /\ slValueLteMax(sl.node[First(sl)].score, r) <=> 1 <= hi
  <2>1. sl.length \in 1 .. sl.length /\ 1 \in 1 .. sl.length
    BY <1>1, <1>3
  <2>2. sl.tail = NodeAt(sl, pos, sl.length) /\ First(sl) = NodeAt(sl, pos, 1)
    BY <1>3, EndsAre
  <2>. QED BY <1>2, <2>1, <2>2 DEF ScoreAt
<1>4. ASSUME lo < hi PROVE slIsInRange(sl, r)
  <2>1. sl.length # 0 /\ lo < sl.length /\ 1 <= hi /\ hi \in 1 .. sl.length
    BY <1>1, <1>4
  <2>2. PICK v \in Int : slValueGteMin(v, r) /\ slValueLteMax(v, r)
    BY <1>2, <1>4, <2>1
  <2>3. ~(r.min > r.max \/ (r.min = r.max /\ (r.minex \/ r.maxex)))
    <3>1. PICK a \in Int, b \in Int : a = r.min /\ b = r.max
      BY DEF RangeSpec
    <3>2. (r.minex => v > a) /\ a <= v
      BY <2>2, <3>1 DEF slValueGteMin
    <3>3. (r.maxex => v < b) /\ v <= b
      BY <2>2, <3>1 DEF slValueLteMax
    <3>4. ~(a > b)
      BY <3>2, <3>3
    <3>5. ASSUME a = b, r.minex PROVE FALSE
      BY <3>2, <3>3, <3>5
    <3>6. ASSUME a = b, r.maxex PROVE FALSE
      BY <3>2, <3>3, <3>6
    <3>. QED BY <3>1, <3>4, <3>5, <3>6
  <2>. QED BY <1>3, <2>1, <2>3 DEF slIsInRange
<1>5. ASSUME slIsInRange(sl, r) PROVE lo < sl.length /\ 0 < hi
  <2>1. sl.tail # nullptr /\ slValueGteMin(sl.node[sl.tail].score, r)
    BY <1>5 DEF slIsInRange
  <2>2. slValueLteMax(sl.node[First(sl)].score, r)
    BY <1>5 DEF slIsInRange
  <2>3. sl.length # 0
    BY <2>1, EndsAre
  <2>. QED BY <1>3, <2>1, <2>2, <2>3
<1>. QED BY <1>4, <1>5


LEMMA FirstInRangeIs ==
  ASSUME NEW sl, NEW pos, Ordered(sl, pos), NEW r, RangeSpec(r),
         NEW lo \in 0 .. sl.length, NEW hi \in 0 .. sl.length, Between(sl, pos, r, lo, hi)
  PROVE  slFirstInRange(sl, r) = IF lo < hi THEN NodeAt(sl, pos, lo + 1) ELSE nullptr
<1>1. /\ Shape(sl) /\ Numbered(sl, pos) /\ sl.length \in Nat /\ nullptr \notin Nodes(sl) /\ 1 \in 1 .. sl.level
      /\ \A n \in Nodes(sl) : pos[n] \in Nat
  BY PlacesAreNumbers, NullIsNowhere, LevelAssumption DEF Ordered, Shape, Nodes
<1>2. PICK S : S = {n \in Nodes(sl) : ~slValueGteMin(sl.node[n].score, r)}
  OBVIOUS
<1>3. PassesTo(sl, pos, S, Int, lo)
  <2>1. \A n \in Nodes(sl) : n \in S /\ pos[n] \in Int <=> pos[n] <= lo
    BY <1>1, <1>2 DEF Between
  <2>. QED BY <1>1, <1>2, <2>1 DEF PassesTo
<1>4. PICK b : b = Descend(sl, S)[1].at
  OBVIOUS
<1>5. b = NodeAt(sl, pos, lo)
  <2>1. LastOn(sl, pos, 1, lo, b)
    BY <1>1, <1>3, <1>4, DescentStops DEF Descend
  <2>. QED BY <2>1, LastOnLowest
<1>6. PICK x : x = Follow(sl, b)
  OBVIOUS
<1>7. x = IF lo < sl.length THEN NodeAt(sl, pos, lo + 1) ELSE nullptr
  BY <1>5, <1>6, FollowIs
<1>8. slFirstInRange(sl, r) = IF slIsInRange(sl, r) /\ x # nullptr /\ slValueLteMax(sl.node[x].score, r)
                              THEN x ELSE nullptr
  BY <1>2, <1>4, <1>6 DEF slFirstInRange
<1>9. CASE lo < sl.length
  <2>1. lo + 1 \in 0 .. sl.length /\ lo + 1 # 0
    BY <1>1, <1>9
  <2>2. x \in Nodes(sl) /\ pos[x] = lo + 1 /\ x # nullptr
    BY <1>1, <1>7, <1>9, <2>1, NodeAtIs
  <2>3. slValueLteMax(sl.node[x].score, r) <=> lo < hi
    BY <1>1, <2>2 DEF Between
  <2>4. lo < hi => slIsInRange(sl, r)
    BY IsInRangeIs
  <2>. QED BY <1>7, <1>8, <1>9, <2>2, <2>3, <2>4
<1>10. CASE ~(lo < sl.length)
  <2>1. ~(lo < hi)
    BY <1>1, <1>10
  <2>. QED BY <1>7, <1>8, <1>10, <2>1
<1>. QED BY <1>9, <1>10

LEMMA LastInRangeIs ==
  ASSUME NEW sl, NEW pos, Ordered(sl, pos), NEW r, RangeSpec(r),
         NEW lo \in 0 .. sl.length, NEW hi \in 0 .. sl.length, Between(sl, pos, r, lo, hi)
  PROVE  slLastInRange(sl, r) = IF lo < hi THEN NodeAt(sl, pos, hi) ELSE nullptr
<1>1. /\ Shape(sl) /\ Numbered(sl, pos) /\ sl.length \in Nat /\ nullptr \notin Nodes(sl) /\ 1 \in 1 .. sl.level
      /\ \A n \in Nodes(sl) : pos[n] \in Nat
  BY PlacesAreNumbers, NullIsNowhere, LevelAssumption DEF Ordered, Shape, Nodes
<1>2. PICK S : S = {n \in Nodes(sl) : slValueLteMax(sl.node[n].score, r)}
  OBVIOUS
<1>3. PassesTo(sl, pos, S, Int, hi)
  <2>1. \A n \in Nodes(sl) : n \in S /\ pos[n] \in Int <=> pos[n] <= hi
    BY <1>1, <1>2 DEF Between
  <2>. QED BY <1>1, <1>2, <2>1 DEF PassesTo
<1>4. PICK x : x = Descend(sl, S)[1].at
  OBVIOUS
<1>5. x = NodeAt(sl, pos, hi)
  <2>1. LastOn(sl, pos, 1, hi, x)
    BY <1>1, <1>3, <1>4, DescentStops DEF Descend
  <2>. QED BY <2>1, LastOnLowest
<1>6. slLastInRange(sl, r) = IF slIsInRange(sl, r) /\ slValueGteMin(sl.node[x].score, r) THEN x ELSE nullptr
  BY <1>2, <1>4 DEF slLastInRange
<1>7. ASSUME 0 < hi PROVE slValueGteMin(sl.node[x].score, r) <=> lo < hi
  <2>1. hi # 0
    BY <1>1, <1>7
  <2>2. x \in Nodes(sl) /\ pos[x] = hi
    BY <1>1, <1>5, <2>1, NodeAtIs
  <2>. QED BY <2>2 DEF Between
<1>8. /\ lo < hi => slIsInRange(sl, r)
      /\ slIsInRange(sl, r) => 0 < hi
  BY IsInRangeIs
<1>9. lo < hi => 0 < hi
  BY <1>1
<1>. QED BY <1>5, <1>6, <1>7, <1>8, <1>9

-----------------------------------------------------------------------------
(* The loop that writes a range out.                                       *)

(* What it writes from place p on: the members of the places up to hi.     *)
Written(sl, pos, hi, p) ==
  [j \in 1 .. (IF p <= hi THEN hi - p + 1 ELSE 0) |-> ObjAt(sl, pos, p + j - 1)]
PlaceFrom(sl, pos, n) == IF n = nullptr THEN sl.length + 1 ELSE pos[n]

LEMMA WrittenGoesOn ==
  ASSUME NEW sl, NEW pos, NEW hi \in Nat, NEW p \in Nat, p <= hi
  PROVE  Written(sl, pos, hi, p) = <<ObjAt(sl, pos, p)>> \o Written(sl, pos, hi, p + 1)
<1>1. PICK V : V = {ObjAt(sl, pos, q) : q \in Nat}
  OBVIOUS
<1>2. PICK m \in Nat : m = hi - p
  OBVIOUS
<1>3. PICK u : u = <<ObjAt(sl, pos, p)>>
  OBVIOUS
<1>4. PICK w : w = Written(sl, pos, hi, p + 1)
  OBVIOUS
<1>5. u \in Seq(V) /\ Len(u) = 1 /\ u[1] = ObjAt(sl, pos, p)
  <2>1. ObjAt(sl, pos, p) \in V
    BY <1>1
  <2>. QED BY <1>3, <2>1
<1>6. w = [j \in 1 .. m |-> ObjAt(sl, pos, p + 1 + j - 1)]
  <2>1. (IF p + 1 <= hi THEN hi - (p + 1) + 1 ELSE 0) = m
    BY <1>2
  <2>. QED BY <1>4, <2>1 DEF Written
<1>7. \A j \in 1 .. m : w[j] = ObjAt(sl, pos, p + j) /\ p + j \in Nat
  <2>1. \A j \in 1 .. m : p + 1 + j - 1 = p + j /\ p + j \in Nat
    OBVIOUS
  <2>. QED BY <1>6, <2>1
<1>8. w \in Seq(V) /\ Len(w) = m
  <2>1. \A j \in 1 .. m : w[j] \in V
    BY <1>1, <1>7
  <2>2. w \in [1 .. m -> V]
    BY <1>6, <2>1
  <2>. QED BY <1>2, <2>2
<1>9. PICK c : c = u \o w
  OBVIOUS
<1>10. /\ c \in Seq(V) /\ Len(c) = 1 + m /\ c[1] = u[1]
       /\ \A i \in 1 .. m : c[i + 1] = w[i]
  <2>1. /\ u \o w \in Seq(V) /\ Len(u \o w) = Len(u) + Len(w)
        /\ \A i \in 1 .. Len(u) : (u \o w)[i] = u[i]
        /\ \A i \in 1 .. Len(w) : (u \o w)[i + Len(u)] = w[i]
    BY <1>5, <1>8, ConcatIs
  <2>. QED BY <1>5, <1>8, <1>9, <2>1
<1>11. PICK e : e = Written(sl, pos, hi, p)
  OBVIOUS
<1>12. e = [j \in 1 .. 1 + m |-> ObjAt(sl, pos, p + j - 1)]
  <2>1. (IF p <= hi THEN hi - p + 1 ELSE 0) = 1 + m
    BY <1>2
  <2>. QED BY <1>11, <2>1 DEF Written
<1>13. ASSUME NEW j \in 1 .. 1 + m PROVE c[j] = e[j]
  <2>1. e[j] = ObjAt(sl, pos, p + j - 1)
    BY <1>12
  <2>2. CASE j = 1
    <3>1. p + j - 1 = p
      BY <2>2
    <3>. QED BY <1>5, <1>10, <2>1, <2>2, <3>1
  <2>3. CASE j # 1
    <3>1. PICK i \in 1 .. m : j = i + 1
      <4>1. j - 1 \in 1 .. m /\ j = (j - 1) + 1
        BY <2>3
      <4>. QED BY <4>1
    <3>2. p + j - 1 = p + i
      BY <3>1
    <3>3. c[j] = w[i] /\ w[i] = ObjAt(sl, pos, p + i)
      BY <1>7, <1>10, <3>1
    <3>. QED BY <2>1, <3>2, <3>3
  <2>. QED BY <2>2, <2>3
<1>14. c = e
  <2>1. c = [j \in 1 .. 1 + m |-> c[j]]
    BY <1>2, <1>10
  <2>. QED BY <1>12, <1>13, <2>1
<1>. QED BY <1>3, <1>4, <1>9, <1>11, <1>14

Writing(f, sl, r) ==
  f = [n \in Nodes(sl) \cup {nullptr} |->
         IF n # nullptr /\ slValueLteMax(sl.node[n].score, r)
         THEN <<sl.node[n].obj>> \o f[Follow(sl, n)] ELSE << >>]

LEMMA UptoIs ==
  ASSUME NEW sl, NEW pos, Ordered(sl, pos), NEW r, RangeSpec(r),
         NEW lo \in 0 .. sl.length, NEW hi \in 0 .. sl.length, Between(sl, pos, r, lo, hi),
         NEW n \in Nodes(sl) \cup {nullptr}
  PROVE  Upto(sl, r)[n] = Written(sl, pos, hi, PlaceFrom(sl, pos, n))
<1> DEFINE N == Nodes(sl) \cup {nullptr}
           e == [x \in N |-> Written(sl, pos, hi, PlaceFrom(sl, pos, x))]
           Onward(f, x) == IF x # nullptr /\ slValueLteMax(sl.node[x].score, r)
                          THEN <<sl.node[x].obj>> \o f[Follow(sl, x)] ELSE << >>
<1>1. /\ Shape(sl) /\ Numbered(sl, pos) /\ sl.length \in Nat /\ nullptr \notin Nodes(sl)
      /\ \A x \in Nodes(sl) : pos[x] \in 1 .. sl.length /\ pos[x] \in 0 .. sl.length /\ x \in DOMAIN sl.node
  BY PlacesAreNumbers, NullIsNowhere DEF Ordered, Shape, Nodes
<1>2. ASSUME NEW x \in Nodes(sl)
      PROVE  Follow(sl, x) \in N /\ PlaceFrom(sl, pos, Follow(sl, x)) = pos[x] + 1
  <2>1. x = NodeAt(sl, pos, pos[x])
    BY <1>1, NodeAtIs
  <2>2. Follow(sl, x) = IF pos[x] < sl.length THEN NodeAt(sl, pos, pos[x] + 1) ELSE nullptr
    BY <1>1, <2>1, FollowIs
  <2>3. CASE pos[x] < sl.length
    <3>1. pos[x] + 1 \in 0 .. sl.length /\ pos[x] + 1 # 0
      BY <1>1, <2>3
    <3>2. PICK q : q = pos[x] + 1
      OBVIOUS
    <3>3. NodeAt(sl, pos, q) \in Nodes(sl) /\ pos[NodeAt(sl, pos, q)] = q /\ NodeAt(sl, pos, q) # nullptr
      BY <1>1, <3>1, <3>2, NodeAtIs
    <3>. QED BY <2>2, <2>3, <3>2, <3>3 DEF PlaceFrom
  <2>4. CASE ~(pos[x] < sl.length)
    BY <1>1, <2>2, <2>4 DEF PlaceFrom
  <2>. QED BY <2>3, <2>4
<1>3. ASSUME NEW x \in N PROVE e[x] = Onward(e, x)
  <2>1. CASE x = nullptr
    <3>1. e[x] = Written(sl, pos, hi, sl.length + 1)
      BY <2>1 DEF PlaceFrom
    <3>2. Written(sl, pos, hi, sl.length + 1) = << >>
      <4>1. ~(sl.length + 1 <= hi)
        BY <1>1
      <4>. QED BY <4>1 DEF Written
    <3>. QED BY <2>1, <3>1, <3>2
  <2>2. CASE x # nullptr
    <3>1. x \in Nodes(sl)
      BY <2>2
    <3>2. PICK p \in Nat : p = pos[x]
      BY <1>1, <3>1
    <3>3. e[x] = Written(sl, pos, hi, p)
      BY <2>2, <3>2 DEF PlaceFrom
    <3>4. slValueLteMax(sl.node[x].score, r) <=> p <= hi
      BY <3>1, <3>2 DEF Between
    <3>5. CASE p <= hi
      <4>1. Written(sl, pos, hi, p) = <<ObjAt(sl, pos, p)>> \o Written(sl, pos, hi, p + 1)
        <5>1. hi \in Nat
          BY <1>1
        <5>. QED BY <3>5, <5>1, WrittenGoesOn
      <4>2. e[Follow(sl, x)] = Written(sl, pos, hi, p + 1)
        BY <1>2, <3>1, <3>2
      <4>3. ObjAt(sl, pos, p) = sl.node[x].obj
        <5>1. x = NodeAt(sl, pos, p)
          BY <1>1, <3>1, <3>2, NodeAtIs
        <5>. QED BY <5>1 DEF ObjAt
      <4>. HIDE DEF e
      <4>. QED BY <2>2, <3>3, <3>4, <3>5, <4>1, <4>2, <4>3
    <3>6. CASE ~(p <= hi)
      <4>1. Written(sl, pos, hi, p) = << >>
        BY <3>6 DEF Written
      <4>. HIDE DEF e
      <4>. QED BY <2>2, <3>3, <3>4, <3>6, <4>1
    <3>. QED BY <3>5, <3>6
  <2>. QED BY <2>1, <2>2
<1>4. Writing(e, sl, r)
  <2>1. e = [x \in N |-> e[x]]
    OBVIOUS
  <2>. HIDE DEF e
  <2>2. e = [x \in N |-> Onward(e, x)]
    BY <1>3, <2>1
  <2>. QED BY <2>2 DEF Writing
<1>5. PICK f : f = Upto(sl, r)
  OBVIOUS
<1>6. Writing(f, sl, r)
  <2>1. f = CHOOSE h : Writing(h, sl, r)
    BY <1>5 DEF Upto, Writing
  <2>2. \E h : Writing(h, sl, r)
    BY <1>4
  <2>. QED BY <2>1, <2>2
<1>7. e[n] = Written(sl, pos, hi, PlaceFrom(sl, pos, n))
  OBVIOUS
<1>. HIDE DEF e
<1>8. ASSUME NEW x \in N PROVE f[x] = Onward(f, x) /\ e[x] = Onward(e, x)
  BY <1>4, <1>6 DEF Writing
<1>9. ASSUME NEW x \in N PROVE PlaceFrom(sl, pos, x) \in Nat /\ PlaceFrom(sl, pos, x) <= sl.length + 1
  BY <1>1 DEF PlaceFrom
<1> DEFINE D == {m \in Nat : \E x \in N : m = sl.length + 1 - PlaceFrom(sl, pos, x) /\ f[x] # e[x]}
<1>10. ASSUME D # {} PROVE FALSE
  <2>1. PICK m \in D : \A y \in D : m <= y
    <3>1. D \in SUBSET Nat
      OBVIOUS
    <3>. HIDE DEF D
    <3>. QED BY <1>10, <3>1, LeastNat
  <2>2. PICK x \in N : m = sl.length + 1 - PlaceFrom(sl, pos, x) /\ f[x] # e[x]
    OBVIOUS
  <2>3. x # nullptr /\ f[Follow(sl, x)] # e[Follow(sl, x)]
    BY <1>8, <2>2
  <2>4. PICK y \in N : y = Follow(sl, x) /\ PlaceFrom(sl, pos, y) = pos[x] + 1 /\ f[y] # e[y]
    BY <1>2, <2>3
  <2>5. PlaceFrom(sl, pos, x) = pos[x] /\ pos[x] \in Nat /\ pos[x] <= sl.length
    BY <1>1, <2>3 DEF PlaceFrom
  <2>6. sl.length + 1 - PlaceFrom(sl, pos, y) \in Nat /\ sl.length + 1 - PlaceFrom(sl, pos, y) < m
    BY <1>1, <2>2, <2>4, <2>5
  <2>7. sl.length + 1 - PlaceFrom(sl, pos, y) \in D
    BY <2>4, <2>6
  <2>. QED BY <1>1, <2>1, <2>6, <2>7
<1>11. f[n] = e[n]
  <2>1. ASSUME f[n] # e[n] PROVE FALSE
    <3>1. sl.length + 1 - PlaceFrom(sl, pos, n) \in Nat
      BY <1>1, <1>9
    <3>2. sl.length + 1 - PlaceFrom(sl, pos, n) \in D
      BY <2>1, <3>1
    <3>. QED BY <1>10, <3>2
  <2>. QED BY <2>1
<1>. QED BY <1>5, <1>7, <1>11

(* What a range writes out is what the list holds between two places.      *)
LEMMA RangeByScoreIs ==
  ASSUME NEW z, NEW pos, Ordered(z.sl, pos), NEW r, RangeSpec(r)
  PROVE  \E lo, hi \in 0 .. z.sl.length :
           /\ Between(z.sl, pos, r, lo, hi)
           /\ lo < hi => /\ ZsetRangeByScore(z, r) = [j \in 1 .. hi - lo |-> ObjAt(z.sl, pos, lo + j)]
                         /\ slLastInRange(z.sl, r) = NodeAt(z.sl, pos, hi)
           /\ ~(lo < hi) => ZsetRangeByScore(z, r) = << >> /\ slLastInRange(z.sl, r) = nullptr
<1>1. PICK sl : sl = z.sl
  OBVIOUS
<1>2. Shape(sl) /\ Numbered(sl, pos) /\ sl.length \in Nat /\ Ordered(sl, pos)
  BY <1>1 DEF Ordered, Shape
<1>3. PICK lo \in 0 .. sl.length, hi \in 0 .. sl.length : Between(sl, pos, r, lo, hi)
  BY <1>2, BetweenExists
<1>4. ZsetRangeByScore(z, r) = Upto(sl, r)[slFirstInRange(sl, r)]
  BY <1>1 DEF ZsetRangeByScore
<1>5. /\ slFirstInRange(sl, r) = IF lo < hi THEN NodeAt(sl, pos, lo + 1) ELSE nullptr
      /\ slLastInRange(sl, r) = IF lo < hi THEN NodeAt(sl, pos, hi) ELSE nullptr
  BY <1>2, <1>3, FirstInRangeIs, LastInRangeIs
<1>6. ASSUME lo < hi
      PROVE  ZsetRangeByScore(z, r) = [j \in 1 .. hi - lo |-> ObjAt(sl, pos, lo + j)]
  <2>1. PICK p \in 1 .. sl.length : p = lo + 1
    BY <1>2, <1>6
  <2>2. PICK n : n = NodeAt(sl, pos, p)
    OBVIOUS
  <2>3. n \in Nodes(sl) /\ pos[n] = p /\ n # nullptr
    <3>1. p \in 0 .. sl.length /\ p # 0
      BY <1>2
    <3>. QED BY <1>2, <2>2, <3>1, NodeAtIs
  <2>4. Upto(sl, r)[n] = Written(sl, pos, hi, p)
    <3>1. Upto(sl, r)[n] = Written(sl, pos, hi, PlaceFrom(sl, pos, n))
      BY <1>2, <1>3, <2>3, UptoIs
    <3>. QED BY <2>3, <3>1 DEF PlaceFrom
  <2>5. Written(sl, pos, hi, p) = [j \in 1 .. hi - lo |-> ObjAt(sl, pos, lo + j)]
    <3>1. (IF p <= hi THEN hi - p + 1 ELSE 0) = hi - lo
      BY <1>2, <1>6, <2>1
    <3>2. \A j \in 1 .. hi - lo : p + j - 1 = lo + j
      BY <2>1
    <3>. QED BY <3>1, <3>2 DEF Written
  <2>. QED BY <1>4, <1>5, <1>6, <2>1, <2>2, <2>4, <2>5
<1>7. ASSUME ~(lo < hi) PROVE ZsetRangeByScore(z, r) = << >>
  <2>1. Upto(sl, r)[nullptr] = Written(sl, pos, hi, PlaceFrom(sl, pos, nullptr))
    BY <1>2, <1>3, UptoIs
  <2>2. PlaceFrom(sl, pos, nullptr) = sl.length + 1
    BY DEF PlaceFrom
  <2>3. ~(sl.length + 1 <= hi)
    BY <1>2
  <2>4. Written(sl, pos, hi, sl.length + 1) = << >>
    BY <2>3 DEF Written
  <2>. QED BY <1>4, <1>5, <1>7, <2>1, <2>2, <2>4
<1>. QED BY <1>1, <1>3, <1>5, <1>6, <1>7

(* Of the members in a range the listing has those between the two places. *)
LEMMA WithinIs ==
  ASSUME NEW z, ZsetInv(z), AllExact(z), NEW pos, Ordered(z.sl, pos), NEW r,
         NEW lo \in 0 .. z.sl.length, NEW hi \in 0 .. z.sl.length, Between(z.sl, pos, r, lo, hi),
         NEW o, o = Listed(z.sl, pos), NEW m
  PROVE  m \in Within(z, r) <=> \E p \in lo + 1 .. hi : o[p] = m
<1>1. PICK sl, d, n : sl = z.sl /\ d = z.dict /\ n = z.sl.length
  OBVIOUS
<1>2. PICK f : f = o
  OBVIOUS
<1>3. n \in Nat
  BY <1>1 DEF Ordered, Shape
<1>4. /\ Numbers(d) /\ Lists(f, d, n)
      /\ \A p \in 1 .. n : ScoreAt(sl, pos, p) = d[f[p]] /\ NodeAt(sl, pos, p) \in Nodes(sl)
      /\ \A x \in Nodes(sl) : pos[x] \in 1 .. n /\ x = NodeAt(sl, pos, pos[x])
  <2>1. /\ Numbers(z.dict) /\ Lists(o, z.dict, z.sl.length)
        /\ \A i \in 1 .. z.sl.length : /\ ScoreAt(z.sl, pos, i) = z.dict[o[i]]
                                       /\ NodeAt(z.sl, pos, i) \in Nodes(z.sl)
        /\ \A x \in Nodes(z.sl) : pos[x] \in 1 .. z.sl.length /\ x = NodeAt(z.sl, pos, pos[x])
    BY NodesListDict
  <2>. QED BY <1>1, <1>2, <2>1
<1>5. ASSUME NEW p \in 1 .. n
      PROVE  slValueGteMin(d[f[p]], r) /\ slValueLteMax(d[f[p]], r) <=> p \in lo + 1 .. hi
  <2>1. PICK x : x = NodeAt(sl, pos, p)
    OBVIOUS
  <2>2. x \in Nodes(sl) /\ d[f[p]] = sl.node[x].score
    BY <1>4, <2>1 DEF ScoreAt
  <2>3. pos[x] = p
    <3>1. p \in 0 .. sl.length /\ Shape(sl) /\ Numbered(sl, pos)
      BY <1>1, <1>3 DEF Ordered
    <3>. QED BY <2>1, <3>1, NodeAtIs
  <2>4. slValueGteMin(d[f[p]], r) <=> lo < p
    BY <1>1, <2>2, <2>3 DEF Between
  <2>5. slValueLteMax(d[f[p]], r) <=> p <= hi
    BY <1>1, <2>2, <2>3 DEF Between
  <2>6. lo \in Nat /\ hi \in Nat
    BY <1>1, <1>3
  <2>. QED BY <2>4, <2>5, <2>6
<1>6. lo + 1 .. hi \subseteq 1 .. n
  BY <1>1, <1>3
<1>7. m \in Within(z, r) <=> m \in DOMAIN d /\ slValueGteMin(d[m], r) /\ slValueLteMax(d[m], r)
  BY <1>1 DEF Within
<1>8. ASSUME m \in Within(z, r) PROVE \E p \in lo + 1 .. hi : f[p] = m
  <2>1. PICK p \in 1 .. n : f[p] = m
    BY <1>4, <1>7, <1>8 DEF Lists
  <2>. QED BY <1>5, <1>7, <1>8, <2>1
<1>9. ASSUME NEW p \in lo + 1 .. hi, f[p] = m PROVE m \in Within(z, r)
  <2>1. p \in 1 .. n
    BY <1>6
  <2>2. f[p] \in DOMAIN d
    BY <1>4, <2>1 DEF Lists
  <2>. QED BY <1>5, <1>7, <1>9, <2>1, <2>2
<1>. QED BY <1>2, <1>8, <1>9

LEMMA RanksAre ==
  ASSUME NEW z, ZsetInv(z), AllExact(z), NEW pos, Ordered(z.sl, pos),
         NEW o, o = Listed(z.sl, pos), NEW p \in 1 .. z.sl.length
  PROVE  /\ o[p] \in DOMAIN z.dict /\ RankOf(z, o[p]) = p
         /\ ZsetRank(z, o[p]) = p /\ ZsetGetByRank(z, p) = o[p]
<1>1. PICK sl, d, n : sl = z.sl /\ d = z.dict /\ n = z.sl.length
  OBVIOUS
<1>2. PICK f : f = o
  OBVIOUS
<1>3. n \in Nat /\ Shape(sl) /\ Numbered(sl, pos) /\ Ordered(sl, pos)
  BY <1>1 DEF Ordered, Shape
<1>4. /\ Numbers(d) /\ Lists(f, d, n)
      /\ \A q \in 1 .. n : ScoreAt(sl, pos, q) = d[f[q]] /\ NodeAt(sl, pos, q) \in Nodes(sl)
      /\ \A x \in Nodes(sl) : pos[x] \in 1 .. n /\ x = NodeAt(sl, pos, pos[x])
  <2>1. /\ Numbers(z.dict) /\ Lists(o, z.dict, z.sl.length)
        /\ \A i \in 1 .. z.sl.length : /\ ScoreAt(z.sl, pos, i) = z.dict[o[i]]
                                       /\ NodeAt(z.sl, pos, i) \in Nodes(z.sl)
        /\ \A x \in Nodes(z.sl) : pos[x] \in 1 .. z.sl.length /\ x = NodeAt(z.sl, pos, pos[x])
    BY NodesListDict
  <2>. QED BY <1>1, <1>2, <2>1
<1>5. p \in 1 .. n
  BY <1>1
<1>6. \A q \in 1 .. n : f[q] = sl.node[NodeAt(sl, pos, q)].obj
  BY <1>1, <1>2 DEF ObjAt, Listed
<1>7. f[p] \in DOMAIN d
  BY <1>4, <1>5 DEF Lists
<1>8. RankOf(z, f[p]) = p
  <2>1. 1 + Cardinality({x \in DOMAIN d : \/ d[x] < d[f[p]]
                                          \/ (d[x] = d[f[p]] /\ x < f[p])}) = p
    BY <1>3, <1>4, <1>5, RankIsPlace
  <2>. QED BY <1>1, <2>1 DEF RankOf
<1>9. PICK x : x = NodeAt(sl, pos, p)
  OBVIOUS
<1>10. x \in Nodes(sl) /\ pos[x] = p /\ sl.node[x].obj = f[p] /\ sl.node[x].score = d[f[p]]
  <2>1. p \in 0 .. sl.length
    BY <1>1, <1>3
  <2>2. pos[x] = p
    BY <1>3, <1>9, <2>1, NodeAtIs
  <2>. QED BY <1>4, <1>5, <1>6, <1>9, <2>2 DEF ScoreAt
<1>11. ZsetRank(z, f[p]) = p
  <2>1. Matches(sl, x, d[f[p]], f[p])
    BY <1>10 DEF Matches
  <2>2. ASSUME NEW k, Matches(sl, k, d[f[p]], f[p]) PROVE k = x
    <3>1. k \in Nodes(sl) /\ sl.node[k].obj = f[p]
      BY <2>2 DEF Matches
    <3>2. PICK q : q = pos[k]
      OBVIOUS
    <3>3. q \in 1 .. n /\ k = NodeAt(sl, pos, q)
      BY <1>4, <3>1, <3>2
    <3>4. f[q] = f[p]
      BY <1>6, <3>1, <3>3
    <3>5. q = p
      BY <1>3, <1>4, <1>5, <3>3, <3>4, ListsOnce
    <3>. QED BY <1>9, <3>3, <3>5
  <2>3. slGetRank(sl, d[f[p]], f[p]) = pos[x]
    BY <1>3, <1>10, <2>1, <2>2, GetRankIs
  <2>. QED BY <1>1, <1>7, <1>10, <2>3 DEF ZsetRank
<1>12. ZsetGetByRank(z, p) = f[p]
  <2>1. p \in Nat /\ p <= sl.length
    BY <1>1, <1>3
  <2>2. slGetElementByRank(sl, p) = x
    BY <1>3, <1>9, <2>1, GetByRankIs
  <2>3. x # nullptr
    BY <1>3, <1>10, PlacesAreNumbers DEF Nodes
  <2>. QED BY <1>1, <1>10, <2>2, <2>3 DEF ZsetGetByRank
<1>. QED BY <1>1, <1>2, <1>7, <1>8, <1>11, <1>12

LEMMA QueriesHold ==
  ASSUME NEW z, ZsetInv(z), NEW ranges, \A r \in ranges : RangeSpec(r)
  PROVE  QueriesAgree(z, ranges)
<1> SUFFICES ASSUME AllExact(z)
             PROVE  /\ ZsetLen(z) = z.sl.length
                    /\ \A m \in DOMAIN z.dict : ZsetRank(z, m) = RankOf(z, m) /\ ZsetGetByRank(z, RankOf(z, m)) = m
                    /\ ZsetGetByRank(z, 0) = NoObj /\ ZsetGetByRank(z, z.sl.length + 1) = NoObj
                    /\ \A r \in ranges :
                         LET found == ZsetRangeByScore(z, r)
                             last  == slLastInRange(z.sl, r)
                         IN  /\ {found[i] : i \in DOMAIN found} = Within(z, r)
                             /\ ZsetCount(z, r) = Cardinality(Within(z, r))
                             /\ \A i, j \in DOMAIN found : i < j => RankOf(z, found[i]) < RankOf(z, found[j])
                             /\ IF found = << >> THEN last = nullptr
                                ELSE z.sl.node[last].obj = found[Len(found)]
  BY DEF QueriesAgree
<1>1. PICK pos : Ordered(z.sl, pos)
  BY DEF ZsetInv
<1>2. PICK o : o = Listed(z.sl, pos)
  OBVIOUS
<1>3. Numbers(z.dict) /\ Lists(o, z.dict, z.sl.length)
  BY <1>1, <1>2, NodesListDict
<1>4. ASSUME NEW p \in 1 .. z.sl.length
      PROVE  /\ o[p] \in DOMAIN z.dict /\ RankOf(z, o[p]) = p
             /\ ZsetRank(z, o[p]) = p /\ ZsetGetByRank(z, p) = o[p]
             /\ o[p] = ObjAt(z.sl, pos, p)
  <2>1. /\ o[p] \in DOMAIN z.dict /\ RankOf(z, o[p]) = p
        /\ ZsetRank(z, o[p]) = p /\ ZsetGetByRank(z, p) = o[p]
    BY <1>1, <1>2, RanksAre
  <2>. QED BY <1>2, <2>1 DEF Listed
<1>5. /\ Shape(z.sl) /\ Numbered(z.sl, pos)
      /\ z.sl.length \in Nat /\ 0 \in 0 .. z.sl.length /\ z.sl.length \in 0 .. z.sl.length
  BY <1>1 DEF Ordered, Shape
<1>6. ZsetLen(z) = z.sl.length
  <2>1. ASSUME NEW m PROVE m \in DOMAIN z.dict <=> \E p \in 0 + 1 .. z.sl.length : o[p] = m
    BY <1>3, <1>5 DEF Lists
  <2>2. PICK n \in Nat : n = z.sl.length
    BY <1>5
  <2>3. PICK d : d = z.dict
    OBVIOUS
  <2>4. Numbers(d) /\ Lists(o, d, n)
    BY <1>3, <2>2, <2>3
  <2>5. PICK a \in 0 .. n : a = 0
    BY <1>5, <2>2
  <2>6. PICK S : S = DOMAIN d
    OBVIOUS
  <2>7. \A m : m \in S <=> \E p \in a + 1 .. n : o[p] = m
    BY <2>1, <2>2, <2>3, <2>5, <2>6
  <2>8. a <= n /\ n \in 0 .. n
    OBVIOUS
  <2>9. Cardinality(S) = n - a
    BY <2>4, <2>7, <2>8, CountPlaces
  <2>. QED BY <2>2, <2>3, <2>5, <2>6, <2>9 DEF ZsetLen
<1>7. ASSUME NEW m \in DOMAIN z.dict
      PROVE  ZsetRank(z, m) = RankOf(z, m) /\ ZsetGetByRank(z, RankOf(z, m)) = m
  <2>1. PICK p \in 1 .. z.sl.length : o[p] = m
    BY <1>3 DEF Lists
  <2>. QED BY <1>4, <2>1
<1>8. ZsetGetByRank(z, 0) = NoObj
  <2>1. slGetElementByRank(z.sl, 0) = NodeAt(z.sl, pos, 0)
    BY <1>1, <1>5, GetByRankIs
  <2>2. NodeAt(z.sl, pos, 0) = header
    BY <1>5, NodeAtIs
  <2>3. z.sl.node[header].obj = NoObj
    BY <1>5 DEF Shape
  <2>. QED BY <2>1, <2>2, <2>3 DEF ZsetGetByRank
<1>9. ZsetGetByRank(z, z.sl.length + 1) = NoObj
  <2>1. z.sl.length + 1 \in Nat /\ ~(z.sl.length + 1 <= z.sl.length)
    BY <1>5
  <2>2. slGetElementByRank(z.sl, z.sl.length + 1) = nullptr
    BY <1>1, <2>1, GetByRankIs
  <2>. QED BY <2>2 DEF ZsetGetByRank
<1>10. ASSUME NEW r \in ranges, NEW found, found = ZsetRangeByScore(z, r), NEW last, last = slLastInRange(z.sl, r)
       PROVE  /\ {found[i] : i \in DOMAIN found} = Within(z, r)
              /\ Len(found) = Cardinality(Within(z, r))
              /\ \A i, j \in DOMAIN found : i < j => RankOf(z, found[i]) < RankOf(z, found[j])
              /\ IF found = << >> THEN last = nullptr
                 ELSE z.sl.node[last].obj = found[Len(found)]
  <2>1. RangeSpec(r)
    OBVIOUS
  <2>2. PICK lo \in 0 .. z.sl.length, hi \in 0 .. z.sl.length :
           /\ Between(z.sl, pos, r, lo, hi)
           /\ lo < hi => /\ ZsetRangeByScore(z, r) = [j \in 1 .. hi - lo |-> ObjAt(z.sl, pos, lo + j)]
                         /\ slLastInRange(z.sl, r) = NodeAt(z.sl, pos, hi)
           /\ ~(lo < hi) => ZsetRangeByScore(z, r) = << >> /\ slLastInRange(z.sl, r) = nullptr
    BY <1>1, <2>1, RangeByScoreIs
  <2>3. PICK W : W = Within(z, r)
    OBVIOUS
  <2>4. \A m : m \in W <=> \E p \in lo + 1 .. hi : o[p] = m
    <3>1. Between(z.sl, pos, r, lo, hi)
      BY <2>2
    <3>2. ASSUME NEW m PROVE m \in Within(z, r) <=> \E p \in lo + 1 .. hi : o[p] = m
      BY <1>1, <1>2, <3>1, WithinIs
    <3>. QED BY <2>3, <3>2
  <2>5. lo \in Nat /\ hi \in Nat /\ hi <= z.sl.length
    BY <1>5
  <2>6. CASE lo < hi
    <3>1. PICK k \in Nat : k = hi - lo
      BY <2>5, <2>6
    <3>2. PICK s : s = found
      OBVIOUS
    <3>3. s = [j \in 1 .. k |-> ObjAt(z.sl, pos, lo + j)]
      BY <1>10, <2>2, <2>6, <3>1, <3>2
    <3>4. ASSUME NEW j \in 1 .. k PROVE lo + j \in lo + 1 .. hi /\ lo + j \in 1 .. z.sl.length /\ s[j] = o[lo + j]
      <4>1. lo + j \in lo + 1 .. hi /\ lo + j \in 1 .. z.sl.length
        BY <1>5, <2>5, <3>1
      <4>2. s[j] = ObjAt(z.sl, pos, lo + j)
        BY <3>3
      <4>. QED BY <1>4, <4>1, <4>2
    <3>5. DOMAIN s = 1 .. k /\ Len(s) = k
      BY <3>3
    <3>6. {s[i] : i \in DOMAIN s} = W
      <4>1. ASSUME NEW m \in W PROVE m \in {s[i] : i \in DOMAIN s}
        <5>1. PICK p \in lo + 1 .. hi : o[p] = m
          BY <2>4
        <5>2. PICK j \in 1 .. k : lo + j = p
          <6>1. p - lo \in 1 .. k /\ lo + (p - lo) = p
            BY <2>5, <3>1
          <6>. QED BY <6>1
        <5>3. s[j] = m
          BY <3>4, <5>1, <5>2
        <5>. QED BY <3>5, <5>3
      <4>2. ASSUME NEW j \in 1 .. k PROVE s[j] \in W
        BY <2>4, <3>4
      <4>3. ASSUME NEW m \in {s[i] : i \in DOMAIN s} PROVE m \in W
        BY <3>5, <4>2
      <4>. QED BY <4>1, <4>3
    <3>7. Cardinality(W) = k
      <4>1. lo <= hi
        BY <2>5, <2>6
      <4>2. PICK n \in Nat : n = z.sl.length
        BY <1>5
      <4>3. PICK d : d = z.dict
        OBVIOUS
      <4>4. Numbers(d) /\ Lists(o, d, n)
        BY <1>3, <4>2, <4>3
      <4>5. lo \in 0 .. n /\ hi \in 0 .. n
        BY <4>2
      <4>6. Cardinality(W) = hi - lo
        BY <2>4, <4>1, <4>4, <4>5, CountPlaces
      <4>. QED BY <3>1, <4>6
    <3>8. ASSUME NEW i \in DOMAIN s, NEW j \in DOMAIN s, i < j PROVE RankOf(z, s[i]) < RankOf(z, s[j])
      <4>1. i \in 1 .. k /\ j \in 1 .. k
        BY <3>5
      <4>2. RankOf(z, s[i]) = lo + i
        BY <1>4, <3>4, <4>1
      <4>3. RankOf(z, s[j]) = lo + j
        BY <1>4, <3>4, <4>1
      <4>. QED BY <2>5, <3>8, <4>1, <4>2, <4>3
    <3>9. s # << >> /\ z.sl.node[last].obj = s[Len(s)]
      <4>1. k \in 1 .. k /\ lo + k = hi
        BY <2>5, <2>6, <3>1
      <4>2. s[k] = ObjAt(z.sl, pos, hi)
        BY <3>3, <4>1
      <4>3. last = NodeAt(z.sl, pos, hi)
        BY <1>10, <2>2, <2>6
      <4>. QED BY <3>5, <4>1, <4>2, <4>3 DEF ObjAt
    <3>. QED BY <2>3, <3>2, <3>5, <3>6, <3>7, <3>8, <3>9
  <2>7. CASE ~(lo < hi)
    <3>1. W = {}
      <4>1. lo + 1 .. hi = {}
        BY <2>5, <2>7
      <4>. QED BY <2>4, <4>1
    <3>2. found = << >> /\ last = nullptr
      BY <1>10, <2>2, <2>7
    <3>3. Cardinality({}) = 0
      BY FS_EmptySet
    <3>4. DOMAIN found = {} /\ Len(found) = 0
      BY <3>2
    <3>. QED BY <2>3, <3>1, <3>2, <3>3, <3>4
  <2>. QED BY <2>6, <2>7
<1>. QED BY <1>6, <1>7, <1>8, <1>9, <1>10 DEF ZsetCount

-----------------------------------------------------------------------------
(* Taking one element out of a sequence, and putting one in. *)

TakenOut(r, s, i) == \A j \in 1 .. Len(s) - 1 : r[j] = IF j < i THEN s[j] ELSE s[j + 1]

LEMMA RemoveAtIs ==
  ASSUME NEW S, NEW s \in Seq(S), NEW i \in 1 .. Len(s), NEW r, r = RemoveAt(s, i)
  PROVE  r \in Seq(S) /\ Len(r) = Len(s) - 1 /\ TakenOut(r, s, i)
<1>1. PICK n \in Nat : n = Len(s)
  BY LenProperties
<1>2. i \in 1 .. n /\ \A j \in 1 .. n : s[j] \in S
  BY <1>1, LenProperties
<1>3. PICK u, v : u = SubSeq(s, 1, i - 1) /\ v = SubSeq(s, i + 1, n)
  OBVIOUS
<1>4. u \in Seq(S) /\ Len(u) = i - 1 /\ \A j \in 1 .. i - 1 : u[j] = s[j]
  <2>1. \A j \in 1 .. i - 1 : s[j] \in S
    BY <1>2
  <2>2. i - 1 \in Int /\ 1 \in Int
    BY <1>2
  <2>3. /\ u \in Seq(S) /\ Len(u) = (IF 1 <= i - 1 THEN (i - 1) - 1 + 1 ELSE 0)
        /\ \A j \in 1 .. (i - 1) - 1 + 1 : u[j] = s[1 + j - 1]
    BY <1>3, <2>1, <2>2, SubSeqProperties
  <2>. QED BY <1>2, <2>3
<1>5. v \in Seq(S) /\ Len(v) = n - i /\ \A j \in 1 .. n - i : v[j] = s[i + j]
  <2>1. \A j \in i + 1 .. n : s[j] \in S
    BY <1>2
  <2>2. PICK m \in Int : m = i + 1
    BY <1>2
  <2>3. v = SubSeq(s, m, n) /\ \A j \in m .. n : s[j] \in S
    BY <1>3, <2>1, <2>2
  <2>4. n \in Int
    OBVIOUS
  <2>5. /\ SubSeq(s, m, n) \in Seq(S) /\ Len(SubSeq(s, m, n)) = (IF m <= n THEN n - m + 1 ELSE 0)
        /\ \A j \in 1 .. n - m + 1 : SubSeq(s, m, n)[j] = s[m + j - 1]
    <3>1. \A j \in m .. n : s[j] \in S
      BY <2>3
    <3>. QED BY <2>4, <3>1, SubSeqProperties
  <2>. QED BY <1>2, <2>2, <2>3, <2>5
<1>6. r = u \o v
  BY <1>1, <1>3 DEF RemoveAt
<1>7. /\ r \in Seq(S) /\ Len(r) = Len(u) + Len(v)
      /\ \A j \in 1 .. Len(u) : r[j] = u[j]
      /\ \A j \in 1 .. Len(v) : r[j + Len(u)] = v[j]
  <2>1. u \in Seq(S) /\ v \in Seq(S)
    BY <1>4, <1>5
  <2>2. /\ u \o v \in Seq(S) /\ Len(u \o v) = Len(u) + Len(v)
        /\ \A j \in 1 .. Len(u) : (u \o v)[j] = u[j]
        /\ \A j \in 1 .. Len(v) : (u \o v)[j + Len(u)] = v[j]
    BY <2>1, ConcatIs
  <2>. QED BY <2>2, <1>6
<1>8. r \in Seq(S) /\ Len(r) = n - 1
  BY <1>2, <1>4, <1>5, <1>7
<1>9. ASSUME NEW j \in 1 .. n - 1 PROVE r[j] = IF j < i THEN s[j] ELSE s[j + 1]
  <2>1. CASE j < i
    BY <1>2, <1>4, <1>7, <2>1
  <2>2. CASE ~(j < i)
    <3>1. PICK m \in 1 .. n - i : m + (i - 1) = j
      BY <1>2, <2>2
    <3>2. r[m + (i - 1)] = s[i + m]
      BY <1>4, <1>5, <1>7, <3>1
    <3>. QED BY <1>2, <2>2, <3>1, <3>2
  <2>. QED BY <2>1, <2>2
<1>. QED BY <1>1, <1>8, <1>9 DEF TakenOut

PutInto(r, s, i, x) ==
  \A j \in 1 .. Len(s) + 1 : r[j] = IF j < i THEN s[j] ELSE IF j = i THEN x ELSE s[j - 1]

LEMMA InsertAtIs ==
  ASSUME NEW S, NEW s \in Seq(S), NEW i \in 1 .. Len(s) + 1, NEW x \in S, NEW r, r = InsertAt(s, i, x)
  PROVE  r \in Seq(S) /\ Len(r) = Len(s) + 1 /\ PutInto(r, s, i, x)
<1>1. PICK n \in Nat : n = Len(s)
  BY LenProperties
<1>2. i \in 1 .. n + 1 /\ \A j \in 1 .. n : s[j] \in S
  BY <1>1, LenProperties
<1>3. PICK u, v : u = SubSeq(s, 1, i - 1) /\ v = SubSeq(s, i, n)
  OBVIOUS
<1>4. u \in Seq(S) /\ Len(u) = i - 1 /\ \A j \in 1 .. i - 1 : u[j] = s[j]
  <2>1. \A j \in 1 .. i - 1 : s[j] \in S
    BY <1>2
  <2>2. i - 1 \in Int /\ 1 \in Int
    BY <1>2
  <2>3. /\ u \in Seq(S) /\ Len(u) = (IF 1 <= i - 1 THEN (i - 1) - 1 + 1 ELSE 0)
        /\ \A j \in 1 .. (i - 1) - 1 + 1 : u[j] = s[1 + j - 1]
    BY <1>3, <2>1, <2>2, SubSeqProperties
  <2>. QED BY <1>2, <2>3
<1>5. v \in Seq(S) /\ Len(v) = (n - i) + 1 /\ \A j \in 1 .. (n - i) + 1 : v[j] = s[(i + j) - 1]
  <2>1. \A j \in i .. n : s[j] \in S
    BY <1>2
  <2>2. i \in Int
    BY <1>2
  <2>3. /\ v \in Seq(S) /\ Len(v) = (IF i <= n THEN n - i + 1 ELSE 0)
        /\ \A j \in 1 .. n - i + 1 : v[j] = s[i + j - 1]
    BY <1>3, <2>1, <2>2, SubSeqProperties
  <2>. QED BY <1>2, <2>3
<1>6. <<x>> \in Seq(S) /\ Len(<<x>>) = 1 /\ <<x>>[1] = x
  OBVIOUS
<1>7. PICK w : w = u \o <<x>>
  OBVIOUS
<1>8. /\ w \in Seq(S) /\ Len(w) = i
      /\ \A j \in 1 .. i - 1 : w[j] = s[j]
      /\ w[i] = x
  <2>1. /\ w \in Seq(S) /\ Len(w) = Len(u) + Len(<<x>>)
        /\ \A j \in 1 .. Len(u) : w[j] = u[j]
        /\ \A j \in 1 .. Len(<<x>>) : w[j + Len(u)] = <<x>>[j]
    <3>1. u \in Seq(S) /\ <<x>> \in Seq(S)
      BY <1>4, <1>6
    <3>2. /\ u \o <<x>> \in Seq(S) /\ Len(u \o <<x>>) = Len(u) + Len(<<x>>)
          /\ \A j \in 1 .. Len(u) : (u \o <<x>>)[j] = u[j]
          /\ \A j \in 1 .. Len(<<x>>) : (u \o <<x>>)[j + Len(u)] = <<x>>[j]
      BY <3>1, ConcatIs
    <3>. QED BY <3>2, <1>7
  <2>2. w[1 + Len(u)] = x
    BY <1>6, <2>1
  <2>. QED BY <1>2, <1>4, <1>6, <2>1, <2>2
<1>9. r = w \o v
  BY <1>1, <1>3, <1>7 DEF InsertAt
<1>10. /\ r \in Seq(S) /\ Len(r) = Len(w) + Len(v)
       /\ \A j \in 1 .. Len(w) : r[j] = w[j]
       /\ \A j \in 1 .. Len(v) : r[j + Len(w)] = v[j]
  <2>1. w \in Seq(S) /\ v \in Seq(S)
    BY <1>5, <1>8
  <2>2. /\ w \o v \in Seq(S) /\ Len(w \o v) = Len(w) + Len(v)
        /\ \A j \in 1 .. Len(w) : (w \o v)[j] = w[j]
        /\ \A j \in 1 .. Len(v) : (w \o v)[j + Len(w)] = v[j]
    BY <2>1, ConcatIs
  <2>. QED BY <2>2, <1>9
<1>11. r \in Seq(S) /\ Len(r) = n + 1
  BY <1>2, <1>5, <1>8, <1>10
<1>12. ASSUME NEW j \in 1 .. n + 1 PROVE r[j] = IF j < i THEN s[j] ELSE IF j = i THEN x ELSE s[j - 1]
  <2>1. CASE j <= i
    BY <1>2, <1>8, <1>10, <2>1
  <2>2. CASE ~(j <= i)
    <3>1. PICK m \in 1 .. (n - i) + 1 : m + i = j
      BY <1>2, <2>2
    <3>2. r[m + i] = s[(i + m) - 1]
      BY <1>5, <1>8, <1>10, <3>1
    <3>. QED BY <1>2, <2>2, <3>1, <3>2
  <2>. QED BY <2>1, <2>2
<1>. QED BY <1>1, <1>11, <1>12 DEF PutInto
-----------------------------------------------------------------------------
(* A loop of n rounds, from a state to the next one: nxt[<<k, s>>] is the   *)
(* state round k makes of s, G[k] the states it may leave.                 *)

Rounds(f, n, init, nxt) == f = [k \in 0 .. n |-> IF k = 0 THEN init ELSE nxt[<<k, f[k - 1]>>]]
Keeps(n, G, nxt)        == \A k \in 1 .. n : \A s \in G[k - 1] : nxt[<<k, s>>] \in G[k]

LEMMA RoundsStay ==
  ASSUME NEW n \in Nat, NEW G, NEW f, f[0] \in G[0], \A k \in 1 .. n : f[k - 1] \in G[k - 1] => f[k] \in G[k]
  PROVE  \A k \in 0 .. n : f[k] \in G[k]
<1> DEFINE D == {k \in Nat : k <= n /\ f[k] \notin G[k]}
<1>1. ASSUME D # {} PROVE FALSE
  <2>1. PICK m \in D : \A x \in D : m <= x
    <3>1. D \in SUBSET Nat
      OBVIOUS
    <3>. HIDE DEF D
    <3>. QED BY <1>1, <3>1, LeastNat
  <2>2. m # 0 /\ m \in 1 .. n /\ f[m] \notin G[m]
    BY <2>1
  <2>3. m - 1 \in Nat /\ m - 1 <= n /\ m - 1 \notin D
    BY <2>1, <2>2
  <2>4. f[m - 1] \in G[m - 1]
    BY <2>3
  <2>. QED BY <2>2, <2>4
<1>. QED BY <1>1

LEMMA RoundsExist ==
  ASSUME NEW n \in Nat, NEW G, NEW nxt, Keeps(n, G, nxt), NEW init \in G[0]
  PROVE  \E f : Rounds(f, n, init, nxt) /\ \A k \in 0 .. n : f[k] \in G[k]
<1> DEFINE Does(m) == \E f : Rounds(f, m, init, nxt) /\ \A k \in 0 .. m : f[k] \in G[k]
           D == {m \in Nat : m <= n /\ ~Does(m)}
<1>1. Does(0)
  <2> DEFINE f == [k \in 0 .. 0 |-> init]
  <2>1. f = [k \in 0 .. 0 |-> IF k = 0 THEN init ELSE nxt[<<k, f[k - 1]>>]]
    OBVIOUS
  <2>2. \A k \in 0 .. 0 : f[k] \in G[k]
    OBVIOUS
  <2>. HIDE DEF f
  <2>. QED BY <2>1, <2>2 DEF Rounds
<1>2. ASSUME NEW m \in Nat, m + 1 <= n, Does(m) PROVE Does(m + 1)
  <2>1. PICK f : Rounds(f, m, init, nxt) /\ \A k \in 0 .. m : f[k] \in G[k]
    BY <1>2
  <2> DEFINE g == [k \in 0 .. m + 1 |-> IF k <= m THEN f[k] ELSE nxt[<<m + 1, f[m]>>]]
             h == [k \in 0 .. m + 1 |-> IF k = 0 THEN init ELSE nxt[<<k, g[k - 1]>>]]
  <2>2. f[m] \in G[m] /\ m + 1 \in 1 .. n /\ (m + 1) - 1 = m
    BY <1>2, <2>1
  <2>3. nxt[<<m + 1, f[m]>>] \in G[m + 1]
    BY <2>2 DEF Keeps
  <2>4. ASSUME NEW k \in 0 .. m PROVE f[k] = IF k = 0 THEN init ELSE nxt[<<k, f[k - 1]>>]
    BY <2>1 DEF Rounds
  <2>5. /\ \A k \in 0 .. m : g[k] = f[k]
        /\ g[m + 1] = nxt[<<m + 1, f[m]>>]
    OBVIOUS
  <2>6. /\ h[0] = init /\ \A k \in 1 .. m + 1 : h[k] = nxt[<<k, g[k - 1]>>]
    <3>. HIDE DEF g
    <3>. QED OBVIOUS
  <2>7. g = [k \in 0 .. m + 1 |-> g[k]] /\ h = [k \in 0 .. m + 1 |-> h[k]]
    OBVIOUS
  <2>. HIDE DEF g, h
  <2>8. ASSUME NEW k \in 0 .. m + 1 PROVE g[k] = h[k]
    <3>1. CASE k = 0
      <4>1. 0 \in 0 .. m
        OBVIOUS
      <4>2. f[0] = init /\ g[0] = f[0]
        BY <2>4, <2>5, <4>1
      <4>. QED BY <2>6, <3>1, <4>2
    <3>2. CASE k \in 1 .. m
      <4>1. k - 1 \in 0 .. m /\ k # 0
        BY <3>2
      <4>2. g[k] = f[k] /\ g[k - 1] = f[k - 1]
        BY <2>5, <3>2, <4>1
      <4>3. k \in 0 .. m
        BY <3>2
      <4>4. f[k] = nxt[<<k, f[k - 1]>>]
        BY <2>4, <4>1, <4>3
      <4>5. h[k] = nxt[<<k, g[k - 1]>>]
        BY <2>6, <3>2
      <4>. QED BY <4>2, <4>4, <4>5
    <3>3. CASE k = m + 1
      <4>1. g[m] = f[m] /\ (m + 1) - 1 = m /\ m + 1 \in 1 .. m + 1
        BY <2>5
      <4>2. h[m + 1] = nxt[<<m + 1, g[(m + 1) - 1]>>]
        BY <2>6, <4>1
      <4>. QED BY <2>5, <3>3, <4>1, <4>2
    <3>. QED BY <3>1, <3>2, <3>3
  <2>9. g = h
    BY <2>7, <2>8
  <2>10. Rounds(g, m + 1, init, nxt)
    BY <2>9 DEF Rounds, h
  <2>11. ASSUME NEW k \in 0 .. m + 1 PROVE g[k] \in G[k]
    BY <2>1, <2>3, <2>5
  <2>. QED BY <2>10, <2>11
<1>3. ASSUME D # {} PROVE FALSE
  <2>. HIDE DEF Does
  <2>1. PICK m \in D : \A x \in D : m <= x
    <3>1. D \in SUBSET Nat
      OBVIOUS
    <3>. HIDE DEF D
    <3>. QED BY <1>3, <3>1, LeastNat
  <2>2. m # 0 /\ m \in Nat /\ m <= n /\ ~Does(m)
    BY <1>1, <2>1
  <2>3. m - 1 \in Nat /\ (m - 1) + 1 = m /\ m - 1 \notin D /\ m - 1 <= n
    BY <2>1, <2>2
  <2>4. Does(m - 1)
    BY <2>3
  <2>5. Does((m - 1) + 1)
    BY <1>2, <2>2, <2>3, <2>4
  <2>. QED BY <2>2, <2>3, <2>5
<1>. HIDE DEF Does
<1>4. Does(n)
  BY <1>3
<1>. QED BY <1>4 DEF Does

-----------------------------------------------------------------------------
(* Lists: what is left once some positions are removed. *)

Inside(B, A)  == B \subseteq A
With(T, S, x) == T = S \cup {x}

LEMMA SubsetCount ==
  ASSUME NEW A, IsFiniteSet(A), NEW B, Inside(B, A)
  PROVE  IsFiniteSet(B) /\ Cardinality(B) \in Nat /\ Cardinality(A) \in Nat /\ Cardinality(B) <= Cardinality(A)
<1>1. B \in SUBSET A
  BY DEF Inside
<1>2. IsFiniteSet(B) /\ Cardinality(B) <= Cardinality(A)
  BY <1>1, FS_Subset
<1>. QED BY <1>2, FS_CardinalityType

Positions(n, S) == S \subseteq 1 .. n

Below(S, y) == {q \in S : q < y}
CountBefore(S, y) == Cardinality(Below(S, y))
PlaceOf(i, S, x)    == i = x - CountBefore(S, x)

LEMMA CountsBefore ==
  ASSUME NEW n \in Nat, NEW S, Positions(n, S)
  PROVE  /\ IsFiniteSet(S) /\ Cardinality(S) \in 0 .. n
         /\ \A y \in Int : /\ IsFiniteSet(Below(S, y)) /\ CountBefore(S, y) \in 0 .. Cardinality(S)
                           /\ CountBefore(S, y) \in Int
<1>1. IsFiniteSet(1 .. n) /\ Cardinality(1 .. n) = n
  BY FS_Interval
<1>2. IsFiniteSet(S) /\ Cardinality(S) <= n /\ Cardinality(S) \in Nat
  <2>1. Inside(S, 1 .. n)
    BY DEF Inside, Positions
  <2>. QED BY <1>1, <2>1, SubsetCount
<1>3. ASSUME NEW y \in Int
      PROVE IsFiniteSet(Below(S, y)) /\ CountBefore(S, y) \in 0 .. Cardinality(S)
  <2>1. Inside(Below(S, y), S)
    BY DEF Inside, Below, Positions
  <2>2. /\ IsFiniteSet(Below(S, y)) /\ Cardinality(Below(S, y)) <= Cardinality(S)
        /\ Cardinality(Below(S, y)) \in Nat
    BY <1>2, <2>1, SubsetCount
  <2>. QED BY <1>2, <2>2 DEF CountBefore
<1>. QED BY <1>2, <1>3

(* Between two positions there are at most as many as there are numbers.   *)
LEMMA CountGrows ==
  ASSUME NEW n \in Nat, NEW S, Positions(n, S), NEW y \in 1 .. n, NEW x \in 1 .. n, y < x, y \notin S
  PROVE  CountBefore(S, y) <= CountBefore(S, x) /\ CountBefore(S, x) <= CountBefore(S, y) + (x - y - 1)
<1> DEFINE A == Below(S, y)
           B == Below(S, x)
           C == y + 1 .. x - 1
<1>1. IsFiniteSet(A) /\ IsFiniteSet(B)
  BY CountsBefore
<1>2. Inside(A, B)
  <2>1. ASSUME NEW q \in S, q < y PROVE q < x
    <3>1. q \in 1 .. n
      BY DEF Positions
    <3>. QED BY <2>1, <3>1
  <2>. QED BY <2>1 DEF Inside, Below
<1>3. Cardinality(A) \in Nat /\ Cardinality(B) \in Nat /\ Cardinality(A) <= Cardinality(B)
  BY <1>1, <1>2, SubsetCount
<1>4. IsFiniteSet(C) /\ Cardinality(C) = x - y - 1
  <2>1. PICK c \in Int, d \in Int : c = y + 1 /\ d = x - 1
    OBVIOUS
  <2>2. IsFiniteSet(c .. d) /\ Cardinality(c .. d) = IF c > d THEN 0 ELSE d - c + 1
    BY FS_Interval
  <2>. QED BY <2>1, <2>2
<1>5. Inside(B, A \cup C)
  <2>1. \A q \in S : q \in 1 .. n
    BY DEF Positions
  <2>2. ASSUME NEW q \in S, q < x, ~(q < y) PROVE q \in C
    <3>1. q # y
      OBVIOUS
    <3>. QED BY <2>1, <2>2, <3>1
  <2>. QED BY <2>2 DEF Inside, Below
<1>. HIDE DEF A, B, C
<1>6. IsFiniteSet(A \cup C) /\ Cardinality(A \cup C) = Cardinality(A) + Cardinality(C) - Cardinality(A \cap C)
  BY <1>1, <1>4, FS_Union
<1>7. Cardinality(A \cap C) \in Nat
  <2>1. Inside(A \cap C, A)
    BY DEF Inside
  <2>. QED BY <1>1, <2>1, SubsetCount
<1>8. Cardinality(B) <= Cardinality(A \cup C)
  BY <1>5, <1>6, SubsetCount
<1>9. Cardinality(B) <= Cardinality(A) + (x - y - 1)
  BY <1>3, <1>4, <1>6, <1>7, <1>8
<1>. QED BY <1>3, <1>9 DEF A, B, CountBefore

(* The index a position that stays has in what is left. *)
LEMMA CountLeavesRoom ==
  ASSUME NEW n \in Nat, NEW S, Positions(n, S), NEW x \in 1 .. n, x \notin S
  PROVE  x - CountBefore(S, x) \in 1 .. n - Cardinality(S)
<1> DEFINE A == Below(S, x)
           B == {q \in S : q > x}
<1>1. IsFiniteSet(A) /\ IsFiniteSet(S)
  BY CountsBefore
<1>2. /\ Inside(A, 1 .. x - 1) /\ Inside(B, x + 1 .. n) /\ Inside(A, S) /\ Inside(B, S)
      /\ S = A \cup B /\ A \cap B = {}
  <2>1. \A q \in S : q \in 1 .. n /\ q # x
    BY DEF Positions
  <2>2. S = A \cup B /\ A \cap B = {}
    BY <2>1 DEF Below
  <2>3. Inside(A, S) /\ Inside(B, S)
    BY DEF Inside, Below
  <2>4. ASSUME NEW q \in S, q < x PROVE q \in 1 .. x - 1
    BY <2>1, <2>4
  <2>5. ASSUME NEW q \in S, q > x PROVE q \in x + 1 .. n
    BY <2>1, <2>5
  <2>6. Inside(A, 1 .. x - 1)
    BY <2>4 DEF Inside, Below
  <2>7. Inside(B, x + 1 .. n)
    BY <2>5 DEF Inside
  <2>. QED BY <2>2, <2>3, <2>6, <2>7
<1>. HIDE DEF A, B
<1>3. Cardinality(A) <= x - 1 /\ Cardinality(A) \in Nat
  <2>1. IsFiniteSet(1 .. x - 1) /\ Cardinality(1 .. x - 1) = x - 1
    BY FS_Interval
  <2>. QED BY <1>2, <2>1, SubsetCount
<1>4. IsFiniteSet(B) /\ Cardinality(B) <= n - x /\ Cardinality(B) \in Nat
  <2>1. IsFiniteSet(x + 1 .. n) /\ Cardinality(x + 1 .. n) = n - x
    <3>1. PICK c \in 1 .. n + 1 : c = x + 1
      OBVIOUS
    <3>2. IsFiniteSet(c .. n) /\ Cardinality(c .. n) = IF c > n THEN 0 ELSE n - c + 1
      BY FS_Interval
    <3>. QED BY <3>1, <3>2
  <2>. QED BY <1>2, <2>1, SubsetCount
<1>5. Cardinality(S) = Cardinality(A) + Cardinality(B)
  <2>1. Cardinality(A \cup B) = Cardinality(A) + Cardinality(B) - Cardinality(A \cap B)
    BY <1>1, <1>4, FS_Union
  <2>2. Cardinality(A \cap B) = 0
    BY <1>2, FS_EmptySet
  <2>. QED BY <1>2, <1>3, <1>4, <2>1, <2>2
<1>6. CountBefore(S, x) = Cardinality(A)
  BY DEF A, CountBefore
<1>. QED BY <1>3, <1>4, <1>5, <1>6

LEMMA CountWithOne ==
  ASSUME NEW n \in Nat, NEW S, Positions(n, S), NEW x \in 1 .. n, x \notin S, NEW T, With(T, S, x)
  PROVE  /\ Cardinality(T) = Cardinality(S) + 1
         /\ \A y \in Int : x < y => CountBefore(T, y) = CountBefore(S, y) + 1
         /\ \A y \in Int : ~(x < y) => CountBefore(T, y) = CountBefore(S, y)
<1>1. IsFiniteSet(S)
  BY CountsBefore
<1>2. Cardinality(T) = Cardinality(S) + 1
  BY <1>1, FS_AddElement DEF With
<1>3. ASSUME NEW y \in Int, x < y PROVE CountBefore(T, y) = CountBefore(S, y) + 1
  <2>1. Below(T, y) = Below(S, y) \cup {x}
    <3>1. \A q : q \in T <=> q \in S \/ q = x
      BY DEF With
    <3>. QED BY <1>3, <3>1 DEF Below
  <2>2. IsFiniteSet(Below(S, y)) /\ x \notin Below(S, y)
    BY CountsBefore DEF Below
  <2>3. Cardinality(Below(S, y) \cup {x}) = Cardinality(Below(S, y)) + 1
    BY <2>2, FS_AddElement
  <2>. QED BY <2>1, <2>3 DEF CountBefore
<1>4. ASSUME NEW y \in Int, ~(x < y) PROVE CountBefore(T, y) = CountBefore(S, y)
  <2>1. Below(T, y) = Below(S, y)
    <3>1. \A q : q \in T <=> q \in S \/ q = x
      BY DEF With
    <3>. QED BY <1>4, <3>1 DEF Below
  <2>. QED BY <2>1 DEF CountBefore
<1>. QED BY <1>2, <1>3, <1>4

LEMMA RestIs ==
  ASSUME NEW V, NEW l \in Seq(V), NEW S, NEW r \in Seq(V)
  PROVE  IsRest(r, l, S) <=> /\ Len(r) = Len(l) - Cardinality(S)
                             /\ \A p \in 1 .. Len(l) : p \notin S => r[p - CountBefore(S, p)] = l[p]
<1>1. DOMAIN l = 1 .. Len(l)
  BY LenProperties
<1>. QED BY <1>1 DEF IsRest, CountBefore, Below

LEMMA RestWithoutOne ==
  ASSUME NEW V, NEW l \in Seq(V), NEW S, Positions(Len(l), S), NEW r \in Seq(V), IsRest(r, l, S),
         NEW x \in 1 .. Len(l), x \notin S, NEW i, PlaceOf(i, S, x), NEW t, t = RemoveAt(r, i),
         NEW T, With(T, S, x)
  PROVE  /\ r[i] = l[x] /\ i \in 1 .. Len(r) /\ t \in Seq(V)
         /\ IsRest(t, l, T)
<1>1. PICK n \in Nat : n = Len(l)
  BY LenProperties
<1>2. x \in 1 .. n /\ x \notin S /\ Positions(n, S)
  BY <1>1
<1>3. Len(r) = n - Cardinality(S) /\ \A p \in 1 .. n : p \notin S => r[p - CountBefore(S, p)] = l[p]
  BY <1>1, RestIs
<1>4. \A p \in 1 .. n : p \notin S => p - CountBefore(S, p) \in 1 .. n - Cardinality(S)
  BY <1>2, CountLeavesRoom
<1>5. i \in 1 .. Len(r) /\ r[i] = l[x]
  BY <1>2, <1>3, <1>4 DEF PlaceOf
<1>6. /\ t \in Seq(V) /\ Len(t) = Len(r) - 1
      /\ \A j \in 1 .. Len(r) - 1 : t[j] = IF j < i THEN r[j] ELSE r[j + 1]
  <2>1. i \in 1 .. Len(r)
    BY <1>5
  <2>2. PICK k \in 1 .. Len(r) : k = i
    BY <2>1
  <2>3. RemoveAt(r, k) \in Seq(V) /\ Len(RemoveAt(r, k)) = Len(r) - 1 /\ TakenOut(RemoveAt(r, k), r, k)
    BY RemoveAtIs
  <2>. QED BY <2>2, <2>3 DEF TakenOut
<1>7. PICK c \in Nat : c = Cardinality(S)
  <2>1. Cardinality(S) \in 0 .. n
    BY <1>2, CountsBefore
  <2>. QED BY <2>1
<1>8. \A y \in Int : CountBefore(S, y) \in Int
  BY <1>2, CountsBefore
<1>9. /\ Cardinality(T) = Cardinality(S) + 1
      /\ \A y \in Int : x < y => CountBefore(T, y) = CountBefore(S, y) + 1
      /\ \A y \in Int : ~(x < y) => CountBefore(T, y) = CountBefore(S, y)
  BY <1>2, CountWithOne
<1>10. PICK m \in Nat : m = Len(r)
  BY LenProperties
<1>11. m = n - c /\ i \in 1 .. m /\ Len(t) = m - 1 /\ Cardinality(T) = c + 1
  BY <1>3, <1>5, <1>6, <1>7, <1>9, <1>10
<1>12. PICK b \in Int : b = CountBefore(S, x) /\ i = x - b
  BY <1>2, <1>8 DEF PlaceOf
<1>13. i = x - b
  BY <1>12
<1>14. ASSUME NEW p \in 1 .. n, p \notin T PROVE t[p - CountBefore(T, p)] = l[p]
  <2>1. p \notin S /\ p # x /\ p \in Int
    BY <1>14 DEF With
  <2>2. PICK a \in Int : a = CountBefore(S, p)
    BY <1>8
  <2>3. PICK j \in 1 .. m : j = p - a
    BY <1>4, <1>7, <1>11, <2>1, <2>2
  <2>4. r[j] = l[p]
    BY <1>3, <2>1, <2>2, <2>3
  <2>5. CASE p < x
    <3>1. CountBefore(T, p) = a
      BY <1>2, <1>9, <2>1, <2>2, <2>5
    <3>2. b <= a + (x - p - 1)
      <4>1. CountBefore(S, x) <= CountBefore(S, p) + (x - p - 1)
        BY <1>2, <2>1, <2>5, CountGrows
      <4>. QED BY <4>1, <1>12, <2>2
    <3>3. j < i /\ j \in 1 .. m - 1
      BY <1>2, <1>11, <1>13, <2>3, <3>2
    <3>4. t[j] = r[j]
      BY <1>6, <1>10, <3>3
    <3>. QED BY <2>3, <2>4, <3>1, <3>4
  <2>6. CASE p > x
    <3>1. CountBefore(T, p) = a + 1
      BY <1>2, <1>9, <2>1, <2>2, <2>6
    <3>2. a <= b + (p - x - 1)
      <4>1. CountBefore(S, p) <= CountBefore(S, x) + (p - x - 1)
        BY <1>2, <2>1, <2>6, CountGrows
      <4>. QED BY <4>1, <1>12, <2>2
    <3>3. j - 1 \in 1 .. m - 1 /\ ~(j - 1 < i) /\ (j - 1) + 1 = j
      BY <1>2, <1>11, <1>13, <2>3, <3>2
    <3>4. t[j - 1] = r[j]
      BY <1>6, <1>10, <3>3
    <3>5. p - CountBefore(T, p) = j - 1
      BY <2>3, <3>1
    <3>. QED BY <2>4, <3>4, <3>5
  <2>. QED BY <1>2, <2>1, <2>5, <2>6
<1>15. Len(t) = n - Cardinality(T)
  BY <1>11
<1>16. IsRest(t, l, T) <=> /\ Len(t) = n - Cardinality(T)
                           /\ \A p \in 1 .. n : p \notin T => t[p - CountBefore(T, p)] = l[p]
  BY <1>1, <1>6, RestIs
<1>. QED BY <1>5, <1>6, <1>14, <1>15, <1>16

-----------------------------------------------------------------------------
(* lrem from the head. *)

OccBefore(l, v, x) == Below(Occurrences(l, v), x)

LEMMA RemovedPositions ==
  ASSUME NEW V, NEW l \in Seq(V), NEW nums, NEW v
  PROVE  Positions(Len(l), Occurrences(l, v)) /\ Positions(Len(l), ToRemove(l, nums, v))
<1>1. DOMAIN l = 1 .. Len(l)
  BY LenProperties
<1>2. Positions(Len(l), Occurrences(l, v))
  BY <1>1 DEF Positions, Occurrences
<1>. QED BY <1>1, <1>2 DEF Positions, ToRemove, Occurrences

LEMMA BelowIs ==
  ASSUME NEW n \in Nat, NEW D, Positions(n, D), NEW x \in 1 .. n
  PROVE  /\ Positions(n, Below(D, x)) /\ Positions(n, Below(D, x + 1))
         /\ x \in D => With(Below(D, x + 1), Below(D, x), x)
         /\ x \notin D => Below(D, x + 1) = Below(D, x)
         /\ x \notin Below(D, x)
<1>1. \A q \in D : q \in 1 .. n
  BY DEF Positions
<1>2. \A q \in D : q < x + 1 <=> q < x \/ q = x
  BY <1>1
<1>3. Positions(n, Below(D, x)) /\ Positions(n, Below(D, x + 1))
  BY <1>1 DEF Positions, Below
<1>4. ASSUME x \in D PROVE With(Below(D, x + 1), Below(D, x), x)
  BY <1>2, <1>4 DEF With, Below
<1>5. ASSUME x \notin D PROVE Below(D, x + 1) = Below(D, x)
  BY <1>2, <1>5 DEF Below
<1>6. x \notin Below(D, x)
  BY DEF Below
<1>. QED BY <1>3, <1>4, <1>5, <1>6

(* While fewer than nums are removed the next occurrence is; then none is. *)
LEMMA HeadTakes ==
  ASSUME NEW V, NEW l \in Seq(V), NEW nums \in Nat, NEW v, NEW x \in 1 .. Len(l), NEW D, D = ToRemove(l, nums, v),
         NEW c, c = Cardinality(Below(D, x))
  PROVE  /\ nums = 0 \/ c < nums => (x \in D <=> l[x] = v)
         /\ ~(nums = 0 \/ c < nums) => x \notin D
<1>1. PICK n \in Nat : n = Len(l)
  BY LenProperties
<1>2. x \in 1 .. n /\ DOMAIN l = 1 .. n
  BY <1>1, LenProperties
<1>3. PICK occ : occ = Occurrences(l, v)
  OBVIOUS
<1>4. Positions(n, occ) /\ Positions(n, D) /\ \A p : p \in occ <=> p \in 1 .. n /\ l[p] = v
  BY <1>1, <1>2, <1>3, RemovedPositions DEF Occurrences
<1>5. \A p : p \in D <=> p \in occ /\ (nums = 0 \/ (nums > 0 /\ Cardinality(Below(occ, p)) < nums))
  BY <1>3 DEF ToRemove, Below
<1>6. CASE nums = 0
  BY <1>2, <1>4, <1>5, <1>6
<1>7. CASE nums > 0
  <2>1. \A y \in Int : IsFiniteSet(Below(occ, y)) /\ Cardinality(Below(occ, y)) \in Nat
    <3>1. \A y \in Int : IsFiniteSet(Below(occ, y))
      BY <1>4, CountsBefore
    <3>. QED BY <3>1, FS_CardinalityType
  <2>2. Inside(D, occ)
    BY <1>5 DEF Inside
  <2>3. Inside(Below(D, x), Below(occ, x))
    BY <2>2 DEF Inside, Below
  <2>4. IsFiniteSet(Below(D, x)) /\ c \in Nat /\ c <= Cardinality(Below(occ, x))
    <3>1. IsFiniteSet(Below(occ, x))
      BY <1>2, <2>1
    <3>2. /\ IsFiniteSet(Below(D, x)) /\ Cardinality(Below(D, x)) \in Nat
          /\ Cardinality(Below(D, x)) <= Cardinality(Below(occ, x))
      BY <2>3, <3>1, SubsetCount
    <3>. QED BY <3>2
  <2>5. ASSUME ~(c < nums) PROVE x \notin D
    <3>1. Cardinality(Below(occ, x)) \in Nat
      BY <1>2, <2>1
    <3>. QED BY <1>5, <1>7, <2>4, <2>5, <3>1
  <2>6. ASSUME c < nums, l[x] = v PROVE x \in D
    <3> DEFINE M == {q \in Below(occ, x) : q \notin D}
    <3>1. ASSUME M # {} PROVE FALSE
      <4>1. PICK q \in M : \A y \in M : q <= y
        <5>1. M \in SUBSET Nat
          BY <1>4 DEF Below
        <5>. HIDE DEF M
        <5>. QED BY <3>1, <5>1, LeastNat
      <4>2. q \in occ /\ q < x /\ q \notin D /\ q \in 1 .. n
        BY <1>4, <4>1 DEF Below
      <4>3. ASSUME NEW y \in occ, y < q PROVE y \in D /\ y < x
        <5>1. y \in 1 .. n /\ y < x
          BY <1>2, <1>4, <4>2, <4>3
        <5>2. y \notin M
          BY <4>1, <4>2, <4>3, <5>1
        <5>. QED BY <5>1, <5>2, <4>3 DEF Below
      <4>4. Inside(Below(occ, q), Below(D, x))
        BY <4>3 DEF Inside, Below
      <4>5. Cardinality(Below(occ, q)) <= c /\ Cardinality(Below(occ, q)) \in Nat
        <5>1. /\ Cardinality(Below(occ, q)) <= Cardinality(Below(D, x))
              /\ Cardinality(Below(occ, q)) \in Nat
          BY <2>4, <4>4, SubsetCount
        <5>. QED BY <5>1
      <4>6. Cardinality(Below(occ, q)) < nums
        BY <2>4, <2>6, <4>5
      <4>. QED BY <1>5, <1>7, <4>2, <4>6
    <3>2. Inside(Below(occ, x), Below(D, x))
      BY <3>1 DEF Inside, Below
    <3>3. Cardinality(Below(occ, x)) <= c /\ Cardinality(Below(occ, x)) \in Nat
      <4>1. Cardinality(Below(occ, x)) <= Cardinality(Below(D, x)) /\ Cardinality(Below(occ, x)) \in Nat
        BY <2>4, <3>2, SubsetCount
      <4>. QED BY <4>1
    <3>4. Cardinality(Below(occ, x)) < nums
      BY <2>4, <2>6, <3>3
    <3>. QED BY <1>2, <1>4, <1>5, <1>7, <2>6, <3>4
  <2>7. x \in D => l[x] = v
    BY <1>4, <1>5
  <2>. QED BY <1>7, <2>5, <2>6, <2>7
<1>. QED BY <1>6, <1>7

HeadRound(nums, v, s) ==
  IF ~(nums = 0 \/ s.cot < nums) THEN s
  ELSE IF s.lst[s.p] = v THEN Removing(RemoveAt(s.lst, s.p), s.p, s.cot + 1)
  ELSE Removing(s.lst, s.p + 1, s.cot)

Remover(V) == [lst : Seq(V), p : Int, cot : Int]

(* After round k what is left is the list without those to remove among    *)
(* the first k positions, and the iterator stands behind them.             *)
HeadAfter(V, l, nums, v, k) ==
  {s \in Remover(V) :
     LET S == Below(ToRemove(l, nums, v), k + 1)
     IN  /\ IsRest(s.lst, l, S) /\ s.cot = Cardinality(S)
         /\ nums = 0 \/ s.cot < nums => s.p = k + 1 - s.cot}

LEMMA HeadRoundIs ==
  ASSUME NEW V, NEW l \in Seq(V), NEW nums \in Nat, NEW v \in V, NEW k \in 1 .. Len(l),
         NEW s \in HeadAfter(V, l, nums, v, k - 1)
  PROVE  HeadRound(nums, v, s) \in HeadAfter(V, l, nums, v, k)
<1>1. PICK n \in Nat : n = Len(l)
  BY LenProperties
<1>2. k \in 1 .. n /\ k \in Nat /\ k \in Int
  BY <1>1
<1>3. PICK D : D = ToRemove(l, nums, v)
  OBVIOUS
<1>4. Positions(n, D)
  BY <1>1, <1>3, RemovedPositions
<1>5. PICK S : S = Below(D, k)
  OBVIOUS
<1>6. PICK T : T = Below(D, k + 1)
  OBVIOUS
<1>7. /\ Positions(n, S) /\ Positions(n, T) /\ k \notin S
      /\ k \in D => With(T, S, k)
      /\ k \notin D => T = S
  BY <1>2, <1>4, <1>5, <1>6, BelowIs
<1>8. (k - 1) + 1 = k
  BY <1>2
<1>9. s = Removing(s.lst, s.p, s.cot) /\ s.lst \in Seq(V) /\ s.p \in Int /\ s.cot \in Int
  <2>1. s \in Remover(V)
    BY DEF HeadAfter
  <2>. QED BY <2>1 DEF Remover, Removing
<1>9a. PICK r \in Seq(V) : r = s.lst
  BY <1>9
<1>9b. PICK p \in Int : p = s.p
  BY <1>9
<1>9c. PICK c \in Int : c = s.cot
  BY <1>9
<1>10. s.lst = r /\ s.p = p /\ s.cot = c /\ s = Removing(r, p, c)
  BY <1>9, <1>9a, <1>9b, <1>9c
<1>11. IsRest(r, l, S) /\ c = Cardinality(S) /\ (nums = 0 \/ c < nums => p = k - c)
  <2>1. LET U == Below(D, (k - 1) + 1)
        IN  /\ IsRest(s.lst, l, U) /\ s.cot = Cardinality(U)
            /\ nums = 0 \/ s.cot < nums => s.p = (k - 1) + 1 - s.cot
    BY <1>3 DEF HeadAfter
  <2>. QED BY <1>5, <1>8, <1>10, <2>1
<1>12. /\ nums = 0 \/ c < nums => (k \in D <=> l[k] = v)
       /\ ~(nums = 0 \/ c < nums) => k \notin D
  BY <1>3, <1>5, <1>11, HeadTakes
<1>13. ASSUME NEW r2 \in Seq(V), NEW p2 \in Int, NEW c2 \in Int, IsRest(r2, l, T), c2 = Cardinality(T),
              nums = 0 \/ c2 < nums => p2 = k + 1 - c2
       PROVE  Removing(r2, p2, c2) \in HeadAfter(V, l, nums, v, k)
  <2>1. PICK u : u = Removing(r2, p2, c2)
    OBVIOUS
  <2>2. u \in Remover(V) /\ u.lst = r2 /\ u.p = p2 /\ u.cot = c2
    BY <2>1 DEF Remover, Removing
  <2>3. LET U == Below(D, k + 1)
        IN  /\ IsRest(u.lst, l, U) /\ u.cot = Cardinality(U)
            /\ nums = 0 \/ u.cot < nums => u.p = k + 1 - u.cot
    BY <1>6, <1>13, <2>2
  <2>. QED BY <1>3, <2>1, <2>2, <2>3 DEF HeadAfter
<1>14. CASE ~(nums = 0 \/ c < nums)
  <2>1. HeadRound(nums, v, s) = s
    BY <1>10, <1>14 DEF HeadRound
  <2>2. T = S
    BY <1>7, <1>12, <1>14
  <2>3. IsRest(r, l, T) /\ c = Cardinality(T)
    BY <1>11, <2>2
  <2>4. Removing(r, p, c) \in HeadAfter(V, l, nums, v, k)
    BY <1>13, <1>14, <2>3
  <2>. QED BY <1>10, <2>1, <2>4
<1>15. CASE nums = 0 \/ c < nums
  <2>1. p = k - c
    BY <1>11, <1>15
  <2>2. CountBefore(S, k) = c
    <3>1. Below(S, k) = S
      BY <1>5 DEF Below
    <3>. QED BY <1>11, <3>1 DEF CountBefore
  <2>3. PlaceOf(p, S, k)
    BY <2>1, <2>2 DEF PlaceOf
  <2>4. HeadRound(nums, v, s) = IF r[p] = v THEN Removing(RemoveAt(r, p), p, c + 1) ELSE Removing(r, p + 1, c)
    BY <1>10, <1>15 DEF HeadRound
  <2>5. r[p] = l[k] /\ p \in 1 .. Len(r)
    <3>1. Len(r) = n - c /\ \A q \in 1 .. n : q \notin S => r[q - CountBefore(S, q)] = l[q]
      <4>1. r \in Seq(V) /\ IsRest(r, l, S)
        BY <1>9, <1>11
      <4>2. /\ Len(r) = Len(l) - Cardinality(S)
            /\ \A q \in 1 .. Len(l) : q \notin S => r[q - CountBefore(S, q)] = l[q]
        BY <4>1, RestIs
      <4>. QED BY <1>1, <1>11, <4>2
    <3>2. k - CountBefore(S, k) \in 1 .. n - Cardinality(S)
      BY <1>2, <1>7, CountLeavesRoom
    <3>. QED BY <1>2, <1>7, <1>11, <2>1, <2>2, <3>1, <3>2
  <2>6. CASE l[k] = v
    <3>1. With(T, S, k)
      BY <1>7, <1>12, <1>15, <2>6
    <3>2. PICK t : t = RemoveAt(r, p)
      OBVIOUS
    <3>3. t \in Seq(V) /\ IsRest(t, l, T)
      <4>1. Positions(Len(l), S) /\ k \in 1 .. Len(l)
        BY <1>1, <1>2, <1>7
      <4>. QED BY <1>7, <1>9, <1>11, <2>3, <3>1, <3>2, <4>1, RestWithoutOne
    <3>4. c + 1 = Cardinality(T)
      <4>1. Cardinality(T) = Cardinality(S) + 1
        BY <1>2, <1>7, <3>1, CountWithOne
      <4>. QED BY <1>11, <4>1
    <3>5. p = k + 1 - (c + 1)
      BY <1>2, <2>1
    <3>6. Removing(t, p, c + 1) \in HeadAfter(V, l, nums, v, k)
      BY <1>13, <3>3, <3>4, <3>5
    <3>. QED BY <2>4, <2>5, <2>6, <3>2, <3>6
  <2>7. CASE l[k] # v
    <3>1. T = S
      BY <1>7, <1>12, <1>15, <2>7
    <3>2. p + 1 = k + 1 - c /\ p + 1 \in Int
      BY <1>2, <2>1
    <3>3. Removing(r, p + 1, c) \in HeadAfter(V, l, nums, v, k)
      BY <1>9, <1>11, <1>13, <3>1, <3>2
    <3>. QED BY <2>4, <2>5, <2>7, <3>3
  <2>. QED BY <2>6, <2>7
<1>. QED BY <1>14, <1>15

HeadRounds(f, l, nums, v) ==
  f = [k \in 0 .. Len(l) |-> IF k = 0 THEN Removing(l, 1, 0) ELSE HeadRound(nums, v, f[k - 1])]

LEMMA HeadStarts ==
  ASSUME NEW V, NEW l \in Seq(V), NEW nums \in Nat, NEW v \in V
  PROVE  Removing(l, 1, 0) \in HeadAfter(V, l, nums, v, 0)
<1>1. PICK n \in Nat : n = Len(l)
  BY LenProperties
<1>2. PICK D : D = ToRemove(l, nums, v)
  OBVIOUS
<1>3. Below(D, 0 + 1) = {}
  <2>1. \A q \in D : q \in 1 .. n
    <3>1. Positions(n, D)
      BY <1>1, <1>2, RemovedPositions
    <3>. QED BY <3>1 DEF Positions
  <2>. QED BY <2>1 DEF Below
<1>4. Cardinality({}) = 0
  BY FS_EmptySet
<1>5. IsRest(l, l, {})
  <2>1. \A q \in 1 .. n : CountBefore({}, q) = 0
    <3>1. \A q \in 1 .. n : Below({}, q) = {}
      BY DEF Below
    <3>. QED BY <1>4, <3>1 DEF CountBefore
  <2>2. Len(l) = Len(l) - Cardinality({}) /\ \A q \in 1 .. Len(l) : q \notin {} => l[q - CountBefore({}, q)] = l[q]
    BY <1>1, <1>4, <2>1
  <2>. QED BY <2>2, RestIs
<1>6. PICK u : u = Removing(l, 1, 0)
  OBVIOUS
<1>7. u \in Remover(V) /\ u.lst = l /\ u.p = 1 /\ u.cot = 0
  BY <1>6 DEF Remover, Removing
<1>8. LET S == Below(D, 0 + 1)
      IN  /\ IsRest(u.lst, l, S) /\ u.cot = Cardinality(S)
          /\ nums = 0 \/ u.cot < nums => u.p = 0 + 1 - u.cot
  <2>1. u.cot = Cardinality({})
    BY <1>4, <1>7
  <2>2. IsRest(u.lst, l, {})
    BY <1>5, <1>7
  <2>3. u.p = 0 + 1 - u.cot
    BY <1>7
  <2>. QED BY <1>3, <2>1, <2>2, <2>3, Zenon
<1>9. u \in HeadAfter(V, l, nums, v, 0)
  BY <1>2, <1>7, <1>8 DEF HeadAfter
<1>. QED BY <1>6, <1>9

(* lrem with a count that is not negative. *)
LEMMA RemFromHeadIs ==
  ASSUME NEW V, NEW l \in Seq(V), NEW nums \in Nat, NEW v \in V
  PROVE  RemFromHead(l, nums, v) \in Seq(V) /\ IsRest(RemFromHead(l, nums, v), l, ToRemove(l, nums, v))
<1>1. PICK n \in Nat : n = Len(l)
  BY LenProperties
<1>2. PICK G : G = [k \in 0 .. n |-> HeadAfter(V, l, nums, v, k)]
  OBVIOUS
<1>3. PICK nxt : nxt = [x \in (1 .. n) \X Remover(V) |-> HeadRound(nums, v, x[2])]
  OBVIOUS
<1>4. \A k \in 0 .. n : G[k] = HeadAfter(V, l, nums, v, k)
  BY <1>2
<1>5. \A k \in 0 .. n : \A s \in G[k] : s \in Remover(V)
  BY <1>4 DEF HeadAfter
<1>6. ASSUME NEW k \in 1 .. n, NEW s \in G[k - 1]
      PROVE  HeadRound(nums, v, s) \in G[k] /\ nxt[<<k, s>>] = HeadRound(nums, v, s)
  <2>1. k - 1 \in 0 .. n /\ k \in 0 .. n /\ k \in 1 .. Len(l)
    BY <1>1
  <2>2. s \in HeadAfter(V, l, nums, v, k - 1) /\ s \in Remover(V)
    BY <1>4, <1>5, <2>1
  <2>3. HeadRound(nums, v, s) \in HeadAfter(V, l, nums, v, k)
    BY <2>1, <2>2, HeadRoundIs
  <2>4. <<k, s>> \in (1 .. n) \X Remover(V) /\ <<k, s>>[2] = s
    BY <2>2
  <2>5. nxt[<<k, s>>] = HeadRound(nums, v, <<k, s>>[2])
    BY <1>3, <2>4
  <2>. QED BY <1>4, <2>1, <2>3, <2>4, <2>5
<1>7. Keeps(n, G, nxt)
  BY <1>6 DEF Keeps
<1>8. Removing(l, 1, 0) \in G[0]
  BY <1>4, HeadStarts
<1>9. PICK f : Rounds(f, n, Removing(l, 1, 0), nxt) /\ \A k \in 0 .. n : f[k] \in G[k]
  BY <1>7, <1>8, RoundsExist
<1>10. HeadRounds(f, l, nums, v)
  <2>1. PICK init : init = Removing(l, 1, 0)
    OBVIOUS
  <2>2. f = [k \in 0 .. n |-> IF k = 0 THEN init ELSE nxt[<<k, f[k - 1]>>]]
    BY <1>9, <2>1 DEF Rounds
  <2>3. ASSUME NEW k \in 0 .. n
        PROVE (IF k = 0 THEN init ELSE nxt[<<k, f[k - 1]>>]) = (IF k = 0 THEN init ELSE HeadRound(nums, v, f[k - 1]))
    <3>1. CASE k = 0
      BY <3>1
    <3>2. CASE k # 0
      <4>1. k \in 1 .. n /\ k - 1 \in 0 .. n
        BY <3>2
      <4>2. f[k - 1] \in G[k - 1]
        BY <1>9, <4>1
      <4>. QED BY <1>6, <4>1, <4>2
    <3>. QED BY <3>1, <3>2
  <2> DEFINE a == [k \in 0 .. n |-> IF k = 0 THEN init ELSE nxt[<<k, f[k - 1]>>]]
             b == [k \in 0 .. n |-> IF k = 0 THEN init ELSE HeadRound(nums, v, f[k - 1])]
  <2>4. a = b
    BY <2>3
  <2>5. f = b
    BY <2>2, <2>4
  <2>. QED BY <1>1, <2>1, <2>5 DEF HeadRounds
<1>11. \E g : HeadRounds(g, l, nums, v)
  BY <1>10
<1>12. PICK g : g = CHOOSE h : HeadRounds(h, l, nums, v)
  OBVIOUS
<1>13. HeadRounds(g, l, nums, v)
  BY <1>11, <1>12
<1>14. RemFromHead(l, nums, v) = g[n].lst
  BY <1>1, <1>12 DEF RemFromHead, HeadRounds, HeadRound
<1>15. g[0] \in G[0]
  BY <1>1, <1>8, <1>13 DEF HeadRounds
<1>16. ASSUME NEW k \in 1 .. n, g[k - 1] \in G[k - 1] PROVE g[k] \in G[k]
  <2>1. g[k] = HeadRound(nums, v, g[k - 1])
    <3>1. k \in 0 .. Len(l) /\ k # 0
      BY <1>1
    <3>. QED BY <1>13, <3>1 DEF HeadRounds
  <2>. QED BY <1>6, <1>16, <2>1
<1>17. g[n] \in HeadAfter(V, l, nums, v, n)
  <2>1. \A k \in 0 .. n : g[k] \in G[k]
    BY <1>15, <1>16, RoundsStay
  <2>. QED BY <1>4, <2>1
<1>18. Below(ToRemove(l, nums, v), n + 1) = ToRemove(l, nums, v)
  <2>1. Positions(n, ToRemove(l, nums, v))
    BY <1>1, RemovedPositions
  <2>2. \A q \in ToRemove(l, nums, v) : q < n + 1
    BY <2>1 DEF Positions
  <2>. QED BY <2>2 DEF Below
<1>. QED BY <1>14, <1>17, <1>18 DEF HeadAfter, Remover

-----------------------------------------------------------------------------
(* lrem from the tail. *)

Above(S, y) == {q \in S : q > y}

LEMMA AboveIs ==
  ASSUME NEW n \in Nat, NEW D, Positions(n, D), NEW x \in 1 .. n
  PROVE  /\ Positions(n, Above(D, x)) /\ Positions(n, Above(D, x - 1))
         /\ x \in D => With(Above(D, x - 1), Above(D, x), x)
         /\ x \notin D => Above(D, x - 1) = Above(D, x)
         /\ x \notin Above(D, x) /\ CountBefore(Above(D, x), x) = 0
<1>1. \A q \in D : q \in 1 .. n
  BY DEF Positions
<1>2. \A q \in D : q > x - 1 <=> q > x \/ q = x
  BY <1>1
<1>3. Positions(n, Above(D, x)) /\ Positions(n, Above(D, x - 1))
  BY <1>1 DEF Positions, Above
<1>4. ASSUME x \in D PROVE With(Above(D, x - 1), Above(D, x), x)
  BY <1>2, <1>4 DEF With, Above
<1>5. ASSUME x \notin D PROVE Above(D, x - 1) = Above(D, x)
  BY <1>2, <1>5 DEF Above
<1>6. x \notin Above(D, x)
  BY DEF Above
<1>7. CountBefore(Above(D, x), x) = 0
  <2>1. Below(Above(D, x), x) = {}
    BY <1>1 DEF Below, Above
  <2>. QED BY <2>1, FS_EmptySet DEF CountBefore
<1>. QED BY <1>3, <1>4, <1>5, <1>6, <1>7

LEMMA CountsAbove ==
  ASSUME NEW n \in Nat, NEW S, Positions(n, S)
  PROVE  \A y \in Int : IsFiniteSet(Above(S, y)) /\ Cardinality(Above(S, y)) \in Nat
<1>1. IsFiniteSet(S)
  BY CountsBefore
<1>2. ASSUME NEW y \in Int PROVE IsFiniteSet(Above(S, y)) /\ Cardinality(Above(S, y)) \in Nat
  <2>1. Inside(Above(S, y), S)
    BY DEF Inside, Above
  <2>. QED BY <1>1, <2>1, SubsetCount
<1>. QED BY <1>2

LEMMA TailTakes ==
  ASSUME NEW V, NEW l \in Seq(V), NEW nums \in Int, nums < 0, NEW v, NEW x \in 1 .. Len(l),
         NEW D, D = ToRemove(l, nums, v), NEW c, c = Cardinality(Above(D, x))
  PROVE  /\ c < -nums => (x \in D <=> l[x] = v)
         /\ ~(c < -nums) => x \notin D
<1>1. PICK n \in Nat : n = Len(l)
  BY LenProperties
<1>2. x \in 1 .. n /\ DOMAIN l = 1 .. n
  BY <1>1, LenProperties
<1>3. PICK occ : occ = Occurrences(l, v)
  OBVIOUS
<1>4. Positions(n, occ) /\ Positions(n, D) /\ \A p : p \in occ <=> p \in 1 .. n /\ l[p] = v
  BY <1>1, <1>2, <1>3, RemovedPositions DEF Occurrences
<1>5. \A p : p \in D <=> p \in occ /\ Cardinality(Above(occ, p)) < -nums
  <2>1. nums # 0 /\ ~(nums > 0)
    OBVIOUS
  <2>. QED BY <1>3, <2>1 DEF ToRemove, Above
<1>6. PICK m \in Nat : m = -nums
  OBVIOUS
<1>7. \A y \in Int : IsFiniteSet(Above(occ, y)) /\ Cardinality(Above(occ, y)) \in Nat
  BY <1>4, CountsAbove
<1>8. Inside(Above(D, x), Above(occ, x))
  BY <1>5 DEF Inside, Above
<1>9. IsFiniteSet(Above(D, x)) /\ c \in Nat /\ c <= Cardinality(Above(occ, x))
  <2>1. IsFiniteSet(Above(occ, x))
    BY <1>2, <1>7
  <2>2. /\ IsFiniteSet(Above(D, x)) /\ Cardinality(Above(D, x)) \in Nat
        /\ Cardinality(Above(D, x)) <= Cardinality(Above(occ, x))
    BY <1>8, <2>1, SubsetCount
  <2>. QED BY <2>2
<1>10. ASSUME ~(c < m) PROVE x \notin D
  <2>1. Cardinality(Above(occ, x)) \in Nat
    BY <1>2, <1>7
  <2>. QED BY <1>5, <1>6, <1>9, <1>10, <2>1
<1>11. ASSUME c < m, l[x] = v PROVE x \in D
  <2> DEFINE M == {q \in Above(occ, x) : q \notin D}
  <2>1. ASSUME M # {} PROVE FALSE
    <3>1. PICK q \in M : \A y \in M : y <= q
      <4>1. M \in SUBSET Nat /\ \A y \in M : y <= n
        BY <1>4 DEF Above
      <4>. HIDE DEF M
      <4>. QED BY <2>1, <4>1, GreatestNat
    <3>2. q \in occ /\ q > x /\ q \notin D /\ q \in 1 .. n
      BY <1>4, <3>1 DEF Above
    <3>3. ASSUME NEW y \in occ, y > q PROVE y \in D /\ y > x
      <4>1. y \in 1 .. n /\ y > x
        BY <1>2, <1>4, <3>2, <3>3
      <4>2. y \notin M
        BY <3>1, <3>2, <3>3, <4>1
      <4>. QED BY <4>1, <4>2, <3>3 DEF Above
    <3>4. Inside(Above(occ, q), Above(D, x))
      BY <3>3 DEF Inside, Above
    <3>5. Cardinality(Above(occ, q)) <= c /\ Cardinality(Above(occ, q)) \in Nat
      <4>1. /\ Cardinality(Above(occ, q)) <= Cardinality(Above(D, x))
            /\ Cardinality(Above(occ, q)) \in Nat
        BY <1>9, <3>4, SubsetCount
      <4>. QED BY <4>1
    <3>6. Cardinality(Above(occ, q)) < m
      BY <1>9, <1>11, <3>5
    <3>. QED BY <1>5, <1>6, <3>2, <3>6
  <2>2. Inside(Above(occ, x), Above(D, x))
    BY <2>1 DEF Inside, Above
  <2>3. Cardinality(Above(occ, x)) <= c /\ Cardinality(Above(occ, x)) \in Nat
    <3>1. Cardinality(Above(occ, x)) <= Cardinality(Above(D, x)) /\ Cardinality(Above(occ, x)) \in Nat
      BY <1>9, <2>2, SubsetCount
    <3>. QED BY <3>1
  <2>4. Cardinality(Above(occ, x)) < m
    BY <1>9, <1>11, <2>3
  <2>. QED BY <1>2, <1>4, <1>5, <1>6, <1>11, <2>4
<1>12. x \in D => l[x] = v
  BY <1>4, <1>5
<1>. QED BY <1>6, <1>10, <1>11, <1>12

(* What is known of the list, the iterator and the count once all places   *)
(* behind x have been looked at, and what a look at place x makes of them. *)
TailState(l, nums, v, x, r, p, c) ==
  LET S == Above(ToRemove(l, nums, v), x)
  IN  IsRest(r, l, S) /\ c = Cardinality(S) /\ (c < -nums => p = x)

LEMMA TailLook ==
  ASSUME NEW V, NEW l \in Seq(V), NEW nums \in Int, nums < 0, NEW v \in V, NEW x \in 1 .. Len(l),
         NEW r \in Seq(V), NEW p \in Int, NEW c \in Int, TailState(l, nums, v, x, r, p, c)
  PROVE  /\ c < -nums /\ r[p] = v => /\ RemoveAt(r, p) \in Seq(V)
                                     /\ TailState(l, nums, v, x - 1, RemoveAt(r, p), p - 1, c + 1)
         /\ c < -nums /\ r[p] # v => TailState(l, nums, v, x - 1, r, p - 1, c)
         /\ ~(c < -nums) => TailState(l, nums, v, x - 1, r, p, c)
<1>1. PICK n \in Nat : n = Len(l)
  BY LenProperties
<1>2. x \in 1 .. n /\ x \in Int
  BY <1>1
<1>3. PICK D : D = ToRemove(l, nums, v)
  OBVIOUS
<1>4. Positions(n, D)
  BY <1>1, <1>3, RemovedPositions
<1>5. PICK S : S = Above(D, x)
  OBVIOUS
<1>6. PICK T : T = Above(D, x - 1)
  OBVIOUS
<1>7. /\ Positions(n, S) /\ x \notin S /\ CountBefore(S, x) = 0
      /\ x \in D => With(T, S, x)
      /\ x \notin D => T = S
  BY <1>2, <1>4, <1>5, <1>6, AboveIs
<1>8. IsRest(r, l, S) /\ c = Cardinality(S) /\ (c < -nums => p = x)
  BY <1>3, <1>5 DEF TailState
<1>9. /\ c < -nums => (x \in D <=> l[x] = v)
      /\ ~(c < -nums) => x \notin D
  BY <1>3, <1>5, <1>8, TailTakes
<1>10. \A r2, p2, c2 : TailState(l, nums, v, x - 1, r2, p2, c2)
         <=> IsRest(r2, l, T) /\ c2 = Cardinality(T) /\ (c2 < -nums => p2 = x - 1)
  BY <1>3, <1>6 DEF TailState
<1>11. CASE ~(c < -nums)
  <2>1. IsRest(r, l, T) /\ c = Cardinality(T)
    BY <1>7, <1>8, <1>9, <1>11
  <2>. QED BY <1>10, <1>11, <2>1
<1>12. CASE c < -nums
  <2>1. p = x /\ PlaceOf(p, S, x)
    <3>1. p = x /\ x - 0 = x
      BY <1>2, <1>8, <1>12
    <3>. QED BY <1>7, <3>1 DEF PlaceOf
  <2>2. r[p] = l[x]
    <3>1. /\ Len(r) = Len(l) - Cardinality(S)
          /\ \A q \in 1 .. Len(l) : q \notin S => r[q - CountBefore(S, q)] = l[q]
      BY <1>8, RestIs
    <3>2. x - 0 = x /\ x \in 1 .. Len(l)
      BY <1>2
    <3>3. r[x - CountBefore(S, x)] = l[x]
      BY <1>7, <3>1, <3>2
    <3>. QED BY <1>7, <2>1, <3>2, <3>3
  <2>3. CASE l[x] = v
    <3>1. With(T, S, x)
      BY <1>7, <1>9, <1>12, <2>3
    <3>2. PICK t : t = RemoveAt(r, p)
      OBVIOUS
    <3>3. t \in Seq(V) /\ IsRest(t, l, T)
      <4>1. Positions(Len(l), S)
        BY <1>1, <1>7
      <4>. QED BY <1>7, <1>8, <2>1, <3>1, <3>2, <4>1, RestWithoutOne
    <3>4. c + 1 = Cardinality(T)
      <4>1. Cardinality(T) = Cardinality(S) + 1
        BY <1>2, <1>7, <3>1, CountWithOne
      <4>. QED BY <1>8, <4>1
    <3>5. TailState(l, nums, v, x - 1, t, p - 1, c + 1)
      BY <1>10, <2>1, <3>3, <3>4
    <3>. QED BY <1>12, <2>2, <2>3, <3>2, <3>3, <3>5
  <2>4. CASE l[x] # v
    <3>1. T = S
      BY <1>7, <1>9, <1>12, <2>4
    <3>2. TailState(l, nums, v, x - 1, r, p - 1, c)
      BY <1>8, <1>10, <2>1, <3>1
    <3>. QED BY <1>12, <2>2, <2>4, <3>2
  <2>. QED BY <2>3, <2>4
<1>. QED BY <1>11, <1>12

TailRound(nums, v, s) ==
  IF ~(s.cot < -nums) THEN s
  ELSE IF s.lst[s.p] = v THEN Removing(RemoveAt(s.lst, s.p), s.p - 1, s.cot + 1)
  ELSE Removing(s.lst, s.p - 1, s.cot)

TailAfter(V, l, nums, v, k) ==
  {s \in Remover(V) : TailState(l, nums, v, Len(l) - k, s.lst, s.p, s.cot)}

TailRounds(f, l, nums, v) ==
  f = [k \in 0 .. Len(l) - 1 |-> IF k = 0 THEN Removing(l, Len(l), 0) ELSE TailRound(nums, v, f[k - 1])]

LEMMA RemoverIs ==
  ASSUME NEW V, NEW r, NEW p, NEW c
  PROVE  /\ Removing(r, p, c).lst = r /\ Removing(r, p, c).p = p /\ Removing(r, p, c).cot = c
         /\ Removing(r, p, c) \in Remover(V) <=> r \in Seq(V) /\ p \in Int /\ c \in Int
BY DEF Removing, Remover

LEMMA TailRoundIs ==
  ASSUME NEW V, NEW l \in Seq(V), NEW nums \in Int, nums < 0, NEW v \in V, NEW k \in 1 .. Len(l) - 1,
         NEW s \in TailAfter(V, l, nums, v, k - 1)
  PROVE  TailRound(nums, v, s) \in TailAfter(V, l, nums, v, k)
<1>1. PICK n \in Nat : n = Len(l)
  BY LenProperties
<1>2. PICK x \in 1 .. n : x = n - (k - 1) /\ x - 1 = n - k
  BY <1>1
<1>3. s \in Remover(V) /\ TailState(l, nums, v, x, s.lst, s.p, s.cot)
  BY <1>1, <1>2 DEF TailAfter
<1>4. s.lst \in Seq(V) /\ s.p \in Int /\ s.cot \in Int /\ s.p - 1 \in Int /\ s.cot + 1 \in Int
  BY <1>3 DEF Remover
<1>5. /\ s.cot < -nums /\ s.lst[s.p] = v =>
           /\ RemoveAt(s.lst, s.p) \in Seq(V)
           /\ TailState(l, nums, v, x - 1, RemoveAt(s.lst, s.p), s.p - 1, s.cot + 1)
      /\ s.cot < -nums /\ s.lst[s.p] # v => TailState(l, nums, v, x - 1, s.lst, s.p - 1, s.cot)
      /\ ~(s.cot < -nums) => TailState(l, nums, v, x - 1, s.lst, s.p, s.cot)
  <2>1. x \in 1 .. Len(l)
    BY <1>1
  <2>. QED BY <1>3, <1>4, <2>1, TailLook
<1>6. ASSUME NEW r \in Seq(V), NEW p \in Int, NEW c \in Int, TailState(l, nums, v, x - 1, r, p, c)
      PROVE  Removing(r, p, c) \in TailAfter(V, l, nums, v, k)
  <2>1. PICK u : u = Removing(r, p, c)
    OBVIOUS
  <2>2. u.lst = r /\ u.p = p /\ u.cot = c /\ u \in Remover(V)
    <3>1. /\ Removing(r, p, c).lst = r /\ Removing(r, p, c).p = p /\ Removing(r, p, c).cot = c
          /\ Removing(r, p, c) \in Remover(V)
      BY RemoverIs
    <3>. QED BY <2>1, <3>1
  <2>3. TailState(l, nums, v, Len(l) - k, u.lst, u.p, u.cot)
    BY <1>1, <1>2, <1>6, <2>2
  <2>. QED BY <2>1, <2>2, <2>3 DEF TailAfter
<1>7. CASE ~(s.cot < -nums)
  <2>1. TailRound(nums, v, s) = s
    BY <1>7 DEF TailRound
  <2>2. TailState(l, nums, v, Len(l) - k, s.lst, s.p, s.cot)
    BY <1>1, <1>2, <1>5, <1>7
  <2>. QED BY <1>3, <2>1, <2>2 DEF TailAfter
<1>8. CASE s.cot < -nums /\ s.lst[s.p] = v
  <2>1. TailRound(nums, v, s) = Removing(RemoveAt(s.lst, s.p), s.p - 1, s.cot + 1)
    BY <1>8 DEF TailRound
  <2>2. Removing(RemoveAt(s.lst, s.p), s.p - 1, s.cot + 1) \in TailAfter(V, l, nums, v, k)
    BY <1>4, <1>5, <1>6, <1>8
  <2>. QED BY <2>1, <2>2
<1>9. CASE s.cot < -nums /\ s.lst[s.p] # v
  <2>1. TailRound(nums, v, s) = Removing(s.lst, s.p - 1, s.cot)
    BY <1>9 DEF TailRound
  <2>2. Removing(s.lst, s.p - 1, s.cot) \in TailAfter(V, l, nums, v, k)
    BY <1>4, <1>5, <1>6, <1>9
  <2>. QED BY <2>1, <2>2
<1>. QED BY <1>7, <1>8, <1>9

LEMMA TailStarts ==
  ASSUME NEW V, NEW l \in Seq(V), NEW nums \in Int, NEW v \in V
  PROVE  Removing(l, Len(l), 0) \in TailAfter(V, l, nums, v, 0)
<1>1. PICK n \in Nat : n = Len(l)
  BY LenProperties
<1>2. PICK D : D = ToRemove(l, nums, v)
  OBVIOUS
<1>3. Above(D, n) = {}
  <2>1. \A q \in D : q \in 1 .. n
    <3>1. Positions(n, D)
      BY <1>1, <1>2, RemovedPositions
    <3>. QED BY <3>1 DEF Positions
  <2>. QED BY <2>1 DEF Above
<1>4. Cardinality({}) = 0
  BY FS_EmptySet
<1>5. IsRest(l, l, {})
  <2>1. \A q \in 1 .. n : CountBefore({}, q) = 0
    <3>1. \A q \in 1 .. n : Below({}, q) = {}
      BY DEF Below
    <3>. QED BY <1>4, <3>1 DEF CountBefore
  <2>2. Len(l) = Len(l) - Cardinality({}) /\ \A q \in 1 .. Len(l) : q \notin {} => l[q - CountBefore({}, q)] = l[q]
    BY <1>1, <1>4, <2>1
  <2>. QED BY <2>2, RestIs
<1>6. TailState(l, nums, v, n, l, n, 0)
  BY <1>2, <1>3, <1>4, <1>5 DEF TailState
<1>7. PICK u : u = Removing(l, n, 0)
  OBVIOUS
<1>8. u.lst = l /\ u.p = n /\ u.cot = 0 /\ u \in Remover(V)
  BY <1>7, RemoverIs
<1>9. TailState(l, nums, v, Len(l) - 0, u.lst, u.p, u.cot)
  BY <1>1, <1>6, <1>8
<1>. QED BY <1>1, <1>7, <1>8, <1>9 DEF TailAfter

(* lrem with a negative count, of a list that is not empty. *)
LEMMA RemFromTailIs ==
  ASSUME NEW V, NEW l \in Seq(V), l # << >>, NEW nums \in Int, nums < 0, NEW v \in V
  PROVE  RemFromTail(l, nums, v) \in Seq(V) /\ IsRest(RemFromTail(l, nums, v), l, ToRemove(l, nums, v))
<1>1. PICK n \in Nat : Len(l) = n + 1
  <2>1. Len(l) \in Nat /\ Len(l) # 0
    BY LenProperties, EmptySeq
  <2>. QED BY <2>1
<1>2. PICK G : G = [k \in 0 .. n |-> TailAfter(V, l, nums, v, k)]
  OBVIOUS
<1>3. PICK nxt : nxt = [x \in (1 .. n) \X Remover(V) |-> TailRound(nums, v, x[2])]
  OBVIOUS
<1>4. \A k \in 0 .. n : G[k] = TailAfter(V, l, nums, v, k)
  BY <1>2
<1>5. \A k \in 0 .. n : \A s \in G[k] : s \in Remover(V)
  BY <1>4 DEF TailAfter
<1>6. ASSUME NEW k \in 1 .. n, NEW s \in G[k - 1]
      PROVE  TailRound(nums, v, s) \in G[k] /\ nxt[<<k, s>>] = TailRound(nums, v, s)
  <2>1. k - 1 \in 0 .. n /\ k \in 0 .. n /\ k \in 1 .. Len(l) - 1
    BY <1>1
  <2>2. s \in TailAfter(V, l, nums, v, k - 1) /\ s \in Remover(V)
    BY <1>4, <1>5, <2>1
  <2>3. TailRound(nums, v, s) \in TailAfter(V, l, nums, v, k)
    BY <2>1, <2>2, TailRoundIs
  <2>4. <<k, s>> \in (1 .. n) \X Remover(V) /\ <<k, s>>[2] = s
    BY <2>2
  <2>5. nxt[<<k, s>>] = TailRound(nums, v, <<k, s>>[2])
    BY <1>3, <2>4
  <2>. QED BY <1>4, <2>1, <2>3, <2>4, <2>5
<1>7. Keeps(n, G, nxt)
  BY <1>6 DEF Keeps
<1>8. PICK init : init = Removing(l, Len(l), 0)
  OBVIOUS
<1>9. init \in G[0]
  BY <1>4, <1>8, TailStarts
<1>10. PICK f : Rounds(f, n, init, nxt) /\ \A k \in 0 .. n : f[k] \in G[k]
  BY <1>7, <1>9, RoundsExist
<1>11. Len(l) - 1 = n
  BY <1>1
<1>12. TailRounds(f, l, nums, v)
  <2>2. f = [k \in 0 .. n |-> IF k = 0 THEN init ELSE nxt[<<k, f[k - 1]>>]]
    BY <1>10 DEF Rounds
  <2>3. ASSUME NEW k \in 0 .. n
        PROVE (IF k = 0 THEN init ELSE nxt[<<k, f[k - 1]>>]) = (IF k = 0 THEN init ELSE TailRound(nums, v, f[k - 1]))
    <3>1. CASE k = 0
      BY <3>1
    <3>2. CASE k # 0
      <4>1. k \in 1 .. n /\ k - 1 \in 0 .. n
        BY <3>2
      <4>2. f[k - 1] \in G[k - 1]
        BY <1>10, <4>1
      <4>. QED BY <1>6, <4>1, <4>2
    <3>. QED BY <3>1, <3>2
  <2> DEFINE a == [k \in 0 .. n |-> IF k = 0 THEN init ELSE nxt[<<k, f[k - 1]>>]]
             b == [k \in 0 .. n |-> IF k = 0 THEN init ELSE TailRound(nums, v, f[k - 1])]
  <2>4. a = b
    BY <2>3
  <2>5. f = b
    BY <2>2, <2>4
  <2>. QED BY <1>8, <1>11, <2>5 DEF TailRounds
<1>13. \E g : TailRounds(g, l, nums, v)
  BY <1>12
<1>14. PICK g : g = CHOOSE h : TailRounds(h, l, nums, v)
  OBVIOUS
<1>15. TailRounds(g, l, nums, v)
  BY <1>13, <1>14
<1>16. BeforeBegin(l, nums, v) = g[n]
  <2>1. BeforeBegin(l, nums, v) = (CHOOSE h : TailRounds(h, l, nums, v))[Len(l) - 1]
    BY DEF BeforeBegin, TailRounds, TailRound
  <2>. QED BY <1>11, <1>14, <2>1
<1>17. g[0] \in G[0]
  <2>1. g = [k \in 0 .. n |-> IF k = 0 THEN init ELSE TailRound(nums, v, g[k - 1])]
    BY <1>8, <1>11, <1>15 DEF TailRounds
  <2>2. g[0] = init
    BY <2>1
  <2>. QED BY <1>9, <2>2
<1>18. ASSUME NEW k \in 1 .. n, g[k - 1] \in G[k - 1] PROVE g[k] \in G[k]
  <2>1. g[k] = TailRound(nums, v, g[k - 1])
    <3>1. k \in 0 .. n /\ k # 0
      BY <1>1
    <3>2. g = [i \in 0 .. n |-> IF i = 0 THEN init ELSE TailRound(nums, v, g[i - 1])]
      BY <1>8, <1>11, <1>15 DEF TailRounds
    <3>. QED BY <3>1, <3>2
  <2>. QED BY <1>6, <1>18, <2>1
<1>19. PICK s : s = g[n]
  OBVIOUS
<1>20. s \in Remover(V) /\ TailState(l, nums, v, 1, s.lst, s.p, s.cot)
  <2>1. \A k \in 0 .. n : g[k] \in G[k]
    BY <1>17, <1>18, RoundsStay
  <2>2. s \in TailAfter(V, l, nums, v, n)
    BY <1>4, <1>19, <2>1
  <2>3. Len(l) - n = 1
    BY <1>1
  <2>. QED BY <2>2, <2>3 DEF TailAfter
<1>21. s.lst \in Seq(V) /\ s.p \in Int /\ s.cot \in Int
  BY <1>20 DEF Remover
<1>22. /\ s.cot < -nums /\ s.lst[s.p] = v =>
            /\ RemoveAt(s.lst, s.p) \in Seq(V)
            /\ TailState(l, nums, v, 1 - 1, RemoveAt(s.lst, s.p), s.p - 1, s.cot + 1)
       /\ s.cot < -nums /\ s.lst[s.p] # v => TailState(l, nums, v, 1 - 1, s.lst, s.p - 1, s.cot)
       /\ ~(s.cot < -nums) => TailState(l, nums, v, 1 - 1, s.lst, s.p, s.cot)
  <2>1. 1 \in 1 .. Len(l)
    BY <1>1
  <2>. QED BY <1>20, <1>21, <2>1, TailLook
<1>23. \A r, p, c : TailState(l, nums, v, 1 - 1, r, p, c) => IsRest(r, l, ToRemove(l, nums, v))
  <2>1. Above(ToRemove(l, nums, v), 1 - 1) = ToRemove(l, nums, v)
    <3>1. Positions(Len(l), ToRemove(l, nums, v))
      BY RemovedPositions
    <3>2. \A q \in ToRemove(l, nums, v) : q > 1 - 1
      BY <1>1, <3>1 DEF Positions
    <3>. QED BY <3>2 DEF Above
  <2>. QED BY <2>1 DEF TailState
<1>24. RemFromTail(l, nums, v) = IF s.cot < -nums /\ s.lst[s.p] = v THEN RemoveAt(s.lst, s.p) ELSE s.lst
  BY <1>16, <1>19 DEF RemFromTail
<1>. QED BY <1>21, <1>22, <1>23, <1>24

LEMMA ListObjectRemIs ==
  ASSUME NEW V, NEW l \in Seq(V), NEW nums \in Int, NEW v \in V, ~RemIsUndefined(l, nums)
  PROVE  /\ ListObjectRem(l, nums, v) \in Seq(V) /\ Len(ListObjectRem(l, nums, v)) <= Len(l)
         /\ IsRest(ListObjectRem(l, nums, v), l, ToRemove(l, nums, v))
<1>1. PICK r : r = ListObjectRem(l, nums, v)
  OBVIOUS
<1>2. r \in Seq(V) /\ IsRest(r, l, ToRemove(l, nums, v))
  <2>1. CASE nums >= 0
    <3>1. nums \in Nat /\ r = RemFromHead(l, nums, v)
      BY <1>1, <2>1 DEF ListObjectRem
    <3>. QED BY <3>1, RemFromHeadIs
  <2>2. CASE nums < 0
    <3>1. l # << >> /\ r = RemFromTail(l, nums, v)
      BY <1>1, <2>2 DEF ListObjectRem, RemIsUndefined
    <3>. QED BY <2>2, <3>1, RemFromTailIs
  <2>. QED BY <2>1, <2>2
<1>3. Len(r) <= Len(l)
  <2>1. PICK n \in Nat : n = Len(l)
    BY LenProperties
  <2>2. Positions(n, ToRemove(l, nums, v))
    BY <2>1, RemovedPositions
  <2>3. Cardinality(ToRemove(l, nums, v)) \in 0 .. n
    BY <2>2, CountsBefore
  <2>4. Len(r) = n - Cardinality(ToRemove(l, nums, v))
    BY <1>2, <2>1, RestIs
  <2>. QED BY <2>1, <2>3, <2>4
<1>. QED BY <1>1, <1>2, <1>3

-----------------------------------------------------------------------------
(* lrange is a slice. *)

LEMMA RangeIs ==
  ASSUME NEW V, NEW l \in Seq(V), NEW start \in Int, NEW end \in Int
  PROVE  LET s == FromStart(l, start)
             e == FromStart(l, end)
         IN  s >= 0 => lrange(l, start, end) = IF s < e /\ e <= Len(l) THEN SubSeq(l, s + 1, e) ELSE RangeOut
<1>1. PICK n \in Nat : n = Len(l)
  BY LenProperties
<1>2. PICK s \in Int : s = FromStart(l, start)
  BY <1>1 DEF FromStart
<1>3. PICK e \in Int : e = FromStart(l, end)
  BY <1>1 DEF FromStart
<1>4. lrange(l, start, end) = IF e < 0 \/ s >= e \/ s >= n \/ e > n THEN RangeOut
                              ELSE [i \in 1 .. e - s |-> ListObjectIndex(l, s + i - 1)]
  BY <1>1, <1>2, <1>3 DEF lrange
<1>5. CASE s >= 0 /\ ~(s < e /\ e <= n)
  BY <1>1, <1>2, <1>3, <1>4, <1>5
<1>6. CASE s >= 0 /\ s < e /\ e <= n
  <2>1. lrange(l, start, end) = [i \in 1 .. e - s |-> ListObjectIndex(l, s + i - 1)]
    BY <1>4, <1>6
  <2>2. PICK q : q = SubSeq(l, s + 1, e)
    OBVIOUS
  <2>3. q \in Seq(V) /\ Len(q) = e - s /\ \A i \in 1 .. e - s : q[i] = l[s + i]
    <3>1. s + 1 \in Int /\ \A i \in s + 1 .. e : l[i] \in V
      <4>1. \A i \in 1 .. n : l[i] \in V
        BY <1>1, LenProperties
      <4>. QED BY <1>6, <4>1
    <3>2. /\ q \in Seq(V) /\ Len(q) = (IF s + 1 <= e THEN e - (s + 1) + 1 ELSE 0)
          /\ \A i \in 1 .. e - (s + 1) + 1 : q[i] = l[(s + 1) + i - 1]
      BY <2>2, <3>1, SubSeqProperties
    <3>3. (IF s + 1 <= e THEN e - (s + 1) + 1 ELSE 0) = e - s /\ e - (s + 1) + 1 = e - s
      BY <1>6
    <3>4. \A i \in 1 .. e - s : q[i] = l[s + i]
      BY <3>2, <3>3
    <3>. QED BY <3>2, <3>3, <3>4
  <2>4. ASSUME NEW i \in 1 .. e - s PROVE ListObjectIndex(l, s + i - 1) = l[s + i]
    <3>1. PICK j \in Int : j = s + i - 1
      OBVIOUS
    <3>2. FromStart(l, j) = j
      BY <1>6, <3>1 DEF FromStart
    <3>3. IsIndex(l, j)
      BY <1>1, <1>6, <3>1, <3>2 DEF IsIndex
    <3>4. j + 1 = s + i
      BY <3>1
    <3>. QED BY <3>1, <3>2, <3>3, <3>4 DEF ListObjectIndex
  <2>5. q = [i \in 1 .. e - s |-> q[i]]
    <3>1. DOMAIN q = 1 .. Len(q) /\ q \in [1 .. Len(q) -> V]
      BY <2>3, LenProperties
    <3>. QED BY <2>3, <3>1
  <2>6. [i \in 1 .. e - s |-> ListObjectIndex(l, s + i - 1)] = [i \in 1 .. e - s |-> q[i]]
    BY <2>3, <2>4
  <2>. QED BY <1>1, <1>2, <1>3, <1>6, <2>1, <2>2, <2>5, <2>6
<1>. QED BY <1>1, <1>2, <1>3, <1>5, <1>6

-----------------------------------------------------------------------------
(* What the other list commands leave is a list. *)

LEMMA PushIs ==
  ASSUME NEW V, NEW l \in Seq(V), NEW v \in V, NEW where
  PROVE  Push(l, v, where) \in Seq(V) /\ Len(Push(l, v, where)) = Len(l) + 1
<1>1. Append(l, v) \in Seq(V) /\ Len(Append(l, v)) = Len(l) + 1
  BY AppendProperties
<1>2. <<v>> \in Seq(V) /\ Len(<<v>>) = 1
  OBVIOUS
<1>3. <<v>> \o l \in Seq(V) /\ Len(<<v>> \o l) = Len(<<v>>) + Len(l)
  BY <1>2, ConcatIs
<1>4. Len(l) \in Nat
  BY LenProperties
<1>5. Len(<<v>> \o l) = Len(l) + 1
  BY <1>2, <1>3, <1>4
<1>. QED BY <1>1, <1>3, <1>5 DEF Push

LEMMA AfterPopIs ==
  ASSUME NEW V, NEW l \in Seq(V), l # << >>, NEW where
  PROVE  AfterPop(l, where) \in Seq(V) /\ Len(AfterPop(l, where)) <= Len(l)
<1>1. PICK n \in Nat : n = Len(l)
  BY LenProperties
<1>2. Tail(l) \in Seq(V) /\ Len(Tail(l)) = n - 1
  BY <1>1, HeadTailProperties
<1>3. Front(l) \in Seq(V) /\ Len(Front(l)) = n - 1
  <2>1. n # 0
    BY <1>1, EmptySeq
  <2>2. n - 1 \in Int /\ 1 \in Int /\ \A i \in 1 .. n - 1 : l[i] \in V
    <3>1. \A i \in 1 .. n : l[i] \in V
      BY <1>1, LenProperties
    <3>. QED BY <3>1
  <2>3. /\ SubSeq(l, 1, n - 1) \in Seq(V)
        /\ Len(SubSeq(l, 1, n - 1)) = IF 1 <= n - 1 THEN (n - 1) - 1 + 1 ELSE 0
    BY <2>2, SubSeqProperties
  <2>4. Len(SubSeq(l, 1, n - 1)) = n - 1
    BY <2>1, <2>3
  <2>. QED BY <1>1, <2>3, <2>4 DEF Front
<1>. QED BY <1>1, <1>2, <1>3 DEF AfterPop

LEMMA ListObjectSetIs ==
  ASSUME NEW V, NEW l \in Seq(V), NEW index, NEW v \in V
  PROVE  ListObjectSet(l, index, v) \in Seq(V) /\ Len(ListObjectSet(l, index, v)) = Len(l)
<1>1. PICK i : i = FromStart(l, index) + 1
  OBVIOUS
<1>2. [l EXCEPT ![i] = v] \in Seq(V) /\ Len([l EXCEPT ![i] = v]) = Len(l)
  <2>1. PICK n \in Nat : n = Len(l) /\ l \in [1 .. n -> V]
    BY LenProperties
  <2>2. PICK m \in [1 .. n -> V] : m = [l EXCEPT ![i] = v]
    BY <2>1
  <2>3. m \in Seq(V)
    OBVIOUS
  <2>4. DOMAIN m = 1 .. n /\ DOMAIN m = 1 .. Len(m) /\ Len(m) \in Nat
    BY <2>3, LenProperties
  <2>5. Len(m) = n
    BY <2>4
  <2>. QED BY <2>1, <2>2, <2>3, <2>5
<1>. QED BY <1>1, <1>2 DEF ListObjectSet

-----------------------------------------------------------------------------
(* The binary search. *)

Halves(s, v, p) ==
  LET half == p.len \div 2
  IN  IF s[p.first + half] < v THEN Part(p.first + half + 1, p.len - half - 1) ELSE Part(p.first, half)

Bisecting(f, s, v) ==
  f = [p \in Parts(Len(s)) |-> IF p.len = 0 THEN p.first ELSE f[Halves(s, v, p)]]

LEMMA HalvesIs ==
  ASSUME NEW n \in Nat, NEW s, NEW v, NEW p \in Parts(n), p.len # 0, NEW q, q = Halves(s, v, p)
  PROVE  /\ q \in Parts(n) /\ q.len < p.len /\ p.first <= q.first /\ q.first + q.len <= p.first + p.len
         /\ \/ q.first - 1 \in p.first .. p.first + p.len - 1 /\ s[q.first - 1] < v
               /\ q.first + q.len = p.first + p.len
            \/ q.first + q.len \in p.first .. p.first + p.len - 1 /\ ~(s[q.first + q.len] < v)
               /\ q.first = p.first
<1>1. PICK a \in Int : a = p.first
  BY DEF Parts
<1>2. PICK b \in Nat : b = p.len
  BY DEF Parts
<1>3. a \in 1 .. n + 1 /\ b \in 1 .. n /\ a + b <= n + 1
  BY <1>1, <1>2 DEF Parts
<1>4. PICK h \in Nat : h = b \div 2 /\ h < b
  <2>1. b \div 2 \in Nat /\ b = ((b \div 2) * 2) + (b % 2) /\ b % 2 \in 0 .. 1
    BY Division
  <2>. QED BY <1>3, <2>1
<1>5. h = p.len \div 2
  BY <1>2, <1>4
<1>6. CASE s[a + h] < v
  <2>1. q = Part(a + h + 1, b - h - 1)
    BY <1>1, <1>2, <1>5, <1>6 DEF Halves
  <2>2. q.first = a + h + 1 /\ q.len = b - h - 1
    BY <2>1 DEF Part
  <2>3. q \in Parts(n)
    BY <1>3, <1>4, <2>1, <2>2 DEF Parts, Part
  <2>4. q.first - 1 = a + h /\ q.first + q.len = a + b
    BY <1>4, <2>2
  <2>. QED BY <1>1, <1>2, <1>3, <1>4, <1>6, <2>2, <2>3, <2>4
<1>7. CASE ~(s[a + h] < v)
  <2>1. q = Part(a, h)
    BY <1>1, <1>2, <1>5, <1>7 DEF Halves
  <2>2. q.first = a /\ q.len = h
    BY <2>1 DEF Part
  <2>3. q \in Parts(n)
    BY <1>3, <1>4, <2>1, <2>2 DEF Parts, Part
  <2>. QED BY <1>1, <1>2, <1>3, <1>4, <1>7, <2>2, <2>3
<1>. QED BY <1>6, <1>7

(* The search comes to an end: it is defined on parts of every length.     *)
LEMMA BisectSolves ==
  ASSUME NEW s \in Seq(Int), NEW v
  PROVE  Bisecting(Bisect(s, v), s, v)
<1>1. PICK n \in Nat : n = Len(s)
  BY LenProperties
<1> DEFINE Upto1(m) == {p \in Parts(n) : p.len <= m}
           Solves(f, m) == f = [p \in Upto1(m) |-> IF p.len = 0 THEN p.first ELSE f[Halves(s, v, p)]]
           Does(m) == \E f : Solves(f, m)
           D == {m \in Nat : ~Does(m)}
<1>2. \A p \in Parts(n) : p.len \in Nat
  BY DEF Parts
<1>3. Does(0)
  <2> DEFINE f == [p \in Upto1(0) |-> p.first]
  <2>1. \A p \in Upto1(0) : p.len = 0
    BY <1>2
  <2>2. f = [p \in Upto1(0) |-> IF p.len = 0 THEN p.first ELSE f[Halves(s, v, p)]]
    BY <2>1
  <2>. HIDE DEF f
  <2>. QED BY <2>2
<1>4. ASSUME NEW m \in Nat, Does(m) PROVE Does(m + 1)
  <2>1. PICK f : Solves(f, m)
    BY <1>4
  <2>2. \A p \in Upto1(m) : f[p] = IF p.len = 0 THEN p.first ELSE f[Halves(s, v, p)]
    BY <2>1
  <2>3. ASSUME NEW p \in Upto1(m + 1), p.len # 0 PROVE Halves(s, v, p) \in Upto1(m)
    <3>1. PICK q : q = Halves(s, v, p)
      OBVIOUS
    <3>2. q \in Parts(n) /\ q.len < p.len
      BY <2>3, <3>1, HalvesIs
    <3>3. p.len <= m + 1 /\ p.len \in Nat /\ q.len \in Nat
      BY <1>2, <3>2
    <3>. QED BY <3>1, <3>2, <3>3
  <2>4. Upto1(m) \subseteq Upto1(m + 1)
    BY <1>2
  <2> DEFINE g == [p \in Upto1(m + 1) |-> IF p.len = 0 THEN p.first ELSE f[Halves(s, v, p)]]
             h == [p \in Upto1(m + 1) |-> IF p.len = 0 THEN p.first ELSE g[Halves(s, v, p)]]
  <2>. HIDE DEF Upto1, Solves, D, Does
  <2>5. \A p \in Upto1(m) : g[p] = f[p]
    BY <2>2, <2>4
  <2>6. ASSUME NEW p \in Upto1(m + 1)
        PROVE  (IF p.len = 0 THEN p.first ELSE f[Halves(s, v, p)]) = (IF p.len = 0 THEN p.first ELSE g[Halves(s, v, p)])
    <3>. HIDE DEF g
    <3>. QED BY <2>3, <2>5
  <2>7. g = h
    <3>. HIDE DEF Halves
    <3>. QED BY <2>6
  <2>8. Solves(g, m + 1)
    <3>1. g = [p \in Upto1(m + 1) |-> IF p.len = 0 THEN p.first ELSE g[Halves(s, v, p)]]
      <4>. HIDE DEF g
      <4>. QED BY <2>7 DEF h
    <3>. HIDE DEF g, h
    <3>. QED BY <3>1 DEF Solves
  <2>. HIDE DEF g, h
  <2>. QED BY <2>8 DEF Does
<1>5. ASSUME D # {} PROVE FALSE
  <2>. HIDE DEF Does
  <2>1. PICK m \in D : \A x \in D : m <= x
    <3>1. D \in SUBSET Nat
      OBVIOUS
    <3>. HIDE DEF D
    <3>. QED BY <1>5, <3>1, LeastNat
  <2>2. m # 0 /\ m \in Nat /\ ~Does(m)
    BY <1>3, <2>1
  <2>3. m - 1 \in Nat /\ (m - 1) + 1 = m /\ m - 1 \notin D
    BY <2>1, <2>2
  <2>4. Does(m - 1)
    BY <2>3
  <2>5. Does((m - 1) + 1)
    BY <1>4, <2>3, <2>4
  <2>. QED BY <2>2, <2>3, <2>5
<1>6. Does(n)
  <2>. HIDE DEF Does
  <2>. QED BY <1>5
<1>7. Upto1(n) = Parts(n)
  BY DEF Parts
<1>8. \E f : Bisecting(f, s, v)
  BY <1>1, <1>6, <1>7 DEF Bisecting
<1>9. Bisect(s, v) = CHOOSE f : Bisecting(f, s, v)
  BY DEF Bisect, Bisecting, Halves
<1>. QED BY <1>8, <1>9

(* In an array of any order: what is in front of the place found is less,  *)
(* what is there is not.                                                   *)
LEMMA LowerBoundIs ==
  ASSUME NEW s \in Seq(Int), NEW v \in Int, NEW i, i = lower_bound(s, v)
  PROVE  /\ i \in 1 .. Len(s) + 1
         /\ i = 1 \/ s[i - 1] < v
         /\ i = Len(s) + 1 \/ ~(s[i] < v)
<1>1. PICK n \in Nat : n = Len(s)
  BY LenProperties
<1>2. PICK f : f = Bisect(s, v)
  OBVIOUS
<1>3. Bisecting(f, s, v)
  BY <1>2, BisectSolves
<1>4. \A p \in Parts(n) : f[p] = IF p.len = 0 THEN p.first ELSE f[Halves(s, v, p)]
  BY <1>1, <1>3 DEF Bisecting
<1> DEFINE Found(p, x) == /\ x \in p.first .. p.first + p.len
                          /\ x = p.first \/ s[x - 1] < v
                          /\ x = p.first + p.len \/ ~(s[x] < v)
           D == {m \in Nat : \E p \in Parts(n) : p.len = m /\ ~Found(p, f[p])}
<1>5. \A p \in Parts(n) : p.len \in Nat /\ p.first \in Nat
  BY DEF Parts
<1>6. ASSUME D # {} PROVE FALSE
  <2>1. PICK m \in D : \A x \in D : m <= x
    <3>1. D \in SUBSET Nat
      OBVIOUS
    <3>. HIDE DEF D
    <3>. QED BY <1>6, <3>1, LeastNat
  <2>2. PICK p \in Parts(n) : p.len = m /\ ~Found(p, f[p])
    BY <2>1
  <2>3. CASE p.len = 0
    <3>1. f[p] = p.first
      BY <1>4, <2>3
    <3>. QED BY <1>5, <2>2, <2>3, <3>1
  <2>4. CASE p.len # 0
    <3>1. PICK q : q = Halves(s, v, p)
      OBVIOUS
    <3>2. f[p] = f[q]
      BY <1>4, <2>4, <3>1
    <3>3. /\ q \in Parts(n) /\ q.len < p.len /\ p.first <= q.first /\ q.first + q.len <= p.first + p.len
          /\ \/ q.first - 1 \in p.first .. p.first + p.len - 1 /\ s[q.first - 1] < v
                /\ q.first + q.len = p.first + p.len
             \/ q.first + q.len \in p.first .. p.first + p.len - 1 /\ ~(s[q.first + q.len] < v)
                /\ q.first = p.first
      BY <2>4, <3>1, HalvesIs
    <3>4. PICK x : x = f[q]
      OBVIOUS
    <3>5. Found(q, x)
      <4>. HIDE DEF Found
      <4>1. q.len \in Nat /\ ~(m <= q.len)
        BY <1>5, <2>1, <2>2, <3>3
      <4>2. q.len \notin D
        <5>. HIDE DEF D
        <5>. QED BY <2>1, <4>1
      <4>. QED BY <3>3, <3>4, <4>1, <4>2
    <3>6. x \in p.first .. p.first + p.len
      <4>1. x \in q.first .. q.first + q.len
        BY <3>5
      <4>2. p.first <= q.first /\ q.first + q.len <= p.first + p.len
        BY <3>3
      <4>3. p.first \in Nat /\ p.len \in Nat /\ q.first \in Nat /\ q.len \in Nat
        BY <1>5, <3>3
      <4>. QED BY <4>1, <4>2, <4>3
    <3>7. x = p.first \/ s[x - 1] < v
      BY <3>3, <3>5
    <3>8. x = p.first + p.len \/ ~(s[x] < v)
      BY <3>3, <3>5
    <3>. QED BY <2>2, <3>2, <3>4, <3>6, <3>7, <3>8
  <2>. QED BY <2>3, <2>4
<1>7. PICK p : p = Part(1, n)
  OBVIOUS
<1>8. p \in Parts(n) /\ p.first = 1 /\ p.len = n
  BY <1>7 DEF Parts, Part
<1>9. Found(p, f[p])
  <2>. HIDE DEF Found
  <2>. QED BY <1>6, <1>8
<1>10. i = f[p]
  BY <1>1, <1>2, <1>7 DEF lower_bound
<1>11. 1 + n = n + 1
  OBVIOUS
<1>. QED BY <1>1, <1>8, <1>9, <1>10, <1>11

-----------------------------------------------------------------------------
(* Arrays in order. *)

LEMMA ToSetIs ==
  ASSUME NEW V, NEW s \in Seq(V), NEW w
  PROVE  w \in ToSet(s) <=> \E i \in 1 .. Len(s) : s[i] = w
<1>1. DOMAIN s = 1 .. Len(s)
  BY LenProperties
<1>. QED BY <1>1 DEF ToSet

LEMMA IncreasingIs ==
  ASSUME NEW s \in Seq(Int), Increasing(s), NEW i \in 1 .. Len(s), NEW j \in 1 .. Len(s), i < j
  PROVE  s[i] < s[j]
<1>1. PICK n \in Nat : n = Len(s)
  BY LenProperties
<1>2. /\ \A k \in 1 .. n : s[k] \in Int
      /\ \A k \in 1 .. n - 1 : s[k] < s[k + 1]
  BY <1>1, LenProperties DEF Increasing
<1> DEFINE D == {k \in Nat : k \in 1 .. n /\ i < k /\ ~(s[i] < s[k])}
<1>3. ASSUME D # {} PROVE FALSE
  <2>1. PICK k \in D : \A x \in D : k <= x
    <3>1. D \in SUBSET Nat
      OBVIOUS
    <3>. HIDE DEF D
    <3>. QED BY <1>3, <3>1, LeastNat
  <2>2. k \in 1 .. n /\ i < k /\ ~(s[i] < s[k]) /\ i \in 1 .. n
    BY <1>1, <2>1
  <2>3. k - 1 \in 1 .. n - 1 /\ k - 1 \in Nat /\ (k - 1) + 1 = k
    BY <2>2
  <2>4. s[k - 1] < s[k]
    BY <1>2, <2>3
  <2>5. s[i] \in Int /\ s[k] \in Int /\ s[k - 1] \in Int
    BY <1>2, <2>2, <2>3
  <2>6. CASE k - 1 = i
    BY <2>2, <2>4, <2>6
  <2>7. CASE k - 1 # i
    <3>1. i < k - 1 /\ k - 1 \in 1 .. n
      BY <2>2, <2>7
    <3>2. k - 1 \notin D
      BY <2>1, <2>2
    <3>3. s[i] < s[k - 1]
      BY <2>3, <3>1, <3>2
    <3>. QED BY <2>2, <2>4, <2>5, <3>3
  <2>. QED BY <2>6, <2>7
<1>. QED BY <1>1, <1>3

(* Where the search of an array in order ends. *)
LEMMA BoundOfIncreasing ==
  ASSUME NEW s \in Seq(Int), Increasing(s), NEW v \in Int, NEW i, i = lower_bound(s, v)
  PROVE  /\ i \in 1 .. Len(s) + 1
         /\ \A j \in 1 .. Len(s) : j < i => s[j] < v
         /\ \A j \in 1 .. Len(s) : i <= j => v <= s[j]
         /\ search(s, v) <=> v \in ToSet(s)
<1>1. PICK n \in Nat : n = Len(s)
  BY LenProperties
<1>2. \A k \in 1 .. n : s[k] \in Int
  BY <1>1, LenProperties
<1>3. i \in 1 .. n + 1 /\ (i = 1 \/ s[i - 1] < v) /\ (i = n + 1 \/ ~(s[i] < v))
  BY <1>1, LowerBoundIs
<1>4. PICK k \in 1 .. n + 1 : k = i
  BY <1>3
<1>5. ASSUME NEW j \in 1 .. n, j < k PROVE s[j] < v
  <2>1. k - 1 \in 1 .. n /\ s[k - 1] < v
    BY <1>3, <1>4, <1>5
  <2>2. CASE j = k - 1
    BY <2>1, <2>2
  <2>3. CASE j # k - 1
    <3>1. j < k - 1
      BY <1>5, <2>3
    <3>2. s[j] < s[k - 1]
      BY <1>1, <2>1, <3>1, IncreasingIs
    <3>. QED BY <1>2, <2>1, <3>2
  <2>. QED BY <2>2, <2>3
<1>6. ASSUME NEW j \in 1 .. n, k <= j PROVE v <= s[j]
  <2>1. k \in 1 .. n /\ ~(s[k] < v)
    BY <1>3, <1>4, <1>6
  <2>2. CASE j = k
    BY <1>2, <2>1, <2>2
  <2>3. CASE j # k
    <3>1. k < j
      BY <1>6, <2>3
    <3>2. s[k] < s[j]
      BY <1>1, <2>1, <3>1, IncreasingIs
    <3>. QED BY <1>2, <2>1, <3>2
  <2>. QED BY <2>2, <2>3
<1>7. search(s, v) <=> k <= n /\ s[k] = v
  BY <1>1, <1>4 DEF search
<1>8. search(s, v) <=> v \in ToSet(s)
  <2>1. v \in ToSet(s) <=> \E j \in 1 .. n : s[j] = v
    BY <1>1, ToSetIs
  <2>2. ASSUME NEW j \in 1 .. n, s[j] = v PROVE k <= n /\ s[k] = v
    <3>1. k <= j
      BY <1>5, <2>2
    <3>2. k \in 1 .. n /\ v <= s[k]
      BY <1>6, <3>1
    <3>3. j = k
      <4>1. CASE k < j
        <5>1. s[k] < s[j]
          BY <1>1, <3>2, <4>1, IncreasingIs
        <5>. QED BY <1>2, <2>2, <3>2, <5>1
      <4>. QED BY <3>1, <4>1
    <3>. QED BY <2>2, <3>2, <3>3
  <2>. QED BY <1>7, <2>1, <2>2
<1>. QED BY <1>1, <1>3, <1>4, <1>5, <1>6, <1>8

(* add and remove of an array in any order. *)
LEMMA InsertedSet ==
  ASSUME NEW V, NEW s \in Seq(V), NEW i \in 1 .. Len(s) + 1, NEW x \in V, NEW r, r = InsertAt(s, i, x)
  PROVE  /\ r \in Seq(V) /\ Len(r) = Len(s) + 1
         /\ ToSet(r) = ToSet(s) \cup {x}
<1>1. PICK n \in Nat : n = Len(s)
  BY LenProperties
<1>2. PICK k \in 1 .. n + 1 : k = i
  BY <1>1
<1>3. /\ r \in Seq(V) /\ Len(r) = n + 1
      /\ \A j \in 1 .. n + 1 : r[j] = IF j < k THEN s[j] ELSE IF j = k THEN x ELSE s[j - 1]
  <2>1. r \in Seq(V) /\ Len(r) = Len(s) + 1 /\ PutInto(r, s, i, x)
    BY InsertAtIs
  <2>. QED BY <1>1, <1>2, <2>1 DEF PutInto
<1>4. ASSUME NEW w, \E j \in 1 .. n + 1 : r[j] = w PROVE w = x \/ \E j \in 1 .. n : s[j] = w
  <2>1. PICK j \in 1 .. n + 1 : r[j] = w
    BY <1>4
  <2>2. CASE j < k
    <3>1. j \in 1 .. n /\ s[j] = w
      BY <1>3, <2>1, <2>2
    <3>. QED BY <3>1
  <2>3. CASE j = k
    BY <1>3, <2>1, <2>3
  <2>4. CASE j > k
    <3>1. j - 1 \in 1 .. n /\ s[j - 1] = w
      BY <1>3, <2>1, <2>4
    <3>. QED BY <3>1
  <2>. QED BY <2>2, <2>3, <2>4
<1>5. \E j \in 1 .. n + 1 : r[j] = x
  <2>1. k \in 1 .. n + 1 /\ ~(k < k)
    OBVIOUS
  <2>2. r[k] = x
    BY <1>3, <2>1
  <2>. QED BY <2>1, <2>2
<1>6. ASSUME NEW j \in 1 .. n PROVE \E m \in 1 .. n + 1 : r[m] = s[j]
  <2>1. CASE j < k
    <3>1. j \in 1 .. n + 1 /\ r[j] = s[j]
      BY <1>3, <2>1
    <3>. QED BY <3>1
  <2>2. CASE ~(j < k)
    <3>1. PICK m \in 1 .. n + 1 : m = j + 1 /\ ~(m < k) /\ m # k /\ m - 1 = j
      BY <2>2
    <3>2. r[m] = s[m - 1]
      BY <1>3, <3>1
    <3>. QED BY <3>1, <3>2
  <2>. QED BY <2>1, <2>2
<1>7. ASSUME NEW w PROVE w \in ToSet(r) <=> w \in ToSet(s) \/ w = x
  <2>1. w \in ToSet(r) <=> \E j \in 1 .. n + 1 : r[j] = w
    <3>1. r \in Seq(V) /\ Len(r) = n + 1
      BY <1>3
    <3>2. w \in ToSet(r) <=> \E j \in 1 .. Len(r) : r[j] = w
      BY <3>1, ToSetIs
    <3>. QED BY <3>1, <3>2
  <2>2. w \in ToSet(s) <=> \E j \in 1 .. n : s[j] = w
    BY <1>1, ToSetIs
  <2>. QED BY <1>4, <1>5, <1>6, <2>1, <2>2
<1>. QED BY <1>1, <1>3, <1>7

LEMMA RemovedSet ==
  ASSUME NEW V, NEW s \in Seq(V), NEW i \in 1 .. Len(s), NEW r, r = RemoveAt(s, i)
  PROVE  /\ r \in Seq(V) /\ Len(r) = Len(s) - 1
         /\ ToSet(r) \subseteq ToSet(s) /\ ToSet(s) \subseteq ToSet(r) \cup {s[i]}
<1>1. PICK n \in Nat : n = Len(s)
  BY LenProperties
<1>2. PICK k \in 1 .. n : k = i
  BY <1>1
<1>3. /\ r \in Seq(V) /\ Len(r) = n - 1
      /\ \A j \in 1 .. n - 1 : r[j] = IF j < k THEN s[j] ELSE s[j + 1]
  <2>1. RemoveAt(s, i) \in Seq(V) /\ Len(RemoveAt(s, i)) = Len(s) - 1 /\ TakenOut(RemoveAt(s, i), s, i)
    BY RemoveAtIs
  <2>. QED BY <1>1, <1>2, <2>1 DEF TakenOut
<1>4. ASSUME NEW j \in 1 .. n - 1 PROVE \E m \in 1 .. n : s[m] = r[j]
  <2>1. CASE j < k
    <3>1. j \in 1 .. n /\ r[j] = s[j]
      BY <1>3, <2>1
    <3>. QED BY <3>1
  <2>2. CASE ~(j < k)
    <3>1. j + 1 \in 1 .. n /\ r[j] = s[j + 1]
      BY <1>3, <2>2
    <3>. QED BY <3>1
  <2>. QED BY <2>1, <2>2
<1>5. ASSUME NEW j \in 1 .. n, j # k PROVE \E m \in 1 .. n - 1 : r[m] = s[j]
  <2>1. CASE j < k
    <3>1. j \in 1 .. n - 1 /\ r[j] = s[j]
      BY <1>3, <2>1
    <3>. QED BY <3>1
  <2>2. CASE ~(j < k)
    <3>1. PICK m \in 1 .. n - 1 : m = j - 1 /\ ~(m < k) /\ m + 1 = j
      BY <1>5, <2>2
    <3>2. r[m] = s[m + 1]
      BY <1>3, <3>1
    <3>. QED BY <3>1, <3>2
  <2>. QED BY <2>1, <2>2
<1>6. ASSUME NEW w PROVE /\ w \in ToSet(r) => w \in ToSet(s)
                         /\ w \in ToSet(s) => w \in ToSet(r) \/ w = s[k]
  <2>1. w \in ToSet(r) <=> \E j \in 1 .. n - 1 : r[j] = w
    BY <1>3, ToSetIs
  <2>2. w \in ToSet(s) <=> \E j \in 1 .. n : s[j] = w
    BY <1>1, ToSetIs
  <2>. QED BY <1>4, <1>5, <2>1, <2>2
<1>. QED BY <1>1, <1>2, <1>3, <1>6

(* add: what is stored of v is put where the search for v ends.            *)
LEMMA AddIs ==
  ASSUME NEW s \in Seq(Int), NEW e, NEW v \in Int, NEW w \in Int, w = Stored(v, e), NEW r, r = add(s, e, v)
  PROVE  /\ r \in Seq(Int)
         /\ search(s, v) => r = s
         /\ ~search(s, v) => Len(r) = Len(s) + 1 /\ ToSet(r) = ToSet(s) \cup {w}
<1>1. lower_bound(s, v) \in 1 .. Len(s) + 1
  BY LowerBoundIs
<1>2. CASE search(s, v)
  BY <1>2 DEF add
<1>3. CASE ~search(s, v)
  <2>1. r = InsertAt(s, lower_bound(s, v), w)
    BY <1>3 DEF add
  <2>2. PICK i \in 1 .. Len(s) + 1 : i = lower_bound(s, v)
    BY <1>1
  <2>3. PICK u : u = InsertAt(s, i, w)
    OBVIOUS
  <2>4. u \in Seq(Int) /\ Len(u) = Len(s) + 1 /\ ToSet(u) = ToSet(s) \cup {w}
    <3>1. PICK V : V = Int
      OBVIOUS
    <3>2. s \in Seq(V) /\ w \in V
      BY <3>1
    <3>3. u \in Seq(V) /\ Len(u) = Len(s) + 1 /\ ToSet(u) = ToSet(s) \cup {w}
      BY <2>3, <3>2, InsertedSet
    <3>. QED BY <3>1, <3>3
  <2>. QED BY <1>3, <2>1, <2>2, <2>3, <2>4
<1>. QED BY <1>2, <1>3

-----------------------------------------------------------------------------
(* The numbers the intsets keep. *)

LEMMA StoredIs ==
  ASSUME NEW v \in Int, NEW e \in 1 .. 3, v >= -Reach[1], v < 2 * Reach[1] \/ e # 1
  PROVE  /\ Stored(v, e) \in Int
         /\ e # 1 \/ v >= 0 => Stored(v, e) = v
         /\ e = 1 /\ v < 0 => Stored(v, e) = v + 2 * Reach[1]
<1>1. PICK R \in Nat : R = 2 * Reach[1] /\ R > 0 /\ v + R >= 0
  BY ReachAssumption
<1>2. CASE e = 1
  <2>1. Stored(v, e) = v % R
    BY <1>1, <1>2 DEF Stored
  <2>2. v < R
    BY <1>1, <1>2
  <2>3. CASE v >= 0
    <3>1. (v % R) = v
      BY <1>1, <2>2, <2>3
    <3>. QED BY <1>2, <2>1, <2>3, <3>1
  <2>4. CASE v < 0
    <3>1. (v % R) = v + R
      BY <1>1, <2>2, <2>4
    <3>. QED BY <1>1, <1>2, <2>1, <2>4, <3>1
  <2>. QED BY <2>3, <2>4
<1>3. CASE e # 1
  BY <1>3 DEF Stored
<1>. QED BY <1>2, <1>3

(* An array in order stays in order when a number is stored as it is.      *)
LEMMA AddInOrder ==
  ASSUME NEW s \in Seq(Int), Increasing(s), NEW e, NEW v \in Int, Stored(v, e) = v, NEW r, r = add(s, e, v)
  PROVE  /\ r \in Seq(Int) /\ Increasing(r) /\ ToSet(r) = ToSet(s) \cup {v}
         /\ v \in ToSet(s) => Len(r) = Len(s)
         /\ v \notin ToSet(s) => Len(r) = Len(s) + 1
<1>1. PICK n \in Nat : n = Len(s)
  BY LenProperties
<1>2. PICK i \in 1 .. n + 1 : i = lower_bound(s, v)
  BY <1>1, LowerBoundIs
<1>3. /\ \A j \in 1 .. n : j < i => s[j] < v
      /\ \A j \in 1 .. n : i <= j => v <= s[j]
      /\ search(s, v) <=> v \in ToSet(s)
  BY <1>1, <1>2, BoundOfIncreasing
<1>4. /\ r \in Seq(Int)
      /\ search(s, v) => r = s
      /\ ~search(s, v) => Len(r) = Len(s) + 1 /\ ToSet(r) = ToSet(s) \cup {v}
  BY AddIs
<1>5. CASE search(s, v)
  BY <1>3, <1>4, <1>5
<1>6. CASE ~search(s, v)
  <2>1. r = InsertAt(s, i, v)
    BY <1>2, <1>6 DEF add
  <2>2. PutInto(r, s, i, v)
    <3>1. i \in 1 .. Len(s) + 1
      BY <1>1
    <3>2. PICK V : V = Int
      OBVIOUS
    <3>3. s \in Seq(V) /\ v \in V
      BY <3>2
    <3>. QED BY <2>1, <3>1, <3>3, InsertAtIs
  <2>3. /\ \A k \in 1 .. n + 1 : r[k] = IF k < i THEN s[k] ELSE IF k = i THEN v ELSE s[k - 1]
        /\ \A k \in 1 .. n - 1 : s[k] < s[k + 1]
    BY <1>1, <2>2 DEF PutInto, Increasing
  <2>4. \A k \in 1 .. n : s[k] \in Int
    BY <1>1, LenProperties
  <2>5. i <= n => s[i] # v
    BY <1>1, <1>2, <1>6 DEF search
  <2>6. ASSUME NEW k \in 1 .. n PROVE r[k] < r[k + 1]
    <3>1. k \in 1 .. n + 1 /\ k + 1 \in 1 .. n + 1 /\ (k + 1) - 1 = k
      OBVIOUS
    <3>2. CASE k + 1 < i
      <4>1. k \in 1 .. n - 1
        BY <3>2
      <4>2. r[k] = s[k] /\ r[k + 1] = s[k + 1]
        BY <2>3, <3>1, <3>2
      <4>. QED BY <2>3, <4>1, <4>2
    <3>3. CASE k + 1 = i
      <4>1. k < i
        BY <3>3
      <4>2. r[k] = s[k] /\ r[k + 1] = v
        BY <2>3, <3>1, <3>3, <4>1
      <4>. QED BY <1>3, <4>1, <4>2
    <3>4. CASE k = i
      <4>1. ~(k < i) /\ ~(k + 1 < i) /\ k + 1 # i /\ i <= n
        BY <3>4
      <4>2. r[k] = v /\ r[k + 1] = s[k]
        BY <2>3, <3>1, <3>4, <4>1
      <4>3. v <= s[k] /\ s[k] # v
        BY <1>3, <2>5, <3>4, <4>1
      <4>. QED BY <2>4, <4>2, <4>3
    <3>5. CASE k > i
      <4>1. ~(k < i) /\ ~(k + 1 < i) /\ k # i /\ k + 1 # i /\ k - 1 \in 1 .. n - 1 /\ (k - 1) + 1 = k
        BY <3>5
      <4>2. r[k] = s[k - 1] /\ r[k + 1] = s[k]
        BY <2>3, <3>1, <4>1
      <4>3. s[k - 1] < s[k]
        BY <2>3, <4>1
      <4>. QED BY <4>2, <4>3
    <3>. QED BY <3>2, <3>3, <3>4, <3>5
  <2>7. Increasing(r)
    BY <1>1, <1>4, <1>6, <2>6 DEF Increasing
  <2>. QED BY <1>3, <1>4, <1>6, <2>7
<1>. QED BY <1>5, <1>6

(* remove, of an array in any order and of one in order.                   *)
LEMMA RemoveIs ==
  ASSUME NEW s \in Seq(Int), NEW v \in Int, NEW r, r = remove(s, v)
  PROVE  /\ r \in Seq(Int) /\ Len(r) <= Len(s)
         /\ ToSet(r) \subseteq ToSet(s) /\ ToSet(s) \subseteq ToSet(r) \cup {v}
<1>1. CASE ~search(s, v)
  BY <1>1, LenProperties DEF remove
<1>2. CASE search(s, v)
  <2>1. PICK i : i = lower_bound(s, v)
    OBVIOUS
  <2>2. i \in 1 .. Len(s) + 1
    BY <2>1, LowerBoundIs
  <2>3. i \in 1 .. Len(s) /\ s[i] = v
    BY <1>2, <2>1, <2>2, LenProperties DEF search
  <2>4. r = RemoveAt(s, i)
    BY <1>2, <2>1 DEF remove
  <2>5. PICK k \in 1 .. Len(s) : k = i
    BY <2>3
  <2>6. /\ RemoveAt(s, k) \in Seq(Int) /\ Len(RemoveAt(s, k)) = Len(s) - 1
        /\ ToSet(RemoveAt(s, k)) \subseteq ToSet(s) /\ ToSet(s) \subseteq ToSet(RemoveAt(s, k)) \cup {s[k]}
    BY RemovedSet
  <2>. QED BY <2>3, <2>4, <2>5, <2>6, LenProperties
<1>. QED BY <1>1, <1>2

LEMMA RemoveInOrder ==
  ASSUME NEW s \in Seq(Int), Increasing(s), NEW v \in Int, NEW r, r = remove(s, v)
  PROVE  /\ r \in Seq(Int) /\ Increasing(r) /\ ToSet(r) = ToSet(s) \ {v}
         /\ v \in ToSet(s) => Len(r) = Len(s) - 1
         /\ v \notin ToSet(s) => Len(r) = Len(s)
<1>1. PICK n \in Nat : n = Len(s)
  BY LenProperties
<1>2. PICK i \in 1 .. n + 1 : i = lower_bound(s, v)
  BY <1>1, LowerBoundIs
<1>3. search(s, v) <=> v \in ToSet(s)
  BY <1>1, <1>2, BoundOfIncreasing
<1>4. CASE ~search(s, v)
  BY <1>3, <1>4 DEF remove
<1>5. CASE search(s, v)
  <2>1. i \in 1 .. n /\ s[i] = v
    BY <1>1, <1>2, <1>5 DEF search
  <2>2. r = RemoveAt(s, i)
    BY <1>2, <1>5 DEF remove
  <2>3. /\ r \in Seq(Int) /\ Len(r) = n - 1
        /\ \A j \in 1 .. n - 1 : r[j] = IF j < i THEN s[j] ELSE s[j + 1]
    <3>1. PICK V : V = Int
      OBVIOUS
    <3>2. s \in Seq(V) /\ i \in 1 .. Len(s)
      BY <1>1, <2>1, <3>1
    <3>3. r \in Seq(V) /\ Len(r) = Len(s) - 1 /\ TakenOut(r, s, i)
      BY <2>2, <3>2, RemoveAtIs
    <3>. QED BY <1>1, <3>1, <3>3 DEF TakenOut
  <2>4. \A j \in 1 .. n : s[j] \in Int
    BY <1>1, LenProperties
  <2>5. \A j \in 1 .. n - 1 : s[j] < s[j + 1]
    BY <1>1 DEF Increasing
  <2>6. ASSUME NEW k \in 1 .. n - 2 PROVE r[k] < r[k + 1]
    <3>1. k \in 1 .. n - 1 /\ k + 1 \in 1 .. n - 1 /\ k \in 1 .. n /\ (k + 1) + 1 \in 1 .. n /\ k + 1 \in 1 .. n
      OBVIOUS
    <3>2. s[k] < s[k + 1] /\ s[k + 1] < s[(k + 1) + 1]
      BY <2>5, <3>1
    <3>3. s[k] \in Int /\ s[k + 1] \in Int /\ s[(k + 1) + 1] \in Int
      BY <2>4, <3>1
    <3>4. /\ r[k] = s[k] \/ (~(k < i) /\ r[k] = s[k + 1])
          /\ (k + 1 < i /\ r[k + 1] = s[k + 1]) \/ r[k + 1] = s[(k + 1) + 1]
      BY <2>3, <3>1
    <3>5. k + 1 < i => k < i
      OBVIOUS
    <3>. QED BY <3>2, <3>3, <3>4, <3>5
  <2>7. Increasing(r)
    BY <2>3, <2>6 DEF Increasing
  <2>8. ToSet(r) \subseteq ToSet(s) /\ ToSet(s) \subseteq ToSet(r) \cup {v}
    BY RemoveIs
  <2>9. v \notin ToSet(r)
    <3>1. SUFFICES ASSUME NEW j \in 1 .. n - 1, r[j] = v PROVE FALSE
      BY <2>3, ToSetIs
    <3>2. CASE j < i
      <4>1. s[j] < s[i]
        BY <1>1, <2>1, <3>2, IncreasingIs
      <4>. QED BY <2>1, <2>3, <3>1, <3>2, <4>1
    <3>3. CASE ~(j < i)
      <4>1. j + 1 \in 1 .. Len(s) /\ i \in 1 .. Len(s) /\ i < j + 1
        BY <1>1, <2>1, <3>3
      <4>2. s[i] < s[j + 1]
        BY <4>1, IncreasingIs
      <4>3. r[j] = s[j + 1]
        BY <2>3, <3>3
      <4>. QED BY <2>1, <3>1, <4>2, <4>3
    <3>. QED BY <3>2, <3>3
  <2>. QED BY <1>1, <1>3, <1>5, <2>3, <2>7, <2>8, <2>9
<1>. QED BY <1>4, <1>5

-----------------------------------------------------------------------------
(* The intset.                                                             *)

InFirstReach(is) == \A v \in ToSet(is.contents) : 0 <= v /\ v < 2 * Reach[1]
Fits(is)         == \A v \in ToSet(is.contents) : InWidth(v, is.enc)

IntsetInv(is) ==
  /\ is = [enc |-> is.enc, contents |-> is.contents]
  /\ is.enc \in 1 .. 3 /\ is.contents \in Seq(Int)
  /\ is.enc = 1 => InFirstReach(is)
  /\ (Increasing(is.contents) /\ Fits(is)) \/ (is.enc = 1 /\ ~Fits(is))

LEMMA ReachGrows ==
  /\ Reach[1] \in Nat \ {0} /\ Reach[2] \in Nat \ {0} /\ Reach[3] \in Nat \ {0}
  /\ 2 * Reach[1] <= Reach[2] /\ 2 * Reach[2] <= Reach[3]
BY ReachAssumption

LEMMA FitsIs ==
  ASSUME NEW is, is.contents \in Seq(Int)
  PROVE  Fits(is) <=> \A i \in DOMAIN is.contents : InWidth(is.contents[i], is.enc)
<1>1. DOMAIN is.contents = 1 .. Len(is.contents)
  BY LenProperties
<1>2. PICK s : s = is.contents
  OBVIOUS
<1>3. \A w : w \in ToSet(s) <=> \E i \in 1 .. Len(s) : s[i] = w
  BY <1>2, ToSetIs
<1>. QED BY <1>1, <1>2, <1>3 DEF Fits

LEMMA IntsetInvIsSound ==
  ASSUME NEW is, IntsetInv(is)
  PROVE  /\ SortedUnlessNegativeStored(is)
         /\ Clean(is) <=> Increasing(is.contents) /\ Fits(is)
<1>1. Fits(is) <=> \A i \in DOMAIN is.contents : InWidth(is.contents[i], is.enc)
  BY FitsIs DEF IntsetInv
<1>. QED BY <1>1 DEF IntsetInv, SortedUnlessNegativeStored, Clean

LEMMA EmptyIs ==
  ASSUME NEW s, s = << >>
  PROVE  s \in Seq(Int) /\ Len(s) = 0 /\ Increasing(s) /\ ToSet(s) = {}
<1>1. s \in Seq(Int) /\ Len(s) = 0
  OBVIOUS
<1>2. Increasing(s)
  BY <1>1 DEF Increasing
<1>3. DOMAIN s = 1 .. 0
  BY <1>1, LenProperties
<1>4. ToSet(s) = {s[i] : i \in DOMAIN s}
  BY DEF ToSet
<1>. QED BY <1>1, <1>2, <1>3, <1>4

LEMMA NewIntsetIs ==
  IntsetInv(NewIntset) /\ ToSet(NewIntset.contents) = {} /\ Length(NewIntset) = 0 /\ Clean(NewIntset)
<1>1. \A w : w \notin ToSet(NewIntset.contents)
  <2>1. NewIntset.contents = << >>
    BY DEF NewIntset
  <2>. QED BY <2>1, EmptyIs
<1>2. NewIntset = [enc |-> 1, contents |-> << >>] /\ << >> \in Seq(Int) /\ Len(<< >>) = 0
  BY DEF NewIntset
<1>3. Increasing(<< >>)
  BY DEF Increasing
<1>4. IntsetInv(NewIntset)
  BY <1>1, <1>2, <1>3 DEF IntsetInv, Fits, InFirstReach
<1>. QED BY <1>1, <1>2, <1>3, <1>4, IntsetInvIsSound DEF Length, IntsetInv, Fits

(* Which encoding a number asks for.                                       *)
LEMMA EncodingIs ==
  ASSUME NEW v \in Int
  PROVE  /\ _intsetValueEncoding(v) \in 1 .. 3
         /\ \A e \in 1 .. 3 : InWidth(v, e) /\ e # 3 => _intsetValueEncoding(v) <= e
         /\ \A e \in 1 .. 3 : InWidth(v, 3) /\ _intsetValueEncoding(v) <= e => InWidth(v, e)
BY ReachGrows DEF _intsetValueEncoding, InWidth

(* A number stored in an encoding wide enough for it.                      *)
LEMMA StoredInWidth ==
  ASSUME NEW v \in Int, NEW e \in 1 .. 3, InWidth(v, e)
  PROVE  /\ e # 1 \/ v >= 0 => Stored(v, e) = v
         /\ e = 1 /\ v < 0 => Stored(v, e) = v + 2 * Reach[1]
<1>1. CASE e = 1
  <2>1. v >= -Reach[1] /\ v < 2 * Reach[1]
    BY <1>1, ReachGrows DEF InWidth
  <2>. QED BY <2>1, StoredIs
<1>2. CASE e # 1
  BY <1>2 DEF Stored
<1>. QED BY <1>1, <1>2

(* intsetUpgrade copies the numbers one by one, in the order of the array. *)
Copies(f, s, e) == f = [k \in 0 .. Len(s) |-> IF k = 0 THEN << >> ELSE add(f[k - 1], e, s[k])]

(* What the first k rounds have copied.                                    *)
CopiedAfter(s, k) ==
  {r \in Seq(Int) : /\ Increasing(r) /\ Len(r) <= k
                    /\ \A w : w \in ToSet(r) <=> \E i \in 1 .. k : s[i] = w}

LEMMA CopyRoundIs ==
  ASSUME NEW s \in Seq(Int), NEW e \in 2 .. 3, NEW k \in 1 .. Len(s), NEW r \in CopiedAfter(s, k - 1)
  PROVE  add(r, e, s[k]) \in CopiedAfter(s, k)
<1>1. PICK n \in Nat : n = Len(s)
  BY LenProperties
<1>2. k \in 1 .. n
  BY <1>1
<1>3. PICK v \in Int : v = s[k]
  BY LenProperties
<1>4. PICK t : t = add(r, e, v)
  OBVIOUS
<1>5. r \in Seq(Int) /\ Increasing(r) /\ Len(r) <= k - 1 /\ Len(r) \in Nat
  BY LenProperties DEF CopiedAfter
<1>6. Stored(v, e) = v
  BY DEF Stored
<1>7. /\ t \in Seq(Int) /\ Increasing(t) /\ ToSet(t) = ToSet(r) \cup {v}
      /\ v \in ToSet(r) => Len(t) = Len(r)
      /\ v \notin ToSet(r) => Len(t) = Len(r) + 1
  BY <1>4, <1>5, <1>6, AddInOrder
<1>8. Len(t) <= k
  BY <1>2, <1>5, <1>7
<1>9. ASSUME NEW w PROVE w \in ToSet(t) <=> \E i \in 1 .. k : s[i] = w
  <2>1. w \in ToSet(r) <=> \E i \in 1 .. k - 1 : s[i] = w
    BY DEF CopiedAfter
  <2>2. w \in ToSet(t) <=> w \in ToSet(r) \/ w = v
    BY <1>7
  <2>3. (\E i \in 1 .. k : s[i] = w) <=> s[k] = w \/ \E i \in 1 .. k - 1 : s[i] = w
    BY <1>2
  <2>. QED BY <1>3, <2>1, <2>2, <2>3
<1>. QED BY <1>3, <1>4, <1>7, <1>8, <1>9 DEF CopiedAfter

LEMMA UpgradeIs ==
  ASSUME NEW is, is.contents \in Seq(Int), NEW e \in 2 .. 3, NEW up, up = intsetUpgrade(is, e)
  PROVE  /\ up = [enc |-> e, contents |-> up.contents] /\ up.enc = e
         /\ up.contents \in Seq(Int) /\ Increasing(up.contents)
         /\ ToSet(up.contents) = ToSet(is.contents) /\ Length(up) <= Length(is)
<1>1. PICK s \in Seq(Int) : s = is.contents
  OBVIOUS
<1>2. PICK n \in Nat : n = Len(s)
  BY LenProperties
<1>3. PICK G : G = [k \in 0 .. n |-> CopiedAfter(s, k)]
  OBVIOUS
<1>4. PICK nxt : nxt = [x \in (1 .. n) \X Seq(Int) |-> add(x[2], e, s[x[1]])]
  OBVIOUS
<1>5. \A k \in 0 .. n : G[k] = CopiedAfter(s, k)
  BY <1>3
<1>6. \A k \in 0 .. n : \A r \in G[k] : r \in Seq(Int)
  BY <1>5 DEF CopiedAfter
<1>7. ASSUME NEW k \in 1 .. n, NEW r \in G[k - 1]
      PROVE  add(r, e, s[k]) \in G[k] /\ nxt[<<k, r>>] = add(r, e, s[k])
  <2>1. k - 1 \in 0 .. n /\ k \in 0 .. n /\ k \in 1 .. Len(s)
    BY <1>2
  <2>2. r \in CopiedAfter(s, k - 1) /\ r \in Seq(Int)
    BY <1>5, <1>6, <2>1
  <2>3. add(r, e, s[k]) \in CopiedAfter(s, k)
    BY <2>1, <2>2, CopyRoundIs
  <2>4. <<k, r>> \in (1 .. n) \X Seq(Int) /\ <<k, r>>[2] = r /\ <<k, r>>[1] = k
    BY <2>2
  <2>5. nxt[<<k, r>>] = add(<<k, r>>[2], e, s[<<k, r>>[1]])
    BY <1>4, <2>4
  <2>. QED BY <1>5, <2>1, <2>3, <2>4, <2>5
<1>8. Keeps(n, G, nxt)
  BY <1>7 DEF Keeps
<1>9. << >> \in G[0]
  <2>1. PICK r : r = << >>
    OBVIOUS
  <2>2. r \in Seq(Int) /\ Len(r) <= 0 /\ Increasing(r) /\ ToSet(r) = {}
    BY <2>1, EmptyIs
  <2>3. \A w : w \notin ToSet(r) /\ ~\E i \in 1 .. 0 : s[i] = w
    BY <2>2
  <2>4. r \in CopiedAfter(s, 0)
    BY <2>2, <2>3 DEF CopiedAfter
  <2>5. 0 \in 0 .. n
    OBVIOUS
  <2>. QED BY <1>5, <2>1, <2>4, <2>5
<1>10. PICK f : Rounds(f, n, << >>, nxt) /\ \A k \in 0 .. n : f[k] \in G[k]
  BY <1>8, <1>9, RoundsExist
<1>11. Copies(f, s, e)
  <2>1. PICK init : init = << >>
    OBVIOUS
  <2>2. f = [k \in 0 .. n |-> IF k = 0 THEN init ELSE nxt[<<k, f[k - 1]>>]]
    BY <1>10, <2>1 DEF Rounds
  <2>3. ASSUME NEW k \in 0 .. n
        PROVE (IF k = 0 THEN init ELSE nxt[<<k, f[k - 1]>>]) = (IF k = 0 THEN init ELSE add(f[k - 1], e, s[k]))
    <3>1. CASE k = 0
      BY <3>1
    <3>2. CASE k # 0
      <4>1. k \in 1 .. n /\ k - 1 \in 0 .. n
        BY <3>2
      <4>2. f[k - 1] \in G[k - 1]
        BY <1>10, <4>1
      <4>. QED BY <1>7, <3>2, <4>1, <4>2
    <3>. QED BY <3>1, <3>2
  <2>4. f = [k \in 0 .. n |-> IF k = 0 THEN init ELSE add(f[k - 1], e, s[k])]
    BY <2>2, <2>3
  <2>. QED BY <1>2, <2>1, <2>4 DEF Copies
<1>12. PICK g : Copies(g, s, e) /\ up = [enc |-> e, contents |-> g[Len(s)]]
  <2>1. PICK g : g = CHOOSE h : Copies(h, s, e)
    OBVIOUS
  <2>2. Copies(g, s, e)
    BY <1>11, <2>1
  <2>3. g = CHOOSE h : h = [k \in 0 .. Len(s) |-> IF k = 0 THEN << >> ELSE add(h[k - 1], e, s[k])]
    BY <2>1 DEF Copies
  <2>4. up = [enc |-> e, contents |-> g[Len(s)]]
    BY <1>1, <2>3 DEF intsetUpgrade
  <2>. QED BY <2>2, <2>4
<1>13. \A k \in 0 .. n : g[k] = IF k = 0 THEN << >> ELSE add(g[k - 1], e, s[k])
  BY <1>2, <1>12 DEF Copies
<1>14. g[0] \in G[0]
  BY <1>9, <1>13
<1>15. ASSUME NEW k \in 1 .. n, g[k - 1] \in G[k - 1] PROVE g[k] \in G[k]
  <2>1. g[k] = add(g[k - 1], e, s[k])
    BY <1>13
  <2>. QED BY <1>7, <1>15, <2>1
<1>16. \A k \in 0 .. n : g[k] \in G[k]
  BY <1>14, <1>15, RoundsStay
<1>17. g[n] \in CopiedAfter(s, n)
  BY <1>5, <1>16
<1>18. up.contents = g[n] /\ up.enc = e /\ up = [enc |-> e, contents |-> up.contents]
  BY <1>2, <1>12
<1>19. ASSUME NEW w PROVE w \in ToSet(g[n]) <=> w \in ToSet(s)
  BY <1>2, <1>17, ToSetIs DEF CopiedAfter
<1>. QED BY <1>1, <1>2, <1>17, <1>18, <1>19 DEF CopiedAfter, Length

LEMMA SearchFinds ==
  ASSUME NEW s \in Seq(Int), NEW v \in Int, v \notin ToSet(s)
  PROVE  ~search(s, v)
<1>1. PICK i : i = lower_bound(s, v)
  OBVIOUS
<1>2. i \in 1 .. Len(s) + 1 /\ Len(s) \in Nat
  BY <1>1, LowerBoundIs, LenProperties
<1>3. \A j \in 1 .. Len(s) : s[j] # v
  BY ToSetIs
<1>4. search(s, v) => i \in 1 .. Len(s) /\ s[i] = v
  BY <1>1, <1>2 DEF search
<1>. QED BY <1>3, <1>4

(* check: the encoding grows to what the number asks for, and nothing is   *)
(* lost.                                                                   *)
LEMMA CheckIs ==
  ASSUME NEW is, IntsetInv(is), NEW v \in Int, InWidth(v, 3), NEW up, up = check(is, v)
  PROVE  /\ IntsetInv(up) /\ ToSet(up.contents) = ToSet(is.contents)
         /\ Length(up) <= Length(is) /\ InWidth(v, up.enc)
         /\ Increasing(is.contents) /\ Fits(is) => Increasing(up.contents) /\ Fits(up)
<1>1. PICK e \in 1 .. 3 : e = _intsetValueEncoding(v)
  BY EncodingIs
<1>2. is.enc \in 1 .. 3 /\ is.contents \in Seq(Int) /\ Length(is) \in Nat
  BY LenProperties DEF IntsetInv, Length
<1>3. CASE ~(e > is.enc)
  <2>1. up = is
    BY <1>1, <1>3 DEF check
  <2>2. InWidth(v, is.enc)
    BY <1>1, <1>2, <1>3, EncodingIs
  <2>. QED BY <1>2, <2>1, <2>2
<1>4. CASE e > is.enc
  <2>1. up = intsetUpgrade(is, e) /\ e \in 2 .. 3
    BY <1>1, <1>2, <1>4 DEF check
  <2>2. /\ up = [enc |-> e, contents |-> up.contents] /\ up.enc = e
        /\ up.contents \in Seq(Int) /\ Increasing(up.contents)
        /\ ToSet(up.contents) = ToSet(is.contents) /\ Length(up) <= Length(is)
    BY <1>2, <2>1, UpgradeIs
  <2>3. InWidth(v, e)
    BY <1>1, EncodingIs
  <2>4. ASSUME NEW w \in ToSet(is.contents) PROVE InWidth(w, e)
    <3>1. w \in Int
      <4>1. PICK i \in 1 .. Len(is.contents) : is.contents[i] = w
        BY <1>2, ToSetIs
      <4>. QED BY <1>2, <4>1, LenProperties
    <3>2. InWidth(w, is.enc) \/ (0 <= w /\ w < 2 * Reach[1])
      BY DEF IntsetInv, InFirstReach, Fits
    <3>3. -Reach[2] <= w /\ w < Reach[2]
      <4>1. CASE is.enc = 1
        BY <3>1, <3>2, <4>1, ReachGrows DEF InWidth
      <4>2. CASE is.enc = 2
        <5>1. InWidth(w, 2) \/ (0 <= w /\ w < 2 * Reach[1])
          BY <3>2, <4>2
        <5>. QED BY <3>1, <5>1, ReachGrows DEF InWidth
      <4>. QED BY <1>2, <1>4, <4>1, <4>2
    <3>4. -Reach[3] <= w /\ w < Reach[3]
      BY <3>1, <3>3, ReachGrows
    <3>5. CASE e = 2
      BY <3>3, <3>5 DEF InWidth
    <3>6. CASE e = 3
      BY <3>4, <3>6 DEF InWidth
    <3>. QED BY <2>1, <3>5, <3>6
  <2>5. Fits(up)
    BY <2>2, <2>4 DEF Fits
  <2>6. IntsetInv(up)
    BY <2>1, <2>2, <2>5 DEF IntsetInv
  <2>. QED BY <2>2, <2>3, <2>5, <2>6
<1>. QED BY <1>3, <1>4

(* What a number is kept as.                                               *)
KeptIn(is, v) == IF v < 0 /\ check(is, v).enc = 1 THEN v + 2 * Reach[1] ELSE v

LEMMA IntsetAddIs ==
  ASSUME NEW is, IntsetInv(is), NEW v \in Int, InWidth(v, 3), NEW r, r = intsetAdd(is, v)
  PROVE  /\ IntsetInv(r)
         /\ Increasing(is.contents) /\ Fits(is) =>
              /\ ToSet(r.contents) = ToSet(is.contents) \cup {KeptIn(is, v)}
              /\ Length(r) > Length(check(is, v)) <=> v \notin ToSet(is.contents)
<1>1. PICK up : up = check(is, v)
  OBVIOUS
<1>2. /\ IntsetInv(up) /\ ToSet(up.contents) = ToSet(is.contents) /\ InWidth(v, up.enc)
      /\ Increasing(is.contents) /\ Fits(is) => Increasing(up.contents) /\ Fits(up)
  BY <1>1, CheckIs
<1>3. PICK s \in Seq(Int) : s = up.contents
  BY <1>2 DEF IntsetInv
<1>4. PICK e \in 1 .. 3 : e = up.enc
  BY <1>2 DEF IntsetInv
<1>5. PICK t : t = add(s, e, v)
  OBVIOUS
<1>6. r = [enc |-> e, contents |-> t]
  <2>1. up = [enc |-> e, contents |-> s]
    BY <1>2, <1>3, <1>4 DEF IntsetInv
  <2>2. r = [up EXCEPT !.contents = add(@, up.enc, v)]
    BY <1>1 DEF intsetAdd
  <2>. QED BY <1>3, <1>4, <1>5, <2>1, <2>2
<1>7. r.enc = e /\ r.contents = t /\ r = [enc |-> r.enc, contents |-> r.contents]
  BY <1>6
<1>8. /\ e # 1 \/ v >= 0 => Stored(v, e) = v
      /\ e = 1 /\ v < 0 => Stored(v, e) = v + 2 * Reach[1]
  BY <1>2, <1>4, StoredInWidth
<1>9. PICK w \in Int : w = Stored(v, e)
  BY <1>8, ReachGrows
<1>10. /\ t \in Seq(Int)
       /\ search(s, v) => t = s
       /\ ~search(s, v) => Len(t) = Len(s) + 1 /\ ToSet(t) = ToSet(s) \cup {w}
  BY <1>5, <1>9, AddIs
<1>11. Len(s) \in Nat /\ Len(t) \in Nat
  BY <1>10, LenProperties
<1>12. /\ e = 1 => \A x \in ToSet(s) : 0 <= x /\ x < 2 * Reach[1]
       /\ Fits(up) <=> \A x \in ToSet(s) : InWidth(x, e)
       /\ Fits(r) <=> \A x \in ToSet(t) : InWidth(x, e)
       /\ (Increasing(s) /\ Fits(up)) \/ (e = 1 /\ ~Fits(up))
  BY <1>2, <1>3, <1>4, <1>7 DEF IntsetInv, InFirstReach, Fits
<1>13. IntsetInv(r) <=> /\ e = 1 => \A x \in ToSet(t) : 0 <= x /\ x < 2 * Reach[1]
                        /\ (Increasing(t) /\ Fits(r)) \/ (e = 1 /\ ~Fits(r))
  BY <1>7, <1>10 DEF IntsetInv, InFirstReach
<1>14. KeptIn(is, v) = w
  BY <1>1, <1>4, <1>8, <1>9 DEF KeptIn
<1>15. e = 1 => 0 <= w /\ w < 2 * Reach[1]
  BY <1>2, <1>4, <1>8, <1>9, ReachGrows DEF InWidth
<1>16. e = 1 => \A x \in ToSet(t) : 0 <= x /\ x < 2 * Reach[1]
  BY <1>10, <1>12, <1>15
<1>17. CASE e # 1 \/ v >= 0
  <2>1. w = v /\ Stored(v, e) = v
    BY <1>8, <1>9, <1>17
  <2>2. CASE Increasing(s) /\ Fits(up)
    <3>1. /\ Increasing(t) /\ ToSet(t) = ToSet(s) \cup {v}
          /\ v \in ToSet(s) => Len(t) = Len(s)
          /\ v \notin ToSet(s) => Len(t) = Len(s) + 1
      BY <1>5, <2>1, <2>2, AddInOrder
    <3>2. Fits(r)
      BY <1>2, <1>4, <1>12, <2>2, <3>1
    <3>3. IntsetInv(r)
      BY <1>13, <1>16, <3>1, <3>2
    <3>4. Length(r) > Length(check(is, v)) <=> v \notin ToSet(s)
      BY <1>1, <1>3, <1>7, <1>11, <3>1 DEF Length
    <3>. QED BY <1>2, <1>3, <1>7, <1>14, <2>1, <3>1, <3>3, <3>4
  <2>3. CASE ~(Increasing(s) /\ Fits(up))
    <3>1. e = 1 /\ ~Fits(up)
      BY <1>12, <2>3
    <3>2. PICK x \in ToSet(s) : ~InWidth(x, e)
      BY <1>12, <3>1
    <3>3. x \in ToSet(t)
      BY <1>10, <3>2
    <3>4. ~Fits(r)
      BY <1>12, <3>2, <3>3
    <3>. QED BY <1>2, <1>3, <1>13, <1>16, <2>3, <3>1, <3>4
  <2>. QED BY <2>2, <2>3
<1>18. CASE e = 1 /\ v < 0
  <2>1. v \notin ToSet(s)
    BY <1>12, <1>18
  <2>2. ~search(s, v)
    BY <2>1, SearchFinds
  <2>3. Len(t) = Len(s) + 1 /\ ToSet(t) = ToSet(s) \cup {w}
    BY <1>10, <2>2
  <2>4. ~InWidth(w, 1)
    BY <1>2, <1>4, <1>8, <1>9, <1>18, ReachGrows DEF InWidth
  <2>5. ~Fits(r)
    BY <1>12, <1>18, <2>3, <2>4
  <2>6. IntsetInv(r)
    BY <1>13, <1>16, <1>18, <2>5
  <2>7. Length(r) > Length(check(is, v)) <=> v \notin ToSet(s)
    BY <1>1, <1>3, <1>7, <1>11, <2>1, <2>3 DEF Length
  <2>. QED BY <1>2, <1>3, <1>7, <1>14, <2>3, <2>6, <2>7
<1>. QED BY <1>17, <1>18

LEMMA IntsetRemoveIs ==
  ASSUME NEW is, IntsetInv(is), NEW v \in Int, InWidth(v, 3), NEW r, r = intsetRemove(is, v)
  PROVE  /\ IntsetInv(r) /\ Length(r) <= Length(is)
         /\ Increasing(is.contents) /\ Fits(is) =>
              /\ Increasing(r.contents) /\ Fits(r)
              /\ ToSet(r.contents) = ToSet(is.contents) \ {v}
              /\ Length(r) < Length(is) <=> v \in ToSet(is.contents)
<1>1. PICK s \in Seq(Int) : s = is.contents
  BY DEF IntsetInv
<1>2. PICK e \in 1 .. 3 : e = is.enc
  BY DEF IntsetInv
<1>3. is = [enc |-> e, contents |-> s] /\ Len(s) \in Nat
  BY <1>1, <1>2, LenProperties DEF IntsetInv
<1>4. /\ e = 1 => \A x \in ToSet(s) : 0 <= x /\ x < 2 * Reach[1]
      /\ Fits(is) <=> \A x \in ToSet(s) : InWidth(x, e)
      /\ (Increasing(s) /\ Fits(is)) \/ (e = 1 /\ ~Fits(is))
  BY <1>1, <1>2 DEF IntsetInv, InFirstReach, Fits
<1>5. CASE _intsetValueEncoding(v) > e
  <2>1. r = is
    BY <1>2, <1>5 DEF intsetRemove
  <2>2. ~InWidth(v, e)
    BY <1>5, EncodingIs
  <2>3. Fits(is) => v \notin ToSet(s)
    BY <1>4, <2>2
  <2>. QED BY <1>1, <1>3, <2>1, <2>3 DEF Length
<1>6. CASE ~(_intsetValueEncoding(v) > e)
  <2>1. PICK t : t = remove(s, v)
    OBVIOUS
  <2>2. r = [enc |-> e, contents |-> t]
    <3>1. r = [is EXCEPT !.contents = remove(@, v)]
      BY <1>2, <1>6 DEF intsetRemove
    <3>. QED BY <1>3, <2>1, <3>1
  <2>3. r.enc = e /\ r.contents = t /\ r = [enc |-> r.enc, contents |-> r.contents]
    BY <2>2
  <2>4. InWidth(v, e)
    BY <1>6, EncodingIs
  <2>5. /\ t \in Seq(Int) /\ Len(t) <= Len(s)
        /\ ToSet(t) \subseteq ToSet(s) /\ ToSet(s) \subseteq ToSet(t) \cup {v}
    BY <2>1, RemoveIs
  <2>6. Fits(r) <=> \A x \in ToSet(t) : InWidth(x, e)
    BY <2>3 DEF Fits
  <2>7. IntsetInv(r) <=> /\ e = 1 => \A x \in ToSet(t) : 0 <= x /\ x < 2 * Reach[1]
                         /\ (Increasing(t) /\ Fits(r)) \/ (e = 1 /\ ~Fits(r))
    BY <2>3, <2>5 DEF IntsetInv, InFirstReach
  <2>8. e = 1 => \A x \in ToSet(t) : 0 <= x /\ x < 2 * Reach[1]
    BY <1>4, <2>5
  <2>9. CASE Increasing(s) /\ Fits(is)
    <3>1. /\ Increasing(t) /\ ToSet(t) = ToSet(s) \ {v}
          /\ v \in ToSet(s) => Len(t) = Len(s) - 1
          /\ v \notin ToSet(s) => Len(t) = Len(s)
      BY <2>1, <2>9, RemoveInOrder
    <3>2. Fits(r)
      BY <1>4, <2>5, <2>6, <2>9
    <3>3. IntsetInv(r)
      BY <2>7, <2>8, <3>1, <3>2
    <3>. QED BY <1>1, <1>3, <2>3, <2>5, <3>1, <3>2, <3>3 DEF Length
  <2>10. CASE ~(Increasing(s) /\ Fits(is))
    <3>1. e = 1 /\ ~Fits(is)
      BY <1>4, <2>10
    <3>2. PICK x \in ToSet(s) : ~InWidth(x, e)
      BY <1>4, <3>1
    <3>3. x \in ToSet(t)
      BY <2>4, <2>5, <3>2
    <3>4. ~Fits(r)
      BY <2>6, <3>2, <3>3
    <3>. QED BY <1>1, <1>3, <2>3, <2>5, <2>7, <2>8, <2>10, <3>1, <3>4 DEF Length
  <2>. QED BY <2>9, <2>10
<1>. QED BY <1>5, <1>6

-----------------------------------------------------------------------------
(* The set object.                                                         *)

TheSet(struct, is, keys) == [type |-> "set", struct |-> struct, is |-> is, keys |-> keys]

SetInv(o) ==
  /\ o = TheSet(o.struct, o.is, o.keys)
  /\ o.struct \in {"intset", "dict"}
  /\ o.keys \in SUBSET Int /\ IsFiniteSet(o.keys)
  /\ IntsetInv(o.is) /\ Length(o.is) <= SetIntsetMax
  /\ o.struct = "dict" => o.is = NewIntset

Honest(o) == IsIntset(o) => Clean(o.is)

LEMMA ToSetIsFinite ==
  ASSUME NEW s \in Seq(Int)
  PROVE  ToSet(s) \in SUBSET Int /\ IsFiniteSet(ToSet(s)) /\ (Len(s) = 0 <=> ToSet(s) = {})
<1>1. PICK n \in Nat : n = Len(s)
  BY LenProperties
<1>2. \A i \in 1 .. n : s[i] \in Int
  BY <1>1, LenProperties
<1>3. \A w : w \in ToSet(s) <=> \E i \in 1 .. n : s[i] = w
  BY <1>1, ToSetIs
<1>4. ToSet(s) \in SUBSET Int
  BY <1>2, <1>3
<1>5. IsFiniteSet(ToSet(s))
  <2>1. IsFiniteSet(1 .. n)
    BY FS_Interval
  <2> DEFINE f == [i \in 1 .. n |-> s[i]]
  <2>2. f \in Surjection(1 .. n, ToSet(s))
    BY <1>3 DEF Surjection
  <2>. HIDE DEF f
  <2>. QED BY <2>1, <2>2, FS_Surjection
<1>6. n = 0 <=> ToSet(s) = {}
  <2>1. ASSUME n # 0 PROVE ToSet(s) # {}
    <3>1. 1 \in 1 .. n
      BY <2>1
    <3>. QED BY <1>3, <3>1
  <2>2. ASSUME n = 0 PROVE ToSet(s) = {}
    BY <1>3, <2>2
  <2>. QED BY <2>1, <2>2
<1>. QED BY <1>1, <1>4, <1>5, <1>6

LEMMA NewSetIs ==
  ASSUME NEW v
  PROVE  /\ SetInv(NewSet(v)) /\ Candidates(NewSet(v)) = {} /\ Honest(NewSet(v))
<1>1. PICK st \in {"intset", "dict"} : st = IF string2ll(v) THEN "intset" ELSE "dict"
  OBVIOUS
<1>2. PICK o : o = NewSet(v)
  OBVIOUS
<1>3. o = [type |-> "set", struct |-> st, is |-> NewIntset, keys |-> {}]
  BY <1>1, <1>2 DEF NewSet
<1>4. o = TheSet(o.struct, o.is, o.keys) /\ o.struct = st /\ o.is = NewIntset /\ o.keys = {}
  BY <1>3 DEF TheSet
<1>5. IsFiniteSet({})
  BY FS_EmptySet
<1>6. SetInv(o)
  BY <1>4, <1>5, NewIntsetIs, SetIntsetMaxAssumption DEF SetInv
<1>. QED BY <1>2, <1>4, <1>6, NewIntsetIs DEF Candidates, Honest

(* What is inside keeps the numbers and the keys finite sets of integers.  *)
LEMMA InsideIs ==
  ASSUME NEW o, SetInv(o)
  PROVE  /\ o.is.contents \in Seq(Int) /\ Length(o.is) \in Nat /\ Length(o.is) = Len(o.is.contents)
         /\ ToSet(o.is.contents) \in SUBSET Int /\ IsFiniteSet(ToSet(o.is.contents))
         /\ Candidates(o) \in SUBSET Int
         /\ SetObjectLen(o) = 0 <=> Candidates(o) = {}
         /\ Clean(o.is) <=> Increasing(o.is.contents) /\ Fits(o.is)
<1>1. o.is.contents \in Seq(Int)
  BY DEF SetInv, IntsetInv
<1>2. PICK s \in Seq(Int) : s = o.is.contents
  BY <1>1
<1>3. ToSet(s) \in SUBSET Int /\ IsFiniteSet(ToSet(s)) /\ (Len(s) = 0 <=> ToSet(s) = {}) /\ Len(s) \in Nat
  BY ToSetIsFinite, LenProperties
<1>4. Length(o.is) = Len(s)
  BY <1>2 DEF Length
<1>5. IsFiniteSet(o.keys) /\ o.keys \in SUBSET Int
  BY DEF SetInv
<1>6. Cardinality(o.keys) = 0 <=> o.keys = {}
  BY <1>5, FS_EmptySet
<1>7. Candidates(o) \in SUBSET Int /\ (SetObjectLen(o) = 0 <=> Candidates(o) = {})
  BY <1>2, <1>3, <1>4, <1>5, <1>6 DEF Candidates, SetObjectLen
<1>. QED BY <1>1, <1>2, <1>3, <1>4, <1>7, IntsetInvIsSound DEF SetInv

(* SetObjectRem. *)
LEMMA SetRemIs ==
  ASSUME NEW o, SetInv(o), NEW v \in Int, NEW r, r = SetObjectRem(o, v)
  PROVE  /\ SetInv(r) /\ (IsIntset(r) <=> IsIntset(o))
         /\ Honest(o) => /\ Candidates(r) = Candidates(o) \ {v}
                         /\ SetObjectLen(r) < SetObjectLen(o) <=> v \in Candidates(o)
<1>1. PICK st, is, keys : st = o.struct /\ is = o.is /\ keys = o.keys
  OBVIOUS
<1>2. /\ o = TheSet(st, is, keys) /\ st \in {"intset", "dict"} /\ keys \in SUBSET Int /\ IsFiniteSet(keys)
      /\ IntsetInv(is) /\ Length(is) <= SetIntsetMax /\ (st = "dict" => is = NewIntset)
  BY <1>1 DEF SetInv
<1>3. /\ Clean(is) <=> Increasing(is.contents) /\ Fits(is)
      /\ Length(is) \in Nat
  BY <1>1, InsideIs
<1>4. CASE ~IsIntset(o)
  <2>1. st = "dict" /\ st # "intset" /\ is = NewIntset
    BY <1>1, <1>2, <1>4 DEF IsIntset
  <2>2. r = TheSet(st, is, keys \ {v})
    <3>1. r = [o EXCEPT !.keys = @ \ {v}]
      BY <1>4 DEF SetObjectRem
    <3>. QED BY <1>2, <3>1 DEF TheSet
  <2>3. r.struct = st /\ r.is = is /\ r.keys = keys \ {v} /\ r = TheSet(r.struct, r.is, r.keys)
    BY <2>2 DEF TheSet
  <2>4. IsFiniteSet(keys \ {v})
    BY <1>2, FS_RemoveElement
  <2>5. SetInv(r)
    BY <1>2, <2>3, <2>4 DEF SetInv
  <2>6. /\ v \in keys => Cardinality(keys \ {v}) = Cardinality(keys) - 1
        /\ v \notin keys => keys \ {v} = keys
        /\ Cardinality(keys) \in Nat
    BY <1>2, FS_RemoveElement, FS_CardinalityType
  <2>7. ~IsIntset(r)
    BY <2>1, <2>3 DEF IsIntset
  <2>8. SetObjectLen(r) = Cardinality(keys \ {v}) /\ SetObjectLen(o) = Cardinality(keys)
    BY <1>1, <1>4, <2>3, <2>7 DEF SetObjectLen
  <2>9. SetObjectLen(r) < SetObjectLen(o) <=> v \in keys
    BY <2>6, <2>8
  <2>10. Candidates(o) = keys /\ Candidates(r) = keys \ {v}
    BY <1>1, <1>4, <2>3, <2>7 DEF Candidates
  <2>. QED BY <1>4, <2>5, <2>7, <2>9, <2>10
<1>5. CASE IsIntset(o) /\ ~string2ll(v)
  <2>1. r = o
    BY <1>5 DEF SetObjectRem
  <2>2. Clean(is) => v \notin ToSet(is.contents)
    <3>1. SUFFICES ASSUME Clean(is), v \in ToSet(is.contents) PROVE FALSE
      OBVIOUS
    <3>2. InWidth(v, is.enc) /\ is.enc \in 1 .. 3
      BY <1>2, <1>3, <3>1 DEF Fits, IntsetInv
    <3>3. InWidth(v, 3)
      <4>1. is.enc = 1 \/ is.enc = 2 \/ is.enc = 3
        BY <3>2
      <4>. QED BY <3>2, <4>1, ReachGrows DEF InWidth
    <3>. QED BY <1>5, <3>3 DEF string2ll
  <2>3. Candidates(o) = ToSet(is.contents)
    BY <1>1, <1>5 DEF Candidates
  <2>4. SetObjectLen(o) \in Nat
    BY <1>1, <1>3, <1>5 DEF SetObjectLen
  <2>. QED BY <1>1, <1>5, <2>1, <2>2, <2>3, <2>4 DEF Honest
<1>6. CASE IsIntset(o) /\ string2ll(v)
  <2>1. PICK t : t = intsetRemove(is, v)
    OBVIOUS
  <2>2. r = TheSet(st, t, keys)
    <3>1. r = [o EXCEPT !.is = intsetRemove(@, v)]
      BY <1>6 DEF SetObjectRem
    <3>. QED BY <1>2, <2>1, <3>1 DEF TheSet
  <2>3. r.struct = st /\ r.is = t /\ r.keys = keys /\ r = TheSet(r.struct, r.is, r.keys)
    BY <2>2 DEF TheSet
  <2>4. InWidth(v, 3)
    BY <1>6 DEF string2ll
  <2>5. /\ IntsetInv(t) /\ Length(t) <= Length(is)
        /\ Increasing(is.contents) /\ Fits(is) =>
             /\ ToSet(t.contents) = ToSet(is.contents) \ {v}
             /\ Length(t) < Length(is) <=> v \in ToSet(is.contents)
    BY <1>2, <2>1, <2>4, IntsetRemoveIs
  <2>6. Length(t) \in Nat /\ Length(t) <= SetIntsetMax
    BY <1>2, <1>3, <2>5, LenProperties, SetIntsetMaxAssumption DEF IntsetInv, Length
  <2>7. st = "intset" /\ st # "dict"
    BY <1>1, <1>6 DEF IsIntset
  <2>8. SetInv(r)
    BY <1>2, <2>3, <2>5, <2>6, <2>7 DEF SetInv
  <2>9. IsIntset(r)
    BY <2>3, <2>7 DEF IsIntset
  <2>10. /\ Candidates(o) = ToSet(is.contents) /\ Candidates(r) = ToSet(t.contents)
         /\ SetObjectLen(o) = Length(is) /\ SetObjectLen(r) = Length(t)
    BY <1>1, <1>6, <2>3, <2>9 DEF Candidates, SetObjectLen
  <2>. QED BY <1>1, <1>3, <1>6, <2>5, <2>8, <2>9, <2>10 DEF Honest
<1>. QED BY <1>4, <1>5, <1>6

(* SetObjectUpgrade: the numbers become the keys. *)
LEMMA SetUpgradeIs ==
  ASSUME NEW o, o = TheSet(o.struct, o.is, o.keys), o.is.contents \in Seq(Int),
         NEW r, r = SetObjectUpgrade(o)
  PROVE  SetInv(r) /\ ~IsIntset(r) /\ Candidates(r) = ToSet(o.is.contents) /\ r.keys = ToSet(o.is.contents)
<1>1. PICK c : c = ToSet(o.is.contents)
  OBVIOUS
<1>2. c \in SUBSET Int /\ IsFiniteSet(c)
  BY <1>1, ToSetIsFinite
<1>3. r = TheSet("dict", NewIntset, c)
  <2>1. o = TheSet(o.struct, o.is, o.keys)
    OBVIOUS
  <2>2. PICK st, is, keys : st = o.struct /\ is = o.is /\ keys = o.keys
    OBVIOUS
  <2>3. o = [type |-> "set", struct |-> st, is |-> is, keys |-> keys]
    BY <2>1, <2>2 DEF TheSet
  <2>4. r = [o EXCEPT !.struct = "dict", !.is = NewIntset, !.keys = c]
    BY <1>1 DEF SetObjectUpgrade
  <2>. QED BY <2>3, <2>4 DEF TheSet
<1>4. r.struct = "dict" /\ r.is = NewIntset /\ r.keys = c /\ r = TheSet(r.struct, r.is, r.keys)
  BY <1>3 DEF TheSet
<1>5. SetInv(r)
  BY <1>2, <1>4, NewIntsetIs, SetIntsetMaxAssumption DEF SetInv
<1>6. ~IsIntset(r)
  BY <1>4 DEF IsIntset
<1>. QED BY <1>1, <1>4, <1>5, <1>6 DEF Candidates

(* An add to the dictionary. *)
LEMMA AddToDictIs ==
  ASSUME NEW o, SetInv(o), ~IsIntset(o), NEW v \in Int, NEW r, r = AddToDict(o, v)
  PROVE  /\ SetInv(r.set) /\ ~IsIntset(r.set)
         /\ Candidates(r.set) = o.keys \cup {v}
         /\ r.code = "PY_EXIST" <=> v \in o.keys
<1>1. PICK st, is, keys : st = o.struct /\ is = o.is /\ keys = o.keys
  OBVIOUS
<1>2. /\ o = TheSet(st, is, keys) /\ st \in {"intset", "dict"} /\ keys \in SUBSET Int /\ IsFiniteSet(keys)
      /\ IntsetInv(is) /\ Length(is) <= SetIntsetMax /\ (st = "dict" => is = NewIntset)
  BY <1>1 DEF SetInv
<1>3. PICK t : t = [o EXCEPT !.keys = @ \cup {v}]
  OBVIOUS
<1>4. r.set = t /\ (r.code = "PY_EXIST" <=> v \in keys)
  BY <1>1, <1>3 DEF AddToDict
<1>5. PICK more : more = keys \cup {v}
  OBVIOUS
<1>6. t = TheSet(st, is, more)
  BY <1>2, <1>3, <1>5 DEF TheSet
<1>7. t.struct = st /\ t.is = is /\ t.keys = more /\ t = TheSet(t.struct, t.is, t.keys)
  BY <1>6 DEF TheSet
<1>8. more \in SUBSET Int /\ IsFiniteSet(more)
  BY <1>2, <1>5, FS_AddElement
<1>9. SetInv(t)
  BY <1>2, <1>7, <1>8 DEF SetInv
<1>10. ~IsIntset(t)
  BY <1>1, <1>7 DEF IsIntset
<1>. QED BY <1>1, <1>4, <1>5, <1>7, <1>9, <1>10 DEF Candidates

(* SetObjectAdd. *)
KeptBy(o, v) == IF v < 0 /\ InFirst(o, v) THEN v + 2 * Reach[1] ELSE v

LEMMA SetAddIs ==
  ASSUME NEW o, SetInv(o), NEW v \in Int, NEW r, r = SetObjectAdd(o, v)
  PROVE  /\ SetInv(r.set)
         /\ Honest(o) => /\ Candidates(r.set) = Candidates(o) \cup {KeptBy(o, v)}
                         /\ r.code = "PY_EXIST" <=> v \in Candidates(o) /\ ~IsIntset(o)
<1>1. PICK st, is, keys : st = o.struct /\ is = o.is /\ keys = o.keys
  OBVIOUS
<1>2. /\ o = TheSet(st, is, keys) /\ st \in {"intset", "dict"} /\ keys \in SUBSET Int /\ IsFiniteSet(keys)
      /\ IntsetInv(is) /\ Length(is) <= SetIntsetMax /\ (st = "dict" => is = NewIntset)
  BY <1>1 DEF SetInv
<1>3. /\ Clean(is) <=> Increasing(is.contents) /\ Fits(is)
      /\ Length(is) \in Nat
  BY <1>1, InsideIs
<1>4. CASE ~IsIntset(o)
  <2>1. r = AddToDict(o, v)
    BY <1>4 DEF SetObjectAdd
  <2>2. KeptBy(o, v) = v
    BY <1>4 DEF KeptBy, InFirst
  <2>3. Candidates(o) = o.keys
    BY <1>4 DEF Candidates
  <2>4. /\ SetInv(r.set)
        /\ Candidates(r.set) = o.keys \cup {v}
        /\ r.code = "PY_EXIST" <=> v \in o.keys
    BY <1>4, <2>1, AddToDictIs
  <2>. QED BY <1>4, <2>2, <2>3, <2>4
<1>5. CASE IsIntset(o) /\ ~string2ll(v)
  <2>1. PICK up : up = SetObjectUpgrade(o)
    OBVIOUS
  <2>2. SetInv(up) /\ ~IsIntset(up) /\ up.keys = ToSet(is.contents)
    <3>1. o.is.contents \in Seq(Int) /\ o = TheSet(o.struct, o.is, o.keys)
      BY InsideIs DEF SetInv
    <3>. QED BY <1>1, <2>1, <3>1, SetUpgradeIs
  <2>3. r = AddToDict(up, v)
    BY <1>5, <2>1 DEF SetObjectAdd
  <2>4. /\ SetInv(r.set)
        /\ Candidates(r.set) = up.keys \cup {v}
        /\ r.code = "PY_EXIST" <=> v \in up.keys
    BY <2>2, <2>3, AddToDictIs
  <2>5. KeptBy(o, v) = v
    BY <1>5 DEF KeptBy, InFirst
  <2>6. Candidates(o) = ToSet(is.contents)
    BY <1>1, <1>5 DEF Candidates
  <2>7. Clean(is) => v \notin ToSet(is.contents)
    <3>1. SUFFICES ASSUME Clean(is), v \in ToSet(is.contents) PROVE FALSE
      OBVIOUS
    <3>2. InWidth(v, is.enc) /\ is.enc \in 1 .. 3
      BY <1>2, <1>3, <3>1 DEF Fits, IntsetInv
    <3>3. InWidth(v, 3)
      <4>1. is.enc = 1 \/ is.enc = 2 \/ is.enc = 3
        BY <3>2
      <4>. QED BY <3>2, <4>1, ReachGrows DEF InWidth
    <3>. QED BY <1>5, <3>3 DEF string2ll
  <2>. QED BY <1>1, <1>5, <2>2, <2>4, <2>5, <2>6, <2>7 DEF Honest
<1>6. CASE IsIntset(o) /\ string2ll(v)
  <2>1. PICK t : t = intsetAdd(is, v)
    OBVIOUS
  <2>2. PICK after : after = TheSet(st, t, keys)
    OBVIOUS
  <2>3. [o EXCEPT !.is = intsetAdd(@, v)] = after
    BY <1>2, <2>1, <2>2 DEF TheSet
  <2>4. after.struct = st /\ after.is = t /\ after.keys = keys /\ after = TheSet(after.struct, after.is, after.keys)
    BY <2>2 DEF TheSet
  <2>5. InWidth(v, 3)
    BY <1>6 DEF string2ll
  <2>6. /\ IntsetInv(t)
        /\ Increasing(is.contents) /\ Fits(is) =>
             /\ ToSet(t.contents) = ToSet(is.contents) \cup {KeptIn(is, v)}
             /\ Length(t) > Length(check(is, v)) <=> v \notin ToSet(is.contents)
    BY <1>2, <2>1, <2>5, IntsetAddIs
  <2>7. st = "intset" /\ st # "dict"
    BY <1>1, <1>6 DEF IsIntset
  <2>8. KeptBy(o, v) = KeptIn(is, v)
    BY <1>1, <1>6 DEF KeptBy, KeptIn, InFirst
  <2>9. PICK grown \in BOOLEAN : grown <=> Length(t) > Length(check(is, v))
    OBVIOUS
  <2>10. r = IF ~grown THEN [set |-> after, code |-> "PY_ERR"]
             ELSE [set |-> IF TooLong(after) THEN SetObjectUpgrade(after) ELSE after, code |-> "PY_OK"]
    BY <1>1, <1>6, <2>3, <2>4, <2>9 DEF SetObjectAdd
  <2>11. Length(t) \in Nat /\ IsIntset(after) /\ Candidates(after) = ToSet(t.contents)
    BY <2>4, <2>6, <2>7, LenProperties DEF IntsetInv, Length, IsIntset, Candidates
  <2>12. r.code # "PY_EXIST"
    BY <2>10
  <2>13. SetInv(r.set) /\ Candidates(r.set) = ToSet(t.contents)
    <3>1. CASE Length(t) <= SetIntsetMax
      <4>1. SetInv(after)
        BY <1>2, <2>4, <2>6, <2>7, <3>1 DEF SetInv
      <4>2. ~TooLong(after)
        BY <2>4, <2>11, <3>1, SetIntsetMaxAssumption DEF TooLong
      <4>3. r.set = after
        BY <2>10, <4>2
      <4>. QED BY <2>11, <4>1, <4>3
    <3>2. CASE Length(t) > SetIntsetMax
      <4>1. TooLong(after)
        BY <2>4, <3>2 DEF TooLong
      <4>2. grown
        <5>1. PICK up : up = check(is, v)
          OBVIOUS
        <5>2. Length(up) <= Length(is) /\ Length(up) \in Nat
          BY <1>2, <2>5, <5>1, CheckIs, LenProperties DEF IntsetInv, Length
        <5>. QED BY <1>2, <1>3, <2>9, <2>11, <3>2, <5>1, <5>2, SetIntsetMaxAssumption
      <4>3. r.set = SetObjectUpgrade(after)
        BY <2>10, <4>1, <4>2
      <4>4. after.is.contents \in Seq(Int) /\ after = TheSet(after.struct, after.is, after.keys)
        BY <2>4, <2>6 DEF IntsetInv
      <4>5. SetInv(r.set) /\ Candidates(r.set) = ToSet(after.is.contents)
        BY <4>3, <4>4, SetUpgradeIs
      <4>. QED BY <2>4, <4>5
    <3>. QED BY <2>11, <3>1, <3>2, SetIntsetMaxAssumption
  <2>. QED BY <1>1, <1>3, <1>6, <2>6, <2>8, <2>12, <2>13 DEF Honest, Candidates
<1>. QED BY <1>4, <1>5, <1>6

-----------------------------------------------------------------------------
(* The specification. *)

ListInv(o) == o = [type |-> "list", lst |-> o.lst] /\ o.lst \in Seq(ListValue) /\ Len(o.lst) <= ListMax

ObjInv == obj = Absent \/ ListInv(obj) \/ SetInv(obj) \/ ZsetInv(obj)

LEMMA KindsAreApart ==
  /\ Absent.type = "none"
  /\ \A o : ListInv(o) => o.type = "list"
  /\ \A o : SetInv(o) => o.type = "set"
  /\ \A o : ZsetInv(o) => o.type = "zset"
<1>1. Absent.type = "none"
  BY DEF Absent
<1>2. ASSUME NEW o, ListInv(o) PROVE o.type = "list"
  <2>1. PICK l : l = o.lst
    OBVIOUS
  <2>2. o = [type |-> "list", lst |-> l]
    BY <1>2, <2>1 DEF ListInv
  <2>. QED BY <2>2
<1>3. ASSUME NEW o, SetInv(o) PROVE o.type = "set"
  <2>1. PICK st, is, keys : st = o.struct /\ is = o.is /\ keys = o.keys
    OBVIOUS
  <2>2. o = [type |-> "set", struct |-> st, is |-> is, keys |-> keys]
    BY <1>3, <2>1 DEF SetInv, TheSet
  <2>. QED BY <2>2
<1>4. ASSUME NEW o, ZsetInv(o) PROVE o.type = "zset"
  <2>1. PICK sl, dict : sl = o.sl /\ dict = o.dict
    OBVIOUS
  <2>2. o = [type |-> "zset", sl |-> sl, dict |-> dict]
    BY <1>4, <2>1 DEF ZsetInv
  <2>. QED BY <2>2
<1>. QED BY <1>1, <1>2, <1>3, <1>4

LEMMA TypeTells ==
  ASSUME ObjInv
  PROVE  /\ Is("none") => obj = Absent
         /\ Is("list") => ListInv(obj)
         /\ Is("set")  => SetInv(obj)
         /\ Is("zset") => ZsetInv(obj)
<1>1. obj = Absent \/ ListInv(obj) \/ SetInv(obj) \/ ZsetInv(obj)
  BY DEF ObjInv
<1>2. CASE obj = Absent
  BY <1>2, KindsAreApart DEF Is
<1>3. CASE ListInv(obj)
  <2>1. obj.type = "list"
    BY <1>3, KindsAreApart
  <2>. QED BY <1>3, <2>1 DEF Is
<1>4. CASE SetInv(obj)
  <2>1. obj.type = "set"
    BY <1>4, KindsAreApart
  <2>. QED BY <1>4, <2>1 DEF Is
<1>5. CASE ZsetInv(obj)
  <2>1. obj.type = "zset"
    BY <1>5, KindsAreApart
  <2>. QED BY <1>5, <2>1 DEF Is
<1>. QED BY <1>1, <1>2, <1>3, <1>4, <1>5

(* A list with another sequence in it. *)
LEMMA ListWith ==
  ASSUME NEW o, ListInv(o), NEW l \in Seq(ListValue), Len(l) <= ListMax
  PROVE  ListInv([o EXCEPT !.lst = l])
<1>1. PICK k : k = o.lst
  OBVIOUS
<1>2. o = [type |-> "list", lst |-> k]
  BY <1>1 DEF ListInv
<1>3. PICK r : r = [o EXCEPT !.lst = l]
  OBVIOUS
<1>4. r = [type |-> "list", lst |-> l]
  BY <1>2, <1>3
<1>5. r.lst = l /\ r = [type |-> "list", lst |-> r.lst]
  BY <1>4
<1>. QED BY <1>3, <1>5 DEF ListInv

LEMMA NewListIs == ListInv(NewList)
<1>1. PICK r : r = NewList
  OBVIOUS
<1>2. r = [type |-> "list", lst |-> << >>]
  BY <1>1 DEF NewList
<1>3. r.lst = << >> /\ r = [type |-> "list", lst |-> r.lst]
  BY <1>2
<1>4. << >> \in Seq(ListValue) /\ Len(<< >>) <= ListMax
  BY ListMaxAssumption
<1>. QED BY <1>1, <1>3, <1>4 DEF ListInv

LEMMA ListFacts ==
  ASSUME ObjInv, Is("list")
  PROVE  ListInv(obj) /\ obj.lst \in Seq(ListValue) /\ Len(obj.lst) \in Nat /\ Len(obj.lst) <= ListMax
<1>1. ListInv(obj)
  BY TypeTells
<1>. QED BY <1>1, LenProperties DEF ListInv

LEMMA PushKeeps ==
  ASSUME ObjInv, NEW v \in ListValue, NEW where, push(v, where)
  PROVE  ListInv(obj')
<1>1. PICK l : l = Target("list", NewList)
  OBVIOUS
<1>2. ListInv(l)
  BY <1>1, TypeTells, NewListIs DEF Target
<1>3. l.lst \in Seq(ListValue) /\ Len(l.lst) \in Nat
  BY <1>2, LenProperties DEF ListInv
<1>4. Len(l.lst) < ListMax /\ obj' = [l EXCEPT !.lst = Push(@, v, where)]
  BY <1>1 DEF push
<1>5. Push(l.lst, v, where) \in Seq(ListValue) /\ Len(Push(l.lst, v, where)) = Len(l.lst) + 1
  BY <1>3, PushIs
<1>6. Len(Push(l.lst, v, where)) <= ListMax
  BY <1>3, <1>4, <1>5, ListMaxAssumption
<1>7. ListInv([l EXCEPT !.lst = Push(l.lst, v, where)])
  BY <1>2, <1>5, <1>6, ListWith
<1>. QED BY <1>4, <1>7

LEMMA PopKeeps ==
  ASSUME ObjInv, NEW where, pop(where)
  PROVE  ObjInv'
<1>1. Is("list")
  BY DEF pop, Checked
<1>2. ListInv(obj) /\ obj.lst \in Seq(ListValue) /\ Len(obj.lst) \in Nat /\ Len(obj.lst) <= ListMax
  BY <1>1, ListFacts
<1>3. CASE obj.lst = << >>
  BY <1>3 DEF pop, ObjInv
<1>4. CASE obj.lst # << >>
  <2>1. obj' = [obj EXCEPT !.lst = AfterPop(@, where)]
    BY <1>4 DEF pop
  <2>2. AfterPop(obj.lst, where) \in Seq(ListValue) /\ Len(AfterPop(obj.lst, where)) <= Len(obj.lst)
    BY <1>2, <1>4, AfterPopIs
  <2>3. Len(AfterPop(obj.lst, where)) <= ListMax
    BY <1>2, <2>2, LenProperties, ListMaxAssumption
  <2>4. ListInv([obj EXCEPT !.lst = AfterPop(obj.lst, where)])
    BY <1>2, <2>2, <2>3, ListWith
  <2>. QED BY <2>1, <2>4 DEF ObjInv
<1>. QED BY <1>3, <1>4

LEMMA LsetKeeps ==
  ASSUME ObjInv, NEW v \in ListValue, NEW index, lset(index, v)
  PROVE  ListInv(obj')
<1>1. Is("list") /\ obj' = [obj EXCEPT !.lst = ListObjectSet(@, index, v)]
  BY DEF lset, Checked
<1>2. ListInv(obj) /\ obj.lst \in Seq(ListValue) /\ Len(obj.lst) \in Nat /\ Len(obj.lst) <= ListMax
  BY <1>1, ListFacts
<1>3. ListObjectSet(obj.lst, index, v) \in Seq(ListValue) /\ Len(ListObjectSet(obj.lst, index, v)) = Len(obj.lst)
  BY <1>2, ListObjectSetIs
<1>4. ListInv([obj EXCEPT !.lst = ListObjectSet(obj.lst, index, v)])
  BY <1>2, <1>3, ListWith
<1>. QED BY <1>1, <1>4

LEMMA LremKeeps ==
  ASSUME ObjInv, NEW v \in ListValue, NEW nums \in Count, lrem(nums, v)
  PROVE  ObjInv'
<1>1. Is("list")
  BY DEF lrem, Checked
<1>2. ListInv(obj) /\ obj.lst \in Seq(ListValue) /\ Len(obj.lst) \in Nat /\ Len(obj.lst) <= ListMax
  BY <1>1, ListFacts
<1>3. CASE RemIsUndefined(obj.lst, nums)
  BY <1>3 DEF lrem, ObjInv
<1>4. CASE ~RemIsUndefined(obj.lst, nums)
  <2>1. obj' = [obj EXCEPT !.lst = ListObjectRem(@, nums, v)]
    BY <1>4 DEF lrem
  <2>2. nums \in Int
    BY NumberAssumption
  <2>3. /\ ListObjectRem(obj.lst, nums, v) \in Seq(ListValue)
        /\ Len(ListObjectRem(obj.lst, nums, v)) <= Len(obj.lst)
    BY <1>2, <1>4, <2>2, ListObjectRemIs
  <2>4. Len(ListObjectRem(obj.lst, nums, v)) <= ListMax
    BY <1>2, <2>3, LenProperties, ListMaxAssumption
  <2>5. ListInv([obj EXCEPT !.lst = ListObjectRem(obj.lst, nums, v)])
    BY <1>2, <2>3, <2>4, ListWith
  <2>. QED BY <2>1, <2>5 DEF ObjInv
<1>. QED BY <1>3, <1>4

(* Sets. *)
LEMMA SetTarget ==
  ASSUME ObjInv, Is("none") \/ Is("set"), NEW v, NEW o, o = Target("set", NewSet(v))
  PROVE  /\ SetInv(o) /\ Candidates(o) = Elements /\ (Trustworthy => Honest(o))
         /\ Candidates(o) # {} => o = obj
<1>1. CASE Is("set")
  <2>1. o = obj
    BY <1>1 DEF Target
  <2>. QED BY <1>1, <2>1, TypeTells DEF Elements, Trustworthy, Honest
<1>2. CASE ~Is("set")
  <2>1. o = NewSet(v)
    BY <1>2 DEF Target
  <2>. QED BY <1>2, <2>1, NewSetIs DEF Elements
<1>. QED BY <1>1, <1>2

LEMMA SetFacts ==
  ASSUME ObjInv, Is("set")
  PROVE  /\ SetInv(obj) /\ Candidates(obj) = Elements /\ (Trustworthy => Honest(obj))
         /\ Candidates(obj) \in SUBSET Int
<1>1. SetInv(obj)
  BY TypeTells
<1>. QED BY <1>1, InsideIs DEF Elements, Trustworthy, Honest

LEMMA SaddKeeps ==
  ASSUME ObjInv, NEW v \in SetValue, sadd(v)
  PROVE  SetInv(obj')
<1>1. Is("none") \/ Is("set")
  BY DEF sadd
<1>2. PICK o : o = Target("set", NewSet(v))
  OBVIOUS
<1>3. SetInv(o) /\ v \in Int
  BY <1>1, <1>2, SetTarget, NumberAssumption
<1>4. obj' = SetObjectAdd(o, v).set
  BY <1>2 DEF sadd
<1>. QED BY <1>3, <1>4, SetAddIs

LEMMA SremKeeps ==
  ASSUME ObjInv, NEW v \in SetValue, srem(v)
  PROVE  SetInv(obj')
<1>1. Is("set") /\ obj' = SetObjectRem(obj, v)
  BY DEF srem, Checked
<1>2. SetInv(obj) /\ v \in Int
  BY <1>1, SetFacts, NumberAssumption
<1>. QED BY <1>1, <1>2, SetRemIs

LEMMA SpopKeeps ==
  ASSUME ObjInv, spop
  PROVE  ObjInv'
<1>1. Is("set")
  BY DEF spop, Checked
<1>2. SetInv(obj) /\ Candidates(obj) \in SUBSET Int
  BY <1>1, SetFacts
<1>3. obj' = obj \/ \E v \in Candidates(obj) : obj' = SetObjectRem(obj, v)
  BY DEF spop
<1>4. CASE obj' = obj
  BY <1>4 DEF ObjInv
<1>5. ASSUME NEW v \in Candidates(obj), obj' = SetObjectRem(obj, v) PROVE ObjInv'
  <2>1. v \in Int
    BY <1>2
  <2>2. SetInv(obj')
    BY <1>2, <1>5, <2>1, SetRemIs
  <2>. QED BY <2>2 DEF ObjInv
<1>. QED BY <1>3, <1>4, <1>5

(* Sorted sets. *)
LEMMA ZaddKeeps ==
  ASSUME ObjInv, NEW m \in Member, NEW score \in Score, zadd(m, score)
  PROVE  ZsetInv(obj')
<1>1. PICK z : z = Target("zset", NewZset)
  OBVIOUS
<1>2. ZsetInv(z)
  BY <1>1, TypeTells, NewZsetIs DEF Target
<1>3. PICK n \in FreeFor(z, m), lv \in 1 .. MaxLevel : obj' = ZsetAdd(z, m, score, n, lv)
  BY <1>1 DEF zadd
<1>. QED BY <1>2, <1>3, AddKeepsStep

LEMMA ZremKeeps ==
  ASSUME ObjInv, NEW m \in Member, zrem(m)
  PROVE  ObjInv'
<1>1. Is("zset")
  BY DEF zrem, Checked
<1>2. ZsetInv(obj)
  BY <1>1, TypeTells
<1>3. obj' = obj \/ obj' = ZsetRem(obj, m)
  BY DEF zrem
<1>4. CASE obj' = obj
  BY <1>4 DEF ObjInv
<1>5. CASE obj' = ZsetRem(obj, m)
  <2>1. ZsetInv(obj')
    BY <1>2, <1>5, RemKeepsStep
  <2>. QED BY <2>1 DEF ObjInv
<1>. QED BY <1>3, <1>4, <1>5

LEMMA NextKeeps ==
  ASSUME ObjInv, [Next]_vars
  PROVE  ObjInv'
<1>1. CASE UNCHANGED vars
  BY <1>1 DEF vars, ObjInv
<1>2. ASSUME NEW v \in ListValue, NEW where \in {"head", "tail"}, push(v, where) PROVE ObjInv'
  BY <1>2, PushKeeps DEF ObjInv
<1>3. ASSUME NEW where \in {"head", "tail"}, pop(where) PROVE ObjInv'
  BY <1>3, PopKeeps
<1>4. ASSUME NEW v \in ListValue, NEW c \in Count, lset(c, v) PROVE ObjInv'
  BY <1>4, LsetKeeps DEF ObjInv
<1>5. ASSUME NEW v \in ListValue, NEW c \in Count, lrem(c, v) PROVE ObjInv'
  BY <1>5, LremKeeps
<1>6. ASSUME NEW v \in SetValue, sadd(v) PROVE ObjInv'
  BY <1>6, SaddKeeps DEF ObjInv
<1>7. ASSUME NEW v \in SetValue, srem(v) PROVE ObjInv'
  BY <1>7, SremKeeps DEF ObjInv
<1>8. CASE spop
  BY <1>8, SpopKeeps
<1>9. ASSUME NEW m \in Member, zrem(m) PROVE ObjInv'
  BY <1>9, ZremKeeps
<1>10. ASSUME NEW m \in Member, NEW score \in Score, zadd(m, score) PROVE ObjInv'
  BY <1>10, ZaddKeeps DEF ObjInv
<1>11. ASSUME NEW t, TypeError(t) PROVE ObjInv'
  BY <1>11 DEF TypeError, ObjInv
<1>12. CASE del
  BY <1>12 DEF del, ObjInv
<1>. QED BY <1>1, <1>2, <1>3, <1>4, <1>5, <1>6, <1>7, <1>8, <1>9, <1>10, <1>11, <1>12 DEF Next

(* What the key holds is nothing, or a list, a set or a sorted set that is *)
(* sound within (ListInv, SetInv, ZsetInv), whichever commands of pydis    *)
(* have run on it.                                                         *)
THEOREM Inductive == Spec => []ObjInv
<1>1. Init => ObjInv
  BY DEF Init, ObjInv
<1>2. ObjInv /\ [Next]_vars => ObjInv'
  BY NextKeeps
<1>. QED BY <1>1, <1>2, PTL DEF Spec

(* The type of what the key holds; an intset stays sorted, free of         *)
(* duplicates and within its encoding through every insertion, removal     *)
(* and upgrade (intset.cpp), but in the first encoding after a negative    *)
(* number was stored.                                                      *)
THEOREM TypeCorrect == Spec => []TypeOK
<1>1. ASSUME ObjInv PROVE TypeOK
  <2>1. CASE obj = Absent
    BY <2>1 DEF TypeOK
  <2>2. CASE ListInv(obj)
    BY <2>2, KindsAreApart DEF TypeOK, ListInv, Is
  <2>3. CASE SetInv(obj)
    <3>1. SortedUnlessNegativeStored(obj.is)
      BY <2>3, IntsetInvIsSound DEF SetInv
    <3>2. obj.struct \in {"intset", "dict"} /\ obj.is.enc \in 1 .. 3 /\ obj.keys \subseteq Int /\ Length(obj.is) <= SetIntsetMax
      BY <2>3 DEF SetInv, IntsetInv
    <3>3. Is("set")
      BY <2>3, KindsAreApart DEF Is
    <3>. QED BY <3>1, <3>2, <3>3 DEF TypeOK
  <2>4. CASE ZsetInv(obj)
    <3>1. Is("zset")
      BY <2>4, KindsAreApart DEF Is
    <3>2. PICK pos : Ordered(obj.sl, pos)
      BY <2>4 DEF ZsetInv
    <3>3. Nodes(obj.sl) \subseteq Address /\ obj.sl.level \in 1 .. MaxLevel
      BY <3>2 DEF Ordered, Shape
    <3>4. DOMAIN obj.dict \subseteq Member
      BY <2>4 DEF ZsetInv, ZsetDict
    <3>. QED BY <3>1, <3>3, <3>4 DEF TypeOK
  <2>. QED BY <1>1, <2>1, <2>2, <2>3, <2>4 DEF ObjInv
<1>. QED BY <1>1, Inductive, PTL

(* For every list, count and value: lrem, that erases under its iterator,  *)
(* removes from the end it is told to, as many as it is told, and lrange   *)
(* returns a slice, but for a start before the first element (object.cpp). *)
THEOREM ListsAreSound == Spec => []ListsDoAsTold
<1>1. ASSUME ObjInv PROVE ListsDoAsTold
  <2>1. SUFFICES ASSUME Is("list")
                 PROVE  RemRemovesFromThatEnd(obj.lst, Count, ListValue) /\ RangeIsSliceUnlessBeforeFirst(obj.lst, Count)
    BY DEF ListsDoAsTold
  <2>2. PICK l \in Seq(ListValue) : l = obj.lst
    BY <1>1, <2>1, ListFacts
  <2>3. RemRemovesFromThatEnd(l, Count, ListValue)
    <3>1. SUFFICES ASSUME NEW nums \in Count, NEW v \in ListValue, ~RemIsUndefined(l, nums)
                   PROVE  IsRest(ListObjectRem(l, nums, v), l, ToRemove(l, nums, v))
      BY DEF RemRemovesFromThatEnd
    <3>2. nums \in Int
      BY NumberAssumption
    <3>. QED BY <3>1, <3>2, ListObjectRemIs
  <2>4. RangeIsSliceUnlessBeforeFirst(l, Count)
    <3>1. ASSUME NEW start \in Count, NEW end \in Count
          PROVE  LET s == FromStart(l, start)
                     e == FromStart(l, end)
                 IN  s >= 0 => lrange(l, start, end) = IF s < e /\ e <= Len(l) THEN SubSeq(l, s + 1, e) ELSE RangeOut
      <4>1. start \in Int /\ end \in Int
        BY NumberAssumption
      <4>. QED BY <4>1, RangeIs
    <3>. QED BY <3>1 DEF RangeIsSliceUnlessBeforeFirst
  <2>. QED BY <2>2, <2>3, <2>4
<1>. QED BY <1>1, Inductive, PTL

(* The skiplist under any zadd and zrem: levels are sorted sublists, back  *)
(* pointers mirror the forward ones, every span is the number of nodes its *)
(* link passes, and the dictionary has the same members but after rounding *)
(* (skiplist.cpp, ZsetObject in object.cpp).                               *)
THEOREM ZsetsAreSound == Spec => []ZsetSound
<1>1. ASSUME ObjInv PROVE ZsetSound
  <2>1. Is("zset") => ZsetInv(obj)
    BY <1>1, TypeTells
  <2>. QED BY <2>1, ZsetInvIsSound DEF ZsetSound
<1>. QED BY <1>1, Inductive, PTL

(* The commands that read a sorted set (zrank, zcount, zrangebyscore, and  *)
(* the element of a rank): while every score survives its text, what the   *)
(* descents of the skiplist answer is what the dictionary alone would, for *)
(* every rank and every range.                                             *)
THEOREM QueriesAreAnswered == Spec => []ZsetQueries
<1>1. ObjInv => ZsetQueries
  <2> SUFFICES ASSUME ObjInv, Is("zset") PROVE QueriesAgree(obj, Ranges)
    BY DEF ZsetQueries
  <2>1. ZsetInv(obj)
    BY TypeTells
  <2>2. \A r \in Ranges : RangeSpec(r)
    BY RangeAssumption DEF RangeSpec
  <2>. QED BY <2>1, <2>2, QueriesHold
<1>. QED BY <1>1, Inductive, PTL

LEMMA ElementsAfter ==
  ASSUME SetInv(obj')
  PROVE  Elements' = Candidates(obj')
<1>1. obj'.type = "set"
  BY KindsAreApart
<1>. QED BY <1>1 DEF Elements, Is

LEMMA SaddDoesAsTold ==
  ASSUME ObjInv, Trustworthy, NEW v \in SetValue, sadd(v)
  PROVE  AddsAsTold(v)
<1>1. Is("none") \/ Is("set")
  BY DEF sadd
<1>2. PICK o : o = Target("set", NewSet(v))
  OBVIOUS
<1>3. /\ SetInv(o) /\ Candidates(o) = Elements /\ Honest(o) /\ v \in Int
      /\ Candidates(o) # {} => o = obj
  BY <1>1, <1>2, SetTarget, NumberAssumption
<1>4. PICK r : r = SetObjectAdd(o, v)
  OBVIOUS
<1>5. obj' = r.set /\ reply' = Code(SaddReply(o, v))
  BY <1>2, <1>4 DEF sadd
<1>6. /\ SetInv(r.set)
      /\ Candidates(r.set) = Candidates(o) \cup {KeptBy(o, v)}
      /\ r.code = "PY_EXIST" <=> v \in Candidates(o) /\ ~IsIntset(o)
  BY <1>3, <1>4, SetAddIs
<1>7. ~Misstored(v) => KeptBy(o, v) = v
  BY <1>2 DEF Misstored, KeptBy
<1>8. Elements' = Candidates(obj')
  BY <1>5, <1>6, ElementsAfter
<1>9. reply' = Code("exists") <=> r.code = "PY_EXIST"
  BY <1>4, <1>5 DEF SaddReply, Code
<1>10. v \in Candidates(o) /\ ~IsIntset(o) <=> v \in Elements /\ ~IsIntset(obj)
  BY <1>3
<1>. QED BY <1>3, <1>5, <1>6, <1>7, <1>8, <1>9, <1>10 DEF AddsAsTold

LEMMA SremDoesAsTold ==
  ASSUME ObjInv, Trustworthy, NEW v \in SetValue, srem(v)
  PROVE  RemovesAsTold(v)
<1>1. Is("set")
  BY DEF srem, Checked
<1>2. SetInv(obj) /\ Candidates(obj) = Elements /\ Honest(obj) /\ v \in Int
  BY <1>1, SetFacts, NumberAssumption
<1>3. PICK r : r = SetObjectRem(obj, v)
  OBVIOUS
<1>4. obj' = r /\ reply' = Code(IF SetObjectLen(r) < SetObjectLen(obj) THEN "ok" ELSE "not exists")
  BY <1>3 DEF srem
<1>5. /\ SetInv(r) /\ Candidates(r) = Candidates(obj) \ {v}
      /\ SetObjectLen(r) < SetObjectLen(obj) <=> v \in Candidates(obj)
  BY <1>2, <1>3, SetRemIs
<1>6. Elements' = Candidates(obj')
  BY <1>4, <1>5, ElementsAfter
<1>. QED BY <1>2, <1>4, <1>5, <1>6 DEF RemovesAsTold, Code

LEMMA SpopDoesAsTold ==
  ASSUME ObjInv, Trustworthy, spop
  PROVE  PopsAsTold
<1>1. Is("set")
  BY DEF spop, Checked
<1>2. /\ SetInv(obj) /\ Candidates(obj) = Elements /\ Honest(obj) /\ Candidates(obj) \in SUBSET Int
      /\ SetObjectLen(obj) = 0 <=> Candidates(obj) = {}
  BY <1>1, SetFacts, InsideIs
<1>3. CASE SetObjectLen(obj) = 0 /\ UNCHANGED obj
  BY <1>2, <1>3 DEF PopsAsTold
<1>4. CASE \E v \in Candidates(obj) : IF Pops(obj, v) THEN reply' = Element(v) /\ obj' = SetObjectRem(obj, v)
                                      ELSE reply' = Code("unerr") /\ UNCHANGED obj
  <2>1. PICK v \in Candidates(obj) : IF Pops(obj, v) THEN reply' = Element(v) /\ obj' = SetObjectRem(obj, v)
                                     ELSE reply' = Code("unerr") /\ UNCHANGED obj
    BY <1>4
  <2>2. v \in Int /\ v \in Elements
    BY <1>2
  <2>3. PICK r : r = SetObjectRem(obj, v)
    OBVIOUS
  <2>4. /\ SetInv(r) /\ Candidates(r) = Candidates(obj) \ {v}
        /\ SetObjectLen(r) < SetObjectLen(obj)
    BY <1>2, <2>2, <2>3, SetRemIs
  <2>5. reply' = Element(v) /\ obj' = r
    BY <2>1, <2>3, <2>4 DEF Pops
  <2>6. Elements' = Candidates(obj')
    BY <2>4, <2>5, ElementsAfter
  <2>. QED BY <1>2, <2>2, <2>4, <2>5, <2>6 DEF PopsAsTold
<1>. QED BY <1>3, <1>4 DEF spop

(* sadd, srem and spop take a set to the set they mean and report it,      *)
(* through both upgrades of SetObject and intset.  Nothing is claimed of   *)
(* the reply to a duplicate in an intset, which is not the exists that     *)
(* pydis.cpp:727 speaks of, nor of what a negative number becomes in the   *)
(* first encoding.                                                         *)
THEOREM SetsAreSound == Spec => SetsDoAsTold
<1>1. ASSUME ObjInv, [Next]_vars
      PROVE  [Trustworthy =>
                /\ \A v \in SetValue : sadd(v) => AddsAsTold(v)
                /\ \A v \in SetValue : srem(v) => RemovesAsTold(v)
                /\ spop => PopsAsTold]_vars
  BY <1>1, SaddDoesAsTold, SremDoesAsTold, SpopDoesAsTold
<1>. QED BY <1>1, Inductive, PTL DEF Spec, SetsDoAsTold

=============================================================================
