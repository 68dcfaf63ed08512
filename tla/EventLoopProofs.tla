-------------------------- MODULE EventLoopProofs --------------------------
(***************************************************************************)
(* Theorems about module EventLoop, for every number of connections and of *)
(* pieces they send.                                                       *)
(***************************************************************************)
EXTENDS EventLoop, FiniteSetTheorems, FunctionTheorems, SequenceTheorems, TLAPS

-----------------------------------------------------------------------------
(* Numbers and sequences. *)

(* A non-empty set of natural numbers has a least element. *)
LEMMA LeastNat ==
  ASSUME NEW S \in SUBSET Nat, S # {}
  PROVE  \E x \in S : \A y \in S : x <= y
<1> DEFINE T == {1 .. i : i \in S}
<1>1. T \subseteq FiniteSubsetsOf(Nat)
  <2>1. \A i \in S : IsFiniteSet(1 .. i)
    BY FS_Interval
  <2>2. \A i \in S : 1 .. i \in SUBSET Nat
    OBVIOUS
  <2>. QED BY <2>1, <2>2 DEF FiniteSubsetsOf
<1>2. T # {}
  OBVIOUS
<1>3. PICK t \in T : \A u \in T : <<u, t>> \notin StrictSubsetOrdering(Nat)
  <2>. HIDE DEF T
  <2>. QED BY <1>1, <1>2, FS_StrictSubsetOrderingWellFounded, WFMin
<1>4. PICK x \in S : t = 1 .. x
  OBVIOUS
<1>5. ASSUME NEW y \in S, y < x PROVE FALSE
  <2>1. x \in 1 .. x /\ x \notin 1 .. y
    BY <1>5
  <2>2. <<1 .. y, t>> \in StrictSubsetOrdering(Nat)
    BY <1>4, <1>5, <2>1 DEF StrictSubsetOrdering
  <2>. QED BY <1>3, <2>2
<1>. QED BY <1>5

(* A concatenation, element by element. *)
LEMMA ConcatIs ==
  ASSUME NEW S, NEW u \in Seq(S), NEW v \in Seq(S)
  PROVE  /\ u \o v \in Seq(S) /\ Len(u \o v) = Len(u) + Len(v)
         /\ \A i \in 1 .. Len(u) : (u \o v)[i] = u[i]
         /\ \A i \in 1 .. Len(v) : (u \o v)[i + Len(u)] = v[i]
<1>1. /\ u \o v \in Seq(S) /\ Len(u \o v) = Len(u) + Len(v)
      /\ \A i \in 1 .. Len(u) + Len(v) : (u \o v)[i] = IF i <= Len(u) THEN u[i] ELSE v[i - Len(u)]
  BY ConcatProperties
<1>2. PICK a \in Nat : a = Len(u)
  BY LenProperties
<1>3. PICK b \in Nat : b = Len(v)
  BY LenProperties
<1> DEFINE w == u \o v
<1>. HIDE DEF w
<1>4. \A i \in 1 .. a + b : w[i] = IF i <= a THEN u[i] ELSE v[i - a]
  BY <1>1, <1>2, <1>3 DEF w
<1>5. ASSUME NEW i \in 1 .. a PROVE w[i] = u[i]
  BY <1>4
<1>6. ASSUME NEW i \in 1 .. b PROVE w[i + a] = v[i]
  <2>1. PICK j \in 1 .. a + b : j = i + a /\ ~(j <= a) /\ j - a = i
    OBVIOUS
  <2>. QED BY <1>4, <2>1
<1>. QED BY <1>1, <1>2, <1>3, <1>5, <1>6 DEF w

-----------------------------------------------------------------------------
(* Sequences of pieces. *)

(* What is behind the first m pieces begins with a request: where it is.   *)
LEMMA IsRequestAt ==
  ASSUME NEW q \in Seq(Piece), NEW i \in Nat
  PROVE  IsRequest(SubSeq(q, 2 * i + 1, Len(q))) <=> 2 * i + 2 <= Len(q) /\ q[2 * i + 1] = "begin"
<1> DEFINE m == 2 * i + 1
           t == SubSeq(q, m, Len(q))
<1>1. Len(q) \in Nat /\ m \in Int /\ Len(q) \in Int
  BY LenProperties
<1>2. \A j \in m .. Len(q) : q[j] \in Piece
  BY <1>1, ElementOfSeq
<1>3. /\ Len(t) = IF m <= Len(q) THEN Len(q) - m + 1 ELSE 0
      /\ \A j \in 1 .. Len(q) - m + 1 : t[j] = q[m + j - 1]
  <2>. HIDE DEF m
  <2>. QED BY <1>1, <1>2, SubSeqProperties
<1>4. Len(t) >= 2 <=> 2 * i + 2 <= Len(q)
  BY <1>1, <1>3
<1>5. ASSUME 2 * i + 2 <= Len(q) PROVE t[1] = q[m]
  <2>1. 1 \in 1 .. Len(q) - m + 1
    BY <1>1, <1>5
  <2>2. t[1] = q[m + 1 - 1]
    BY <1>3, <2>1
  <2>3. m + 1 - 1 = m
    BY <1>1
  <2>. QED BY <2>2, <2>3
<1>. HIDE DEF t
<1>. QED BY <1>4, <1>5 DEF IsRequest, t

(* processInputBuff stops somewhere: what it has taken are requests, and   *)
(* what is left does not begin with one.                                   *)
LEMMA TakenIs ==
  ASSUME NEW q \in Seq(Piece)
  PROVE  /\ Taken(q) \in Nat /\ 2 * Taken(q) <= Len(q)
         /\ \A i \in 0 .. Taken(q) - 1 : q[2 * i + 1] = "begin"
         /\ 2 * Taken(q) + 2 > Len(q) \/ q[2 * Taken(q) + 1] # "begin"
<1> DEFINE Req(i) == IsRequest(SubSeq(q, 2 * i + 1, Len(q)))
           Stops  == {i \in Nat : ~Req(i)}
           P(n)   == (\A i \in 0 .. n - 1 : Req(i)) /\ ~Req(n)
<1>1. Len(q) \in Nat
  BY LenProperties
<1>2. \A i \in Nat : Req(i) <=> 2 * i + 2 <= Len(q) /\ q[2 * i + 1] = "begin"
  BY IsRequestAt
<1>. HIDE DEF Req
<1>3. Len(q) \in Stops
  BY <1>1, <1>2
<1>4. PICK n \in Stops : \A i \in Stops : n <= i
  BY <1>3, LeastNat
<1>5. \A i \in 0 .. n - 1 : Req(i)
  BY <1>4
<1>6. n \in 0 .. Len(q) \div 2
  <2>1. CASE n = 0
    BY <2>1, <1>1
  <2>2. CASE n > 0
    <3>1. Req(n - 1)
      BY <2>2, <1>5
    <3>2. 2 * (n - 1) + 2 <= Len(q)
      BY <3>1, <1>2, <2>2
    <3>. QED BY <1>1, <3>2
  <2>. QED BY <2>1, <2>2
<1>7. \E k \in 0 .. Len(q) \div 2 : P(k)
  BY <1>5, <1>6
<1>8. Taken(q) = CHOOSE k \in 0 .. Len(q) \div 2 : P(k)
  BY DEF Taken, Req
<1>9. Taken(q) \in 0 .. Len(q) \div 2 /\ P(Taken(q))
  <2>. HIDE DEF P
  <2>. QED BY <1>7, <1>8
<1>10. Taken(q) \in Nat /\ 2 * Taken(q) <= Len(q)
  BY <1>1, <1>9
<1>. QED BY <1>2, <1>9, <1>10

(* What is behind the first m pieces. *)
LEMMA BehindIs ==
  ASSUME NEW q \in Seq(Piece), NEW m \in Nat, m <= Len(q)
  PROVE  LET t == SubSeq(q, m + 1, Len(q))
         IN  /\ t \in Seq(Piece) /\ Len(t) = Len(q) - m
             /\ \A i \in 1 .. Len(q) - m : t[i] = q[i + m]
             /\ t = <<>> <=> m = Len(q)
<1>1. PICK l \in Nat : l = Len(q)
  BY LenProperties
<1>2. PICK a \in Nat : a = m + 1
  OBVIOUS
<1>3. \A j \in a .. l : q[j] \in Piece
  BY <1>1, <1>2, ElementOfSeq
<1> DEFINE t == SubSeq(q, a, l)
<1>4. /\ t \in Seq(Piece)
      /\ Len(t) = IF a <= l THEN l - a + 1 ELSE 0
      /\ \A i \in 1 .. l - a + 1 : t[i] = q[a + i - 1]
  BY <1>3, SubSeqProperties
<1>5. t = SubSeq(q, m + 1, Len(q))
  BY <1>1, <1>2
<1>. HIDE DEF t
<1>6. Len(t) = l - m
  BY <1>1, <1>2, <1>4
<1>7. ASSUME NEW i \in 1 .. l - m PROVE t[i] = q[i + m]
  <2>1. i \in 1 .. l - a + 1 /\ a + i - 1 = i + m
    BY <1>2
  <2>. QED BY <1>4, <2>1
<1>8. t = <<>> <=> m = l
  BY <1>1, <1>4, <1>6, EmptySeq
<1>. QED BY <1>1, <1>4, <1>5, <1>6, <1>7, <1>8

(* What a reading leaves in the parser is what is behind the requests it   *)
(* has taken, and behind the empty request that has stopped it.            *)
LEMMA RestIs ==
  ASSUME NEW q \in Seq(Piece)
  PROVE  \E d \in 0 .. Len(q) :
           /\ d = 2 * Taken(q) \/ (d = 2 * Taken(q) + 1 /\ q[d] = "empty")
           /\ d = 2 * Taken(q) => (d = Len(q) \/ q[d + 1] # "empty")
           /\ Rest(q) \in Seq(Piece) /\ Len(Rest(q)) = Len(q) - d
           /\ \A i \in 1 .. Len(q) - d : Rest(q)[i] = q[i + d]
<1>1. PICK l \in Nat : l = Len(q)
  BY LenProperties
<1>2. PICK m \in Nat : m = 2 * Taken(q) /\ m <= l
  BY <1>1, TakenIs
<1> DEFINE t == SubSeq(q, 2 * Taken(q) + 1, Len(q))
<1>3. /\ t \in Seq(Piece) /\ Len(t) = l - m
      /\ \A i \in 1 .. l - m : t[i] = q[i + m]
      /\ t = <<>> <=> m = l
  <2>1. t = SubSeq(q, m + 1, Len(q))
    BY <1>2
  <2>. HIDE DEF t
  <2>. QED BY <1>1, <1>2, <2>1, BehindIs
<1>4. Rest(q) = IF t # <<>> /\ t[1] = "empty" THEN Tail(t) ELSE t
  BY DEF Rest
<1>. HIDE DEF t
<1>5. m < l => t[1] = q[m + 1]
  BY <1>3
<1>6. CASE t # <<>> /\ t[1] = "empty"
  <2>1. PICK d \in 0 .. l : d = m + 1
    BY <1>3, <1>6
  <2>2. q[d] = "empty"
    BY <2>1, <1>3, <1>5, <1>6
  <2>3. /\ Tail(t) \in Seq(Piece) /\ Len(Tail(t)) = Len(t) - 1
        /\ \A i \in 1 .. Len(Tail(t)) : Tail(t)[i] = t[i + 1]
    BY <1>3, <1>6, HeadTailProperties
  <2>4. Rest(q) = Tail(t) /\ Len(Rest(q)) = l - d
    BY <1>3, <1>4, <1>6, <2>1, <2>3
  <2>5. ASSUME NEW i \in 1 .. l - d PROVE Rest(q)[i] = q[i + d]
    <3>1. PICK j \in 1 .. l - m : j = i + 1 /\ j + m = i + d
      BY <2>1
    <3>2. i \in 1 .. Len(Tail(t))
      BY <2>4
    <3>3. Tail(t)[i] = t[j]
      BY <2>3, <3>1, <3>2
    <3>4. t[j] = q[j + m]
      BY <1>3
    <3>5. Tail(t)[i] = Rest(q)[i] /\ q[j + m] = q[i + d]
      BY <2>4, <3>1
    <3>. QED BY <3>3, <3>4, <3>5
  <2>6. Rest(q) \in Seq(Piece)
    BY <2>3, <2>4
  <2>7. d = 2 * Taken(q) + 1 /\ d # 2 * Taken(q)
    BY <1>2, <2>1
  <2>. QED BY <1>1, <2>2, <2>4, <2>5, <2>6, <2>7
<1>7. CASE ~(t # <<>> /\ t[1] = "empty")
  <2>1. PICK d \in 0 .. l : d = m
    BY <1>2
  <2>2. Rest(q) = t
    BY <1>4, <1>7
  <2>3. d = l \/ q[d + 1] # "empty"
    BY <2>1, <1>3, <1>5, <1>7
  <2>. QED BY <1>1, <1>2, <1>3, <2>1, <2>2, <2>3
<1>. QED BY <1>6, <1>7

(* The requests that end between two places. *)
EndsIn(q, a, b) == {i \in a .. b : q[i] = "end"}

LEMMA EndsInFinite ==
  ASSUME NEW q, NEW a \in Int, NEW b \in Int
  PROVE  IsFiniteSet(EndsIn(q, a, b)) /\ Cardinality(EndsIn(q, a, b)) \in Nat
<1>1. IsFiniteSet(a .. b)
  BY FS_Interval
<1>2. IsFiniteSet(EndsIn(q, a, b))
  BY <1>1, FS_Subset DEF EndsIn
<1>. QED BY <1>2, FS_CardinalityType

LEMMA EndsIsEndsIn ==
  ASSUME NEW q \in Seq(Piece)
  PROVE  Ends(q) = Cardinality(EndsIn(q, 1, Len(q))) /\ Ends(q) \in Nat
<1>1. DOMAIN q = 1 .. Len(q) /\ Len(q) \in Nat
  BY LenProperties
<1>2. Cardinality(EndsIn(q, 1, Len(q))) \in Nat
  BY <1>1, EndsInFinite
<1>. QED BY <1>1, <1>2 DEF Ends, EndsIn

LEMMA EndsInShift ==
  ASSUME NEW q, NEW r, NEW d \in Nat, NEW k \in Nat,
         \A i \in 1 .. k : r[i] = q[i + d]
  PROVE  Cardinality(EndsIn(r, 1, k)) = Cardinality(EndsIn(q, d + 1, d + k))
<1> DEFINE S == EndsIn(r, 1, k)
           T == EndsIn(q, d + 1, d + k)
           f == [i \in S |-> i + d]
<1>1. f \in [S -> T]
  BY DEF EndsIn
<1>2. \A i, j \in S : f[i] = f[j] => i = j
  BY DEF EndsIn
<1>3. ASSUME NEW j \in T PROVE \E i \in S : f[i] = j
  <2>1. PICK i \in 1 .. k : j = i + d
    <3>1. j \in d + 1 .. d + k
      BY DEF EndsIn
    <3>2. j - d \in 1 .. k /\ (j - d) + d = j
      BY <3>1
    <3>. QED BY <3>2
  <2>2. r[i] = "end"
    BY <2>1 DEF EndsIn
  <2>3. i \in S
    BY <2>2 DEF EndsIn
  <2>. QED BY <2>1, <2>3
<1>4. f \in Bijection(S, T)
  <2>. HIDE DEF f, S, T
  <2>. QED BY <1>1, <1>2, <1>3, Fun_IsBij
<1>5. IsFiniteSet(S)
  BY EndsInFinite
<1>. HIDE DEF f, S, T
<1>6. Cardinality(T) = Cardinality(S)
  BY <1>4, <1>5, FS_Bijection DEF ExistsBijection
<1>. QED BY <1>6 DEF S, T

LEMMA EndsInSplit ==
  ASSUME NEW q, NEW a \in Nat, NEW b \in Nat, a <= b
  PROVE  Cardinality(EndsIn(q, 1, b)) =
           Cardinality(EndsIn(q, 1, a)) + Cardinality(EndsIn(q, a + 1, b))
<1> DEFINE A == EndsIn(q, 1, a)
           B == EndsIn(q, a + 1, b)
<1>1. EndsIn(q, 1, b) = A \cup B /\ A \cap B = {}
  <2>1. 1 .. b = (1 .. a) \cup (a + 1 .. b) /\ (1 .. a) \cap (a + 1 .. b) = {}
    OBVIOUS
  <2>. QED BY <2>1, Zenon DEF EndsIn
<1>2. IsFiniteSet(A) /\ Cardinality(A) \in Nat
  BY EndsInFinite
<1>3. IsFiniteSet(B) /\ Cardinality(B) \in Nat
  BY EndsInFinite
<1>. HIDE DEF A, B
<1>4. Cardinality(A \cup B) = Cardinality(A) + Cardinality(B) - Cardinality(A \cap B)
  BY <1>2, <1>3, FS_Union
<1>5. Cardinality(A \cap B) = 0
  BY <1>1, FS_EmptySet
<1>6. Cardinality(A \cup B) = Cardinality(A) + Cardinality(B)
  BY <1>2, <1>3, <1>4, <1>5
<1>. QED BY <1>1, <1>6 DEF A, B

LEMMA EndsConcat ==
  ASSUME NEW u \in Seq(Piece), NEW v \in Seq(Piece)
  PROVE  Ends(u \o v) = Ends(u) + Ends(v)
<1>1. PICK a \in Nat : a = Len(u)
  BY LenProperties
<1>2. PICK b \in Nat : b = Len(v)
  BY LenProperties
<1> DEFINE w == u \o v
<1>3. w \in Seq(Piece) /\ Len(w) = a + b
  BY <1>1, <1>2, ConcatIs
<1>4. \A i \in 1 .. a : w[i] = u[i]
  BY <1>1, ConcatIs
<1>5. \A i \in 1 .. b : v[i] = w[i + a]
  BY <1>1, <1>2, ConcatIs
<1>. HIDE DEF w
<1>6. Ends(w) = Cardinality(EndsIn(w, 1, a + b))
  BY <1>3, EndsIsEndsIn
<1>7. Cardinality(EndsIn(w, 1, a + b)) = Cardinality(EndsIn(w, 1, a)) + Cardinality(EndsIn(w, a + 1, a + b))
  <2>1. a + b \in Nat /\ a <= a + b
    OBVIOUS
  <2>. QED BY <2>1, EndsInSplit
<1>8. EndsIn(w, 1, a) = EndsIn(u, 1, a)
  BY <1>4 DEF EndsIn
<1>9. Cardinality(EndsIn(v, 1, b)) = Cardinality(EndsIn(w, a + 1, a + b))
  BY <1>5, EndsInShift
<1>10. Ends(u) = Cardinality(EndsIn(u, 1, a)) /\ Ends(v) = Cardinality(EndsIn(v, 1, b))
  BY <1>1, <1>2, EndsIsEndsIn
<1>. QED BY <1>6, <1>7, <1>8, <1>9, <1>10 DEF w

LEMMA EndsSingle ==
  ASSUME NEW p \in Piece
  PROVE  <<p>> \in Seq(Piece) /\ Ends(<<p>>) = IF p = "end" THEN 1 ELSE 0
<1>1. <<p>> \in Seq(Piece) /\ DOMAIN <<p>> = {1} /\ <<p>>[1] = p
  OBVIOUS
<1>2. {i \in DOMAIN <<p>> : <<p>>[i] = "end"} = IF p = "end" THEN {1} ELSE {}
  BY <1>1
<1>. QED BY <1>1, <1>2, FS_EmptySet, FS_Singleton DEF Ends

(* Requests are told apart: "end" follows "begin" and nothing else does.   *)
WellSent(q) == \A i \in 1 .. Len(q) : q[i] = "end" <=> (i > 1 /\ q[i - 1] = "begin")

(* A piece that continues what has been sent. *)
LEMMA WellSentAppend ==
  ASSUME NEW q \in Seq(Piece), NEW p \in Piece, WellSent(q),
         p = "end" <=> (Len(q) > 0 /\ q[Len(q)] = "begin")
  PROVE  WellSent(Append(q, p))
<1>1. PICK l \in Nat : l = Len(q)
  BY LenProperties
<1> DEFINE w == Append(q, p)
<1>2. Len(w) = l + 1 /\ w[l + 1] = p /\ \A i \in 1 .. l : w[i] = q[i]
  BY <1>1, AppendProperties
<1>. HIDE DEF w
<1>3. ASSUME NEW i \in 1 .. l + 1 PROVE w[i] = "end" <=> (i > 1 /\ w[i - 1] = "begin")
  <2>1. CASE i = l + 1
    <3>1. w[i] = p
      BY <1>2, <2>1
    <3>2. i > 1 <=> l > 0
      BY <2>1
    <3>3. ASSUME l > 0 PROVE w[i - 1] = q[l]
      <4>1. l \in 1 .. l /\ i - 1 = l
        BY <2>1, <3>3
      <4>. QED BY <1>2, <4>1
    <3>. QED BY <1>1, <3>1, <3>2, <3>3
  <2>2. CASE i # l + 1
    <3>1. i \in 1 .. l /\ (i > 1 => i - 1 \in 1 .. l)
      BY <2>2
    <3>2. w[i] = q[i] /\ (i > 1 => w[i - 1] = q[i - 1])
      BY <1>2, <3>1
    <3>3. q[i] = "end" <=> (i > 1 /\ q[i - 1] = "begin")
      BY <1>1, <3>1 DEF WellSent
    <3>. QED BY <3>2, <3>3
  <2>. QED BY <2>1, <2>2
<1>4. Len(w) = l + 1
  BY <1>2
<1>. QED BY <1>3, <1>4 DEF WellSent, w

(* What the parser takes and what it leaves, of pieces that are well sent: *)
(* as many ends as requests taken, and pieces that are well sent again.    *)
LEMMA TakenAndLeft ==
  ASSUME NEW q \in Seq(Piece), WellSent(q)
  PROVE  /\ Rest(q) \in Seq(Piece) /\ WellSent(Rest(q))
         /\ Ends(q) = Taken(q) + Ends(Rest(q))
         /\ Len(Rest(q)) <= Len(q)
         /\ Rest(q) # <<>> => Rest(q)[Len(Rest(q))] = q[Len(q)]
         /\ Rest(q) = <<>> => (Len(q) = 0 \/ q[Len(q)] # "begin")
         /\ Rest(q) = <<>> => (Len(q) = 2 * Taken(q) \/ \E i \in 1 .. Len(q) : q[i] = "empty")
         /\ \/ Rest(q) \in {<<>>, <<"begin">>}
            \/ \E i \in 1 .. Len(q) : q[i] = "empty"
<1>1. PICK l \in Nat : l = Len(q)
  BY LenProperties
<1>2. PICK n \in Nat : n = Taken(q) /\ 2 * n <= l
  BY <1>1, TakenIs
<1>3. (\A i \in 0 .. n - 1 : q[2 * i + 1] = "begin") /\ (2 * n + 2 > l \/ q[2 * n + 1] # "begin")
  BY <1>1, <1>2, TakenIs
<1>4. PICK d \in 0 .. l :
           /\ d = 2 * n \/ (d = 2 * n + 1 /\ q[d] = "empty")
           /\ d = 2 * n => (d = l \/ q[d + 1] # "empty")
           /\ Rest(q) \in Seq(Piece) /\ Len(Rest(q)) = l - d
           /\ \A i \in 1 .. l - d : Rest(q)[i] = q[i + d]
  BY <1>1, <1>2, RestIs
<1> DEFINE r == Rest(q)
<1>. HIDE DEF r
<1>5. \A i \in 1 .. l : q[i] \in Piece /\ (q[i] = "end" <=> (i > 1 /\ q[i - 1] = "begin"))
  BY <1>1, ElementOfSeq DEF WellSent
<1>6. ASSUME NEW j \in 1 .. n PROVE q[2 * j] = "end" /\ 2 * j \in 1 .. d
  <2>1. PICK k \in 1 .. l : k = 2 * j /\ k > 1 /\ k <= d
    BY <1>2, <1>4
  <2>2. PICK i \in 0 .. n - 1 : i = j - 1 /\ 2 * i + 1 = k - 1
    BY <2>1
  <2>3. q[k - 1] = "begin"
    BY <1>3, <2>2
  <2>. QED BY <1>5, <2>1, <2>3
<1>7. ASSUME NEW k \in 1 .. d, q[k] = "end" PROVE \E j \in 1 .. n : k = 2 * j
  <2>1. PICK i \in Nat : k = 2 * i \/ k = 2 * i + 1
    <3>1. k \div 2 \in Nat /\ (k = 2 * (k \div 2) \/ k = 2 * (k \div 2) + 1)
      OBVIOUS
    <3>. QED BY <3>1
  <2>2. CASE k = 2 * i
    BY <1>4, <2>2
  <2>3. CASE k = 2 * i + 1 /\ i < n
    BY <1>3, <1>7, <2>3
  <2>4. CASE k = 2 * i + 1 /\ i >= n
    <3>1. k = d /\ d = 2 * n + 1
      BY <1>4, <2>4
    <3>. QED BY <1>4, <1>7, <3>1
  <2>. QED BY <2>1, <2>2, <2>3, <2>4
<1>8. Cardinality(EndsIn(q, 1, d)) = n
  <2> DEFINE S == EndsIn(q, 1, d)
             f == [j \in 1 .. n |-> 2 * j]
  <2>1. f \in [1 .. n -> S]
    BY <1>6 DEF EndsIn
  <2>2. \A i, j \in 1 .. n : f[i] = f[j] => i = j
    OBVIOUS
  <2>3. \A k \in S : \E j \in 1 .. n : f[j] = k
    BY <1>7 DEF EndsIn
  <2>4. f \in Bijection(1 .. n, S)
    <3>. HIDE DEF f, S
    <3>. QED BY <2>1, <2>2, <2>3, Fun_IsBij
  <2>5. IsFiniteSet(1 .. n) /\ Cardinality(1 .. n) = n
    BY FS_Interval
  <2>. HIDE DEF f, S
  <2>6. Cardinality(S) = Cardinality(1 .. n)
    BY <2>4, <2>5, FS_Bijection DEF ExistsBijection
  <2>. QED BY <2>5, <2>6 DEF S
<1>9. Ends(q) = n + Ends(r)
  <2>1. PICK k \in Nat : k = l - d /\ d + k = l
    OBVIOUS
  <2>2. Cardinality(EndsIn(q, 1, l)) = Cardinality(EndsIn(q, 1, d)) + Cardinality(EndsIn(q, d + 1, l))
    <3>1. d \in Nat /\ d <= l
      OBVIOUS
    <3>. QED BY <3>1, EndsInSplit
  <2>3. Cardinality(EndsIn(r, 1, k)) = Cardinality(EndsIn(q, d + 1, l))
    <3>1. \A i \in 1 .. k : r[i] = q[i + d]
      BY <1>4, <2>1 DEF r
    <3>2. d \in Nat
      OBVIOUS
    <3>. QED BY <2>1, <3>1, <3>2, EndsInShift
  <2>4. Ends(q) = Cardinality(EndsIn(q, 1, l))
    BY <1>1, EndsIsEndsIn
  <2>5. Ends(r) = Cardinality(EndsIn(r, 1, k))
    BY <1>4, <2>1, EndsIsEndsIn DEF r
  <2>. QED BY <1>8, <2>2, <2>3, <2>4, <2>5
<1>10. r \in Seq(Piece) /\ Len(r) = l - d /\ \A i \in 1 .. l - d : r[i] = q[i + d]
  BY <1>4 DEF r
<1>11. d > 0 => q[d] # "begin"
  <2>1. CASE d = 2 * n /\ d > 0
    <3>1. n \in 1 .. n
      BY <2>1
    <3>. QED BY <1>6, <2>1, <3>1
  <2>2. CASE q[d] = "empty"
    BY <2>2
  <2>. QED BY <1>4, <2>1, <2>2
<1>12. WellSent(r)
  <2>1. ASSUME NEW i \in 1 .. l - d PROVE r[i] = "end" <=> (i > 1 /\ r[i - 1] = "begin")
    <3>1. PICK k \in 1 .. l : k = i + d
      OBVIOUS
    <3>2. r[i] = q[k] /\ (q[k] = "end" <=> (k > 1 /\ q[k - 1] = "begin"))
      BY <1>5, <1>10, <3>1
    <3>3. CASE i > 1
      <4>1. i - 1 \in 1 .. l - d /\ (i - 1) + d = k - 1
        BY <3>1, <3>3
      <4>2. r[i - 1] = q[(i - 1) + d]
        BY <1>10, <4>1
      <4>. QED BY <3>1, <3>2, <3>3, <4>1, <4>2
    <3>4. CASE i = 1
      BY <1>11, <3>1, <3>2, <3>4
    <3>. QED BY <3>3, <3>4
  <2>. QED BY <1>10, <2>1 DEF WellSent
<1>13. r = <<>> <=> d = l
  BY <1>10, EmptySeq
<1>14. r # <<>> => r[Len(r)] = q[l]
  <2>1. SUFFICES ASSUME d < l PROVE r[l - d] = q[l]
    BY <1>10, <1>13
  <2>2. l - d \in 1 .. l - d /\ (l - d) + d = l
    BY <2>1
  <2>. QED BY <1>10, <2>2
<1>15. r = <<>> => (l = 0 \/ q[l] # "begin")
  BY <1>11, <1>13
<1>16. r = <<>> => (l = 2 * n \/ \E i \in 1 .. l : q[i] = "empty")
  <2>1. ASSUME d = 2 * n + 1, q[d] = "empty" PROVE d \in 1 .. l
    BY <2>1
  <2>. QED BY <1>4, <1>13, <2>1
<1>17. r \in {<<>>, <<"begin">>} \/ \E i \in 1 .. l : q[i] = "empty"
  <2>1. CASE d = 2 * n + 1 /\ q[d] = "empty"
    <3>1. d \in 1 .. l
      BY <2>1
    <3>. QED BY <2>1, <3>1
  <2>2. CASE d = 2 * n /\ d = l
    BY <1>13, <2>2
  <2>3. CASE d = 2 * n /\ d < l
    <3>1. PICK k \in 1 .. l : k = d + 1
      BY <2>3
    <3>2. q[k] # "empty"
      BY <1>4, <2>3, <3>1
    <3>3. q[k] # "end"
      <4>1. k - 1 = d /\ (k > 1 <=> d > 0)
        BY <3>1
      <4>. QED BY <1>5, <1>11, <4>1
    <3>4. q[k] = "begin"
      BY <1>5, <3>2, <3>3 DEF Piece
    <3>5. l = d + 1
      BY <1>3, <2>3, <3>1, <3>4
    <3>6. Len(r) = 1 /\ r[1] = "begin"
      <4>1. 1 \in 1 .. l - d /\ 1 + d = k /\ l - d = 1
        BY <3>1, <3>5
      <4>2. r[1] = q[1 + d]
        BY <1>10, <4>1
      <4>. QED BY <1>10, <3>4, <4>1, <4>2
    <3>7. r = <<"begin">>
      BY <1>10, <3>6
    <3>. QED BY <3>7
  <2>. QED BY <1>4, <2>1, <2>2, <2>3
<1>18. Len(r) <= l
  BY <1>10
<1>. QED BY <1>1, <1>2, <1>9, <1>10, <1>12, <1>14, <1>15, <1>16, <1>17, <1>18 DEF r

-----------------------------------------------------------------------------
(* One connection.                                                         *)

Connection == [state : {"new", "backlog", "open", "fin", "rst", "closed"},
               fd : Fd \cup {NoFd}, wire : Seq(Piece), pieces : 0 .. MaxPieces,
               asked : Nat, parser : Seq(Piece), reply : Nat, answered : Nat]

(* What a peer has sent and the loop has not taken, whether it ends in the *)
(* middle of a request, and how many empty requests the peer has sent.     *)
Sent(k)    == k.parser \o k.wire
Mid(k)     == Sent(k) # <<>> /\ Last(Sent(k)) = "begin"
Empties(k) == k.pieces - 2 * k.asked - (IF Mid(k) THEN 1 ELSE 0)

(* A parser that was never fed an empty request holds half a request at    *)
(* most.                                                                   *)
Stream(k) ==
  /\ WellSent(Sent(k))
  /\ Empties(k) >= 0
  /\ Empties(k) = 0 => /\ k.parser \in {<<>>, <<"begin">>}
                       /\ \A i \in 1 .. Len(k.wire) : k.wire[i] # "empty"

Balanced(k) ==
  k.state # "closed" => k.asked = Ends(k.wire) + Ends(k.parser) + k.reply + k.answered

LEMMA SentType ==
  ASSUME NEW k \in Connection
  PROVE  /\ Sent(k) \in Seq(Piece) /\ Len(Sent(k)) = Len(k.parser) + Len(k.wire)
         /\ k.parser \in Seq(Piece) /\ k.wire \in Seq(Piece)
         /\ Empties(k) \in Int
         /\ Mid(k) <=> (Len(Sent(k)) > 0 /\ Sent(k)[Len(Sent(k))] = "begin")
<1>1. k.parser \in Seq(Piece) /\ k.wire \in Seq(Piece) /\ k.pieces \in Nat /\ k.asked \in Nat
  BY BoundAssumption DEF Connection
<1>2. Sent(k) \in Seq(Piece) /\ Len(Sent(k)) = Len(k.parser) + Len(k.wire)
  BY <1>1, ConcatIs DEF Sent
<1>3. Empties(k) \in Int
  <2>1. k.pieces - 2 * k.asked \in Int
    BY <1>1
  <2>. QED BY <2>1 DEF Empties
<1>4. Sent(k) # <<>> <=> Len(Sent(k)) > 0
  <2> DEFINE q == Sent(k)
  <2>1. q \in Seq(Piece)
    BY <1>2
  <2>. HIDE DEF q
  <2>2. Len(q) \in Nat
    BY <2>1, LenProperties
  <2>3. q = <<>> <=> Len(q) = 0
    BY <2>1, EmptySeq
  <2>4. q # <<>> <=> Len(q) > 0
    BY <2>2, <2>3
  <2>. QED BY <2>4 DEF q
<1>. QED BY <1>1, <1>2, <1>3, <1>4 DEF Mid, Last

(* The peer sends a piece. *)
LEMMA StreamSend ==
  ASSUME NEW k \in Connection, NEW k2 \in Connection, NEW p \in Piece,
         p = "end" <=> Mid(k),
         k2.wire = Append(k.wire, p), k2.parser = k.parser, k2.pieces = k.pieces + 1,
         k2.asked = IF p = "end" THEN k.asked + 1 ELSE k.asked
  PROVE  Empties(k2) >= Empties(k) /\ (Stream(k) => Stream(k2))
<1>1. /\ Sent(k) \in Seq(Piece) /\ k.parser \in Seq(Piece) /\ k.wire \in Seq(Piece)
      /\ Empties(k) \in Int
      /\ Mid(k) <=> (Len(Sent(k)) > 0 /\ Sent(k)[Len(Sent(k))] = "begin")
  BY SentType
<1>2. Sent(k2) = Append(Sent(k), p)
  <2>1. Append(k.wire, p) = k.wire \o <<p>> /\ Append(k.parser \o k.wire, p) = (k.parser \o k.wire) \o <<p>>
    BY <1>1, AppendIsConcat DEF Sent
  <2>2. PICK e \in Seq(Piece) : e = <<p>>
    BY EndsSingle
  <2>3. (k.parser \o k.wire) \o e = k.parser \o (k.wire \o e)
    <3>1. \A u, v, w \in Seq(Piece) : (u \o v) \o w = u \o (v \o w)
      BY ConcatAssociative
    <3>. QED BY <1>1, <3>1, Zenon
  <2>. QED BY <2>1, <2>2, <2>3 DEF Sent
<1>3. PICK l \in Nat : l = Len(Sent(k))
  BY <1>1, LenProperties
<1>4. Len(Sent(k2)) = l + 1 /\ Sent(k2)[l + 1] = p
  BY <1>1, <1>2, <1>3, AppendProperties
<1>5. Mid(k2) <=> p = "begin"
  <2>1. Mid(k2) <=> (Len(Sent(k2)) > 0 /\ Sent(k2)[Len(Sent(k2))] = "begin")
    BY SentType
  <2>. QED BY <1>4, <2>1
<1>6. k.pieces \in Nat /\ k.asked \in Nat
  BY BoundAssumption DEF Connection
<1>7. Empties(k2) = IF p = "empty" THEN Empties(k) + 1 ELSE Empties(k)
  <2>1. CASE p = "end"
    <3>1. Mid(k) /\ ~Mid(k2)
      BY <1>5, <2>1
    <3>2. \A m, n \in Nat : (m + 1) - 2 * (n + 1) - 0 = m - 2 * n - 1
      OBVIOUS
    <3>3. (k.pieces + 1) - 2 * (k.asked + 1) - 0 = k.pieces - 2 * k.asked - 1
      BY <1>6, <3>2, Zenon
    <3>. QED BY <2>1, <3>1, <3>3 DEF Empties
  <2>2. CASE p = "begin"
    <3>1. ~Mid(k) /\ Mid(k2)
      BY <1>5, <2>2
    <3>2. (k.pieces + 1) - 2 * k.asked - 1 = k.pieces - 2 * k.asked - 0
      BY <1>6
    <3>. QED BY <2>2, <3>1, <3>2 DEF Empties
  <2>3. CASE p = "empty"
    <3>1. ~Mid(k) /\ ~Mid(k2)
      BY <1>5, <2>3
    <3>2. (k.pieces + 1) - 2 * k.asked - 0 = (k.pieces - 2 * k.asked - 0) + 1
      BY <1>6
    <3>. QED BY <2>3, <3>1, <3>2 DEF Empties
  <2>. QED BY <2>1, <2>2, <2>3 DEF Piece
<1>8. Empties(k2) >= Empties(k)
  BY <1>1, <1>7
<1>9. ASSUME Stream(k) PROVE Stream(k2)
  <2>1. WellSent(Sent(k2))
    <3>1. WellSent(Sent(k))
      BY <1>9 DEF Stream
    <3>2. p = "end" <=> (Len(Sent(k)) > 0 /\ Sent(k)[Len(Sent(k))] = "begin")
      BY <1>1
    <3>. QED BY <1>1, <1>2, <3>1, <3>2, WellSentAppend
  <2>2. Empties(k2) >= 0
    BY <1>1, <1>8, <1>7, <1>9 DEF Stream
  <2>3. ASSUME Empties(k2) = 0
        PROVE  k2.parser \in {<<>>, <<"begin">>} /\ \A i \in 1 .. Len(k2.wire) : k2.wire[i] # "empty"
    <3>1. Empties(k) = 0 /\ p # "empty"
      BY <1>1, <1>7, <1>9, <2>3 DEF Stream
    <3>2. k.parser \in {<<>>, <<"begin">>} /\ \A i \in 1 .. Len(k.wire) : k.wire[i] # "empty"
      BY <1>9, <3>1 DEF Stream
    <3>3. PICK m \in Nat : m = Len(k.wire)
      BY <1>1, LenProperties
    <3>4. Len(k2.wire) = m + 1 /\ k2.wire[m + 1] = p /\ \A i \in 1 .. m : k2.wire[i] = k.wire[i]
      BY <1>1, <3>3, AppendProperties
    <3>5. ASSUME NEW i \in 1 .. m + 1 PROVE k2.wire[i] # "empty"
      <4>1. CASE i = m + 1
        BY <3>1, <3>4, <4>1
      <4>2. CASE i # m + 1
        <5>1. i \in 1 .. m
          BY <4>2
        <5>. QED BY <3>2, <3>3, <3>4, <5>1
      <4>. QED BY <4>1, <4>2
    <3>. QED BY <3>2, <3>4, <3>5
  <2>. QED BY <2>1, <2>2, <2>3 DEF Stream
<1>. QED BY <1>8, <1>9

(* The balance of a peer's requests, when it sends a piece. *)
LEMMA BalancedSend ==
  ASSUME NEW k \in Connection, NEW k2 \in Connection, NEW p \in Piece, Balanced(k),
         k2.wire = Append(k.wire, p), k2.parser = k.parser,
         k2.asked = IF p = "end" THEN k.asked + 1 ELSE k.asked,
         k2.reply = k.reply, k2.answered = k.answered, k2.state = k.state
  PROVE  Balanced(k2)
<1>1. k.wire \in Seq(Piece) /\ k.parser \in Seq(Piece) /\ k.reply \in Nat /\ k.answered \in Nat /\ k.asked \in Nat
  BY DEF Connection
<1>2. k2.wire = k.wire \o <<p>>
  BY <1>1, AppendIsConcat
<1>3. <<p>> \in Seq(Piece) /\ Ends(<<p>>) = IF p = "end" THEN 1 ELSE 0
  BY EndsSingle
<1>4. Ends(k2.wire) = Ends(k.wire) + Ends(<<p>>)
  BY <1>1, <1>2, <1>3, EndsConcat
<1>5. Ends(k.wire) \in Nat /\ Ends(k.parser) \in Nat
  BY <1>1, EndsIsEndsIn
<1>6. Ends(k2.parser) = Ends(k.parser)
  OBVIOUS
<1>. QED BY <1>1, <1>3, <1>4, <1>5, <1>6 DEF Balanced

LEMMA PiecesConcat ==
  \A u, v \in Seq(Piece) :
    /\ \A i \in 1 .. Len(u) : (u \o v)[i] = u[i]
    /\ \A i \in 1 .. Len(v) : (u \o v)[i + Len(u)] = v[i]
BY ConcatIs

(* The loop reads all there is and takes what it can. *)
LEMMA StreamRead ==
  ASSUME NEW k \in Connection, NEW k2 \in Connection, Stream(k),
         k2.wire = <<>>, k2.parser = Rest(Sent(k)), k2.pieces = k.pieces, k2.asked = k.asked
  PROVE  /\ Stream(k2) /\ Empties(k2) = Empties(k)
         /\ Ends(k.wire) + Ends(k.parser) = Taken(Sent(k)) + Ends(k2.wire) + Ends(k2.parser)
         /\ (k.wire = <<>> /\ Taken(Sent(k)) > 0) => Empties(k) > 0
         /\ (k.wire # <<>> /\ Taken(Sent(k)) = 0) => (k2.parser # <<>> \/ Empties(k) > 0)
<1> DEFINE q == Sent(k)
<1>1. /\ q \in Seq(Piece) /\ Len(q) = Len(k.parser) + Len(k.wire)
      /\ k.parser \in Seq(Piece) /\ k.wire \in Seq(Piece) /\ Empties(k) \in Int
      /\ Mid(k) <=> (Len(q) > 0 /\ q[Len(q)] = "begin")
  BY SentType
<1>2. WellSent(q) /\ Empties(k) >= 0
  BY DEF Stream
<1>3. q = k.parser \o k.wire
  BY DEF Sent
<1>. HIDE DEF q
<1>4. /\ Rest(q) \in Seq(Piece) /\ WellSent(Rest(q))
      /\ Ends(q) = Taken(q) + Ends(Rest(q))
      /\ Len(Rest(q)) <= Len(q)
      /\ Rest(q) # <<>> => Rest(q)[Len(Rest(q))] = q[Len(q)]
      /\ Rest(q) = <<>> => (Len(q) = 0 \/ q[Len(q)] # "begin")
      /\ Rest(q) = <<>> => (Len(q) = 2 * Taken(q) \/ \E i \in 1 .. Len(q) : q[i] = "empty")
      /\ \/ Rest(q) \in {<<>>, <<"begin">>}
         \/ \E i \in 1 .. Len(q) : q[i] = "empty"
  BY <1>1, <1>2, TakenAndLeft
<1>5. k2.parser = Rest(q)
  BY DEF q
<1>6. Sent(k2) = Rest(q)
  BY <1>4, <1>5, ConcatEmptySeq DEF Sent
<1>7. PICK a \in Nat : a = Len(k.parser)
  BY <1>1, LenProperties
<1>8. PICK b \in Nat : b = Len(k.wire)
  BY <1>1, LenProperties
<1>9. Taken(q) \in Nat /\ 2 * Taken(q) <= a + b
  BY <1>1, <1>7, <1>8, TakenIs
<1>10. Mid(k2) <=> Mid(k)
  <2>1. Mid(k2) <=> (Len(Rest(q)) > 0 /\ Rest(q)[Len(Rest(q))] = "begin")
    BY <1>6, SentType
  <2>2. PICK m \in Nat : m = Len(Rest(q))
    BY <1>4, LenProperties
  <2>3. PICK l \in Nat : l = Len(q)
    BY <1>1, LenProperties
  <2>4. Rest(q) = <<>> <=> m = 0
    BY <1>4, <2>2, EmptySeq
  <2>5. m <= l /\ (m > 0 => Rest(q)[m] = q[l]) /\ (m = 0 => (l = 0 \/ q[l] # "begin"))
    BY <1>4, <2>2, <2>3, <2>4
  <2>6. Mid(k) <=> (l > 0 /\ q[l] = "begin")
    BY <1>1, <2>3
  <2>7. Mid(k2) <=> (m > 0 /\ Rest(q)[m] = "begin")
    BY <2>1, <2>2
  <2>. QED BY <2>5, <2>6, <2>7
<1>11. Empties(k2) = Empties(k)
  BY <1>10 DEF Empties
<1>12. ASSUME Empties(k) = 0
       PROVE  /\ k.parser \in {<<>>, <<"begin">>}
              /\ \A i \in 1 .. Len(q) : q[i] # "empty"
  <2>1. k.parser \in {<<>>, <<"begin">>} /\ \A i \in 1 .. Len(k.wire) : k.wire[i] # "empty"
    BY <1>12 DEF Stream
  <2>2. a <= 1 /\ \A i \in 1 .. a : k.parser[i] # "empty"
    <3>1. CASE k.parser = <<>>
      <4>1. a = 0
        BY <1>7, <3>1, EmptySeq
      <4>. QED BY <4>1
    <3>2. CASE k.parser = <<"begin">>
      <4>1. a = 1 /\ k.parser[1] = "begin"
        BY <1>7, <3>2
      <4>. QED BY <4>1
    <3>. QED BY <2>1, <3>1, <3>2
  <2>3. /\ \A i \in 1 .. a : q[i] = k.parser[i]
        /\ \A i \in 1 .. b : q[i + a] = k.wire[i]
    <3>1. k.parser \in Seq(Piece) /\ k.wire \in Seq(Piece)
      BY <1>1
    <3>2. /\ \A i \in 1 .. Len(k.parser) : (k.parser \o k.wire)[i] = k.parser[i]
          /\ \A i \in 1 .. Len(k.wire) : (k.parser \o k.wire)[i + Len(k.parser)] = k.wire[i]
      BY <3>1, PiecesConcat, Zenon
    <3>. QED BY <1>3, <1>7, <1>8, <3>2
  <2>4. ASSUME NEW i \in 1 .. a + b PROVE q[i] # "empty"
    <3>1. CASE i \in 1 .. a
      BY <2>2, <2>3, <3>1
    <3>2. CASE i \notin 1 .. a
      <4>1. PICK j \in 1 .. b : j + a = i
        <5>1. i - a \in 1 .. b /\ (i - a) + a = i
          BY <3>2
        <5>. QED BY <5>1
      <4>. QED BY <1>8, <2>1, <2>3, <4>1
    <3>. QED BY <3>1, <3>2
  <2>. QED BY <1>1, <1>7, <1>8, <2>1, <2>4
<1>13. Stream(k2)
  <2>1. WellSent(Sent(k2)) /\ Empties(k2) >= 0
    BY <1>2, <1>4, <1>6, <1>11
  <2>2. ASSUME Empties(k2) = 0
        PROVE  k2.parser \in {<<>>, <<"begin">>} /\ \A i \in 1 .. Len(k2.wire) : k2.wire[i] # "empty"
    <3>1. \A i \in 1 .. Len(q) : q[i] # "empty"
      BY <1>11, <1>12, <2>2
    <3>2. 1 .. Len(k2.wire) = {}
      <4>1. Len(k2.wire) = 0
        BY EmptySeq
      <4>. QED BY <4>1
    <3>. QED BY <1>4, <1>5, <3>1, <3>2
  <2>. QED BY <2>1, <2>2 DEF Stream
<1>14. Ends(k.wire) + Ends(k.parser) = Taken(q) + Ends(k2.wire) + Ends(k2.parser)
  <2>1. Ends(q) = Ends(k.parser) + Ends(k.wire)
    BY <1>1, <1>3, EndsConcat
  <2>2. Ends(k.parser) \in Nat /\ Ends(k.wire) \in Nat /\ Ends(Rest(q)) \in Nat
    BY <1>1, <1>4, EndsIsEndsIn
  <2>3. Ends(<<>>) = 0
    <3>1. {i \in DOMAIN <<>> : <<>>[i] = "end"} = {}
      OBVIOUS
    <3>. QED BY <3>1, FS_EmptySet DEF Ends
  <2>. QED BY <1>4, <1>5, <1>9, <2>1, <2>2, <2>3
<1>15. ASSUME k.wire = <<>>, Taken(q) > 0 PROVE Empties(k) > 0
  <2>1. b = 0
    BY <1>8, <1>15, EmptySeq
  <2>2. a >= 2
    BY <1>9, <1>15, <2>1
  <2>3. ASSUME Empties(k) = 0 PROVE FALSE
    <3>1. k.parser \in {<<>>, <<"begin">>}
      BY <1>12, <2>3
    <3>2. a \in {0, 1}
      BY <1>7, <3>1, EmptySeq
    <3>. QED BY <2>2, <3>2
  <2>. QED BY <1>1, <1>2, <2>3
<1>16. ASSUME k.wire # <<>>, Taken(q) = 0, Rest(q) = <<>> PROVE Empties(k) > 0
  <2>1. b > 0
    BY <1>1, <1>8, <1>16, EmptySeq
  <2>2. Len(q) # 2 * Taken(q)
    <3>1. a + b # 2 * 0
      BY <2>1
    <3>. QED BY <1>1, <1>7, <1>8, <1>16, <3>1
  <2>3. \E i \in 1 .. Len(q) : q[i] = "empty"
    BY <1>4, <1>16, <2>2
  <2>4. Empties(k) # 0
    BY <1>12, <2>3
  <2>. QED BY <1>1, <1>2, <2>4
<1>. QED BY <1>5, <1>11, <1>13, <1>14, <1>15, <1>16 DEF q

-----------------------------------------------------------------------------
(* The invariant of the loop, on a record of what the handlers change.     *)

FileEvent == [mask : SUBSET {R, W}, client : Conn \cup {Listener}]

Typed(s) ==
  /\ s = [conn |-> s.conn, events |-> s.events, interest |-> s.interest, running |-> s.running]
  /\ s.conn \in [Conn -> Connection]
  /\ DOMAIN s.events \subseteq Fd \cup {ListenFd}
  /\ s.events \in [DOMAIN s.events -> FileEvent]
  /\ DOMAIN s.interest \subseteq Fd \cup {ListenFd}
  /\ s.interest \in [DOMAIN s.interest -> (SUBSET {R, W}) \ {{}}]
  /\ s.running \in BOOLEAN

(* epoll, events and the clients describe the same connections. *)
Linked(s) ==
  /\ ListenFd \in DOMAIN s.events /\ s.events[ListenFd].mask = {R}
  /\ ListenFd \in DOMAIN s.interest /\ s.interest[ListenFd] = {R}
  /\ \A fd \in Fd : fd \in DOMAIN s.events =>
       s.events[fd].client \in Conn /\ s.conn[s.events[fd].client].fd = fd
  /\ \A fd \in Fd : fd \in DOMAIN s.interest => fd \in DOMAIN s.events

(* A connection with a descriptor waits for a request, has replies to send *)
(* or, after its peer has hung up in the middle of a request, is forgotten.*)
Reading(s, k) ==
  /\ s.events[k.fd].mask = {R}
  /\ k.fd \in DOMAIN s.interest /\ s.interest[k.fd] = {R}
  /\ k.reply = 0

Writing(s, k) ==
  /\ s.events[k.fd].mask \in {{R, W}, {W}}
  /\ k.fd \in DOMAIN s.interest /\ s.interest[k.fd] = {W}
  /\ k.reply > 0

Forgotten(s, k) ==
  /\ s.events[k.fd].mask = {}
  /\ k.fd \notin DOMAIN s.interest
  /\ k.reply = 0 /\ k.state \in {"fin", "rst"}
  /\ k.parser # <<>> \/ Empties(k) > 0

Away(k) == k.fd = NoFd /\ k.state \in {"new", "backlog", "closed"} /\ k.reply = 0

Here(s, c) ==
  LET k == s.conn[c]
  IN  /\ k.fd \in Fd /\ k.fd \in DOMAIN s.events /\ s.events[k.fd].client = c
      /\ k.state \in {"open", "fin", "rst"}
      /\ Reading(s, k) \/ Writing(s, k) \/ Forgotten(s, k)

Shaped(s, c) == Away(s.conn[c]) \/ Here(s, c)

Good(s) ==
  /\ Linked(s)
  /\ \A c \in Conn : Shaped(s, c) /\ Stream(s.conn[c]) /\ Balanced(s.conn[c])

Stopped(s) == \E c \in Conn : s.conn[c].state = "rst" \/ Empties(s.conn[c]) > 0

(* What a report is, and that none is about a descriptor that is closed.   *)
Reported ==
  /\ \A r \in readys : r.fd \in DOMAIN events /\ r.mask \in {{R}, {W}, {}}
  /\ \A r, u \in readys : r.fd = u.fd => r = u

IInv ==
  /\ Typed(State)
  /\ running => Good(State)
  /\ running \/ Stopped(State)
  /\ readys \subseteq [fd : Fd \cup {ListenFd}, mask : SUBSET {R, W}]
  /\ running => Reported

(* t differs from s in connection c and descriptor f only. *)
Elsewhere(s, t, c, f) ==
  /\ t = [conn |-> t.conn, events |-> t.events, interest |-> t.interest, running |-> t.running]
  /\ t.conn = [d \in Conn |-> IF d = c THEN t.conn[c] ELSE s.conn[d]]
  /\ t.events = [x \in DOMAIN t.events |-> t.events[x]]
  /\ t.interest = [x \in DOMAIN t.interest |-> t.interest[x]]
  /\ \A x : x # f => (x \in DOMAIN t.events <=> x \in DOMAIN s.events)
  /\ \A x : x # f => (x \in DOMAIN t.interest <=> x \in DOMAIN s.interest)
  /\ \A x \in DOMAIN s.events : x # f => t.events[x] = s.events[x]
  /\ \A x \in DOMAIN s.interest : x # f => t.interest[x] = s.interest[x]

LEMMA ElsewhereTrans ==
  ASSUME NEW s, NEW t, NEW u, NEW c \in Conn, NEW f,
         Elsewhere(s, t, c, f), Elsewhere(t, u, c, f)
  PROVE  Elsewhere(s, u, c, f)
<1>1. /\ u = [conn |-> u.conn, events |-> u.events, interest |-> u.interest, running |-> u.running]
      /\ u.events = [x \in DOMAIN u.events |-> u.events[x]]
      /\ u.interest = [x \in DOMAIN u.interest |-> u.interest[x]]
  BY DEF Elsewhere
<1>2. u.conn = [d \in Conn |-> IF d = c THEN u.conn[c] ELSE s.conn[d]]
  <2>1. u.conn = [d \in Conn |-> IF d = c THEN u.conn[c] ELSE t.conn[d]]
    BY DEF Elsewhere
  <2>2. t.conn = [d \in Conn |-> IF d = c THEN t.conn[c] ELSE s.conn[d]]
    BY DEF Elsewhere
  <2>3. \A d \in Conn : d # c => t.conn[d] = s.conn[d]
    BY <2>2
  <2>. QED BY <2>1, <2>3
<1>3. /\ \A x : x # f => (x \in DOMAIN u.events <=> x \in DOMAIN s.events)
      /\ \A x : x # f => (x \in DOMAIN u.interest <=> x \in DOMAIN s.interest)
      /\ \A x \in DOMAIN s.events : x # f => u.events[x] = s.events[x]
      /\ \A x \in DOMAIN s.interest : x # f => u.interest[x] = s.interest[x]
  BY DEF Elsewhere
<1>. QED BY <1>1, <1>2, <1>3 DEF Elsewhere

(* Types after a step that is local to a connection and its descriptor.    *)
LEMMA TypedStep ==
  ASSUME NEW s, NEW t, NEW c \in Conn, NEW f \in Fd, Typed(s), Elsewhere(s, t, c, f),
         t.conn[c] \in Connection, t.running \in BOOLEAN,
         f \in DOMAIN t.events => t.events[f] \in FileEvent,
         f \in DOMAIN t.interest => t.interest[f] \in (SUBSET {R, W}) \ {{}}
  PROVE  Typed(t)
<1>1. t.conn \in [Conn -> Connection]
  <2>1. t.conn = [d \in Conn |-> IF d = c THEN t.conn[c] ELSE s.conn[d]]
    BY DEF Elsewhere
  <2>2. \A d \in Conn : s.conn[d] \in Connection
    BY DEF Typed
  <2>3. \A d \in Conn : (IF d = c THEN t.conn[c] ELSE s.conn[d]) \in Connection
    BY <2>2
  <2>. HIDE DEF Connection
  <2>. QED BY <2>1, <2>3
<1>2. DOMAIN t.events \subseteq Fd \cup {ListenFd}
  BY DEF Typed, Elsewhere
<1>3. DOMAIN t.interest \subseteq Fd \cup {ListenFd}
  BY DEF Typed, Elsewhere
<1>4. t.events \in [DOMAIN t.events -> FileEvent]
  <2>1. \A x \in DOMAIN s.events : s.events[x] \in FileEvent
    BY DEF Typed
  <2>2. \A x \in DOMAIN t.events : t.events[x] \in FileEvent
    BY <2>1 DEF Elsewhere
  <2>3. t.events = [x \in DOMAIN t.events |-> t.events[x]]
    BY DEF Elsewhere
  <2>. QED BY <2>2, <2>3
<1>5. t.interest \in [DOMAIN t.interest -> (SUBSET {R, W}) \ {{}}]
  <2>1. \A x \in DOMAIN s.interest : s.interest[x] \in (SUBSET {R, W}) \ {{}}
    BY DEF Typed
  <2>2. \A x \in DOMAIN t.interest : t.interest[x] \in (SUBSET {R, W}) \ {{}}
    BY <2>1 DEF Elsewhere
  <2>3. t.interest = [x \in DOMAIN t.interest |-> t.interest[x]]
    BY DEF Elsewhere
  <2>. QED BY <2>2, <2>3
<1>. QED BY <1>1, <1>2, <1>3, <1>4, <1>5 DEF Typed, Elsewhere

(* The links after such a step: nobody else has the descriptor. *)
LEMMA GoodStep ==
  ASSUME NEW s, NEW t, NEW c \in Conn, NEW f \in Fd, Good(s), Elsewhere(s, t, c, f),
         s.conn[c].fd = f \/ (s.conn[c].fd = NoFd /\ \A d \in Conn : s.conn[d].fd # f),
         f \in DOMAIN t.events => t.events[f].client = c /\ t.conn[c].fd = f,
         f \in DOMAIN t.interest => f \in DOMAIN t.events,
         Shaped(t, c), Stream(t.conn[c]), Balanced(t.conn[c])
  PROVE  Good(t)
<1>1. ListenFd \notin Fd /\ NoFd \notin Fd
  BY FdAssumption DEF NoFd
<1>2. ListenFd # f
  BY <1>1
<1>3. t.conn[c] = t.conn[c] /\ \A d \in Conn : d # c => t.conn[d] = s.conn[d]
  <2>1. t.conn = [d \in Conn |-> IF d = c THEN t.conn[c] ELSE s.conn[d]]
    BY DEF Elsewhere
  <2>. QED BY <2>1
<1>4. ASSUME NEW d \in Conn, s.conn[d].fd = f PROVE d = c
  <2>1. s.conn[c].fd = f
    BY <1>4
  <2>2. Here(s, c) /\ Here(s, d)
    BY <1>1, <1>4, <2>1 DEF Good, Shaped, Away
  <2>. QED BY <1>4, <2>1, <2>2 DEF Here
<1>5. Linked(t)
  <2>1. /\ ListenFd \in DOMAIN t.events /\ t.events[ListenFd].mask = {R}
        /\ ListenFd \in DOMAIN t.interest /\ t.interest[ListenFd] = {R}
    BY <1>2 DEF Good, Linked, Elsewhere
  <2>2. ASSUME NEW fd \in Fd, fd \in DOMAIN t.events
        PROVE  t.events[fd].client \in Conn /\ t.conn[t.events[fd].client].fd = fd
    <3>1. CASE fd = f
      BY <2>2, <3>1
    <3>2. CASE fd # f
      <4>1. fd \in DOMAIN s.events /\ t.events[fd] = s.events[fd]
        BY <2>2, <3>2 DEF Elsewhere
      <4>2. s.events[fd].client \in Conn /\ s.conn[s.events[fd].client].fd = fd
        BY <4>1 DEF Good, Linked
      <4>3. s.events[fd].client # c
        BY <1>1, <3>2, <4>2
      <4>. QED BY <1>3, <4>1, <4>2, <4>3
    <3>. QED BY <3>1, <3>2
  <2>3. ASSUME NEW fd \in Fd, fd \in DOMAIN t.interest PROVE fd \in DOMAIN t.events
    <3>1. CASE fd = f
      BY <2>3, <3>1
    <3>2. CASE fd # f
      BY <2>3, <3>2 DEF Good, Linked, Elsewhere
    <3>. QED BY <3>1, <3>2
  <2>. QED BY <2>1, <2>2, <2>3 DEF Linked
<1>6. ASSUME NEW d \in Conn PROVE Shaped(t, d) /\ Stream(t.conn[d]) /\ Balanced(t.conn[d])
  <2>1. CASE d = c
    BY <2>1
  <2>2. CASE d # c
    <3>1. t.conn[d] = s.conn[d] /\ s.conn[d].fd # f
      BY <1>3, <1>4, <2>2
    <3>2. Shaped(s, d) /\ Stream(s.conn[d]) /\ Balanced(s.conn[d])
      BY DEF Good
    <3>3. Shaped(t, d)
      <4>1. CASE Away(s.conn[d])
        BY <3>1, <4>1 DEF Shaped
      <4>2. CASE Here(s, d)
        <5> DEFINE k == s.conn[d]
        <5>1. /\ k.fd \in Fd /\ k.fd \in DOMAIN s.events /\ s.events[k.fd].client = d
              /\ k.state \in {"open", "fin", "rst"}
              /\ Reading(s, k) \/ Writing(s, k) \/ Forgotten(s, k)
          BY <4>2 DEF Here
        <5>2. t.conn[d] = k /\ k.fd # f
          BY <3>1
        <5>. HIDE DEF k
        <5>3. /\ k.fd \in DOMAIN t.events /\ t.events[k.fd] = s.events[k.fd]
              /\ k.fd \in DOMAIN t.interest <=> k.fd \in DOMAIN s.interest
              /\ k.fd \in DOMAIN s.interest => t.interest[k.fd] = s.interest[k.fd]
          BY <5>1, <5>2 DEF Elsewhere
        <5>4. Reading(s, k) => Reading(t, k)
          BY <5>3 DEF Reading
        <5>5. Writing(s, k) => Writing(t, k)
          BY <5>3 DEF Writing
        <5>6. Forgotten(s, k) => Forgotten(t, k)
          BY <5>3 DEF Forgotten
        <5>7. Here(t, d)
          BY <5>1, <5>2, <5>3, <5>4, <5>5, <5>6 DEF Here
        <5>. QED BY <5>7 DEF Shaped
      <4>. QED BY <3>2, <4>1, <4>2 DEF Shaped
    <3>. QED BY <3>1, <3>2, <3>3
  <2>. QED BY <2>1, <2>2
<1>. QED BY <1>5, <1>6 DEF Good

-----------------------------------------------------------------------------
(* What each function does, to a connection and its descriptor. *)

LEMMA WithIs ==
  ASSUME NEW g, NEW x, NEW y
  PROVE  /\ With(g, x, y) = [z \in DOMAIN With(g, x, y) |-> With(g, x, y)[z]]
         /\ x \in DOMAIN With(g, x, y) /\ With(g, x, y)[x] = y
         /\ \A z : z # x => (z \in DOMAIN With(g, x, y) <=> z \in DOMAIN g)
         /\ \A z \in DOMAIN g : z # x => With(g, x, y)[z] = g[z]
BY DEF With

LEMMA WithoutIs ==
  ASSUME NEW g, NEW x
  PROVE  /\ Without(g, x) = [z \in DOMAIN Without(g, x) |-> Without(g, x)[z]]
         /\ x \notin DOMAIN Without(g, x)
         /\ \A z : z # x => (z \in DOMAIN Without(g, x) <=> z \in DOMAIN g)
         /\ \A z \in DOMAIN g : z # x => Without(g, x)[z] = g[z]
BY DEF Without

LEMMA MaskFacts ==
  /\ {R} \in (SUBSET {R, W}) \ {{}} /\ {W} \in (SUBSET {R, W}) \ {{}} /\ {} \in SUBSET {R, W}
  /\ R # W /\ {R} # {W} /\ {R} # {} /\ {W} # {} /\ {R, W} # {R} /\ {R, W} # {W} /\ {R, W} # {}
<1>1. R # W
  BY DEF R, W
<1>2. {R} # {W} /\ {R, W} # {R} /\ {R, W} # {W}
  BY <1>1
<1>3. {R} # {} /\ {W} # {} /\ {R, W} # {}
  OBVIOUS
<1>4. {R} \in SUBSET {R, W} /\ {W} \in SUBSET {R, W} /\ {} \in SUBSET {R, W}
  OBVIOUS
<1>. QED BY <1>1, <1>2, <1>3, <1>4

(* The functions of a state, where an equation needs them as functions.    *)
LEMMA TypedFunctions ==
  ASSUME NEW s, Typed(s), NEW c \in Conn
  PROVE  /\ s = [conn |-> s.conn, events |-> s.events, interest |-> s.interest, running |-> s.running]
         /\ s.conn = [d \in Conn |-> IF d = c THEN s.conn[c] ELSE s.conn[d]]
         /\ s.events = [x \in DOMAIN s.events |-> s.events[x]]
         /\ s.interest = [x \in DOMAIN s.interest |-> s.interest[x]]
<1>1. s.conn = [d \in Conn |-> s.conn[d]]
  <2>1. s.conn \in [Conn -> Connection]
    BY DEF Typed
  <2>. HIDE DEF Connection
  <2>. QED BY <2>1
<1>2. s.conn = [d \in Conn |-> IF d = c THEN s.conn[c] ELSE s.conn[d]]
  BY <1>1
<1>3. s.events = [x \in DOMAIN s.events |-> s.events[x]]
  BY DEF Typed
<1>4. s.interest = [x \in DOMAIN s.interest |-> s.interest[x]]
  BY DEF Typed
<1>. QED BY <1>2, <1>3, <1>4 DEF Typed

LEMMA StateExcept ==
  ASSUME NEW a, NEW b, NEW i, NEW r, NEW g, NEW h, NEW t, NEW s,
         s = [conn |-> a, events |-> b, interest |-> i, running |-> r],
         t = [s EXCEPT !.interest = g, !.events = h]
  PROVE  t = [conn |-> a, events |-> h, interest |-> g, running |-> r]
OBVIOUS

(* The mask a FileEvent has already. *)
OldMask(s, f) == IF f \in DOMAIN s.events THEN s.events[f].mask ELSE {}

LEMMA CreateIs ==
  ASSUME NEW s, Typed(s), NEW c \in Conn, NEW f \in Fd, NEW mask,
         NEW w, w = create_file_event(s, f, mask, c)
  PROVE  /\ Elsewhere(s, w, c, f) /\ w.conn = s.conn /\ w.running = s.running
         /\ f \in DOMAIN w.events /\ w.events[f] = [mask |-> OldMask(s, f) \cup mask, client |-> c]
         /\ f \in DOMAIN w.interest /\ w.interest[f] = mask
<1> DEFINE e == [mask |-> OldMask(s, f) \cup mask, client |-> c]
           t == [conn |-> s.conn, events |-> With(s.events, f, e),
                 interest |-> With(s.interest, f, mask), running |-> s.running]
<1>1. /\ s = [conn |-> s.conn, events |-> s.events, interest |-> s.interest, running |-> s.running]
      /\ s.conn = [d \in Conn |-> IF d = c THEN s.conn[c] ELSE s.conn[d]]
  BY TypedFunctions
<1>2. f # NoFd
  BY FdAssumption DEF NoFd
<1>3. create_file_event(s, f, mask, c) = t
  <2>1. create_file_event(s, f, mask, c) =
          [s EXCEPT !.interest = With(s.interest, f, mask), !.events = With(s.events, f, e)]
    <3>. HIDE DEF Typed
    <3>. QED BY <1>2, Zenon DEF create_file_event, OldMask
  <2> DEFINE g == With(s.interest, f, mask)
             h == With(s.events, f, e)
  <2>2. [s EXCEPT !.interest = g, !.events = h] =
          [conn |-> s.conn, events |-> h, interest |-> g, running |-> s.running]
    <3>. HIDE DEF g, h
    <3>1. PICK u : u = [s EXCEPT !.interest = g, !.events = h]
      OBVIOUS
    <3>2. u = [conn |-> s.conn, events |-> h, interest |-> g, running |-> s.running]
      BY <1>1, <3>1, StateExcept
    <3>. QED BY <3>1, <3>2, Zenon
  <2>. QED BY <2>1, <2>2
<1>4. t.conn = s.conn /\ t.running = s.running /\ t.events = With(s.events, f, e) /\ t.interest = With(s.interest, f, mask)
  <2>. HIDE DEF e
  <2>. QED OBVIOUS
<1>5. t = [conn |-> t.conn, events |-> t.events, interest |-> t.interest, running |-> t.running]
  BY <1>4
<1>. HIDE DEF t, e
<1>6. Elsewhere(s, t, c, f)
  BY <1>1, <1>4, <1>5, WithIs DEF Elsewhere
<1>7. f \in DOMAIN t.events /\ t.events[f] = e /\ f \in DOMAIN t.interest /\ t.interest[f] = mask
  BY <1>4, WithIs
<1>. QED BY <1>3, <1>4, <1>6, <1>7 DEF e

(* What event_del does. *)
ClosedConn(k) == [k EXCEPT !.fd = NoFd, !.state = "closed"]

Deleted(s, t, c, f, delmask, pending) ==
  LET m == s.events[f].mask \ delmask
  IN  /\ Elsewhere(s, t, c, f) /\ t.running = s.running
      /\ m # {} => /\ t.conn = s.conn
                   /\ f \in DOMAIN t.events /\ t.events[f] = [mask |-> m, client |-> c]
                   /\ f \in DOMAIN t.interest /\ t.interest[f] = m
      /\ m = {} /\ pending => /\ t.conn = s.conn
                              /\ f \in DOMAIN t.events /\ t.events[f] = [mask |-> {}, client |-> c]
                              /\ f \notin DOMAIN t.interest
      /\ m = {} /\ ~pending => /\ t.conn[c] = ClosedConn(s.conn[c])
                               /\ f \notin DOMAIN t.events /\ f \notin DOMAIN t.interest

LEMMA EventDelIs ==
  ASSUME NEW s, Typed(s), NEW c \in Conn, NEW f \in Fd, NEW delmask, NEW pending,
         f \in DOMAIN s.events, s.events[f].client = c, f \in DOMAIN s.interest
  PROVE  Deleted(s, event_del(s, f, delmask, pending), c, f, delmask, pending)
<1> DEFINE m == s.events[f].mask \ delmask
           e == [mask |-> m, client |-> c]
           evs == [s.events EXCEPT ![f] = e]
           left == [conn |-> s.conn, events |-> evs, interest |-> s.interest, running |-> s.running]
           k == ClosedConn(s.conn[c])
           t == event_del(s, f, delmask, pending)
<1>1. /\ s = [conn |-> s.conn, events |-> s.events, interest |-> s.interest, running |-> s.running]
      /\ s.conn = [d \in Conn |-> IF d = c THEN s.conn[c] ELSE s.conn[d]]
      /\ s.events = [x \in DOMAIN s.events |-> s.events[x]]
      /\ s.interest = [x \in DOMAIN s.interest |-> s.interest[x]]
  BY TypedFunctions
<1>2. [s.events[f] EXCEPT !.mask = m] = e
  <2>1. s.events[f] \in [mask : SUBSET {R, W}, client : Conn \cup {Listener}]
    BY DEF Typed, FileEvent
  <2>2. s.events[f] = [mask |-> s.events[f].mask, client |-> s.events[f].client]
    BY <2>1
  <2>. HIDE DEF m
  <2>. QED BY <2>2
<1>3. [s EXCEPT !.events[f].mask = m] = left
  <2>1. [s EXCEPT !.events[f].mask = m] = [s EXCEPT !.events = [s.events EXCEPT ![f] = [s.events[f] EXCEPT !.mask = m]]]
    BY Zenon
  <2>2. [s EXCEPT !.events = evs] = left
    <3>. HIDE DEF evs
    <3>. QED BY <1>1
  <2>. QED BY <1>2, <2>1, <2>2
<1>4. /\ f \in DOMAIN evs /\ evs[f] = e
      /\ evs = [x \in DOMAIN evs |-> evs[x]]
      /\ \A x : x # f => (x \in DOMAIN evs <=> x \in DOMAIN s.events)
      /\ \A x \in DOMAIN s.events : x # f => evs[x] = s.events[x]
  <2>. HIDE DEF e
  <2>. QED BY <1>1
<1>5. t = IF m # {} THEN [left EXCEPT !.interest[f] = m]
          ELSE IF pending THEN [left EXCEPT !.interest = Without(left.interest, f)]
          ELSE [left EXCEPT !.interest = Without(left.interest, f), !.events = Without(left.events, f),
                            !.conn[c].fd = NoFd, !.conn[c].state = "closed"]
  <2> DEFINE d == s.events[f].client
             u == [s EXCEPT !.events[f].mask = m]
  <2>1. t = IF m # {} THEN [u EXCEPT !.interest[f] = m]
            ELSE IF pending THEN [u EXCEPT !.interest = Without(u.interest, f)]
            ELSE [u EXCEPT !.interest = Without(u.interest, f), !.events = Without(u.events, f),
                           !.conn[d].fd = NoFd, !.conn[d].state = "closed"]
    BY Zenon DEF event_del
  <2>2. d = c
    OBVIOUS
  <2>3. u = left
    BY <1>3
  <2>. HIDE DEF left, d, u, m, t
  <2>. QED BY <2>1, <2>2, <2>3
<1>6. left.interest = s.interest /\ left.events = evs /\ left.conn = s.conn
  <2>. HIDE DEF evs
  <2>. QED OBVIOUS
<1>. HIDE DEF evs
<1>10. /\ Elsewhere(s, t, c, f) /\ t.running = s.running
       /\ m # {} => /\ t.conn = s.conn
                    /\ f \in DOMAIN t.events /\ t.events[f] = [mask |-> m, client |-> c]
                    /\ f \in DOMAIN t.interest /\ t.interest[f] = m
       /\ m = {} /\ pending => /\ t.conn = s.conn
                               /\ f \in DOMAIN t.events /\ t.events[f] = [mask |-> {}, client |-> c]
                               /\ f \notin DOMAIN t.interest
       /\ m = {} /\ ~pending => /\ t.conn[c] = k
                                /\ f \notin DOMAIN t.events /\ f \notin DOMAIN t.interest
  <2>7. CASE m # {}
    <3> DEFINE g == [s.interest EXCEPT ![f] = m]
    <3>1. t = [left EXCEPT !.interest = [left.interest EXCEPT ![f] = m]]
      <4>. HIDE DEF left, m, t
      <4>. QED BY <1>5, <2>7, Zenon
    <3>2. t = [conn |-> s.conn, events |-> evs, interest |-> g, running |-> s.running]
      <4>. HIDE DEF t, m, g
      <4>1. t = [left EXCEPT !.interest = g]
        BY <3>1, <1>6 DEF g
      <4>. QED BY <4>1
    <3>3. /\ f \in DOMAIN g /\ g[f] = m
          /\ g = [x \in DOMAIN g |-> g[x]]
          /\ \A x : x # f => (x \in DOMAIN g <=> x \in DOMAIN s.interest)
          /\ \A x \in DOMAIN s.interest : x # f => g[x] = s.interest[x]
      <4>. HIDE DEF m
      <4>. QED BY <1>1
    <3>. HIDE DEF g, t
    <3>4. t.conn = s.conn /\ t.events = evs /\ t.interest = g /\ t.running = s.running
      BY <3>2
    <3>5. t = [conn |-> t.conn, events |-> t.events, interest |-> t.interest, running |-> t.running]
      BY <3>2, <3>4
    <3>. HIDE DEF m, e
    <3>6. Elsewhere(s, t, c, f)
      BY <1>1, <1>4, <3>3, <3>4, <3>5 DEF Elsewhere
    <3>. QED BY <1>4, <2>7, <3>3, <3>4, <3>6 DEF t, e, m
  <2>8. CASE m = {} /\ pending
    <3> DEFINE g == Without(s.interest, f)
    <3>1. t = [left EXCEPT !.interest = g]
      <4>. HIDE DEF left, m, t
      <4>. QED BY <1>5, <1>6, <2>8, Zenon
    <3>2. t = [conn |-> s.conn, events |-> evs, interest |-> g, running |-> s.running]
      <4>. HIDE DEF t, m, g
      <4>. QED BY <3>1
    <3>. HIDE DEF g, t
    <3>4. t.conn = s.conn /\ t.events = evs /\ t.interest = g /\ t.running = s.running
      BY <3>2
    <3>5. t = [conn |-> t.conn, events |-> t.events, interest |-> t.interest, running |-> t.running]
      BY <3>2, <3>4
    <3>. HIDE DEF m, e
    <3>6. Elsewhere(s, t, c, f)
      BY <1>1, <1>4, <3>4, <3>5, WithoutIs DEF Elsewhere, g
    <3>7. f \notin DOMAIN t.interest
      BY <3>4, WithoutIs DEF g
    <3>. QED BY <1>4, <2>8, <3>4, <3>6, <3>7 DEF t, e, m
  <2>9. CASE m = {} /\ ~pending
    <3> DEFINE g == Without(s.interest, f)
               h == Without(evs, f)
               cs == [s.conn EXCEPT ![c] = k]
    <3>1. t = [left EXCEPT !.interest = g, !.events = h, !.conn[c].fd = NoFd, !.conn[c].state = "closed"]
      <4>. HIDE DEF left, m, t
      <4>. QED BY <1>5, <1>6, <2>9, Zenon
    <3>2. t = [conn |-> cs, events |-> h, interest |-> g, running |-> s.running]
      <4>1. [left EXCEPT !.conn[c].fd = NoFd, !.conn[c].state = "closed"] = [left EXCEPT !.conn = cs]
        BY <1>1 DEF ClosedConn
      <4>. HIDE DEF t, m, g, h
      <4>. QED BY <1>1, <3>1 DEF ClosedConn
    <3>3. cs[c] = k /\ cs = [d \in Conn |-> IF d = c THEN cs[c] ELSE s.conn[d]]
      <4>. HIDE DEF k
      <4>. QED BY <1>1
    <3>. HIDE DEF g, h, t, cs, k
    <3>4. t.conn = cs /\ t.events = h /\ t.interest = g /\ t.running = s.running
      BY <3>2
    <3>5. t = [conn |-> t.conn, events |-> t.events, interest |-> t.interest, running |-> t.running]
      BY <3>2, <3>4
    <3>. HIDE DEF m, e
    <3>6. /\ h = [x \in DOMAIN h |-> h[x]] /\ f \notin DOMAIN h
          /\ \A x : x # f => (x \in DOMAIN h <=> x \in DOMAIN s.events)
          /\ \A x \in DOMAIN s.events : x # f => h[x] = s.events[x]
      BY <1>4, WithoutIs DEF h
    <3>7. Elsewhere(s, t, c, f)
      BY <3>3, <3>4, <3>5, <3>6, WithoutIs DEF Elsewhere, g
    <3>8. f \notin DOMAIN t.interest
      BY <3>4, WithoutIs DEF g
    <3>. QED BY <2>9, <3>3, <3>4, <3>6, <3>7, <3>8 DEF t, m, k
  <2>. QED BY <2>7, <2>8, <2>9
<1>. QED BY <1>10, Zenon DEF Deleted, ClosedConn

(* A connection record after each assignment to its fields. *)
LEMMA RecordRead ==
  ASSUME NEW k \in Connection, NEW r, r = [k EXCEPT !.wire = <<>>]
  PROVE  /\ r \in Connection
         /\ r.state = k.state /\ r.fd = k.fd /\ r.wire = <<>> /\ r.pieces = k.pieces /\ r.asked = k.asked
         /\ r.parser = k.parser /\ r.reply = k.reply /\ r.answered = k.answered
<1>1. k = [state |-> k.state, fd |-> k.fd, wire |-> k.wire, pieces |-> k.pieces, asked |-> k.asked,
              parser |-> k.parser, reply |-> k.reply, answered |-> k.answered]
  BY DEF Connection
<1>2. r = [state |-> k.state, fd |-> k.fd, wire |-> <<>>, pieces |-> k.pieces, asked |-> k.asked,
              parser |-> k.parser, reply |-> k.reply, answered |-> k.answered]
  BY <1>1
<1>3. /\ r.state = k.state /\ r.fd = k.fd /\ r.wire = <<>> /\ r.pieces = k.pieces /\ r.asked = k.asked
      /\ r.parser = k.parser /\ r.reply = k.reply /\ r.answered = k.answered
  BY <1>2
<1>4. /\ k.state \in {"new", "backlog", "open", "fin", "rst", "closed"} /\ k.fd \in Fd \cup {NoFd}
      /\ k.wire \in Seq(Piece) /\ k.pieces \in 0 .. MaxPieces /\ k.asked \in Nat
      /\ k.parser \in Seq(Piece) /\ k.reply \in Nat /\ k.answered \in Nat
  BY DEF Connection
<1>5. r \in Connection
  <2>1. PICK w \in Seq(Piece) : w = <<>>
    BY EmptySeq
  <2>. QED BY <1>2, <1>4, <2>1 DEF Connection
<1>. QED BY <1>3, <1>5

LEMMA RecordClosed ==
  ASSUME NEW k \in Connection, NEW r, r = ClosedConn(k)
  PROVE  /\ r \in Connection
         /\ r.state = "closed" /\ r.fd = NoFd /\ r.wire = k.wire /\ r.pieces = k.pieces /\ r.asked = k.asked
         /\ r.parser = k.parser /\ r.reply = k.reply /\ r.answered = k.answered
<1>1. k = [state |-> k.state, fd |-> k.fd, wire |-> k.wire, pieces |-> k.pieces, asked |-> k.asked,
              parser |-> k.parser, reply |-> k.reply, answered |-> k.answered]
  BY DEF Connection
<1>2. r = [state |-> "closed", fd |-> NoFd, wire |-> k.wire, pieces |-> k.pieces, asked |-> k.asked,
              parser |-> k.parser, reply |-> k.reply, answered |-> k.answered]
  BY <1>1 DEF ClosedConn
<1>3. /\ r.state = "closed" /\ r.fd = NoFd /\ r.wire = k.wire /\ r.pieces = k.pieces /\ r.asked = k.asked
      /\ r.parser = k.parser /\ r.reply = k.reply /\ r.answered = k.answered
  BY <1>2
<1>4. /\ k.state \in {"new", "backlog", "open", "fin", "rst", "closed"} /\ k.fd \in Fd \cup {NoFd}
      /\ k.wire \in Seq(Piece) /\ k.pieces \in 0 .. MaxPieces /\ k.asked \in Nat
      /\ k.parser \in Seq(Piece) /\ k.reply \in Nat /\ k.answered \in Nat
  BY DEF Connection
<1>5. r \in Connection
  BY <1>2, <1>4 DEF Connection
<1>. QED BY <1>3, <1>5

Answered(k) == [k EXCEPT !.answered = k.answered + k.reply, !.reply = 0]

LEMMA RecordAnswered ==
  ASSUME NEW k \in Connection, NEW r, r = Answered(k)
  PROVE  /\ r \in Connection
         /\ r.state = k.state /\ r.fd = k.fd /\ r.wire = k.wire /\ r.pieces = k.pieces /\ r.asked = k.asked
         /\ r.parser = k.parser /\ r.reply = 0 /\ r.answered = k.answered + k.reply
<1>1. k = [state |-> k.state, fd |-> k.fd, wire |-> k.wire, pieces |-> k.pieces, asked |-> k.asked,
              parser |-> k.parser, reply |-> k.reply, answered |-> k.answered]
  BY DEF Connection
<1>2. r = [state |-> k.state, fd |-> k.fd, wire |-> k.wire, pieces |-> k.pieces, asked |-> k.asked,
              parser |-> k.parser, reply |-> 0, answered |-> k.answered + k.reply]
  BY <1>1 DEF Answered
<1>3. /\ r.state = k.state /\ r.fd = k.fd /\ r.wire = k.wire /\ r.pieces = k.pieces /\ r.asked = k.asked
      /\ r.parser = k.parser /\ r.reply = 0 /\ r.answered = k.answered + k.reply
  BY <1>2
<1>4. /\ k.state \in {"new", "backlog", "open", "fin", "rst", "closed"} /\ k.fd \in Fd \cup {NoFd}
      /\ k.wire \in Seq(Piece) /\ k.pieces \in 0 .. MaxPieces /\ k.asked \in Nat
      /\ k.parser \in Seq(Piece) /\ k.reply \in Nat /\ k.answered \in Nat
  BY DEF Connection
<1>5. r \in Connection
  BY <1>2, <1>4 DEF Connection
<1>. QED BY <1>3, <1>5

OpenConn(k, f) == [k EXCEPT !.fd = f, !.state = "open"]

LEMMA RecordAccepted ==
  ASSUME NEW k \in Connection, NEW f \in Fd, NEW r, r = OpenConn(k, f)
  PROVE  /\ r \in Connection
         /\ r.state = "open" /\ r.fd = f /\ r.wire = k.wire /\ r.pieces = k.pieces /\ r.asked = k.asked
         /\ r.parser = k.parser /\ r.reply = k.reply /\ r.answered = k.answered
<1>1. k = [state |-> k.state, fd |-> k.fd, wire |-> k.wire, pieces |-> k.pieces, asked |-> k.asked,
              parser |-> k.parser, reply |-> k.reply, answered |-> k.answered]
  BY DEF Connection
<1>2. r = [state |-> "open", fd |-> f, wire |-> k.wire, pieces |-> k.pieces, asked |-> k.asked,
              parser |-> k.parser, reply |-> k.reply, answered |-> k.answered]
  BY <1>1 DEF OpenConn
<1>3. /\ r.state = "open" /\ r.fd = f /\ r.wire = k.wire /\ r.pieces = k.pieces /\ r.asked = k.asked
      /\ r.parser = k.parser /\ r.reply = k.reply /\ r.answered = k.answered
  BY <1>2
<1>4. /\ k.state \in {"new", "backlog", "open", "fin", "rst", "closed"} /\ k.fd \in Fd \cup {NoFd}
      /\ k.wire \in Seq(Piece) /\ k.pieces \in 0 .. MaxPieces /\ k.asked \in Nat
      /\ k.parser \in Seq(Piece) /\ k.reply \in Nat /\ k.answered \in Nat
  BY DEF Connection
<1>5. r \in Connection
  BY <1>2, <1>4 DEF Connection
<1>. QED BY <1>3, <1>5

(* A state after an assignment to a connection. *)
SetConn(s, c, r) == [s EXCEPT !.conn = [s.conn EXCEPT ![c] = r]]

LEMMA StateConn ==
  ASSUME NEW s, Typed(s), NEW c \in Conn, NEW r \in Connection, NEW t, t = SetConn(s, c, r)
  PROVE  /\ Typed(t) /\ t.conn[c] = r /\ t.events = s.events /\ t.interest = s.interest /\ t.running = s.running
         /\ \A f : Elsewhere(s, t, c, f)
<1>1. /\ s = [conn |-> s.conn, events |-> s.events, interest |-> s.interest, running |-> s.running]
      /\ s.conn = [d \in Conn |-> IF d = c THEN s.conn[c] ELSE s.conn[d]]
      /\ s.events = [x \in DOMAIN s.events |-> s.events[x]]
      /\ s.interest = [x \in DOMAIN s.interest |-> s.interest[x]]
  BY TypedFunctions
<1> DEFINE cs == [s.conn EXCEPT ![c] = r]
<1>2. cs[c] = r /\ cs = [d \in Conn |-> IF d = c THEN cs[c] ELSE s.conn[d]]
  BY <1>1
<1>3. cs \in [Conn -> Connection]
  <2>1. \A d \in Conn : s.conn[d] \in Connection
    BY DEF Typed
  <2>2. \A d \in Conn : (IF d = c THEN cs[c] ELSE s.conn[d]) \in Connection
    BY <1>2, <2>1
  <2>. HIDE DEF cs, Connection
  <2>. QED BY <1>2, <2>2
<1>. HIDE DEF cs
<1>4. t = [conn |-> cs, events |-> s.events, interest |-> s.interest, running |-> s.running]
  BY <1>1 DEF cs, SetConn
<1>5. t.conn = cs /\ t.events = s.events /\ t.interest = s.interest /\ t.running = s.running
  BY <1>4
<1>6. t = [conn |-> t.conn, events |-> t.events, interest |-> t.interest, running |-> t.running]
  BY <1>4, <1>5
<1>7. \A f : Elsewhere(s, t, c, f)
  BY <1>1, <1>2, <1>5, <1>6 DEF Elsewhere
<1>8. Typed(t)
  <2>. HIDE DEF Connection
  <2>. QED BY <1>3, <1>5, <1>6 DEF Typed
<1>. QED BY <1>2, <1>5, <1>7, <1>8

(* The assignments to parser and reply, one after the other. *)
LEMMA StateFed ==
  ASSUME NEW u, NEW v, NEW c \in Conn, NEW p, NEW n, NEW cs, NEW e, NEW i, NEW b, NEW k,
         u = [conn |-> cs, events |-> e, interest |-> i, running |-> b],
         cs = [d \in Conn |-> cs[d]], k = cs[c], k \in Connection,
         v = [u EXCEPT !.conn[c].parser = p, !.conn[c].reply = @ + n]
  PROVE  v = [conn |-> [cs EXCEPT ![c] = [k EXCEPT !.parser = p, !.reply = k.reply + n]],
              events |-> e, interest |-> i, running |-> b]
<1>1. PICK w : w = [u EXCEPT !.conn[c].parser = p]
  OBVIOUS
<1>2. v = [w EXCEPT !.conn[c].reply = @ + n]
  BY <1>1
<1>3. PICK k1 : k1 = [k EXCEPT !.parser = p]
  OBVIOUS
<1>4. PICK cs1 : cs1 = [cs EXCEPT ![c] = k1]
  OBVIOUS
<1>5. w = [conn |-> cs1, events |-> e, interest |-> i, running |-> b]
  BY <1>1, <1>3, <1>4
<1>6. cs1 = [d \in Conn |-> cs1[d]] /\ cs1[c] = k1
  BY <1>4
<1>7. v = [conn |-> [cs1 EXCEPT ![c] = [k1 EXCEPT !.reply = k1.reply + n]],
           events |-> e, interest |-> i, running |-> b]
  BY <1>2, <1>5, <1>6
<1>8. k1.reply = k.reply
  BY <1>3 DEF Connection
<1>9. PICK r : r = [k1 EXCEPT !.reply = k1.reply + n]
  OBVIOUS
<1>10. r = [k EXCEPT !.parser = p, !.reply = k.reply + n]
  BY <1>3, <1>8, <1>9
<1>11. [cs1 EXCEPT ![c] = r] = [cs EXCEPT ![c] = r]
  BY <1>4
<1>. QED BY <1>7, <1>9, <1>10, <1>11

(* What processInputBuff assigns, in a connection and in the state. *)
Feed(k, p, n) == [k EXCEPT !.parser = p, !.reply = k.reply + n]
FedState(s, c, p, n) == [s EXCEPT !.conn[c].parser = p, !.conn[c].reply = @ + n]

LEMMA FeedIs ==
  ASSUME NEW k \in Connection, NEW p \in Seq(Piece), NEW n \in Nat, NEW r, r = Feed(k, p, n)
  PROVE  /\ r \in Connection
         /\ r.state = k.state /\ r.fd = k.fd /\ r.wire = k.wire /\ r.pieces = k.pieces /\ r.asked = k.asked
         /\ r.parser = p /\ r.reply = k.reply + n /\ r.answered = k.answered
<1>1. k = [state |-> k.state, fd |-> k.fd, wire |-> k.wire, pieces |-> k.pieces, asked |-> k.asked,
              parser |-> k.parser, reply |-> k.reply, answered |-> k.answered]
  BY DEF Connection
<1>2. r = [state |-> k.state, fd |-> k.fd, wire |-> k.wire, pieces |-> k.pieces, asked |-> k.asked,
              parser |-> p, reply |-> k.reply + n, answered |-> k.answered]
  BY <1>1 DEF Feed
<1>3. /\ r.state = k.state /\ r.fd = k.fd /\ r.wire = k.wire /\ r.pieces = k.pieces /\ r.asked = k.asked
      /\ r.parser = p /\ r.reply = k.reply + n /\ r.answered = k.answered
  BY <1>2
<1>4. /\ k.state \in {"new", "backlog", "open", "fin", "rst", "closed"} /\ k.fd \in Fd \cup {NoFd}
      /\ k.wire \in Seq(Piece) /\ k.pieces \in 0 .. MaxPieces /\ k.asked \in Nat
      /\ k.parser \in Seq(Piece) /\ k.reply \in Nat /\ k.answered \in Nat
  BY DEF Connection
<1>5. r \in Connection
  BY <1>2, <1>4 DEF Connection
<1>. QED BY <1>3, <1>5

LEMMA FedStateIs ==
  ASSUME NEW s, Typed(s), NEW c \in Conn, NEW p \in Seq(Piece), NEW n \in Nat
  PROVE  FedState(s, c, p, n) = SetConn(s, c, Feed(s.conn[c], p, n))
<1>1. /\ s = [conn |-> s.conn, events |-> s.events, interest |-> s.interest, running |-> s.running]
      /\ s.conn = [d \in Conn |-> IF d = c THEN s.conn[c] ELSE s.conn[d]]
  BY TypedFunctions
<1>2. s.conn[c] \in Connection
  BY DEF Typed
<1>3. PICK k : k = s.conn[c]
  OBVIOUS
<1>4. PICK r : r = [k EXCEPT !.parser = p, !.reply = k.reply + n]
  OBVIOUS
<1>5. PICK v : v = [s EXCEPT !.conn[c].parser = p, !.conn[c].reply = @ + n]
  OBVIOUS
<1>6. s.conn = [d \in Conn |-> s.conn[d]]
  BY <1>1
<1>7. k \in Connection
  BY <1>2, <1>3
<1>8. v = [conn |-> [s.conn EXCEPT ![c] = [k EXCEPT !.parser = p, !.reply = k.reply + n]],
           events |-> s.events, interest |-> s.interest, running |-> s.running]
  <2>1. PICK cs, e, i, b : cs = s.conn /\ e = s.events /\ i = s.interest /\ b = s.running
    OBVIOUS
  <2>2. s = [conn |-> cs, events |-> e, interest |-> i, running |-> b]
    BY <1>1, <2>1
  <2>3. cs = [d \in Conn |-> cs[d]] /\ k = cs[c]
    BY <1>3, <1>6, <2>1
  <2>4. v = [conn |-> [cs EXCEPT ![c] = [k EXCEPT !.parser = p, !.reply = k.reply + n]],
             events |-> e, interest |-> i, running |-> b]
    BY <1>5, <1>7, <2>2, <2>3, StateFed
  <2>. QED BY <2>1, <2>4
<1>9. v = [conn |-> [s.conn EXCEPT ![c] = r], events |-> s.events, interest |-> s.interest, running |-> s.running]
  BY <1>4, <1>8, Zenon
<1>10. [s EXCEPT !.conn = [s.conn EXCEPT ![c] = r]]
          = [conn |-> [s.conn EXCEPT ![c] = r], events |-> s.events, interest |-> s.interest, running |-> s.running]
  <2>1. PICK cs : cs = [s.conn EXCEPT ![c] = r]
    OBVIOUS
  <2>2. [s EXCEPT !.conn = cs] = [conn |-> cs, events |-> s.events, interest |-> s.interest, running |-> s.running]
    BY <1>1
  <2>. QED BY <2>1, <2>2, Zenon
<1>11. v = SetConn(s, c, r)
  BY <1>9, <1>10, Zenon DEF SetConn
<1>12. r = Feed(s.conn[c], p, n) /\ v = FedState(s, c, p, n)
  BY <1>3, <1>4, <1>5, Zenon DEF Feed, FedState
<1>. QED BY <1>11, <1>12, Zenon

LEMMA CrashIs ==
  ASSUME NEW s, Typed(s), NEW c \in Conn
  PROVE  LET t == Crash(s)
         IN  /\ Typed(t) /\ t.conn = s.conn /\ t.running = FALSE
             /\ t.events = s.events /\ t.interest = s.interest
             /\ \A f : Elsewhere(s, t, c, f)
<1>1. /\ s = [conn |-> s.conn, events |-> s.events, interest |-> s.interest, running |-> s.running]
      /\ s.conn = [d \in Conn |-> IF d = c THEN s.conn[c] ELSE s.conn[d]]
      /\ s.events = [x \in DOMAIN s.events |-> s.events[x]]
      /\ s.interest = [x \in DOMAIN s.interest |-> s.interest[x]]
  BY TypedFunctions
<1>2. PICK t : t = Crash(s)
  OBVIOUS
<1>3. t = [conn |-> s.conn, events |-> s.events, interest |-> s.interest, running |-> FALSE]
  BY <1>1, <1>2 DEF Crash
<1>4. t.conn = s.conn /\ t.events = s.events /\ t.interest = s.interest /\ t.running = FALSE
  BY <1>3
<1>5. t = [conn |-> t.conn, events |-> t.events, interest |-> t.interest, running |-> t.running]
  BY <1>3, <1>4
<1>6. \A f : Elsewhere(s, t, c, f)
  BY <1>1, <1>4, <1>5 DEF Elsewhere
<1>7. Typed(t)
  <2>. HIDE DEF Connection
  <2>. QED BY <1>4, <1>5 DEF Typed
<1>. QED BY <1>2, <1>4, <1>6, <1>7

(* No exception has left process_event. *)
Runs(s) == s.running = TRUE

(* What processInputBuff does with n requests taken and p left. *)
Told(s, c, n) == IF n > 0 THEN create_file_event(s, s.conn[c].fd, {W}, c) ELSE s
Processed(s, c, p, n) ==
  IF ~Told(s, c, n).running THEN Told(s, c, n) ELSE FedState(Told(s, c, n), c, p, n)

Processes(s, t, c, f, n, p) ==
  LET k == s.conn[c]
  IN  /\ (n > 0 => k.fd = f) =>
            /\ Elsewhere(s, t, c, f) /\ Runs(t) /\ Typed(t)
            /\ t.conn[c] = Feed(k, p, n)
            /\ n = 0 => t.events = s.events /\ t.interest = s.interest
            /\ n > 0 => /\ f \in DOMAIN t.events
                        /\ t.events[f] = [mask |-> OldMask(s, f) \cup {W}, client |-> c]
                        /\ f \in DOMAIN t.interest /\ t.interest[f] = {W}
      /\ (n > 0 /\ k.fd = NoFd) => t = Crash(s)

LEMMA ProcessedIs ==
  ASSUME NEW s, Typed(s), Runs(s), NEW c \in Conn, NEW f \in Fd, NEW n \in Nat, NEW p \in Seq(Piece),
         NEW t, t = Processed(s, c, p, n)
  PROVE  Processes(s, t, c, f, n, p)
<1>10. PICK k : k = s.conn[c]
  OBVIOUS
<1>11. PICK r : r = Feed(k, p, n)
  OBVIOUS
<1>1. k \in Connection
  BY <1>10 DEF Typed
<1>2. PICK told : told = Told(s, c, n)
  OBVIOUS
<1>3. t = IF ~told.running THEN told ELSE FedState(told, c, p, n)
  BY <1>2, Zenon DEF Processed
<1>4. r \in Connection
  BY <1>1, <1>11, FeedIs
<1>5. ASSUME NEW u, Typed(u), Runs(u), u.conn = s.conn, NEW v,
             v = FedState(u, c, p, n)
      PROVE  /\ v.conn[c] = r /\ v.events = u.events /\ v.interest = u.interest /\ Runs(v)
             /\ Elsewhere(u, v, c, f) /\ Typed(v)
  <2>1. v = SetConn(u, c, r)
    BY <1>5, <1>10, <1>11, FedStateIs
  <2>6. Typed(u)
    BY <1>5
  <2>7. /\ Typed(v) /\ v.conn[c] = r /\ v.events = u.events /\ v.interest = u.interest
        /\ v.running = u.running /\ Elsewhere(u, v, c, f)
    BY <1>4, <2>1, <2>6, StateConn
  <2>8. Runs(v)
    BY <1>5, <2>7 DEF Runs
  <2>. QED BY <2>7, <2>8
<1>12. /\ (n > 0 => k.fd = f) =>
            /\ Elsewhere(s, t, c, f) /\ Runs(t) /\ Typed(t)
            /\ t.conn[c] = r
            /\ n = 0 => t.events = s.events /\ t.interest = s.interest
            /\ n > 0 => /\ f \in DOMAIN t.events
                        /\ t.events[f] = [mask |-> OldMask(s, f) \cup {W}, client |-> c]
                        /\ f \in DOMAIN t.interest /\ t.interest[f] = {W}
       /\ (n > 0 /\ k.fd = NoFd) => t = Crash(s)
  <2>6. CASE n = 0
    <3>1. told = s
      BY <1>2, <2>6 DEF Told
    <3>2. t = FedState(s, c, p, n)
      BY <1>3, <3>1 DEF Runs
    <3>3. /\ t.conn[c] = r /\ t.events = s.events /\ t.interest = s.interest /\ Runs(t)
          /\ Elsewhere(s, t, c, f) /\ Typed(t)
      BY <1>5, <3>2
    <3>4. ~(n > 0)
      BY <2>6
    <3>. QED BY <2>6, <3>3, <3>4, Zenon
  <2>7. CASE n > 0 /\ k.fd = f
    <3>1. told = create_file_event(s, f, {W}, c)
      BY <1>2, <1>10, <2>7 DEF Told
    <3>2. /\ Elsewhere(s, told, c, f) /\ told.conn = s.conn /\ told.running = s.running
          /\ f \in DOMAIN told.events /\ told.events[f] = [mask |-> OldMask(s, f) \cup {W}, client |-> c]
          /\ f \in DOMAIN told.interest /\ told.interest[f] = {W}
      BY <3>1, CreateIs
    <3>3. t = FedState(told, c, p, n) /\ Runs(told)
      <4>1. told.running = TRUE
        BY <3>2 DEF Runs
      <4>. QED BY <1>3, <4>1 DEF Runs
    <3>4. Typed(told)
      <4>1. told.conn[c] \in Connection /\ told.running \in BOOLEAN
        BY <1>1, <3>2 DEF Typed
      <4>2. told.events[f] \in FileEvent
        <5>1. OldMask(s, f) \in SUBSET {R, W}
          BY DEF Typed, FileEvent, OldMask
        <5>. QED BY <3>2, <5>1 DEF FileEvent
      <4>3. told.interest[f] \in (SUBSET {R, W}) \ {{}}
        <5>1. {W} \in (SUBSET {R, W}) \ {{}}
          BY MaskFacts
        <5>. QED BY <3>2, <5>1, Zenon
      <4>. QED BY <3>2, <4>1, <4>2, <4>3, TypedStep
    <3>5. /\ t.conn[c] = r /\ t.events = told.events /\ t.interest = told.interest /\ Runs(t)
          /\ Elsewhere(told, t, c, f) /\ Typed(t)
      BY <1>5, <3>2, <3>3, <3>4
    <3>6. Elsewhere(s, t, c, f)
      BY <3>2, <3>5, ElsewhereTrans
    <3>7. k.fd # NoFd /\ n # 0
      BY <2>7, FdAssumption DEF NoFd
    <3>. QED BY <2>7, <3>2, <3>5, <3>6, <3>7
  <2>8. CASE n > 0 /\ k.fd # f
    <3>1. ASSUME k.fd = NoFd PROVE t = Crash(s)
      <4>1. told = Crash(s)
        BY <1>2, <1>10, <2>8, <3>1 DEF Told, create_file_event
      <4>2. told.running = FALSE
        BY <4>1, CrashIs
      <4>. QED BY <1>3, <4>1, <4>2
    <3>2. ~(n > 0 => k.fd = f)
      BY <2>8
    <3>. QED BY <3>1, <3>2, Zenon
  <2>9. n = 0 \/ (n > 0 /\ k.fd = f) \/ (n > 0 /\ k.fd # f)
    OBVIOUS
  <2>. QED BY <2>6, <2>7, <2>8, <2>9, Zenon
<1>13. k.fd = s.conn[c].fd /\ r = Feed(s.conn[c], p, n)
  BY <1>10, <1>11, Zenon
<1>14. /\ (n > 0 => s.conn[c].fd = f) =>
            /\ Elsewhere(s, t, c, f) /\ Runs(t) /\ Typed(t)
            /\ t.conn[c] = Feed(s.conn[c], p, n)
            /\ n = 0 => t.events = s.events /\ t.interest = s.interest
            /\ n > 0 => /\ f \in DOMAIN t.events
                        /\ t.events[f] = [mask |-> OldMask(s, f) \cup {W}, client |-> c]
                        /\ f \in DOMAIN t.interest /\ t.interest[f] = {W}
       /\ (n > 0 /\ s.conn[c].fd = NoFd) => t = Crash(s)
  BY <1>12, <1>13
<1>. QED BY <1>14, Zenon DEF Processes

(* processInputBuff, of a client whose descriptor is open, or who has sent *)
(* no whole request; and of one who has, with a descriptor that is closed. *)
LEMMA ProcessIs ==
  ASSUME NEW s, NEW c, NEW query, NEW q, q = s.conn[c].parser \o query, NEW n, n = Taken(q), NEW p, p = Rest(q)
  PROVE  processInputBuff(s, c, query) = Processed(s, c, p, n)
BY Zenon DEF processInputBuff, Processed, Told, FedState

(* What each handler does to the invariant. *)
Kept(s, t, c, f) ==
  /\ Typed(t) /\ Elsewhere(s, t, c, f)
  /\ Runs(t) => Good(t)
  /\ ~Runs(t) => Stopped(t)

(* The end of a read: seen is the state after event_del, in one of four    *)
(* forms, and processInputBuff goes on from there.                         *)
SeenReading(s, k, f) ==
  /\ f \in DOMAIN s.events /\ s.events[f].mask = {R}
  /\ f \in DOMAIN s.interest /\ s.interest[f] = {R} /\ k.reply = 0 /\ k.fd = f

SeenWriting(s, k, f) ==
  /\ f \in DOMAIN s.events /\ s.events[f].mask \in {{R, W}, {W}}
  /\ f \in DOMAIN s.interest /\ s.interest[f] = {W} /\ k.reply > 0 /\ k.fd = f

SeenPending(s, k, f) ==
  /\ f \in DOMAIN s.events /\ s.events[f].mask = {} /\ f \notin DOMAIN s.interest
  /\ k.reply = 0 /\ k.fd = f /\ k.state = "fin"

SeenClosed(s, k, f) ==
  /\ f \notin DOMAIN s.events /\ f \notin DOMAIN s.interest
  /\ k.reply = 0 /\ k.fd = NoFd /\ k.state = "closed"

(* seen is s after a read has emptied the socket and event_del has run.    *)
Seen(s, seen, c, f) ==
  LET k  == s.conn[c]
      kk == seen.conn[c]
  IN  /\ Elsewhere(s, seen, c, f) /\ Runs(seen) /\ k.fd = f /\ k.state # "closed"
      /\ kk.wire = <<>> /\ kk.parser = k.parser /\ kk.pieces = k.pieces /\ kk.asked = k.asked
      /\ kk.reply = k.reply /\ kk.answered = k.answered
      /\ f \in DOMAIN seen.events => seen.events[f].client = c
      /\ \/ SeenReading(seen, kk, f) /\ kk.state \in {"open", "fin", "rst"}
         \/ SeenWriting(seen, kk, f) /\ kk.state \in {"open", "fin", "rst"}
         \/ SeenPending(seen, kk, f) /\ k.wire # <<>>
         \/ SeenClosed(seen, kk, f) /\ k.wire = <<>>

(* What is left of a read then. *)
ReadOn(s, seen, c) == processInputBuff(seen, c, s.conn[c].wire)

LEMMA ReadTail ==
  ASSUME NEW s, Typed(s), Good(s), NEW c \in Conn, NEW f \in Fd,
         NEW seen, Typed(seen), Seen(s, seen, c, f),
         NEW t, t = ReadOn(s, seen, c)
  PROVE  /\ Kept(s, t, c, f)
         /\ seen.conn[c].fd = f => Runs(t) /\ t.conn[c].state = seen.conn[c].state
<1>17. PICK k : k = s.conn[c]
  OBVIOUS
<1>18. PICK kk : kk = seen.conn[c]
  OBVIOUS
<1>19. /\ Elsewhere(s, seen, c, f) /\ Runs(seen) /\ k.fd = f /\ k.state # "closed"
       /\ f \in DOMAIN seen.events => seen.events[f].client = c
  BY <1>17, <1>18, Zenon DEF Seen
<1>20. /\ kk.wire = <<>> /\ kk.parser = k.parser /\ kk.pieces = k.pieces /\ kk.asked = k.asked
       /\ kk.reply = k.reply /\ kk.answered = k.answered
  BY <1>17, <1>18, Zenon DEF Seen
<1>21. \/ SeenReading(seen, kk, f) /\ kk.state \in {"open", "fin", "rst"}
       \/ SeenWriting(seen, kk, f) /\ kk.state \in {"open", "fin", "rst"}
       \/ SeenPending(seen, kk, f) /\ k.wire # <<>>
       \/ SeenClosed(seen, kk, f) /\ k.wire = <<>>
  BY <1>17, <1>18, Zenon DEF Seen
<1>22. t = processInputBuff(seen, c, k.wire)
  BY <1>17, Zenon DEF ReadOn
<1>1. k \in Connection /\ kk \in Connection
  BY <1>17, <1>18 DEF Typed
<1>2. k.wire \in Seq(Piece) /\ k.parser \in Seq(Piece) /\ k.reply \in Nat /\ k.answered \in Nat /\ k.asked \in Nat
  BY <1>1 DEF Connection
<1>3. PICK q \in Seq(Piece) : q = Sent(k)
  BY <1>1, SentType
<1>13. PICK n \in Nat : n = Taken(q)
  BY TakenIs
<1>14. PICK p \in Seq(Piece) : p = Rest(q)
  BY RestIs
<1>15. PICK r : r = Feed(kk, p, n)
  OBVIOUS
<1>16. q = kk.parser \o k.wire
  BY <1>3, <1>20 DEF Sent
<1>4. /\ (n > 0 => kk.fd = f) =>
            /\ Elsewhere(seen, t, c, f) /\ Runs(t) /\ Typed(t)
            /\ t.conn[c] = r
            /\ n = 0 => t.events = seen.events /\ t.interest = seen.interest
            /\ n > 0 => /\ f \in DOMAIN t.events
                        /\ t.events[f] = [mask |-> OldMask(seen, f) \cup {W}, client |-> c]
                        /\ f \in DOMAIN t.interest /\ t.interest[f] = {W}
      /\ (n > 0 /\ kk.fd = NoFd) => t = Crash(seen)
  <2>1. q = seen.conn[c].parser \o k.wire
    BY <1>16, <1>18, Zenon
  <2>2. t = Processed(seen, c, p, n)
    BY <1>13, <1>14, <1>22, <2>1, ProcessIs, Zenon
  <2>3. Runs(seen)
    BY <1>19, Zenon
  <2>4. Processes(seen, t, c, f, n, p)
    BY <2>2, <2>3, ProcessedIs
  <2>. QED BY <1>15, <1>18, <2>4, Zenon DEF Processes
<1>5. f # NoFd
  BY FdAssumption DEF NoFd
<1>6. Stream(k) /\ Balanced(k)
  BY <1>17 DEF Good
<1>7. r \in Connection
  BY <1>1, <1>15, FeedIs, Z3
<1>8. /\ r.state = kk.state /\ r.fd = kk.fd /\ r.wire = <<>> /\ r.pieces = k.pieces /\ r.asked = k.asked
      /\ r.parser = p /\ r.reply = k.reply + n /\ r.answered = k.answered
  <2>1. /\ r.state = kk.state /\ r.fd = kk.fd /\ r.wire = kk.wire /\ r.pieces = kk.pieces /\ r.asked = kk.asked
        /\ r.parser = p /\ r.reply = kk.reply + n /\ r.answered = kk.answered
    <3>1. r.state = kk.state
      BY <1>1, <1>15, FeedIs, Z3
    <3>2. r.reply = kk.reply + n
      BY <1>1, <1>15, FeedIs, Z3
    <3>3. r.fd = kk.fd /\ r.wire = kk.wire /\ r.pieces = kk.pieces
      BY <1>1, <1>15, FeedIs, Z3
    <3>4. r.asked = kk.asked /\ r.parser = p /\ r.answered = kk.answered
      BY <1>1, <1>15, FeedIs, Z3
    <3>. QED BY <3>1, <3>2, <3>3, <3>4
  <2>. QED BY <1>20, <2>1, Zenon
<1>9. /\ Stream(r) /\ Empties(r) = Empties(k)
      /\ Ends(k.wire) + Ends(k.parser) = n + Ends(r.wire) + Ends(r.parser)
      /\ (k.wire = <<>> /\ n > 0) => Empties(k) > 0
      /\ (k.wire # <<>> /\ n = 0) => (r.parser # <<>> \/ Empties(k) > 0)
  BY <1>1, <1>3, <1>6, <1>7, <1>8, <1>13, <1>14, StreamRead
<1>10. Balanced(r)
  <2>1. k.asked = Ends(k.wire) + Ends(k.parser) + k.reply + k.answered
    BY <1>6, <1>19 DEF Balanced
  <2>2. Ends(k.wire) \in Nat /\ Ends(k.parser) \in Nat
    BY <1>2, EndsIsEndsIn
  <2>3. Ends(r.wire) \in Nat /\ Ends(r.parser) \in Nat
    BY <1>7, EndsIsEndsIn DEF Connection
  <2>4. r.asked = Ends(r.wire) + Ends(r.parser) + r.reply + r.answered
    <3>1. PICK a \in Nat, b \in Nat : a = Ends(k.wire) /\ b = Ends(k.parser)
      BY <2>2, Zenon
    <3>2. PICK x \in Nat, y \in Nat : x = Ends(r.wire) /\ y = Ends(r.parser)
      BY <2>3, Zenon
    <3>3. PICK waiting \in Nat, done \in Nat : waiting = k.reply /\ done = k.answered
      BY <1>2
    <3>4. r.asked = k.asked /\ r.reply = waiting + n /\ r.answered = done
      BY <1>8, <3>3
    <3>5. a + b = n + x + y
      BY <1>9, <3>1, <3>2, Zenon
    <3>6. k.asked = a + b + waiting + done
      BY <2>1, <3>1, <3>3, Zenon
    <3>7. k.asked = x + y + (waiting + n) + done
      BY <3>1, <3>2, <3>3, <3>5, <3>6
    <3>. QED BY <3>2, <3>4, <3>7
  <2>. QED BY <2>4 DEF Balanced
<1>11. CASE kk.fd = f
  <2>1. /\ Elsewhere(seen, t, c, f) /\ Runs(t)
        /\ t.conn[c] = r
        /\ n = 0 => t.events = seen.events /\ t.interest = seen.interest
        /\ n > 0 => /\ f \in DOMAIN t.events
                    /\ t.events[f] = [mask |-> OldMask(seen, f) \cup {W}, client |-> c]
                    /\ f \in DOMAIN t.interest /\ t.interest[f] = {W}
    BY <1>4, <1>11
  <2>2. Typed(t)
    BY <1>4, <1>11
  <2>3. Elsewhere(s, t, c, f)
    BY <1>19, <2>1, ElsewhereTrans
  <2>4. ~SeenClosed(seen, kk, f)
    BY <1>5, <1>11 DEF SeenClosed
  <2>5. kk.state \in {"open", "fin", "rst"}
    BY <1>21, <2>4 DEF SeenPending
  <2>6. f \in DOMAIN t.events /\ t.events[f].client = c /\ r.fd = f /\ r.state \in {"open", "fin", "rst"}
    <3>1. f \in DOMAIN seen.events
      BY <1>21, <2>4 DEF SeenReading, SeenWriting, SeenPending
    <3>2. CASE n = 0
      BY <1>8, <1>11, <1>19, <2>1, <2>5, <3>1, <3>2
    <3>3. CASE n > 0
      BY <1>8, <1>11, <2>1, <2>5, <3>3
    <3>. QED BY <1>4, <3>2, <3>3
  <2>7. Reading(t, r) \/ Writing(t, r) \/ Forgotten(t, r)
    <3>1. CASE n = 0
      <4>1. t.events = seen.events /\ t.interest = seen.interest /\ r.reply = kk.reply
        BY <1>2, <1>8, <1>20, <2>1, <3>1
      <4>2. CASE SeenReading(seen, kk, f)
        BY <2>6, <4>1, <4>2 DEF SeenReading, Reading
      <4>3. CASE SeenWriting(seen, kk, f)
        BY <2>6, <4>1, <4>3 DEF SeenWriting, Writing
      <4>4. CASE SeenPending(seen, kk, f) /\ k.wire # <<>>
        BY <1>8, <1>9, <2>6, <3>1, <4>1, <4>4 DEF SeenPending, Forgotten
      <4>. QED BY <1>21, <2>4, <4>2, <4>3, <4>4
    <3>2. CASE n > 0
      <4>1. t.events[f].mask = OldMask(seen, f) \cup {W}
        BY <2>1, <3>2
      <4>2. OldMask(seen, f) \in {{R}, {R, W}, {W}, {}}
        BY <1>21, <2>4 DEF SeenReading, SeenWriting, SeenPending, OldMask
      <4>3. t.events[f].mask \in {{R, W}, {W}}
        BY <4>1, <4>2
      <4>4. r.reply > 0
        BY <1>2, <1>4, <1>8, <3>2
      <4>. QED BY <2>1, <2>6, <3>2, <4>3, <4>4 DEF Writing
    <3>. QED BY <1>4, <3>1, <3>2
  <2>8. Shaped(t, c)
    BY <2>1, <2>6, <2>7 DEF Shaped, Here
  <2>9. Good(t)
    BY <1>9, <1>10, <1>17, <1>19, <2>1, <2>3, <2>6, <2>8, GoodStep
  <2>10. t.conn[c].state = kk.state
    BY <1>8, <2>1
  <2>. QED BY <1>18, <2>1, <2>2, <2>3, <2>9, <2>10 DEF Kept
<1>12. CASE kk.fd # f
  <2>1. SeenClosed(seen, kk, f) /\ k.wire = <<>>
    BY <1>12, <1>21 DEF SeenReading, SeenWriting, SeenPending
  <2>2. kk.fd = NoFd /\ kk.state = "closed" /\ kk.reply = 0 /\ f \notin DOMAIN seen.events /\ f \notin DOMAIN seen.interest
    BY <2>1 DEF SeenClosed
  <2>3. CASE n = 0
    <3>1. Elsewhere(seen, t, c, f) /\ t.conn[c] = r /\ t.events = seen.events
          /\ t.interest = seen.interest /\ Runs(t) /\ Typed(t)
      BY <1>4, <2>3
    <3>2. Elsewhere(s, t, c, f)
      BY <1>19, <3>1, ElsewhereTrans
    <3>3. f \notin DOMAIN t.events /\ f \notin DOMAIN t.interest
      BY <2>2, <3>1
    <3>6. Shaped(t, c)
      <4>1. r.reply = 0
        BY <1>8, <1>20, <2>2, <2>3
      <4>. QED BY <1>8, <2>2, <3>1, <4>1 DEF Shaped, Away
    <3>7. Good(t)
      BY <1>9, <1>10, <1>17, <1>19, <3>1, <3>2, <3>3, <3>6, GoodStep
    <3>. QED BY <1>12, <1>18, <3>1, <3>2, <3>7 DEF Kept
  <2>4. CASE n > 0
    <3>1. t = Crash(seen)
      BY <1>4, <2>2, <2>4
    <3>2. Typed(t) /\ t.conn = seen.conn /\ t.running = FALSE /\ Elsewhere(seen, t, c, f)
      BY <3>1, CrashIs
    <3>3. Elsewhere(s, t, c, f)
      BY <1>19, <3>2, ElsewhereTrans
    <3>4. Empties(kk) = Empties(k)
      BY <1>20, <2>1 DEF Empties, Mid, Sent
    <3>5. Stopped(t)
      BY <1>9, <1>18, <2>1, <2>4, <3>2, <3>4 DEF Stopped
    <3>. QED BY <1>12, <1>18, <3>2, <3>3, <3>5 DEF Kept, Runs
  <2>5. n = 0 \/ n > 0
    BY <1>13
  <2>. QED BY <2>3, <2>4, <2>5, Zenon
<1>. QED BY <1>11, <1>12

(* A client that has a descriptor, and of which the loop reads.            *)
Readable(s, c, f) == Here(s, c) /\ s.conn[c].fd = f /\ R \in s.events[f].mask

(* What read_qurey_from_client has done before processInputBuff.           *)
ReadOut(s, c) == [s EXCEPT !.conn[c].wire = <<>>]
ReadSeen(s, c) ==
  IF s.conn[c].state = "fin"
  THEN event_del(ReadOut(s, c), s.conn[c].fd, {R}, s.conn[c].wire # <<>>) ELSE ReadOut(s, c)

LEMMA ReadOutIs ==
  ASSUME NEW s, Typed(s), NEW c \in Conn, NEW k, k = s.conn[c]
  PROVE  ReadOut(s, c) = SetConn(s, c, [k EXCEPT !.wire = <<>>])
<1>1. /\ s = [conn |-> s.conn, events |-> s.events, interest |-> s.interest, running |-> s.running]
      /\ s.conn = [d \in Conn |-> IF d = c THEN s.conn[c] ELSE s.conn[d]]
  BY TypedFunctions
<1>. QED BY <1>1 DEF ReadOut, SetConn

LEMMA SeenIs ==
  ASSUME NEW s, Typed(s), Runs(s), NEW c \in Conn, NEW f \in Fd, Readable(s, c, f)
  PROVE  /\ Typed(ReadSeen(s, c)) /\ Seen(s, ReadSeen(s, c), c, f)
         /\ s.conn[c].state # "fin" => /\ ReadSeen(s, c).conn[c].fd = f
                                       /\ ReadSeen(s, c).conn[c].state = s.conn[c].state
<1>1. PICK k : k = s.conn[c]
  OBVIOUS
<1>2. k \in Connection
  BY <1>1 DEF Typed
<1>3. PICK k1 : k1 = [k EXCEPT !.wire = <<>>]
  OBVIOUS
<1>4. /\ k1 \in Connection
      /\ k1.state = k.state /\ k1.fd = k.fd /\ k1.wire = <<>> /\ k1.pieces = k.pieces /\ k1.asked = k.asked
      /\ k1.parser = k.parser /\ k1.reply = k.reply /\ k1.answered = k.answered
  BY <1>2, <1>3, RecordRead
<1>5. PICK u : u = ReadOut(s, c)
  OBVIOUS
<1>6. u = SetConn(s, c, k1)
  <2>1. ReadOut(s, c) = SetConn(s, c, [k EXCEPT !.wire = <<>>])
    BY <1>1, ReadOutIs
  <2>. QED BY <1>3, <1>5, <2>1, Zenon
<1>7. /\ Typed(u) /\ u.conn[c] = k1 /\ u.events = s.events /\ u.interest = s.interest /\ u.running = s.running
      /\ Elsewhere(s, u, c, f)
  BY <1>4, <1>6, StateConn
<1>8. /\ k.fd = f /\ f \in DOMAIN s.events /\ s.events[f].client = c /\ R \in s.events[f].mask
      /\ k.state \in {"open", "fin", "rst"}
      /\ Reading(s, k) \/ Writing(s, k) \/ Forgotten(s, k)
  BY <1>1 DEF Readable, Here
<1>9. \/ s.events[f].mask = {R} /\ f \in DOMAIN s.interest /\ s.interest[f] = {R} /\ k.reply = 0
      \/ s.events[f].mask = {R, W} /\ f \in DOMAIN s.interest /\ s.interest[f] = {W} /\ k.reply > 0
  <2>1. R # W
    BY MaskFacts
  <2>. QED BY <1>8, <2>1 DEF Reading, Writing, Forgotten
<1>10. PICK seen : seen = ReadSeen(s, c)
  OBVIOUS
<1>11. CASE k.state # "fin"
  <2>1. seen = u
    BY <1>1, <1>5, <1>10, <1>11 DEF ReadSeen
  <2>2. SeenReading(seen, k1, f) \/ SeenWriting(seen, k1, f)
    BY <1>4, <1>7, <1>8, <1>9, <2>1 DEF SeenReading, SeenWriting
  <2>3. k.state # "closed" /\ k1.state \in {"open", "fin", "rst"}
    BY <1>4, <1>8
  <2>4. Runs(seen)
    BY <1>7, <2>1 DEF Runs
  <2>5. Seen(s, seen, c, f)
    BY <1>1, <1>4, <1>7, <1>8, <2>1, <2>2, <2>3, <2>4 DEF Seen
  <2>. QED BY <1>1, <1>4, <1>7, <1>8, <1>10, <2>1, <2>5
<1>12. CASE k.state = "fin"
  <2>1. PICK pending : pending = (k.wire # <<>>)
    OBVIOUS
  <2>2. seen = event_del(u, f, {R}, pending)
    BY <1>1, <1>5, <1>8, <1>10, <1>12, <2>1 DEF ReadSeen
  <2>3. Deleted(u, seen, c, f, {R}, pending)
    <3>1. f \in DOMAIN u.events /\ u.events[f].client = c /\ f \in DOMAIN u.interest
      BY <1>7, <1>8, <1>9
    <3>2. Typed(u)
      BY <1>7
    <3>3. Deleted(u, event_del(u, f, {R}, pending), c, f, {R}, pending)
      BY <3>1, <3>2, EventDelIs, Zenon
    <3>. QED BY <2>2, <3>3, Zenon
  <2>4. Elsewhere(s, seen, c, f) /\ Runs(seen)
    <3>1. Elsewhere(u, seen, c, f) /\ seen.running = u.running
      BY <2>3, Zenon DEF Deleted
    <3>2. Elsewhere(s, seen, c, f)
      BY <1>7, <3>1, ElsewhereTrans
    <3>. QED BY <1>7, <3>1, <3>2 DEF Runs
  <2>5. \/ /\ seen.conn = u.conn /\ f \in DOMAIN seen.events /\ seen.events[f] = [mask |-> {W}, client |-> c]
           /\ f \in DOMAIN seen.interest /\ seen.interest[f] = {W} /\ k.reply > 0
        \/ /\ seen.conn = u.conn /\ f \in DOMAIN seen.events /\ seen.events[f] = [mask |-> {}, client |-> c]
           /\ f \notin DOMAIN seen.interest /\ k.reply = 0 /\ k.wire # <<>>
        \/ /\ seen.conn[c] = ClosedConn(k1) /\ f \notin DOMAIN seen.events /\ f \notin DOMAIN seen.interest
           /\ k.reply = 0 /\ k.wire = <<>>
    <3>1. CASE s.events[f].mask = {R}
      <4>1. u.events[f].mask \ {R} = {} /\ k.reply = 0
        BY <1>7, <1>9, <3>1, MaskFacts
      <4>2. CASE k.wire # <<>>
        <5>1. pending
          BY <2>1, <4>2
        <5>. QED BY <2>3, <4>1, <4>2, <5>1 DEF Deleted
      <4>3. CASE k.wire = <<>>
        <5>1. ~pending
          BY <2>1, <4>3
        <5>. QED BY <1>7, <2>3, <4>1, <4>3, <5>1 DEF Deleted
      <4>. QED BY <4>2, <4>3
    <3>2. CASE s.events[f].mask = {R, W}
      <4>1. u.events[f].mask \ {R} = {W} /\ k.reply > 0
        BY <1>7, <1>9, <3>2, MaskFacts
      <4>2. {W} # {}
        OBVIOUS
      <4>. QED BY <2>3, <4>1, <4>2 DEF Deleted
    <3>. QED BY <1>9, <3>1, <3>2
  <2>6. PICK r : r = ClosedConn(k1)
    OBVIOUS
  <2>7. /\ r \in Connection
        /\ r.state = "closed" /\ r.fd = NoFd /\ r.wire = <<>> /\ r.pieces = k.pieces /\ r.asked = k.asked
        /\ r.parser = k.parser /\ r.reply = k.reply /\ r.answered = k.answered
    BY <1>4, <2>6, RecordClosed
  <2>8. PICK kk : kk = seen.conn[c]
    OBVIOUS
  <2>9. /\ kk \in Connection
        /\ kk.wire = <<>> /\ kk.parser = k.parser /\ kk.pieces = k.pieces /\ kk.asked = k.asked
        /\ kk.reply = k.reply /\ kk.answered = k.answered
    <3>1. kk = k1 \/ kk = r
      BY <1>7, <2>5, <2>6, <2>8
    <3>. QED BY <1>4, <2>7, <3>1
  <2>10. /\ f \in DOMAIN seen.events => seen.events[f].client = c
         /\ \/ SeenWriting(seen, kk, f) /\ kk.state = "fin"
            \/ SeenPending(seen, kk, f) /\ k.wire # <<>>
            \/ SeenClosed(seen, kk, f) /\ k.wire = <<>>
    <3>1. seen.conn = u.conn => kk.fd = f /\ kk.state = "fin"
      BY <1>4, <1>7, <1>8, <1>12, <2>8
    <3>2. kk.reply = k.reply
      BY <2>9
    <3>3. seen.conn[c] = ClosedConn(k1) => kk.fd = NoFd /\ kk.state = "closed"
      BY <2>6, <2>7, <2>8
    <3>. QED BY <2>5, <3>1, <3>2, <3>3 DEF SeenWriting, SeenPending, SeenClosed
  <2>11. Seen(s, seen, c, f)
    BY <1>1, <1>8, <2>4, <2>8, <2>9, <2>10 DEF Seen
  <2>12. Typed(seen)
    <3>1. seen.running \in BOOLEAN
      BY <2>4 DEF Runs
    <3>2. f \in DOMAIN seen.events => seen.events[f] \in FileEvent
      BY <2>5, MaskFacts DEF FileEvent
    <3>3. f \in DOMAIN seen.interest => seen.interest[f] \in (SUBSET {R, W}) \ {{}}
      BY <2>5, MaskFacts
    <3>. QED BY <2>4, <2>8, <2>9, <3>1, <3>2, <3>3, TypedStep
  <2>. QED BY <1>1, <1>10, <1>12, <2>11, <2>12
<1>. QED BY <1>1, <1>11, <1>12

LEMMA ReadIs ==
  ASSUME NEW s, NEW c
  PROVE  read_qurey_from_client(s, c, {R}) =
           IF s.conn[c].state = "rst" THEN Crash(ReadOn(s, ReadSeen(s, c), c)) ELSE ReadOn(s, ReadSeen(s, c), c)
BY Zenon DEF read_qurey_from_client, ReadOn, ReadSeen, ReadOut

(* A read keeps the invariant. *)
LEMMA ReadKept ==
  ASSUME NEW s, Typed(s), Runs(s), Good(s), NEW c \in Conn, NEW f \in Fd, Readable(s, c, f),
         NEW t, t = read_qurey_from_client(s, c, {R})
  PROVE  Kept(s, t, c, f)
<1>1. PICK seen : seen = ReadSeen(s, c)
  OBVIOUS
<1>2. PICK done : done = ReadOn(s, seen, c)
  OBVIOUS
<1>3. t = IF s.conn[c].state = "rst" THEN Crash(done) ELSE done
  BY <1>1, <1>2, ReadIs, Zenon
<1>4. /\ Typed(seen) /\ Seen(s, seen, c, f)
      /\ s.conn[c].state # "fin" => seen.conn[c].fd = f /\ seen.conn[c].state = s.conn[c].state
  BY <1>1, SeenIs
<1>5. /\ Kept(s, done, c, f)
      /\ seen.conn[c].fd = f => Runs(done) /\ done.conn[c].state = seen.conn[c].state
  BY <1>2, <1>4, ReadTail
<1>6. CASE s.conn[c].state # "rst"
  BY <1>3, <1>5, <1>6
<1>7. CASE s.conn[c].state = "rst"
  <2>1. t = Crash(done) /\ done.conn[c].state = "rst"
    BY <1>3, <1>4, <1>5, <1>7
  <2>2. Typed(done) /\ Elsewhere(s, done, c, f)
    BY <1>5 DEF Kept
  <2>3. Typed(t) /\ t.conn = done.conn /\ t.running = FALSE /\ Elsewhere(done, t, c, f)
    BY <2>1, <2>2, CrashIs
  <2>4. Elsewhere(s, t, c, f)
    BY <2>2, <2>3, ElsewhereTrans
  <2>5. Stopped(t) /\ ~Runs(t)
    BY <2>1, <2>3 DEF Stopped, Runs
  <2>. QED BY <2>3, <2>4, <2>5 DEF Kept
<1>. QED BY <1>6, <1>7

(* What the pieces of a connection say depends on them alone. *)
LEMMA StreamSame ==
  ASSUME NEW k, NEW k2, k2.wire = k.wire, k2.parser = k.parser, k2.pieces = k.pieces, k2.asked = k.asked
  PROVE  Empties(k2) = Empties(k) /\ (Stream(k) => Stream(k2))
<1>1. Sent(k2) = Sent(k)
  BY DEF Sent
<1>2. Mid(k2) <=> Mid(k)
  BY <1>1, Zenon DEF Mid
<1>3. Empties(k2) = Empties(k)
  BY <1>2 DEF Empties
<1>. QED BY <1>1, <1>3 DEF Stream

(* A client that has a descriptor, and to which the loop writes.           *)
Writable(s, c, f) == Here(s, c) /\ s.conn[c].fd = f /\ W \in s.events[f].mask

SentTo(s, c) == [s EXCEPT !.conn[c].answered = @ + s.conn[c].reply, !.conn[c].reply = 0]

LEMMA SentToIs ==
  ASSUME NEW s, Typed(s), NEW c \in Conn
  PROVE  SentTo(s, c) = SetConn(s, c, Answered(s.conn[c]))
<1>1. /\ s = [conn |-> s.conn, events |-> s.events, interest |-> s.interest, running |-> s.running]
      /\ s.conn = [d \in Conn |-> IF d = c THEN s.conn[c] ELSE s.conn[d]]
  BY TypedFunctions
<1>. QED BY <1>1 DEF SentTo, SetConn, Answered

LEMMA SendIs ==
  ASSUME NEW s, NEW c
  PROVE  send_reply_to_client(s, c) =
           IF s.conn[c].state = "rst" THEN Crash(s) ELSE event_del(SentTo(s, c), s.conn[c].fd, {W}, FALSE)
BY Zenon DEF send_reply_to_client, SentTo

(* Sending the replies keeps the invariant. *)
LEMMA SendKept ==
  ASSUME NEW s, Typed(s), Runs(s), Good(s), NEW c \in Conn, NEW f \in Fd, Writable(s, c, f),
         NEW t, t = send_reply_to_client(s, c)
  PROVE  Kept(s, t, c, f)
<1>1. PICK k : k = s.conn[c]
  OBVIOUS
<1>2. k \in Connection /\ Stream(k) /\ Balanced(k)
  BY <1>1 DEF Typed, Good
<1>3. /\ k.fd = f /\ f \in DOMAIN s.events /\ s.events[f].client = c /\ W \in s.events[f].mask
      /\ k.state \in {"open", "fin", "rst"}
      /\ Reading(s, k) \/ Writing(s, k) \/ Forgotten(s, k)
  BY <1>1 DEF Writable, Here
<1>4. s.events[f].mask \in {{R, W}, {W}} /\ f \in DOMAIN s.interest /\ s.interest[f] = {W} /\ k.reply > 0
  BY <1>3, MaskFacts DEF Reading, Writing, Forgotten
<1>5. t = IF k.state = "rst" THEN Crash(s) ELSE event_del(SentTo(s, c), f, {W}, FALSE)
  BY <1>1, <1>3, SendIs
<1>6. CASE k.state = "rst"
  <2>1. Typed(t) /\ t.conn = s.conn /\ t.running = FALSE /\ Elsewhere(s, t, c, f)
    BY <1>5, <1>6, CrashIs
  <2>2. Stopped(t) /\ ~Runs(t)
    BY <1>1, <1>6, <2>1 DEF Stopped, Runs
  <2>. QED BY <2>1, <2>2 DEF Kept
<1>7. CASE k.state # "rst"
  <2>1. PICK u : u = SentTo(s, c)
    OBVIOUS
  <2>2. PICK k1 : k1 = Answered(k)
    OBVIOUS
  <2>3. /\ k1 \in Connection
        /\ k1.state = k.state /\ k1.fd = k.fd /\ k1.wire = k.wire /\ k1.pieces = k.pieces /\ k1.asked = k.asked
        /\ k1.parser = k.parser /\ k1.reply = 0 /\ k1.answered = k.answered + k.reply
    BY <1>2, <2>2, RecordAnswered
  <2>4. u = SetConn(s, c, k1)
    BY <1>1, <2>1, <2>2, SentToIs
  <2>5. /\ Typed(u) /\ u.conn[c] = k1 /\ u.events = s.events /\ u.interest = s.interest /\ u.running = s.running
        /\ Elsewhere(s, u, c, f)
    BY <2>3, <2>4, StateConn
  <2>6. t = event_del(u, f, {W}, FALSE)
    BY <1>5, <1>7, <2>1
  <2>7. Deleted(u, t, c, f, {W}, FALSE)
    <3>1. f \in DOMAIN u.events /\ u.events[f].client = c /\ f \in DOMAIN u.interest
      BY <1>3, <1>4, <2>5
    <3>2. Typed(u)
      BY <2>5
    <3>3. Deleted(u, event_del(u, f, {W}, FALSE), c, f, {W}, FALSE)
      BY <3>1, <3>2, EventDelIs, Zenon
    <3>. QED BY <2>6, <3>3, Zenon
  <2>8. Elsewhere(s, t, c, f) /\ Runs(t)
    <3>1. Elsewhere(u, t, c, f) /\ t.running = u.running
      BY <2>7, Zenon DEF Deleted
    <3>2. Elsewhere(s, t, c, f)
      BY <2>5, <3>1, ElsewhereTrans
    <3>. QED BY <2>5, <3>1, <3>2 DEF Runs
  <2>9. PICK r : r = ClosedConn(k1)
    OBVIOUS
  <2>10. /\ r \in Connection
         /\ r.state = "closed" /\ r.fd = NoFd /\ r.wire = k.wire /\ r.pieces = k.pieces /\ r.asked = k.asked
         /\ r.parser = k.parser /\ r.reply = 0
    BY <2>3, <2>9, RecordClosed
  <2>11. \/ /\ t.conn[c] = k1 /\ f \in DOMAIN t.events /\ t.events[f] = [mask |-> {R}, client |-> c]
            /\ f \in DOMAIN t.interest /\ t.interest[f] = {R}
         \/ /\ t.conn[c] = r /\ f \notin DOMAIN t.events /\ f \notin DOMAIN t.interest
    <3>1. CASE s.events[f].mask = {W}
      <4>1. u.events[f].mask \ {W} = {}
        BY <2>5, <3>1
      <4>. QED BY <2>5, <2>7, <2>9, <4>1 DEF Deleted
    <3>2. CASE s.events[f].mask = {R, W}
      <4>1. u.events[f].mask \ {W} = {R}
        BY <2>5, <3>2, MaskFacts
      <4>2. {R} # {}
        OBVIOUS
      <4>. QED BY <2>5, <2>7, <4>1, <4>2 DEF Deleted
    <3>. QED BY <1>4, <3>1, <3>2
  <2>12. PICK kk : kk = t.conn[c]
    OBVIOUS
  <2>13. /\ kk \in Connection /\ kk.reply = 0
         /\ kk.wire = k.wire /\ kk.parser = k.parser /\ kk.pieces = k.pieces /\ kk.asked = k.asked
    BY <2>3, <2>10, <2>11, <2>12
  <2>14. Stream(kk)
    BY <1>2, <2>13, StreamSame
  <2>15. Balanced(kk)
    <3>1. CASE kk = k1
      <4>1. k.asked = Ends(k.wire) + Ends(k.parser) + k.reply + k.answered
        BY <1>2, <1>3 DEF Balanced
      <4>2. k.reply \in Nat /\ k.answered \in Nat /\ k.wire \in Seq(Piece) /\ k.parser \in Seq(Piece)
        BY <1>2 DEF Connection
      <4>3. Ends(k.wire) \in Nat /\ Ends(k.parser) \in Nat
        BY <4>2, EndsIsEndsIn
      <4>4. k1.asked = Ends(k1.wire) + Ends(k1.parser) + k1.reply + k1.answered
        <5>1. Ends(k1.wire) = Ends(k.wire) /\ Ends(k1.parser) = Ends(k.parser)
          BY <2>3
        <5>. QED BY <2>3, <4>1, <4>2, <4>3, <5>1
      <4>. QED BY <3>1, <4>4 DEF Balanced
    <3>2. CASE kk = r
      BY <2>10, <3>2 DEF Balanced
    <3>. QED BY <2>11, <2>12, <3>1, <3>2
  <2>16. Shaped(t, c)
    <3>1. CASE kk = k1 /\ f \in DOMAIN t.events /\ t.events[f] = [mask |-> {R}, client |-> c]
               /\ f \in DOMAIN t.interest /\ t.interest[f] = {R}
      <4>1. Reading(t, kk)
        BY <1>3, <2>3, <3>1 DEF Reading
      <4>2. Here(t, c)
        BY <1>3, <2>3, <2>12, <3>1, <4>1 DEF Here
      <4>. QED BY <4>2 DEF Shaped
    <3>2. CASE kk = r
      BY <2>10, <2>12, <3>2 DEF Shaped, Away
    <3>. QED BY <2>11, <2>12, <3>1, <3>2
  <2>17. Typed(t)
    <3>1. t.running \in BOOLEAN
      BY <2>8 DEF Runs
    <3>2. f \in DOMAIN t.events => t.events[f] \in FileEvent
      BY <2>11, MaskFacts DEF FileEvent
    <3>3. f \in DOMAIN t.interest => t.interest[f] \in (SUBSET {R, W}) \ {{}}
      BY <2>11, MaskFacts
    <3>. QED BY <2>8, <2>12, <2>13, <3>1, <3>2, <3>3, TypedStep
  <2>18. Good(t)
    <3>1. f \in DOMAIN t.events => t.events[f].client = c /\ t.conn[c].fd = f
      BY <1>3, <2>3, <2>11
    <3>2. f \in DOMAIN t.interest => f \in DOMAIN t.events
      BY <2>11
    <3>3. s.conn[c].fd = f
      BY <1>1, <1>3
    <3>. QED BY <2>8, <2>12, <2>14, <2>15, <2>16, <3>1, <3>2, <3>3, GoodStep
  <2>. QED BY <2>8, <2>17, <2>18 DEF Kept
<1>. QED BY <1>6, <1>7

(* Not every descriptor is taken while a connection has none. *)
FreeFds(s) == {x \in Fd : \A d \in Conn : s.conn[d].fd # x}

LEMMA FreeFd ==
  ASSUME NEW s, NEW c \in Conn, s.conn[c].fd = NoFd
  PROVE  Min(FreeFds(s)) \in FreeFds(s)
<1>1. FreeFds(s) # {}
  <2>1. SUFFICES ASSUME FreeFds(s) = {} PROVE FALSE
    OBVIOUS
  <2> DEFINE Others == Conn \ {c}
             g == [d \in Others |-> IF s.conn[d].fd \in Fd THEN s.conn[d].fd ELSE CHOOSE x \in Fd : TRUE]
  <2>2. \A x \in Fd : \E d \in Others : s.conn[d].fd = x
    <3>1. NoFd \notin Fd
      BY FdAssumption DEF NoFd
    <3>. QED BY <2>1, <3>1 DEF FreeFds
  <2>3. IsFiniteSet(Others) /\ Cardinality(Others) = Cardinality(Conn) - 1
    BY FdAssumption, FS_RemoveElement
  <2>4. Cardinality(Fd) <= Cardinality(Others)
    <3>1. CASE Fd = {}
      <4>1. Cardinality(Fd) = 0 /\ Cardinality(Others) \in Nat
        BY <2>3, <3>1, FS_EmptySet, FS_CardinalityType
      <4>. QED BY <4>1
    <3>2. CASE Fd # {}
      <4>1. g \in [Others -> Fd]
        BY <3>2
      <4>2. \A x \in Fd : \E d \in Others : g[d] = x
        BY <2>2
      <4>. HIDE DEF g, Others
      <4>3. g \in Surjection(Others, Fd)
        BY <4>1, <4>2, Fun_IsSurj
      <4>. QED BY <2>3, <4>3, FS_Surjection
    <3>. QED BY <3>1, <3>2
  <2>5. Cardinality(Conn) \in Nat /\ Cardinality(Fd) \in Nat /\ Cardinality(Conn) <= Cardinality(Fd)
    BY FdAssumption, FS_CardinalityType
  <2>. QED BY <2>3, <2>4, <2>5
<1>2. FreeFds(s) \in SUBSET Nat
  BY FdAssumption DEF FreeFds
<1>3. \E x \in FreeFds(s) : \A y \in FreeFds(s) : x <= y
  BY <1>1, <1>2, LeastNat
<1>. QED BY <1>3 DEF Min

AcceptedTo(s, c, f) == [s EXCEPT !.conn[c].fd = f, !.conn[c].state = "open"]

LEMMA AcceptedToIs ==
  ASSUME NEW s, Typed(s), NEW c \in Conn, NEW f
  PROVE  AcceptedTo(s, c, f) = SetConn(s, c, OpenConn(s.conn[c], f))
<1>1. /\ s = [conn |-> s.conn, events |-> s.events, interest |-> s.interest, running |-> s.running]
      /\ s.conn = [d \in Conn |-> IF d = c THEN s.conn[c] ELSE s.conn[d]]
  BY TypedFunctions
<1>. QED BY <1>1 DEF AcceptedTo, SetConn, OpenConn

LEMMA AcceptIs ==
  ASSUME NEW s, NEW c, NEW f, f = Min(FreeFds(s))
  PROVE  accept_tcp_handler(s, c) = create_file_event(AcceptedTo(s, c, f), f, {R}, c)
BY Zenon DEF accept_tcp_handler, AcceptedTo, FreeFds

(* Accepting a connection keeps the invariant. *)
LEMMA AcceptKept ==
  ASSUME NEW s, Typed(s), Runs(s), Good(s), NEW c \in Conn, s.conn[c].state = "backlog",
         NEW t, t = accept_tcp_handler(s, c)
  PROVE  \E f \in Fd : Kept(s, t, c, f) /\ f \notin DOMAIN s.events
<1>1. PICK k : k = s.conn[c]
  OBVIOUS
<1>2. k \in Connection /\ Stream(k) /\ Balanced(k)
  BY <1>1 DEF Typed, Good
<1>3. k.fd = NoFd /\ k.reply = 0 /\ k.state = "backlog"
  BY <1>1 DEF Good, Shaped, Away, Here
<1>4. PICK f : f = Min(FreeFds(s))
  OBVIOUS
<1>5. f \in Fd /\ \A d \in Conn : s.conn[d].fd # f
  BY <1>1, <1>3, <1>4, FreeFd DEF FreeFds
<1>6. f \notin DOMAIN s.events /\ f \notin DOMAIN s.interest
  BY <1>5 DEF Good, Linked
<1>7. PICK k1 : k1 = OpenConn(k, f)
  OBVIOUS
<1>8. /\ k1 \in Connection
      /\ k1.state = "open" /\ k1.fd = f /\ k1.wire = k.wire /\ k1.pieces = k.pieces /\ k1.asked = k.asked
      /\ k1.parser = k.parser /\ k1.reply = k.reply /\ k1.answered = k.answered
  BY <1>2, <1>5, <1>7, RecordAccepted
<1>9. PICK u : u = AcceptedTo(s, c, f)
  OBVIOUS
<1>10. u = SetConn(s, c, k1)
  BY <1>1, <1>7, <1>9, AcceptedToIs
<1>11. /\ Typed(u) /\ u.conn[c] = k1 /\ u.events = s.events /\ u.interest = s.interest /\ u.running = s.running
       /\ Elsewhere(s, u, c, f)
  BY <1>8, <1>10, StateConn
<1>12. t = create_file_event(u, f, {R}, c)
  BY <1>4, <1>9, AcceptIs
<1>13. /\ Elsewhere(u, t, c, f) /\ t.conn = u.conn /\ t.running = u.running
       /\ f \in DOMAIN t.events /\ t.events[f] = [mask |-> OldMask(u, f) \cup {R}, client |-> c]
       /\ f \in DOMAIN t.interest /\ t.interest[f] = {R}
  BY <1>5, <1>11, <1>12, CreateIs
<1>14. Elsewhere(s, t, c, f) /\ Runs(t)
  <2>1. Elsewhere(s, t, c, f)
    BY <1>11, <1>13, ElsewhereTrans
  <2>. QED BY <1>11, <1>13, <2>1 DEF Runs
<1>15. t.events[f] = [mask |-> {R}, client |-> c]
  <2>1. OldMask(u, f) = {}
    BY <1>6, <1>11 DEF OldMask
  <2>. QED BY <1>13, <2>1
<1>16. t.conn[c] = k1 /\ k1.reply = 0
  BY <1>3, <1>8, <1>11, <1>13
<1>17. Typed(t)
  <2>1. t.running \in BOOLEAN
    BY <1>14 DEF Runs
  <2>2. t.events[f] \in FileEvent
    BY <1>15, MaskFacts DEF FileEvent
  <2>3. t.interest[f] \in (SUBSET {R, W}) \ {{}}
    BY <1>13, MaskFacts
  <2>. QED BY <1>5, <1>8, <1>14, <1>16, <2>1, <2>2, <2>3, TypedStep
<1>18. Shaped(t, c)
  <2>1. Reading(t, k1)
    BY <1>8, <1>13, <1>15, <1>16 DEF Reading
  <2>2. Here(t, c)
    BY <1>5, <1>8, <1>13, <1>15, <1>16, <2>1 DEF Here
  <2>. QED BY <2>2 DEF Shaped
<1>19. Stream(k1) /\ Balanced(k1)
  <2>1. Stream(k1)
    BY <1>2, <1>8, StreamSame
  <2>2. Balanced(k1)
    BY <1>2, <1>3, <1>8 DEF Balanced
  <2>. QED BY <2>1, <2>2
<1>20. Good(t)
  <2>1. s.conn[c].fd = NoFd
    BY <1>1, <1>3
  <2>. QED BY <1>5, <1>8, <1>13, <1>14, <1>15, <1>16, <1>18, <1>19, <2>1, GoodStep
<1>. QED BY <1>5, <1>6, <1>14, <1>17, <1>20 DEF Kept

-----------------------------------------------------------------------------
(* The steps of the peers. *)

(* A peer changes neither what the loop knows of a connection nor what it  *)
(* has taken from it.                                                      *)
PeerMoves(k, k2) ==
  /\ k2.fd = k.fd /\ k2.reply = k.reply /\ k2.parser = k.parser /\ Empties(k2) >= Empties(k)
  /\ k.state \in {"new", "backlog", "closed"} => k2.state \in {"new", "backlog", "closed"}
  /\ k.state \in {"open", "fin", "rst"} => k2.state \in {"open", "fin", "rst"}
  /\ k.state \in {"fin", "rst"} => k2.state \in {"fin", "rst"}
  /\ k.state = "rst" => k2.state = "rst"

LEMMA PeerGood ==
  ASSUME NEW s, Typed(s), NEW c \in Conn, NEW k2 \in Connection, NEW t, t = SetConn(s, c, k2),
         PeerMoves(s.conn[c], k2), Good(s) => Stream(k2) /\ Balanced(k2)
  PROVE  /\ Typed(t) /\ t.events = s.events /\ t.running = s.running
         /\ Good(s) => Good(t)
         /\ Stopped(s) => Stopped(t)
<1>1. /\ Typed(t) /\ t.conn[c] = k2 /\ t.events = s.events /\ t.interest = s.interest /\ t.running = s.running
      /\ \A f : Elsewhere(s, t, c, f)
  BY StateConn
<1>2. \A d \in Conn : d # c => t.conn[d] = s.conn[d]
  <2>1. PICK f : f = NoFd
    OBVIOUS
  <2>2. t.conn = [d \in Conn |-> IF d = c THEN t.conn[c] ELSE s.conn[d]]
    BY <1>1 DEF Elsewhere
  <2>. QED BY <2>2
<1>3. PICK k : k = s.conn[c]
  OBVIOUS
<1>4. k \in Connection /\ Empties(k) \in Int /\ Empties(k2) \in Int
  <2>1. k \in Connection
    BY <1>3 DEF Typed
  <2>. QED BY <2>1, SentType
<1>5. /\ k2.fd = k.fd /\ k2.reply = k.reply /\ k2.parser = k.parser /\ Empties(k2) >= Empties(k)
      /\ k.state \in {"new", "backlog", "closed"} => k2.state \in {"new", "backlog", "closed"}
      /\ k.state \in {"open", "fin", "rst"} => k2.state \in {"open", "fin", "rst"}
      /\ k.state \in {"fin", "rst"} => k2.state \in {"fin", "rst"}
      /\ k.state = "rst" => k2.state = "rst"
  BY <1>3 DEF PeerMoves
<1>6. ASSUME Stopped(s) PROVE Stopped(t)
  <2>1. PICK d \in Conn : s.conn[d].state = "rst" \/ Empties(s.conn[d]) > 0
    BY <1>6 DEF Stopped
  <2>2. CASE d = c
    BY <1>1, <1>3, <1>4, <1>5, <2>1, <2>2 DEF Stopped
  <2>3. CASE d # c
    BY <1>2, <2>1, <2>3 DEF Stopped
  <2>. QED BY <2>2, <2>3
<1>7. ASSUME Good(s) PROVE Good(t)
  <2>1. \A d \in Conn : t.conn[d].fd = s.conn[d].fd
    BY <1>1, <1>2, <1>3, <1>5
  <2>2. Linked(t)
    BY <1>1, <1>7, <2>1 DEF Good, Linked
  <2>3. ASSUME NEW d \in Conn, d # c PROVE Shaped(t, d) /\ Stream(t.conn[d]) /\ Balanced(t.conn[d])
    <3>1. PICK j : j = s.conn[d]
      OBVIOUS
    <3>2. t.conn[d] = j
      BY <1>2, <2>3, <3>1
    <3>3. Shaped(s, d) /\ Stream(j) /\ Balanced(j)
      BY <1>7, <3>1 DEF Good
    <3>4. Shaped(t, d)
      <4>1. /\ Reading(s, j) => Reading(t, j)
            /\ Writing(s, j) => Writing(t, j)
            /\ Forgotten(s, j) => Forgotten(t, j)
        BY <1>1 DEF Reading, Writing, Forgotten
      <4>2. Away(j) \/ Here(s, d)
        BY <3>1, <3>3 DEF Shaped
      <4>3. ASSUME Here(s, d) PROVE Here(t, d)
        BY <1>1, <3>1, <3>2, <4>1, <4>3 DEF Here
      <4>. QED BY <3>2, <4>2, <4>3 DEF Shaped
    <3>. QED BY <3>2, <3>3, <3>4
  <2>4. Shaped(t, c)
    <3>1. Away(k) \/ Here(s, c)
      BY <1>3, <1>7 DEF Good, Shaped
    <3>2. CASE Away(k)
      BY <1>1, <1>5, <3>2 DEF Shaped, Away
    <3>3. CASE Here(s, c)
      <4>1. /\ k.fd \in Fd /\ k.fd \in DOMAIN s.events /\ s.events[k.fd].client = c
            /\ k.state \in {"open", "fin", "rst"}
            /\ Reading(s, k) \/ Writing(s, k) \/ Forgotten(s, k)
        BY <1>3, <3>3 DEF Here
      <4>2. /\ Reading(s, k) => Reading(t, k2)
            /\ Writing(s, k) => Writing(t, k2)
        BY <1>1, <1>5 DEF Reading, Writing
      <4>3. Forgotten(s, k) => Forgotten(t, k2)
        BY <1>1, <1>4, <1>5 DEF Forgotten
      <4>4. Here(t, c)
        BY <1>1, <1>5, <4>1, <4>2, <4>3 DEF Here
      <4>. QED BY <4>4 DEF Shaped
    <3>. QED BY <3>1, <3>2, <3>3
  <2>. QED BY <1>1, <1>7, <2>2, <2>3, <2>4 DEF Good
<1>. QED BY <1>1, <1>6, <1>7

(* The invariant after a step of a peer. *)
LEMMA PeerStep ==
  ASSUME IInv, NEW c \in Conn, NEW k2 \in Connection, conn' = [conn EXCEPT ![c] = k2],
         UNCHANGED <<events, interest, readys, running>>,
         PeerMoves(conn[c], k2), Good(State) => Stream(k2) /\ Balanced(k2)
  PROVE  IInv'
<1>1. State' = SetConn(State, c, k2)
  BY DEF State, SetConn
<1>2. Typed(State) /\ State.conn[c] = conn[c]
  BY DEF IInv, State
<1>3. /\ Typed(State')
      /\ Good(State) => Good(State')
      /\ Stopped(State) => Stopped(State')
  BY <1>1, <1>2, PeerGood
<1>4. Reported => Reported'
  BY DEF Reported
<1>. QED BY <1>3, <1>4 DEF IInv

Moved(k, st) == [k EXCEPT !.state = st]

LEMMA MovedIs ==
  ASSUME NEW k \in Connection, NEW st \in {"backlog", "fin", "rst"}, NEW r, r = Moved(k, st)
  PROVE  /\ r \in Connection
         /\ r.state = st /\ r.fd = k.fd /\ r.wire = k.wire /\ r.pieces = k.pieces /\ r.asked = k.asked
         /\ r.parser = k.parser /\ r.reply = k.reply /\ r.answered = k.answered
<1>1. k = [state |-> k.state, fd |-> k.fd, wire |-> k.wire, pieces |-> k.pieces, asked |-> k.asked,
              parser |-> k.parser, reply |-> k.reply, answered |-> k.answered]
  BY DEF Connection
<1>2. r = [state |-> st, fd |-> k.fd, wire |-> k.wire, pieces |-> k.pieces, asked |-> k.asked,
              parser |-> k.parser, reply |-> k.reply, answered |-> k.answered]
  BY <1>1 DEF Moved
<1>3. /\ r.state = st /\ r.fd = k.fd /\ r.wire = k.wire /\ r.pieces = k.pieces /\ r.asked = k.asked
      /\ r.parser = k.parser /\ r.reply = k.reply /\ r.answered = k.answered
  BY <1>2
<1>4. /\ k.state \in {"new", "backlog", "open", "fin", "rst", "closed"} /\ k.fd \in Fd \cup {NoFd}
      /\ k.wire \in Seq(Piece) /\ k.pieces \in 0 .. MaxPieces /\ k.asked \in Nat
      /\ k.parser \in Seq(Piece) /\ k.reply \in Nat /\ k.answered \in Nat
  BY DEF Connection
<1>5. r \in Connection
  BY <1>2, <1>4 DEF Connection
<1>. QED BY <1>3, <1>5

(* A peer opens, ends or resets its connection. *)
LEMMA MoveStep ==
  ASSUME IInv, NEW c \in Conn, NEW st \in {"backlog", "fin", "rst"},
         conn' = [conn EXCEPT ![c] = Moved(conn[c], st)],
         UNCHANGED <<events, interest, readys, running>>,
         \/ conn[c].state = "new" /\ st = "backlog"
         \/ conn[c].state = "open" /\ st = "fin"
         \/ conn[c].state \in {"open", "fin"} /\ st = "rst"
  PROVE  IInv'
<1>1. PICK k : k = conn[c]
  OBVIOUS
<1>2. k \in Connection
  BY <1>1 DEF IInv, Typed, State
<1>3. PICK k2 : k2 = Moved(k, st)
  OBVIOUS
<1>4. /\ k2 \in Connection
      /\ k2.state = st /\ k2.fd = k.fd /\ k2.wire = k.wire /\ k2.pieces = k.pieces /\ k2.asked = k.asked
      /\ k2.parser = k.parser /\ k2.reply = k.reply /\ k2.answered = k.answered
  BY <1>2, <1>3, MovedIs
<1>5. Empties(k2) = Empties(k) /\ (Stream(k) => Stream(k2)) /\ Empties(k) \in Int
  BY <1>2, <1>4, StreamSame, SentType
<1>6. \/ k.state = "new" /\ st = "backlog"
      \/ k.state = "open" /\ st = "fin"
      \/ k.state \in {"open", "fin"} /\ st = "rst"
  BY <1>1
<1>7. PeerMoves(k, k2)
  BY <1>4, <1>5, <1>6 DEF PeerMoves
<1>8. Good(State) => Stream(k2) /\ Balanced(k2)
  <2>1. Good(State) => Stream(k) /\ Balanced(k)
    BY <1>1 DEF Good, State
  <2>2. Balanced(k) => Balanced(k2)
    BY <1>4, <1>6 DEF Balanced
  <2>. QED BY <1>5, <2>1, <2>2
<1>9. conn' = [conn EXCEPT ![c] = k2]
  BY <1>1, <1>3
<1>10. PeerMoves(conn[c], k2)
  BY <1>1, <1>7
<1>. QED BY <1>4, <1>8, <1>9, <1>10, PeerStep

SentPiece(k, p) ==
  [k EXCEPT !.wire = Append(k.wire, p), !.pieces = k.pieces + 1,
            !.asked = IF p = "end" THEN k.asked + 1 ELSE k.asked]

LEMMA SentPieceIs ==
  ASSUME NEW k \in Connection, k.pieces < MaxPieces, NEW p \in Piece, NEW r, r = SentPiece(k, p)
  PROVE  /\ r \in Connection
         /\ r.state = k.state /\ r.fd = k.fd /\ r.wire = Append(k.wire, p) /\ r.pieces = k.pieces + 1
         /\ r.asked = IF p = "end" THEN k.asked + 1 ELSE k.asked
         /\ r.parser = k.parser /\ r.reply = k.reply /\ r.answered = k.answered
<1>1. k = [state |-> k.state, fd |-> k.fd, wire |-> k.wire, pieces |-> k.pieces, asked |-> k.asked,
              parser |-> k.parser, reply |-> k.reply, answered |-> k.answered]
  BY DEF Connection
<1>2. PICK w, n, a : w = Append(k.wire, p) /\ n = k.pieces + 1 /\ a = IF p = "end" THEN k.asked + 1 ELSE k.asked
  OBVIOUS
<1>3. r = [k EXCEPT !.wire = w, !.pieces = n, !.asked = a]
  BY <1>2 DEF SentPiece
<1>4. r = [state |-> k.state, fd |-> k.fd, wire |-> w, pieces |-> n, asked |-> a,
              parser |-> k.parser, reply |-> k.reply, answered |-> k.answered]
  BY <1>1, <1>3
<1>5. /\ r.state = k.state /\ r.fd = k.fd /\ r.wire = w /\ r.pieces = n /\ r.asked = a
      /\ r.parser = k.parser /\ r.reply = k.reply /\ r.answered = k.answered
  BY <1>4
<1>6. /\ k.state \in {"new", "backlog", "open", "fin", "rst", "closed"} /\ k.fd \in Fd \cup {NoFd}
      /\ k.wire \in Seq(Piece) /\ k.pieces \in 0 .. MaxPieces /\ k.asked \in Nat
      /\ k.parser \in Seq(Piece) /\ k.reply \in Nat /\ k.answered \in Nat
  BY DEF Connection
<1>7. w \in Seq(Piece)
  BY <1>2, <1>6, AppendProperties
<1>8. n \in 0 .. MaxPieces
  BY <1>2, <1>6, BoundAssumption
<1>9. a \in Nat
  BY <1>2, <1>6
<1>10. r \in Connection
  BY <1>4, <1>6, <1>7, <1>8, <1>9 DEF Connection
<1>. QED BY <1>2, <1>5, <1>10

(* A peer sends a piece of a request. *)
LEMMA SendStep ==
  ASSUME IInv, NEW c \in Conn, Send(c)
  PROVE  IInv'
<1>1. PICK p \in Piece :
        /\ p = "end" <=> MidRequest(c)
        /\ conn' = [conn EXCEPT ![c].wire = Append(@, p), ![c].pieces = @ + 1,
                                ![c].asked = IF p = "end" THEN @ + 1 ELSE @]
  BY DEF Send
<1>2. conn[c].state \in {"backlog", "open"} /\ conn[c].pieces < MaxPieces /\ UNCHANGED <<events, interest, readys, running>>
  BY DEF Send
<1>3. PICK k : k = conn[c]
  OBVIOUS
<1>4. k \in Connection
  BY <1>3 DEF IInv, Typed, State
<1>5. PICK k2 : k2 = SentPiece(k, p)
  OBVIOUS
<1>6. k.pieces < MaxPieces /\ k.state \in {"backlog", "open"}
  BY <1>2, <1>3
<1>7. /\ k2 \in Connection
      /\ k2.state = k.state /\ k2.fd = k.fd /\ k2.wire = Append(k.wire, p) /\ k2.pieces = k.pieces + 1
      /\ k2.asked = IF p = "end" THEN k.asked + 1 ELSE k.asked
      /\ k2.parser = k.parser /\ k2.reply = k.reply /\ k2.answered = k.answered
  BY <1>4, <1>5, <1>6, SentPieceIs
<1>8. p = "end" <=> Mid(k)
  BY <1>1, <1>3 DEF MidRequest, Mid, Sent
<1>9. Empties(k2) >= Empties(k) /\ (Stream(k) => Stream(k2))
  BY <1>4, <1>7, <1>8, StreamSend
<1>10. Balanced(k) => Balanced(k2)
  BY <1>4, <1>7, BalancedSend
<1>11. PeerMoves(k, k2)
  BY <1>6, <1>7, <1>9 DEF PeerMoves
<1>12. Good(State) => Stream(k) /\ Balanced(k)
  BY <1>3 DEF Good, State
<1>13. conn' = [conn EXCEPT ![c] = k2]
  <2>1. conn \in [Conn -> Connection]
    BY DEF IInv, Typed, State
  <2>2. conn = [d \in Conn |-> conn[d]]
    <3>. HIDE DEF Connection
    <3>. QED BY <2>1
  <2>. QED BY <1>1, <1>3, <1>5, <2>2 DEF SentPiece
<1>14. PeerMoves(conn[c], k2)
  BY <1>3, <1>11
<1>. QED BY <1>2, <1>7, <1>9, <1>10, <1>12, <1>13, <1>14, PeerStep

LEMMA MoveSteps ==
  ASSUME IInv, NEW c \in Conn, Connect(c) \/ HangUp(c) \/ Reset(c)
  PROVE  IInv'
<1>1. UNCHANGED <<events, interest, readys, running>>
  BY DEF Connect, HangUp, Reset
<1>2. CASE Connect(c)
  <2>1. conn' = [conn EXCEPT ![c] = Moved(conn[c], "backlog")] /\ conn[c].state = "new"
    BY <1>2 DEF Connect, Moved
  <2>. QED BY <1>1, <2>1, MoveStep
<1>3. CASE HangUp(c)
  <2>1. conn' = [conn EXCEPT ![c] = Moved(conn[c], "fin")] /\ conn[c].state = "open"
    BY <1>3 DEF HangUp, Moved
  <2>. QED BY <1>1, <2>1, MoveStep
<1>4. CASE Reset(c)
  <2>1. conn' = [conn EXCEPT ![c] = Moved(conn[c], "rst")] /\ conn[c].state \in {"open", "fin"}
    BY <1>4 DEF Reset, Moved
  <2>. QED BY <1>1, <2>1, MoveStep
<1>. QED BY <1>2, <1>3, <1>4

-----------------------------------------------------------------------------
(* The steps of the loop. *)

(* What epoll reports has a handler's descriptor, each once. *)
LEMMA PollStep ==
  ASSUME IInv, event_poll
  PROVE  IInv'
<1>1. /\ running = TRUE /\ UNCHANGED <<conn, events, interest, running>>
      /\ readys' = {[fd |-> fd, mask |-> ReadyMask(Flags(fd))] : fd \in {x \in DOMAIN interest : Flags(x) # {}}}
  BY DEF event_poll, IInv, Typed, State
<1>2. State' = State
  BY <1>1 DEF State
<1>3. Good(State)
  BY <1>1 DEF IInv
<1>4. \A x \in DOMAIN interest : x \in Fd \cup {ListenFd} /\ x \in DOMAIN events
  BY <1>3 DEF IInv, Typed, Good, Linked, State
<1>5. \A g : ReadyMask(g) \in {{R}, {W}, {}} /\ ReadyMask(g) \in SUBSET {R, W}
  BY DEF ReadyMask
<1>6. \A u \in readys' : \E x \in DOMAIN interest : u = [fd |-> x, mask |-> ReadyMask(Flags(x))]
  BY <1>1
<1>7. readys' \subseteq [fd : Fd \cup {ListenFd}, mask : SUBSET {R, W}]
  BY <1>4, <1>5, <1>6
<1>8. Reported'
  <2>1. ASSUME NEW u \in readys' PROVE u.fd \in DOMAIN events' /\ u.mask \in {{R}, {W}, {}}
    BY <1>1, <1>4, <1>5, <1>6
  <2>2. ASSUME NEW u \in readys', NEW v \in readys', u.fd = v.fd PROVE u = v
    BY <1>6, <2>2
  <2>. QED BY <2>1, <2>2 DEF Reported
<1>. QED BY <1>1, <1>2, <1>3, <1>7, <1>8 DEF IInv

(* The invariant after a handler: nothing else has become unknown to the   *)
(* loop than the descriptor it was called for.                             *)
LEMMA KeptStep ==
  ASSUME IInv, running = TRUE, NEW c \in Conn, NEW f \in Fd, NEW t, Becomes(t), Kept(State, t, c, f),
         NEW r \in readys, readys' = readys \ {r}, r.fd = f \/ f \notin DOMAIN events
  PROVE  IInv'
<1>1. State' = t
  <2>1. t = [conn |-> t.conn, events |-> t.events, interest |-> t.interest, running |-> t.running]
    BY DEF Kept, Typed
  <2>2. conn' = t.conn /\ events' = t.events /\ interest' = t.interest /\ running' = t.running
    BY DEF Becomes
  <2>. QED BY <2>1, <2>2 DEF State
<1>2. Typed(State')
  BY <1>1 DEF Kept
<1>3. running' = t.running /\ running' \in BOOLEAN
  BY <1>2 DEF Becomes, Typed, State
<1>4. running' => Good(State')
  <2>1. ASSUME running' = TRUE PROVE Good(t)
    BY <1>3, <2>1 DEF Kept, Runs
  <2>. QED BY <1>1, <1>3, <2>1
<1>5. running' \/ Stopped(State')
  <2>1. ASSUME running' = FALSE PROVE Stopped(t)
    BY <1>3, <2>1 DEF Kept, Runs
  <2>. QED BY <1>1, <1>3, <2>1
<1>6. readys' \subseteq [fd : Fd \cup {ListenFd}, mask : SUBSET {R, W}]
  BY DEF IInv
<1>7. Reported'
  <2>1. Reported
    BY DEF IInv
  <2>2. ASSUME NEW u \in readys' PROVE u.fd \in DOMAIN events'
    <3>1. u \in readys /\ u # r
      BY <2>2
    <3>2. u.fd \in DOMAIN events /\ u.fd # r.fd
      BY <2>1, <3>1 DEF Reported
    <3>3. u.fd # f
      BY <3>2
    <3>4. u.fd \in DOMAIN t.events
      BY <3>2, <3>3 DEF Kept, Elsewhere, State
    <3>. QED BY <3>4 DEF Becomes
  <2>. QED BY <2>1, <2>2 DEF Reported
<1>. QED BY <1>2, <1>4, <1>5, <1>6, <1>7 DEF IInv

LEMMA HandleStep ==
  ASSUME IInv, NEW r \in readys, Handle(r)
  PROVE  IInv'
<1>1. /\ running = TRUE /\ Runs(State) /\ Typed(State) /\ Good(State) /\ Reported
      /\ readys' = readys \ {r}
  BY DEF Handle, IInv, Runs, Typed, State
<1>2. r.fd \in Fd \cup {ListenFd} /\ r.fd \in DOMAIN events /\ r.mask \in {{R}, {W}, {}}
  BY <1>1 DEF IInv, Reported
<1>3. events[ListenFd].mask = {R}
  BY <1>1 DEF Good, Linked, State
<1>4. ASSUME r.fd # ListenFd
      PROVE  /\ r.fd \in Fd /\ events[r.fd].client \in Conn
             /\ Here(State, events[r.fd].client) /\ State.conn[events[r.fd].client].fd = r.fd
  <2>1. r.fd \in Fd
    BY <1>2, <1>4
  <2>2. events[r.fd].client \in Conn /\ conn[events[r.fd].client].fd = r.fd
    BY <1>1, <1>2, <2>1 DEF Good, Linked, State
  <2>3. r.fd # NoFd
    BY <2>1, FdAssumption DEF NoFd
  <2>4. Here(State, events[r.fd].client)
    BY <1>1, <2>2, <2>3 DEF Good, Shaped, Away, State
  <2>. QED BY <2>1, <2>2, <2>4 DEF State
<1>5. ASSUME NEW c \in Conn, conn[c].state = "backlog", Becomes(accept_tcp_handler(State, c))
      PROVE  IInv'
  <2>1. PICK t : t = accept_tcp_handler(State, c)
    OBVIOUS
  <2>2. State.conn[c].state = "backlog"
    BY <1>5 DEF State
  <2>3. PICK f \in Fd : Kept(State, t, c, f) /\ f \notin DOMAIN events
    <3>1. \E f \in Fd : Kept(State, t, c, f) /\ f \notin DOMAIN State.events
      BY <1>1, <2>1, <2>2, AcceptKept
    <3>. QED BY <3>1 DEF State
  <2>4. Becomes(t)
    BY <1>5, <2>1
  <2>. QED BY <1>1, <2>3, <2>4, KeptStep
<1>6. ASSUME r.fd # ListenFd, R \in events[r.fd].mask \cap r.mask,
             Becomes(read_qurey_from_client(State, events[r.fd].client, r.mask))
      PROVE  IInv'
  <2>1. PICK c \in Conn : c = events[r.fd].client
    BY <1>4, <1>6
  <2>2. PICK f \in Fd : f = r.fd
    BY <1>4, <1>6
  <2>3. r.mask = {R}
    BY <1>2, <1>6, MaskFacts
  <2>4. PICK t : t = read_qurey_from_client(State, c, {R})
    OBVIOUS
  <2>5. Readable(State, c, f)
    <3>1. Here(State, c) /\ State.conn[c].fd = f
      BY <1>4, <1>6, <2>1, <2>2
    <3>2. R \in State.events[f].mask
      BY <1>6, <2>2 DEF State
    <3>. QED BY <3>1, <3>2 DEF Readable
  <2>6. Kept(State, t, c, f)
    BY <1>1, <2>4, <2>5, ReadKept
  <2>7. Becomes(t)
    BY <1>6, <2>1, <2>3, <2>4
  <2>. QED BY <1>1, <2>2, <2>6, <2>7, KeptStep
<1>7. ASSUME W \in events[r.fd].mask, Becomes(send_reply_to_client(State, events[r.fd].client))
      PROVE  IInv'
  <2>1. r.fd # ListenFd
    BY <1>3, <1>7, MaskFacts
  <2>2. PICK c \in Conn : c = events[r.fd].client
    BY <1>4, <2>1
  <2>3. PICK f \in Fd : f = r.fd
    BY <1>4, <2>1
  <2>4. PICK t : t = send_reply_to_client(State, c)
    OBVIOUS
  <2>5. Writable(State, c, f)
    <3>1. Here(State, c) /\ State.conn[c].fd = f
      BY <1>4, <2>1, <2>2, <2>3
    <3>2. W \in State.events[f].mask
      BY <1>7, <2>3 DEF State
    <3>. QED BY <3>1, <3>2 DEF Writable
  <2>6. Kept(State, t, c, f)
    BY <1>1, <2>4, <2>5, SendKept
  <2>7. Becomes(t)
    BY <1>7, <2>2, <2>4
  <2>. QED BY <1>1, <2>3, <2>6, <2>7, KeptStep
<1>8. ASSUME Becomes(State) PROVE IInv'
  <2>1. UNCHANGED <<conn, events, interest, running>>
    BY <1>8 DEF Becomes, State
  <2>2. State' = State
    BY <2>1 DEF State
  <2>3. Reported'
    BY <1>1, <2>1 DEF Reported
  <2>. QED BY <1>1, <2>1, <2>2, <2>3 DEF IInv
<1>9. \/ /\ R \in events[r.fd].mask \cap r.mask /\ r.fd = ListenFd
         /\ \E c \in Conn : conn[c].state = "backlog" /\ Becomes(accept_tcp_handler(State, c))
      \/ /\ R \in events[r.fd].mask \cap r.mask /\ r.fd # ListenFd
         /\ Becomes(read_qurey_from_client(State, events[r.fd].client, r.mask))
      \/ /\ R \notin events[r.fd].mask \cap r.mask /\ W \in events[r.fd].mask \cap r.mask
         /\ Becomes(send_reply_to_client(State, events[r.fd].client))
      \/ /\ events[r.fd].mask \cap r.mask = {}
         /\ Becomes(State)
  BY Zenon DEF Handle
<1>. QED BY <1>5, <1>6, <1>7, <1>8, <1>9

-----------------------------------------------------------------------------
(* The theorems. *)

LEMMA Inductive == IInv /\ [Next]_vars => IInv'
<1> SUFFICES ASSUME IInv, [Next]_vars PROVE IInv'
  OBVIOUS
<1>1. CASE \E c \in Conn : Connect(c) \/ Send(c) \/ HangUp(c) \/ Reset(c)
  BY <1>1, MoveSteps, SendStep
<1>2. CASE event_poll
  BY <1>2, PollStep
<1>3. CASE \E r \in readys : Handle(r)
  BY <1>3, HandleStep
<1>4. CASE UNCHANGED vars
  <2>1. UNCHANGED <<conn, events, interest, readys, running>>
    BY <1>4 DEF vars
  <2>2. State' = State
    BY <2>1 DEF State
  <2>3. Reported' <=> Reported
    BY <2>1 DEF Reported
  <2>. QED BY <2>1, <2>2, <2>3 DEF IInv
<1>. QED BY <1>1, <1>2, <1>3, <1>4 DEF Next, Loop

LEMMA InitIInv == Init => IInv
<1> SUFFICES ASSUME Init PROVE IInv
  OBVIOUS
<1>1. PICK k : k = NewConn
  OBVIOUS
<1>2. k = [state |-> "new", fd |-> NoFd, wire |-> <<>>, pieces |-> 0, asked |-> 0,
           parser |-> <<>>, reply |-> 0, answered |-> 0]
  BY <1>1 DEF NewConn
<1>3. k \in Connection
  <2>1. <<>> \in Seq(Piece) /\ 0 \in 0 .. MaxPieces
    BY EmptySeq, BoundAssumption
  <2>. QED BY <1>2, <2>1 DEF Connection
<1>4. Stream(k) /\ Balanced(k)
  <2>1. k.wire = <<>> /\ k.parser = <<>> /\ k.pieces = 0 /\ k.asked = 0 /\ k.reply = 0 /\ k.answered = 0
    BY <1>2
  <2>2. Sent(k) = <<>> /\ Len(<<>>) = 0
    BY <2>1 DEF Sent
  <2>3. ~Mid(k)
    BY <2>2 DEF Mid
  <2>4. Empties(k) = 0
    <3>1. Empties(k) = k.pieces - 2 * k.asked - 0
      BY <2>3, Zenon DEF Empties
    <3>2. k.pieces - 2 * k.asked - 0 = 0
      BY <2>1
    <3>. QED BY <3>1, <3>2
  <2>5. Stream(k)
    BY <2>1, <2>2, <2>4 DEF Stream, WellSent
  <2>6. Ends(<<>>) = 0
    <3>1. {i \in DOMAIN <<>> : <<>>[i] = "end"} = {}
      OBVIOUS
    <3>. QED BY <3>1, FS_EmptySet DEF Ends
  <2>7. Balanced(k)
    BY <2>1, <2>6 DEF Balanced
  <2>. QED BY <2>5, <2>7
<1>5. \A c \in Conn : conn[c] = k
  BY <1>1 DEF Init
<1>6. /\ State.conn = conn /\ State.events = events /\ State.interest = interest /\ State.running = running
      /\ DOMAIN events = {ListenFd} /\ events[ListenFd] = [mask |-> {R}, client |-> Listener]
      /\ DOMAIN interest = {ListenFd} /\ interest[ListenFd] = {R}
      /\ readys = {} /\ running = TRUE
  BY DEF State, Init
<1>7. Typed(State)
  <2>1. conn \in [Conn -> Connection]
    <3>1. conn = [c \in Conn |-> k]
      BY <1>1 DEF Init
    <3>. HIDE DEF Connection
    <3>. QED BY <1>3, <3>1
  <2>2. events \in [DOMAIN events -> FileEvent]
    <3>1. [mask |-> {R}, client |-> Listener] \in FileEvent
      BY MaskFacts DEF FileEvent
    <3>. QED BY <3>1 DEF Init
  <2>3. interest \in [DOMAIN interest -> (SUBSET {R, W}) \ {{}}]
    BY MaskFacts DEF Init
  <2>4. State = [conn |-> State.conn, events |-> State.events, interest |-> State.interest, running |-> State.running]
    BY <1>6 DEF State
  <2>. QED BY <1>6, <2>1, <2>2, <2>3, <2>4 DEF Typed
<1>8. Good(State)
  <2>1. ListenFd \notin Fd
    BY FdAssumption
  <2>2. Linked(State)
    BY <1>6, <2>1 DEF Linked
  <2>3. \A c \in Conn : Shaped(State, c)
    <3>1. Away(k)
      BY <1>2 DEF Away
    <3>. QED BY <1>5, <1>6, <3>1 DEF Shaped
  <2>. QED BY <1>4, <1>5, <1>6, <2>2, <2>3 DEF Good
<1>. QED BY <1>6, <1>7, <1>8 DEF IInv, Reported

(* What a peer has sent, when an empty request was among it.               *)
LEMMA EmptySent ==
  ASSUME NEW k \in Connection, Empties(k) > 0
  PROVE  k.pieces > 2 * k.asked
<1>1. k.pieces \in Nat /\ k.asked \in Nat
  BY BoundAssumption DEF Connection
<1>2. CASE Mid(k)
  <2>1. k.pieces - 2 * k.asked - 1 > 0
    BY <1>2 DEF Empties
  <2>. QED BY <1>1, <2>1
<1>3. CASE ~Mid(k)
  <2>1. k.pieces - 2 * k.asked - 0 > 0
    BY <1>3 DEF Empties
  <2>. QED BY <1>1, <2>1
<1>. QED BY <1>2, <1>3

LEMMA IInvTypeOK == IInv => TypeOK
<1> SUFFICES ASSUME IInv PROVE TypeOK
  OBVIOUS
<1>1. Typed(State) /\ readys \subseteq [fd : Fd \cup {ListenFd}, mask : SUBSET {R, W}]
  BY DEF IInv
<1>2. /\ conn \in [Conn -> Connection]
      /\ DOMAIN events \subseteq Fd \cup {ListenFd} /\ events \in [DOMAIN events -> FileEvent]
      /\ DOMAIN interest \subseteq Fd \cup {ListenFd}
      /\ interest \in [DOMAIN interest -> (SUBSET {R, W}) \ {{}}]
      /\ running \in BOOLEAN
  BY <1>1 DEF Typed, State
<1>3. \A fd \in DOMAIN events : events[fd].mask \subseteq {R, W}
  BY <1>2 DEF FileEvent
<1>4. \A fd \in DOMAIN interest : interest[fd] \in (SUBSET {R, W}) \ {{}}
  BY <1>2
<1>5. \A r \in readys : r.fd \in Fd \cup {ListenFd} /\ r.mask \subseteq {R, W}
  BY <1>1
<1>6. conn \in [Conn -> [state : {"new", "backlog", "open", "fin", "rst", "closed"},
                        fd : Fd \cup {NoFd}, wire : Seq(Piece), pieces : 0 .. MaxPieces,
                        asked : Nat, parser : Seq(Piece), reply : Nat, answered : Nat]]
  BY <1>2, Zenon DEF Connection
<1>. QED BY <1>2, <1>3, <1>4, <1>5, <1>6, Zenon DEF TypeOK

LEMMA IInvStops == IInv => LoopStopsForAReason
<1> SUFFICES ASSUME IInv, ~running PROVE LoopStopsForAReason
  BY DEF LoopStopsForAReason
<1>1. Stopped(State)
  BY DEF IInv
<1>2. PICK c \in Conn : conn[c].state = "rst" \/ Empties(conn[c]) > 0
  BY <1>1 DEF Stopped, State
<1>3. conn[c] \in Connection
  BY DEF IInv, Typed, State
<1>4. Empties(conn[c]) > 0 => conn[c].pieces > 2 * conn[c].asked
  BY <1>3, EmptySent
<1>. QED BY <1>2, <1>4 DEF LoopStopsForAReason

LEMMA IInvConserved == IInv => RequestsConserved
<1> SUFFICES ASSUME IInv, running, NEW c \in Conn, conn[c].state # "closed"
             PROVE  conn[c].asked = Ends(conn[c].wire) + Ends(conn[c].parser) + conn[c].reply + conn[c].answered
  BY DEF RequestsConserved
<1>1. Balanced(conn[c])
  BY DEF IInv, Good, State
<1>. QED BY <1>1 DEF Balanced

LEMMA IInvInterest == IInv => InterestKept
<1> SUFFICES ASSUME IInv, running PROVE InterestKept
  BY DEF InterestKept, InterestServed, OpenIsWatched
<1>1. Good(State) /\ Typed(State)
  BY DEF IInv
<1>2. ASSUME NEW fd \in DOMAIN interest
      PROVE  fd \in DOMAIN events /\ interest[fd] \subseteq events[fd].mask
  <2>1. fd \in Fd \cup {ListenFd}
    BY <1>1 DEF Typed, State
  <2>2. CASE fd = ListenFd
    BY <1>1, <2>2 DEF Good, Linked, State
  <2>3. CASE fd \in Fd
    <3>1. fd \in DOMAIN events
      BY <1>1, <2>3 DEF Good, Linked, State
    <3>2. PICK c \in Conn : c = events[fd].client /\ conn[c].fd = fd
      BY <1>1, <2>3, <3>1 DEF Good, Linked, State
    <3>3. fd # NoFd
      BY <2>3, FdAssumption DEF NoFd
    <3>4. Here(State, c) /\ State.conn[c] = conn[c]
      BY <1>1, <3>2, <3>3 DEF Good, Shaped, Away, State
    <3>5. Reading(State, conn[c]) \/ Writing(State, conn[c]) \/ Forgotten(State, conn[c])
      BY <3>4 DEF Here
    <3>. QED BY <3>1, <3>2, <3>5 DEF Reading, Writing, Forgotten, State
  <2>. QED BY <2>1, <2>2, <2>3
<1>3. ASSUME NEW c \in Conn, conn[c].reply > 0
      PROVE  conn[c].fd \in DOMAIN interest /\ W \in interest[conn[c].fd]
  <2>1. conn[c].reply # 0
    BY <1>3
  <2>2. Here(State, c) /\ State.conn[c] = conn[c]
    BY <1>1, <2>1 DEF Good, Shaped, Away, State
  <2>3. Writing(State, conn[c])
    BY <2>1, <2>2 DEF Here, Reading, Forgotten
  <2>. QED BY <2>3 DEF Writing, State
<1>4. ASSUME NEW c \in Conn, conn[c].fd # NoFd, conn[c].fd \notin DOMAIN interest
      PROVE  conn[c].state \in {"fin", "rst"} /\ (conn[c].parser # <<>> \/ conn[c].pieces > 2 * conn[c].asked)
  <2>1. Here(State, c) /\ State.conn[c] = conn[c]
    BY <1>1, <1>4 DEF Good, Shaped, Away, State
  <2>2. Forgotten(State, conn[c])
    BY <1>4, <2>1 DEF Here, Reading, Writing, State
  <2>3. conn[c] \in Connection
    BY <1>1 DEF Typed, State
  <2>4. Empties(conn[c]) > 0 => conn[c].pieces > 2 * conn[c].asked
    BY <2>3, EmptySent
  <2>. QED BY <2>2, <2>4 DEF Forgotten
<1>. QED BY <1>2, <1>3, <1>4 DEF InterestKept, InterestServed, OpenIsWatched

LEMMA Invariance == Spec => []IInv
<1>1. Init => IInv
  BY InitIInv
<1>2. IInv /\ [Next]_vars => IInv'
  BY Inductive
<1>. QED BY <1>1, <1>2, PTL DEF Spec

(* The connections, the FileEvents, what epoll watches and what it has     *)
(* reported keep their types through every handler of event_driven.py.     *)
THEOREM TypeCorrect == Spec => []TypeOK
<1>1. IInv => TypeOK
  BY IInvTypeOK
<1>. QED BY <1>1, Invariance, PTL

(* event_driven.py: no exception leaves process_event but on a connection  *)
(* that was reset, or because of an empty request.                         *)
THEOREM StopsForAReason == Spec => []LoopStopsForAReason
<1>1. IInv => LoopStopsForAReason
  BY IInvStops
<1>. QED BY <1>1, Invariance, PTL

(* create_file_event and event_del: epoll, EventLoop.events and the clients*)
(* agree on what is waited for.                                            *)
THEOREM InterestIsKept == Spec => []InterestKept
<1>1. IInv => InterestKept
  BY IInvInterest
<1>. QED BY <1>1, Invariance, PTL

(* processInputBuff and send_reply_to_client: no request is lost and none  *)
(* is answered twice, on a connection that is not closed.                  *)
THEOREM NoRequestIsLost == Spec => []RequestsConserved
<1>1. IInv => RequestsConserved
  BY IInvConserved
<1>. QED BY <1>1, Invariance, PTL
=============================================================================
