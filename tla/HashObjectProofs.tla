-------------------------- MODULE HashObjectProofs --------------------------
(***************************************************************************)
(* Theorems about module HashObject, for every set of keys and values,     *)
(* every hash function, every table size and any number of walks: a hash,  *)
(* whose chains have an order, implements Dict, whose chains have none.    *)
(***************************************************************************)
EXTENDS HashObject, DictTablesProofs

-----------------------------------------------------------------------------
(* Chains. *)

(* No key has two entries in chain s. *)
Once(s) == \A p, q \in 1 .. Len(s) : s[p].key = s[q].key => p = q

LEMMA ToSetIs ==
  ASSUME NEW E, NEW s \in Seq(E)
  PROVE  ToSet(s) = {s[p] : p \in 1 .. Len(s)} /\ ToSet(s) \subseteq E
<1>1. DOMAIN s = 1 .. Len(s) /\ \A p \in 1 .. Len(s) : s[p] \in E
  BY LenProperties, ElementOfSeq
<1>. QED BY <1>1 DEF ToSet

LEMMA EmptyChain == << >> \in Seq(Entry) /\ Len(<< >>) = 0 /\ ToSet(<< >>) = {} /\ Once(<< >>)
<1>1. << >> \in Seq(Entry) /\ Len(<< >>) = 0
  OBVIOUS
<1>2. ToSet(<< >>) = {}
  <2>1. PICK s \in Seq(Entry) : s = << >> /\ Len(s) = 0
    BY <1>1
  <2>2. ToSet(s) = {s[p] : p \in 1 .. 0}
    <3>1. ToSet(s) = {s[p] : p \in 1 .. Len(s)}
      BY ToSetIs
    <3>. QED BY <2>1, <3>1
  <2>. QED BY <2>1, <2>2
<1>. QED BY <1>1, <1>2 DEF Once

LEMMA ChainNotEmpty ==
  ASSUME NEW s \in Seq(Entry)
  PROVE  s = << >> <=> ToSet(s) = {}
<1>1. CASE s = << >>
  BY <1>1, EmptyChain
<1>2. CASE s # << >>
  <2>1. Len(s) \in Nat /\ Len(s) # 0
    BY <1>2, LenProperties, EmptySeq
  <2>2. 1 \in 1 .. Len(s)
    BY <2>1
  <2>3. s[1] \in ToSet(s)
    <3>1. ToSet(s) = {s[p] : p \in 1 .. Len(s)}
      BY ToSetIs
    <3>. QED BY <2>2, <3>1
  <2>. QED BY <1>2, <2>3
<1>. QED BY <1>1, <1>2

(* A chain has as many entries as it is long. *)
LEMMA ChainLength ==
  ASSUME NEW s \in Seq(Entry), Once(s)
  PROVE  IsFiniteSet(ToSet(s)) /\ Cardinality(ToSet(s)) = Len(s)
<1> DEFINE f == [p \in 1 .. Len(s) |-> s[p]]
<1>1. Len(s) \in Nat
  BY LenProperties
<1>2. ToSet(s) = {s[p] : p \in 1 .. Len(s)}
  BY ToSetIs
<1>3. f \in Bijection(1 .. Len(s), ToSet(s))
  <2>1. f \in [1 .. Len(s) -> ToSet(s)]
    BY <1>2
  <2>2. \A p, q \in 1 .. Len(s) : f[p] = f[q] => p = q
    BY DEF Once
  <2>3. \A e \in ToSet(s) : \E p \in 1 .. Len(s) : f[p] = e
    BY <1>2
  <2>. HIDE DEF f
  <2>4. f \in Injection(1 .. Len(s), ToSet(s))
    BY <2>1, <2>2 DEF Injection, IsInjective
  <2>5. f \in Surjection(1 .. Len(s), ToSet(s))
    BY <2>1, <2>3 DEF Surjection
  <2>. QED BY <2>4, <2>5 DEF Bijection
<1>4. IsFiniteSet(1 .. Len(s)) /\ Cardinality(1 .. Len(s)) = Len(s)
  BY <1>1, FS_Interval
<1>5. ExistsBijection(1 .. Len(s), ToSet(s))
  <2>. HIDE DEF f
  <2>. QED BY <1>3 DEF ExistsBijection
<1>. QED BY <1>1, <1>4, <1>5, FS_Bijection, FS_SameCardinalityBij

(* An entry at the head of a chain. *)
LEMMA HeadIs ==
  ASSUME NEW s \in Seq(Entry), NEW e \in Entry
  PROVE  /\ <<e>> \o s \in Seq(Entry)
         /\ ToSet(<<e>> \o s) = ToSet(s) \cup {e}
         /\ Once(s) /\ (\A f \in ToSet(s) : f.key # e.key) => Once(<<e>> \o s)
<1>1. PICK o : o = <<e>>
  OBVIOUS
<1>2. o \in Seq(Entry) /\ Len(o) = 1 /\ o[1] = e
  BY <1>1
<1>3. PICK c : c = o \o s
  OBVIOUS
<1>4. PICK n \in Nat : n = Len(s)
  BY LenProperties
<1>5. /\ c \in Seq(Entry) /\ Len(c) = n + 1 /\ c[1] = e
      /\ \A i \in 1 .. n : c[i + 1] = s[i]
  <2>1. /\ o \o s \in Seq(Entry) /\ Len(o \o s) = Len(o) + Len(s)
        /\ \A i \in 1 .. Len(o) : (o \o s)[i] = o[i]
        /\ \A i \in 1 .. Len(s) : (o \o s)[i + Len(o)] = s[i]
    BY <1>2, ConcatIs
  <2>2. c \in Seq(Entry) /\ Len(c) = n + 1
    BY <1>2, <1>3, <1>4, <2>1
  <2>3. 1 \in 1 .. Len(o)
    BY <1>2
  <2>. QED BY <1>2, <1>3, <1>4, <2>1, <2>2, <2>3
<1>6. ToSet(c) = {c[p] : p \in 1 .. n + 1} /\ ToSet(s) = {s[p] : p \in 1 .. n}
  BY <1>4, <1>5, ToSetIs
<1>7. \A p \in 1 .. n + 1 : p = 1 \/ (p - 1 \in 1 .. n /\ c[p] = s[p - 1])
  <2>. TAKE p \in 1 .. n + 1
  <2>1. p # 1 => p - 1 \in 1 .. n /\ (p - 1) + 1 = p
    OBVIOUS
  <2>. QED BY <1>5, <2>1
<1>8. ToSet(c) = ToSet(s) \cup {e}
  <2>1. \A p \in 1 .. n : p + 1 \in 1 .. n + 1
    OBVIOUS
  <2>2. 1 \in 1 .. n + 1
    OBVIOUS
  <2>. QED BY <1>5, <1>6, <1>7, <2>1, <2>2
<1>9. ASSUME Once(s), \A f \in ToSet(s) : f.key # e.key
      PROVE  Once(c)
  <2>1. SUFFICES ASSUME NEW p \in 1 .. n + 1, NEW q \in 1 .. n + 1, c[p].key = c[q].key
                 PROVE  p = q
    BY <1>5 DEF Once
  <2>2. \A i \in 1 .. n : s[i].key # e.key
    BY <1>6, <1>9
  <2>3. \A i, j \in 1 .. n : s[i].key = s[j].key => i = j
    BY <1>4, <1>9 DEF Once
  <2>4. CASE p = 1 \/ q = 1
    BY <1>5, <1>7, <2>1, <2>2, <2>4
  <2>5. CASE p # 1 /\ q # 1
    <3>1. p - 1 = q - 1
      BY <1>7, <2>1, <2>3, <2>5
    <3>. QED BY <3>1
  <2>. QED BY <2>4, <2>5
<1>. QED BY <1>1, <1>3, <1>5, <1>8, <1>9

(* A chain without the entry at p. *)
LEMMA RemovedIs ==
  ASSUME NEW s \in Seq(Entry), Once(s), NEW p \in 1 .. Len(s)
  PROVE  /\ RemoveAt(s, p) \in Seq(Entry)
         /\ ToSet(RemoveAt(s, p)) = ToSet(s) \ {s[p]}
         /\ Once(RemoveAt(s, p))
<1>1. PICK n \in Nat : n = Len(s)
  BY LenProperties
<1>2. \A i \in 1 .. n : s[i] \in Entry
  BY <1>1, ElementOfSeq
<1>3. PICK a : a = SubSeq(s, 1, p - 1)
  OBVIOUS
<1>4. PICK b : b = SubSeq(s, p + 1, n)
  OBVIOUS
<1>5. PICK c : c = a \o b
  OBVIOUS
<1>6. a \in Seq(Entry) /\ Len(a) = p - 1 /\ \A i \in 1 .. p - 1 : a[i] = s[i]
  <2>1. p - 1 \in Nat /\ p - 1 <= n /\ \A i \in 1 .. p - 1 : s[i] \in Entry
    BY <1>1, <1>2
  <2>. QED BY <1>1, <1>3, <2>1, SubSeqProperties
<1>7. b \in Seq(Entry) /\ Len(b) = n - p /\ \A i \in 1 .. n - p : b[i] = s[p + i]
  <2>1. \A i \in p + 1 .. n : s[i] \in Entry
    BY <1>1, <1>2
  <2>2. p + 1 \in Nat /\ n \in Nat /\ n - (p + 1) + 1 = n - p /\ p + 1 <= n + 1
    BY <1>1
  <2>3. b \in Seq(Entry) /\ Len(b) = n - p
    BY <1>1, <1>4, <2>1, <2>2, SubSeqProperties
  <2>4. \A i \in 1 .. n - p : b[i] = s[p + 1 + i - 1]
    BY <1>1, <1>4, <2>1, <2>2, SubSeqProperties
  <2>5. \A i \in 1 .. n - p : p + 1 + i - 1 = p + i
    BY <1>1
  <2>. QED BY <2>3, <2>4, <2>5
<1>8. /\ c \in Seq(Entry) /\ Len(c) = n - 1
      /\ \A i \in 1 .. p - 1 : c[i] = s[i]
      /\ \A i \in 1 .. n - p : c[i + (p - 1)] = s[p + i]
  <2>1. c \in Seq(Entry) /\ Len(c) = (p - 1) + (n - p)
    <3>1. a \o b \in Seq(Entry) /\ Len(a \o b) = Len(a) + Len(b)
      BY <1>6, <1>7, ConcatIs
    <3>. QED BY <1>5, <1>6, <1>7, <3>1
  <2>2. \A i \in 1 .. Len(a) : c[i] = a[i]
    BY <1>5, <1>6, <1>7, ConcatIs
  <2>3. \A i \in 1 .. Len(b) : c[i + Len(a)] = b[i]
    BY <1>5, <1>6, <1>7, ConcatIs
  <2>4. (p - 1) + (n - p) = n - 1
    BY <1>1
  <2>. QED BY <1>6, <1>7, <2>1, <2>2, <2>3, <2>4
<1>9. \A i \in 1 .. n - 1 : c[i] = s[IF i < p THEN i ELSE i + 1]
  <2>. TAKE i \in 1 .. n - 1
  <2>1. CASE i < p
    <3>1. i \in 1 .. p - 1
      BY <2>1
    <3>. QED BY <1>8, <2>1, <3>1
  <2>2. CASE ~(i < p)
    <3>1. i - (p - 1) \in 1 .. n - p /\ (i - (p - 1)) + (p - 1) = i /\ p + (i - (p - 1)) = i + 1
      BY <1>1, <2>2
    <3>2. c[(i - (p - 1)) + (p - 1)] = s[p + (i - (p - 1))]
      BY <1>8, <3>1
    <3>. QED BY <2>2, <3>1, <3>2
  <2>. QED BY <2>1, <2>2
<1>10. ToSet(c) = {c[i] : i \in 1 .. n - 1} /\ ToSet(s) = {s[i] : i \in 1 .. n}
  BY <1>1, <1>8, ToSetIs
<1>11. \A i, j \in 1 .. n : s[i].key = s[j].key => i = j
  BY <1>1 DEF Once
<1>12. ToSet(c) = ToSet(s) \ {s[p]}
  <2>1. ASSUME NEW e \in ToSet(c) PROVE e \in ToSet(s) \ {s[p]}
    <3>1. PICK i \in 1 .. n - 1 : e = c[i]
      BY <1>10, <2>1
    <3>2. PICK j \in 1 .. n : e = s[j] /\ j # p
      <4>1. CASE i < p
        BY <1>9, <3>1, <4>1
      <4>2. CASE ~(i < p)
        <5>1. i + 1 \in 1 .. n /\ i + 1 # p
          BY <1>1, <4>2
        <5>. QED BY <1>9, <3>1, <4>2, <5>1
      <4>. QED BY <4>1, <4>2
    <3>. QED BY <1>1, <1>10, <1>11, <3>2
  <2>2. ASSUME NEW e \in ToSet(s), e # s[p] PROVE e \in ToSet(c)
    <3>1. PICK j \in 1 .. n : e = s[j] /\ j # p
      BY <1>10, <2>2
    <3>2. CASE j < p
      <4>1. j \in 1 .. n - 1
        BY <1>1, <3>2
      <4>. QED BY <1>9, <1>10, <3>1, <3>2, <4>1
    <3>3. CASE ~(j < p)
      <4>1. j - 1 \in 1 .. n - 1 /\ ~(j - 1 < p) /\ (j - 1) + 1 = j
        BY <1>1, <3>1, <3>3
      <4>. QED BY <1>9, <1>10, <3>1, <4>1
    <3>. QED BY <3>2, <3>3
  <2>. QED BY <2>1, <2>2
<1>13. Once(c)
  <2>1. SUFFICES ASSUME NEW i \in 1 .. n - 1, NEW j \in 1 .. n - 1, c[i].key = c[j].key
                 PROVE  i = j
    BY <1>8 DEF Once
  <2>2. \A x \in 1 .. n - 1 : (IF x < p THEN x ELSE x + 1) \in 1 .. n
    BY <1>1
  <2>3. (IF i < p THEN i ELSE i + 1) = (IF j < p THEN j ELSE j + 1)
    BY <1>9, <1>11, <2>1, <2>2
  <2>. QED BY <2>3
<1>. QED BY <1>1, <1>3, <1>4, <1>5, <1>8, <1>12, <1>13 DEF RemoveAt

(* A chain in which the entry at p gets another value. *)
LEMMA ExchangedIs ==
  ASSUME NEW s \in Seq(Entry), Once(s), NEW p \in 1 .. Len(s), NEW e \in Entry, e.key = s[p].key
  PROVE  /\ [s EXCEPT ![p] = e] \in Seq(Entry)
         /\ ToSet([s EXCEPT ![p] = e]) = (ToSet(s) \ {s[p]}) \cup {e}
         /\ Once([s EXCEPT ![p] = e])
<1>1. PICK n \in Nat : n = Len(s)
  BY LenProperties
<1>2. PICK c : c = [s EXCEPT ![p] = e]
  OBVIOUS
<1>3. /\ c \in Seq(Entry) /\ Len(c) = n
      /\ \A i \in 1 .. n : c[i] = IF i = p THEN e ELSE s[i]
  <2>1. c \in Seq(Entry) /\ Len(c) = Len(s)
    BY <1>2, ExceptSeq
  <2>2. DOMAIN s = 1 .. n
    BY <1>1, LenProperties
  <2>. QED BY <1>1, <1>2, <2>1, <2>2
<1>4. ToSet(c) = {c[i] : i \in 1 .. n} /\ ToSet(s) = {s[i] : i \in 1 .. n}
  BY <1>1, <1>3, ToSetIs
<1>5. \A i, j \in 1 .. n : s[i].key = s[j].key => i = j
  BY <1>1 DEF Once
<1>6. ToSet(c) = (ToSet(s) \ {s[p]}) \cup {e}
  <2>1. ASSUME NEW f \in ToSet(c) PROVE f \in (ToSet(s) \ {s[p]}) \cup {e}
    BY <1>1, <1>3, <1>4, <1>5, <2>1
  <2>2. ASSUME NEW f \in ToSet(s), f # s[p] PROVE f \in ToSet(c)
    BY <1>1, <1>3, <1>4, <2>2
  <2>3. e \in ToSet(c)
    BY <1>1, <1>3, <1>4
  <2>. QED BY <2>1, <2>2, <2>3
<1>7. Once(c)
  BY <1>1, <1>3, <1>5 DEF Once
<1>. QED BY <1>2, <1>3, <1>6, <1>7

-----------------------------------------------------------------------------
(* A table of chains, and the table of sets that Dict has instead. *)

IsChained(h) ==
  /\ h = [addr |-> h.addr, table |-> h.table, size |-> h.size, used |-> h.used]
  /\ h.size \in Nat /\ h.used \in Int
  /\ h.table \in [0 .. h.size - 1 -> Seq(Entry)]
  /\ \A i \in 0 .. h.size - 1 : Once(h.table[i])

LEMMA SetOfChainsIs ==
  ASSUME NEW h, IsChained(h)
  PROVE  SetOfChains(h) = [table |-> [i \in 0 .. h.size - 1 |-> ToSet(h.table[i])],
                           size |-> h.size, used |-> h.used]
BY DEF SetOfChains, IsChained

LEMMA NoTableIs == IsChained(NoTable) /\ SetOfChains(NoTable) = EmptyTable
<1>1. /\ NoTable.table = [i \in {} |-> << >>] /\ NoTable.size = 0 /\ NoTable.used = 0
      /\ NoTable = [addr |-> NoTable.addr, table |-> NoTable.table, size |-> NoTable.size, used |-> NoTable.used]
  BY DEF NoTable
<1>2. 0 .. NoTable.size - 1 = {}
  BY <1>1
<1>3. IsChained(NoTable)
  BY <1>1, <1>2 DEF IsChained
<1>. QED BY <1>1, <1>2, <1>3, SetOfChainsIs DEF EmptyTable

LEMMA TableIs ==
  ASSUME NEW a, NEW n \in Nat
  PROVE  IsChained(Table(a, n)) /\ SetOfChains(Table(a, n)) = NewTable(n) /\ Table(a, n).size = n
<1>1. PICK t : t = Table(a, n)
  OBVIOUS
<1>2. /\ t.table = [i \in 0 .. n - 1 |-> << >>] /\ t.size = n /\ t.used = 0
      /\ t = [addr |-> t.addr, table |-> t.table, size |-> t.size, used |-> t.used]
  BY <1>1 DEF Table
<1>3. IsChained(t)
  BY <1>2, EmptyChain DEF IsChained
<1>4. \A i \in 0 .. n - 1 : ToSet(t.table[i]) = {}
  BY <1>2, EmptyChain
<1>. QED BY <1>1, <1>2, <1>3, <1>4, SetOfChainsIs DEF NewTable

(* Another chain in bucket b. *)
LEMMA WithChainIs ==
  ASSUME NEW h, IsChained(h), NEW b \in 0 .. h.size - 1,
         NEW chain \in Seq(Entry), Once(chain), NEW n \in Int
  PROVE  /\ IsChained(WithChain(h, b, chain, n))
         /\ WithChain(h, b, chain, n).size = h.size
         /\ SetOfChains(WithChain(h, b, chain, n)) =
              HashTable([SetOfChains(h).table EXCEPT ![b] = ToSet(chain)], SetOfChains(h), h.used + n)
<1>1. PICK w : w = WithChain(h, b, chain, n)
  OBVIOUS
<1>2. /\ w = [addr |-> w.addr, table |-> w.table, size |-> w.size, used |-> w.used]
      /\ w.size = h.size /\ w.used = h.used + n /\ w.table = [h.table EXCEPT ![b] = chain]
      /\ h.used + n \in Int
  BY <1>1 DEF WithChain, IsChained
<1>3. \A i \in 0 .. h.size - 1 : w.table[i] = IF i = b THEN chain ELSE h.table[i]
  BY <1>2 DEF IsChained
<1>4. w.table \in [0 .. h.size - 1 -> Seq(Entry)]
  BY <1>2 DEF IsChained
<1>5. IsChained(w)
  BY <1>2, <1>3, <1>4 DEF IsChained
<1>6. SetOfChains(w) = [table |-> [i \in 0 .. h.size - 1 |-> ToSet(w.table[i])],
                        size |-> h.size, used |-> h.used + n]
  BY <1>2, <1>5, SetOfChainsIs
<1>7. SetOfChains(h) = [table |-> [i \in 0 .. h.size - 1 |-> ToSet(h.table[i])], size |-> h.size, used |-> h.used]
  BY SetOfChainsIs
<1> DEFINE f == [i \in 0 .. h.size - 1 |-> ToSet(w.table[i])]
           g == [i \in 0 .. h.size - 1 |-> ToSet(h.table[i])]
<1>8. f = [g EXCEPT ![b] = ToSet(chain)]
  <2>1. \A i \in 0 .. h.size - 1 : f[i] = [g EXCEPT ![b] = ToSet(chain)][i]
    BY <1>3
  <2>. QED BY <2>1
<1>9. SetOfChains(w).table = f /\ SetOfChains(h).table = g /\ SetOfChains(h).size = h.size
  BY <1>6, <1>7
<1>. HIDE DEF f, g
<1>10. SetOfChains(w) = [table |-> f, size |-> h.size, used |-> h.used + n]
  BY <1>6 DEF f
<1>. QED BY <1>1, <1>2, <1>5, <1>8, <1>9, <1>10 DEF HashTable

(* The parts of the table of sets. *)
LEMMA BucketIs ==
  ASSUME NEW h, IsChained(h)
  PROVE  /\ SetOfChains(h).size = h.size /\ SetOfChains(h).used = h.used
         /\ \A i \in 0 .. h.size - 1 : SetOfChains(h).table[i] = ToSet(h.table[i])
<1>1. SetOfChains(h) = [table |-> [i \in 0 .. h.size - 1 |-> ToSet(h.table[i])],
                        size |-> h.size, used |-> h.used]
  BY SetOfChainsIs
<1>. QED BY <1>1

LEMMA LinkedIs ==
  ASSUME NEW h, IsChained(h), h.size > 0, NEW e \in Entry,
         \A f \in SetOfChains(h).table[Index(e.key, h.size)] : f.key # e.key
  PROVE  /\ IsChained(Linked(h, e)) /\ Linked(h, e).size = h.size
         /\ SetOfChains(Linked(h, e)) = WithEntry(SetOfChains(h), e)
<1>1. PICK b : b = Index(e.key, h.size)
  OBVIOUS
<1>2. b \in 0 .. h.size - 1
  BY <1>1, IndexInRange DEF Entry, IsChained
<1>3. PICK s : s = h.table[b]
  OBVIOUS
<1>4. s \in Seq(Entry) /\ Once(s) /\ h.used \in Int
  BY <1>2, <1>3 DEF IsChained
<1>5. PICK S : S = SetOfChains(h)
  OBVIOUS
<1>6. S.table[b] = ToSet(s) /\ S.size = h.size /\ S.used = h.used
  BY <1>2, <1>3, <1>5, BucketIs
<1>7. PICK c : c = <<e>> \o s
  OBVIOUS
<1>8. c \in Seq(Entry) /\ ToSet(c) = ToSet(s) \cup {e} /\ Once(c)
  BY <1>1, <1>4, <1>5, <1>6, <1>7, HeadIs
<1>9. Linked(h, e) = WithChain(h, b, c, 1)
  BY <1>1, <1>3, <1>7 DEF Linked, Bucket
<1>10. /\ IsChained(Linked(h, e)) /\ Linked(h, e).size = h.size
       /\ SetOfChains(Linked(h, e)) = HashTable([S.table EXCEPT ![b] = ToSet(c)], S, h.used + 1)
  <2>1. /\ IsChained(WithChain(h, b, c, 1))
        /\ WithChain(h, b, c, 1).size = h.size
        /\ SetOfChains(WithChain(h, b, c, 1)) =
             HashTable([SetOfChains(h).table EXCEPT ![b] = ToSet(c)], SetOfChains(h), h.used + 1)
    <3>1. h.size \in Nat /\ 1 \in Int
      BY DEF IsChained
    <3>. QED BY <1>2, <1>4, <1>8, <3>1, WithChainIs
  <2>. QED BY <1>5, <1>9, <2>1
<1>11. WithEntry(S, e) = HashTable([S.table EXCEPT ![b] = S.table[b] \cup {e}], S, S.used + 1)
  BY <1>1, <1>6 DEF WithEntry
<1>. QED BY <1>5, <1>6, <1>8, <1>10, <1>11

-----------------------------------------------------------------------------
(* A moved chain.  Relinked is a recursive function: f are its values.     *)

Linking(f, n, h, chain) ==
  f = [i \in 0 .. n |-> IF i = 0 THEN h ELSE Linked(f[i - 1], chain[i])]

LEMMA LinkingExists ==
  ASSUME NEW n \in Nat, NEW h, NEW chain
  PROVE  \E f : Linking(f, n, h, chain)
<1> DEFINE S == {m \in Nat : ~ \E f : Linking(f, m, h, chain)}
<1>1. SUFFICES ASSUME S # {} PROVE FALSE
  OBVIOUS
<1>2. PICK x \in S : \A y \in S : x <= y
  <2>. HIDE DEF S
  <2>1. S \in SUBSET Nat
    BY DEF S
  <2>. QED BY <1>1, <2>1, LeastNat
<1>3. CASE x = 0
  <2>1. Linking([i \in 0 .. 0 |-> h], 0, h, chain)
    BY DEF Linking
  <2>. QED BY <1>2, <1>3, <2>1
<1>4. CASE x # 0
  <2>1. x - 1 \in Nat /\ x - 1 \notin S
    BY <1>2, <1>4
  <2>2. PICK f : Linking(f, x - 1, h, chain)
    BY <2>1
  <2> DEFINE g == [i \in 0 .. x |-> IF i = x THEN Linked(f[x - 1], chain[x]) ELSE f[i]]
             r == [i \in 0 .. x |-> IF i = 0 THEN h ELSE Linked(g[i - 1], chain[i])]
  <2>3. ASSUME NEW i \in 0 .. x PROVE g[i] = r[i]
    <3>1. CASE i = x
      <4>1. g[i] = Linked(f[x - 1], chain[x])
        BY <3>1
      <4>2. x - 1 \in 0 .. x /\ x - 1 # x /\ i # 0
        BY <1>4, <3>1
      <4>3. g[x - 1] = f[x - 1]
        BY <4>2
      <4>4. r[i] = Linked(g[i - 1], chain[i])
        BY <4>2
      <4>. QED BY <3>1, <4>1, <4>3, <4>4
    <3>2. CASE i # x
      <4>1. i \in 0 .. x - 1 /\ g[i] = f[i]
        BY <3>2
      <4>2. f[i] = IF i = 0 THEN h ELSE Linked(f[i - 1], chain[i])
        BY <2>2, <4>1 DEF Linking
      <4>3. i # 0 => i - 1 \in 0 .. x /\ i - 1 # x /\ g[i - 1] = f[i - 1]
        BY <4>1
      <4>4. r[i] = IF i = 0 THEN h ELSE Linked(g[i - 1], chain[i])
        OBVIOUS
      <4>. QED BY <4>1, <4>2, <4>3, <4>4
    <3>. QED BY <3>1, <3>2
  <2>4. g = r
    <3>1. /\ g = [i \in 0 .. x |-> g[i]]
          /\ r = [i \in 0 .. x |-> r[i]]
      OBVIOUS
    <3>. HIDE DEF g, r
    <3>. QED BY <2>3, <3>1
  <2>5. Linking(g, x, h, chain)
    BY <2>4 DEF Linking
  <2>. QED BY <1>2, <2>5
<1>. QED BY <1>3, <1>4

LEMMA RelinkedIs ==
  ASSUME NEW h, NEW chain, Len(chain) \in Nat
  PROVE  \E f : Linking(f, Len(chain), h, chain) /\ Relinked(h, chain) = f[Len(chain)]
<1>1. \E f : Linking(f, Len(chain), h, chain)
  BY LinkingExists
<1> DEFINE g == CHOOSE f : f = [i \in 0 .. Len(chain) |-> IF i = 0 THEN h ELSE Linked(f[i - 1], chain[i])]
<1>2. g = [i \in 0 .. Len(chain) |-> IF i = 0 THEN h ELSE Linked(g[i - 1], chain[i])]
  BY <1>1 DEF Linking
<1>3. Relinked(h, chain) = g[Len(chain)]
  BY DEF Relinked
<1>4. Linking(g, Len(chain), h, chain)
  BY <1>2 DEF Linking
<1>. QED BY <1>3, <1>4

(* The table stays where it is. *)
LEMMA RelinkedAddress ==
  ASSUME NEW h, NEW chain, Len(chain) \in Nat
  PROVE  Relinked(h, chain).addr = h.addr
<1>0. PICK n \in Nat : n = Len(chain)
  OBVIOUS
<1>1. PICK f : n = Len(chain) /\ Linking(f, n, h, chain) /\ Relinked(h, chain) = f[n]
  BY <1>0, RelinkedIs
<1> DEFINE S == {m \in Nat : m <= n /\ f[m].addr # h.addr}
<1>2. ASSUME S # {} PROVE FALSE
  <2>1. PICK x \in S : \A y \in S : x <= y
    <3>1. S \in SUBSET Nat
      OBVIOUS
    <3>. HIDE DEF S
    <3>. QED BY <1>2, <3>1, LeastNat
  <2>2. x \in 0 .. n /\ f[x].addr # h.addr
    BY <2>1
  <2>3. f[x] = IF x = 0 THEN h ELSE Linked(f[x - 1], chain[x])
    <3>1. f = [i \in 0 .. n |-> IF i = 0 THEN h ELSE Linked(f[i - 1], chain[i])]
      BY <1>1 DEF Linking
    <3>2. PICK g : g = [i \in 0 .. n |-> IF i = 0 THEN h ELSE Linked(f[i - 1], chain[i])]
      OBVIOUS
    <3>3. g[x] = IF x = 0 THEN h ELSE Linked(f[x - 1], chain[x])
      BY <2>2, <3>2
    <3>4. f = g
      BY <3>1, <3>2
    <3>. QED BY <3>3, <3>4
  <2>4. CASE x = 0
    BY <2>2, <2>3, <2>4
  <2>5. CASE x # 0
    <3>1. x - 1 \in Nat /\ x - 1 <= n /\ ~(x <= x - 1)
      BY <2>2, <2>5
    <3>2. f[x - 1].addr = h.addr
      BY <2>1, <3>1
    <3>3. f[x].addr = f[x - 1].addr
      <4>1. f[x] = Linked(f[x - 1], chain[x])
        BY <2>3, <2>5
      <4>2. \A g, e : Linked(g, e).addr = g.addr
        BY DEF Linked, WithChain
      <4>. QED BY <4>1, <4>2
    <3>. QED BY <2>2, <3>2, <3>3
  <2>. QED BY <2>4, <2>5
<1>3. n \in Nat /\ n <= n /\ n \notin S
  BY <1>2
<1>. QED BY <1>1, <1>3

(* Entries linked one by one are linked together. *)
LEMMA FillNone ==
  ASSUME NEW S, S = [table |-> S.table, size |-> S.size, used |-> S.used],
         S.size \in Nat, S.used \in Int, NEW V, S.table \in [0 .. S.size - 1 -> SUBSET V]
  PROVE  Fill(S, {}) = S
<1>1. Cardinality({}) = 0
  BY FS_EmptySet
<1>2. [i \in 0 .. S.size - 1 |-> S.table[i] \cup {e \in {} : Index(e.key, S.size) = i}] = S.table
  OBVIOUS
<1>3. S.used + 0 = S.used
  OBVIOUS
<1>. QED BY <1>1, <1>2, <1>3 DEF Fill, HashTable

LEMMA FillMore ==
  ASSUME NEW S, S.size \in Nat, S.size > 0, S.used \in Int,
         NEW M, IsFiniteSet(M), NEW e \in Entry, e \notin M
  PROVE  WithEntry(Fill(S, M), e) = Fill(S, M \cup {e})
<1>1. PICK F : F = Fill(S, M)
  OBVIOUS
<1> DEFINE t == [i \in 0 .. S.size - 1 |-> S.table[i] \cup {x \in M : Index(x.key, S.size) = i}]
           u == [i \in 0 .. S.size - 1 |-> S.table[i] \cup {x \in M \cup {e} : Index(x.key, S.size) = i}]
<1>2. F.table = t /\ F.size = S.size /\ F.used = S.used + Cardinality(M)
  BY <1>1 DEF Fill, HashTable
<1>3. PICK b : b = Index(e.key, S.size)
  OBVIOUS
<1>4. b \in 0 .. S.size - 1
  BY <1>3, IndexInRange DEF Entry
<1>5. [t EXCEPT ![b] = t[b] \cup {e}] = u
  <2>1. ASSUME NEW i \in 0 .. S.size - 1 PROVE [t EXCEPT ![b] = t[b] \cup {e}][i] = u[i]
    BY <1>3, <1>4
  <2>. QED BY <2>1
<1>6. Cardinality(M) \in Nat /\ Cardinality(M \cup {e}) = Cardinality(M) + 1
  BY FS_CardinalityType, FS_AddElement
<1>7. F.used + 1 = S.used + Cardinality(M \cup {e})
  BY <1>2, <1>6
<1>8. WithEntry(F, e) = HashTable([F.table EXCEPT ![b] = F.table[b] \cup {e}], F, F.used + 1)
  BY <1>2, <1>3 DEF WithEntry
<1>9. Fill(S, M \cup {e}) = [table |-> u, size |-> S.size, used |-> S.used + Cardinality(M \cup {e})]
  BY DEF Fill, HashTable
<1>. HIDE DEF t, u
<1>. QED BY <1>1, <1>2, <1>5, <1>7, <1>8, <1>9 DEF HashTable

(* No key of the chain has an entry in the table. *)
Apart(h, chain) ==
  \A i \in 0 .. h.size - 1 : \A f \in ToSet(h.table[i]), e \in ToSet(chain) : f.key # e.key

LEMMA RelinkedFills ==
  ASSUME NEW h, IsChained(h), h.size > 0, NEW chain \in Seq(Entry), Once(chain), Apart(h, chain)
  PROVE  /\ IsChained(Relinked(h, chain)) /\ Relinked(h, chain).size = h.size
         /\ SetOfChains(Relinked(h, chain)) = Fill(SetOfChains(h), ToSet(chain))
<1>1. PICK n \in Nat : n = Len(chain)
  BY LenProperties
<1>2. PICK f : Linking(f, n, h, chain) /\ Relinked(h, chain) = f[n]
  BY <1>1, RelinkedIs
<1>3. PICK S : S = SetOfChains(h)
  OBVIOUS
<1>4. /\ S.size = h.size /\ S.used = h.used /\ h.size \in Nat /\ h.used \in Int
      /\ \A i \in 0 .. h.size - 1 : S.table[i] = ToSet(h.table[i])
  BY <1>3, BucketIs DEF IsChained
<1>5. ToSet(chain) = {chain[p] : p \in 1 .. n} /\ \A p \in 1 .. n : chain[p] \in Entry
  BY <1>1, ToSetIs, ElementOfSeq
<1> DEFINE First(m) == {chain[p] : p \in 1 .. m}
           Good(m) == /\ IsChained(f[m]) /\ f[m].size = h.size
                      /\ SetOfChains(f[m]) = Fill(S, First(m))
           Bad == {m \in 0 .. n : ~Good(m)}
<1>6. Good(0)
  <2>1. f[0] = h
    BY <1>2 DEF Linking
  <2>2. First(0) = {}
    OBVIOUS
  <2>3. Fill(S, {}) = S
    <3>1. S = [table |-> [i \in 0 .. h.size - 1 |-> ToSet(h.table[i])], size |-> h.size, used |-> h.used]
      BY <1>3, SetOfChainsIs
    <3>2. PICK t : t = [i \in 0 .. h.size - 1 |-> ToSet(h.table[i])]
      OBVIOUS
    <3>3. t \in [0 .. h.size - 1 -> SUBSET Entry]
      BY <3>2, ToSetIs DEF IsChained
    <3>4. S = [table |-> S.table, size |-> S.size, used |-> S.used] /\ S.table = t
      BY <3>1, <3>2
    <3>. QED BY <1>4, <3>3, <3>4, FillNone
  <2>. QED BY <1>3, <2>1, <2>2, <2>3
<1>7. ASSUME NEW m \in 1 .. n, Good(m - 1)
      PROVE  Good(m)
  <2>1. PICK g : g = f[m - 1]
    OBVIOUS
  <2>2. PICK e \in Entry : e = chain[m]
    BY <1>5
  <2>3. f[m] = Linked(g, e)
    BY <1>2, <2>1, <2>2 DEF Linking
  <2>4. PICK M : M = First(m - 1)
    OBVIOUS
  <2>5. IsChained(g) /\ g.size = h.size /\ SetOfChains(g) = Fill(S, M)
    BY <1>7, <2>1, <2>4
  <2>6. First(m) = M \cup {e}
    <3>1. 1 .. m = (1 .. m - 1) \cup {m}
      OBVIOUS
    <3>. QED BY <2>2, <2>4, <3>1
  <2>7. IsFiniteSet(M)
    <3>1. M \subseteq ToSet(chain)
      BY <1>5, <2>4
    <3>2. IsFiniteSet(ToSet(chain))
      BY ChainLength
    <3>. QED BY <3>1, <3>2, FS_Subset
  <2>8. \A x \in M : x.key # e.key
    <3>1. ASSUME NEW p \in 1 .. m - 1 PROVE chain[p].key # e.key
      BY <1>1, <2>2 DEF Once
    <3>. QED BY <2>4, <3>1
  <2>9. \A x \in SetOfChains(g).table[Index(e.key, g.size)] : x.key # e.key
    <3>1. PICK b \in 0 .. h.size - 1 : b = Index(e.key, h.size)
      BY <1>4, IndexInRange DEF Entry
    <3>2. SetOfChains(g).table[b] = S.table[b] \cup {x \in M : Index(x.key, S.size) = b}
      BY <1>4, <2>5, <3>1 DEF Fill, HashTable
    <3>3. e \in ToSet(chain)
      BY <1>5, <2>2
    <3>4. \A x \in S.table[b] : x.key # e.key
      BY <1>4, <3>1, <3>3 DEF Apart
    <3>. QED BY <2>5, <2>8, <3>1, <3>2, <3>4
  <2>10. /\ IsChained(Linked(g, e)) /\ Linked(g, e).size = g.size
         /\ SetOfChains(Linked(g, e)) = WithEntry(SetOfChains(g), e)
    BY <1>4, <2>5, <2>9, LinkedIs
  <2>11. WithEntry(Fill(S, M), e) = Fill(S, M \cup {e})
    <3>1. e \notin M
      BY <2>8
    <3>2. S.size \in Nat /\ S.size > 0 /\ S.used \in Int
      BY <1>4
    <3>. QED BY <2>7, <3>1, <3>2, FillMore
  <2>. HIDE DEF First
  <2>. QED BY <2>3, <2>5, <2>6, <2>10, <2>11
<1>. HIDE DEF Good
<1>8. Bad = {}
  <2>1. SUFFICES ASSUME Bad # {} PROVE FALSE
    OBVIOUS
  <2>2. PICK x \in Bad : \A y \in Bad : x <= y
    <3>1. Bad \in SUBSET Nat
      OBVIOUS
    <3>. HIDE DEF Bad
    <3>. QED BY <2>1, <3>1, LeastNat
  <2>3. x \in 1 .. n
    BY <1>6, <2>2
  <2>4. x - 1 \in 0 .. n /\ ~(x <= x - 1)
    BY <2>3
  <2>. QED BY <1>7, <2>2, <2>3, <2>4
<1>9. Good(n)
  BY <1>8
<1>10. IsChained(f[n]) /\ f[n].size = h.size /\ SetOfChains(f[n]) = Fill(S, First(n))
  BY <1>9 DEF Good
<1>. QED BY <1>2, <1>3, <1>5, <1>10

-----------------------------------------------------------------------------
(* One round of dictRehash: one bucket, the first that has an entry.       *)

LEMMA BusyUnlessEmpty ==
  ASSUME NEW A, Consistent(A), Rehashing(A)
  PROVE  /\ A.ht[0].used = 0 => Busy(A) = {}
         /\ A.ht[0].used # 0 => Busy(A) # {}
         /\ A.rehashidx \in Nat /\ A.ht[0].size \in Nat
<1>1. PICK h : h = A.ht[0]
  OBVIOUS
<1>2. /\ IsFiniteSet(Items(h)) /\ h.used = Cardinality(Items(h)) /\ h.size \in Nat
      /\ A.rehashidx \in Nat
      /\ \A i \in 0 .. A.rehashidx - 1 : h.table[i] = {}
  BY <1>1 DEF Consistent, Rehashing, Sound, Counted, IsTable, Drained
<1>3. h.used = 0 <=> Items(h) = {}
  BY <1>2, FS_EmptySet
<1>4. Busy(A) = {i \in A.rehashidx .. h.size - 1 : h.table[i] # {}}
  BY <1>1 DEF Busy
<1>5. CASE Items(h) = {}
  <2>1. \A i \in 0 .. h.size - 1 : h.table[i] = {}
    BY <1>5, ItemsMember
  <2>2. \A i \in A.rehashidx .. h.size - 1 : i \in 0 .. h.size - 1
    BY <1>2
  <2>. QED BY <1>1, <1>2, <1>3, <1>4, <1>5, <2>1, <2>2
<1>6. CASE Items(h) # {}
  <2>1. PICK i \in 0 .. h.size - 1 : h.table[i] # {}
    <3>1. PICK e : e \in Items(h)
      BY <1>6
    <3>. QED BY <3>1, ItemsMember
  <2>2. i \in A.rehashidx .. h.size - 1
    BY <1>2, <2>1
  <2>3. i \in Busy(A)
    BY <1>4, <2>1, <2>2
  <2>. QED BY <1>1, <1>2, <1>3, <1>6, <2>3
<1>. QED BY <1>5, <1>6

LEMMA BatchOfNone ==
  ASSUME NEW A, Busy(A) = {}
  PROVE  Batch(A, 1) = {} /\ Moved(A, {}) = {}
<1>1. Batch(A, 1) = {}
  BY DEF Batch
<1>2. Moved(A, {}) = {}
  BY DEF Moved
<1>. QED BY <1>1, <1>2

LEMMA BatchOfOne ==
  ASSUME NEW A, Consistent(A), Rehashing(A),
         NEW i \in Busy(A), \A j \in Busy(A) : i <= j
  PROVE  /\ i \in 0 .. A.ht[0].size - 1
         /\ Batch(A, 1) = {i} /\ NextIndex(A, {i}) = i + 1
         /\ Moved(A, {i}) = A.ht[0].table[i]
<1>1. PICK n : n = A.ht[0].size
  OBVIOUS
<1>2. PICK r : r = A.rehashidx
  OBVIOUS
<1>3. n \in Nat /\ r \in Nat
  BY <1>1, <1>2, BusyUnlessEmpty
<1>4. Busy(A) \subseteq r .. n - 1
  BY <1>1, <1>2 DEF Busy
<1>5. i \in r .. n - 1 /\ i \in 0 .. n - 1
  BY <1>3, <1>4
<1> DEFINE before(j) == {k \in Busy(A) : k < j}
<1>6. \A j \in Busy(A) : IsFiniteSet(before(j))
  <2>1. IsFiniteSet(r .. n - 1)
    BY <1>3, FS_Interval
  <2>2. \A j \in Busy(A) : before(j) \subseteq r .. n - 1
    BY <1>4
  <2>. HIDE DEF before
  <2>. QED BY <2>1, <2>2, FS_Subset
<1>7. \A j \in Busy(A) : before(j) = {} <=> j = i
  <2>. TAKE j \in Busy(A)
  <2>1. j \in Int /\ i \in Int /\ i <= j
    BY <1>3, <1>4, <1>5
  <2>2. j # i => i \in before(j)
    BY <2>1
  <2>3. \A k \in before(i) : FALSE
    BY <1>3, <1>4, <1>5
  <2>. QED BY <2>2, <2>3
<1>8. \A j \in Busy(A) : Cardinality(before(j)) < 1 <=> j = i
  <2>. TAKE j \in Busy(A)
  <2>1. Cardinality(before(j)) \in Nat /\ (Cardinality(before(j)) = 0 <=> before(j) = {})
    <3>. HIDE DEF before
    <3>. QED BY <1>6, FS_CardinalityType, FS_EmptySet
  <2>2. Cardinality(before(j)) < 1 <=> Cardinality(before(j)) = 0
    <3>. HIDE DEF before
    <3>. QED BY <2>1
  <2>. QED BY <1>7, <2>1, <2>2
<1>9. Batch(A, 1) = {i}
  <2>1. Batch(A, 1) = {j \in Busy(A) : Cardinality(before(j)) < 1}
    BY DEF Batch
  <2>. HIDE DEF before
  <2>. QED BY <1>8, <2>1
<1>10. NextIndex(A, {i}) = i + 1
  <2>1. i + 1 \in 0 .. n
    BY <1>3, <1>5
  <2>2. \A x \in 0 .. n : IsPast(A, {i}, x) <=> i + 1 <= x
    BY <1>1, <1>2, <1>3, <1>5 DEF IsPast
  <2> DEFINE P(x) == IsPast(A, {i}, x) /\ \A y \in 0 .. n : IsPast(A, {i}, y) => x <= y
  <2>3. P(i + 1)
    BY <2>1, <2>2
  <2>4. \A x \in 0 .. n : P(x) => x = i + 1
    BY <2>1, <2>2
  <2>5. NextIndex(A, {i}) = CHOOSE x \in 0 .. n : P(x)
    BY <1>1 DEF NextIndex
  <2>. HIDE DEF P
  <2>. QED BY <2>1, <2>3, <2>4, <2>5
<1>11. Moved(A, {i}) = A.ht[0].table[i]
  BY DEF Moved
<1>. QED BY <1>1, <1>5, <1>9, <1>10, <1>11

-----------------------------------------------------------------------------
(* A hash whose tables of sets are a consistent dict object with values.   *)

Abs(d) == DictObject(SetOfChains(d.ht[0]), SetOfChains(d.ht[1]), d.rehashidx, 0)

Good(d) ==
  /\ d = HashDict(d.ht[0], d.ht[1], d.rehashidx)
  /\ IsChained(d.ht[0]) /\ IsChained(d.ht[1])
  /\ Consistent(Abs(d))
  /\ \A e \in Entries(Abs(d)) : e.v \in Value

LEMMA HashDictIs ==
  ASSUME NEW t0, NEW t1, NEW idx
  PROVE  /\ HashDict(t0, t1, idx).ht[0] = t0 /\ HashDict(t0, t1, idx).ht[1] = t1
         /\ HashDict(t0, t1, idx).rehashidx = idx
         /\ Abs(HashDict(t0, t1, idx)) = DictObject(SetOfChains(t0), SetOfChains(t1), idx, 0)
<1>1. PICK d : d = HashDict(t0, t1, idx)
  OBVIOUS
<1>2. d.ht[0] = t0 /\ d.ht[1] = t1 /\ d.rehashidx = idx
  BY <1>1 DEF HashDict, Tables
<1>. QED BY <1>1, <1>2 DEF Abs

LEMMA AbsIs ==
  ASSUME NEW d
  PROVE  /\ Abs(d).ht[0] = SetOfChains(d.ht[0]) /\ Abs(d).ht[1] = SetOfChains(d.ht[1])
         /\ Abs(d).rehashidx = d.rehashidx /\ Abs(d).iterators = 0
         /\ Rehashing(Abs(d)) <=> d.rehashidx # -1
<1>1. PICK S0, S1, x : S0 = SetOfChains(d.ht[0]) /\ S1 = SetOfChains(d.ht[1]) /\ x = d.rehashidx
  OBVIOUS
<1>2. LET o == DictObject(S0, S1, x, 0)
      IN  /\ o.ht[0] = S0 /\ o.ht[1] = S1 /\ o.rehashidx = x /\ o.iterators = 0
          /\ Rehashing(o) <=> x # -1
  BY Parts
<1>. QED BY <1>1, <1>2 DEF Abs

LEMMA GoodIs ==
  ASSUME NEW d, Good(d)
  PROVE  /\ d.ht[0].size \in Nat /\ d.ht[0].used \in Nat
         /\ d.ht[1].size \in Nat /\ d.ht[1].used \in Nat
         /\ d.rehashidx \in Nat \cup {-1}
         /\ Abs(d).ht[0].size = d.ht[0].size /\ Abs(d).ht[0].used = d.ht[0].used
         /\ Abs(d).ht[1].size = d.ht[1].size /\ Abs(d).ht[1].used = d.ht[1].used
         /\ \A i \in 0 .. d.ht[0].size - 1 : Abs(d).ht[0].table[i] = ToSet(d.ht[0].table[i])
         /\ \A i \in 0 .. d.ht[1].size - 1 : Abs(d).ht[1].table[i] = ToSet(d.ht[1].table[i])
<1>1. PICK h0, h1, S0, S1 : /\ h0 = d.ht[0] /\ h1 = d.ht[1]
                            /\ S0 = SetOfChains(h0) /\ S1 = SetOfChains(h1)
  OBVIOUS
<1>2. /\ S0.size = h0.size /\ S0.used = h0.used /\ S1.size = h1.size /\ S1.used = h1.used
      /\ \A i \in 0 .. h0.size - 1 : S0.table[i] = ToSet(h0.table[i])
      /\ \A i \in 0 .. h1.size - 1 : S1.table[i] = ToSet(h1.table[i])
  BY <1>1, BucketIs DEF Good
<1>3. Abs(d).ht[0] = S0 /\ Abs(d).ht[1] = S1 /\ Abs(d).rehashidx = d.rehashidx
  BY <1>1, AbsIs
<1>4. IsTable(S0) /\ IsTable(S1) /\ d.rehashidx \in Nat \cup {-1}
  BY <1>3 DEF Good, Consistent, Sound
<1>5. S0.size \in Nat /\ S0.used \in Nat /\ S1.size \in Nat /\ S1.used \in Nat
  BY <1>4 DEF IsTable
<1>. QED BY <1>1, <1>2, <1>3, <1>4, <1>5

(* Another dict object of chains is good when the operation of DictTables  *)
(* it stands for is consistent.                                            *)
LEMMA GoodFrom ==
  ASSUME NEW h0, NEW h1, NEW idx, IsChained(h0), IsChained(h1),
         NEW A, A = DictObject(SetOfChains(h0), SetOfChains(h1), idx, 0),
         Consistent(A), \A e \in Entries(A) : e.v \in Value
  PROVE  Good(HashDict(h0, h1, idx)) /\ Abs(HashDict(h0, h1, idx)) = A
<1>1. PICK d : d = HashDict(h0, h1, idx)
  OBVIOUS
<1>2. d.ht[0] = h0 /\ d.ht[1] = h1 /\ d.rehashidx = idx /\ Abs(d) = A
  BY <1>1, HashDictIs
<1>. QED BY <1>1, <1>2 DEF Good

(* The entries of ht[0] and of ht[1] have different keys. *)
LEMMA TablesApart ==
  ASSUME NEW d, Good(d), NEW i \in 0 .. d.ht[0].size - 1
  PROVE  Apart(d.ht[1], d.ht[0].table[i])
<1>1. PICK A : A = Abs(d)
  OBVIOUS
<1>2. /\ \A e, f \in Items(A.ht[0]) \cup Items(A.ht[1]) : e.key = f.key => e = f
      /\ Items(A.ht[0]) \cap Items(A.ht[1]) = {}
  BY <1>1 DEF Good, Consistent, Unique, Entries
<1>3. \A e \in Items(A.ht[0]), f \in Items(A.ht[1]) : e.key # f.key
  BY <1>2
<1>4. ASSUME NEW e \in ToSet(d.ht[0].table[i]) PROVE e \in Items(A.ht[0])
  BY <1>1, <1>4, GoodIs, ItemsMember
<1>5. ASSUME NEW j \in 0 .. d.ht[1].size - 1, NEW f \in ToSet(d.ht[1].table[j]) PROVE f \in Items(A.ht[1])
  BY <1>1, <1>5, GoodIs, ItemsMember
<1>. QED BY <1>3, <1>4, <1>5 DEF Apart

LEMMA StepFinishes ==
  ASSUME NEW d, Good(d), d.rehashidx # -1, d.ht[0].used = 0
  PROVE  Step(d) = HashDict(d.ht[1], NoTable, -1)
         /\ _dictRehashStep(Abs(d)) = DictObject(SetOfChains(d.ht[1]), EmptyTable, -1, 0)
<1>1. PICK A : A = Abs(d)
  OBVIOUS
<1>2. /\ A.ht[0].used = 0 /\ Rehashing(A) /\ Consistent(A) /\ A.iterators = 0
      /\ A.ht[1] = SetOfChains(d.ht[1])
  BY <1>1, AbsIs, GoodIs DEF Good
<1>3. Batch(A, 1) = {} /\ Moved(A, {}) = {}
  BY <1>2, BusyUnlessEmpty, BatchOfNone
<1>4. Cardinality({}) = 0
  BY FS_EmptySet
<1>5. Drain(A.ht[0], {}, {}).used = 0
  BY <1>2, <1>4 DEF Drain, HashTable
<1>6. Fill(A.ht[1], {}) = A.ht[1]
  <2>1. PICK S : S = A.ht[1]
    OBVIOUS
  <2>2. IsTable(S)
    BY <1>2, <2>1 DEF Consistent, Sound
  <2>3. /\ S = [table |-> S.table, size |-> S.size, used |-> S.used]
        /\ S.size \in Nat /\ S.used \in Int
        /\ S.table \in [0 .. S.size - 1 -> SUBSET Entry]
    BY <2>2 DEF IsTable
  <2>. QED BY <2>1, <2>3, FillNone
<1>7. Rehash(A, 1) = DictObject(A.ht[1], EmptyTable, -1, 0)
  BY <1>2, <1>3, <1>4, <1>5, <1>6 DEF Rehash
<1>8. _dictRehashStep(A) = Rehash(A, 1)
  BY <1>2 DEF _dictRehashStep
<1>9. Step(d) = HashDict(d.ht[1], NoTable, -1)
  BY DEF Step, Finished
<1>. QED BY <1>1, <1>2, <1>7, <1>8, <1>9

(* The chain that moves, and what is left of its table. *)
LEMMA StepDrains ==
  ASSUME NEW h, IsChained(h), NEW i \in 0 .. h.size - 1
  PROVE  LET w == WithChain(h, i, << >>, -Len(h.table[i]))
         IN  /\ IsChained(w)
             /\ SetOfChains(w) = Drain(SetOfChains(h), {i}, ToSet(h.table[i]))
<1>1. PICK s : s = h.table[i]
  OBVIOUS
<1>2. s \in Seq(Entry) /\ Once(s) /\ h.used \in Int /\ h.size \in Nat
  BY <1>1 DEF IsChained
<1>3. PICK n \in Nat : n = Len(s)
  BY <1>2, LenProperties
<1>4. Cardinality(ToSet(s)) = n
  BY <1>2, <1>3, ChainLength
<1>5. PICK w : w = WithChain(h, i, << >>, -n)
  OBVIOUS
<1>6. PICK S : S = SetOfChains(h)
  OBVIOUS
<1>7. IsChained(w) /\ SetOfChains(w) = HashTable([S.table EXCEPT ![i] = {}], S, h.used + (-n))
  <2>1. << >> \in Seq(Entry) /\ Once(<< >>) /\ ToSet(<< >>) = {} /\ -n \in Int
    BY EmptyChain
  <2>2. PICK c, m : c = << >> /\ m = -n
    OBVIOUS
  <2>3. /\ IsChained(WithChain(h, i, c, m))
        /\ SetOfChains(WithChain(h, i, c, m)) =
              HashTable([SetOfChains(h).table EXCEPT ![i] = ToSet(c)], SetOfChains(h), h.used + m)
    BY <2>1, <2>2, WithChainIs
  <2>. QED BY <1>5, <1>6, <2>1, <2>2, <2>3
<1>8. S.size = h.size /\ S.used = h.used /\ S.table = [j \in 0 .. h.size - 1 |-> ToSet(h.table[j])]
  <2>1. S = [table |-> [j \in 0 .. h.size - 1 |-> ToSet(h.table[j])], size |-> h.size, used |-> h.used]
    BY <1>6, SetOfChainsIs
  <2>. QED BY <2>1
<1> DEFINE f == [S.table EXCEPT ![i] = {}]
           g == [j \in 0 .. S.size - 1 |-> IF j \in {i} THEN {} ELSE S.table[j]]
<1>9. f = g
  <2>1. \A j \in 0 .. h.size - 1 : f[j] = g[j]
    BY <1>8
  <2>. QED BY <1>8, <2>1
<1>10. h.used + (-n) = S.used - Cardinality(ToSet(s))
  BY <1>2, <1>4, <1>8
<1>11. Drain(S, {i}, ToSet(s)) = HashTable(g, S, S.used - Cardinality(ToSet(s)))
  BY DEF Drain
<1>. HIDE DEF f, g
<1>12. SetOfChains(w) = HashTable(f, S, h.used + (-n))
  BY <1>7 DEF f
<1>. QED BY <1>1, <1>3, <1>5, <1>6, <1>7, <1>9, <1>10, <1>11, <1>12

LEMMA StepMoves ==
  ASSUME NEW d, Good(d), d.rehashidx # -1, d.ht[0].used # 0
  PROVE  \E h0, h1, x : /\ Step(d) = HashDict(h0, h1, x)
                        /\ IsChained(h0) /\ IsChained(h1)
                        /\ _dictRehashStep(Abs(d)) = DictObject(SetOfChains(h0), SetOfChains(h1), x, 0)
                        /\ h0.addr = d.ht[0].addr /\ h1.addr = d.ht[1].addr
<1>1. PICK A : A = Abs(d)
  OBVIOUS
<1>2. PICK d0, d1 : d0 = d.ht[0] /\ d1 = d.ht[1]
  OBVIOUS
<1>3. PICK S0, S1 : S0 = SetOfChains(d0) /\ S1 = SetOfChains(d1)
  OBVIOUS
<1>4. /\ A.ht[0] = S0 /\ A.ht[1] = S1 /\ A.rehashidx = d.rehashidx /\ A.iterators = 0
      /\ Rehashing(A) /\ Consistent(A)
  BY <1>1, <1>2, <1>3, AbsIs DEF Good
<1>5. /\ IsChained(d0) /\ IsChained(d1) /\ d0.size \in Nat /\ d1.size \in Nat
      /\ S0.size = d0.size /\ S0.used = d0.used
      /\ \A i \in 0 .. d0.size - 1 : S0.table[i] = ToSet(d0.table[i])
      /\ d.rehashidx \in Nat
  BY <1>1, <1>2, <1>4, GoodIs DEF Good
<1>6. NotMoved(d) = Busy(A)
  <2>1. NotMoved(d) = {i \in d.rehashidx .. d0.size - 1 : d0.table[i] # << >>}
    BY <1>2 DEF NotMoved
  <2>2. Busy(A) = {i \in d.rehashidx .. d0.size - 1 : S0.table[i] # {}}
    BY <1>4, <1>5 DEF Busy
  <2>3. \A i \in d.rehashidx .. d0.size - 1 : i \in 0 .. d0.size - 1
    BY <1>5
  <2>4. \A i \in 0 .. d0.size - 1 : d0.table[i] = << >> <=> S0.table[i] = {}
    BY <1>5, ChainNotEmpty DEF IsChained
  <2>. QED BY <2>1, <2>2, <2>3, <2>4
<1>7. \E j \in Busy(A) : \A b \in Busy(A) : j <= b
  <2>1. Busy(A) # {}
    BY <1>2, <1>4, <1>5, BusyUnlessEmpty
  <2>2. Busy(A) \in SUBSET Nat
    BY <1>4, <1>5 DEF Busy
  <2>. QED BY <2>1, <2>2, LeastNat
<1>8. PICK i : i = CHOOSE j \in NotMoved(d) : \A b \in NotMoved(d) : j <= b
  OBVIOUS
<1>9. i \in Busy(A) /\ \A b \in Busy(A) : i <= b
  BY <1>6, <1>7, <1>8
<1>10. i \in 0 .. d0.size - 1 /\ Batch(A, 1) = {i} /\ NextIndex(A, {i}) = i + 1 /\ Moved(A, {i}) = S0.table[i]
  BY <1>4, <1>5, <1>9, BatchOfOne
<1>11. PICK s : s = d0.table[i]
  OBVIOUS
<1>12. s \in Seq(Entry) /\ Once(s) /\ S0.table[i] = ToSet(s) /\ Apart(d1, s)
  BY <1>2, <1>5, <1>10, <1>11, TablesApart DEF IsChained
<1>13. PICK h0 : h0 = WithChain(d0, i, << >>, -Len(s))
  OBVIOUS
<1>14. IsChained(h0) /\ SetOfChains(h0) = Drain(S0, {i}, ToSet(s))
  BY <1>3, <1>5, <1>10, <1>11, <1>13, StepDrains
<1>15. PICK h1 : h1 = Relinked(d1, s)
  OBVIOUS
<1>16. IsChained(h1) /\ SetOfChains(h1) = Fill(S1, ToSet(s))
  <2>1. d1.size > 0
    <3>1. S1.size > 0 /\ S1.size = d1.size
      BY <1>3, <1>4, <1>5, BucketIs DEF Consistent, Drained
    <3>. QED BY <3>1
  <2>. QED BY <1>3, <1>5, <1>12, <1>15, <2>1, RelinkedFills
<1>17. Step(d) = HashDict(h0, h1, i + 1)
  BY <1>2, <1>8, <1>11, <1>13, <1>15 DEF Step
<1>18. Rehash(A, 1) = DictObject(Drain(S0, {i}, ToSet(s)), Fill(S1, ToSet(s)), i + 1, 0)
  <2>1. Cardinality({i}) = 1
    BY FS_Singleton
  <2>2. ~(Cardinality({i}) < 1)
    BY <2>1
  <2>. QED BY <1>4, <1>10, <1>12, <2>2 DEF Rehash
<1>19. _dictRehashStep(A) = Rehash(A, 1)
  BY <1>4 DEF _dictRehashStep
<1>20. h0.addr = d0.addr /\ h1.addr = d1.addr
  <2>1. Len(s) \in Nat
    BY <1>12, LenProperties
  <2>2. h0.addr = d0.addr
    BY <1>13 DEF WithChain
  <2>3. h1.addr = d1.addr
    BY <1>15, <2>1, RelinkedAddress
  <2>. QED BY <2>2, <2>3
<1>. QED BY <1>1, <1>2, <1>14, <1>16, <1>17, <1>18, <1>19, <1>20

(* One bucket moves, with its chain, as in Dict without. *)
LEMMA StepIs ==
  ASSUME NEW d, Good(d)
  PROVE  /\ Good(Step(d))
         /\ Abs(Step(d)) = _dictRehashStep(Abs(d))
         /\ Entries(Abs(Step(d))) = Entries(Abs(d))
         /\ d.ht[0].size > 0 => Step(d).ht[0].size > 0
<1>1. PICK A : A = Abs(d)
  OBVIOUS
<1>2. PICK B : B = _dictRehashStep(A)
  OBVIOUS
<1>3. /\ Consistent(B) /\ Entries(B) = Entries(A)
      /\ A.ht[0].size > 0 => B.ht[0].size > 0
  BY <1>1, <1>2, RehashStepConsistent DEF Good
<1>4. \A e \in Entries(B) : e.v \in Value
  BY <1>1, <1>3 DEF Good
<1>5. Good(Step(d)) /\ Abs(Step(d)) = B
  <2>1. CASE d.rehashidx = -1
    <3>1. Step(d) = d
      BY <2>1 DEF Step
    <3>2. A.iterators = 0 /\ ~Rehashing(A)
      BY <1>1, <2>1, AbsIs
    <3>3. B = A
      BY <1>2, <3>2 DEF _dictRehashStep, Rehash
    <3>. QED BY <1>1, <3>1, <3>3
  <2>2. CASE d.rehashidx # -1 /\ d.ht[0].used = 0
    <3>1. /\ Step(d) = HashDict(d.ht[1], NoTable, -1)
          /\ B = DictObject(SetOfChains(d.ht[1]), EmptyTable, -1, 0)
      BY <1>1, <1>2, <2>2, StepFinishes
    <3>2. IsChained(d.ht[1]) /\ IsChained(NoTable) /\ SetOfChains(NoTable) = EmptyTable
      BY NoTableIs DEF Good
    <3>. QED BY <1>3, <1>4, <3>1, <3>2, GoodFrom
  <2>3. CASE d.rehashidx # -1 /\ d.ht[0].used # 0
    <3>1. PICK h0, h1, x : /\ Step(d) = HashDict(h0, h1, x)
                           /\ IsChained(h0) /\ IsChained(h1)
                           /\ B = DictObject(SetOfChains(h0), SetOfChains(h1), x, 0)
      BY <1>1, <1>2, <2>3, StepMoves
    <3>2. Good(HashDict(h0, h1, x)) /\ Abs(HashDict(h0, h1, x)) = B
      BY <1>3, <1>4, <3>1, GoodFrom
    <3>. QED BY <3>1, <3>2
  <2>. QED BY <2>1, <2>2, <2>3
<1>6. A.ht[0].size = d.ht[0].size /\ B.ht[0].size = Step(d).ht[0].size
  BY <1>1, <1>5, GoodIs
<1>. QED BY <1>1, <1>2, <1>3, <1>5, <1>6

-----------------------------------------------------------------------------
(* Growing. *)

LEMMA MustExpandIs ==
  ASSUME NEW d
  PROVE  D!MustExpand(d) <=> /\ d.rehashidx = -1
                             /\ d.ht[0].size = 0 \/ (d.ht[0].size > 0 /\ d.ht[0].used >= d.ht[0].size)
BY DEF D!MustExpand, D!Rehashing

(* _dictExpandIfNeeded, in terms of DictTables. *)
Grown(A) == IF D!MustExpand(A) THEN Expand(A, WantedSize(A)) ELSE A

LEMMA GrowthAllowed ==
  ASSUME NEW d, Good(d), D!MustExpand(d)
  PROVE  CanExpand(Abs(d), WantedSize(Abs(d)))
<1>1. PICK A : A = Abs(d)
  OBVIOUS
<1>2. ~Rehashing(A) /\ Consistent(A) /\ A.ht[0].used \in Nat
  BY <1>1, AbsIs, GoodIs, MustExpandIs DEF Good
<1>3. A.ht[0].used <= WantedSize(A)
  <2>1. CASE A.ht[0].size = 0
    <3>1. Items(A.ht[0]) = {}
      BY <1>2, <2>1, NoTableNoEntries DEF Entries
    <3>2. A.ht[0].used = 0
      BY <1>2, <3>1, FS_EmptySet DEF Consistent, Sound, Counted
    <3>3. WantedSize(A) \in Nat
      BY <1>2, WantedSizeBounded
    <3>. QED BY <3>2, <3>3
  <2>2. CASE A.ht[0].size # 0
    BY <1>2, <2>2 DEF WantedSize
  <2>. QED BY <2>1, <2>2
<1>. QED BY <1>1, <1>2, <1>3 DEF CanExpand

LEMMA ExpandedIs ==
  ASSUME NEW d, Good(d), NEW addr
  PROVE  /\ Good(Expanded(d, addr))
         /\ Abs(Expanded(d, addr)) = Grown(Abs(d))
         /\ Entries(Abs(Expanded(d, addr))) = Entries(Abs(d))
         /\ Expanded(d, addr).ht[0].size > 0
<1>1. PICK A : A = Abs(d)
  OBVIOUS
<1>2. /\ Consistent(A) /\ A.ht[0] = SetOfChains(d.ht[0]) /\ A.ht[1] = SetOfChains(d.ht[1])
      /\ A.rehashidx = d.rehashidx /\ A.iterators = 0
      /\ A.ht[0].size = d.ht[0].size /\ A.ht[0].used = d.ht[0].used /\ d.ht[0].size \in Nat
  BY <1>1, AbsIs, GoodIs DEF Good
<1>3. D!MustExpand(A) <=> D!MustExpand(d)
  BY <1>2, MustExpandIs
<1>4. CASE ~D!MustExpand(d)
  <2>1. Expanded(d, addr) = d
    BY <1>4 DEF Expanded
  <2>2. Grown(A) = A
    BY <1>3, <1>4 DEF Grown
  <2>3. d.ht[0].size > 0
    <3>1. CASE d.rehashidx = -1
      BY <1>2, <1>4, <3>1, MustExpandIs
    <3>2. CASE d.rehashidx # -1
      BY <1>2, <3>2 DEF Consistent, Drained, Rehashing
    <3>. QED BY <3>1, <3>2
  <2>. QED BY <1>1, <2>1, <2>2, <2>3
<1>5. CASE D!MustExpand(d)
  <2>1. PICK m : m = WantedSize(A)
    OBVIOUS
  <2>2. m \in 0 .. MaxRequest /\ CanExpand(A, m) /\ m = WantedSize(d)
    <3>1. WantedSize(A) = WantedSize(d)
      BY <1>2 DEF WantedSize
    <3>. QED BY <1>1, <1>2, <1>5, <2>1, <3>1, GrowthAllowed, WantedSizeBounded
  <2>3. PICK n : n = _dictNextPower(m)
    OBVIOUS
  <2>4. n \in Nat
    BY <2>2, <2>3, NextPowerType
  <2>5. PICK B : B = Expand(A, m)
    OBVIOUS
  <2>6. /\ Consistent(B) /\ Entries(B) = Entries(A) /\ B.ht[0].size > 0
        /\ \A e \in Entries(B) : e.v \in Value
    BY <1>1, <1>2, <2>2, <2>5, ExpandConsistent DEF Good
  <2>7. Grown(A) = B
    BY <1>3, <1>5, <2>1, <2>5 DEF Grown
  <2>8. PICK t : t = Table(addr, n)
    OBVIOUS
  <2>9. IsChained(t) /\ SetOfChains(t) = NewTable(n)
    BY <2>4, <2>8, TableIs
  <2>10. d.rehashidx = -1
    BY <1>5, MustExpandIs
  <2>11. Good(Expanded(d, addr)) /\ Abs(Expanded(d, addr)) = B
    <3>1. CASE d.ht[0].size = 0
      <4>1. B = DictObject(SetOfChains(t), SetOfChains(d.ht[1]), d.rehashidx, 0)
        BY <1>2, <2>2, <2>3, <2>5, <2>9, <3>1 DEF Expand, WithTables
      <4>2. Expanded(d, addr) = HashDict(t, d.ht[1], d.rehashidx)
        BY <1>5, <2>2, <2>3, <2>8, <3>1 DEF Expanded
      <4>. QED BY <2>6, <2>9, <4>1, <4>2, GoodFrom DEF Good
    <3>2. CASE d.ht[0].size # 0
      <4>1. B = DictObject(SetOfChains(d.ht[0]), SetOfChains(t), 0, 0)
        BY <1>2, <2>2, <2>3, <2>5, <2>9, <3>2 DEF Expand
      <4>2. Expanded(d, addr) = HashDict(d.ht[0], t, 0)
        BY <1>5, <2>2, <2>3, <2>8, <3>2 DEF Expanded
      <4>. QED BY <2>6, <2>9, <4>1, <4>2, GoodFrom DEF Good
    <3>. QED BY <3>1, <3>2
  <2>12. Expanded(d, addr).ht[0].size = B.ht[0].size
    BY <2>11, GoodIs
  <2>. QED BY <1>1, <2>6, <2>7, <2>11, <2>12
<1>. QED BY <1>4, <1>5

-----------------------------------------------------------------------------
(* The search of one chain. *)

LEMMA SearchIs ==
  ASSUME NEW h, IsChained(h), Sound(SetOfChains(h)), NEW k \in Key
  PROVE  /\ Has(h, k) <=> \E e \in Items(SetOfChains(h)) : e.key = k
         /\ h.size > 0 => (Has(h, k) <=> InTable(SetOfChains(h), k) # {})
         /\ h.size = 0 => ~Has(h, k)
         /\ Has(h, k) => /\ h.size > 0 /\ Bucket(k, h) \in 0 .. h.size - 1
                         /\ Chain(h, k) = h.table[Bucket(k, h)]
                         /\ Chain(h, k) \in Seq(Entry) /\ Once(Chain(h, k))
                         /\ Place(h, k) \in 1 .. Len(Chain(h, k))
                         /\ Chain(h, k)[Place(h, k)] \in Items(SetOfChains(h))
                         /\ Chain(h, k)[Place(h, k)].key = k
<1>1. PICK S : S = SetOfChains(h)
  OBVIOUS
<1>2. /\ Sound(S) /\ S.size = h.size /\ h.size \in Nat
      /\ \A i \in 0 .. h.size - 1 : S.table[i] = ToSet(h.table[i])
  BY <1>1, BucketIs DEF IsChained
<1>3. CASE h.size = 0
  <2>1. Chain(h, k) = << >>
    BY <1>3 DEF Chain
  <2>2. DOMAIN << >> = {}
    OBVIOUS
  <2>3. ~Has(h, k)
    BY <2>1, <2>2 DEF Has
  <2>4. \A e \in Items(S) : FALSE
    BY <1>2, <1>3, ItemsMember
  <2>. QED BY <1>1, <1>3, <2>3, <2>4
<1>4. CASE h.size # 0
  <2>1. PICK b \in 0 .. h.size - 1 : b = Index(k, h.size)
    BY <1>2, <1>4, IndexInRange
  <2>2. PICK s : s = h.table[b]
    OBVIOUS
  <2>3. s \in Seq(Entry) /\ Once(s) /\ S.table[b] = ToSet(s)
    BY <1>2, <2>1, <2>2 DEF IsChained
  <2>4. Chain(h, k) = s /\ Bucket(k, h) = b
    BY <1>4, <2>1, <2>2 DEF Chain, Bucket
  <2>5. DOMAIN s = 1 .. Len(s) /\ ToSet(s) = {s[p] : p \in 1 .. Len(s)}
    BY <2>3, LenProperties, ToSetIs
  <2>6. Has(h, k) <=> \E p \in 1 .. Len(s) : s[p].key = k
    BY <2>4, <2>5 DEF Has
  <2>7. InTable(S, k) = {e \in ToSet(s) : e.key = k}
    BY <1>2, <2>1, <2>3 DEF InTable
  <2>8. InTable(S, k) = {e \in Items(S) : e.key = k}
    BY <1>2, <1>4, InTableIsSearch
  <2>9. Has(h, k) <=> InTable(S, k) # {}
    BY <2>5, <2>6, <2>7
  <2>10. Has(h, k) <=> \E e \in Items(S) : e.key = k
    BY <2>8, <2>9
  <2>11. ASSUME Has(h, k)
         PROVE  Place(h, k) \in 1 .. Len(s) /\ s[Place(h, k)] \in Items(S) /\ s[Place(h, k)].key = k
    <3>1. Place(h, k) \in 1 .. Len(s) /\ s[Place(h, k)].key = k
      BY <2>4, <2>5, <2>6, <2>11 DEF Place
    <3>2. s[Place(h, k)] \in InTable(S, k)
      BY <2>5, <2>7, <3>1
    <3>. QED BY <2>8, <3>1, <3>2
  <2>. QED BY <1>1, <1>2, <1>4, <2>1, <2>2, <2>3, <2>4, <2>9, <2>10, <2>11
<1>. QED BY <1>3, <1>4

(* The entry of a key leaves its chain. *)
LEMMA LeavesChain ==
  ASSUME NEW h, IsChained(h), Sound(SetOfChains(h)), NEW k \in Key, Has(h, k)
  PROVE  LET w == WithChain(h, Bucket(k, h), RemoveAt(Chain(h, k), Place(h, k)), -1)
         IN  /\ IsChained(w)
             /\ SetOfChains(w) = WithoutEntry(SetOfChains(h), Chain(h, k)[Place(h, k)])
<1>1. PICK b, s, p, e : b = Bucket(k, h) /\ s = Chain(h, k) /\ p = Place(h, k) /\ e = s[p]
  OBVIOUS
<1>2. /\ b \in 0 .. h.size - 1 /\ s = h.table[b] /\ s \in Seq(Entry) /\ Once(s)
      /\ p \in 1 .. Len(s) /\ e.key = k
  BY <1>1, SearchIs
<1>3. PICK S : S = SetOfChains(h)
  OBVIOUS
<1>4. S.size = h.size /\ S.used = h.used /\ S.table[b] = ToSet(s) /\ h.used \in Int
  BY <1>2, <1>3, BucketIs DEF IsChained
<1>5. PICK c : c = RemoveAt(s, p)
  OBVIOUS
<1>6. c \in Seq(Entry) /\ Once(c) /\ ToSet(c) = ToSet(s) \ {e}
  BY <1>1, <1>2, <1>5, RemovedIs
<1>7. PICK n \in Int : n = -1
  OBVIOUS
<1>8. /\ IsChained(WithChain(h, b, c, n))
      /\ SetOfChains(WithChain(h, b, c, n)) = HashTable([S.table EXCEPT ![b] = ToSet(c)], S, h.used + n)
  BY <1>2, <1>3, <1>6, <1>7, WithChainIs
<1>9. WithoutEntry(S, e) = HashTable([S.table EXCEPT ![b] = S.table[b] \ {e}], S, S.used - 1)
  BY <1>1, <1>2, <1>4 DEF WithoutEntry, Bucket
<1>10. h.used + n = S.used - 1
  BY <1>4, <1>7
<1>. QED BY <1>1, <1>3, <1>4, <1>5, <1>6, <1>7, <1>8, <1>9, <1>10

(* The entry of a key gives its place to another of that key. *)
LEMMA ChangesInChain ==
  ASSUME NEW h, IsChained(h), Sound(SetOfChains(h)), NEW k \in Key, Has(h, k),
         NEW f \in Entry, f.key = k
  PROVE  LET w == WithChain(h, Bucket(k, h), [Chain(h, k) EXCEPT ![Place(h, k)] = f], 0)
         IN  /\ IsChained(w)
             /\ SetOfChains(w) = WithEntry(WithoutEntry(SetOfChains(h), Chain(h, k)[Place(h, k)]), f)
<1>1. PICK b, s, p, e : b = Bucket(k, h) /\ s = Chain(h, k) /\ p = Place(h, k) /\ e = s[p]
  OBVIOUS
<1>2. /\ b \in 0 .. h.size - 1 /\ s = h.table[b] /\ s \in Seq(Entry) /\ Once(s)
      /\ p \in 1 .. Len(s) /\ e.key = k
  BY <1>1, SearchIs
<1>3. PICK S : S = SetOfChains(h)
  OBVIOUS
<1>4. /\ S.size = h.size /\ S.used = h.used /\ S.table[b] = ToSet(s) /\ h.used \in Int
      /\ b \in DOMAIN S.table
  <2>1. S.table = [i \in 0 .. h.size - 1 |-> ToSet(h.table[i])]
    <3>1. S = [table |-> [i \in 0 .. h.size - 1 |-> ToSet(h.table[i])], size |-> h.size, used |-> h.used]
      BY <1>3, SetOfChainsIs
    <3>. QED BY <3>1
  <2>. QED BY <1>2, <1>3, <2>1, BucketIs DEF IsChained
<1>5. PICK c : c = [s EXCEPT ![p] = f]
  OBVIOUS
<1>6. c \in Seq(Entry) /\ Once(c) /\ ToSet(c) = (ToSet(s) \ {e}) \cup {f}
  BY <1>1, <1>2, <1>5, ExchangedIs
<1>7. /\ IsChained(WithChain(h, b, c, 0))
      /\ SetOfChains(WithChain(h, b, c, 0)) = HashTable([S.table EXCEPT ![b] = ToSet(c)], S, h.used + 0)
  <2>1. 0 \in Int
    OBVIOUS
  <2>. QED BY <1>2, <1>3, <1>6, <2>1, WithChainIs
<1>8. PICK o : o = WithoutEntry(S, e)
  OBVIOUS
<1>9. o.table = [S.table EXCEPT ![b] = S.table[b] \ {e}] /\ o.size = S.size /\ o.used = S.used - 1
  BY <1>1, <1>2, <1>4, <1>8 DEF WithoutEntry, Bucket, HashTable
<1>10. WithEntry(o, f) = HashTable([o.table EXCEPT ![b] = o.table[b] \cup {f}], o, o.used + 1)
  BY <1>1, <1>2, <1>4, <1>9 DEF WithEntry, Bucket
<1>11. [o.table EXCEPT ![b] = o.table[b] \cup {f}] = [S.table EXCEPT ![b] = ToSet(c)]
  BY <1>4, <1>6, <1>9
<1>12. o.used + 1 = h.used + 0
  BY <1>4, <1>9
<1>13. WithEntry(o, f) = HashTable([S.table EXCEPT ![b] = ToSet(c)], S, h.used + 0)
  BY <1>9, <1>10, <1>11, <1>12 DEF HashTable
<1>. QED BY <1>1, <1>3, <1>5, <1>7, <1>8, <1>13

-----------------------------------------------------------------------------
(* Searching, adding and removing. *)

LEMMA PartsOf ==
  ASSUME NEW d, Good(d)
  PROVE  /\ IsChained(d.ht[0]) /\ IsChained(d.ht[1])
         /\ Sound(SetOfChains(d.ht[0])) /\ Sound(SetOfChains(d.ht[1]))
         /\ Entries(Abs(d)) = Items(SetOfChains(d.ht[0])) \cup Items(SetOfChains(d.ht[1]))
         /\ \A e, f \in Entries(Abs(d)) : e.key = f.key => e = f
         /\ Consistent(Abs(d))
<1>1. Abs(d).ht[0] = SetOfChains(d.ht[0]) /\ Abs(d).ht[1] = SetOfChains(d.ht[1])
  BY AbsIs
<1>. QED BY <1>1 DEF Good, Consistent, Unique, Entries

LEMMA IsInIs ==
  ASSUME NEW d, Good(d), NEW k \in Key
  PROVE  /\ IsIn(d, k) <=> HasKey(Abs(d), k)
         /\ IsIn(d, k) => EntryOf(d, k) \in Entries(Abs(d)) /\ EntryOf(d, k).key = k
<1>1. PICK h0, h1 : h0 = d.ht[0] /\ h1 = d.ht[1]
  OBVIOUS
<1>2. PICK I0, I1 : I0 = Items(SetOfChains(h0)) /\ I1 = Items(SetOfChains(h1))
  OBVIOUS
<1>3. Entries(Abs(d)) = I0 \cup I1
  BY <1>1, <1>2, PartsOf
<1>4. /\ Has(h0, k) <=> \E e \in I0 : e.key = k
      /\ Has(h0, k) => Chain(h0, k)[Place(h0, k)] \in I0 /\ Chain(h0, k)[Place(h0, k)].key = k
  BY <1>1, <1>2, PartsOf, SearchIs
<1>5. /\ Has(h1, k) <=> \E e \in I1 : e.key = k
      /\ Has(h1, k) => Chain(h1, k)[Place(h1, k)] \in I1 /\ Chain(h1, k)[Place(h1, k)].key = k
  BY <1>1, <1>2, PartsOf, SearchIs
<1>6. IsIn(d, k) <=> HasKey(Abs(d), k)
  BY <1>1, <1>3, <1>4, <1>5 DEF IsIn, HasKey
<1>7. CASE Has(h0, k)
  <2>1. EntryOf(d, k) = Chain(h0, k)[Place(h0, k)]
    BY <1>1, <1>7 DEF EntryOf, TableOf
  <2>. QED BY <1>3, <1>4, <1>6, <1>7, <2>1
<1>8. CASE ~Has(h0, k)
  <2>1. EntryOf(d, k) = Chain(h1, k)[Place(h1, k)]
    BY <1>1, <1>8 DEF EntryOf, TableOf
  <2>2. IsIn(d, k) => Has(h1, k)
    BY <1>1, <1>8 DEF IsIn
  <2>. QED BY <1>3, <1>5, <1>6, <2>1, <2>2
<1>. QED BY <1>7, <1>8

(* No two entries of a key: the search of Dict finds the same one. *)
LEMMA EntryIs ==
  ASSUME NEW d, Good(d), NEW k \in Key, NEW e \in Entries(Abs(d)), e.key = k
  PROVE  IsIn(d, k) /\ e = EntryOf(d, k)
<1>1. IsIn(d, k)
  BY IsInIs DEF HasKey
<1>2. EntryOf(d, k) \in Entries(Abs(d)) /\ EntryOf(d, k).key = k
  BY <1>1, IsInIs
<1>. QED BY <1>1, <1>2, PartsOf

LEMMA FindIs ==
  ASSUME NEW d, Good(d), NEW k \in Key
  PROVE  FindResult(Abs(d), k) = IF IsIn(d, k) THEN EntryOf(d, k) ELSE NullPtr
<1>1. PICK r : r = FindResult(Abs(d), k)
  OBVIOUS
<1>2. CASE IsIn(d, k)
  <2>1. r \in Entries(Abs(d)) /\ r.key = k
    BY <1>1, <1>2, IsInIs, PartsOf, FindResultIsEntry
  <2>2. r = EntryOf(d, k)
    BY <2>1, EntryIs
  <2>. QED BY <1>1, <1>2, <2>2
<1>3. CASE ~IsIn(d, k)
  <2>1. r = NullPtr
    BY <1>1, <1>3, IsInIs, PartsOf, FindResultIsEntry
  <2>. QED BY <1>1, <1>3, <2>1
<1>. QED BY <1>2, <1>3

(* The chain of k, in whichever table holds it, becomes another. *)
LEMMA OnChainIs ==
  ASSUME NEW d, NEW k, NEW chain, NEW n
  PROVE  /\ Has(d.ht[0], k) =>
              OnChain(d, k, chain, n) =
                HashDict(WithChain(d.ht[0], Bucket(k, d.ht[0]), chain, n), d.ht[1], d.rehashidx)
         /\ ~Has(d.ht[0], k) =>
              OnChain(d, k, chain, n) =
                HashDict(d.ht[0], WithChain(d.ht[1], Bucket(k, d.ht[1]), chain, n), d.rehashidx)
BY DEF OnChain, TableOf, WithTable

LEMMA UnlinkedIs ==
  ASSUME NEW d, Good(d), d.ht[0].size > 0, NEW k \in Key
  PROVE  Good(Unlinked(d, k)) /\ Abs(Unlinked(d, k)) = Unlink(Abs(d), k)
<1>1. PICK A : A = Abs(d)
  OBVIOUS
<1>2. PICK h0, h1, S0, S1 : /\ h0 = d.ht[0] /\ h1 = d.ht[1]
                            /\ S0 = SetOfChains(h0) /\ S1 = SetOfChains(h1)
  OBVIOUS
<1>3. /\ IsChained(h0) /\ IsChained(h1) /\ Sound(S0) /\ Sound(S1)
      /\ Consistent(A) /\ A.ht[0] = S0 /\ A.ht[1] = S1 /\ A.rehashidx = d.rehashidx /\ A.iterators = 0
      /\ A.ht[0].size > 0 /\ h0.size > 0
  BY <1>1, <1>2, AbsIs, GoodIs, PartsOf
<1>4. Lookup(A, k) = {e \in Entries(A) : e.key = k}
  BY <1>3, LookupIsSearch
<1>5. CASE ~IsIn(d, k)
  <2>1. Lookup(A, k) = {}
    BY <1>1, <1>4, <1>5, EntryIs
  <2>2. Unlink(A, k) = A
    BY <2>1 DEF Unlink
  <2>3. Unlinked(d, k) = d
    BY <1>5 DEF Unlinked
  <2>. QED BY <1>1, <2>2, <2>3
<1>6. CASE IsIn(d, k)
  <2>1. PICK e : e = EntryOf(d, k)
    OBVIOUS
  <2>2. Lookup(A, k) = {e}
    <3>1. e \in Entries(A) /\ e.key = k
      BY <1>1, <1>6, <2>1, IsInIs
    <3>2. \A f \in Entries(A) : f.key = k => f = e
      BY <1>1, <2>1, EntryIs
    <3>. QED BY <1>4, <3>1, <3>2
  <2>3. PICK c : c = RemoveAt(ChainOf(d, k), At(d, k))
    OBVIOUS
  <2>4. Unlinked(d, k) = OnChain(d, k, c, -1)
    BY <1>6, <2>3 DEF Unlinked
  <2>5. PICK B : B = Unlink(A, k)
    OBVIOUS
  <2>6. Consistent(B) /\ \A x \in Entries(B) : x.v \in Value
    <3>1. Consistent(B) /\ Entries(B) \subseteq Entries(A)
      BY <1>3, <2>5, UnlinkConsistent
    <3>. QED BY <1>1, <3>1 DEF Good
  <2>7. Has(h0, k) <=> InTable(S0, k) # {}
    BY <1>2, <1>3, SearchIs
  <2>8. CASE Has(h0, k)
    <3>1. PICK w : w = WithChain(h0, Bucket(k, h0), c, -1)
      OBVIOUS
    <3>2. c = RemoveAt(Chain(h0, k), Place(h0, k)) /\ e = Chain(h0, k)[Place(h0, k)]
      BY <1>2, <2>1, <2>3, <2>8 DEF ChainOf, At, EntryOf, TableOf
    <3>3. IsChained(w) /\ SetOfChains(w) = WithoutEntry(S0, e)
      BY <1>2, <1>3, <2>8, <3>1, <3>2, LeavesChain
    <3>4. B = DictObject(SetOfChains(w), S1, d.rehashidx, 0)
      <4>1. (CHOOSE x \in {e} : TRUE) = e
        OBVIOUS
      <4>. QED BY <1>3, <2>2, <2>5, <2>7, <2>8, <3>3, <4>1 DEF Unlink, WithTables
    <3>5. Unlinked(d, k) = HashDict(w, h1, d.rehashidx)
      BY <1>2, <2>4, <2>8, <3>1, OnChainIs
    <3>. QED BY <1>1, <1>2, <1>3, <2>5, <2>6, <3>3, <3>4, <3>5, GoodFrom
  <2>9. CASE ~Has(h0, k)
    <3>1. PICK w : w = WithChain(h1, Bucket(k, h1), c, -1)
      OBVIOUS
    <3>2. c = RemoveAt(Chain(h1, k), Place(h1, k)) /\ e = Chain(h1, k)[Place(h1, k)] /\ Has(h1, k)
      BY <1>2, <1>6, <2>1, <2>3, <2>9 DEF ChainOf, At, EntryOf, TableOf, IsIn
    <3>3. IsChained(w) /\ SetOfChains(w) = WithoutEntry(S1, e)
      BY <1>2, <1>3, <3>1, <3>2, LeavesChain
    <3>4. B = DictObject(S0, SetOfChains(w), d.rehashidx, 0)
      <4>1. (CHOOSE x \in {e} : TRUE) = e
        OBVIOUS
      <4>. QED BY <1>3, <2>2, <2>5, <2>7, <2>9, <3>3, <4>1 DEF Unlink, WithTables
    <3>5. Unlinked(d, k) = HashDict(h0, w, d.rehashidx)
      BY <1>2, <2>4, <2>9, <3>1, OnChainIs
    <3>. QED BY <1>1, <1>2, <1>3, <2>5, <2>6, <3>3, <3>4, <3>5, GoodFrom
  <2>. QED BY <2>8, <2>9
<1>. QED BY <1>5, <1>6

LEMMA AssignedIs ==
  ASSUME NEW d, Good(d), d.ht[0].size > 0, NEW k \in Key, IsIn(d, k), NEW v \in Value,
         NEW w, w = OnChain(d, k, [ChainOf(d, k) EXCEPT ![At(d, k)] = [key |-> k, v |-> v]], 0)
  PROVE  Good(w) /\ Abs(w) = Assign(Abs(d), EntryOf(d, k), v)
<1>1. PICK A : A = Abs(d)
  OBVIOUS
<1>2. PICK h0, h1, S0, S1 : /\ h0 = d.ht[0] /\ h1 = d.ht[1]
                            /\ S0 = SetOfChains(h0) /\ S1 = SetOfChains(h1)
  OBVIOUS
<1>3. /\ IsChained(h0) /\ IsChained(h1) /\ Sound(S0) /\ Sound(S1)
      /\ Consistent(A) /\ A.ht[0] = S0 /\ A.ht[1] = S1 /\ A.rehashidx = d.rehashidx /\ A.iterators = 0
      /\ A.ht[0].size > 0 /\ h0.size > 0
  BY <1>1, <1>2, AbsIs, GoodIs, PartsOf
<1>4. PICK f \in Entry : f = [key |-> k, v |-> v]
  BY DEF Entry
<1>5. f.key = k /\ f.v = v
  BY <1>4
<1>6. PICK e : e = EntryOf(d, k)
  OBVIOUS
<1>7. e \in Entries(A) /\ e.key = k
  BY <1>1, <1>6, IsInIs
<1>8. PICK B : B = Assign(A, e, v)
  OBVIOUS
<1>9. Consistent(B) /\ \A x \in Entries(B) : x.v \in Value
  <2>1. Consistent(B) /\ Entries(B) = (Entries(A) \ {e}) \cup {f}
    <3>1. v \in Value \cup {NullPtr}
      OBVIOUS
    <3>. QED BY <1>3, <1>4, <1>7, <1>8, <3>1, AssignConsistent
  <2>2. \A x \in Entries(A) : x.v \in Value
    BY <1>1 DEF Good
  <2>. QED BY <1>5, <2>1, <2>2
<1>10. PICK c : c = [ChainOf(d, k) EXCEPT ![At(d, k)] = f]
  OBVIOUS
<1>11. w = OnChain(d, k, c, 0)
  BY <1>4, <1>10
<1>12. Has(h0, k) <=> InTable(S0, k) # {}
  BY <1>2, <1>3, SearchIs
<1>13. CASE Has(h0, k)
  <2>1. PICK x : x = WithChain(h0, Bucket(k, h0), c, 0)
    OBVIOUS
  <2>2. c = [Chain(h0, k) EXCEPT ![Place(h0, k)] = f] /\ e = Chain(h0, k)[Place(h0, k)]
    BY <1>2, <1>6, <1>10, <1>13 DEF ChainOf, At, EntryOf, TableOf
  <2>3. IsChained(x) /\ SetOfChains(x) = WithEntry(WithoutEntry(S0, e), f)
    BY <1>2, <1>3, <1>5, <1>13, <2>1, <2>2, ChangesInChain
  <2>4. B = DictObject(SetOfChains(x), S1, d.rehashidx, 0)
    BY <1>3, <1>4, <1>7, <1>8, <1>12, <1>13, <2>3 DEF Assign, WithTables
  <2>5. w = HashDict(x, h1, d.rehashidx)
    BY <1>2, <1>11, <1>13, <2>1, OnChainIs
  <2>. QED BY <1>1, <1>2, <1>3, <1>6, <1>8, <1>9, <2>3, <2>4, <2>5, GoodFrom
<1>14. CASE ~Has(h0, k)
  <2>1. PICK x : x = WithChain(h1, Bucket(k, h1), c, 0)
    OBVIOUS
  <2>2. c = [Chain(h1, k) EXCEPT ![Place(h1, k)] = f] /\ e = Chain(h1, k)[Place(h1, k)] /\ Has(h1, k)
    BY <1>2, <1>6, <1>10, <1>14 DEF ChainOf, At, EntryOf, TableOf, IsIn
  <2>3. IsChained(x) /\ SetOfChains(x) = WithEntry(WithoutEntry(S1, e), f)
    BY <1>2, <1>3, <1>5, <2>1, <2>2, ChangesInChain
  <2>4. B = DictObject(S0, SetOfChains(x), d.rehashidx, 0)
    BY <1>3, <1>4, <1>7, <1>8, <1>12, <1>14, <2>3 DEF Assign, WithTables
  <2>5. w = HashDict(h0, x, d.rehashidx)
    BY <1>2, <1>11, <1>14, <2>1, OnChainIs
  <2>. QED BY <1>1, <1>2, <1>3, <1>6, <1>8, <1>9, <2>3, <2>4, <2>5, GoodFrom
<1>. QED BY <1>13, <1>14

LEMMA InsertedIs ==
  ASSUME NEW d, Good(d), d.ht[0].size > 0, NEW e \in Entry, e.v \in Value, ~IsIn(d, e.key)
  PROVE  Good(Inserted(d, e)) /\ Abs(Inserted(d, e)) = Insert(Abs(d), e)
<1>1. PICK A : A = Abs(d)
  OBVIOUS
<1>2. PICK h0, h1, S0, S1 : /\ h0 = d.ht[0] /\ h1 = d.ht[1]
                            /\ S0 = SetOfChains(h0) /\ S1 = SetOfChains(h1)
  OBVIOUS
<1>3. /\ IsChained(h0) /\ IsChained(h1) /\ Sound(S0) /\ Sound(S1)
      /\ Consistent(A) /\ A.ht[0] = S0 /\ A.ht[1] = S1 /\ A.rehashidx = d.rehashidx /\ A.iterators = 0
      /\ A.ht[0].size > 0 /\ h0.size > 0 /\ (Rehashing(A) <=> d.rehashidx # -1)
      /\ Entries(A) = Items(S0) \cup Items(S1)
  BY <1>1, <1>2, AbsIs, GoodIs, PartsOf
<1>4. \A f \in Entries(A) : f.key # e.key
  BY <1>1, EntryIs DEF Entry
<1>5. PICK B : B = Insert(A, e)
  OBVIOUS
<1>6. Consistent(B) /\ \A x \in Entries(B) : x.v \in Value
  <2>1. Consistent(B) /\ Entries(B) = Entries(A) \cup {e}
    BY <1>3, <1>4, <1>5, InsertConsistent
  <2>. QED BY <1>1, <2>1 DEF Good
<1>7. ASSUME NEW h, IsChained(h), Sound(SetOfChains(h)), h.size > 0,
             Items(SetOfChains(h)) \subseteq Entries(A)
      PROVE  IsChained(Linked(h, e)) /\ SetOfChains(Linked(h, e)) = WithEntry(SetOfChains(h), e)
  <2>1. PICK b : b = Index(e.key, h.size)
    OBVIOUS
  <2>2. b \in 0 .. h.size - 1 /\ SetOfChains(h).size = h.size
    BY <1>7, <2>1, IndexInRange, BucketIs DEF Entry, IsChained
  <2>3. \A f \in SetOfChains(h).table[b] : f.key # e.key
    BY <1>4, <1>7, <2>2, ItemsMember
  <2>. QED BY <1>7, <2>1, <2>3, LinkedIs
<1>8. CASE d.rehashidx = -1
  <2>1. PICK w : w = Linked(h0, e)
    OBVIOUS
  <2>2. IsChained(w) /\ SetOfChains(w) = WithEntry(S0, e)
    BY <1>2, <1>3, <1>7, <2>1
  <2>3. B = DictObject(SetOfChains(w), S1, d.rehashidx, 0)
    BY <1>3, <1>5, <1>8, <2>2 DEF Insert, WithTables
  <2>4. Inserted(d, e) = HashDict(w, h1, d.rehashidx)
    BY <1>2, <1>8, <2>1 DEF Inserted, WithTable
  <2>. QED BY <1>1, <1>2, <1>3, <1>5, <1>6, <2>2, <2>3, <2>4, GoodFrom
<1>9. CASE d.rehashidx # -1
  <2>1. PICK w : w = Linked(h1, e)
    OBVIOUS
  <2>2. IsChained(w) /\ SetOfChains(w) = WithEntry(S1, e)
    <3>1. h1.size > 0
      BY <1>1, <1>2, <1>3, <1>9, GoodIs DEF Consistent, Drained
    <3>. QED BY <1>2, <1>3, <1>7, <2>1, <3>1
  <2>3. B = DictObject(S0, SetOfChains(w), d.rehashidx, 0)
    BY <1>3, <1>5, <1>9, <2>2 DEF Insert, WithTables
  <2>4. Inserted(d, e) = HashDict(h0, w, d.rehashidx)
    BY <1>2, <1>9, <2>1 DEF Inserted, WithTable
  <2>. QED BY <1>1, <1>2, <1>3, <1>5, <1>6, <2>2, <2>3, <2>4, GoodFrom
<1>. QED BY <1>8, <1>9

-----------------------------------------------------------------------------
(* The operators of the instance of Dict are those of DictTables. *)

LEMMA SameSearch ==
  /\ \A A : D!Rehashing(A) = Rehashing(A)
  /\ \A A, n : D!CanExpand(A, n) = CanExpand(A, n)
  /\ \A A : D!WantedSize(A) = WantedSize(A)
  /\ \A h, k : D!InTable(h, k) = InTable(h, k)
  /\ \A A, k : D!Lookup(A, k) = Lookup(A, k)
<1>1. \A h, k : D!InTable(h, k) = InTable(h, k)
  BY DEF D!InTable, InTable, D!Index, Index
<1>2. \A A : D!Rehashing(A) = Rehashing(A)
  BY DEF D!Rehashing, Rehashing
<1>3. \A A, n : D!CanExpand(A, n) = CanExpand(A, n)
  BY DEF D!CanExpand, CanExpand, D!Rehashing, Rehashing
<1>4. \A A : D!WantedSize(A) = WantedSize(A)
  BY DEF D!WantedSize, WantedSize
<1>5. \A A, k : D!Lookup(A, k) = Lookup(A, k)
  BY <1>1, <1>2 DEF D!Lookup, Lookup
<1>. QED BY <1>1, <1>2, <1>3, <1>4, <1>5

LEMMA SameObjects ==
  /\ \A t0, t1, x, n : D!DictObject(t0, t1, x, n) = DictObject(t0, t1, x, n)
  /\ \A A, t0, t1 : D!WithTables(A, t0, t1) = WithTables(A, t0, t1)
  /\ \A h, e : D!WithEntry(h, e) = WithEntry(h, e)
  /\ \A h, e : D!WithoutEntry(h, e) = WithoutEntry(h, e)
  /\ D!EmptyDict = EmptyDict
<1>1. \A t0, t1, x, n : D!DictObject(t0, t1, x, n) = DictObject(t0, t1, x, n)
  BY DEF D!DictObject, DictObject, D!Tables, Tables
<1>2. \A A, t0, t1 : D!WithTables(A, t0, t1) = WithTables(A, t0, t1)
  BY <1>1 DEF D!WithTables, WithTables
<1>3. \A h, e : D!WithEntry(h, e) = WithEntry(h, e)
  BY DEF D!WithEntry, WithEntry, D!Index, Index, D!HashTable, HashTable
<1>4. \A h, e : D!WithoutEntry(h, e) = WithoutEntry(h, e)
  BY DEF D!WithoutEntry, WithoutEntry, D!Index, Index, D!HashTable, HashTable
<1>5. D!EmptyDict = EmptyDict
  BY <1>1 DEF D!EmptyDict, EmptyDict, D!EmptyTable, EmptyTable
<1>. QED BY <1>1, <1>2, <1>3, <1>4, <1>5

LEMMA SameChanges ==
  /\ \A A, e : D!Insert(A, e) = Insert(A, e)
  /\ \A A, e, v : D!Assign(A, e, v) = Assign(A, e, v)
  /\ \A A, k : D!Unlink(A, k) = Unlink(A, k)
  /\ \A A, n : D!Expand(A, n) = Expand(A, n)
<1>1. \A A, e : D!Insert(A, e) = Insert(A, e)
  BY SameSearch, SameObjects DEF D!Insert, Insert
<1>2. \A A, e, v : D!Assign(A, e, v) = Assign(A, e, v)
  BY SameSearch, SameObjects DEF D!Assign, Assign
<1>3. \A A, k : D!Unlink(A, k) = Unlink(A, k)
  <2>. TAKE A, k
  <2>1. PICK S : S = Lookup(A, k) /\ S = D!Lookup(A, k)
    BY SameSearch
  <2>2. PICK e : e = CHOOSE x \in S : TRUE
    OBVIOUS
  <2>3. Unlink(A, k) = IF S = {} THEN A
                       ELSE IF InTable(A.ht[0], k) # {}
                       THEN WithTables(A, WithoutEntry(A.ht[0], e), A.ht[1])
                       ELSE WithTables(A, A.ht[0], WithoutEntry(A.ht[1], e))
    BY <2>1, <2>2 DEF Unlink
  <2>4. D!Unlink(A, k) = IF S = {} THEN A
                         ELSE IF D!InTable(A.ht[0], k) # {}
                         THEN D!WithTables(A, D!WithoutEntry(A.ht[0], e), A.ht[1])
                         ELSE D!WithTables(A, A.ht[0], D!WithoutEntry(A.ht[1], e))
    BY <2>1, <2>2 DEF D!Unlink
  <2>. QED BY <2>3, <2>4, SameSearch, SameObjects
<1>4. \A A, n : D!Expand(A, n) = Expand(A, n)
  BY SameSearch, SameObjects DEF D!Expand, Expand, D!NewTable, NewTable,
     D!_dictNextPower, _dictNextPower, D!TableSize, TableSize
<1>. QED BY <1>1, <1>2, <1>3, <1>4

LEMMA SameRehash ==
  /\ \A A : D!_dictRehashStep(A) = _dictRehashStep(A)
  /\ \A A : D!AfterFind(A) = AfterFind(A)
  /\ \A A, k : D!Found(A, k) = Found(A, k)
  /\ \A A, k : D!FindResult(A, k) = FindResult(A, k)
<1>1. \A A, n : D!Batch(A, n) = Batch(A, n)
  BY DEF D!Batch, Batch, D!Busy, Busy, D!Cardinality, Cardinality, D!IsFiniteSet, IsFiniteSet
<1>2. \A A, b : D!Moved(A, b) = Moved(A, b)
  BY DEF D!Moved, Moved
<1>3. \A S : D!Cardinality(S) = Cardinality(S)
  BY DEF D!Cardinality, Cardinality, D!IsFiniteSet, IsFiniteSet
<1>4. \A h, b, m : D!Drain(h, b, m) = Drain(h, b, m)
  BY <1>3 DEF D!Drain, Drain, D!HashTable, HashTable
<1>5. \A h, m : D!Fill(h, m) = Fill(h, m)
  BY <1>3 DEF D!Fill, Fill, D!HashTable, HashTable, D!Index, Index
<1>6. \A A, b : D!NextIndex(A, b) = NextIndex(A, b)
  BY DEF D!NextIndex, NextIndex, D!IsPast, IsPast
<1>7. \A A, n : D!Rehash(A, n) = Rehash(A, n)
  BY <1>1, <1>2, <1>3, <1>4, <1>5, <1>6, SameSearch, SameObjects
  DEF D!Rehash, Rehash, D!EmptyTable, EmptyTable
<1>8. \A A : D!_dictRehashStep(A) = _dictRehashStep(A)
  BY <1>7 DEF D!_dictRehashStep, _dictRehashStep
<1>9. \A A : D!AfterFind(A) = AfterFind(A)
  BY <1>8 DEF D!AfterFind, AfterFind
<1>10. \A A, k : D!Found(A, k) = Found(A, k)
  BY <1>8, SameSearch DEF D!Found, Found
<1>11. \A A, k : D!FindResult(A, k) = FindResult(A, k)
  <2>. TAKE A, k
  <2>1. PICK S : S = Found(A, k) /\ S = D!Found(A, k)
    BY <1>10
  <2>2. FindResult(A, k) = IF S = {} THEN NullPtr ELSE CHOOSE e \in S : TRUE
    BY <2>1 DEF FindResult
  <2>3. D!FindResult(A, k) = IF S = {} THEN NullPtr ELSE CHOOSE e \in S : TRUE
    BY <2>1 DEF D!FindResult
  <2>. QED BY <2>2, <2>3
<1>. QED BY <1>8, <1>9, <1>10, <1>11

-----------------------------------------------------------------------------
(* The calls of the dictionary. *)

LEMMA ReplacedIs ==
  ASSUME NEW d, Good(d), NEW k \in Key, NEW v \in Value, NEW addr,
         NEW A, A = Abs(d), NEW w, w = Replaced(d, k, v, addr)
  PROVE  /\ Good(w)
         /\ IsIn(d, k) <=> D!AddRawFails(A, k)
         /\ ~IsIn(d, k) => Abs(w) = D!AddRaw(A, k, v)
         /\ IsIn(d, k) => LET B == D!AddRaw(A, k, v)
                              e == FindResult(B, k)
                          IN  /\ e # NullPtr /\ e.v # NullPtr
                              /\ Abs(w) = Assign(AfterFind(B), e, v)
<1>1. PICK u : u = Step(d)
  OBVIOUS
<1>2. PICK x : x = Expanded(u, addr)
  OBVIOUS
<1>3. PICK y : y = Step(x)
  OBVIOUS
<1>4. PICK e \in Entry : e = [key |-> k, v |-> v]
  BY DEF Entry
<1>5. e.key = k /\ e.v = v
  BY <1>4
<1>6. /\ Good(u) /\ Abs(u) = _dictRehashStep(A) /\ Entries(Abs(u)) = Entries(A)
  BY <1>1, StepIs
<1>7. /\ Good(x) /\ Abs(x) = Grown(Abs(u)) /\ Entries(Abs(x)) = Entries(A) /\ x.ht[0].size > 0
  BY <1>2, <1>6, ExpandedIs
<1>8. /\ Good(y) /\ Abs(y) = _dictRehashStep(Abs(x)) /\ Entries(Abs(y)) = Entries(A) /\ y.ht[0].size > 0
  BY <1>3, <1>7, StepIs
<1>9. IsIn(d, k) <=> IsIn(x, k)
  BY <1>7, IsInIs DEF HasKey
<1>10. IsIn(d, k) <=> IsIn(y, k)
  BY <1>8, IsInIs DEF HasKey
<1>11. D!_dictExpandIfNeeded(Abs(u)) = Abs(x)
  <2>1. D!_dictExpandIfNeeded(Abs(u)) = Grown(Abs(u))
    BY SameSearch, SameChanges DEF D!_dictExpandIfNeeded, Grown
  <2>. QED BY <1>7, <2>1
<1>12. D!AddRawFails(A, k) <=> IsIn(x, k)
  <2>1. D!AddRawFails(A, k) <=> D!KeyIndexFails(Abs(u), k)
    BY <1>6, SameRehash DEF D!AddRawFails
  <2>2. D!MustExpand(Abs(u)) => CanExpand(Abs(u), WantedSize(Abs(u)))
    <3>1. D!MustExpand(Abs(u)) <=> D!MustExpand(u)
      BY <1>6, MustExpandIs, AbsIs, GoodIs
    <3>. QED BY <1>6, <3>1, GrowthAllowed
  <2>3. D!KeyIndexFails(Abs(u), k) <=> Lookup(Abs(x), k) # {}
    BY <1>11, <2>2, SameSearch DEF D!KeyIndexFails
  <2>4. Lookup(Abs(x), k) = {f \in Entries(Abs(x)) : f.key = k}
    BY <1>7, PartsOf, GoodIs, LookupIsSearch
  <2>5. Lookup(Abs(x), k) # {} <=> IsIn(x, k)
    BY <1>7, <2>4, IsInIs DEF HasKey
  <2>. QED BY <2>1, <2>3, <2>5
<1>13. D!AddRaw(A, k, v) = IF IsIn(x, k) THEN Abs(x) ELSE Insert(Abs(x), e)
  BY <1>4, <1>6, <1>11, <1>12, SameRehash, SameChanges DEF D!AddRaw
<1>14. CASE ~IsIn(d, k)
  <2>1. w = Inserted(x, e)
    BY <1>1, <1>2, <1>4, <1>9, <1>14 DEF Replaced
  <2>2. Good(w) /\ Abs(w) = Insert(Abs(x), e)
    BY <1>5, <1>7, <1>9, <1>14, <2>1, InsertedIs
  <2>. QED BY <1>9, <1>12, <1>13, <1>14, <2>2
<1>15. CASE IsIn(d, k)
  <2>1. w = OnChain(y, k, [ChainOf(y, k) EXCEPT ![At(y, k)] = e], 0)
    BY <1>1, <1>2, <1>3, <1>4, <1>9, <1>15 DEF Replaced
  <2>2. w = OnChain(y, k, [ChainOf(y, k) EXCEPT ![At(y, k)] = [key |-> k, v |-> v]], 0)
    BY <1>4, <2>1
  <2>3. Good(w) /\ Abs(w) = Assign(Abs(y), EntryOf(y, k), v)
    BY <1>8, <1>10, <1>15, <2>2, AssignedIs
  <2>4. PICK B : B = D!AddRaw(A, k, v)
    OBVIOUS
  <2>5. B = Abs(x)
    BY <1>9, <1>13, <1>15, <2>4
  <2>6. AfterFind(B) = Abs(y)
    <3>1. Abs(x).ht[0].size # 0
      BY <1>7, GoodIs
    <3>. QED BY <1>8, <2>5, <3>1 DEF AfterFind
  <2>7. FindResult(B, k) = EntryOf(x, k)
    BY <1>7, <1>9, <1>15, <2>5, FindIs
  <2>8. EntryOf(x, k) \in Entries(A) /\ EntryOf(x, k).key = k
    BY <1>7, <1>9, <1>15, IsInIs
  <2>9. EntryOf(x, k) = EntryOf(y, k)
    BY <1>8, <2>8, EntryIs
  <2>10. EntryOf(x, k) \in Entry /\ EntryOf(x, k).v \in Value
    BY <2>8, PartsOf, EntriesAreEntry DEF Good
  <2>11. EntryOf(x, k) # NullPtr /\ EntryOf(x, k).v # NullPtr
    BY <2>10, NullAssumption
  <2>. QED BY <1>9, <1>12, <1>15, <2>3, <2>4, <2>6, <2>7, <2>9, <2>11
<1>. QED BY <1>14, <1>15

LEMMA SearchedIs ==
  ASSUME NEW d, Good(d)
  PROVE  Good(Searched(d)) /\ Abs(Searched(d)) = AfterFind(Abs(d))
<1>1. Abs(d).ht[0].size = d.ht[0].size
  BY GoodIs
<1>2. CASE d.ht[0].size = 0
  BY <1>1, <1>2 DEF Searched, AfterFind
<1>3. CASE d.ht[0].size # 0
  BY <1>1, <1>3, StepIs DEF Searched, AfterFind
<1>. QED BY <1>2, <1>3

LEMMA DeletedIs ==
  ASSUME NEW d, Good(d), d.ht[0].size # 0, NEW k \in Key
  PROVE  /\ Good(Unlinked(Step(d), k))
         /\ Abs(Unlinked(Step(d), k)) = Unlink(_dictRehashStep(Abs(d)), k)
<1>1. PICK x : x = Step(d)
  OBVIOUS
<1>2. Good(x) /\ Abs(x) = _dictRehashStep(Abs(d)) /\ x.ht[0].size > 0
  BY <1>1, StepIs, GoodIs
<1>. QED BY <1>1, <1>2, UnlinkedIs

(* What Found says in Dict. *)
LEMMA FoundIs ==
  ASSUME NEW d, Good(d), NEW k \in Key
  PROVE  Found(Abs(d), k) = {} <=> ~IsIn(d, k)
<1>1. PICK A : A = Abs(d)
  OBVIOUS
<1>2. Found(A, k) = {e \in Entries(A) : e.key = k}
  <2>1. Consistent(A)
    BY <1>1 DEF Good
  <2>. QED BY <2>1, FindIsSearch
<1>. QED BY <1>1, <1>2, IsInIs DEF HasKey

-----------------------------------------------------------------------------
(* Every step of a hash is a step of Dict, or leaves its dictionary alone. *)

LEMMA EmptyIsGood == Good(HashDict(NoTable, NoTable, -1)) /\ Abs(HashDict(NoTable, NoTable, -1)) = EmptyDict
<1>1. PICK A : A = DictObject(SetOfChains(NoTable), SetOfChains(NoTable), -1, 0)
  OBVIOUS
<1>2. A = EmptyDict /\ IsChained(NoTable)
  BY <1>1, NoTableIs DEF EmptyDict
<1>3. Consistent(A) /\ Entries(A) = {}
  BY <1>2, EmptyDictConsistent
<1>. QED BY <1>1, <1>2, <1>3, GoodFrom

(* The dict object of the instance. *)
AbsRecord(h) == [ht |-> [t \in {0, 1} |-> SetOfChains(h.ht[t])],
                 rehashidx |-> h.rehashidx, iterators |-> 0]

LEMMA AbsRecordIs == ASSUME NEW h PROVE AbsRecord(h) = Abs(h)
<1>1. [t \in {0, 1} |-> SetOfChains(h.ht[t])] = Tables(SetOfChains(h.ht[0]), SetOfChains(h.ht[1]))
  BY DEF Tables
<1>. QED BY <1>1 DEF Abs, AbsRecord, DictObject

LEMMA InitImplements == Init => Good(hash) /\ D!Init
<1>1. Init => hash = HashDict(NoTable, NoTable, -1) /\ ret = Code(OK)
  BY DEF Init
<1>2. Init => Good(hash) /\ Abs(hash) = EmptyDict
  BY <1>1, EmptyIsGood
<1>3. D!Init <=> AbsRecord(hash) = D!EmptyDict /\ ret = D!Code(D!OK)
  BY DEF D!Init, AbsRecord
<1>4. D!Code(D!OK) = Code(OK)
  BY DEF D!Code, Code, D!OK, OK
<1>. QED BY <1>1, <1>2, <1>3, <1>4, AbsRecordIs, SameObjects

LEMMA GetImplements ==
  ASSUME Good(hash), NEW k \in Key, HashGet(k)
  PROVE  Good(hash') /\ D!dictFind(k)
<1>1. hash' = Searched(hash) /\ ret' = Pointer(IF IsIn(hash, k) THEN EntryOf(hash, k) ELSE NullPtr)
  BY DEF HashGet, Becomes
<1>2. Good(hash') /\ Abs(hash') = AfterFind(Abs(hash))
  BY <1>1, SearchedIs
<1>3. ret' = D!Pointer(FindResult(Abs(hash), k))
  BY <1>1, FindIs DEF D!Pointer, Pointer, D!ERR, ERR
<1>4. AbsRecord(hash) = Abs(hash) /\ AbsRecord(hash') = Abs(hash')
  BY AbsRecordIs
<1>5. D!dictFind(k) <=> /\ AbsRecord(hash') = D!AfterFind(AbsRecord(hash))
                        /\ ret' = D!Pointer(D!FindResult(AbsRecord(hash), k))
  BY DEF D!dictFind, AbsRecord
<1>. QED BY <1>2, <1>3, <1>4, <1>5, SameRehash

LEMMA DelImplements ==
  ASSUME Good(hash), NEW k \in Key, HashDel(k)
  PROVE  Good(hash') /\ D!dictDelete(k)
<1>1. /\ hash' = IF hash.ht[0].size = 0 THEN hash ELSE Unlinked(Step(hash), k)
      /\ ret' = Code(IF IsIn(hash, k) THEN OK ELSE ERR)
  BY DEF HashDel, Becomes
<1>2. PICK A : A = Abs(hash)
  OBVIOUS
<1>3. /\ Good(hash')
      /\ Abs(hash') = IF A.ht[0].size = 0 THEN A ELSE Unlink(_dictRehashStep(A), k)
  <2>1. A.ht[0].size = hash.ht[0].size
    BY <1>2, GoodIs
  <2>. QED BY <1>1, <1>2, <2>1, DeletedIs
<1>4. ret' = D!Code(IF Found(A, k) = {} THEN D!ERR ELSE D!OK)
  BY <1>1, <1>2, FoundIs DEF D!Code, Code, D!OK, OK, D!ERR, ERR
<1>5. AbsRecord(hash) = A /\ AbsRecord(hash') = Abs(hash')
  BY <1>2, AbsRecordIs
<1>6. D!dictDelete(k) <=>
         /\ AbsRecord(hash') = IF AbsRecord(hash).ht[0].size = 0 THEN AbsRecord(hash)
                               ELSE D!Unlink(D!_dictRehashStep(AbsRecord(hash)), k)
         /\ ret' = D!Code(IF D!Found(AbsRecord(hash), k) = {} THEN D!ERR ELSE D!OK)
  BY DEF D!dictDelete, AbsRecord
<1>. QED BY <1>3, <1>4, <1>5, <1>6, SameRehash, SameChanges

LEMMA SetImplements ==
  ASSUME Good(hash), NEW k \in Key, NEW v \in Value, HashSet(k, v)
  PROVE  Good(hash') /\ D!dictReplace(k, v)
<1>1. PICK addr : /\ hash' = Replaced(hash, k, v, addr)
                  /\ ret' = Code(IF IsIn(hash, k) THEN 0 ELSE 1)
  BY DEF HashSet, Becomes
<1>2. PICK A : A = Abs(hash)
  OBVIOUS
<1>3. PICK B : B = D!AddRaw(A, k, v)
  OBVIOUS
<1>4. PICK e : e = FindResult(B, k)
  OBVIOUS
<1>5. /\ Good(hash')
      /\ IsIn(hash, k) <=> D!AddRawFails(A, k)
      /\ ~IsIn(hash, k) => Abs(hash') = B
      /\ IsIn(hash, k) => /\ e # NullPtr /\ e.v # NullPtr
                          /\ Abs(hash') = Assign(AfterFind(B), e, v)
  BY <1>1, <1>2, <1>3, <1>4, ReplacedIs
<1>6. AbsRecord(hash) = A /\ AbsRecord(hash') = Abs(hash')
  BY <1>2, AbsRecordIs
<1>7. /\ D!AddRaw(AbsRecord(hash), k, v) = B
      /\ D!FindResult(B, k) = e
      /\ D!Assign(D!AfterFind(B), e, v) = Assign(AfterFind(B), e, v)
  BY <1>3, <1>4, <1>6, SameRehash, SameChanges
<1>8. ret' = IF D!AddRawFails(A, k) THEN D!Code(0) ELSE D!Code(1)
  BY <1>1, <1>5 DEF D!Code, Code
<1>9. D!dictReplace(k, v) <=>
        LET d == D!AddRaw(AbsRecord(hash), k, v)
            f == D!FindResult(d, k)
        IN  \/ /\ ~D!AddRawFails(AbsRecord(hash), k)
               /\ AbsRecord(hash') = d
               /\ ret' = D!Code(1)
            \/ /\ D!AddRawFails(AbsRecord(hash), k)
               /\ f # NullPtr /\ f.v # NullPtr
               /\ AbsRecord(hash') = D!Assign(D!AfterFind(d), f, v)
               /\ ret' = D!Code(0)
  BY DEF D!dictReplace, AbsRecord
<1>10. CASE IsIn(hash, k)
  BY <1>5, <1>6, <1>7, <1>8, <1>9, <1>10
<1>11. CASE ~IsIn(hash, k)
  BY <1>5, <1>6, <1>7, <1>8, <1>9, <1>11
<1>. QED BY <1>5, <1>10, <1>11

LEMMA NextImplements ==
  ASSUME Good(hash), [Next]_vars
  PROVE  Good(hash') /\ [D!Next]_(D!vars)
<1>1. ASSUME NEW k \in Key, HashGet(k)
      PROVE  Good(hash') /\ D!Next
  BY <1>1, GetImplements DEF D!Next, D!KeyOperation
<1>2. ASSUME NEW k \in Key, HashDel(k)
      PROVE  Good(hash') /\ D!Next
  BY <1>2, DelImplements DEF D!Next, D!KeyOperation
<1>3. ASSUME NEW k \in Key, NEW v \in Value, HashSet(k, v)
      PROVE  Good(hash') /\ D!Next
  BY <1>3, SetImplements DEF D!Next, D!KeyOperation
<1>4. ASSUME UNCHANGED <<hash, ret>>
      PROVE  Good(hash') /\ UNCHANGED D!vars
  BY <1>4 DEF D!vars
<1>5. ASSUME NEW w \in Walk, _HashIter(w)
      PROVE  UNCHANGED <<hash, ret>>
  BY <1>5 DEF _HashIter
<1>6. CASE UNCHANGED vars
  BY <1>4, <1>6 DEF vars
<1>7. CASE Next
  BY <1>1, <1>2, <1>3, <1>4, <1>5, <1>7 DEF Next
<1>. QED BY <1>6, <1>7

(* The hash of HashObject.cpp is the dictionary of dict.cpp: whatever the  *)
(* order of its chains and whatever its iterators do, hset, hget and hdel  *)
(* change it and answer as dictReplace, dictFind and dictDelete do, in     *)
(* every state of a rehash.                                                *)
THEOREM HashIsDictionary == Spec => ImplementsDict
<1>1. Init => Good(hash) /\ D!Init
  BY InitImplements
<1>2. Good(hash) /\ [Next]_vars => Good(hash)' /\ [D!Next]_(D!vars)
  BY NextImplements
<1>. QED BY <1>1, <1>2, PTL DEF Spec, ImplementsDict, D!Spec

-----------------------------------------------------------------------------
(* The iterators.  The entry an iterator is to return next is in the hash  *)
(* unless it has been deleted.                                             *)

IterOK(it, d) ==
  /\ it = [table |-> it.table, index |-> it.index, nextentry |-> it.nextentry,
           fingerprint |-> it.fingerprint, seen |-> it.seen, steady |-> it.steady]
  /\ it.table \in {0, 1} /\ it.index \in Nat \cup {-1}
  /\ it.nextentry \in {NullPtr, Freed} \cup {k \in Key : IsIn(d, k)}
  /\ it.seen \in Seq(Key) /\ it.steady \in BOOLEAN

LEMMA NewIsOK == IterOK(NewIterator, hash)
BY DEF IterOK, NewIterator

LEMMA UnderIs ==
  ASSUME NEW it, NEW d, NEW gone, IterOK(it, hash),
         \A k \in Key : IsIn(hash, k) => IsIn(d, k) \/ k \in gone
  PROVE  IterOK(Under(it, d, gone), d) \/ Under(it, d, gone) = NullPtr
<1>1. CASE it = NullPtr
  BY <1>1 DEF Under
<1>2. CASE it # NullPtr
  <2> DEFINE steady == it.steady /\ Layout(d) = Layout(hash)
             seen   == IF steady THEN it.seen ELSE << >>
             next   == IF it.nextentry \in gone THEN Freed ELSE it.nextentry
  <2>1. Under(it, d, gone) = [it EXCEPT !.steady = steady, !.seen = seen, !.nextentry = next]
    BY <1>2 DEF Under
  <2>2. steady \in BOOLEAN
    OBVIOUS
  <2>3. seen \in Seq(Key)
    <3>1. << >> \in Seq(Key)
      OBVIOUS
    <3>. HIDE DEF steady
    <3>. QED BY <3>1 DEF IterOK
  <2>4. next \in {NullPtr, Freed} \cup {k \in Key : IsIn(d, k)}
    BY DEF IterOK
  <2>. HIDE DEF steady, seen, next
  <2>5. PICK u : u = Under(it, d, gone)
    OBVIOUS
  <2>6. u = [table |-> it.table, index |-> it.index, nextentry |-> next,
             fingerprint |-> it.fingerprint, seen |-> seen, steady |-> steady]
    BY <2>1, <2>5 DEF IterOK
  <2>7. it.table \in {0, 1} /\ it.index \in Nat \cup {-1}
    BY DEF IterOK
  <2>8. IterOK(u, d)
    BY <2>2, <2>3, <2>4, <2>6, <2>7 DEF IterOK
  <2>. QED BY <2>5, <2>8
<1>. QED BY <1>1, <1>2

(* The entries of a chain are in the hash. *)
LEMMA ChainIsIn ==
  ASSUME NEW d, Good(d), NEW t \in {0, 1}, NEW i \in 0 .. d.ht[t].size - 1
  PROVE  /\ d.ht[t].table[i] \in Seq(Entry)
         /\ \A p \in 1 .. Len(d.ht[t].table[i]) :
              d.ht[t].table[i][p].key \in {k \in Key : IsIn(d, k)}
<1>1. PICK h, s : h = d.ht[t] /\ s = h.table[i]
  OBVIOUS
<1>2. IsChained(h) /\ Items(SetOfChains(h)) \subseteq Entries(Abs(d))
  BY <1>1, PartsOf
<1>3. s \in Seq(Entry) /\ SetOfChains(h).table[i] = ToSet(s) /\ SetOfChains(h).size = h.size
  BY <1>1, <1>2, BucketIs DEF IsChained
<1>4. ASSUME NEW p \in 1 .. Len(s) PROVE s[p].key \in {k \in Key : IsIn(d, k)}
  <2>1. s[p] \in ToSet(s) /\ s[p] \in Entry
    BY <1>3, ToSetIs
  <2>2. s[p] \in Items(SetOfChains(h))
    BY <1>1, <1>3, <2>1, ItemsMember
  <2>3. s[p].key \in Key
    BY <2>1 DEF Entry
  <2>4. IsIn(d, s[p].key)
    BY <1>2, <2>2, <2>3, EntryIs
  <2>. QED BY <2>3, <2>4
<1>. QED BY <1>1, <1>3, <1>4

(* Where an iterator goes on: a place in a chain of the hash. *)
IsPlace(w, d) ==
  /\ w.table \in {0, 1} /\ w.index \in Nat \cup {-1}
  /\ \E t \in {0, 1} : \E i \in 0 .. d.ht[t].size - 1 :
       w.chain = d.ht[t].table[i] /\ w.p \in 1 .. Len(w.chain)

LEMMA BucketFound ==
  ASSUME NEW d, Good(d), NEW t \in {0, 1}, NEW index \in Nat \cup {-1},
         NEW b, b = NextBucket(d, t, index), b # Nowhere
  PROVE  /\ b.table \in {0, 1} /\ b.index \in 0 .. d.ht[b.table].size - 1
         /\ d.ht[b.table].table[b.index] # << >>
<1> DEFINE from == [u \in {0, 1} |-> IF u = t THEN index + 1 ELSE 0]
           left == {u \in TablesLeft(d, t) : NonEmpty(d, u, from[u]) # {}}
<1>1. from[0] \in Nat /\ from[1] \in Nat
  OBVIOUS
<1>2. TablesLeft(d, t) \subseteq {0, 1}
  BY DEF TablesLeft
<1>3. b = IF left = {} THEN Nowhere
          ELSE [table |-> Min(left), index |-> Min(NonEmpty(d, Min(left), from[Min(left)]))]
  BY DEF NextBucket, FirstBucket
<1>. HIDE DEF from
<1>4. left # {} /\ left \in SUBSET Nat /\ left \subseteq {0, 1}
  BY <1>2, <1>3
<1>5. \A u \in left : NonEmpty(d, u, from[u]) # {}
  OBVIOUS
<1>. HIDE DEF left
<1>6. PICK u : u = Min(left)
  OBVIOUS
<1>7. u \in left
  <2>1. \E x \in left : \A y \in left : x <= y
    BY <1>4, LeastNat
  <2>. QED BY <1>6, <2>1 DEF Min
<1>8. PICK N : N = NonEmpty(d, u, from[u])
  OBVIOUS
<1>9. N # {} /\ N \subseteq 0 .. d.ht[u].size - 1 /\ \A i \in N : d.ht[u].table[i] # << >>
  <2>1. PICK f \in Nat, n \in Nat : f = from[u] /\ n = d.ht[u].size
    BY <1>1, <1>4, <1>7, GoodIs
  <2>2. N = {i \in f .. n - 1 : d.ht[u].table[i] # << >>}
    BY <1>8, <2>1 DEF NonEmpty
  <2>3. f .. n - 1 \subseteq 0 .. n - 1
    OBVIOUS
  <2>4. N # {}
    BY <1>5, <1>7, <1>8
  <2>. QED BY <2>1, <2>2, <2>3, <2>4
<1>10. Min(N) \in N
  <2>1. d.ht[u].size \in Nat
    BY <1>4, <1>7, GoodIs
  <2>2. N \in SUBSET Nat
    BY <1>9, <2>1
  <2>3. \E x \in N : \A y \in N : x <= y
    BY <1>9, <2>2, LeastNat
  <2>. QED BY <2>3 DEF Min
<1>11. b.table = u /\ b.index = Min(N)
  BY <1>3, <1>4, <1>6, <1>8
<1>. QED BY <1>4, <1>7, <1>9, <1>10, <1>11

LEMMA AdvanceIs ==
  ASSUME Good(hash), NEW it, IterOK(it, hash), it.nextentry # Freed,
         NEW w, w = Advance(it), ~Ended(w)
  PROVE  IsPlace(w, hash)
<1>1. CASE it.nextentry # NullPtr
  <2>1. PICK k \in Key : k = it.nextentry /\ IsIn(hash, k)
    BY <1>1 DEF IterOK
  <2>2. PICK t, h : t = TableOf(hash, k) /\ h = hash.ht[t]
    OBVIOUS
  <2>3. /\ w = [table |-> it.table, index |-> it.index, chain |-> Chain(h, k), p |-> Place(h, k)]
    BY <1>1, <2>1, <2>2 DEF Advance
  <2>4. t \in {0, 1} /\ Has(h, k)
    BY <2>1, <2>2 DEF TableOf, IsIn
  <2>5. IsChained(h) /\ Sound(SetOfChains(h))
    BY <2>2, <2>4, PartsOf
  <2>6. /\ Bucket(k, h) \in 0 .. h.size - 1 /\ Chain(h, k) = h.table[Bucket(k, h)]
        /\ Place(h, k) \in 1 .. Len(Chain(h, k))
    BY <2>4, <2>5, SearchIs
  <2>7. /\ w.table \in {0, 1} /\ w.index \in Nat \cup {-1}
        /\ w.chain = Chain(h, k) /\ w.p = Place(h, k)
    BY <2>3 DEF IterOK
  <2>. QED BY <2>2, <2>4, <2>6, <2>7 DEF IsPlace
<1>2. CASE it.nextentry = NullPtr
  <2>1. PICK b : b = NextBucket(hash, it.table, it.index)
    OBVIOUS
  <2>2. w = [table |-> b.table, index |-> b.index, p |-> 1,
             chain |-> IF b = Nowhere THEN << >> ELSE hash.ht[b.table].table[b.index]]
    BY <1>2, <2>1 DEF Advance
  <2>3. b # Nowhere
    BY <2>2 DEF Ended
  <2>4. /\ b.table \in {0, 1} /\ b.index \in 0 .. hash.ht[b.table].size - 1
        /\ hash.ht[b.table].table[b.index] # << >>
    <3>1. it.table \in {0, 1} /\ it.index \in Nat \cup {-1}
      BY DEF IterOK
    <3>. QED BY <2>1, <2>3, <3>1, BucketFound
  <2>5. PICK s : s = hash.ht[b.table].table[b.index]
    OBVIOUS
  <2>6. s \in Seq(Entry) /\ s # << >>
    BY <2>4, <2>5, ChainIsIn
  <2>7. 1 \in 1 .. Len(s)
    <3>1. Len(s) \in Nat /\ Len(s) # 0
      BY <2>6, LenProperties, EmptySeq
    <3>. QED BY <3>1
  <2>8. w.table = b.table /\ w.index = b.index /\ w.p = 1 /\ w.chain = s
    BY <2>2, <2>3, <2>5
  <2>9. b.index \in Nat
    <3>1. hash.ht[b.table].size \in Nat
      BY <2>4, GoodIs
    <3>. QED BY <2>4, <3>1
  <2>. QED BY <2>4, <2>5, <2>7, <2>8, <2>9 DEF IsPlace
<1>. QED BY <1>1, <1>2

LEMMA AdvancedIs ==
  ASSUME Good(hash), NEW it, IterOK(it, hash), NEW w, IsPlace(w, hash)
  PROVE  IterOK(Advanced(it, w), hash)
<1>1. PICK s : s = w.chain
  OBVIOUS
<1>2. /\ s \in Seq(Entry) /\ w.p \in 1 .. Len(s)
      /\ \A p \in 1 .. Len(s) : s[p].key \in {k \in Key : IsIn(hash, k)}
  <2>1. PICK t \in {0, 1} : \E i \in 0 .. hash.ht[t].size - 1 :
          w.chain = hash.ht[t].table[i] /\ w.p \in 1 .. Len(w.chain)
    BY DEF IsPlace
  <2>2. PICK i \in 0 .. hash.ht[t].size - 1 : s = hash.ht[t].table[i] /\ w.p \in 1 .. Len(s)
    BY <1>1, <2>1
  <2>3. /\ hash.ht[t].table[i] \in Seq(Entry)
        /\ \A p \in 1 .. Len(hash.ht[t].table[i]) :
              hash.ht[t].table[i][p].key \in {k \in Key : IsIn(hash, k)}
    BY <2>2, ChainIsIn
  <2>. QED BY <2>2, <2>3
<1>3. Len(s) \in Nat
  BY <1>2, LenProperties
<1> DEFINE next == IF w.p < Len(s) THEN s[w.p + 1].key ELSE NullPtr
           seen == IF it.steady THEN Append(it.seen, s[w.p].key) ELSE it.seen
<1>4. next \in {NullPtr, Freed} \cup {k \in Key : IsIn(hash, k)}
  <2>1. w.p < Len(s) => w.p + 1 \in 1 .. Len(s)
    BY <1>2, <1>3
  <2>. QED BY <1>2, <2>1
<1>5. seen \in Seq(Key)
  <2>1. s[w.p].key \in Key /\ it.seen \in Seq(Key)
    BY <1>2 DEF IterOK
  <2>. QED BY <2>1
<1>6. Advanced(it, w) = [it EXCEPT !.table = w.table, !.index = w.index,
                                   !.nextentry = next, !.seen = seen]
  BY <1>1 DEF Advanced
<1>. HIDE DEF next, seen
<1>7. PICK u : u = Advanced(it, w)
  OBVIOUS
<1>8. u = [table |-> w.table, index |-> w.index, nextentry |-> next,
           fingerprint |-> it.fingerprint, seen |-> seen, steady |-> it.steady]
  BY <1>6, <1>7 DEF IterOK
<1>9. w.table \in {0, 1} /\ w.index \in Nat \cup {-1} /\ it.steady \in BOOLEAN
  BY DEF IterOK, IsPlace
<1>10. IterOK(u, hash)
  BY <1>4, <1>5, <1>8, <1>9 DEF IterOK
<1>. QED BY <1>7, <1>10

-----------------------------------------------------------------------------
(* The keys a command leaves in the hash. *)

LEMMA SetKeeps ==
  ASSUME NEW d, Good(d), NEW k \in Key, NEW v \in Value, NEW addr, NEW j \in Key, IsIn(d, j)
  PROVE  IsIn(Replaced(d, k, v, addr), j)
<1>1. PICK x : x = Expanded(Step(d), addr)
  OBVIOUS
<1>2. PICK y : y = Step(x)
  OBVIOUS
<1>3. PICK w : w = Replaced(d, k, v, addr)
  OBVIOUS
<1>4. PICK e \in Entry : e = [key |-> k, v |-> v]
  BY DEF Entry
<1>5. e.key = k /\ e.v = v
  BY <1>4
<1>6. PICK f \in Entries(Abs(d)) : f.key = j
  BY IsInIs DEF HasKey
<1>7. Good(x) /\ Entries(Abs(x)) = Entries(Abs(d)) /\ x.ht[0].size > 0
  BY <1>1, StepIs, ExpandedIs
<1>8. Good(y) /\ Entries(Abs(y)) = Entries(Abs(d)) /\ y.ht[0].size > 0
  BY <1>2, <1>7, StepIs
<1>9. Good(w)
  BY <1>3, ReplacedIs
<1>10. CASE ~IsIn(x, k)
  <2>1. w = Inserted(x, e)
    BY <1>1, <1>3, <1>4, <1>10 DEF Replaced
  <2>2. Abs(w) = Insert(Abs(x), e)
    BY <1>5, <1>7, <1>10, <2>1, InsertedIs
  <2>3. PICK A : A = Abs(x)
    OBVIOUS
  <2>4. Consistent(A) /\ A.ht[0].size > 0 /\ \A g \in Entries(A) : g.key # e.key
    BY <1>5, <1>7, <1>10, <2>3, PartsOf, GoodIs, EntryIs
  <2>5. Entries(Insert(A, e)) = Entries(A) \cup {e}
    BY <2>4, InsertConsistent
  <2>6. f \in Entries(Abs(w))
    BY <1>6, <1>7, <2>2, <2>3, <2>5
  <2>. QED BY <1>3, <1>6, <1>9, <2>6, EntryIs
<1>11. CASE IsIn(x, k)
  <2>1. w = OnChain(y, k, [ChainOf(y, k) EXCEPT ![At(y, k)] = e], 0)
    BY <1>1, <1>2, <1>3, <1>4, <1>11 DEF Replaced
  <2>2. w = OnChain(y, k, [ChainOf(y, k) EXCEPT ![At(y, k)] = [key |-> k, v |-> v]], 0)
    BY <1>4, <2>1
  <2>3. IsIn(y, k)
    BY <1>7, <1>8, <1>11, IsInIs DEF HasKey
  <2>4. PICK A, g : A = Abs(y) /\ g = EntryOf(y, k)
    OBVIOUS
  <2>5. Abs(w) = Assign(A, g, v)
    BY <1>8, <2>2, <2>3, <2>4, AssignedIs
  <2>6. /\ Consistent(A) /\ A.ht[0].size > 0 /\ g \in Entries(A) /\ g.key = k
        /\ \A x1, x2 \in Entries(A) : x1.key = x2.key => x1 = x2
    BY <1>8, <2>3, <2>4, PartsOf, GoodIs, IsInIs
  <2>7. Entries(Abs(w)) = (Entries(A) \ {g}) \cup {e}
    <3>1. v \in Value \cup {NullPtr}
      OBVIOUS
    <3>2. Entries(Assign(A, g, v)) = (Entries(A) \ {g}) \cup {[key |-> g.key, v |-> v]}
      BY <2>6, <3>1, AssignConsistent
    <3>. QED BY <1>4, <2>5, <2>6, <3>2
  <2>8. \E z \in Entries(Abs(w)) : z.key = j
    BY <1>5, <1>6, <1>8, <2>4, <2>6, <2>7
  <2>. QED BY <1>3, <1>9, <2>8, EntryIs
<1>. QED BY <1>10, <1>11

LEMMA GetKeeps ==
  ASSUME NEW d, Good(d), NEW j \in Key, IsIn(d, j)
  PROVE  IsIn(Searched(d), j)
<1>1. Good(Searched(d)) /\ Entries(Abs(Searched(d))) = Entries(Abs(d))
  BY StepIs DEF Searched
<1>. QED BY <1>1, IsInIs DEF HasKey

LEMMA DelKeeps ==
  ASSUME NEW d, Good(d), d.ht[0].size # 0, NEW k \in Key, NEW j \in Key, IsIn(d, j), j # k
  PROVE  IsIn(Unlinked(Step(d), k), j)
<1>1. PICK x, w : x = Step(d) /\ w = Unlinked(x, k)
  OBVIOUS
<1>2. Good(x) /\ Entries(Abs(x)) = Entries(Abs(d)) /\ x.ht[0].size > 0
  BY <1>1, StepIs, GoodIs
<1>3. PICK A : A = Abs(x)
  OBVIOUS
<1>4. Good(w) /\ Abs(w) = Unlink(A, k)
  BY <1>1, <1>2, <1>3, UnlinkedIs
<1>5. Consistent(A) /\ A.ht[0].size > 0
  BY <1>2, <1>3, PartsOf, GoodIs
<1>6. Entries(Abs(w)) = {e \in Entries(A) : e.key # k}
  BY <1>4, <1>5, UnlinkConsistent
<1>7. \E e \in Entries(Abs(w)) : e.key = j
  <2>1. PICK e \in Entries(Abs(d)) : e.key = j
    BY IsInIs DEF HasKey
  <2>. QED BY <1>2, <1>3, <1>6, <2>1
<1>. QED BY <1>1, <1>4, <1>7, EntryIs

-----------------------------------------------------------------------------
(* The inductive invariant: the hash is a consistent dictionary, and an    *)
(* iterator is to return an entry of it, or one that has been deleted.     *)

IInv ==
  /\ Good(hash)
  /\ failed \in {"no", "assert", "undefined"}
  /\ iter = [w \in Walk |-> iter[w]]
  /\ \A w \in Walk : iter[w] = NullPtr \/ IterOK(iter[w], hash)

LEMMA IInvBecomes ==
  ASSUME IInv, NEW d, NEW gone, Becomes(d, gone), Good(d),
         \A k \in Key : IsIn(hash, k) => IsIn(d, k) \/ k \in gone
  PROVE  IInv'
<1>1. hash' = d /\ failed' = failed /\ iter' = [w \in Walk |-> Under(iter[w], d, gone)]
  BY DEF Becomes
<1>2. ASSUME NEW w \in Walk PROVE iter'[w] = NullPtr \/ IterOK(iter'[w], hash')
  <2>1. iter'[w] = Under(iter[w], d, gone)
    BY <1>1
  <2>2. CASE iter[w] = NullPtr
    BY <2>1, <2>2 DEF Under
  <2>3. CASE IterOK(iter[w], hash)
    BY <1>1, <2>1, <2>3, UnderIs
  <2>. QED BY <2>2, <2>3 DEF IInv
<1>3. iter' = [w \in Walk |-> iter'[w]]
  BY <1>1
<1>4. Good(hash') /\ failed' \in {"no", "assert", "undefined"}
  BY <1>1 DEF IInv
<1>. QED BY <1>2, <1>3, <1>4 DEF IInv

LEMMA Inductive == IInv /\ [Next]_vars => IInv'
<1>1. SUFFICES ASSUME IInv, [Next]_vars PROVE IInv'
  OBVIOUS
<1>2. Good(hash)
  BY <1>1 DEF IInv
<1>3. ASSUME NEW k \in Key, HashGet(k) PROVE IInv'
  <2>1. Becomes(Searched(hash), {}) /\ Good(Searched(hash))
    BY <1>2, <1>3, SearchedIs DEF HashGet
  <2>. QED BY <1>1, <1>2, <2>1, GetKeeps, IInvBecomes
<1>4. ASSUME NEW k \in Key, HashDel(k) PROVE IInv'
  <2>1. CASE hash.ht[0].size = 0
    <3>1. Becomes(hash, {})
      BY <1>4, <2>1 DEF HashDel
    <3>. QED BY <1>1, <1>2, <3>1, IInvBecomes
  <2>2. CASE hash.ht[0].size # 0
    <3>1. PICK d : d = Unlinked(Step(hash), k)
      OBVIOUS
    <3>2. Becomes(d, KeySet \cap {k}) /\ Good(d)
      BY <1>2, <1>4, <2>2, <3>1, DeletedIs DEF HashDel
    <3>3. \A j \in Key : IsIn(hash, j) => IsIn(d, j) \/ j \in KeySet \cap {k}
      BY <1>2, <2>2, <3>1, DelKeeps DEF KeySet
    <3>. QED BY <1>1, <3>2, <3>3, IInvBecomes
  <2>. QED BY <2>1, <2>2
<1>5. ASSUME NEW k \in Key, NEW v \in Value, HashSet(k, v) PROVE IInv'
  <2>1. PICK addr : Becomes(Replaced(hash, k, v, addr), {})
    BY <1>5 DEF HashSet
  <2>2. PICK d : d = Replaced(hash, k, v, addr)
    OBVIOUS
  <2>3. Good(d)
    BY <1>2, <2>2, ReplacedIs
  <2>4. \A j \in Key : IsIn(hash, j) => IsIn(d, j)
    BY <1>2, <2>2, SetKeeps
  <2>. QED BY <1>1, <2>1, <2>2, <2>3, <2>4, IInvBecomes
<1>6. ASSUME NEW w \in Walk, _HashIter(w) PROVE IInv'
  <2>1. PICK it : it = IF iter[w] = NullPtr THEN NewIterator ELSE iter[w]
    OBVIOUS
  <2>2. IterOK(it, hash)
    BY <1>1, <1>6, <2>1, NewIsOK DEF IInv
  <2>3. PICK at : at = Advance(it)
    OBVIOUS
  <2>4. /\ hash' = hash
        /\ \/ iter' = iter /\ failed' \in {"undefined", "assert"}
           \/ iter' = [iter EXCEPT ![w] = NullPtr] /\ failed' = failed
           \/ /\ it.nextentry # Freed /\ ~Ended(at)
              /\ iter' = [iter EXCEPT ![w] = Advanced(it, at)] /\ failed' = failed
    BY <1>6, <2>1, <2>3 DEF _HashIter
  <2>5. CASE iter' = iter /\ failed' \in {"undefined", "assert"}
    BY <1>1, <2>4, <2>5 DEF IInv
  <2>6. CASE iter' = [iter EXCEPT ![w] = NullPtr] /\ failed' = failed
    BY <1>1, <2>4, <2>6 DEF IInv
  <2>7. CASE /\ it.nextentry # Freed /\ ~Ended(at)
             /\ iter' = [iter EXCEPT ![w] = Advanced(it, at)] /\ failed' = failed
    <3>1. PICK u : u = Advanced(it, at)
      OBVIOUS
    <3>2. IterOK(u, hash)
      BY <1>2, <2>2, <2>3, <2>7, <3>1, AdvanceIs, AdvancedIs
    <3>. QED BY <1>1, <2>4, <2>7, <3>1, <3>2 DEF IInv
  <2>. QED BY <2>4, <2>5, <2>6, <2>7
<1>7. CASE UNCHANGED vars
  BY <1>1, <1>7 DEF IInv, vars
<1>. QED BY <1>1, <1>3, <1>4, <1>5, <1>6, <1>7 DEF Next

LEMMA InitIInv == Init => IInv
BY InitImplements DEF Init, IInv

(* The entry dictNext kept to return next is still in the hash, unless     *)
(* hdel has deleted it: no rehash and no hset takes it away.               *)
NextIsThere ==
  \A w \in Walking : iter[w].nextentry \in {NullPtr, Freed} \cup KeySet

THEOREM NextStaysThere == Spec => []NextIsThere
<1>1. IInv => NextIsThere
  BY DEF IInv, NextIsThere, Walking, KeySet, IterOK
<1>. QED BY <1>1, InitIInv, Inductive, PTL DEF Spec

-----------------------------------------------------------------------------
(* Sequences joined from the left; f joins the first n of ss.              *)

Joining(f, n, ss) == f = [i \in 0 .. n |-> IF i = 0 THEN << >> ELSE f[i - 1] \o ss[i]]

LEMMA JoiningExists ==
  ASSUME NEW n \in Nat, NEW ss
  PROVE  \E f : Joining(f, n, ss)
<1> DEFINE S == {m \in Nat : ~ \E f : Joining(f, m, ss)}
<1>1. SUFFICES ASSUME S # {} PROVE FALSE
  OBVIOUS
<1>2. PICK x \in S : \A y \in S : x <= y
  <2>. HIDE DEF S
  <2>1. S \in SUBSET Nat
    BY DEF S
  <2>. QED BY <1>1, <2>1, LeastNat
<1>3. CASE x = 0
  <2>1. Joining([i \in 0 .. 0 |-> << >>], 0, ss)
    BY DEF Joining
  <2>. QED BY <1>2, <1>3, <2>1
<1>4. CASE x # 0
  <2>1. x - 1 \in Nat /\ x - 1 \notin S
    BY <1>2, <1>4
  <2>2. PICK f : Joining(f, x - 1, ss)
    BY <2>1
  <2> DEFINE g == [i \in 0 .. x |-> IF i = x THEN f[x - 1] \o ss[x] ELSE f[i]]
             r == [i \in 0 .. x |-> IF i = 0 THEN << >> ELSE g[i - 1] \o ss[i]]
  <2>3. ASSUME NEW i \in 0 .. x PROVE g[i] = r[i]
    <3>1. CASE i = x
      <4>1. g[i] = f[x - 1] \o ss[x]
        BY <3>1
      <4>2. x - 1 \in 0 .. x /\ x - 1 # x /\ i # 0
        BY <1>4, <3>1
      <4>3. g[x - 1] = f[x - 1]
        BY <4>2
      <4>4. r[i] = g[i - 1] \o ss[i]
        BY <4>2
      <4>. QED BY <3>1, <4>1, <4>3, <4>4
    <3>2. CASE i # x
      <4>1. i \in 0 .. x - 1 /\ g[i] = f[i]
        BY <3>2
      <4>2. f[i] = IF i = 0 THEN << >> ELSE f[i - 1] \o ss[i]
        BY <2>2, <4>1 DEF Joining
      <4>3. i # 0 => i - 1 \in 0 .. x /\ i - 1 # x /\ g[i - 1] = f[i - 1]
        BY <4>1
      <4>4. r[i] = IF i = 0 THEN << >> ELSE g[i - 1] \o ss[i]
        OBVIOUS
      <4>. QED BY <4>1, <4>2, <4>3, <4>4
    <3>. QED BY <3>1, <3>2
  <2>4. g = r
    <3>1. /\ g = [i \in 0 .. x |-> g[i]]
          /\ r = [i \in 0 .. x |-> r[i]]
      OBVIOUS
    <3>. HIDE DEF g, r
    <3>. QED BY <2>3, <3>1
  <2>5. Joining(g, x, ss)
    BY <2>4 DEF Joining
  <2>. QED BY <1>2, <2>5
<1>. QED BY <1>3, <1>4

LEMMA JoiningAt ==
  ASSUME NEW n \in Nat, NEW ss, NEW f, Joining(f, n, ss), NEW i \in 0 .. n
  PROVE  f[i] = IF i = 0 THEN << >> ELSE f[i - 1] \o ss[i]
<1> DEFINE g == [j \in 0 .. n |-> IF j = 0 THEN << >> ELSE f[j - 1] \o ss[j]]
<1>1. f = g
  BY DEF Joining
<1>2. g[i] = IF i = 0 THEN << >> ELSE f[i - 1] \o ss[i]
  OBVIOUS
<1>. HIDE DEF g
<1>. QED BY <1>1, <1>2

LEMMA JoiningType ==
  ASSUME NEW T, NEW n \in Nat, NEW ss \in [1 .. n -> Seq(T)], NEW f, Joining(f, n, ss),
         NEW i \in 0 .. n
  PROVE  f[i] \in Seq(T)
<1> DEFINE S == {m \in 0 .. n : f[m] \notin Seq(T)}
<1>1. SUFFICES ASSUME S # {} PROVE FALSE
  OBVIOUS
<1>2. PICK x \in S : \A y \in S : x <= y
  <2>1. S \in SUBSET Nat
    OBVIOUS
  <2>. HIDE DEF S
  <2>. QED BY <1>1, <2>1, LeastNat
<1>3. x \in 0 .. n /\ f[x] \notin Seq(T)
  BY <1>2
<1>4. f[x] = IF x = 0 THEN << >> ELSE f[x - 1] \o ss[x]
  BY <1>3, JoiningAt
<1>5. x # 0
  BY <1>3, <1>4
<1>6. x - 1 \in 0 .. n /\ ~(x <= x - 1) /\ x \in 1 .. n
  BY <1>3, <1>5
<1>7. f[x - 1] \in Seq(T)
  BY <1>2, <1>6
<1>8. ss[x] \in Seq(T)
  BY <1>6
<1>. QED BY <1>3, <1>4, <1>5, <1>7, <1>8, ConcatIs

(* FlattenSeq is a recursive function that begins with the first one.      *)
LEMMA FlattenIs ==
  ASSUME NEW T, NEW n \in Nat, NEW ss \in [1 .. n -> Seq(T)], NEW f, Joining(f, n, ss)
  PROVE  FlattenSeq([j \in 1 .. n |-> ss[j]]) = f[n]
<1>1. PICK tt : tt = [j \in 1 .. n |-> ss[j]]
  OBVIOUS
<1>2. tt \in Seq(Seq(T)) /\ Len(tt) = n /\ \A j \in 1 .. n : tt[j] = ss[j]
  <2>1. tt \in [1 .. n -> Seq(T)]
    BY <1>1
  <2>. QED BY <1>1, <2>1, IsASeq
<1>3. CASE n = 0
  <2>1. f[0] = << >>
    BY <1>3, JoiningAt
  <2>2. FlattenSeq(tt) = tt
    BY <1>2, <1>3 DEF FlattenSeq
  <2>3. tt = << >>
    BY <1>2, <1>3, EmptySeq
  <2>. QED BY <1>1, <1>3, <2>1, <2>2, <2>3
<1>4. CASE n # 0
  <2> DEFINE Eq(h) == h = [i \in 1 .. n |-> IF i = 1 THEN tt[i] ELSE h[i - 1] \o tt[i]]
             e == [i \in 1 .. n |-> f[i]]
  <2>1. Eq(e)
    <3> DEFINE r == [i \in 1 .. n |-> IF i = 1 THEN tt[i] ELSE e[i - 1] \o tt[i]]
    <3>1. ASSUME NEW i \in 1 .. n PROVE e[i] = r[i]
      <4>1. i \in 0 .. n /\ i # 0 /\ e[i] = f[i] /\ ss[i] \in Seq(T)
        OBVIOUS
      <4>2. f[i] = f[i - 1] \o ss[i]
        BY <4>1, JoiningAt
      <4>3. CASE i = 1
        <5>1. 0 \in 0 .. n /\ i - 1 = 0
          BY <4>3
        <5>2. f[0] = << >>
          BY <5>1, JoiningAt
        <5>3. << >> \o ss[i] = ss[i]
          BY <4>1, ConcatEmptySeq
        <5>4. r[i] = tt[i]
          BY <4>3
        <5>. QED BY <1>2, <4>1, <4>2, <5>1, <5>2, <5>3, <5>4
      <4>4. CASE i # 1
        <5>1. i - 1 \in 1 .. n
          BY <4>4
        <5>2. e[i - 1] = f[i - 1] /\ r[i] = e[i - 1] \o tt[i]
          BY <4>4, <5>1
        <5>. QED BY <1>2, <4>1, <4>2, <5>2
      <4>. QED BY <4>3, <4>4
    <3>2. e = [i \in 1 .. n |-> e[i]] /\ r = [i \in 1 .. n |-> r[i]]
      OBVIOUS
    <3>3. e = r
      <4>. HIDE DEF e, r
      <4>. QED BY <3>1, <3>2
    <3>. HIDE DEF e
    <3>. QED BY <3>3
  <2>. HIDE DEF e
  <2>2. PICK g : g = CHOOSE h : Eq(h)
    OBVIOUS
  <2>3. Eq(g)
    <3>. HIDE DEF Eq
    <3>. QED BY <2>1, <2>2
  <2>4. FlattenSeq(tt) = g[n]
    <3>1. n # 0
      BY <1>4
    <3>. QED BY <1>2, <2>2, <3>1 DEF FlattenSeq
  <2>5. \A i \in 1 .. n : g[i] = e[i]
    <3> DEFINE S == {m \in 1 .. n : g[m] # e[m]}
    <3>1. SUFFICES ASSUME S # {} PROVE FALSE
      OBVIOUS
    <3>2. PICK x \in S : \A y \in S : x <= y
      <4>1. S \in SUBSET Nat
        OBVIOUS
      <4>. HIDE DEF S
      <4>. QED BY <3>1, <4>1, LeastNat
    <3>3. x \in 1 .. n /\ g[x] # e[x] /\ x \in Nat
      BY <3>2
    <3>4. /\ g[x] = IF x = 1 THEN tt[x] ELSE g[x - 1] \o tt[x]
          /\ e[x] = IF x = 1 THEN tt[x] ELSE e[x - 1] \o tt[x]
      <4>1. \A h : Eq(h) => \A i \in 1 .. n : h[i] = IF i = 1 THEN tt[i] ELSE h[i - 1] \o tt[i]
        <5>. SUFFICES ASSUME NEW h, Eq(h), NEW i \in 1 .. n
                      PROVE  h[i] = IF i = 1 THEN tt[i] ELSE h[i - 1] \o tt[i]
          OBVIOUS
        <5> DEFINE r == [j \in 1 .. n |-> IF j = 1 THEN tt[j] ELSE h[j - 1] \o tt[j]]
        <5>1. h = r /\ r[i] = IF i = 1 THEN tt[i] ELSE h[i - 1] \o tt[i]
          OBVIOUS
        <5>. HIDE DEF r
        <5>. QED BY <5>1
      <4>. HIDE DEF Eq
      <4>. QED BY <2>1, <2>3, <3>3, <4>1
    <3>5. x # 1
      BY <3>3, <3>4
    <3>6. x - 1 \in 1 .. n /\ ~(x <= x - 1)
      BY <3>3, <3>5
    <3>7. g[x - 1] = e[x - 1]
      BY <3>2, <3>6
    <3>. QED BY <3>3, <3>4, <3>5, <3>7
  <2>6. n \in 1 .. n
    BY <1>4
  <2>7. e[n] = f[n]
    BY <2>6 DEF e
  <2>. QED BY <1>1, <2>4, <2>5, <2>6, <2>7
<1>. QED BY <1>3, <1>4

-----------------------------------------------------------------------------
(* The order of a walk: of the keys in the chains of a table of n buckets, *)
(* those of the first i.                                                   *)

KeyTable(n) == [0 .. n - 1 -> Seq(Key)]
Upto(K, i)  == FlattenSeq([j \in 1 .. i |-> K[j - 1]])

LEMMA UptoIs ==
  ASSUME NEW n \in Nat, NEW K \in KeyTable(n)
  PROVE  /\ Upto(K, 0) = << >>
         /\ \A i \in 0 .. n : Upto(K, i) \in Seq(Key)
         /\ \A i \in 0 .. n - 1 : K[i] \in Seq(Key) /\ Upto(K, i + 1) = Upto(K, i) \o K[i]
<1>1. PICK ss \in [1 .. n -> Seq(Key)] : ss = [j \in 1 .. n |-> K[j - 1]]
  <2>1. ASSUME NEW j \in 1 .. n PROVE K[j - 1] \in Seq(Key)
    <3>1. j - 1 \in 0 .. n - 1
      OBVIOUS
    <3>. QED BY <3>1 DEF KeyTable
  <2>. QED BY <2>1
<1>2. PICK f : Joining(f, n, ss)
  BY JoiningExists
<1>3. ASSUME NEW i \in 0 .. n PROVE Upto(K, i) = f[i] /\ f[i] \in Seq(Key)
  <2>1. PICK tt : tt = [j \in 1 .. i |-> ss[j]]
    OBVIOUS
  <2>2. \A j \in 1 .. i : j \in 1 .. n /\ ss[j] \in Seq(Key) /\ ss[j] = K[j - 1]
    BY <1>1
  <2>3. tt \in [1 .. i -> Seq(Key)] /\ [j \in 1 .. i |-> K[j - 1]] = tt
    BY <2>1, <2>2
  <2>4. PICK g : g = [j \in 0 .. i |-> f[j]]
    OBVIOUS
  <2>5. Joining(g, i, tt)
    <3> DEFINE r == [j \in 0 .. i |-> IF j = 0 THEN << >> ELSE g[j - 1] \o tt[j]]
    <3>1. ASSUME NEW j \in 0 .. i PROVE g[j] = r[j]
      <4>1. j \in 0 .. n /\ g[j] = f[j] /\ r[j] = IF j = 0 THEN << >> ELSE g[j - 1] \o tt[j]
        BY <2>4
      <4>2. f[j] = IF j = 0 THEN << >> ELSE f[j - 1] \o ss[j]
        BY <1>2, <4>1, JoiningAt
      <4>3. ASSUME j # 0 PROVE g[j - 1] = f[j - 1] /\ tt[j] = ss[j]
        <5>1. j - 1 \in 0 .. i /\ j \in 1 .. i
          BY <4>3
        <5>. QED BY <2>1, <2>4, <5>1
      <4>. HIDE DEF r
      <4>. QED BY <4>1, <4>2, <4>3
    <3>2. g = [j \in 0 .. i |-> g[j]] /\ r = [j \in 0 .. i |-> r[j]]
      BY <2>4
    <3>3. g = r
      <4>. HIDE DEF r
      <4>. QED BY <3>1, <3>2
    <3>. QED BY <3>3 DEF Joining
  <2>6. i \in Nat
    OBVIOUS
  <2>7. FlattenSeq([j \in 1 .. i |-> tt[j]]) = g[i]
    BY <2>3, <2>5, <2>6, FlattenIs
  <2>8. [j \in 1 .. i |-> tt[j]] = tt
    BY <2>3
  <2>9. g[i] = f[i]
    BY <2>4
  <2>10. f[i] \in Seq(Key)
    BY <1>2, JoiningType
  <2>. QED BY <2>3, <2>7, <2>8, <2>9, <2>10 DEF Upto
<1>4. 0 \in 0 .. n /\ f[0] = << >>
  BY <1>2, JoiningAt
<1>5. ASSUME NEW i \in 0 .. n - 1 PROVE K[i] \in Seq(Key) /\ Upto(K, i + 1) = Upto(K, i) \o K[i]
  <2>1. i \in 0 .. n /\ i + 1 \in 0 .. n /\ i + 1 # 0 /\ (i + 1) - 1 = i /\ i + 1 \in 1 .. n
    OBVIOUS
  <2>2. f[i + 1] = f[i] \o ss[i + 1]
    <3>1. f[i + 1] = IF i + 1 = 0 THEN << >> ELSE f[(i + 1) - 1] \o ss[i + 1]
      BY <1>2, <2>1, JoiningAt
    <3>. QED BY <2>1, <3>1
  <2>3. ss[i + 1] = K[i] /\ ss[i + 1] \in Seq(Key)
    BY <1>1, <2>1
  <2>4. Upto(K, i) = f[i] /\ Upto(K, i + 1) = f[i + 1]
    BY <1>3, <2>1
  <2>. QED BY <2>2, <2>3, <2>4
<1>. QED BY <1>3, <1>4, <1>5

(* Empty buckets add nothing. *)
LEMMA UptoSame ==
  ASSUME NEW n \in Nat, NEW K \in KeyTable(n), NEW i \in 0 .. n, NEW j \in 0 .. n, i <= j,
         \A b \in 0 .. n - 1 : i <= b /\ b < j => K[b] = << >>
  PROVE  Upto(K, j) = Upto(K, i)
<1> DEFINE S == {m \in Nat : i <= m /\ m <= j /\ Upto(K, m) # Upto(K, i)}
<1>1. ASSUME S # {} PROVE FALSE
  <2>1. PICK x \in S : \A y \in S : x <= y
    <3>1. S \in SUBSET Nat
      OBVIOUS
    <3>. HIDE DEF S
    <3>. QED BY <1>1, <3>1, LeastNat
  <2>2. x \in Nat /\ i <= x /\ x <= j /\ Upto(K, x) # Upto(K, i)
    BY <2>1
  <2>3. x # i
    BY <2>2
  <2>4. PICK b \in 0 .. n - 1 : b = x - 1 /\ b + 1 = x /\ i <= b /\ b < j
    BY <2>2, <2>3
  <2>5. Upto(K, b) = Upto(K, i)
    <3>1. b \notin S
      <4>. HIDE DEF S
      <4>. QED BY <2>1, <2>2, <2>4
    <3>. QED BY <2>4, <3>1
  <2>6. Upto(K, b + 1) = Upto(K, b) \o K[b] /\ K[b] = << >>
    BY <2>4, UptoIs
  <2>7. Upto(K, b) \in Seq(Key)
    <3>1. b \in 0 .. n
      OBVIOUS
    <3>. QED BY <3>1, UptoIs
  <2>8. Upto(K, b) \o << >> = Upto(K, b)
    BY <2>7, ConcatEmptySeq
  <2>. QED BY <2>2, <2>4, <2>5, <2>6, <2>8
<1>. QED BY <1>1

(* What is before a bucket is the beginning of all. *)
LEMMA UptoBegins ==
  ASSUME NEW n \in Nat, NEW K \in KeyTable(n), NEW i \in 0 .. n
  PROVE  \E r \in Seq(Key) : Upto(K, n) = Upto(K, i) \o r
<1> DEFINE Begins(m) == \E r \in Seq(Key) : Upto(K, m) = Upto(K, i) \o r
           S == {m \in Nat : i <= m /\ m <= n /\ ~Begins(m)}
<1>1. ASSUME S # {} PROVE FALSE
  <2>1. PICK x \in S : \A y \in S : x <= y
    <3>1. S \in SUBSET Nat
      OBVIOUS
    <3>. HIDE DEF S
    <3>. QED BY <1>1, <3>1, LeastNat
  <2>2. x \in Nat /\ i <= x /\ x <= n /\ ~Begins(x)
    BY <2>1
  <2>3. Upto(K, i) \in Seq(Key)
    BY UptoIs
  <2>4. Begins(i)
    <3>1. << >> \in Seq(Key) /\ Upto(K, i) \o << >> = Upto(K, i)
      BY <2>3, ConcatEmptySeq
    <3>. QED BY <3>1
  <2>5. x # i
    BY <2>2, <2>4
  <2>6. PICK b \in 0 .. n - 1 : b = x - 1 /\ b + 1 = x /\ i <= b
    BY <2>2, <2>5
  <2>7. Begins(b)
    <3>1. b \notin S
      <4>. HIDE DEF S
      <4>. QED BY <2>1, <2>2, <2>6
    <3>. HIDE DEF Begins
    <3>. QED BY <2>6, <3>1
  <2>8. PICK r \in Seq(Key) : Upto(K, b) = Upto(K, i) \o r
    BY <2>7
  <2>9. Upto(K, b + 1) = Upto(K, b) \o K[b] /\ K[b] \in Seq(Key)
    BY UptoIs
  <2>10. PICK c \in Seq(Key), u \in Seq(Key) : c = K[b] /\ u = Upto(K, i)
    BY <2>3, <2>9
  <2>11. (u \o r) \o c = u \o (r \o c) /\ r \o c \in Seq(Key)
    BY ConcatAssociative, ConcatIs
  <2>12. Begins(x)
    BY <2>6, <2>8, <2>9, <2>10, <2>11
  <2>. QED BY <2>2, <2>12
<1>2. Begins(n)
  <2>. HIDE DEF Begins
  <2>. QED BY <1>1
<1>. QED BY <1>2

(* The keys of the chains of a table.                                      *)
LEMMA KeysOfChainsIs ==
  ASSUME NEW h, IsChained(h), NEW K, K = KeysOfChains(h)
  PROVE  /\ h.size \in Nat /\ K \in KeyTable(h.size) /\ KeysIn(h) = Upto(K, h.size)
         /\ \A i \in 0 .. h.size - 1 :
              /\ h.table[i] \in Seq(Entry) /\ Len(K[i]) = Len(h.table[i])
              /\ \A p \in 1 .. Len(h.table[i]) : K[i][p] = h.table[i][p].key
              /\ K[i] = << >> <=> h.table[i] = << >>
<1>1. /\ h.size \in Nat /\ DOMAIN h.table = 0 .. h.size - 1
      /\ \A i \in 0 .. h.size - 1 : h.table[i] \in Seq(Entry)
  BY DEF IsChained
<1>2. ASSUME NEW i \in 0 .. h.size - 1
      PROVE  /\ K[i] = [p \in DOMAIN h.table[i] |-> h.table[i][p].key]
             /\ K[i] \in Seq(Key) /\ Len(K[i]) = Len(h.table[i])
             /\ \A p \in 1 .. Len(h.table[i]) : K[i][p] = h.table[i][p].key
             /\ K[i] = << >> <=> h.table[i] = << >>
  <2>1. PICK s \in Seq(Entry) : s = h.table[i]
    BY <1>1
  <2>2. Len(s) \in Nat /\ DOMAIN s = 1 .. Len(s) /\ \A p \in 1 .. Len(s) : s[p] \in Entry
    BY LenProperties, ElementOfSeq
  <2>3. K[i] = [p \in DOMAIN h.table[i] |-> h.table[i][p].key]
    BY <1>1 DEF KeysOfChains
  <2>4. PICK ks : ks = K[i]
    OBVIOUS
  <2>5. ks = [p \in 1 .. Len(s) |-> s[p].key]
    BY <2>1, <2>2, <2>3, <2>4
  <2>6. ks \in [1 .. Len(s) -> Key]
    BY <2>2, <2>5 DEF Entry
  <2>7. ks \in Seq(Key) /\ Len(ks) = Len(s)
    BY <2>2, <2>6, IsASeq
  <2>8. \A p \in 1 .. Len(s) : ks[p] = s[p].key
    BY <2>5
  <2>9. ks = << >> <=> s = << >>
    <3>1. ks = << >> <=> Len(ks) = 0
      BY <2>7, EmptySeq
    <3>2. s = << >> <=> Len(s) = 0
      BY EmptySeq
    <3>. QED BY <2>7, <3>1, <3>2
  <2>. QED BY <2>1, <2>3, <2>4, <2>7, <2>8, <2>9
<1>3. K \in KeyTable(h.size)
  <2>1. K = [i \in 0 .. h.size - 1 |-> [p \in DOMAIN h.table[i] |-> h.table[i][p].key]]
    BY <1>1 DEF KeysOfChains
  <2>2. K = [i \in 0 .. h.size - 1 |-> K[i]]
    BY <2>1
  <2>. QED BY <1>2, <2>2 DEF KeyTable
<1>4. KeysIn(h) = Upto(K, h.size)
  <2> DEFINE a == [i \in 1 .. h.size |-> [p \in DOMAIN h.table[i - 1] |-> h.table[i - 1][p].key]]
             b == [i \in 1 .. h.size |-> K[i - 1]]
  <2>1. ASSUME NEW i \in 1 .. h.size PROVE a[i] = b[i]
    <3>1. PICK j \in 0 .. h.size - 1 : j = i - 1
      BY <1>1
    <3>. QED BY <1>2, <3>1
  <2>2. a = [i \in 1 .. h.size |-> a[i]] /\ b = [i \in 1 .. h.size |-> b[i]]
    OBVIOUS
  <2>3. a = b
    <3>. HIDE DEF a, b
    <3>. QED BY <2>1, <2>2
  <2>. QED BY <2>3 DEF KeysIn, Upto
<1>. QED BY <1>1, <1>2, <1>3, <1>4

(* The keys in both tables, and those before bucket i of table t.          *)
Ordered(d) == KeysIn(d.ht[0]) \o KeysIn(d.ht[1])
Passed(d, t, i) ==
  IF t = 0 THEN Upto(KeysOfChains(d.ht[0]), i)
           ELSE KeysIn(d.ht[0]) \o Upto(KeysOfChains(d.ht[1]), i)

(* The keys in a bucket, in their order. *)
KeysAt(d, t, i) == KeysOfChains(d.ht[t])[i]

LEMMA KeysJoined ==
  \A u, v, w \in Seq(Key) : u \o v \in Seq(Key) /\ (u \o v) \o w = u \o (v \o w)
<1>. SUFFICES ASSUME NEW u \in Seq(Key), NEW v \in Seq(Key), NEW w \in Seq(Key)
              PROVE  u \o v \in Seq(Key) /\ (u \o v) \o w = u \o (v \o w)
  OBVIOUS
<1>. QED BY ConcatIs, ConcatAssociative

LEMMA KeysAre ==
  ASSUME NEW d, Good(d), NEW t \in {0, 1}
  PROVE  \E n \in Nat : \E K \in KeyTable(n) :
           /\ n = d.ht[t].size /\ K = KeysOfChains(d.ht[t]) /\ KeysIn(d.ht[t]) = Upto(K, n)
           /\ KeysIn(d.ht[t]) \in Seq(Key)
           /\ \A i \in 0 .. n - 1 : K[i] = << >> <=> d.ht[t].table[i] = << >>
<1>1. PICK h : h = d.ht[t] /\ IsChained(h)
  BY DEF Good
<1>2. PICK K : K = KeysOfChains(h)
  OBVIOUS
<1>3. /\ h.size \in Nat /\ K \in KeyTable(h.size) /\ KeysIn(h) = Upto(K, h.size)
      /\ \A i \in 0 .. h.size - 1 : K[i] = << >> <=> h.table[i] = << >>
  BY <1>1, <1>2, KeysOfChainsIs
<1>4. PICK n \in Nat : n = h.size
  BY <1>3
<1>5. Upto(K, n) \in Seq(Key)
  <2>1. n \in 0 .. n
    OBVIOUS
  <2>. QED BY <1>3, <1>4, <2>1, UptoIs
<1>. QED BY <1>1, <1>2, <1>3, <1>4, <1>5

LEMMA PassedIs ==
  ASSUME NEW d, Good(d), NEW t \in {0, 1}, NEW n \in Nat, n = d.ht[t].size,
         NEW i \in 0 .. n
  PROVE  /\ Passed(d, t, i) \in Seq(Key)
         /\ i < n => /\ KeysAt(d, t, i) \in Seq(Key)
                     /\ Passed(d, t, i + 1) = Passed(d, t, i) \o KeysAt(d, t, i)
         /\ \E r \in Seq(Key) : Ordered(d) = Passed(d, t, i) \o r
<1>0. PICK K : K = KeysOfChains(d.ht[t])
  OBVIOUS
<1>1. n \in Nat /\ K \in KeyTable(n) /\ KeysIn(d.ht[t]) = Upto(K, n)
  BY <1>0, KeysAre
<1>2. PICK a \in Seq(Key), b \in Seq(Key) : a = KeysIn(d.ht[0]) /\ b = KeysIn(d.ht[1])
  BY KeysAre
<1>3. PICK u \in Seq(Key) : u = Upto(K, i)
  BY <1>1, UptoIs
<1>4. i < n => K[i] \in Seq(Key) /\ Upto(K, i + 1) = u \o K[i]
  <2>1. i < n => i \in 0 .. n - 1
    BY <1>1
  <2>. QED BY <1>1, <1>3, <2>1, UptoIs
<1>5. PICK r \in Seq(Key) : Upto(K, n) = u \o r
  BY <1>1, <1>3, UptoBegins
<1>9. KeysAt(d, t, i) = K[i]
  BY <1>0 DEF KeysAt
<1>6. CASE t = 0
  <2>1. Passed(d, t, i) = u /\ Passed(d, t, i + 1) = Upto(K, i + 1)
    BY <1>0, <1>3, <1>6 DEF Passed
  <2>2. Ordered(d) = (u \o r) \o b
    BY <1>1, <1>2, <1>5, <1>6 DEF Ordered
  <2>3. (u \o r) \o b = u \o (r \o b)
    BY ConcatAssociative
  <2>4. r \o b \in Seq(Key)
    BY ConcatIs
  <2>. QED BY <1>4, <1>9, <2>1, <2>2, <2>3, <2>4
<1>7. CASE t = 1
  <2>1. Passed(d, t, i) = a \o u /\ Passed(d, t, i + 1) = a \o Upto(K, i + 1)
    BY <1>0, <1>2, <1>3, <1>7 DEF Passed
  <2>2. a \o u \in Seq(Key)
    BY ConcatIs
  <2>3. ASSUME i < n PROVE a \o Upto(K, i + 1) = (a \o u) \o K[i]
    <3>1. \A x \in Seq(Key) : (a \o u) \o x = a \o (u \o x)
      BY KeysJoined
    <3>2. K[i] \in Seq(Key) /\ Upto(K, i + 1) = u \o K[i]
      BY <1>4, <2>3
    <3>. QED BY <3>1, <3>2
  <2>4. Ordered(d) = a \o (u \o r)
    BY <1>1, <1>2, <1>5, <1>7 DEF Ordered
  <2>5. (a \o u) \o r = a \o (u \o r)
    BY ConcatAssociative
  <2>. QED BY <1>4, <1>9, <2>1, <2>2, <2>3, <2>4, <2>5
<1>. QED BY <1>6, <1>7

LEMMA PassedSame ==
  ASSUME NEW d, Good(d), NEW t \in {0, 1}, NEW n, n = d.ht[t].size,
         NEW i \in 0 .. n, NEW j \in 0 .. n, i <= j,
         \A b \in 0 .. n - 1 : i <= b /\ b < j => d.ht[t].table[b] = << >>
  PROVE  Passed(d, t, j) = Passed(d, t, i)
<1>1. PICK K :
         n \in Nat /\ K \in KeyTable(n) /\ K = KeysOfChains(d.ht[t]) /\ \A b \in 0 .. n - 1 : K[b] = << >> <=> d.ht[t].table[b] = << >>
  <2>1. PICK m \in Nat : \E K \in KeyTable(m) :
           /\ m = d.ht[t].size /\ K = KeysOfChains(d.ht[t])
           /\ \A b \in 0 .. m - 1 : K[b] = << >> <=> d.ht[t].table[b] = << >>
    BY KeysAre
  <2>2. m = n
    BY <2>1
  <2>. QED BY <2>1, <2>2
<1>2. Upto(K, j) = Upto(K, i)
  BY <1>1, UptoSame
<1>. QED BY <1>1, <1>2 DEF Passed

(* Where a table ends, and where the walk does.                            *)
LEMMA PassedEnds ==
  ASSUME NEW d, Good(d)
  PROVE  /\ Passed(d, 0, 0) = << >>
         /\ Passed(d, 0, d.ht[0].size) = Passed(d, 1, 0)
         /\ Passed(d, 1, d.ht[1].size) = Ordered(d)
         /\ d.rehashidx = -1 => Passed(d, 0, d.ht[0].size) = Ordered(d)
<1>20. PICK n0 \in Nat : \E K0 :
          /\ n0 = d.ht[0].size /\ K0 = KeysOfChains(d.ht[0]) /\ KeysIn(d.ht[0]) = Upto(K0, n0)
          /\ K0 \in KeyTable(n0) /\ KeysIn(d.ht[0]) \in Seq(Key)
  BY KeysAre
<1>1. PICK K0 :
        /\ n0 = d.ht[0].size /\ K0 = KeysOfChains(d.ht[0]) /\ KeysIn(d.ht[0]) = Upto(K0, n0)
        /\ K0 \in KeyTable(n0) /\ KeysIn(d.ht[0]) \in Seq(Key)
  BY <1>20
<1>21. PICK n1 \in Nat : \E K1 :
          /\ n1 = d.ht[1].size /\ K1 = KeysOfChains(d.ht[1]) /\ KeysIn(d.ht[1]) = Upto(K1, n1)
          /\ K1 \in KeyTable(n1) /\ \A i \in 0 .. n1 - 1 : K1[i] = << >> <=> d.ht[1].table[i] = << >>
  BY KeysAre
<1>2. PICK K1 :
        /\ n1 = d.ht[1].size /\ K1 = KeysOfChains(d.ht[1]) /\ KeysIn(d.ht[1]) = Upto(K1, n1)
        /\ K1 \in KeyTable(n1) /\ \A i \in 0 .. n1 - 1 : K1[i] = << >> <=> d.ht[1].table[i] = << >>
  BY <1>21
<1>3. Upto(K0, 0) = << >> /\ Upto(K1, 0) = << >>
  BY <1>1, <1>2, UptoIs
<1>4. PICK a \in Seq(Key) : a = KeysIn(d.ht[0]) /\ a \o << >> = a
  BY <1>1, ConcatEmptySeq
<1>5. Passed(d, 0, 0) = << >> /\ Passed(d, 0, n0) = a /\ Passed(d, 1, 0) = a
  BY <1>1, <1>2, <1>3, <1>4 DEF Passed
<1>6. Passed(d, 1, n1) = Ordered(d)
  BY <1>2 DEF Passed, Ordered
<1>7. ASSUME d.rehashidx = -1 PROVE Ordered(d) = a
  <2>1. Items(Abs(d).ht[1]) = {}
    BY <1>7, AbsIs DEF Good, Consistent, Idle
  <2>2. ASSUME NEW i \in 0 .. n1 - 1 PROVE d.ht[1].table[i] = << >>
    <3>1. PICK s : s = d.ht[1].table[i]
      OBVIOUS
    <3>2. s \in Seq(Entry) /\ Abs(d).ht[1].table[i] = ToSet(s) /\ Abs(d).ht[1].size = n1
      BY <1>2, <3>1, GoodIs, ChainIsIn
    <3>3. \A e \in ToSet(s) : e \in Items(Abs(d).ht[1])
      BY <3>2, ItemsMember
    <3>4. ToSet(s) = {}
      BY <2>1, <3>3
    <3>. QED BY <3>1, <3>2, <3>4, ChainNotEmpty
  <2>3. \A i \in 0 .. n1 - 1 : K1[i] = << >>
    BY <1>2, <2>2
  <2>4. Upto(K1, n1) = Upto(K1, 0)
    <3>1. 0 \in 0 .. n1 /\ n1 \in 0 .. n1 /\ 0 <= n1
      OBVIOUS
    <3>. QED BY <1>2, <2>3, <3>1, UptoSame
  <2>5. KeysIn(d.ht[1]) = << >>
    BY <1>2, <1>3, <2>4
  <2>. QED BY <1>4, <2>5 DEF Ordered
<1>. QED BY <1>1, <1>2, <1>5, <1>6, <1>7

-----------------------------------------------------------------------------
(* Beginnings of a sequence of keys.                                       *)

LEMMA BeginningIs ==
  ASSUME NEW s \in Seq(Key), NEW q \in 1 .. Len(s), NEW b, b = SubSeq(s, 1, q)
  PROVE  b \in Seq(Key) /\ Len(b) = q /\ \A i \in 1 .. q : b[i] = s[i]
<1>1. Len(s) \in Nat /\ \A p \in 1 .. Len(s) : s[p] \in Key
  BY LenProperties, ElementOfSeq
<1>2. 1 \in Int /\ q \in Int /\ \A i \in 1 .. q : s[i] \in Key
  BY <1>1
<1>3. /\ b \in Seq(Key)
      /\ Len(b) = (IF 1 <= q THEN q - 1 + 1 ELSE 0) /\ \A i \in 1 .. q - 1 + 1 : b[i] = s[1 + i - 1]
  BY <1>2, SubSeqProperties
<1>4. \A i \in 1 .. q : i \in 1 .. q - 1 + 1 /\ 1 + i - 1 = i
  BY <1>1
<1>. QED BY <1>1, <1>3, <1>4

LEMMA JoinedIs ==
  ASSUME NEW u \in Seq(Key), NEW v \in Seq(Key), NEW w, w = u \o v
  PROVE  /\ w \in Seq(Key) /\ Len(w) = Len(u) + Len(v)
         /\ \A i \in 1 .. Len(u) : w[i] = u[i]
         /\ \A i \in 1 .. Len(v) : w[i + Len(u)] = v[i]
BY ConcatIs

LEMMA AppendedIs ==
  ASSUME NEW u \in Seq(Key), NEW a \in Seq(Key), NEW x \in Key
  PROVE  Append(u \o a, x) = u \o (a \o <<x>>)
<1>1. PICK v \in Seq(Key) : v = <<x>>
  <2>1. <<x>> \in Seq(Key)
    OBVIOUS
  <2>. QED BY <2>1
<1>2. u \o a \in Seq(Key) /\ (u \o a) \o v = u \o (a \o v)
  BY KeysJoined
<1>3. Append(u \o a, x) = (u \o a) \o <<x>>
  BY <1>2, AppendIsConcat
<1>. QED BY <1>1, <1>2, <1>3

LEMMA KeysFrom ==
  ASSUME NEW s \in Seq(Key), NEW u \in Seq(Key)
  PROVE  /\ Len(s) \in Nat
         /\ u \o SubSeq(s, 1, Len(s)) = u \o s
         /\ \A p \in 1 .. Len(s) : /\ s[p] \in Key /\ SubSeq(s, 1, p) \in Seq(Key)
                                   /\ \E r \in Seq(Key) : s = SubSeq(s, 1, p) \o r
<1>1. Len(s) \in Nat /\ \A p \in 1 .. Len(s) : s[p] \in Key
  BY LenProperties, ElementOfSeq
<1>2. ASSUME NEW p \in 1 .. Len(s) PROVE SubSeq(s, 1, p) \in Seq(Key) /\ Len(SubSeq(s, 1, p)) = p
                                         /\ \A i \in 1 .. p : SubSeq(s, 1, p)[i] = s[i]
  BY BeginningIs
<1>3. ASSUME NEW p \in 1 .. Len(s) PROVE \E r \in Seq(Key) : s = SubSeq(s, 1, p) \o r
  <2>1. PICK n \in Nat : n = Len(s) /\ p \in 1 .. n
    BY <1>1
  <2>2. PICK r : r = [i \in 1 .. n - p |-> s[i + p]]
    OBVIOUS
  <2>3. \A i \in 1 .. n - p : i + p \in 1 .. Len(s)
    BY <2>1
  <2>4. r \in [1 .. n - p -> Key] /\ n - p \in Nat
    BY <1>1, <2>1, <2>2, <2>3
  <2>5. r \in Seq(Key) /\ Len(r) = n - p
    BY <2>4, IsASeq
  <2>6. PICK a \in Seq(Key) : a = SubSeq(s, 1, p) /\ Len(a) = p /\ \A i \in 1 .. p : a[i] = s[i]
    BY <1>2
  <2>7. PICK w : w = a \o r
    OBVIOUS
  <2>11. /\ w \in Seq(Key) /\ Len(w) = Len(a) + Len(r)
         /\ \A i \in 1 .. Len(a) : w[i] = a[i]
         /\ \A i \in 1 .. Len(r) : w[i + Len(a)] = r[i]
    <3>1. r \in Seq(Key)
      BY <2>5
    <3>. QED BY <2>7, <3>1, JoinedIs
  <2>8. Len(w) = Len(s)
    <3>1. Len(w) = p + (n - p) /\ Len(s) = n
      BY <2>1, <2>5, <2>6, <2>11
    <3>. QED BY <2>1, <3>1
  <2>9. ASSUME NEW i \in 1 .. Len(s) PROVE w[i] = s[i]
    <3>1. CASE i <= p
      <4>1. i \in 1 .. p
        BY <2>1, <3>1
      <4>. QED BY <2>6, <2>11, <4>1
    <3>2. CASE ~(i <= p)
      <4>1. PICK j \in 1 .. n - p : i = j + p
        <5>1. i - p \in 1 .. n - p /\ i = (i - p) + p
          BY <2>1, <3>2
        <5>. QED BY <5>1
      <4>2. w[j + p] = r[j] /\ r[j] = s[j + p]
        BY <2>2, <2>5, <2>6, <2>11
      <4>. QED BY <4>1, <4>2
    <3>. QED BY <3>1, <3>2
  <2>10. w = s
    BY <2>8, <2>9, <2>11, SeqEqual
  <2>. QED BY <2>5, <2>6, <2>7, <2>10
<1>4. u \o SubSeq(s, 1, Len(s)) = u \o s
  <2>1. CASE s = << >>
    <3>1. Len(s) = 0
      BY <2>1
    <3>2. SubSeq(s, 1, 0) = << >>
      <4>1. 1 \in Int /\ 0 \in Int /\ 0 < 1
        OBVIOUS
      <4>. QED BY <4>1, SubSeqEmpty
    <3>. QED BY <2>1, <3>1, <3>2
  <2>2. CASE s # << >>
    <3>1. Len(s) \in 1 .. Len(s)
      BY <1>1, <2>2, EmptySeq
    <3>2. PICK a \in Seq(Key) : a = SubSeq(s, 1, Len(s)) /\ Len(a) = Len(s) /\ \A i \in 1 .. Len(s) : a[i] = s[i]
      BY <1>2, <3>1
    <3>3. a = s
      BY <3>2, SeqEqual
    <3>. QED BY <3>2, <3>3
  <2>. QED BY <2>1, <2>2
<1>. QED BY <1>1, <1>2, <1>3, <1>4

(* One key more.                                                           *)
LEMMA KeysMore ==
  ASSUME NEW s \in Seq(Key), NEW u \in Seq(Key), NEW p \in 1 .. Len(s), p < Len(s)
  PROVE  Append(u \o SubSeq(s, 1, p), s[p + 1]) = u \o SubSeq(s, 1, p + 1)
<1>1. Len(s) \in Nat /\ p + 1 \in 1 .. Len(s)
  BY LenProperties
<1>2. \A q \in 1 .. Len(s) : s[q] \in Key /\ SubSeq(s, 1, q) \in Seq(Key)
  BY KeysFrom
<1>3. PICK a \in Seq(Key), x \in Key : a = SubSeq(s, 1, p) /\ x = s[p + 1]
  BY <1>1, <1>2
<1>4. PICK c \in Seq(Key) : c = SubSeq(s, 1, p + 1)
  BY <1>1, <1>2
<1>5. /\ Len(a) = p /\ \A i \in 1 .. p : a[i] = s[i]
      /\ Len(c) = p + 1 /\ \A i \in 1 .. p + 1 : c[i] = s[i]
  BY <1>1, <1>3, <1>4, BeginningIs
<1>6. PICK v \in Seq(Key) : v = <<x>> /\ Len(v) = 1 /\ v[1] = x
  <2>1. <<x>> \in Seq(Key) /\ Len(<<x>>) = 1 /\ <<x>>[1] = x
    OBVIOUS
  <2>. QED BY <2>1
<1>7. c = a \o v
  <2>5. PICK w : w = a \o v
    OBVIOUS
  <2>1. /\ w \in Seq(Key) /\ Len(w) = Len(a) + Len(v)
        /\ \A i \in 1 .. Len(a) : w[i] = a[i]
        /\ \A i \in 1 .. Len(v) : w[i + Len(a)] = v[i]
    BY <2>5, JoinedIs
  <2>2. Len(w) = Len(c)
    BY <1>5, <1>6, <2>1
  <2>3. ASSUME NEW i \in 1 .. Len(c) PROVE w[i] = c[i]
    <3>1. CASE i = p + 1
      <4>1. w[1 + p] = x
        BY <1>5, <1>6, <2>1
      <4>2. c[p + 1] = s[p + 1] /\ 1 + p = p + 1
        BY <1>1, <1>5
      <4>. QED BY <1>3, <3>1, <4>1, <4>2
    <3>2. CASE i # p + 1
      <4>1. i \in 1 .. p /\ i \in 1 .. p + 1
        BY <1>1, <1>5, <3>2
      <4>. QED BY <1>5, <2>1, <4>1
    <3>. QED BY <3>1, <3>2
  <2>4. w = c
    BY <2>1, <2>2, <2>3, SeqEqual
  <2>. QED BY <2>4, <2>5
<1>8. Append(u \o a, x) = u \o (a \o <<x>>)
  BY AppendedIs
<1>. QED BY <1>3, <1>4, <1>6, <1>7, <1>8

LEMMA FirstKey ==
  ASSUME NEW s \in Seq(Key), NEW u \in Seq(Key), s # << >>
  PROVE  1 \in 1 .. Len(s) /\ Append(u, s[1]) = u \o SubSeq(s, 1, 1)
<1>1. 1 \in 1 .. Len(s)
  <2>1. Len(s) \in Nat \ {0}
    BY EmptySeq
  <2>. QED BY <2>1
<1>2. PICK x \in Key, a \in Seq(Key) : x = s[1] /\ a = SubSeq(s, 1, 1)
  BY <1>1, KeysFrom
<1>3. a = <<x>>
  <2>1. 1 \in Int /\ \A i \in 1 .. 1 : s[i] \in Key
    BY <1>2
  <2>2. Len(a) = (IF 1 <= 1 THEN 1 - 1 + 1 ELSE 0) /\ \A i \in 1 .. 1 - 1 + 1 : a[i] = s[1 + i - 1]
    BY <1>2, <2>1, SubSeqProperties
  <2>3. Len(a) = 1 /\ a[1] = x
    <3>1. 1 - 1 + 1 = 1 /\ 1 <= 1 /\ 1 + 1 - 1 = 1 /\ 1 \in 1 .. 1 - 1 + 1
      OBVIOUS
    <3>. QED BY <1>2, <2>2, <3>1
  <2>4. PICK v \in Seq(Key) : v = <<x>> /\ Len(v) = 1 /\ v[1] = x
    <3>1. <<x>> \in Seq(Key) /\ Len(<<x>>) = 1 /\ <<x>>[1] = x
      OBVIOUS
    <3>. QED BY <3>1
  <2>5. \A i \in 1 .. Len(a) : a[i] = v[i]
    BY <2>3, <2>4
  <2>6. a = v
    BY <2>3, <2>4, <2>5, SeqEqual
  <2>. QED BY <2>4, <2>6
<1>4. Append(u, x) = u \o <<x>>
  BY AppendIsConcat
<1>. QED BY <1>1, <1>2, <1>3, <1>4

LEMMA BeginsIsPrefix ==
  ASSUME NEW s \in Seq(Key), NEW r \in Seq(Key)
  PROVE  IsPrefix(s, s \o r)
<1>1. PICK w : w = s \o r
  OBVIOUS
<1>4. w \in Seq(Key) /\ Len(w) = Len(s) + Len(r) /\ \A i \in 1 .. Len(s) : w[i] = s[i]
  BY <1>1, JoinedIs
<1>2. Len(s) \in Nat /\ Len(r) \in Nat /\ Len(s) <= Len(w)
  BY <1>4, LenProperties
<1>3. SubSeq(s, 1, Len(s)) = SubSeq(w, 1, Len(s))
  <2>1. /\ SubSeq(s, 1, Len(s)) = [i \in 1 .. (1 + Len(s) - 1) |-> s[i + 1 - 1]]
        /\ SubSeq(w, 1, Len(s)) = [i \in 1 .. (1 + Len(s) - 1) |-> w[i + 1 - 1]]
    BY <1>2
  <2>2. \A i \in 1 .. (1 + Len(s) - 1) : i + 1 - 1 \in 1 .. Len(s)
    BY <1>2
  <2>. QED BY <1>4, <2>1, <2>2
<1>. QED BY <1>1, <1>2, <1>3 DEF IsPrefix

-----------------------------------------------------------------------------
(* Where a walk is.  An iterator is on its way when it has returned the    *)
(* keys before its bucket and some of those in it, and nextentry is the    *)
(* first of the others there.                                              *)

OnPlace(it, d, t, i, p) ==
  /\ it.table = t /\ it.index = i /\ (t = 1 => d.rehashidx # -1)
  /\ it.seen = Passed(d, t, i) \o SubSeq(KeysAt(d, t, i), 1, p)
  /\ it.nextentry = IF p < Len(KeysAt(d, t, i)) THEN KeysAt(d, t, i)[p + 1] ELSE NullPtr
OnWay(it, d) ==
  \E t \in {0, 1} : \E i \in 0 .. d.ht[t].size - 1 : \E p \in 1 .. Len(KeysAt(d, t, i)) :
    OnPlace(it, d, t, i, p)

(* It is behind a bucket when it has returned all keys up to there.        *)
Behind(it, d) ==
  /\ it.table \in {0, 1} /\ (it.table = 1 => d.rehashidx # -1)
  /\ it.index \in -1 .. d.ht[it.table].size - 1
  /\ it.seen = Passed(d, it.table, it.index + 1) /\ it.nextentry = NullPtr

(* The first bucket with an entry, from f on.                              *)
LEMMA NonEmptyIs ==
  ASSUME NEW d, Good(d), NEW t \in {0, 1}, NEW n, n = d.ht[t].size, NEW f \in 0 .. n,
         NEW N, N = NonEmpty(d, t, f)
  PROVE  /\ N = {} => Passed(d, t, n) = Passed(d, t, f)
         /\ N # {} => /\ Min(N) \in 0 .. n - 1 /\ d.ht[t].table[Min(N)] # << >>
                      /\ Passed(d, t, Min(N)) = Passed(d, t, f)
<1>1. n \in Nat /\ N = {i \in f .. n - 1 : d.ht[t].table[i] # << >>}
  BY GoodIs DEF NonEmpty
<1>2. CASE N = {}
  <2>1. \A b \in 0 .. n - 1 : f <= b /\ b < n => d.ht[t].table[b] = << >>
    BY <1>1, <1>2
  <2>2. n \in 0 .. n /\ f <= n
    BY <1>1
  <2>3. Passed(d, t, n) = Passed(d, t, f)
    <3>1. \A j \in 0 .. n : f <= j /\ (\A b \in 0 .. n - 1 : f <= b /\ b < j => d.ht[t].table[b] = << >>)
                           => Passed(d, t, j) = Passed(d, t, f)
      BY PassedSame
    <3>. QED BY <2>1, <2>2, <3>1
  <2>. QED BY <1>2, <2>3
<1>3. CASE N # {}
  <2>1. N \in SUBSET Nat
    BY <1>1
  <2>2. \E x \in N : \A y \in N : x <= y
    BY <1>3, <2>1, LeastNat
  <2>3. PICK m : m = Min(N)
    OBVIOUS
  <2>4. m \in N /\ \A y \in N : m <= y
    BY <2>2, <2>3 DEF Min
  <2>5. m \in 0 .. n - 1 /\ m \in 0 .. n /\ f <= m /\ d.ht[t].table[m] # << >>
    BY <1>1, <2>4
  <2>6. ASSUME NEW b \in 0 .. n - 1, f <= b, b < m PROVE d.ht[t].table[b] = << >>
    <3>1. b \notin N /\ b \in f .. n - 1
      BY <1>1, <2>4, <2>5, <2>6
    <3>. QED BY <1>1, <3>1
  <2>7. Passed(d, t, m) = Passed(d, t, f)
    BY <2>5, <2>6, PassedSame
  <2>. QED BY <1>3, <2>3, <2>5, <2>7
<1>. QED BY <1>2, <1>3

LEMMA BucketNext ==
  ASSUME NEW d, Good(d), NEW t \in {0, 1}, t = 1 => d.rehashidx # -1,
         NEW index, index \in -1 .. d.ht[t].size - 1, NEW b, b = NextBucket(d, t, index)
  PROVE  /\ b = Nowhere => Passed(d, t, index + 1) = Ordered(d)
         /\ b # Nowhere => /\ b.table \in {0, 1} /\ (b.table = 1 => d.rehashidx # -1)
                           /\ b.index \in 0 .. d.ht[b.table].size - 1
                           /\ d.ht[b.table].table[b.index] # << >>
                           /\ Passed(d, b.table, b.index) = Passed(d, t, index + 1)
<1>1. PICK n0 \in Nat, n1 \in Nat : n0 = d.ht[0].size /\ n1 = d.ht[1].size
  BY GoodIs
<1>2. PICK f : f = index + 1
  OBVIOUS
<1>3. f \in 0 .. d.ht[t].size
  BY <1>1, <1>2
<1>4. PICK from : from = [u \in {0, 1} |-> IF u = t THEN index + 1 ELSE 0]
  OBVIOUS
<1>5. from[t] = f /\ (t = 0 => from[1] = 0)
  BY <1>2, <1>4
<1>6. PICK N, M : N = NonEmpty(d, t, f) /\ M = NonEmpty(d, 1, 0)
  OBVIOUS
<1>7. PICK left : left = {u \in TablesLeft(d, t) : NonEmpty(d, u, from[u]) # {}}
  OBVIOUS
<1>8. b = IF left = {} THEN Nowhere
          ELSE [table |-> Min(left), index |-> Min(NonEmpty(d, Min(left), from[Min(left)]))]
  BY <1>4, <1>7 DEF NextBucket, FirstBucket
<1>9. PICK two : two <=> d.rehashidx # -1 /\ t = 0
  OBVIOUS
<1>10. TablesLeft(d, t) = IF two THEN {0, 1} ELSE {t}
  BY <1>9 DEF TablesLeft
<1>11. /\ N = {} => Passed(d, t, d.ht[t].size) = Passed(d, t, f)
       /\ N # {} => /\ Min(N) \in 0 .. d.ht[t].size - 1 /\ d.ht[t].table[Min(N)] # << >>
                    /\ Passed(d, t, Min(N)) = Passed(d, t, f)
  BY <1>3, <1>6, NonEmptyIs
<1>12. /\ M = {} => Passed(d, 1, n1) = Passed(d, 1, 0)
       /\ M # {} => /\ Min(M) \in 0 .. n1 - 1 /\ d.ht[1].table[Min(M)] # << >>
                    /\ Passed(d, 1, Min(M)) = Passed(d, 1, 0)
  <2>1. 0 \in 0 .. n1 /\ 1 \in {0, 1}
    BY <1>1
  <2>. QED BY <1>1, <1>6, <2>1, NonEmptyIs
<1>13. /\ Passed(d, 0, n0) = Passed(d, 1, 0) /\ Passed(d, 1, n1) = Ordered(d)
       /\ d.rehashidx = -1 => Passed(d, 0, n0) = Ordered(d)
  BY <1>1, PassedEnds
<1>14. \A S : S \subseteq {0, 1} /\ S # {} => Min(S) \in S /\ \A y \in S : Min(S) <= y
  <2>. SUFFICES ASSUME NEW S, S \subseteq {0, 1}, S # {} PROVE Min(S) \in S /\ \A y \in S : Min(S) <= y
    OBVIOUS
  <2>1. S \in SUBSET Nat
    OBVIOUS
  <2>2. \E x \in S : \A y \in S : x <= y
    BY <2>1, LeastNat
  <2>. QED BY <2>2 DEF Min
<1>15. CASE N # {}
  <2>1. t \in left /\ left \subseteq {0, 1} /\ (t = 1 => left = {1})
    BY <1>5, <1>6, <1>7, <1>9, <1>10, <1>15
  <2>2. Min(left) = t
    <3>1. PICK m : m = Min(left)
      OBVIOUS
    <3>2. left # {}
      BY <2>1
    <3>3. m \in left /\ m \in {0, 1} /\ m <= t
      BY <1>14, <2>1, <3>1, <3>2
    <3>4. CASE t = 0
      BY <3>1, <3>3, <3>4
    <3>5. CASE t = 1
      BY <2>1, <3>1, <3>3, <3>5
    <3>. QED BY <3>4, <3>5
  <2>3. b = [table |-> t, index |-> Min(N)]
    BY <1>5, <1>6, <1>8, <2>1, <2>2
  <2>4. b.table = t /\ b.index = Min(N)
    BY <2>3
  <2>5. b # Nowhere
    BY <2>4 DEF Nowhere
  <2>. QED BY <1>2, <1>11, <1>15, <2>4, <2>5
<1>16. CASE N = {} /\ two /\ M # {}
  <2>1. left = {1}
    BY <1>5, <1>6, <1>7, <1>9, <1>10, <1>16
  <2>2. Min(left) = 1
    BY <1>14, <2>1
  <2>3. b = [table |-> 1, index |-> Min(M)]
    BY <1>5, <1>6, <1>8, <1>9, <1>16, <2>1, <2>2
  <2>4. b.table = 1 /\ b.index = Min(M)
    BY <2>3
  <2>5. b # Nowhere
    BY <2>4 DEF Nowhere
  <2>6. Passed(d, 1, Min(M)) = Passed(d, t, f)
    BY <1>1, <1>9, <1>11, <1>12, <1>13, <1>16
  <2>. QED BY <1>1, <1>2, <1>9, <1>12, <1>16, <2>4, <2>5, <2>6
<1>17. CASE N = {} /\ (two => M = {})
  <2>1. left = {}
    BY <1>5, <1>6, <1>7, <1>9, <1>10, <1>17
  <2>2. b = Nowhere
    BY <1>8, <2>1
  <2>3. Passed(d, t, f) = Ordered(d)
    BY <1>1, <1>9, <1>11, <1>12, <1>13, <1>17
  <2>. QED BY <1>2, <2>2, <2>3
<1>. QED BY <1>15, <1>16, <1>17

(* The search of a key finds the table, the chain and the place it has.    *)
LEMMA KeyPlace ==
  ASSUME NEW d, Good(d), NEW t \in {0, 1}, NEW i \in 0 .. d.ht[t].size - 1,
         NEW s, s = d.ht[t].table[i], NEW p \in 1 .. Len(s), NEW k, k = s[p].key
  PROVE  k \in Key /\ TableOf(d, k) = t /\ Chain(d.ht[t], k) = s /\ Place(d.ht[t], k) = p
<1>1. PICK h, S : h = d.ht[t] /\ S = SetOfChains(h)
  OBVIOUS
<1>2. IsChained(h) /\ Sound(S) /\ S.size = h.size /\ h.size \in Nat
  <2>1. /\ IsChained(d.ht[0]) /\ IsChained(d.ht[1])
        /\ Sound(SetOfChains(d.ht[0])) /\ Sound(SetOfChains(d.ht[1]))
    BY PartsOf
  <2>2. IsChained(h) /\ Sound(S)
    BY <1>1, <2>1
  <2>3. S.size = h.size
    BY <1>1, <2>2, BucketIs
  <2>4. h.size \in Nat
    BY <2>2 DEF IsChained
  <2>. QED BY <2>2, <2>3, <2>4
<1>3. s \in Seq(Entry) /\ Once(s) /\ S.table[i] = ToSet(s)
  BY <1>1, <1>2, BucketIs DEF IsChained
<1>4. s[p] \in ToSet(s) /\ s[p] \in Entry
  BY <1>3, ToSetIs
<1>5. k \in Key
  BY <1>4 DEF Entry
<1>6. s[p] \in Items(S)
  BY <1>1, <1>2, <1>3, <1>4, ItemsMember
<1>7. Index(k, h.size) = i
  BY <1>1, <1>2, <1>3, <1>4 DEF Sound, Placed
<1>8. Has(h, k)
  BY <1>1, <1>2, <1>5, <1>6, SearchIs
<1>9. /\ Chain(h, k) = h.table[Bucket(k, h)] /\ Place(h, k) \in 1 .. Len(Chain(h, k))
      /\ Chain(h, k)[Place(h, k)].key = k
  BY <1>1, <1>2, <1>5, <1>8, SearchIs
<1>10. Chain(h, k) = s
  BY <1>1, <1>7, <1>9 DEF Bucket
<1>11. Place(h, k) = p
  BY <1>3, <1>9, <1>10 DEF Once
<1>12. TableOf(d, k) = t
  <2>1. CASE t = 0
    BY <1>1, <1>8, <2>1 DEF TableOf
  <2>2. CASE t = 1
    <3>1. ASSUME Has(d.ht[0], k) PROVE FALSE
      <4>1. PICK e \in Items(SetOfChains(d.ht[0])) : e.key = k
        BY <1>5, <3>1, PartsOf, SearchIs
      <4>2. e \in Entries(Abs(d)) /\ s[p] \in Entries(Abs(d))
        BY <1>1, <1>6, <2>2, PartsOf
      <4>3. e = s[p]
        BY <4>1, <4>2, PartsOf
      <4>4. Items(SetOfChains(d.ht[0])) \cap Items(SetOfChains(d.ht[1])) = {}
        BY AbsIs DEF Good, Consistent, Unique
      <4>. QED BY <1>1, <1>6, <2>2, <4>3, <4>4
    <3>. QED BY <2>2, <3>1 DEF TableOf
  <2>. QED BY <2>1, <2>2
<1>. QED BY <1>1, <1>5, <1>10, <1>11, <1>12

(* Bucket i of table t: its chain, the keys there, and those before it.    *)
InBucket(d, t, i, s, K, u) ==
  /\ s = d.ht[t].table[i] /\ K = KeysAt(d, t, i) /\ u = Passed(d, t, i)
  /\ s \in Seq(Entry) /\ K \in Seq(Key) /\ u \in Seq(Key)
  /\ Len(s) \in Nat /\ Len(K) = Len(s) /\ (K = << >> <=> s = << >>)
  /\ \A q \in 1 .. Len(s) : K[q] = s[q].key /\ K[q] \in Key
  /\ Passed(d, t, i + 1) = u \o K
  /\ \E r \in Seq(Key) : Ordered(d) = (u \o K) \o r

LEMMA PassedOf ==
  ASSUME NEW d, Good(d), NEW t \in {0, 1}
  PROVE  /\ d.ht[t].size \in Nat
         /\ \A i \in 0 .. d.ht[t].size :
              /\ Passed(d, t, i) \in Seq(Key)
              /\ i < d.ht[t].size => /\ KeysAt(d, t, i) \in Seq(Key)
                                    /\ Passed(d, t, i + 1) = Passed(d, t, i) \o KeysAt(d, t, i)
              /\ \E r \in Seq(Key) : Ordered(d) = Passed(d, t, i) \o r
<1>1. PICK n \in Nat : n = d.ht[t].size
  BY GoodIs
<1>2. ASSUME NEW i \in 0 .. n
      PROVE  /\ Passed(d, t, i) \in Seq(Key)
             /\ i < n => /\ KeysAt(d, t, i) \in Seq(Key)
                         /\ Passed(d, t, i + 1) = Passed(d, t, i) \o KeysAt(d, t, i)
             /\ \E r \in Seq(Key) : Ordered(d) = Passed(d, t, i) \o r
  BY <1>1, PassedIs
<1>. QED BY <1>1, <1>2

LEMMA BucketKeys ==
  ASSUME NEW d, Good(d), NEW t \in {0, 1}, NEW i \in 0 .. d.ht[t].size - 1
  PROVE  \E s, K, u : InBucket(d, t, i, s, K, u)
<1>1. PICK s, K, u : s = d.ht[t].table[i] /\ K = KeysAt(d, t, i) /\ u = Passed(d, t, i)
  OBVIOUS
<1>2. PICK h : h = d.ht[t] /\ IsChained(h)
  <2>1. IsChained(d.ht[0]) /\ IsChained(d.ht[1])
    BY PartsOf
  <2>. QED BY <2>1
<1>3. /\ s \in Seq(Entry) /\ Len(K) = Len(s) /\ (K = << >> <=> s = << >>)
      /\ \A q \in 1 .. Len(s) : K[q] = s[q].key
  <2>1. PICK T : T = KeysOfChains(h)
    OBVIOUS
  <2>2. PICK m \in 0 .. h.size - 1 : m = i /\ s = h.table[m] /\ K = T[m]
    BY <1>1, <1>2, <2>1 DEF KeysAt
  <2>3. IsChained(h)
    BY <1>2
  <2>4. /\ h.table[m] \in Seq(Entry) /\ Len(T[m]) = Len(h.table[m])
        /\ \A p \in 1 .. Len(h.table[m]) : T[m][p] = h.table[m][p].key
        /\ (T[m] = << >> <=> h.table[m] = << >>)
    BY <2>1, <2>3, KeysOfChainsIs
  <2>. QED BY <2>2, <2>4
<1>4. PICK n \in Nat : n = d.ht[t].size /\ i \in 0 .. n - 1
  BY GoodIs
<1>5. \A j \in 0 .. n : /\ Passed(d, t, j) \in Seq(Key)
                        /\ j < n => /\ KeysAt(d, t, j) \in Seq(Key)
                                    /\ Passed(d, t, j + 1) = Passed(d, t, j) \o KeysAt(d, t, j)
                        /\ \E r \in Seq(Key) : Ordered(d) = Passed(d, t, j) \o r
  BY <1>4, PassedOf
<1>6. i \in 0 .. n /\ i < n /\ i + 1 \in 0 .. n
  BY <1>4
<1>7. u \in Seq(Key) /\ K \in Seq(Key) /\ Passed(d, t, i + 1) = u \o K
  BY <1>1, <1>5, <1>6
<1>8. \E r \in Seq(Key) : Ordered(d) = (u \o K) \o r
  <2>1. \E r \in Seq(Key) : Ordered(d) = Passed(d, t, i + 1) \o r
    BY <1>5, <1>6
  <2>. QED BY <1>7, <2>1
<1>9. Len(s) \in Nat
  BY <1>3, LenProperties
<1>10. \A q \in 1 .. Len(s) : K[q] \in Key
  BY <1>3, <1>7, ElementOfSeq
<1>. QED BY <1>1, <1>3, <1>7, <1>8, <1>9, <1>10 DEF InBucket

(* An iterator on its way that has no entry to return next is behind a     *)
(* bucket.                                                                 *)
LEMMA OnWayBehind ==
  ASSUME NEW d, Good(d), NEW it, OnWay(it, d), it.nextentry = NullPtr
  PROVE  Behind(it, d)
<1>1. PICK t \in {0, 1} : \E i \in 0 .. d.ht[t].size - 1 :
              \E p \in 1 .. Len(KeysAt(d, t, i)) : OnPlace(it, d, t, i, p)
  BY DEF OnWay
<1>2. PICK i \in 0 .. d.ht[t].size - 1 :
              \E p \in 1 .. Len(KeysAt(d, t, i)) : OnPlace(it, d, t, i, p)
  BY <1>1
<1>3. PICK p \in 1 .. Len(KeysAt(d, t, i)) : OnPlace(it, d, t, i, p)
  BY <1>2
<1>4. PICK s, K, u : InBucket(d, t, i, s, K, u)
  BY BucketKeys
<1>5. /\ K = KeysAt(d, t, i) /\ u = Passed(d, t, i) /\ s = d.ht[t].table[i]
      /\ K \in Seq(Key) /\ u \in Seq(Key) /\ Len(s) \in Nat /\ Len(K) = Len(s) /\ s \in Seq(Entry)
      /\ \A q \in 1 .. Len(s) : K[q] = s[q].key /\ K[q] \in Key
      /\ Passed(d, t, i + 1) = u \o K
      /\ \E r \in Seq(Key) : Ordered(d) = (u \o K) \o r
  BY <1>4 DEF InBucket
<1>20. /\ p \in 1 .. Len(K) /\ it.table = t /\ it.index = i /\ (t = 1 => d.rehashidx # -1)
       /\ it.seen = u \o SubSeq(K, 1, p)
       /\ it.nextentry = IF p < Len(K) THEN K[p + 1] ELSE NullPtr
  BY <1>3, <1>5 DEF OnPlace
<1>6. p = Len(K)
  <2>1. CASE p < Len(K)
    <3>1. p + 1 \in 1 .. Len(s)
      BY <1>5, <2>1
    <3>2. it.nextentry \in Key
      BY <1>20, <1>5, <2>1, <3>1
    <3>. QED BY <3>2, PointerAssumption
  <2>. QED BY <1>5, <1>20, <2>1
<1>7. it.seen = u \o K
  BY <1>20, <1>5, <1>6, KeysFrom
<1>8. i \in -1 .. d.ht[t].size - 1
  <2>1. d.ht[t].size \in Nat
    BY GoodIs
  <2>. QED BY <2>1
<1>. QED BY <1>5, <1>7, <1>8, <1>20, GoodIs DEF Behind

LEMMA AdvancedAt ==
  ASSUME NEW it, IterOK(it, hash), it.steady, NEW w, NEW a, a = Advanced(it, w)
  PROVE  /\ a.table = w.table /\ a.index = w.index
         /\ a.nextentry = IF w.p < Len(w.chain) THEN w.chain[w.p + 1].key ELSE NullPtr
         /\ a.seen = Append(it.seen, w.chain[w.p].key)
         /\ a.fingerprint = it.fingerprint /\ a.steady = it.steady
<1> DEFINE next == IF w.p < Len(w.chain) THEN w.chain[w.p + 1].key ELSE NullPtr
           seen == Append(it.seen, w.chain[w.p].key)
<1>1. a = [it EXCEPT !.table = w.table, !.index = w.index, !.nextentry = next, !.seen = seen]
  BY DEF Advanced
<1>. HIDE DEF next, seen
<1>2. a = [table |-> w.table, index |-> w.index, nextentry |-> next,
           fingerprint |-> it.fingerprint, seen |-> seen, steady |-> it.steady]
  BY <1>1 DEF IterOK
<1>. QED BY <1>2 DEF next, seen

(* Along a chain. *)
LEMMA WalkAlong ==
  ASSUME Good(hash), NEW it, IterOK(it, hash), it.steady, OnWay(it, hash),
         it.nextentry # NullPtr, NEW w, w = Advance(it)
  PROVE  it.nextentry # Freed /\ ~Ended(w) /\ OnWay(Advanced(it, w), hash)
<1>12. PICK a : a = Advanced(it, w)
  OBVIOUS
<1>22. /\ a.table = w.table /\ a.index = w.index
       /\ a.nextentry = IF w.p < Len(w.chain) THEN w.chain[w.p + 1].key ELSE NullPtr
       /\ a.seen = Append(it.seen, w.chain[w.p].key)
  BY <1>12, AdvancedAt
<1>1. PICK t \in {0, 1} : \E i \in 0 .. hash.ht[t].size - 1 :
              \E p \in 1 .. Len(KeysAt(hash, t, i)) : OnPlace(it, hash, t, i, p)
  BY DEF OnWay
<1>2. PICK i \in 0 .. hash.ht[t].size - 1 :
              \E p \in 1 .. Len(KeysAt(hash, t, i)) : OnPlace(it, hash, t, i, p)
  BY <1>1
<1>3. PICK p \in 1 .. Len(KeysAt(hash, t, i)) : OnPlace(it, hash, t, i, p)
  BY <1>2
<1>4. PICK s, K, u : InBucket(hash, t, i, s, K, u)
  BY BucketKeys
<1>5. /\ K = KeysAt(hash, t, i) /\ u = Passed(hash, t, i) /\ s = hash.ht[t].table[i]
      /\ K \in Seq(Key) /\ u \in Seq(Key) /\ Len(s) \in Nat /\ Len(K) = Len(s) /\ s \in Seq(Entry)
      /\ \A q \in 1 .. Len(s) : K[q] = s[q].key /\ K[q] \in Key
      /\ Passed(hash, t, i + 1) = u \o K
      /\ \E r \in Seq(Key) : Ordered(hash) = (u \o K) \o r
  BY <1>4 DEF InBucket
<1>20. /\ p \in 1 .. Len(K) /\ it.table = t /\ it.index = i /\ (t = 1 => hash.rehashidx # -1)
       /\ it.seen = u \o SubSeq(K, 1, p)
       /\ it.nextentry = IF p < Len(K) THEN K[p + 1] ELSE NullPtr
  BY <1>3, <1>5 DEF OnPlace
<1>6. p < Len(K) /\ p \in 1 .. Len(K) /\ Len(K) = Len(s) /\ Len(s) \in Nat
  BY <1>5, <1>20
<1>21. K \in Seq(Key) /\ u \in Seq(Key)
  BY <1>5
<1>7. PICK q \in 1 .. Len(s) : q = p + 1
  <2>1. p + 1 \in 1 .. Len(s)
    BY <1>6
  <2>. QED BY <2>1
<1>8. PICK k : k = it.nextentry /\ k = K[q] /\ k = s[q].key /\ k \in Key
  BY <1>5, <1>6, <1>7, <1>20
<1>9. TableOf(hash, k) = t /\ Chain(hash.ht[t], k) = s /\ Place(hash.ht[t], k) = q
  <2>1. s = hash.ht[t].table[i] /\ k = s[q].key
    BY <1>5, <1>8
  <2>. QED BY <2>1, KeyPlace
<1>10. w = [table |-> it.table, index |-> it.index, chain |-> s, p |-> q]
  BY <1>8, <1>9 DEF Advance
<1>11. w.table = t /\ w.index = i /\ w.chain = s /\ w.p = q
  BY <1>10, <1>20
<1>13. /\ a.table = t /\ a.index = i
       /\ a.nextentry = IF q < Len(s) THEN s[q + 1].key ELSE NullPtr
       /\ a.seen = Append(it.seen, s[q].key)
  BY <1>11, <1>22
<1>14. a.seen = u \o SubSeq(K, 1, q)
  <2>1. Append(u \o SubSeq(K, 1, p), K[p + 1]) = u \o SubSeq(K, 1, p + 1)
    BY <1>6, <1>21, KeysMore
  <2>. QED BY <1>7, <1>8, <1>13, <1>20, <2>1
<1>15. q \in 1 .. Len(K) /\ a.nextentry = IF q < Len(K) THEN K[q + 1] ELSE NullPtr
  <2>1. q < Len(s) => q + 1 \in 1 .. Len(s)
    BY <1>6
  <2>. QED BY <1>5, <1>13, <2>1
<1>16. OnWay(a, hash)
  BY <1>5, <1>13, <1>14, <1>15, <1>20 DEF OnWay, OnPlace
<1>17. it.nextentry # Freed
  BY <1>8, PointerAssumption
<1>18. s # << >>
  BY <1>5, <1>7, EmptySeq
<1>. QED BY <1>11, <1>12, <1>16, <1>17, <1>18 DEF Ended

(* From a bucket to the next. *)
LEMMA WalkOn ==
  ASSUME Good(hash), NEW it, IterOK(it, hash), it.steady, Behind(it, hash), NEW w, w = Advance(it)
  PROVE  /\ Ended(w) => it.seen = Ordered(hash)
         /\ ~Ended(w) => OnWay(Advanced(it, w), hash)
<1>20. PICK t \in {0, 1} : t = it.table
  BY DEF Behind
<1>21. PICK x : x = it.index
  OBVIOUS
<1>1. /\ t = it.table /\ x = it.index /\ (t = 1 => hash.rehashidx # -1)
      /\ x \in -1 .. hash.ht[t].size - 1
      /\ it.seen = Passed(hash, t, x + 1) /\ it.nextentry = NullPtr
  BY <1>20, <1>21 DEF Behind
<1>2. PICK b : b = NextBucket(hash, t, x)
  OBVIOUS
<1>3. /\ b = Nowhere => Passed(hash, t, x + 1) = Ordered(hash)
      /\ b # Nowhere => /\ b.table \in {0, 1} /\ (b.table = 1 => hash.rehashidx # -1)
                        /\ b.index \in 0 .. hash.ht[b.table].size - 1
                        /\ hash.ht[b.table].table[b.index] # << >>
                        /\ Passed(hash, b.table, b.index) = Passed(hash, t, x + 1)
  BY <1>1, <1>2, BucketNext
<1>4. w = [table |-> b.table, index |-> b.index, p |-> 1,
           chain |-> IF b = Nowhere THEN << >> ELSE hash.ht[b.table].table[b.index]]
  BY <1>1, <1>2 DEF Advance
<1>5. CASE b = Nowhere
  <2>1. w.chain = << >>
    BY <1>4, <1>5
  <2>. QED BY <1>1, <1>3, <1>5, <2>1 DEF Ended
<1>6. CASE b # Nowhere
  <2>20. PICK y \in {0, 1} : y = b.table
    BY <1>3, <1>6
  <2>21. PICK i : i = b.index
    OBVIOUS
  <2>1. y = b.table /\ i = b.index
    BY <2>20, <2>21
  <2>12. i \in 0 .. hash.ht[y].size - 1
    BY <1>3, <1>6, <2>1
  <2>2. PICK s, K, u : InBucket(hash, y, i, s, K, u)
    BY <2>12, BucketKeys
  <2>3. i \in 0 .. hash.ht[y].size - 1 /\ s # << >> /\ it.seen = u /\ (y = 1 => hash.rehashidx # -1)
    BY <1>1, <1>3, <1>6, <2>1, <2>2 DEF InBucket
  <2>4. /\ K = KeysAt(hash, y, i) /\ u = Passed(hash, y, i) /\ s = hash.ht[y].table[i]
        /\ K \in Seq(Key) /\ u \in Seq(Key) /\ Len(s) \in Nat /\ Len(K) = Len(s)
        /\ (K = << >> <=> s = << >>)
        /\ \A q \in 1 .. Len(s) : K[q] = s[q].key
    BY <2>2 DEF InBucket
  <2>5. w.table = y /\ w.index = i /\ w.chain = s /\ w.p = 1
    BY <1>4, <1>6, <2>1, <2>4
  <2>6. PICK a : a = Advanced(it, w)
    OBVIOUS
  <2>7. /\ a.table = y /\ a.index = i
        /\ a.nextentry = IF 1 < Len(s) THEN s[1 + 1].key ELSE NullPtr
        /\ a.seen = Append(it.seen, s[1].key)
    <3>1. /\ a.table = w.table /\ a.index = w.index
          /\ a.nextentry = IF w.p < Len(w.chain) THEN w.chain[w.p + 1].key ELSE NullPtr
          /\ a.seen = Append(it.seen, w.chain[w.p].key)
      BY <2>6, AdvancedAt
    <3>. QED BY <2>5, <3>1
  <2>8. 1 \in 1 .. Len(K) /\ Append(u, K[1]) = u \o SubSeq(K, 1, 1)
    BY <2>3, <2>4, FirstKey
  <2>9. a.seen = u \o SubSeq(K, 1, 1)
    BY <2>3, <2>4, <2>7, <2>8
  <2>10. a.nextentry = IF 1 < Len(K) THEN K[1 + 1] ELSE NullPtr
    <3>1. 1 < Len(s) => 1 + 1 \in 1 .. Len(s)
      BY <2>4
    <3>. QED BY <2>4, <2>7, <3>1
  <2>11. OnWay(a, hash)
    <3>1. OnPlace(a, hash, y, i, 1)
      BY <2>3, <2>4, <2>7, <2>9, <2>10 DEF OnPlace
    <3>2. 1 \in 1 .. Len(KeysAt(hash, y, i))
      BY <2>4, <2>8
    <3>. QED BY <2>12, <3>1, <3>2 DEF OnWay
  <2>. QED BY <2>3, <2>5, <2>6, <2>11 DEF Ended
<1>. QED BY <1>5, <1>6

LEMMA PartIsPrefix ==
  \A u, b, c, r \in Seq(Key) : IsPrefix(u \o b, (u \o (b \o c)) \o r)
<1>. SUFFICES ASSUME NEW u \in Seq(Key), NEW b \in Seq(Key), NEW c \in Seq(Key), NEW r \in Seq(Key)
              PROVE  IsPrefix(u \o b, (u \o (b \o c)) \o r)
  OBVIOUS
<1>1. (u \o b) \o c = u \o (b \o c)
  BY KeysJoined
<1>2. \A x \in Seq(Key) : (x \o c) \o r = x \o (c \o r)
  <2>. SUFFICES ASSUME NEW x \in Seq(Key)
                PROVE  (x \o c) \o r = x \o (c \o r)
    OBVIOUS
  <2>. QED BY KeysJoined
<1>3. u \o b \in Seq(Key) /\ c \o r \in Seq(Key)
  BY KeysJoined, Zenon
<1>4. ((u \o b) \o c) \o r = (u \o b) \o (c \o r)
  BY <1>2, <1>3, Zenon
<1>5. \A x, y \in Seq(Key) : IsPrefix(x, x \o y)
  BY BeginsIsPrefix, Zenon
<1>6. IsPrefix(u \o b, (u \o b) \o (c \o r))
  BY <1>3, <1>5, Zenon
<1>7. IsPrefix(u \o b, ((u \o b) \o c) \o r)
  BY <1>4, <1>6, Zenon
<1>. QED BY <1>1, <1>7, Zenon

(* What has been returned is the beginning of what is to be returned.      *)
LEMMA OnWayBegins ==
  ASSUME NEW d, Good(d), NEW it, OnWay(it, d)
  PROVE  IsPrefix(it.seen, Ordered(d))
<1>1. PICK t \in {0, 1} : \E i \in 0 .. d.ht[t].size - 1 :
              \E p \in 1 .. Len(KeysAt(d, t, i)) : OnPlace(it, d, t, i, p)
  BY DEF OnWay
<1>2. PICK i \in 0 .. d.ht[t].size - 1 :
              \E p \in 1 .. Len(KeysAt(d, t, i)) : OnPlace(it, d, t, i, p)
  BY <1>1
<1>3. PICK p \in 1 .. Len(KeysAt(d, t, i)) : OnPlace(it, d, t, i, p)
  BY <1>2
<1>4. PICK s, K, u : InBucket(d, t, i, s, K, u)
  BY BucketKeys
<1>5. /\ K = KeysAt(d, t, i) /\ u = Passed(d, t, i) /\ s = d.ht[t].table[i]
      /\ K \in Seq(Key) /\ u \in Seq(Key) /\ Len(s) \in Nat /\ Len(K) = Len(s) /\ s \in Seq(Entry)
      /\ \A q \in 1 .. Len(s) : K[q] = s[q].key /\ K[q] \in Key
      /\ Passed(d, t, i + 1) = u \o K
      /\ \E r \in Seq(Key) : Ordered(d) = (u \o K) \o r
  BY <1>4 DEF InBucket
<1>20. /\ p \in 1 .. Len(K) /\ it.table = t /\ it.index = i /\ (t = 1 => d.rehashidx # -1)
       /\ it.seen = u \o SubSeq(K, 1, p)
       /\ it.nextentry = IF p < Len(K) THEN K[p + 1] ELSE NullPtr
  BY <1>3, <1>5 DEF OnPlace
<1>6. PICK r \in Seq(Key) : Ordered(d) = (u \o K) \o r
  BY <1>5
<1>10. PICK b : b = SubSeq(K, 1, p) /\ it.seen = u \o b
  BY <1>20
<1>7. b \in Seq(Key) /\ \E c \in Seq(Key) : K = b \o c
  <2>1. K \in Seq(Key) /\ u \in Seq(Key) /\ p \in 1 .. Len(K)
    BY <1>5, <1>20
  <2>2. /\ SubSeq(K, 1, p) \in Seq(Key)
        /\ \E c \in Seq(Key) : K = SubSeq(K, 1, p) \o c
    BY <2>1, KeysFrom
  <2>. QED BY <1>10, <2>2
<1>8. PICK c \in Seq(Key) : K = b \o c
  BY <1>7
<1>9. PICK o : o = Ordered(d) /\ o = (u \o K) \o r
  BY <1>6
<1>11. u \in Seq(Key) /\ b \in Seq(Key)
  BY <1>5, <1>7
<1>12. IsPrefix(u \o b, (u \o (b \o c)) \o r)
  BY <1>11, PartIsPrefix, Zenon
<1>13. IsPrefix(u \o b, o)
  BY <1>8, <1>9, <1>12, Zenon
<1>14. it.seen = u \o b /\ o = Ordered(d)
  BY <1>9, <1>10
<1>. QED BY <1>13, <1>14, Zenon

(* A new iterator is before the first bucket. *)
LEMMA NewIsBehind ==
  ASSUME Good(hash)
  PROVE  Behind(NewIterator, hash)
<1>1. PICK it : it = NewIterator
  OBVIOUS
<1>2. it.table = 0 /\ it.index = -1 /\ it.nextentry = NullPtr /\ it.seen = << >>
  BY <1>1 DEF NewIterator
<1>3. Passed(hash, 0, 0) = << >>
  BY PassedEnds
<1>4. hash.ht[0].size \in Nat
  BY GoodIs
<1>. QED BY <1>1, <1>2, <1>3, <1>4 DEF Behind

-----------------------------------------------------------------------------
(* A command that leaves the layout as it is leaves the walks theirs.      *)

LEMMA LayoutIs ==
  ASSUME NEW d, NEW c, Layout(c) = Layout(d)
  PROVE  /\ Fingerprint(c) = Fingerprint(d) /\ c.rehashidx = d.rehashidx
         /\ \A t \in {0, 1} : /\ c.ht[t].size = d.ht[t].size
                              /\ KeysOfChains(c.ht[t]) = KeysOfChains(d.ht[t])
<1>1. PICK f, g, a, b, a0, a1, b0, b1 :
        /\ f = Fingerprint(c) /\ g = Fingerprint(d) /\ a = c.rehashidx /\ b = d.rehashidx
        /\ a0 = KeysOfChains(c.ht[0]) /\ a1 = KeysOfChains(c.ht[1])
        /\ b0 = KeysOfChains(d.ht[0]) /\ b1 = KeysOfChains(d.ht[1])
  OBVIOUS
<1>2. <<f, a, a0, a1>> = <<g, b, b0, b1>>
  BY <1>1 DEF Layout
<1>3. f = g /\ a = b /\ a0 = b0 /\ a1 = b1
  BY <1>2
<1>4. c.ht[0].size = d.ht[0].size /\ c.ht[1].size = d.ht[1].size
  <2>1. f[2] = c.ht[0].size /\ f[5] = c.ht[1].size
    BY <1>1 DEF Fingerprint
  <2>2. g[2] = d.ht[0].size /\ g[5] = d.ht[1].size
    BY <1>1 DEF Fingerprint
  <2>. QED BY <1>3, <2>1, <2>2
<1>. QED BY <1>1, <1>3, <1>4

LEMMA LayoutKeeps ==
  ASSUME NEW d, Good(d), NEW c, Good(c), Layout(c) = Layout(d), NEW it, OnWay(it, d)
  PROVE  OnWay(it, c)
<1>1. /\ c.rehashidx = d.rehashidx
      /\ \A t \in {0, 1} : /\ c.ht[t].size = d.ht[t].size
                           /\ KeysOfChains(c.ht[t]) = KeysOfChains(d.ht[t])
  BY LayoutIs
<1>2. \A t \in {0, 1} : \A i : KeysAt(c, t, i) = KeysAt(d, t, i)
  BY <1>1 DEF KeysAt
<1>3. KeysIn(c.ht[0]) = KeysIn(d.ht[0])
  <2>1. PICK h, g : h = c.ht[0] /\ g = d.ht[0] /\ IsChained(h) /\ IsChained(g)
    BY PartsOf
  <2>2. PICK K : K = KeysOfChains(h) /\ K = KeysOfChains(g)
    BY <1>1, <2>1
  <2>3. KeysIn(h) = Upto(K, h.size)
    <3>1. IsChained(h) /\ K = KeysOfChains(h)
      BY <2>1, <2>2
    <3>. QED BY <3>1, KeysOfChainsIs
  <2>4. KeysIn(g) = Upto(K, g.size)
    <3>1. IsChained(g) /\ K = KeysOfChains(g)
      BY <2>1, <2>2
    <3>. QED BY <3>1, KeysOfChainsIs
  <2>5. h.size = g.size
    BY <1>1, <2>1
  <2>. QED BY <2>1, <2>3, <2>4, <2>5
<1>4. \A t \in {0, 1} : \A i : Passed(c, t, i) = Passed(d, t, i)
  <2>1. /\ KeysOfChains(c.ht[0]) = KeysOfChains(d.ht[0])
        /\ KeysOfChains(c.ht[1]) = KeysOfChains(d.ht[1])
    BY <1>1
  <2>. QED BY <1>3, <2>1 DEF Passed
<1>5. PICK t \in {0, 1} : \E i \in 0 .. d.ht[t].size - 1 :
              \E p \in 1 .. Len(KeysAt(d, t, i)) : OnPlace(it, d, t, i, p)
  BY DEF OnWay
<1>6. PICK i \in 0 .. d.ht[t].size - 1 :
              \E p \in 1 .. Len(KeysAt(d, t, i)) : OnPlace(it, d, t, i, p)
  BY <1>5
<1>7. PICK p \in 1 .. Len(KeysAt(d, t, i)) : OnPlace(it, d, t, i, p)
  BY <1>6
<1>8. OnPlace(it, c, t, i, p)
  <2>1. KeysAt(c, t, i) = KeysAt(d, t, i) /\ Passed(c, t, i) = Passed(d, t, i)
    BY <1>2, <1>4
  <2>. QED BY <1>1, <1>7, <2>1 DEF OnPlace
<1>9. i \in 0 .. c.ht[t].size - 1 /\ p \in 1 .. Len(KeysAt(c, t, i))
  BY <1>1, <1>2
<1>. QED BY <1>8, <1>9 DEF OnWay

LEMMA KeyIsListed ==
  ASSUME NEW d, Good(d), NEW k \in Key
  PROVE  IsIn(d, k) <=> \E t \in {0, 1} : \E i \in 0 .. d.ht[t].size - 1 :
                          \E p \in 1 .. Len(KeysAt(d, t, i)) : KeysAt(d, t, i)[p] = k
<1>1. ASSUME IsIn(d, k)
      PROVE  \E t \in {0, 1} : \E i \in 0 .. d.ht[t].size - 1 :
               \E p \in 1 .. Len(KeysAt(d, t, i)) : KeysAt(d, t, i)[p] = k
  <2>1. PICK t \in {0, 1} : Has(d.ht[t], k)
    BY <1>1 DEF IsIn
  <2>2. PICK h : h = d.ht[t] /\ IsChained(h) /\ Sound(SetOfChains(h)) /\ Has(h, k)
    BY <2>1, PartsOf
  <2>3. PICK i, p, c : i = Bucket(k, h) /\ p = Place(h, k) /\ c = Chain(h, k)
    OBVIOUS
  <2>4. /\ i \in 0 .. h.size - 1 /\ c = h.table[i] /\ p \in 1 .. Len(c) /\ c[p].key = k
    BY <2>2, <2>3, SearchIs
  <2>5. i \in 0 .. d.ht[t].size - 1 /\ c = d.ht[t].table[i]
    BY <2>2, <2>4
  <2>6. PICK s, K, u : InBucket(d, t, i, s, K, u)
    BY <2>5, BucketKeys
  <2>7. K = KeysAt(d, t, i) /\ Len(K) = Len(c) /\ K[p] = k
    BY <2>4, <2>5, <2>6 DEF InBucket
  <2>. QED BY <2>4, <2>5, <2>7
<1>2. ASSUME NEW t \in {0, 1}, NEW i \in 0 .. d.ht[t].size - 1,
             NEW p \in 1 .. Len(KeysAt(d, t, i)), KeysAt(d, t, i)[p] = k
      PROVE  IsIn(d, k)
  <2>1. PICK s, K, u : InBucket(d, t, i, s, K, u)
    BY BucketKeys
  <2>2. p \in 1 .. Len(s) /\ s[p].key = k /\ s = d.ht[t].table[i]
    BY <1>2, <2>1 DEF InBucket
  <2>3. \A q \in 1 .. Len(d.ht[t].table[i]) : d.ht[t].table[i][q].key \in {j \in Key : IsIn(d, j)}
    BY ChainIsIn
  <2>. QED BY <2>2, <2>3
<1>. QED BY <1>1, <1>2

LEMMA LayoutIsIn ==
  ASSUME NEW d, Good(d), NEW c, Good(c), Layout(c) = Layout(d), NEW k \in Key, IsIn(d, k)
  PROVE  IsIn(c, k)
<1>1. \A t \in {0, 1} : /\ c.ht[t].size = d.ht[t].size
                        /\ KeysOfChains(c.ht[t]) = KeysOfChains(d.ht[t])
  BY LayoutIs
<1>2. \A t \in {0, 1} : \A i : KeysAt(c, t, i) = KeysAt(d, t, i)
  BY <1>1 DEF KeysAt
<1>3. \E t \in {0, 1} : \E i \in 0 .. d.ht[t].size - 1 :
        \E p \in 1 .. Len(KeysAt(d, t, i)) : KeysAt(d, t, i)[p] = k
  BY KeyIsListed
<1>4. \E t \in {0, 1} : \E i \in 0 .. c.ht[t].size - 1 :
        \E p \in 1 .. Len(KeysAt(c, t, i)) : KeysAt(c, t, i)[p] = k
  BY <1>1, <1>2, <1>3
<1>. QED BY <1>4, KeyIsListed

LEMMA DelLeaves ==
  ASSUME NEW d, Good(d), d.ht[0].size # 0, NEW k \in Key
  PROVE  ~IsIn(Unlinked(Step(d), k), k)
<1>1. PICK x, w : x = Step(d) /\ w = Unlinked(x, k)
  OBVIOUS
<1>2. Good(x) /\ x.ht[0].size > 0
  BY <1>1, StepIs, GoodIs
<1>3. PICK A : A = Abs(x)
  OBVIOUS
<1>4. Good(w) /\ Abs(w) = Unlink(A, k)
  BY <1>1, <1>2, <1>3, UnlinkedIs
<1>5. Consistent(A) /\ A.ht[0].size > 0
  BY <1>2, <1>3, PartsOf, GoodIs
<1>6. Entries(Abs(w)) = {e \in Entries(A) : e.key # k}
  BY <1>4, <1>5, UnlinkConsistent
<1>7. ~IsIn(w, k)
  <2>1. IsIn(w, k) => EntryOf(w, k) \in Entries(Abs(w)) /\ EntryOf(w, k).key = k
    BY <1>4, IsInIs
  <2>. QED BY <1>6, <2>1
<1>. QED BY <1>1, <1>7

(* A steady iterator is on its way, and the fingerprint it took is that of *)
(* the dictionary now.                                                     *)
Steady(it, d) == it.steady => it.fingerprint = Fingerprint(d) /\ OnWay(it, d)

LEMMA UnderSteady ==
  ASSUME Good(hash), NEW d, Good(d), NEW it, IterOK(it, hash), it # NullPtr, Steady(it, hash),
         NEW gone, \A k \in gone : k \in KeySet /\ ~IsIn(d, k)
  PROVE  /\ Steady(Under(it, d, gone), d)
         /\ Under(it, d, gone).fingerprint = it.fingerprint
<1> DEFINE steady == it.steady /\ Layout(d) = Layout(hash)
           seen   == IF steady THEN it.seen ELSE << >>
           next   == IF it.nextentry \in gone THEN Freed ELSE it.nextentry
<1>1. PICK u : u = Under(it, d, gone)
  OBVIOUS
<1>2. u = [it EXCEPT !.steady = steady, !.seen = seen, !.nextentry = next]
  BY <1>1 DEF Under
<1>3. /\ u.table = it.table /\ u.index = it.index /\ u.nextentry = next
      /\ u.fingerprint = it.fingerprint /\ u.seen = seen /\ u.steady = steady
  <2>. HIDE DEF steady, seen, next
  <2>1. u = [table |-> it.table, index |-> it.index, nextentry |-> next,
             fingerprint |-> it.fingerprint, seen |-> seen, steady |-> steady]
    BY <1>2 DEF IterOK
  <2>. QED BY <2>1
<1>4. ASSUME steady PROVE u.fingerprint = Fingerprint(d) /\ OnWay(u, d)
  <2>1. it.steady /\ Layout(d) = Layout(hash)
    BY <1>4
  <2>2. it.fingerprint = Fingerprint(hash) /\ OnWay(it, hash)
    BY <2>1 DEF Steady
  <2>3. Fingerprint(d) = Fingerprint(hash)
    BY <2>1, LayoutIs
  <2>4. it.nextentry \notin gone
    <3>1. ASSUME it.nextentry \in gone PROVE FALSE
      <4>1. PICK k \in Key : k = it.nextentry /\ IsIn(hash, k) /\ ~IsIn(d, k)
        BY <3>1 DEF KeySet
      <4>. QED BY <2>1, <4>1, LayoutIsIn
    <3>. QED BY <3>1
  <2>5. OnWay(it, d)
    BY <2>1, <2>2, LayoutKeeps
  <2>6. u.nextentry = it.nextentry /\ u.seen = it.seen
    BY <1>3, <1>4, <2>4
  <2>7. OnWay(u, d)
    <3>1. \A t, i, p : OnPlace(u, d, t, i, p) <=> OnPlace(it, d, t, i, p)
      BY <1>3, <2>6 DEF OnPlace
    <3>. QED BY <2>5, <3>1 DEF OnWay
  <2>. QED BY <1>3, <2>2, <2>3, <2>7
<1>. HIDE DEF steady, seen, next
<1>. QED BY <1>1, <1>3, <1>4 DEF Steady

-----------------------------------------------------------------------------
(* Addresses: a table is where it was allocated, or nowhere.               *)

Addressed(d) == d.ht[0].addr \in Address /\ d.ht[1].addr \in Address

LEMMA NoTableAddress == NoTable.addr \in Address
BY DEF NoTable, Address

LEMMA TableAddressIs ==
  ASSUME NEW t0, NEW t1, NEW idx, t0.addr \in Address, t1.addr \in Address
  PROVE  Addressed(HashDict(t0, t1, idx))
BY HashDictIs DEF Addressed

LEMMA StepAddress ==
  ASSUME NEW d, Good(d), Addressed(d)
  PROVE  Addressed(Step(d))
<1>1. CASE d.rehashidx = -1
  BY <1>1 DEF Step
<1>2. CASE d.rehashidx # -1 /\ d.ht[0].used = 0
  <2>1. Step(d) = HashDict(d.ht[1], NoTable, -1)
    BY <1>2 DEF Step, Finished
  <2>. QED BY <2>1, NoTableAddress, TableAddressIs DEF Addressed
<1>3. CASE d.rehashidx # -1 /\ d.ht[0].used # 0
  <2>1. PICK h0, h1, x : /\ Step(d) = HashDict(h0, h1, x)
                         /\ h0.addr = d.ht[0].addr /\ h1.addr = d.ht[1].addr
    BY <1>3, StepMoves
  <2>. QED BY <2>1, TableAddressIs DEF Addressed
<1>. QED BY <1>1, <1>2, <1>3

LEMMA ExpandedAddress ==
  ASSUME NEW d, Addressed(d), NEW addr \in TableAddress
  PROVE  Addressed(Expanded(d, addr))
<1>1. PICK n : n = Table(addr, _dictNextPower(WantedSize(d)))
  OBVIOUS
<1>2. n.addr \in Address
  BY <1>1 DEF Table, Address
<1>3. Expanded(d, addr) \in {d, HashDict(n, d.ht[1], d.rehashidx), HashDict(d.ht[0], n, 0)}
  BY <1>1 DEF Expanded
<1>4. d.ht[0].addr \in Address /\ d.ht[1].addr \in Address
  BY DEF Addressed
<1>5. Addressed(HashDict(n, d.ht[1], d.rehashidx)) /\ Addressed(HashDict(d.ht[0], n, 0))
  BY <1>2, <1>4, TableAddressIs
<1>. QED BY <1>3, <1>5

LEMMA WithTableAddress ==
  ASSUME NEW d, Addressed(d), NEW t \in {0, 1}, NEW h, h.addr = d.ht[t].addr
  PROVE  Addressed(WithTable(d, t, h))
<1>1. d.ht[0].addr \in Address /\ d.ht[1].addr \in Address /\ h.addr \in Address
  BY DEF Addressed
<1>2. CASE t = 0
  <2>1. WithTable(d, t, h) = HashDict(h, d.ht[1], d.rehashidx)
    BY <1>2 DEF WithTable
  <2>. QED BY <1>1, <2>1, TableAddressIs
<1>3. CASE t = 1
  <2>1. WithTable(d, t, h) = HashDict(d.ht[0], h, d.rehashidx)
    BY <1>3 DEF WithTable
  <2>. QED BY <1>1, <2>1, TableAddressIs
<1>. QED BY <1>2, <1>3

LEMMA OnChainAddress ==
  ASSUME NEW d, Addressed(d), NEW k, NEW chain, NEW n
  PROVE  Addressed(OnChain(d, k, chain, n))
<1>1. PICK t \in {0, 1} : t = TableOf(d, k)
  BY DEF TableOf
<1>2. PICK h : h = WithChain(d.ht[t], Bucket(k, d.ht[t]), chain, n)
  OBVIOUS
<1>3. h.addr = d.ht[t].addr
  BY <1>2 DEF WithChain
<1>4. OnChain(d, k, chain, n) = WithTable(d, t, h)
  BY <1>1, <1>2 DEF OnChain
<1>. QED BY <1>3, <1>4, WithTableAddress

LEMMA InsertedAddress ==
  ASSUME NEW d, Addressed(d), NEW e
  PROVE  Addressed(Inserted(d, e))
<1>1. PICK t \in {0, 1} : t = IF d.rehashidx = -1 THEN 0 ELSE 1
  OBVIOUS
<1>2. PICK h : h = Linked(d.ht[t], e)
  OBVIOUS
<1>3. h.addr = d.ht[t].addr
  BY <1>2 DEF Linked, WithChain
<1>4. Inserted(d, e) = WithTable(d, t, h)
  BY <1>1, <1>2 DEF Inserted
<1>. QED BY <1>3, <1>4, WithTableAddress

LEMMA ReplacedAddress ==
  ASSUME NEW d, Good(d), Addressed(d), NEW k, NEW v, NEW addr \in TableAddress
  PROVE  Addressed(Replaced(d, k, v, addr))
<1>1. PICK z : z = Step(d)
  OBVIOUS
<1>2. PICK x : x = Expanded(z, addr)
  OBVIOUS
<1>3. PICK y : y = Step(x)
  OBVIOUS
<1>4. Good(z) /\ Addressed(z)
  BY <1>1, StepIs, StepAddress
<1>5. Good(x) /\ Addressed(x)
  BY <1>2, <1>4, ExpandedIs, ExpandedAddress
<1>6. Addressed(y)
  BY <1>3, <1>5, StepAddress
<1>7. PICK e : e = [key |-> k, v |-> v]
  OBVIOUS
<1>8. Replaced(d, k, v, addr) = IF ~IsIn(x, k) THEN Inserted(x, e)
                                ELSE OnChain(y, k, [ChainOf(y, k) EXCEPT ![At(y, k)] = e], 0)
  BY <1>1, <1>2, <1>3, <1>7 DEF Replaced
<1>. QED BY <1>5, <1>6, <1>8, InsertedAddress, OnChainAddress

LEMMA SearchedAddress ==
  ASSUME NEW d, Good(d), Addressed(d)
  PROVE  Addressed(Searched(d))
BY StepAddress DEF Searched

LEMMA DeletedAddress ==
  ASSUME NEW d, Good(d), Addressed(d), NEW k
  PROVE  Addressed(Unlinked(Step(d), k))
BY StepAddress, OnChainAddress DEF Unlinked

LEMMA FingerprintIs ==
  ASSUME NEW d, Good(d), Addressed(d)
  PROVE  Fingerprint(d) \in Seq(Address \cup Nat)
<1>1. PICK T : T = Address \cup Nat
  OBVIOUS
<1>2. PICK a \in T, b \in T, c \in T, x \in T, y \in T, z \in T :
        /\ a = d.ht[0].addr /\ b = d.ht[0].size /\ c = d.ht[0].used
        /\ x = d.ht[1].addr /\ y = d.ht[1].size /\ z = d.ht[1].used
  BY <1>1, GoodIs DEF Addressed
<1>3. <<a, b, c, x, y, z>> \in Seq(T)
  OBVIOUS
<1>. QED BY <1>1, <1>2, <1>3 DEF Fingerprint

-----------------------------------------------------------------------------
(* The inductive invariant of the walks.                                   *)

LEMMA IteratorIs ==
  ASSUME NEW it, NEW d, IterOK(it, d), it.fingerprint \in Seq(Address \cup Nat)
  PROVE  it \in Iterator /\ it # NullPtr
<1>1. it.nextentry \in Key \cup {NullPtr, Freed}
  BY DEF IterOK
<1>2. it \in Iterator
  BY <1>1 DEF IterOK, Iterator
<1>. QED BY <1>2, PointerAssumption

LEMMA AdvancedKeeps ==
  ASSUME NEW it, IterOK(it, hash), NEW w
  PROVE  Advanced(it, w).fingerprint = it.fingerprint /\ Advanced(it, w).steady = it.steady
<1> DEFINE next == IF w.p < Len(w.chain) THEN w.chain[w.p + 1].key ELSE NullPtr
           seen == IF it.steady THEN Append(it.seen, w.chain[w.p].key) ELSE it.seen
<1>1. Advanced(it, w) = [it EXCEPT !.table = w.table, !.index = w.index,
                                   !.nextentry = next, !.seen = seen]
  BY DEF Advanced
<1>. HIDE DEF next, seen
<1>2. Advanced(it, w) =
        [table |-> w.table, index |-> w.index, nextentry |-> next,
         fingerprint |-> it.fingerprint, seen |-> seen, steady |-> it.steady]
  BY <1>1 DEF IterOK
<1>. QED BY <1>2

(* What a call of _HashIter meets on a steady walk, the first one included. *)
Ready(it, d) == it.steady => /\ it.fingerprint = Fingerprint(d)
                             /\ OnWay(it, d) \/ Behind(it, d)

LEMMA NewIsReady ==
  ASSUME Good(hash), Addressed(hash)
  PROVE  /\ IterOK(NewIterator, hash) /\ Ready(NewIterator, hash)
         /\ NewIterator.fingerprint \in Seq(Address \cup Nat)
<1>1. NewIterator.fingerprint = Fingerprint(hash)
  BY DEF NewIterator
<1>. QED BY <1>1, NewIsOK, NewIsBehind, FingerprintIs DEF Ready

LEMMA WalkStep ==
  ASSUME Good(hash), NEW it, IterOK(it, hash), it.steady, OnWay(it, hash) \/ Behind(it, hash),
         NEW at, at = Advance(it)
  PROVE  /\ it.nextentry # Freed
         /\ Ended(at) => it.seen = Ordered(hash)
         /\ ~Ended(at) => OnWay(Advanced(it, at), hash)
<1>1. CASE Behind(it, hash)
  <2>1. it.nextentry = NullPtr
    BY <1>1 DEF Behind
  <2>2. it.nextentry # Freed
    BY <2>1, PointerAssumption
  <2>. QED BY <1>1, <2>2, WalkOn
<1>2. CASE OnWay(it, hash) /\ it.nextentry = NullPtr
  BY <1>1, <1>2, OnWayBehind
<1>3. CASE OnWay(it, hash) /\ it.nextentry # NullPtr
  BY <1>3, WalkAlong
<1>. QED BY <1>1, <1>2, <1>3

(* A walk whose iterator is steady is where its history says it is.        *)
WInv ==
  /\ IInv
  /\ Addressed(hash)
  /\ \A w \in Walk : iter[w] # NullPtr => /\ iter[w].fingerprint \in Seq(Address \cup Nat)
                                          /\ Steady(iter[w], hash)

LEMMA WInvBecomes ==
  ASSUME WInv, NEW d, NEW gone, Becomes(d, gone), Good(d), Addressed(d),
         \A k \in Key : IsIn(hash, k) => IsIn(d, k) \/ k \in gone,
         \A k \in gone : k \in KeySet /\ ~IsIn(d, k)
  PROVE  WInv'
<1>1. IInv' /\ hash' = d /\ iter' = [w \in Walk |-> Under(iter[w], d, gone)]
  BY IInvBecomes DEF WInv, Becomes
<1>2. ASSUME NEW w \in Walk, iter'[w] # NullPtr
      PROVE  iter'[w].fingerprint \in Seq(Address \cup Nat) /\ Steady(iter'[w], d)
  <2>1. PICK it : it = iter[w]
    OBVIOUS
  <2>2. iter'[w] = Under(it, d, gone)
    BY <1>1, <2>1
  <2>3. it # NullPtr
    BY <1>2, <2>2 DEF Under
  <2>4. Good(hash) /\ IterOK(it, hash)
    BY <2>1, <2>3 DEF WInv, IInv
  <2>5. it.fingerprint \in Seq(Address \cup Nat) /\ Steady(it, hash)
    BY <2>1, <2>3 DEF WInv
  <2>6. /\ Steady(Under(it, d, gone), d)
        /\ Under(it, d, gone).fingerprint = it.fingerprint
    BY <2>3, <2>4, <2>5, UnderSteady
  <2>. QED BY <2>2, <2>5, <2>6
<1>. QED BY <1>1, <1>2 DEF WInv

(* A call of _HashIter on iterator it, a new one or the one kept. *)
LEMMA WalkCall ==
  ASSUME WInv, NEW w \in Walk, _HashIter(w)
  PROVE  \E it, at : /\ it = IF iter[w] = NullPtr THEN NewIterator ELSE iter[w]
                     /\ at = Advance(it) /\ IterOK(it, hash) /\ Ready(it, hash)
                     /\ it.fingerprint \in Seq(Address \cup Nat)
                     /\ hash' = hash /\ failed = "no"
                     /\ \/ /\ it.nextentry = Freed
                           /\ iter' = iter /\ failed' = "undefined"
                        \/ /\ it.nextentry # Freed /\ ~Ended(at) /\ failed' = failed
                           /\ iter' = [iter EXCEPT ![w] = Advanced(it, at)]
                        \/ /\ it.nextentry # Freed /\ Ended(at) /\ it.fingerprint = Fingerprint(hash)
                           /\ iter' = [iter EXCEPT ![w] = NullPtr] /\ failed' = failed
                        \/ /\ it.nextentry # Freed /\ Ended(at) /\ it.fingerprint # Fingerprint(hash)
                           /\ iter' = iter /\ failed' = "assert"
<1>1. PICK it, at : it = (IF iter[w] = NullPtr THEN NewIterator ELSE iter[w]) /\ at = Advance(it)
  OBVIOUS
<1>2. IterOK(it, hash) /\ Ready(it, hash) /\ it.fingerprint \in Seq(Address \cup Nat)
  <2>1. CASE iter[w] = NullPtr
    BY <1>1, <2>1, NewIsReady DEF WInv, IInv
  <2>2. CASE iter[w] # NullPtr
    <3>1. it = iter[w] /\ IterOK(it, hash)
      BY <1>1, <2>2 DEF WInv, IInv
    <3>2. it.fingerprint \in Seq(Address \cup Nat) /\ Steady(it, hash)
      BY <2>2, <3>1 DEF WInv
    <3>. QED BY <3>1, <3>2 DEF Ready, Steady
  <2>. QED BY <2>1, <2>2
<1>3. /\ hash' = hash /\ failed = "no"
      /\ \/ /\ it.nextentry = Freed
            /\ iter' = iter /\ failed' = "undefined"
         \/ /\ it.nextentry # Freed /\ ~Ended(at) /\ failed' = failed
            /\ iter' = [iter EXCEPT ![w] = Advanced(it, at)]
         \/ /\ it.nextentry # Freed /\ Ended(at) /\ it.fingerprint = Fingerprint(hash)
            /\ iter' = [iter EXCEPT ![w] = NullPtr] /\ failed' = failed
         \/ /\ it.nextentry # Freed /\ Ended(at) /\ it.fingerprint # Fingerprint(hash)
            /\ iter' = iter /\ failed' = "assert"
  BY <1>1 DEF _HashIter
<1>. QED BY <1>1, <1>2, <1>3

(* The iterator such a call leaves. *)
LEMMA WalkLeaves ==
  ASSUME Good(hash), NEW it, IterOK(it, hash), Ready(it, hash), it.nextentry # Freed,
         it.fingerprint \in Seq(Address \cup Nat), NEW at, at = Advance(it), ~Ended(at),
         NEW a, a = Advanced(it, at)
  PROVE  /\ IterOK(a, hash) /\ Steady(a, hash) /\ a # NullPtr
         /\ a.fingerprint \in Seq(Address \cup Nat) /\ a.steady = it.steady
<1>1. IterOK(a, hash)
  BY AdvanceIs, AdvancedIs
<1>2. a.fingerprint = it.fingerprint /\ a.steady = it.steady
  BY AdvancedKeeps
<1>3. Steady(a, hash)
  <2>1. ASSUME a.steady PROVE OnWay(a, hash) /\ it.fingerprint = Fingerprint(hash)
    <3>1. it.steady
      BY <1>2, <2>1
    <3>2. (OnWay(it, hash) \/ Behind(it, hash)) /\ it.fingerprint = Fingerprint(hash)
      BY <3>1 DEF Ready
    <3>. QED BY <3>1, <3>2, WalkStep
  <2>. QED BY <1>2, <2>1 DEF Steady
<1>4. a # NullPtr
  BY <1>1, <1>2, IteratorIs
<1>. QED BY <1>1, <1>2, <1>3, <1>4

LEMMA WalkKeeps ==
  ASSUME WInv, NEW w \in Walk, _HashIter(w), IInv'
  PROVE  WInv'
<1>1. PICK it, at : /\ at = Advance(it) /\ IterOK(it, hash) /\ Ready(it, hash)
                    /\ it.fingerprint \in Seq(Address \cup Nat) /\ hash' = hash
                    /\ \/ iter' = iter
                       \/ iter' = [iter EXCEPT ![w] = NullPtr]
                       \/ /\ it.nextentry # Freed /\ ~Ended(at)
                          /\ iter' = [iter EXCEPT ![w] = Advanced(it, at)]
  BY WalkCall
<1>2. Good(hash) /\ Addressed(hash) /\ iter = [x \in Walk |-> iter[x]]
  BY DEF WInv, IInv
<1>3. \A x \in Walk : iter[x] # NullPtr => /\ iter[x].fingerprint \in Seq(Address \cup Nat)
                                           /\ Steady(iter[x], hash)
  BY DEF WInv
<1>4. \A x \in Walk : iter'[x] # NullPtr => /\ iter'[x].fingerprint \in Seq(Address \cup Nat)
                                            /\ Steady(iter'[x], hash)
  <2>1. CASE iter' = iter
    BY <1>3, <2>1
  <2>2. CASE iter' = [iter EXCEPT ![w] = NullPtr]
    BY <1>2, <1>3, <2>2
  <2>3. CASE /\ it.nextentry # Freed /\ ~Ended(at)
             /\ iter' = [iter EXCEPT ![w] = Advanced(it, at)]
    <3>1. PICK a : a = Advanced(it, at)
      OBVIOUS
    <3>2. Steady(a, hash) /\ a.fingerprint \in Seq(Address \cup Nat)
      BY <1>1, <1>2, <2>3, <3>1, WalkLeaves
    <3>3. \A x \in Walk : iter'[x] = IF x = w THEN a ELSE iter[x]
      BY <1>2, <2>3, <3>1
    <3>. QED BY <1>3, <3>2, <3>3
  <2>. QED BY <1>1, <2>1, <2>2, <2>3
<1>. QED BY <1>1, <1>2, <1>4 DEF WInv

LEMMA WalksInductive == WInv /\ [Next]_vars => WInv'
<1>1. SUFFICES ASSUME WInv, [Next]_vars PROVE WInv'
  OBVIOUS
<1>2. IInv' /\ Good(hash) /\ Addressed(hash)
  BY <1>1, Inductive DEF WInv, IInv
<1>3. ASSUME NEW k \in Key, HashGet(k) PROVE WInv'
  <2>1. PICK d : d = Searched(hash)
    OBVIOUS
  <2>2. Becomes(d, {}) /\ Good(d) /\ Addressed(d)
    BY <1>2, <1>3, <2>1, SearchedIs, SearchedAddress DEF HashGet
  <2>3. \A j \in Key : IsIn(hash, j) => IsIn(d, j)
    BY <1>2, <2>1, GetKeeps
  <2>. QED BY <1>1, <2>2, <2>3, WInvBecomes
<1>4. ASSUME NEW k \in Key, HashDel(k) PROVE WInv'
  <2>1. CASE hash.ht[0].size = 0
    <3>1. Becomes(hash, {})
      BY <1>4, <2>1 DEF HashDel
    <3>. QED BY <1>1, <1>2, <3>1, WInvBecomes
  <2>2. CASE hash.ht[0].size # 0
    <3>1. PICK d, gone : d = Unlinked(Step(hash), k) /\ gone = KeySet \cap {k}
      OBVIOUS
    <3>2. Becomes(d, gone) /\ Good(d) /\ Addressed(d)
      BY <1>2, <1>4, <2>2, <3>1, DeletedIs, DeletedAddress DEF HashDel
    <3>3. \A j \in Key : IsIn(hash, j) => IsIn(d, j) \/ j \in gone
      BY <1>2, <2>2, <3>1, DelKeeps DEF KeySet
    <3>4. \A j \in gone : j \in KeySet /\ ~IsIn(d, j)
      BY <1>2, <2>2, <3>1, DelLeaves
    <3>. QED BY <1>1, <3>2, <3>3, <3>4, WInvBecomes
  <2>. QED BY <2>1, <2>2
<1>5. ASSUME NEW k \in Key, NEW v \in Value, HashSet(k, v) PROVE WInv'
  <2>1. PICK addr \in TableAddress : Becomes(Replaced(hash, k, v, addr), {})
    BY <1>5 DEF HashSet
  <2>2. PICK d : d = Replaced(hash, k, v, addr)
    OBVIOUS
  <2>3. Good(d) /\ Addressed(d)
    BY <1>2, <2>2, ReplacedIs, ReplacedAddress
  <2>4. \A j \in Key : IsIn(hash, j) => IsIn(d, j)
    BY <1>2, <2>2, SetKeeps
  <2>. QED BY <1>1, <2>1, <2>2, <2>3, <2>4, WInvBecomes
<1>6. ASSUME NEW w \in Walk, _HashIter(w) PROVE WInv'
  BY <1>1, <1>2, <1>6, WalkKeeps
<1>7. CASE UNCHANGED vars
  BY <1>1, <1>2, <1>7 DEF WInv, vars
<1>. QED BY <1>1, <1>3, <1>4, <1>5, <1>6, <1>7 DEF Next

LEMMA InitWInv == Init => WInv
<1>1. SUFFICES ASSUME Init PROVE WInv
  OBVIOUS
<1>2. hash = HashDict(NoTable, NoTable, -1) /\ \A w \in Walk : iter[w] = NullPtr
  BY <1>1 DEF Init
<1>3. Addressed(hash)
  BY <1>2, NoTableAddress, TableAddressIs
<1>. QED BY <1>1, <1>2, <1>3, InitIInv DEF WInv

LEMMA WInvTypeOK == WInv => TypeOK
<1>1. SUFFICES ASSUME WInv PROVE TypeOK
  OBVIOUS
<1>2. ASSUME hash.rehashidx # -1
      PROVE  /\ hash.ht[0].size > 0 /\ hash.ht[1].size > 0
             /\ hash.rehashidx \in 0 .. hash.ht[0].size
  <2>1. Good(hash)
    BY <1>1 DEF WInv, IInv
  <2>2. PICK A : A = Abs(hash)
    OBVIOUS
  <2>3. /\ Rehashing(A) /\ Consistent(A) /\ A.rehashidx = hash.rehashidx
        /\ A.ht[0].size = hash.ht[0].size /\ A.ht[1].size = hash.ht[1].size
        /\ hash.rehashidx \in Nat /\ hash.ht[0].size \in Nat
    BY <1>2, <2>1, <2>2, AbsIs, GoodIs DEF Good
  <2>. QED BY <2>3 DEF Consistent, Drained
<1>3. ASSUME NEW w \in Walking PROVE iter[w] \in Iterator
  <2>1. PICK it : it = iter[w]
    OBVIOUS
  <2>2. IterOK(it, hash) /\ it.fingerprint \in Seq(Address \cup Nat)
    BY <1>1, <2>1 DEF WInv, IInv, Walking
  <2>. QED BY <2>1, <2>2, IteratorIs
<1>4. failed \in {"no", "assert", "undefined"}
  BY <1>1 DEF WInv, IInv
<1>. QED BY <1>2, <1>3, <1>4 DEF TypeOK

LEMMA InOrderIs == InOrder = Ordered(hash)
BY DEF InOrder, Ordered

LEMMA SteadyCall ==
  ASSUME WInv, NEW w \in Walking, iter[w].steady, _HashIter(w)
  PROVE  /\ failed' = "no"
         /\ IF iter'[w] = NullPtr THEN iter[w].seen = InOrder
            ELSE IsPrefix(iter'[w].seen, InOrder)
<1>1. w \in Walk /\ iter[w] # NullPtr /\ Good(hash) /\ iter = [x \in Walk |-> iter[x]]
  BY DEF Walking, WInv, IInv
<1>2. PICK it, at :
        /\ it = IF iter[w] = NullPtr THEN NewIterator ELSE iter[w]
        /\ at = Advance(it) /\ IterOK(it, hash) /\ Ready(it, hash)
        /\ it.fingerprint \in Seq(Address \cup Nat)
        /\ hash' = hash /\ failed = "no"
        /\ \/ /\ it.nextentry = Freed
              /\ iter' = iter /\ failed' = "undefined"
           \/ /\ it.nextentry # Freed /\ ~Ended(at) /\ failed' = failed
              /\ iter' = [iter EXCEPT ![w] = Advanced(it, at)]
           \/ /\ it.nextentry # Freed /\ Ended(at) /\ it.fingerprint = Fingerprint(hash)
              /\ iter' = [iter EXCEPT ![w] = NullPtr] /\ failed' = failed
           \/ /\ it.nextentry # Freed /\ Ended(at) /\ it.fingerprint # Fingerprint(hash)
              /\ iter' = iter /\ failed' = "assert"
  BY <1>1, WalkCall
<1>3. it = iter[w] /\ it.steady
  BY <1>1, <1>2
<1>4. it.fingerprint = Fingerprint(hash) /\ (OnWay(it, hash) \/ Behind(it, hash))
  BY <1>2, <1>3 DEF Ready
<1>5. /\ it.nextentry # Freed
      /\ Ended(at) => it.seen = Ordered(hash)
      /\ ~Ended(at) => OnWay(Advanced(it, at), hash)
  <2>1. at = Advance(it) /\ IterOK(it, hash)
    BY <1>2
  <2>. QED BY <1>1, <1>3, <1>4, <2>1, WalkStep
<1>6. CASE Ended(at)
  <2>1. iter' = [iter EXCEPT ![w] = NullPtr] /\ failed' = "no"
    BY <1>2, <1>4, <1>5, <1>6
  <2>2. iter'[w] = NullPtr
    BY <1>1, <2>1
  <2>. QED BY <1>3, <1>5, <1>6, <2>1, <2>2, InOrderIs
<1>7. CASE ~Ended(at)
  <2>1. iter' = [iter EXCEPT ![w] = Advanced(it, at)] /\ failed' = "no"
    BY <1>2, <1>5, <1>7
  <2>2. PICK a : a = Advanced(it, at)
    OBVIOUS
  <2>3. iter'[w] = a
    BY <1>1, <2>1, <2>2
  <2>4. a # NullPtr
    <3>1. at = Advance(it) /\ IterOK(it, hash) /\ Ready(it, hash) /\ it.fingerprint \in Seq(Address \cup Nat)
      BY <1>2
    <3>. QED BY <1>1, <1>5, <1>7, <2>2, <3>1, WalkLeaves
  <2>5. IsPrefix(a.seen, Ordered(hash))
    BY <1>1, <1>5, <1>7, <2>2, OnWayBegins
  <2>. QED BY <2>1, <2>3, <2>4, <2>5, InOrderIs
<1>. QED BY <1>6, <1>7

-----------------------------------------------------------------------------
(* The theorems about the walks. *)

LEMMA WalksHold == Spec => []WInv
BY InitWInv, WalksInductive, PTL DEF Spec

(* The iterators of a hash stay where they can be: the entry one of them   *)
(* is to return next is a key, nullptr, or an entry that was deleted.      *)
THEOREM TypeCorrect == Spec => []TypeOK
<1>. QED BY WalksHold, WInvTypeOK, PTL

(* object.h:221-225: while the layout of the dictionary stays what it was, *)
(* wherever a rehash stands, dictNext returns the keys of both tables      *)
(* bucket by bucket and chain by chain, and ends after the last, with the  *)
(* fingerprint it began with.                                              *)
THEOREM SteadyWalksAreComplete == Spec => SteadyWalksReturnAll
<1>1. WInv => [\A w \in Walking : iter[w].steady /\ _HashIter(w) =>
                 /\ failed' = "no"
                 /\ IF iter'[w] = NullPtr THEN iter[w].seen = InOrder
                    ELSE IsPrefix(iter'[w].seen, InOrder)]_vars
  BY SteadyCall
<1>. QED BY <1>1, WalksHold, PTL DEF SteadyWalksReturnAll
=============================================================================
