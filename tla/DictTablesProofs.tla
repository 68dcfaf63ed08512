-------------------------- MODULE DictTablesProofs --------------------------
(***************************************************************************)
(* What the functions of DictTables do to a consistent dict object, for    *)
(* every set of keys and values, every hash function and every table size. *)
(***************************************************************************)
EXTENDS DictTables, Sequences, FiniteSetTheorems, SequenceTheorems, TLAPS

-----------------------------------------------------------------------------
(* Numbers and sequences. *)

(* A non-empty set of natural numbers has a least element. *)
LEMMA LeastNat ==
  ASSUME NEW S \in SUBSET Nat, S # {}
  PROVE  \E x \in S : \A y \in S : x <= y
<1> DEFINE T == {1 .. i : i \in S}
<1>1. T \subseteq FiniteSubsetsOf(Nat)
  <2>1. \A i \in S : IsFiniteSet(1 .. i)
    BY FS_Interval
  <2>2. \A i \in S : 1 .. i \in SUBSET Nat
    OBVIOUS
  <2>. QED BY <2>1, <2>2 DEF FiniteSubsetsOf
<1>2. T # {}
  OBVIOUS
<1>3. PICK t \in T : \A u \in T : <<u, t>> \notin StrictSubsetOrdering(Nat)
  <2>. HIDE DEF T
  <2>. QED BY <1>1, <1>2, FS_StrictSubsetOrderingWellFounded, WFMin
<1>4. PICK x \in S : t = 1 .. x
  OBVIOUS
<1>5. ASSUME NEW y \in S, y < x PROVE FALSE
  <2>1. x \in 1 .. x /\ x \notin 1 .. y
    BY <1>5
  <2>2. <<1 .. y, t>> \in StrictSubsetOrdering(Nat)
    BY <1>4, <1>5, <2>1 DEF StrictSubsetOrdering
  <2>. QED BY <1>3, <2>2
<1>. QED BY <1>5

(* Quotient and remainder are determined by what they make up. *)
LEMMA Division ==
  ASSUME NEW n \in Nat, NEW d \in Nat \ {0}
  PROVE  /\ n \div d \in Nat /\ n % d \in 0 .. d - 1
         /\ n = ((n \div d) * d) + (n % d)
OBVIOUS

LEMMA QuotientIs ==
  ASSUME NEW d \in Nat \ {0}, NEW q \in Int, NEW r \in 0 .. d - 1, NEW p \in Int, NEW s \in 0 .. d - 1,
         q * d + r = p * d + s
  PROVE  q = p /\ r = s
<1>1. (q - p) * d = s - r
  OBVIOUS
<1>2. PICK e \in Int : e = q - p
  OBVIOUS
<1>3. e * d = s - r
  BY <1>1, <1>2
<1>4. CASE e >= 1
  <2>1. e * d >= d
    BY <1>4
  <2>. QED BY <2>1, <1>3
<1>5. CASE e <= -1
  <2>1. e * d <= -d
    BY <1>5
  <2>. QED BY <2>1, <1>3
<1>6. CASE e = 0
  <2>1. e * d = 0
    BY <1>6
  <2>. QED BY <2>1, <1>3, <1>2, <1>6
<1>. QED BY <1>4, <1>5, <1>6

LEMMA ModAdd ==
  ASSUME NEW n \in Nat, NEW d \in Nat \ {0}
  PROVE  (n + d) % d = n % d
<1>1. n = ((n \div d) * d) + (n % d) /\ n % d \in 0 .. d - 1 /\ n \div d \in Nat
  BY Division
<1>2. n + d = (((n + d) \div d) * d) + ((n + d) % d) /\ (n + d) % d \in 0 .. d - 1 /\ (n + d) \div d \in Nat
  BY Division, n + d \in Nat
<1>3. PICK q, p, r, s : q = n \div d /\ p = (n + d) \div d /\ r = n % d /\ s = (n + d) % d
  OBVIOUS
<1>4. q \in Nat /\ p \in Nat /\ r \in 0 .. d - 1 /\ s \in 0 .. d - 1 /\ n = q * d + r /\ n + d = p * d + s
  BY <1>1, <1>2, <1>3
<1>5. (q + 1) * d + r = p * d + s
  BY <1>4
<1>6. r = s
  BY <1>4, <1>5, QuotientIs
<1>. QED BY <1>3, <1>6

(* A concatenation, element by element. *)
LEMMA ConcatIs ==
  ASSUME NEW S, NEW u \in Seq(S), NEW v \in Seq(S)
  PROVE  /\ u \o v \in Seq(S) /\ Len(u \o v) = Len(u) + Len(v)
         /\ \A i \in 1 .. Len(u) : (u \o v)[i] = u[i]
         /\ \A i \in 1 .. Len(v) : (u \o v)[i + Len(u)] = v[i]
<1>1. /\ u \o v \in Seq(S) /\ Len(u \o v) = Len(u) + Len(v)
      /\ \A i \in 1 .. Len(u) + Len(v) : (u \o v)[i] = IF i <= Len(u) THEN u[i] ELSE v[i - Len(u)]
  BY ConcatProperties
<1>2. PICK a \in Nat : a = Len(u)
  BY LenProperties
<1>3. PICK b \in Nat : b = Len(v)
  BY LenProperties
<1> DEFINE w == u \o v
<1>. HIDE DEF w
<1>4. \A i \in 1 .. a + b : w[i] = IF i <= a THEN u[i] ELSE v[i - a]
  BY <1>1, <1>2, <1>3 DEF w
<1>5. ASSUME NEW i \in 1 .. a PROVE w[i] = u[i]
  BY <1>4
<1>6. ASSUME NEW i \in 1 .. b PROVE w[i + a] = v[i]
  <2>1. PICK j \in 1 .. a + b : j = i + a /\ ~(j <= a) /\ j - a = i
    OBVIOUS
  <2>. QED BY <1>4, <2>1
<1>. QED BY <1>1, <1>2, <1>3, <1>5, <1>6 DEF w

-----------------------------------------------------------------------------
(* Numbers and sizes. *)

(* The bucket of a key exists in every non-empty table. *)
LEMMA IndexInRange ==
  ASSUME NEW k \in Key, NEW n \in Nat, n > 0
  PROVE  Index(k, n) \in 0 .. n - 1
BY HashAssumption DEF Index

(* dictExpand finds a table size for every size it is asked for. *)
LEMMA NextPowerType ==
  ASSUME NEW n \in 0 .. MaxRequest
  PROVE  /\ _dictNextPower(n) \in Nat
         /\ _dictNextPower(n) > 0
         /\ n <= _dictNextPower(n)
<1> DEFINE S == {p \in TableSize : n <= p}
<1>1. S \in SUBSET Nat /\ S # {}
  BY SizeAssumption
<1>2. PICK p \in S : \A q \in S : p <= q
  <2>. HIDE DEF S
  <2>. QED BY <1>1, LeastNat
<1>3. _dictNextPower(n) \in TableSize /\ n <= _dictNextPower(n)
  BY <1>2 DEF _dictNextPower
<1>4. _dictNextPower(n) \in Nat \ {0}
  BY <1>3, SizeAssumption
<1>. QED BY <1>3, <1>4

-----------------------------------------------------------------------------
(* One table.  Sound collects what holds of each of the two tables. *)

Sound(h) == IsTable(h) /\ Placed(h) /\ Counted(h)

LEMMA ItemsMember ==
  ASSUME NEW h, NEW e
  PROVE  e \in Items(h) <=> \E i \in 0 .. h.size - 1 : e \in h.table[i]
BY DEF Items

LEMMA NewTableSound ==
  ASSUME NEW n \in Nat
  PROVE  Sound(NewTable(n)) /\ Items(NewTable(n)) = {} /\ NewTable(n).size = n
<1>1. IsTable(NewTable(n)) /\ Placed(NewTable(n)) /\ NewTable(n).size = n
  BY DEF NewTable, IsTable, Placed
<1>2. Items(NewTable(n)) = {}
  BY DEF NewTable, Items
<1>3. Counted(NewTable(n))
  BY <1>2, FS_EmptySet DEF Counted, NewTable
<1>. QED BY <1>1, <1>2, <1>3 DEF Sound

LEMMA EmptyTableSound ==
  Sound(EmptyTable) /\ Items(EmptyTable) = {} /\ EmptyTable.size = 0
<1>1. IsTable(EmptyTable) /\ Placed(EmptyTable) /\ EmptyTable.size = 0
  BY DEF EmptyTable, IsTable, Placed
<1>2. Items(EmptyTable) = {}
  BY DEF EmptyTable, Items
<1>3. Counted(EmptyTable)
  BY <1>2, FS_EmptySet DEF Counted, EmptyTable
<1>. QED BY <1>1, <1>2, <1>3 DEF Sound

(* The entries of a table are in the buckets their keys hash to. *)
LEMMA ItemsByIndex ==
  ASSUME NEW h, Sound(h), NEW e
  PROVE  /\ Items(h) \subseteq Entry
         /\ e \in Items(h) => h.size > 0
         /\ e \in Items(h) <=> /\ e \in Entry
                               /\ h.size > 0
                               /\ e \in h.table[Index(e.key, h.size)]
<1>1. Items(h) \subseteq Entry
  BY DEF Items, Sound, IsTable
<1>2. ASSUME e \in Items(h)
      PROVE  e \in Entry /\ h.size > 0 /\ e \in h.table[Index(e.key, h.size)]
  <2>1. PICK i \in 0 .. h.size - 1 : e \in h.table[i]
    BY <1>2 DEF Items
  <2>2. Index(e.key, h.size) = i
    BY <2>1 DEF Sound, Placed
  <2>. QED BY <1>1, <1>2, <2>1, <2>2 DEF Sound, IsTable
<1>3. ASSUME e \in Entry, h.size > 0, e \in h.table[Index(e.key, h.size)]
      PROVE  e \in Items(h)
  <2>1. Index(e.key, h.size) \in 0 .. h.size - 1
    BY <1>3, IndexInRange DEF Entry, Sound, IsTable
  <2>. QED BY <1>3, <2>1 DEF Items
<1>. QED BY <1>1, <1>2, <1>3

(* A search of one table finds exactly the entries of the key. *)
LEMMA InTableIsSearch ==
  ASSUME NEW h, Sound(h), h.size > 0, NEW k \in Key
  PROVE  InTable(h, k) = {e \in Items(h) : e.key = k}
<1>1. Index(k, h.size) \in 0 .. h.size - 1
  BY IndexInRange DEF Sound, IsTable
<1>2. h.table[Index(k, h.size)] \subseteq Items(h)
  BY <1>1 DEF Items
<1>3. \A e \in Items(h) : e \in h.table[Index(e.key, h.size)]
  BY ItemsByIndex
<1>. QED BY <1>2, <1>3 DEF InTable

(* Adding an entry to the chain its key hashes to. *)
LEMMA WithEntrySound ==
  ASSUME NEW h, Sound(h), h.size > 0, NEW e \in Entry, e \notin Items(h)
  PROVE  /\ Sound(WithEntry(h, e))
         /\ Items(WithEntry(h, e)) = Items(h) \cup {e}
         /\ WithEntry(h, e).size = h.size
         /\ \A i \in 0 .. h.size - 1 :
              i # Index(e.key, h.size) => WithEntry(h, e).table[i] = h.table[i]
<1> DEFINE w == WithEntry(h, e)
           x == Index(e.key, h.size)
<1>1. x \in 0 .. h.size - 1
  BY IndexInRange DEF Entry, Sound, IsTable
<1>2. /\ w.size = h.size
      /\ w.used = h.used + 1
      /\ w.table = [i \in 0 .. h.size - 1 |-> IF i = x THEN h.table[i] \cup {e} ELSE h.table[i]]
      /\ w = [table |-> w.table, size |-> w.size, used |-> w.used]
  BY DEF WithEntry, HashTable, Sound, IsTable
<1>. HIDE DEF w, x
<1>3. IsTable(w)
  BY <1>1, <1>2 DEF IsTable, Sound
<1>4. Items(w) = Items(h) \cup {e}
  <2>. SUFFICES ASSUME NEW y PROVE y \in Items(w) <=> y \in Items(h) \cup {e}
    OBVIOUS
  <2>1. y \in Items(w) <=> \E i \in 0 .. h.size - 1 : y \in w.table[i]
    BY <1>2, ItemsMember
  <2>2. y \in Items(h) <=> \E i \in 0 .. h.size - 1 : y \in h.table[i]
    BY ItemsMember
  <2>. QED BY <2>1, <2>2, <1>1, <1>2
<1>5. Placed(w)
  BY <1>1, <1>2 DEF Placed, Sound, x
<1>6. Counted(w)
  BY <1>2, <1>4, FS_AddElement DEF Counted, Sound
<1>. QED BY <1>2, <1>3, <1>4, <1>5, <1>6 DEF Sound, w, x

(* Removing an entry from the chain it is in. *)
LEMMA WithoutEntrySound ==
  ASSUME NEW h, Sound(h), NEW e \in Items(h)
  PROVE  /\ Sound(WithoutEntry(h, e))
         /\ Items(WithoutEntry(h, e)) = Items(h) \ {e}
         /\ WithoutEntry(h, e).size = h.size
         /\ \A i \in 0 .. h.size - 1 : WithoutEntry(h, e).table[i] \subseteq h.table[i]
<1> DEFINE w == WithoutEntry(h, e)
           x == Index(e.key, h.size)
<1>1. e \in Entry /\ h.size > 0 /\ x \in 0 .. h.size - 1
  <2>1. e \in Entry /\ h.size > 0
    BY ItemsByIndex
  <2>. QED BY <2>1, IndexInRange DEF Entry, Sound, IsTable
<1>2. /\ w.size = h.size
      /\ w.used = h.used - 1
      /\ w.table = [i \in 0 .. h.size - 1 |-> IF i = x THEN h.table[i] \ {e} ELSE h.table[i]]
      /\ w = [table |-> w.table, size |-> w.size, used |-> w.used]
  BY DEF WithoutEntry, HashTable, Sound, IsTable
<1>3. \A i \in 0 .. h.size - 1 : i # x => e \notin h.table[i]
  BY DEF Sound, Placed
<1>. HIDE DEF w, x
<1>4. Items(w) = Items(h) \ {e}
  <2>. SUFFICES ASSUME NEW y PROVE y \in Items(w) <=> y \in Items(h) \ {e}
    OBVIOUS
  <2>1. y \in Items(w) <=> \E i \in 0 .. h.size - 1 : y \in w.table[i]
    BY <1>2, ItemsMember
  <2>2. y \in Items(h) <=> \E i \in 0 .. h.size - 1 : y \in h.table[i]
    BY ItemsMember
  <2>. QED BY <2>1, <2>2, <1>1, <1>2, <1>3
<1>5. h.used > 0
  BY FS_EmptySet, FS_CardinalityType DEF Sound, Counted
<1>6. IsTable(w)
  BY <1>1, <1>2, <1>5 DEF IsTable, Sound
<1>7. Placed(w)
  BY <1>1, <1>2 DEF Placed, Sound
<1>8. Counted(w)
  BY <1>2, <1>4, FS_RemoveElement DEF Counted, Sound
<1>. QED BY <1>2, <1>4, <1>6, <1>7, <1>8 DEF Sound, w

(* Emptying some buckets of a table, as dictRehash does to ht[0]. *)
Leaves(h, batch, moved) ==
  /\ Sound(h)
  /\ batch \subseteq 0 .. h.size - 1
  /\ \A y : y \in moved <=> \E i \in batch : y \in h.table[i]

LEMMA DrainSound ==
  ASSUME NEW h, NEW batch, NEW moved, Leaves(h, batch, moved)
  PROVE  /\ Sound(Drain(h, batch, moved))
         /\ moved \subseteq Items(h)
         /\ IsFiniteSet(moved)
         /\ Items(Drain(h, batch, moved)) = Items(h) \ moved
         /\ Drain(h, batch, moved).used = h.used - Cardinality(moved)
         /\ Drain(h, batch, moved).size = h.size
         /\ \A i \in 0 .. h.size - 1 :
              Drain(h, batch, moved).table[i] = IF i \in batch THEN {} ELSE h.table[i]
<1> DEFINE w == Drain(h, batch, moved)
<1>1. /\ w.size = h.size
      /\ w.used = h.used - Cardinality(moved)
      /\ w.table = [i \in 0 .. h.size - 1 |-> IF i \in batch THEN {} ELSE h.table[i]]
      /\ w = [table |-> w.table, size |-> w.size, used |-> w.used]
  BY DEF Drain, HashTable
<1>. HIDE DEF w
<1>2. /\ Sound(h) /\ batch \subseteq 0 .. h.size - 1
      /\ \A y : y \in moved <=> \E i \in batch : y \in h.table[i]
  BY DEF Leaves
<1>3. moved \subseteq Items(h)
  BY <1>2, ItemsMember
<1>4. \A i, j \in 0 .. h.size - 1 : \A y : y \in h.table[i] /\ y \in h.table[j] => i = j
  BY <1>2 DEF Sound, Placed
<1>5. Items(w) = Items(h) \ moved
  <2>. SUFFICES ASSUME NEW y PROVE y \in Items(w) <=> y \in Items(h) /\ y \notin moved
    OBVIOUS
  <2>1. y \in Items(w) <=> \E i \in 0 .. h.size - 1 : y \in w.table[i]
    BY <1>1, ItemsMember
  <2>2. y \in Items(h) <=> \E i \in 0 .. h.size - 1 : y \in h.table[i]
    BY ItemsMember
  <2>. QED BY <2>1, <2>2, <1>1, <1>2, <1>4
<1>6. IsFiniteSet(moved) /\ Cardinality(moved) \in Nat /\ Cardinality(moved) <= h.used
  BY <1>2, <1>3, FS_Subset, FS_CardinalityType DEF Sound, Counted
<1>7. IsTable(w)
  BY <1>1, <1>2, <1>6 DEF IsTable, Sound
<1>8. Placed(w)
  BY <1>1, <1>2 DEF Placed, Sound
<1>9. Counted(w)
  <2>1. Items(h) \cap moved = moved
    BY <1>3
  <2>2. IsFiniteSet(Items(h)) /\ h.used = Cardinality(Items(h))
    BY <1>2 DEF Sound, Counted
  <2>3. /\ IsFiniteSet(Items(h) \ moved)
        /\ Cardinality(Items(h) \ moved) = Cardinality(Items(h)) - Cardinality(Items(h) \cap moved)
    BY <2>2, FS_Difference
  <2>. QED BY <1>1, <1>5, <2>1, <2>2, <2>3 DEF Counted
<1>. QED BY <1>1, <1>3, <1>5, <1>6, <1>7, <1>8, <1>9 DEF Sound, w

(* Linking entries into another table, as dictRehash does to ht[1]. *)
LEMMA FillSound ==
  ASSUME NEW h, Sound(h), h.size > 0, NEW moved \in SUBSET Entry,
         IsFiniteSet(moved), moved \cap Items(h) = {}
  PROVE  /\ Sound(Fill(h, moved))
         /\ Items(Fill(h, moved)) = Items(h) \cup moved
         /\ Fill(h, moved).size = h.size
<1> DEFINE w == Fill(h, moved)
<1>1. /\ w.size = h.size
      /\ w.used = h.used + Cardinality(moved)
      /\ w.table = [i \in 0 .. h.size - 1 |->
                      h.table[i] \cup {e \in moved : Index(e.key, h.size) = i}]
      /\ w = [table |-> w.table, size |-> w.size, used |-> w.used]
  BY DEF Fill, HashTable
<1>. HIDE DEF w
<1>2. \A e \in moved : Index(e.key, h.size) \in 0 .. h.size - 1
  BY IndexInRange DEF Entry, Sound, IsTable
<1>3. Items(w) = Items(h) \cup moved
  <2>. SUFFICES ASSUME NEW y PROVE y \in Items(w) <=> y \in Items(h) \/ y \in moved
    OBVIOUS
  <2>1. y \in Items(w) <=> \E i \in 0 .. h.size - 1 : y \in w.table[i]
    BY <1>1, ItemsMember
  <2>2. y \in Items(h) <=> \E i \in 0 .. h.size - 1 : y \in h.table[i]
    BY ItemsMember
  <2>. QED BY <2>1, <2>2, <1>1, <1>2
<1>4. IsTable(w)
  <2>1. Cardinality(moved) \in Nat
    BY FS_CardinalityType
  <2>. QED BY <1>1, <2>1 DEF IsTable, Sound
<1>5. Placed(w)
  BY <1>1 DEF Placed, Sound
<1>6. Counted(w)
  <2>1. IsFiniteSet(Items(h)) /\ h.used = Cardinality(Items(h))
    BY DEF Sound, Counted
  <2>2. Items(h) \cap moved = {}
    OBVIOUS
  <2>3. /\ IsFiniteSet(Items(h) \cup moved)
        /\ Cardinality(Items(h) \cup moved) =
             Cardinality(Items(h)) + Cardinality(moved) - Cardinality(Items(h) \cap moved)
    BY <2>1, FS_Union
  <2>4. Cardinality(Items(h)) \in Nat /\ Cardinality(moved) \in Nat
    BY <2>1, FS_CardinalityType
  <2>5. Cardinality(Items(h) \cap moved) = 0
    BY <2>2, FS_EmptySet
  <2>. QED BY <1>1, <1>3, <2>1, <2>3, <2>4, <2>5 DEF Counted
<1>. QED BY <1>1, <1>3, <1>4, <1>5, <1>6 DEF Sound, w

-----------------------------------------------------------------------------
(* The dict object.  Consistent is the inductive invariant, as a predicate *)
(* on an object, so that it can be followed through the calls of a handler.*)

Consistent(d) ==
  /\ d = DictObject(d.ht[0], d.ht[1], d.rehashidx, d.iterators)
  /\ Sound(d.ht[0]) /\ Sound(d.ht[1])
  /\ d.rehashidx \in Nat \cup {-1}
  /\ d.iterators \in Nat
  /\ Unique(d)
  /\ Drained(d)
  /\ Idle(d)

(* The parts of an object put together from two tables, and what makes it  *)
(* consistent.                                                             *)
LEMMA Parts ==
  ASSUME NEW t0, NEW t1, NEW idx, NEW iters
  PROVE  LET d == DictObject(t0, t1, idx, iters)
         IN  /\ d.ht[0] = t0 /\ d.ht[1] = t1
             /\ d.rehashidx = idx /\ d.iterators = iters
             /\ d = DictObject(d.ht[0], d.ht[1], d.rehashidx, d.iterators)
             /\ Entries(d) = Items(t0) \cup Items(t1)
             /\ Rehashing(d) <=> idx # -1
BY DEF DictObject, Tables, Entries, Rehashing

Fit(t0, t1, idx, iters) ==
  /\ Sound(t0) /\ Sound(t1)
  /\ idx \in Nat \cup {-1}
  /\ iters \in Nat
  /\ \A e, f \in Items(t0) \cup Items(t1) : e.key = f.key => e = f
  /\ Items(t0) \cap Items(t1) = {}
  /\ idx = -1 => Items(t1) = {}
  /\ idx # -1 => /\ t0.size > 0 /\ t1.size > 0 /\ idx <= t0.size
                 /\ \A i \in 0 .. idx - 1 : t0.table[i] = {}

LEMMA Assemble ==
  ASSUME NEW t0, NEW t1, NEW idx, NEW iters, Fit(t0, t1, idx, iters)
  PROVE  /\ Consistent(DictObject(t0, t1, idx, iters))
         /\ Entries(DictObject(t0, t1, idx, iters)) = Items(t0) \cup Items(t1)
<1> DEFINE d == DictObject(t0, t1, idx, iters)
<1>1. /\ d.ht[0] = t0 /\ d.ht[1] = t1
      /\ d.rehashidx = idx /\ d.iterators = iters
      /\ d = DictObject(d.ht[0], d.ht[1], d.rehashidx, d.iterators)
      /\ Entries(d) = Items(t0) \cup Items(t1)
      /\ Rehashing(d) <=> idx # -1
  BY Parts
<1>. HIDE DEF d
<1>2. Unique(d)
  BY <1>1 DEF Unique, Fit
<1>3. Drained(d)
  BY <1>1 DEF Drained, Fit
<1>4. Idle(d)
  BY <1>1 DEF Idle, Fit
<1>5. Consistent(d)
  BY <1>1, <1>2, <1>3, <1>4 DEF Consistent, Fit
<1>. QED BY <1>1, <1>5 DEF d

(* A dictionary of pairwise different keys has at most as many entries as  *)
(* there are keys: no size asked of dictExpand is beyond MaxRequest.       *)
LEMMA FewEntries ==
  ASSUME NEW h, Sound(h), \A e, f \in Items(h) : e.key = f.key => e = f
  PROVE  h.used \in Nat /\ 2 * h.used <= MaxRequest
<1> DEFINE g == [e \in Items(h) |-> e.key]
<1>1. Items(h) \subseteq Entry
  BY ItemsByIndex
<1>2. g \in [Items(h) -> Key]
  BY <1>1 DEF Entry
<1>3. g \in Injection(Items(h), Key)
  BY <1>2 DEF Injection, IsInjective
<1>4. Cardinality(Items(h)) <= Cardinality(Key)
  <2>. HIDE DEF g
  <2>. QED BY <1>3, KeyAssumption, FS_Injection
<1>5. Cardinality(Key) \in Nat /\ h.used \in Nat
  BY KeyAssumption, FS_CardinalityType DEF Sound, IsTable
<1>. QED BY <1>4, <1>5, LimitAssumption DEF Sound, Counted

LEMMA EmptyDictConsistent == Consistent(EmptyDict) /\ Entries(EmptyDict) = {}
<1>1. Fit(EmptyTable, EmptyTable, -1, 0)
  BY EmptyTableSound DEF Fit
<1>. QED BY <1>1, EmptyTableSound, Assemble DEF EmptyDict

(* dictExpand changes the tables and not the entries. *)
LEMMA ExpandConsistent ==
  ASSUME NEW d, Consistent(d), NEW n \in 0 .. MaxRequest
  PROVE  /\ Consistent(Expand(d, n))
         /\ Entries(Expand(d, n)) = Entries(d)
         /\ d.ht[0].size > 0 \/ CanExpand(d, n) => Expand(d, n).ht[0].size > 0
<1> DEFINE t == NewTable(_dictNextPower(n))
<1>1. Sound(t) /\ Items(t) = {} /\ t.size > 0
  BY NextPowerType, NewTableSound
<1>2. /\ Sound(d.ht[0]) /\ Sound(d.ht[1]) /\ d.iterators \in Nat
      /\ \A e, f \in Items(d.ht[0]) \cup Items(d.ht[1]) : e.key = f.key => e = f
  BY DEF Consistent, Unique, Entries
<1>. HIDE DEF t
<1>3. CASE ~CanExpand(d, n)
  BY <1>3 DEF Expand
<1>4. CASE CanExpand(d, n)
  <2>1. d.rehashidx = -1 /\ Items(d.ht[1]) = {}
    BY <1>4 DEF Consistent, CanExpand, Rehashing, Idle
  <2>2. CASE d.ht[0].size = 0
    <3>1. Expand(d, n) = DictObject(t, d.ht[1], -1, d.iterators)
      BY <1>4, <2>1, <2>2 DEF Expand, WithTables, t
    <3>2. Items(d.ht[0]) = {}
      BY <1>2, <2>2, ItemsByIndex
    <3>3. Fit(t, d.ht[1], -1, d.iterators)
      BY <1>1, <1>2, <2>1 DEF Fit
    <3>. QED BY <1>1, <2>1, <3>1, <3>2, <3>3, Assemble, Parts DEF Entries
  <2>3. CASE d.ht[0].size # 0
    <3>1. Expand(d, n) = DictObject(d.ht[0], t, 0, d.iterators)
      BY <1>4, <2>3 DEF Expand, t
    <3>2. d.ht[0].size > 0
      BY <1>2, <2>3 DEF Sound, IsTable
    <3>3. Fit(d.ht[0], t, 0, d.iterators)
      <4>1. d.ht[0].size \in Nat
        BY <1>2 DEF Sound, IsTable
      <4>2. \A i \in 0 .. 0 - 1 : d.ht[0].table[i] = {}
        OBVIOUS
      <4>3. Items(d.ht[0]) \cap Items(t) = {}
        BY <1>1
      <4>. QED BY <1>1, <1>2, <3>2, <4>1, <4>2, <4>3 DEF Fit
    <3>. QED BY <1>1, <2>1, <3>1, <3>2, <3>3, Assemble, Parts DEF Entries
  <2>. QED BY <2>2, <2>3
<1>. QED BY <1>3, <1>4


(* The buckets one call of dictRehash moves, and where it goes on next:    *)
(* every bucket before that index is empty once they are moved.            *)
LEMMA BatchMoves ==
  ASSUME NEW d, Consistent(d), Rehashing(d), NEW n \in Nat \ {0}
  PROVE  /\ Batch(d, n) \subseteq 0 .. d.ht[0].size - 1
         /\ NextIndex(d, Batch(d, n)) \in d.rehashidx .. d.ht[0].size
         /\ \A i \in 0 .. NextIndex(d, Batch(d, n)) - 1 :
               i \in Batch(d, n) \/ d.ht[0].table[i] = {}
<1> DEFINE size  == d.ht[0].size
           batch == Batch(d, n)
           x     == NextIndex(d, batch)
           past  == {y \in 0 .. size : IsPast(d, batch, y)}
           before(i) == {j \in Busy(d) : j < i}
<1>1. /\ size \in Nat /\ d.rehashidx \in Nat /\ d.rehashidx <= size
      /\ \A i \in 0 .. d.rehashidx - 1 : d.ht[0].table[i] = {}
  BY DEF Consistent, Sound, IsTable, Rehashing, Drained
<1>2. Busy(d) \subseteq d.rehashidx .. size - 1
  BY DEF Busy
<1>3. batch \subseteq Busy(d)
  BY DEF Batch
<1>4. x \in past /\ \A y \in past : x <= y
  <2>1. size \in past
    BY <1>1, <1>2, <1>3 DEF IsPast
  <2>2. past \in SUBSET Nat /\ past # {}
    BY <1>1, <2>1
  <2>3. PICK z \in past : \A y \in past : z <= y
    <3>. HIDE DEF past
    <3>. QED BY <2>2, LeastNat
  <2>4. z \in 0 .. size /\ IsPast(d, batch, z)
        /\ \A y \in 0 .. size : IsPast(d, batch, y) => z <= y
    BY <2>3
  <2>5. /\ x \in 0 .. size
        /\ IsPast(d, batch, x) /\ \A y \in 0 .. size : IsPast(d, batch, y) => x <= y
    <3>. HIDE DEF batch
    <3>. QED BY <2>4 DEF NextIndex
  <2>. QED BY <2>5
<1>5. ASSUME NEW i \in 0 .. x - 1, i \notin batch, d.ht[0].table[i] # {}
      PROVE  FALSE
  <2>1. x \in Nat /\ x <= size
    BY <1>1, <1>4
  <2>2. i \in Busy(d)
    BY <1>1, <1>5, <2>1 DEF Busy
  <2>3. i \notin past
    BY <1>1, <1>4, <1>5, <2>1
  <2>4. PICK j \in batch : ~(j < i)
    BY <1>1, <1>2, <1>5, <2>1, <2>2, <2>3 DEF IsPast
  <2>5. j > i
    BY <1>1, <1>2, <1>3, <1>5, <2>1, <2>4
  <2>6. before(i) \subseteq before(j)
    BY <1>1, <1>2, <1>3, <2>1, <2>2, <2>5
  <2>7. IsFiniteSet(before(j))
    <3>1. IsFiniteSet(d.rehashidx .. size - 1)
      <4>1. d.rehashidx \in Int /\ size - 1 \in Int
        BY <1>1
      <4>. HIDE DEF size
      <4>. QED BY <4>1, FS_Interval
    <3>2. before(j) \subseteq d.rehashidx .. size - 1
      BY <1>2
    <3>. QED BY <3>1, <3>2, FS_Subset
  <2>8. /\ Cardinality(before(i)) <= Cardinality(before(j))
        /\ Cardinality(before(i)) \in Nat /\ Cardinality(before(j)) \in Nat
    <3>. HIDE DEF before
    <3>. QED BY <2>6, <2>7, FS_Subset, FS_CardinalityType
  <2>9. Cardinality(before(j)) < n
    BY DEF Batch
  <2>10. Cardinality(before(i)) < n
    BY <2>8, <2>9
  <2>. QED BY <1>5, <2>2, <2>10 DEF Batch
<1>6. x \in d.rehashidx .. size
  BY <1>4 DEF IsPast
<1>. QED BY <1>1, <1>2, <1>3, <1>5, <1>6

(* dictRehash moves entries from one table to the other and loses none.    *)
LEMMA RehashConsistent ==
  ASSUME NEW d, Consistent(d), NEW n \in Nat \ {0}
  PROVE  /\ Consistent(Rehash(d, n))
         /\ Entries(Rehash(d, n)) = Entries(d)
         /\ d.ht[0].size > 0 => Rehash(d, n).ht[0].size > 0
<1>1. CASE ~Rehashing(d)
  BY <1>1 DEF Rehash
<1>2. CASE Rehashing(d)
  <2> DEFINE batch == Batch(d, n)
             moved == Moved(d, batch)
             t0    == Drain(d.ht[0], batch, moved)
             t1    == Fill(d.ht[1], moved)
             x     == NextIndex(d, batch)
  <2>1. /\ Sound(d.ht[0]) /\ Sound(d.ht[1]) /\ d.iterators \in Nat
        /\ d.ht[0].size \in Nat /\ d.ht[0].size > 0 /\ d.ht[1].size > 0
        /\ d.rehashidx \in Nat
        /\ \A e, f \in Items(d.ht[0]) \cup Items(d.ht[1]) : e.key = f.key => e = f
        /\ Items(d.ht[0]) \cap Items(d.ht[1]) = {}
    BY <1>2 DEF Consistent, Unique, Entries, Drained, Rehashing, Sound, IsTable
  <2>2. /\ batch \subseteq 0 .. d.ht[0].size - 1
        /\ x \in d.rehashidx .. d.ht[0].size
        /\ \A i \in 0 .. x - 1 : i \in batch \/ d.ht[0].table[i] = {}
    BY <1>2, BatchMoves
  <2>3. \A y : y \in moved <=> \E i \in batch : y \in d.ht[0].table[i]
    BY DEF Moved
  <2>. HIDE DEF batch, moved, x
  <2>4. /\ Sound(t0) /\ t0.size = d.ht[0].size
        /\ moved \subseteq Items(d.ht[0]) /\ IsFiniteSet(moved)
        /\ Items(t0) = Items(d.ht[0]) \ moved
        /\ \A i \in 0 .. d.ht[0].size - 1 :
             t0.table[i] = IF i \in batch THEN {} ELSE d.ht[0].table[i]
    <3>1. Leaves(d.ht[0], batch, moved)
      BY <2>1, <2>2, <2>3 DEF Leaves
    <3>. QED BY <3>1, DrainSound
  <2>5. moved \in SUBSET Entry /\ moved \cap Items(d.ht[1]) = {}
    BY <2>1, <2>4, ItemsByIndex
  <2>6. /\ Sound(t1) /\ t1.size = d.ht[1].size
        /\ Items(t1) = Items(d.ht[1]) \cup moved
    BY <2>1, <2>4, <2>5, FillSound
  <2>. HIDE DEF t0, t1
  <2>7. CASE t0.used = 0 /\ Cardinality(batch) < n
    <3>1. Rehash(d, n) = DictObject(t1, EmptyTable, -1, d.iterators)
      BY <1>2, <2>7 DEF Rehash, batch, moved, t0, t1
    <3>2. Items(t0) = {}
      BY <2>4, <2>7, FS_EmptySet DEF Sound, Counted
    <3>3. Items(t1) = Items(d.ht[0]) \cup Items(d.ht[1])
      BY <2>4, <2>6, <3>2
    <3>4. Fit(t1, EmptyTable, -1, d.iterators)
      BY <2>1, <2>6, <3>3, EmptyTableSound DEF Fit
    <3>. QED BY <2>1, <2>6, <3>1, <3>3, <3>4, Assemble, Parts, EmptyTableSound DEF Entries
  <2>8. CASE ~(t0.used = 0 /\ Cardinality(batch) < n)
    <3>1. Rehash(d, n) = DictObject(t0, t1, x, d.iterators)
      BY <1>2, <2>8 DEF Rehash, batch, moved, t0, t1, x
    <3>2. Items(t0) \cup Items(t1) = Items(d.ht[0]) \cup Items(d.ht[1])
      BY <2>4, <2>6
    <3>3. Items(t0) \cap Items(t1) = {}
      BY <2>1, <2>4, <2>6
    <3>4. \A i \in 0 .. x - 1 : t0.table[i] = {}
      BY <2>1, <2>2, <2>4
    <3>5. x \in Nat /\ x <= t0.size
      BY <2>1, <2>2, <2>4
    <3>6. Fit(t0, t1, x, d.iterators)
      BY <2>1, <2>4, <2>6, <3>2, <3>3, <3>4, <3>5 DEF Fit
    <3>. QED BY <2>1, <2>4, <3>1, <3>2, <3>6, Assemble, Parts DEF Entries
  <2>. QED BY <2>7, <2>8
<1>. QED BY <1>1, <1>2

LEMMA RehashStepConsistent ==
  ASSUME NEW d, Consistent(d)
  PROVE  /\ Consistent(_dictRehashStep(d))
         /\ Entries(_dictRehashStep(d)) = Entries(d)
         /\ d.ht[0].size > 0 => _dictRehashStep(d).ht[0].size > 0
BY RehashConsistent DEF _dictRehashStep

-----------------------------------------------------------------------------
(* Searching, adding and removing. *)

(* The search of one bucket in each table finds every entry of the key.    *)
LEMMA LookupIsSearch ==
  ASSUME NEW d, Consistent(d), d.ht[0].size > 0, NEW k \in Key
  PROVE  Lookup(d, k) = {e \in Entries(d) : e.key = k}
<1>1. InTable(d.ht[0], k) = {e \in Items(d.ht[0]) : e.key = k}
  BY InTableIsSearch DEF Consistent
<1>2. Rehashing(d) => InTable(d.ht[1], k) = {e \in Items(d.ht[1]) : e.key = k}
  BY InTableIsSearch DEF Consistent, Drained
<1>3. ~Rehashing(d) => Items(d.ht[1]) = {}
  BY DEF Consistent, Idle
<1>4. InTable(d.ht[0], k) # {} => {e \in Items(d.ht[1]) : e.key = k} = {}
  BY <1>1 DEF Consistent, Unique, Entries
<1>. QED BY <1>1, <1>2, <1>3, <1>4 DEF Lookup, Entries

LEMMA InsertConsistent ==
  ASSUME NEW d, Consistent(d), d.ht[0].size > 0,
         NEW e \in Entry, \A f \in Entries(d) : f.key # e.key
  PROVE  /\ Consistent(Insert(d, e))
         /\ Entries(Insert(d, e)) = Entries(d) \cup {e}
         /\ Insert(d, e).ht[0].size > 0
<1>1. /\ Sound(d.ht[0]) /\ Sound(d.ht[1]) /\ d.iterators \in Nat
      /\ d.rehashidx \in Nat \cup {-1}
      /\ \A f, g \in Items(d.ht[0]) \cup Items(d.ht[1]) : f.key = g.key => f = g
      /\ Items(d.ht[0]) \cap Items(d.ht[1]) = {}
  BY DEF Consistent, Unique, Entries
<1>2. \A f \in Items(d.ht[0]) \cup Items(d.ht[1]) : f.key # e.key
  BY DEF Entries
<1>3. e \notin Items(d.ht[0]) /\ e \notin Items(d.ht[1])
  BY <1>2
<1>4. CASE Rehashing(d)
  <2> DEFINE t == WithEntry(d.ht[1], e)
  <2>1. /\ d.ht[1].size > 0 /\ d.rehashidx # -1 /\ d.rehashidx <= d.ht[0].size
        /\ \A i \in 0 .. d.rehashidx - 1 : d.ht[0].table[i] = {}
    BY <1>4 DEF Consistent, Drained, Rehashing
  <2>2. Sound(t) /\ Items(t) = Items(d.ht[1]) \cup {e} /\ t.size > 0
    BY <1>1, <1>3, <2>1, WithEntrySound
  <2>3. Insert(d, e) = DictObject(d.ht[0], t, d.rehashidx, d.iterators)
    BY <1>4 DEF Insert, WithTables
  <2>. HIDE DEF t
  <2>4. Fit(d.ht[0], t, d.rehashidx, d.iterators)
    BY <1>1, <1>2, <1>3, <2>1, <2>2 DEF Fit
  <2>. QED BY <2>2, <2>3, <2>4, Assemble, Parts DEF Entries
<1>5. CASE ~Rehashing(d)
  <2> DEFINE t == WithEntry(d.ht[0], e)
  <2>1. d.rehashidx = -1 /\ Items(d.ht[1]) = {}
    BY <1>5 DEF Consistent, Idle, Rehashing
  <2>2. Sound(t) /\ Items(t) = Items(d.ht[0]) \cup {e} /\ t.size > 0
    BY <1>1, <1>3, WithEntrySound
  <2>3. Insert(d, e) = DictObject(t, d.ht[1], -1, d.iterators)
    BY <1>5, <2>1 DEF Insert, WithTables
  <2>. HIDE DEF t
  <2>4. Fit(t, d.ht[1], -1, d.iterators)
    BY <1>1, <1>2, <2>1, <2>2 DEF Fit
  <2>. QED BY <2>1, <2>2, <2>3, <2>4, Assemble, Parts DEF Entries
<1>. QED BY <1>4, <1>5

HasKey(d, k) == \E e \in Entries(d) : e.key = k


(* A dictionary without a first table is empty. *)
LEMMA NoTableNoEntries ==
  ASSUME NEW d, Consistent(d), d.ht[0].size = 0
  PROVE  Entries(d) = {} /\ ~Rehashing(d)
<1>1. ~Rehashing(d)
  BY DEF Consistent, Drained
<1>2. Items(d.ht[0]) = {}
  BY ItemsByIndex DEF Consistent
<1>. QED BY <1>1, <1>2 DEF Consistent, Idle, Entries

(* dictFind returns the entry of the key, wherever the rehash stands. *)
LEMMA FindIsSearch ==
  ASSUME NEW d, Consistent(d), NEW k \in Key
  PROVE  /\ Found(d, k) = {e \in Entries(d) : e.key = k}
         /\ Consistent(AfterFind(d)) /\ Entries(AfterFind(d)) = Entries(d)
         /\ d.ht[0].size > 0 => AfterFind(d).ht[0].size > 0
<1>1. d.ht[0].size \in Nat
  BY DEF Consistent, Sound, IsTable
<1>2. CASE d.ht[0].size = 0
  BY <1>2, NoTableNoEntries DEF Found, AfterFind
<1>3. CASE d.ht[0].size > 0
  <2> DEFINE r == _dictRehashStep(d)
  <2>1. Consistent(r) /\ Entries(r) = Entries(d) /\ r.ht[0].size > 0
    BY <1>3, RehashStepConsistent
  <2>. HIDE DEF r
  <2>2. Lookup(r, k) = {e \in Entries(d) : e.key = k}
    BY <2>1, LookupIsSearch
  <2>. QED BY <1>3, <2>1, <2>2 DEF Found, AfterFind, r
<1>. QED BY <1>1, <1>2, <1>3

LEMMA FindResultIsEntry ==
  ASSUME NEW d, Consistent(d), NEW k \in Key
  PROVE  /\ HasKey(d, k) => FindResult(d, k) \in Entries(d) /\ FindResult(d, k).key = k
         /\ HasKey(d, k) <=> FindResult(d, k) # NullPtr
         /\ ~HasKey(d, k) => FindResult(d, k) = NullPtr
<1>1. Found(d, k) = {e \in Entries(d) : e.key = k}
  BY FindIsSearch
<1>2. Entries(d) \subseteq Entry
  BY ItemsByIndex DEF Consistent, Entries
<1>3. CASE HasKey(d, k)
  <2>1. PICK e \in Found(d, k) : TRUE
    BY <1>1, <1>3 DEF HasKey
  <2>2. FindResult(d, k) \in Found(d, k)
    BY <2>1 DEF FindResult
  <2>. QED BY <1>1, <1>2, <1>3, <2>1, <2>2, NullAssumption
<1>4. CASE ~HasKey(d, k)
  BY <1>1, <1>4 DEF HasKey, FindResult
<1>. QED BY <1>3, <1>4

(* dictDelete removes the entry of the key and no other. *)
LEMMA UnlinkConsistent ==
  ASSUME NEW d, Consistent(d), d.ht[0].size > 0, NEW k \in Key
  PROVE  /\ Consistent(Unlink(d, k))
         /\ Entries(Unlink(d, k)) = {e \in Entries(d) : e.key # k}
<1> DEFINE e == CHOOSE x \in Lookup(d, k) : TRUE
<1>1. Lookup(d, k) = {x \in Entries(d) : x.key = k}
  BY LookupIsSearch
<1>2. /\ Sound(d.ht[0]) /\ Sound(d.ht[1]) /\ d.iterators \in Nat
      /\ d.rehashidx \in Nat \cup {-1}
      /\ \A f, g \in Items(d.ht[0]) \cup Items(d.ht[1]) : f.key = g.key => f = g
      /\ Items(d.ht[0]) \cap Items(d.ht[1]) = {}
      /\ d.rehashidx = -1 => Items(d.ht[1]) = {}
      /\ d.rehashidx # -1 => /\ d.ht[0].size > 0 /\ d.ht[1].size > 0
                             /\ d.rehashidx <= d.ht[0].size
                             /\ \A i \in 0 .. d.rehashidx - 1 : d.ht[0].table[i] = {}
  BY DEF Consistent, Unique, Entries, Idle, Drained, Rehashing
<1>3. CASE Lookup(d, k) = {}
  BY <1>1, <1>3 DEF Unlink
<1>4. CASE Lookup(d, k) # {}
  <2>1. e \in Lookup(d, k)
    BY <1>4
  <2>. HIDE DEF e
  <2>2. e \in Entries(d) /\ e.key = k
    BY <1>1, <2>1
  <2>3. {x \in Entries(d) : x.key # k} = Entries(d) \ {e}
    BY <1>2, <2>2 DEF Entries
  <2>4. CASE InTable(d.ht[0], k) # {}
    <3> DEFINE t == WithoutEntry(d.ht[0], e)
    <3>1. e \in Items(d.ht[0]) /\ e \notin Items(d.ht[1])
      <4>1. InTable(d.ht[0], k) \subseteq Items(d.ht[0])
        BY <1>2, InTableIsSearch
      <4>2. Lookup(d, k) = InTable(d.ht[0], k)
        BY <2>4 DEF Lookup
      <4>. QED BY <1>2, <2>1, <4>1, <4>2
    <3>2. /\ Sound(t) /\ Items(t) = Items(d.ht[0]) \ {e} /\ t.size = d.ht[0].size
          /\ \A i \in 0 .. d.ht[0].size - 1 : t.table[i] \subseteq d.ht[0].table[i]
      BY <1>2, <3>1, WithoutEntrySound
    <3>3. Unlink(d, k) = DictObject(t, d.ht[1], d.rehashidx, d.iterators)
      BY <1>4, <2>4 DEF Unlink, WithTables, e
    <3>. HIDE DEF t
    <3>4. ASSUME d.rehashidx # -1, NEW i \in 0 .. d.rehashidx - 1
          PROVE  t.table[i] = {}
      <4>1. d.ht[0].size \in Nat /\ d.rehashidx \in Nat
        BY <1>2, <3>4 DEF Sound, IsTable
      <4>2. i \in 0 .. d.ht[0].size - 1 /\ d.ht[0].table[i] = {}
        BY <1>2, <3>4, <4>1
      <4>. QED BY <3>2, <4>2
    <3>5. Fit(t, d.ht[1], d.rehashidx, d.iterators)
      BY <1>2, <3>2, <3>4 DEF Fit
    <3>. QED BY <2>3, <3>1, <3>2, <3>3, <3>5, Assemble DEF Entries
  <2>5. CASE InTable(d.ht[0], k) = {}
    <3> DEFINE t == WithoutEntry(d.ht[1], e)
    <3>1. e \in Items(d.ht[1]) /\ e \notin Items(d.ht[0])
      <4>1. d.rehashidx # -1 /\ Lookup(d, k) = InTable(d.ht[1], k)
        BY <1>4, <2>5 DEF Lookup, Rehashing
      <4>2. InTable(d.ht[1], k) \subseteq Items(d.ht[1])
        BY <1>2, <4>1, InTableIsSearch
      <4>. QED BY <1>2, <2>1, <4>1, <4>2
    <3>2. /\ Sound(t) /\ Items(t) = Items(d.ht[1]) \ {e} /\ t.size = d.ht[1].size
      BY <1>2, <3>1, WithoutEntrySound
    <3>3. Unlink(d, k) = DictObject(d.ht[0], t, d.rehashidx, d.iterators)
      BY <1>4, <2>5 DEF Unlink, WithTables, e
    <3>. HIDE DEF t
    <3>4. Fit(d.ht[0], t, d.rehashidx, d.iterators)
      BY <1>2, <3>2 DEF Fit
    <3>. QED BY <2>3, <3>1, <3>2, <3>3, <3>4, Assemble DEF Entries
  <2>. QED BY <2>4, <2>5
<1>. QED BY <1>3, <1>4

(* Taking an entry out of a table and putting one of the same key in.      *)
LEMMA ExchangeSound ==
  ASSUME NEW h, Sound(h), NEW e \in Items(h), NEW f \in Entry, f.key = e.key,
         f \notin Items(h) \ {e}
  PROVE  LET w == WithEntry(WithoutEntry(h, e), f)
         IN  /\ Sound(w) /\ w.size = h.size
             /\ Items(w) = (Items(h) \ {e}) \cup {f}
             /\ \A i \in 0 .. h.size - 1 : h.table[i] = {} => w.table[i] = {}
<1> DEFINE o == WithoutEntry(h, e)
           w == WithEntry(o, f)
<1>1. /\ Sound(o) /\ Items(o) = Items(h) \ {e} /\ o.size = h.size
      /\ \A i \in 0 .. h.size - 1 : o.table[i] \subseteq h.table[i]
  BY WithoutEntrySound
<1>2. h.size > 0 /\ e \in h.table[Index(e.key, h.size)]
  BY ItemsByIndex
<1>. HIDE DEF o
<1>3. /\ Sound(w) /\ Items(w) = Items(o) \cup {f} /\ w.size = o.size
      /\ \A i \in 0 .. o.size - 1 : i # Index(f.key, o.size) => w.table[i] = o.table[i]
  BY <1>1, <1>2, WithEntrySound
<1>. HIDE DEF w
<1>4. \A i \in 0 .. h.size - 1 : h.table[i] = {} => w.table[i] = {}
  BY <1>1, <1>2, <1>3
<1>. QED BY <1>1, <1>3, <1>4 DEF w, o

(* dictReplace changes the value of one entry. *)
LEMMA AssignConsistent ==
  ASSUME NEW d, Consistent(d), d.ht[0].size > 0, NEW e \in Entries(d),
         NEW v \in Value \cup {NullPtr}
  PROVE  /\ Consistent(Assign(d, e, v))
         /\ Entries(Assign(d, e, v)) = (Entries(d) \ {e}) \cup {[key |-> e.key, v |-> v]}
<1> DEFINE f == [key |-> e.key, v |-> v]
           k == e.key
<1>1. /\ Sound(d.ht[0]) /\ Sound(d.ht[1]) /\ d.iterators \in Nat
      /\ d.rehashidx \in Nat \cup {-1}
      /\ \A x, y \in Items(d.ht[0]) \cup Items(d.ht[1]) : x.key = y.key => x = y
      /\ Items(d.ht[0]) \cap Items(d.ht[1]) = {}
      /\ d.rehashidx = -1 => Items(d.ht[1]) = {}
      /\ d.rehashidx # -1 => /\ d.ht[0].size > 0 /\ d.ht[1].size > 0
                             /\ d.rehashidx <= d.ht[0].size
                             /\ \A i \in 0 .. d.rehashidx - 1 : d.ht[0].table[i] = {}
  BY DEF Consistent, Unique, Entries, Idle, Drained, Rehashing
<1>2. e \in Entry /\ k \in Key /\ f \in Entry /\ f.key = k
  <2>1. e \in Entry
    BY <1>1, ItemsByIndex DEF Entries
  <2>. QED BY <2>1 DEF Entry
<1>3. \A x \in Items(d.ht[0]) \cup Items(d.ht[1]) : x.key = k => x = e
  BY <1>1 DEF Entries
<1>4. InTable(d.ht[0], k) = {x \in Items(d.ht[0]) : x.key = k}
  BY <1>1, <1>2, InTableIsSearch
<1>. HIDE DEF f
<1>5. CASE InTable(d.ht[0], k) # {}
  <2> DEFINE t == WithEntry(WithoutEntry(d.ht[0], e), f)
  <2>1. e \in Items(d.ht[0]) /\ e \notin Items(d.ht[1])
    BY <1>1, <1>3, <1>4, <1>5
  <2>2. f \notin Items(d.ht[0]) \ {e} /\ f \notin Items(d.ht[1])
    BY <1>2, <1>3, <2>1
  <2>3. /\ Sound(t) /\ t.size = d.ht[0].size
        /\ Items(t) = (Items(d.ht[0]) \ {e}) \cup {f}
        /\ \A i \in 0 .. d.ht[0].size - 1 : d.ht[0].table[i] = {} => t.table[i] = {}
    BY <1>1, <1>2, <2>1, <2>2, ExchangeSound
  <2>4. Assign(d, e, v) = DictObject(t, d.ht[1], d.rehashidx, d.iterators)
    BY <1>5 DEF Assign, WithTables, f
  <2>. HIDE DEF t
  <2>5. ASSUME d.rehashidx # -1, NEW i \in 0 .. d.rehashidx - 1
        PROVE  t.table[i] = {}
    <3>1. d.ht[0].size \in Nat /\ d.rehashidx \in Nat
      BY <1>1, <2>5 DEF Sound, IsTable
    <3>2. i \in 0 .. d.ht[0].size - 1 /\ d.ht[0].table[i] = {}
      BY <1>1, <2>5, <3>1
    <3>. QED BY <2>3, <3>2
  <2>6. \A x, y \in Items(t) \cup Items(d.ht[1]) : x.key = y.key => x = y
    <3>1. \A x \in Items(t) \cup Items(d.ht[1]) :
            x = f \/ (x \in Items(d.ht[0]) \cup Items(d.ht[1]) /\ x.key # k)
      BY <1>3, <2>1, <2>3
    <3>. QED BY <1>1, <1>2, <3>1
  <2>7. Fit(t, d.ht[1], d.rehashidx, d.iterators)
    BY <1>1, <2>2, <2>3, <2>5, <2>6 DEF Fit
  <2>. QED BY <2>1, <2>3, <2>4, <2>7, Assemble DEF Entries, f
<1>6. CASE InTable(d.ht[0], k) = {}
  <2> DEFINE t == WithEntry(WithoutEntry(d.ht[1], e), f)
  <2>1. e \in Items(d.ht[1]) /\ e \notin Items(d.ht[0])
    BY <1>4, <1>6 DEF Entries
  <2>2. f \notin Items(d.ht[1]) \ {e} /\ f \notin Items(d.ht[0])
    BY <1>2, <1>3, <2>1
  <2>3. /\ Sound(t) /\ t.size = d.ht[1].size
        /\ Items(t) = (Items(d.ht[1]) \ {e}) \cup {f}
    BY <1>1, <1>2, <2>1, <2>2, ExchangeSound
  <2>4. Assign(d, e, v) = DictObject(d.ht[0], t, d.rehashidx, d.iterators)
    BY <1>6 DEF Assign, WithTables, f
  <2>5. d.rehashidx # -1
    BY <1>1, <2>1
  <2>. HIDE DEF t
  <2>6. \A x, y \in Items(d.ht[0]) \cup Items(t) : x.key = y.key => x = y
    <3>1. \A x \in Items(d.ht[0]) \cup Items(t) :
            x = f \/ (x \in Items(d.ht[0]) \cup Items(d.ht[1]) /\ x.key # k)
      BY <1>3, <2>1, <2>3
    <3>. QED BY <1>1, <1>2, <3>1
  <2>7. Fit(d.ht[0], t, d.rehashidx, d.iterators)
    BY <1>1, <2>2, <2>3, <2>5, <2>6 DEF Fit
  <2>. QED BY <2>1, <2>3, <2>4, <2>7, Assemble DEF Entries, f
<1>. QED BY <1>5, <1>6

LEMMA ClearSound ==
  ASSUME NEW h, Sound(h)
  PROVE  Sound(_dictClear(h)) /\ Items(_dictClear(h)) = {}
<1>1. CASE h.size > 0 /\ h.used > 0
  BY <1>1, EmptyTableSound DEF _dictClear
<1>2. CASE ~(h.size > 0 /\ h.used > 0)
  <2>1. h.size = 0 \/ h.used = 0
    BY <1>2 DEF Sound, IsTable
  <2>2. Items(h) = {}
    BY <2>1, ItemsByIndex, FS_EmptySet DEF Sound, Counted
  <2>. QED BY <1>2, <2>2 DEF _dictClear
<1>. QED BY <1>1, <1>2

LEMMA EntriesAreEntry ==
  ASSUME NEW d, Consistent(d)
  PROVE  Entries(d) \subseteq Entry
BY ItemsByIndex DEF Consistent, Entries
LEMMA WantedSizeBounded ==
  ASSUME NEW d, Consistent(d)
  PROVE  WantedSize(d) \in 0 .. MaxRequest /\ MinimalSize(d) \in 0 .. MaxRequest
<1>1. /\ Sound(d.ht[0]) /\ \A e, f \in Items(d.ht[0]) : e.key = f.key => e = f
  BY DEF Consistent, Unique, Entries
<1>2. d.ht[0].used \in Nat /\ 2 * d.ht[0].used <= MaxRequest
  BY <1>1, FewEntries
<1>. QED BY <1>2, LimitAssumption DEF WantedSize, MinimalSize
=============================================================================
