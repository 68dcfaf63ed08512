----------------------------- MODULE DictTables -----------------------------
(***************************************************************************)
(* The tables of cpp_src/dict.h and dict.cpp, and what the functions of    *)
(* dict.cpp do to them: growing, rehashing, searching, adding, removing.   *)
(* While rehashidx # -1 the pairs are spread over two tables, and buckets  *)
(* of ht[0] below rehashidx have been moved to ht[1].                      *)
(*                                                                         *)
(* A chain of dictEntry nodes is a set of entries: no operation modelled   *)
(* here depends on the order of a chain.  The dict object is one record,   *)
(* so that a handler is the composition of the functions it calls.         *)
(***************************************************************************)
EXTENDS Integers, FiniteSets

CONSTANTS Key, Value,
          NullPtr,       \* nullptr
          Hash,          \* StringObject::hash, a function on Key
          InitialSize,   \* DICT_HT_INITIAL_SIZE
          MaxDoublings,  \* bound: the largest table has InitialSize * 2^MaxDoublings buckets
          MaxRequest     \* bound: the largest size asked of dictExpand

(* The sizes _dictNextPower can return. *)
TableSize == {InitialSize * 2^i : i \in 0 .. MaxDoublings}

ASSUME KeyAssumption  == IsFiniteSet(Key)
ASSUME HashAssumption == Hash \in [Key -> Nat]
ASSUME LimitAssumption == /\ {InitialSize, MaxRequest} \subseteq Nat
                          /\ InitialSize <= MaxRequest
                          /\ 2 * Cardinality(Key) <= MaxRequest
ASSUME SizeAssumption == /\ TableSize \subseteq Nat \ {0}
                         /\ \A n \in 0 .. MaxRequest : \E p \in TableSize : n <= p

OK  == 1   \* DICT_OK
ERR == 0   \* DICT_ERR

Entry == [key : Key, v : Value \cup {NullPtr}]

ASSUME NullAssumption == NullPtr \notin Entry \cup Value

(* A call returns a code, or the address of an entry. *)
Result == [code : {OK, ERR}, entry : Entry \cup {NullPtr}]

Code(c)    == [code |-> c, entry |-> NullPtr]
Pointer(e) == [code |-> ERR, entry |-> e]

-----------------------------------------------------------------------------
(* Tables.  hash() & sizemask is a remainder: sizes are powers of two.     *)

EmptyTable  == [table |-> [i \in {} |-> {}], size |-> 0, used |-> 0]
NewTable(n) == [table |-> [i \in 0 .. n - 1 |-> {}], size |-> n, used |-> 0]
Tables(t0, t1) == [t \in {0, 1} |-> IF t = 0 THEN t0 ELSE t1]

Index(k, n) == Hash[k] % n

Items(h)      == UNION {h.table[i] : i \in 0 .. h.size - 1}
InTable(h, k) == {e \in h.table[Index(k, h.size)] : e.key = k}

(* The table is h with the given buckets and counter. *)
HashTable(buckets, h, used) == [table |-> buckets, size |-> h.size, used |-> used]

WithEntry(h, e) ==
  HashTable([h.table EXCEPT ![Index(e.key, h.size)] = @ \cup {e}], h, h.used + 1)
(* Mutant: the node is deleted and used is not decremented. *)
WithoutEntry_NotCounted(h, e) ==
  HashTable([h.table EXCEPT ![Index(e.key, h.size)] = @ \ {e}], h, h.used)
WithoutEntry(h, e) ==
  HashTable([h.table EXCEPT ![Index(e.key, h.size)] = @ \ {e}], h, h.used - 1)

Rehashing(d) == d.rehashidx # -1
Length(d)    == d.ht[0].used + d.ht[1].used
Entries(d)   == Items(d.ht[0]) \cup Items(d.ht[1])

DictObject(t0, t1, idx, iters) ==
  [ht |-> Tables(t0, t1), rehashidx |-> idx, iterators |-> iters]

WithTables(d, t0, t1) == DictObject(t0, t1, d.rehashidx, d.iterators)

EmptyDict == DictObject(EmptyTable, EmptyTable, -1, 0)

-----------------------------------------------------------------------------
(* Growing and shrinking. *)

_dictNextPower(size) ==
  CHOOSE p \in TableSize : size <= p /\ \A q \in TableSize : size <= q => p <= q

CanExpand(d, size) == ~Rehashing(d) /\ d.ht[0].used <= size

(* The first table a dictionary gets is ht[0]; any later one starts a      *)
(* rehash into ht[1].                                                      *)
Expand(d, size) ==
  LET n == NewTable(_dictNextPower(size))
  IN  IF ~CanExpand(d, size) THEN d
      ELSE IF d.ht[0].size = 0
      THEN WithTables(d, n, d.ht[1])
      ELSE DictObject(d.ht[0], n, 0, d.iterators)

WantedSize(d) == IF d.ht[0].size = 0 THEN InitialSize ELSE 2 * d.ht[0].used

MinimalSize(d) == IF d.ht[0].used < InitialSize THEN InitialSize ELSE d.ht[0].used

-----------------------------------------------------------------------------
(* Rehashing.  Each of the n rounds of dictRehash skips to the next        *)
(* non-empty bucket and moves all of it; a round that starts with an empty *)
(* ht[0] makes ht[1] the only table instead.                               *)

Busy(d) == {i \in d.rehashidx .. d.ht[0].size - 1 : d.ht[0].table[i] # {}}

Batch(d, n) ==
  LET busy == Busy(d)
  IN  {i \in busy : Cardinality({j \in busy : j < i}) < n}

(* Mutant: only the head of each chain is linked into the new table. *)
Moved_HeadOnly(d, batch) == {CHOOSE e \in d.ht[0].table[i] : TRUE : i \in batch}
Moved(d, batch) == UNION {d.ht[0].table[i] : i \in batch}

Drain(h, batch, moved) ==
  HashTable([i \in 0 .. h.size - 1 |-> IF i \in batch THEN {} ELSE h.table[i]],
            h, h.used - Cardinality(moved))

Fill(h, moved) ==
  HashTable([i \in 0 .. h.size - 1 |->
               h.table[i] \cup {e \in moved : Index(e.key, h.size) = i}],
            h, h.used + Cardinality(moved))

(* The first index from rehashidx on that is past the buckets moved. *)
IsPast(d, batch, x) == x \in d.rehashidx .. d.ht[0].size /\ \A i \in batch : i < x
NextIndex(d, batch) ==
  CHOOSE x \in 0 .. d.ht[0].size :
    IsPast(d, batch, x) /\ \A y \in 0 .. d.ht[0].size : IsPast(d, batch, y) => x <= y

(* The last of the n rounds, or one before it, starts with an empty ht[0]. *)
RehashFinishes(d, n) ==
  LET batch == Batch(d, n)
  IN  /\ d.ht[0].used = Cardinality(Moved(d, batch))
      /\ Cardinality(batch) < n

Rehash(d, n) ==
  LET batch == Batch(d, n)
      moved == Moved(d, batch)
      t0    == Drain(d.ht[0], batch, moved)
      t1    == Fill(d.ht[1], moved)
  IN  IF ~Rehashing(d) THEN d
      ELSE IF t0.used = 0 /\ Cardinality(batch) < n
      THEN DictObject(t1, EmptyTable, -1, d.iterators)
      ELSE DictObject(t0, t1, NextIndex(d, batch), d.iterators)

(* Mutant: a safe iterator does not pause the rehash. *)
_dictRehashStep_Always(d) == Rehash(d, 1)

_dictRehashStep(d) == IF d.iterators = 0 THEN Rehash(d, 1) ELSE d

-----------------------------------------------------------------------------
(* Looking up, adding and removing, as functions of the dict object. *)

(* The search of dictFind, _dictKeyIndex and dictGenericDelete: ht[0], and *)
(* then ht[1] while a rehash is under way.                                 *)
Lookup_FirstTable(d, k) == InTable(d.ht[0], k)   \* mutant: ht[1] is not searched
Lookup(d, k) ==
  IF InTable(d.ht[0], k) # {} \/ ~Rehashing(d) THEN InTable(d.ht[0], k)
                                              ELSE InTable(d.ht[1], k)

(* dictFind gives up on a dictionary without a table before it rehashes. *)
AfterFind(d) == IF d.ht[0].size = 0 THEN d ELSE _dictRehashStep(d)
Found(d, k)  == IF d.ht[0].size = 0 THEN {} ELSE Lookup(_dictRehashStep(d), k)

FindResult(d, k) == IF Found(d, k) = {} THEN NullPtr ELSE CHOOSE e \in Found(d, k) : TRUE

(* New entries go to ht[1] during a rehash. *)
Insert_FirstTable(d, e) == WithTables(d, WithEntry(d.ht[0], e), d.ht[1])   \* mutant
Insert(d, e) ==
  IF Rehashing(d) THEN WithTables(d, d.ht[0], WithEntry(d.ht[1], e))
                  ELSE WithTables(d, WithEntry(d.ht[0], e), d.ht[1])

(* Entry e gets another value, in the table and the chain it is in. *)
Assign(d, e, v) ==
  LET Set(h) == WithEntry(WithoutEntry(h, e), [key |-> e.key, v |-> v])
  IN  IF InTable(d.ht[0], e.key) # {} THEN WithTables(d, Set(d.ht[0]), d.ht[1])
                                      ELSE WithTables(d, d.ht[0], Set(d.ht[1]))

Unlink(d, k) ==
  LET e == CHOOSE x \in Lookup(d, k) : TRUE
  IN  IF Lookup(d, k) = {} THEN d
      ELSE IF InTable(d.ht[0], k) # {}
      THEN WithTables(d, WithoutEntry(d.ht[0], e), d.ht[1])
      ELSE WithTables(d, d.ht[0], WithoutEntry(d.ht[1], e))

(* _dictClear visits no bucket of a table that holds nothing, and then     *)
(* does not reset it either.                                               *)
_dictClear(h) == IF h.size > 0 /\ h.used > 0 THEN EmptyTable ELSE h

(* The buckets dictGetRandomKey draws from until one is not empty. *)
RandomKeyDraws(d) ==
  IF Rehashing(d) THEN Entries(d) ELSE Items(d.ht[0])

-----------------------------------------------------------------------------
(* What holds of tables and dict objects: the parts of the invariants of   *)
(* Dict, with the code behaviour each one is about.                        *)

IsTable(h) ==
  /\ h = [table |-> h.table, size |-> h.size, used |-> h.used]
  /\ h.size \in Nat
  /\ h.used \in Nat
  /\ h.table \in [0 .. h.size - 1 -> SUBSET Entry]

IsDict(d) ==
  /\ d = DictObject(d.ht[0], d.ht[1], d.rehashidx, d.iterators)
  /\ IsTable(d.ht[0])
  /\ IsTable(d.ht[1])
  /\ d.rehashidx \in Nat \cup {-1}
  /\ d.iterators \in Nat

(* An entry lies in the bucket its hash selects in the table it is in: the *)
(* only bucket dictFind, dictAdd and dictDelete search for its key.        *)
Placed(h) == \A i \in 0 .. h.size - 1 : \A e \in h.table[i] : Index(e.key, h.size) = i

(* The counter dictht::used, which length() and every resize and rehash    *)
(* decision trust, counts the entries of its table.                        *)
Counted(h) == IsFiniteSet(Items(h)) /\ h.used = Cardinality(Items(h))

(* No key has two entries, in one table or one in each: a second entry     *)
(* would come back after the first one is deleted.                         *)
Unique(d) ==
  /\ \A e, f \in Entries(d) : e.key = f.key => e = f
  /\ Items(d.ht[0]) \cap Items(d.ht[1]) = {}

(* Both tables exist during a rehash, and the buckets of ht[0] below       *)
(* rehashidx are empty: dictRehash never looks at them again.              *)
Drained(d) ==
  Rehashing(d) => /\ d.ht[0].size > 0 /\ d.ht[1].size > 0
                  /\ d.rehashidx <= d.ht[0].size
                  /\ \A i \in 0 .. d.rehashidx - 1 : d.ht[0].table[i] = {}

(* Without a rehash nothing is left in ht[1], which no search would visit. *)
Idle(d) == ~Rehashing(d) => Items(d.ht[1]) = {}
=============================================================================
