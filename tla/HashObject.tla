----------------------------- MODULE HashObject -----------------------------
(***************************************************************************)
(* The hash of cpp_src/HashObject.cpp: a dictionary, and the two iterators *)
(* hkeys and hvals keep from one command to the next.  The iterators are   *)
(* unsafe: other commands change the dictionary under them, and a lookup   *)
(* alone moves a bucket while a rehash is under way.                       *)
(*                                                                         *)
(* What an iterator sees depends on the order of a chain, so here, other   *)
(* than in Dict, a chain is a sequence.  A pointer to a dictEntry is the   *)
(* key of the entry, or Freed once that one has been deleted.              *)
(***************************************************************************)
EXTENDS DictTables, Sequences, SequencesExt

CONSTANTS Freed,         \* a pointer to a deleted entry
          TableAddress,  \* bound: where tables are allocated
          Walk           \* of "keyiter" and "valiter", the ones in use

VARIABLES hash,     \* the dict object
          iter,     \* keyiter and valiter, the iterators of hkeys and hvals, or nullptr
          ret,      \* what the last call of the dictionary returned
          failed    \* "no", "assert" or "undefined": the process is gone

vars == <<hash, iter, ret, failed>>

(* dictIterator: table and index are where it is, nextentry the entry it   *)
(* is to return next; seen and steady are history, explained below.        *)
Address  == TableAddress \cup {NullPtr}
Iterator == [table : {0, 1}, index : Nat \cup {-1}, nextentry : Key \cup {NullPtr, Freed},
             fingerprint : Seq(Address \cup Nat), seen : Seq(Key), steady : BOOLEAN]

(* Neither a pointer to an entry, alive or deleted, nor one to an iterator *)
(* is nullptr.                                                             *)
ASSUME PointerAssumption == /\ NullPtr \notin Key \cup {Freed} /\ Freed \notin Key
                            /\ NullPtr \notin Iterator

SetOfChains(h) ==
  [table |-> [i \in DOMAIN h.table |-> ToSet(h.table[i])], size |-> h.size, used |-> h.used]

D == INSTANCE Dict WITH
       dict <- [ht |-> [t \in {0, 1} |-> SetOfChains(hash.ht[t])],
                rehashidx |-> hash.rehashidx, iterators |-> 0],
       dict_can_resize <- TRUE, Requests <- {}, ForceRatio <- 1,
       RehashBatch <- {1}, MaxIterators <- 0

NoTable     == [addr |-> NullPtr, table |-> [i \in {} |-> << >>], size |-> 0, used |-> 0]
Table(a, n) == [addr |-> a, table |-> [i \in 0 .. n - 1 |-> << >>], size |-> n, used |-> 0]

HashDict(t0, t1, idx) == [ht |-> Tables(t0, t1), rehashidx |-> idx]

(* Bucket b holds another chain, and the table n entries more.             *)
WithChain(h, b, chain, n) ==
  [addr |-> h.addr, table |-> [h.table EXCEPT ![b] = chain], size |-> h.size, used |-> h.used + n]

Bucket(k, h) == Index(k, h.size)
Linked_Replacing(h, e) ==   \* mutant: the entry does not point to the old head
  WithChain(h, Bucket(e.key, h), <<e>>, 1)
Linked(h, e) == WithChain(h, Bucket(e.key, h), <<e>> \o h.table[Bucket(e.key, h)], 1)

-----------------------------------------------------------------------------
(* The dictionary, as in Dict, on chains: _dictRehashStep, then what the   *)
(* call does.  There is no safe iterator.                                  *)

NotMoved(d) == {i \in d.rehashidx .. d.ht[0].size - 1 : d.ht[0].table[i] # << >>}

(* The entries of a moved chain become heads of theirs, one by one. *)
Relinked(h, chain) ==
  LET table[n \in 0 .. Len(chain)] ==
        IF n = 0 THEN h ELSE Linked(table[n - 1], chain[n])
  IN  table[Len(chain)]

Finished_NotReset(d) == HashDict(d.ht[1], NoTable, d.rehashidx)   \* mutant
Finished(d) == HashDict(d.ht[1], NoTable, -1)

Step(d) ==
  LET i     == CHOOSE j \in NotMoved(d) : \A b \in NotMoved(d) : j <= b
      chain == d.ht[0].table[i]
  IN  IF d.rehashidx = -1 THEN d
      ELSE IF d.ht[0].used = 0 THEN Finished(d)
      ELSE HashDict(WithChain(d.ht[0], i, << >>, -Len(chain)), Relinked(d.ht[1], chain), i + 1)

Searched(d) == IF d.ht[0].size = 0 THEN d ELSE Step(d)

Expanded(d, addr) ==
  LET n == Table(addr, _dictNextPower(WantedSize(d)))
  IN  IF ~D!MustExpand(d) THEN d
      ELSE IF d.ht[0].size = 0 THEN HashDict(n, d.ht[1], d.rehashidx)
      ELSE HashDict(d.ht[0], n, 0)

Chain(h, k)  == IF h.size = 0 THEN << >> ELSE h.table[Bucket(k, h)]
Has(h, k)    == \E p \in DOMAIN Chain(h, k) : Chain(h, k)[p].key = k
Place(h, k)  == CHOOSE p \in DOMAIN Chain(h, k) : Chain(h, k)[p].key = k
TableOf(d, k) == IF Has(d.ht[0], k) THEN 0 ELSE 1
IsIn(d, k)    == Has(d.ht[0], k) \/ Has(d.ht[1], k)
EntryOf(d, k) == LET h == d.ht[TableOf(d, k)] IN Chain(h, k)[Place(h, k)]

(* The chain of k becomes another. *)
ChainOf(d, k) == Chain(d.ht[TableOf(d, k)], k)
At(d, k)      == Place(d.ht[TableOf(d, k)], k)
WithTable(d, t, h) ==
  HashDict(IF t = 0 THEN h ELSE d.ht[0], IF t = 1 THEN h ELSE d.ht[1], d.rehashidx)
OnChain(d, k, chain, n) ==
  LET t == TableOf(d, k)
  IN  WithTable(d, t, WithChain(d.ht[t], Bucket(k, d.ht[t]), chain, n))

Inserted(d, e) ==
  LET t == IF d.rehashidx = -1 THEN 0 ELSE 1
  IN  WithTable(d, t, Linked(d.ht[t], e))

(* dictReplace: a failed add looks the key up again, which rehashes again. *)
Replaced(d, k, v, addr) ==
  LET x == Expanded(Step(d), addr)
      y == Step(x)
      e == [key |-> k, v |-> v]
  IN  IF ~IsIn(x, k) THEN Inserted(x, e)
      ELSE OnChain(y, k, [ChainOf(y, k) EXCEPT ![At(y, k)] = e], 0)

Unlinked(d, k) ==
  IF IsIn(d, k) THEN OnChain(d, k, RemoveAt(ChainOf(d, k), At(d, k)), -1) ELSE d

-----------------------------------------------------------------------------
(* The iterators.  steady and seen are history: whether the layout of the  *)
(* dictionary has stayed what it was, and the keys returned while it has.  *)

Fingerprint(d) ==
  <<d.ht[0].addr, d.ht[0].size, d.ht[0].used, d.ht[1].addr, d.ht[1].size, d.ht[1].used>>

KeysOfChains(h) == [i \in DOMAIN h.table |-> [p \in DOMAIN h.table[i] |-> h.table[i][p].key]]
Layout(d) == <<Fingerprint(d), d.rehashidx, KeysOfChains(d.ht[0]), KeysOfChains(d.ht[1])>>

NewIterator == [table |-> 0, index |-> -1, nextentry |-> NullPtr,
                fingerprint |-> Fingerprint(hash), seen |-> << >>, steady |-> TRUE]

(* The next bucket that has an entry, from table and index on: the rest of *)
(* this table, and then ht[1] while a rehash is under way.                 *)
Nowhere == [table |-> -1, index |-> -1]
TablesLeft(d, t) == IF d.rehashidx # -1 /\ t = 0 THEN {0, 1} ELSE {t}
NonEmpty(d, t, from) == {i \in from .. d.ht[t].size - 1 : d.ht[t].table[i] # << >>}
FirstBucket(d, tables, from) ==   \* from: where to begin in each table
  LET left == {u \in tables : NonEmpty(d, u, from[u]) # {}}
      t    == Min(left)
  IN  IF left = {} THEN Nowhere ELSE [table |-> t, index |-> Min(NonEmpty(d, t, from[t]))]

(* Mutants: the second table is not visited; the index does not move on.   *)
NextBucket_FirstTable(d, t, index) == FirstBucket(d, {t}, [u \in {0, 1} |-> index + 1])
NextBucket_Stuck(d, t, index) ==
  FirstBucket(d, TablesLeft(d, t), [u \in {0, 1} |-> IF u = t /\ index >= 0 THEN index ELSE 0])
NextBucket(d, t, index) ==
  FirstBucket(d, TablesLeft(d, t), [u \in {0, 1} |-> IF u = t THEN index + 1 ELSE 0])

(* The entry dictNext returns after iterator it, as a place in a chain.    *)
Advance(it) ==
  IF it.nextentry # NullPtr
  THEN LET h == hash.ht[TableOf(hash, it.nextentry)]
       IN  [table |-> it.table, index |-> it.index,
            chain |-> Chain(h, it.nextentry), p |-> Place(h, it.nextentry)]
  ELSE LET b == NextBucket(hash, it.table, it.index)
       IN  [table |-> b.table, index |-> b.index, p |-> 1,
            chain |-> IF b = Nowhere THEN << >> ELSE hash.ht[b.table].table[b.index]]

Ended(w) == w.chain = << >>
Advanced(it, w) ==
  [it EXCEPT !.table = w.table, !.index = w.index,
             !.nextentry = IF w.p < Len(w.chain) THEN w.chain[w.p + 1].key ELSE NullPtr,
             !.seen = IF it.steady THEN Append(@, w.chain[w.p].key) ELSE @]

(* An iterator when another command has changed the dictionary to d and    *)
(* deleted the entries of the keys in gone.                                *)
Under(it, d, gone) ==
  LET steady == it.steady /\ Layout(d) = Layout(hash)
  IN  IF it = NullPtr THEN it
      ELSE [it EXCEPT !.steady = steady,
                      !.seen = IF steady THEN @ ELSE << >>,
                      !.nextentry = IF @ \in gone THEN Freed ELSE @]

-----------------------------------------------------------------------------
(* The commands. *)

Init ==
  /\ hash = HashDict(NoTable, NoTable, -1)
  /\ iter = [w \in Walk |-> NullPtr]
  /\ ret = Code(OK)
  /\ failed = "no"

Becomes(d, gone) ==
  /\ failed = "no" /\ UNCHANGED failed
  /\ hash' = d
  /\ iter' = [w \in Walk |-> Under(iter[w], d, gone)]

KeySet == {k \in Key : IsIn(hash, k)}
InUse == {hash.ht[0].addr, hash.ht[1].addr}

HashSet(k, v) ==
  \E addr \in TableAddress \ InUse :
    /\ Becomes(Replaced(hash, k, v, addr), {})
    /\ ret' = Code(IF IsIn(hash, k) THEN 0 ELSE 1)

HashGet(k) ==
  /\ Becomes(Searched(hash), {})
  /\ ret' = Pointer(IF IsIn(hash, k) THEN EntryOf(hash, k) ELSE NullPtr)

HashDel(k) ==
  /\ IF hash.ht[0].size = 0 THEN Becomes(hash, {})
     ELSE Becomes(Unlinked(Step(hash), k), KeySet \cap {k})
  /\ ret' = Code(IF IsIn(hash, k) THEN OK ELSE ERR)

(* _HashIter: the first call makes the iterator, the one that finds no     *)
(* further entry deletes it, and its destructor asserts the fingerprint.   *)
_HashIter(w) ==
  LET it == IF iter[w] = NullPtr THEN NewIterator ELSE iter[w]
      at == Advance(it)
  IN  /\ failed = "no"
      /\ UNCHANGED <<hash, ret>>
      /\ IF it.nextentry = Freed THEN failed' = "undefined" /\ UNCHANGED iter
         ELSE IF ~Ended(at) THEN iter' = [iter EXCEPT ![w] = Advanced(it, at)] /\ UNCHANGED failed
         ELSE IF it.fingerprint = Fingerprint(hash)
         THEN iter' = [iter EXCEPT ![w] = NullPtr] /\ UNCHANGED failed
         ELSE failed' = "assert" /\ UNCHANGED iter

Next ==
  \/ \E k \in Key : HashGet(k) \/ HashDel(k) \/ \E v \in Value : HashSet(k, v)
  \/ \E w \in Walk : _HashIter(w)

Spec == Init /\ [][Next]_vars

(* A client that has begun a walk goes on asking for the next element.     *)
LiveSpec == Spec /\ \A w \in Walk : WF_vars(_HashIter(w))

-----------------------------------------------------------------------------
(* Properties. *)

Walking == {w \in Walk : iter[w] # NullPtr}

TypeOK ==
  /\ failed \in {"no", "assert", "undefined"}
  /\ hash.rehashidx # -1 => /\ hash.ht[0].size > 0 /\ hash.ht[1].size > 0
                            /\ hash.rehashidx \in 0 .. hash.ht[0].size
  /\ \A w \in Walking : iter[w] \in Iterator

(* The hash is a dictionary: chains in their order implement the tables of *)
(* Dict, call by call, and the iterators change nothing of it.             *)
ImplementsDict == D!Spec

(* object.h:221-225: while nothing moves, a walk follows the tables bucket *)
(* by bucket and chain by chain - so the keys of hkeys and the values of   *)
(* hvals, fetched by two walks that are not in step, pair up by their      *)
(* places - and it returns nullptr, with no assertion failed, when it has  *)
(* returned every key, and not before.                                     *)
KeysIn(h)  == FlattenSeq([i \in 1 .. h.size |-> [p \in DOMAIN h.table[i - 1] |-> h.table[i - 1][p].key]])
InOrder    == KeysIn(hash.ht[0]) \o KeysIn(hash.ht[1])
SteadyWalksReturnAll ==
  [][\A w \in Walking : iter[w].steady /\ _HashIter(w) =>
        /\ failed' = "no"
        /\ IF iter'[w] = NullPtr THEN iter[w].seen = InOrder
           ELSE IsPrefix(iter'[w].seen, InOrder)]_vars

(* object.h:218-225: a call of hkeys or hvals returns an element or, the   *)
(* walk done, nullptr, whatever other commands did since the call before.  *)
WalksReturn == [][\A w \in Walk : _HashIter(w) => failed' = "no"]_vars

(* Every walk comes to an end, or takes the process with it.               *)
WalksEnd == \A w \in Walk : (iter[w] # NullPtr) ~> (iter[w] = NullPtr \/ failed # "no")
=============================================================================
