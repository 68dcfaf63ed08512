----------------------------- MODULE DictProofs -----------------------------
(***************************************************************************)
(* Theorems about modules Dict and DictScan, for every set of keys and     *)
(* values, every hash function and every table size.                       *)
(***************************************************************************)
EXTENDS DictScan, DictTablesProofs

-----------------------------------------------------------------------------
(* Growing when needed, and adding. *)

(* _dictExpandIfNeeded always gets the table it asks for: the first early  *)
(* return of _dictKeyIndex is never taken, and ht[0] exists after it.      *)
LEMMA ExpandIfNeededConsistent ==
  ASSUME NEW d, Consistent(d)
  PROVE  /\ Consistent(_dictExpandIfNeeded(d))
         /\ Entries(_dictExpandIfNeeded(d)) = Entries(d)
         /\ _dictExpandIfNeeded(d).ht[0].size > 0
         /\ MustExpand(d) => CanExpand(d, WantedSize(d))
<1>1. /\ Sound(d.ht[0]) /\ d.ht[0].size \in Nat /\ d.ht[0].used \in Nat
      /\ \A e, f \in Items(d.ht[0]) : e.key = f.key => e = f
  BY DEF Consistent, Unique, Entries, Sound, IsTable
<1>2. 2 * d.ht[0].used <= MaxRequest
  BY <1>1, FewEntries
<1>3. d.ht[0].size = 0 => d.ht[0].used = 0
  <2>1. ASSUME d.ht[0].size = 0 PROVE Items(d.ht[0]) = {}
    BY <1>1, <2>1, ItemsByIndex
  <2>. QED BY <1>1, <2>1, FS_EmptySet DEF Sound, Counted
<1>4. WantedSize(d) \in 0 .. MaxRequest /\ d.ht[0].used <= WantedSize(d)
  BY <1>1, <1>2, <1>3, LimitAssumption DEF WantedSize
<1>5. MustExpand(d) => CanExpand(d, WantedSize(d))
  BY <1>4 DEF MustExpand, CanExpand
<1>6. CASE MustExpand(d)
  BY <1>4, <1>5, <1>6, ExpandConsistent DEF _dictExpandIfNeeded
<1>7. CASE ~MustExpand(d)
  BY <1>1, <1>7 DEF _dictExpandIfNeeded, MustExpand, Consistent, Drained
<1>. QED BY <1>5, <1>6, <1>7
(* dictAddRaw adds the entry unless the key has one, and fails only then.  *)
LEMMA AddRawConsistent ==
  ASSUME NEW d, Consistent(d), NEW k \in Key, NEW v \in Value \cup {NullPtr}
  PROVE  /\ Consistent(AddRaw(d, k, v))
         /\ AddRaw(d, k, v).ht[0].size > 0
         /\ AddRawFails(d, k) <=> HasKey(d, k)
         /\ Entries(AddRaw(d, k, v)) =
              IF HasKey(d, k) THEN Entries(d) ELSE Entries(d) \cup {[key |-> k, v |-> v]}
<1> DEFINE r == _dictRehashStep(d)
           x == _dictExpandIfNeeded(r)
           e == [key |-> k, v |-> v]
<1>1. Consistent(r) /\ Entries(r) = Entries(d)
  BY RehashStepConsistent
<1>. HIDE DEF r
<1>2. /\ Consistent(x) /\ Entries(x) = Entries(d) /\ x.ht[0].size > 0
      /\ MustExpand(r) => CanExpand(r, WantedSize(r))
  BY <1>1, ExpandIfNeededConsistent
<1>. HIDE DEF x
<1>3. Lookup(x, k) = {f \in Entries(d) : f.key = k}
  BY <1>2, LookupIsSearch
<1>4. AddRawFails(d, k) <=> HasKey(d, k)
  BY <1>2, <1>3 DEF AddRawFails, KeyIndexFails, HasKey, r, x
<1>5. AddRaw(d, k, v) = IF HasKey(d, k) THEN x ELSE Insert(x, e)
  BY <1>4 DEF AddRaw, r, x
<1>6. CASE HasKey(d, k)
  BY <1>2, <1>4, <1>5, <1>6
<1>7. CASE ~HasKey(d, k)
  <2>1. e \in Entry /\ e.key = k
    BY DEF Entry
  <2>2. \A f \in Entries(x) : f.key # e.key
    BY <1>2, <1>7, <2>1 DEF HasKey
  <2>. HIDE DEF e
  <2>3. /\ Consistent(Insert(x, e)) /\ Insert(x, e).ht[0].size > 0
        /\ Entries(Insert(x, e)) = Entries(x) \cup {e}
    BY <1>2, <2>1, <2>2, InsertConsistent
  <2>. QED BY <1>2, <1>4, <1>5, <1>7, <2>3 DEF e
<1>. QED BY <1>6, <1>7
-----------------------------------------------------------------------------
(* The inductive invariant. *)

IInv ==
  /\ Consistent(dict)
  /\ dict_can_resize \in BOOLEAN
  /\ ret \in Result

LEMMA InitIInv == Init => IInv
BY EmptyDictConsistent DEF Init, IInv, Result, Code

LEMMA Results ==
  /\ \A c \in {0, 1} : Code(c) \in Result
  /\ \A e \in Entry \cup {NullPtr} : Pointer(e) \in Result
BY DEF Code, Pointer, Result, OK, ERR

(* What each call does to the entries, whatever the tables look like; the  *)
(* invariant and the refinement both follow from it.                       *)
LEMMA AddStep ==
  ASSUME IInv, NEW k \in Key, NEW v \in Value, dictAdd(k, v)
  PROVE  /\ Consistent(dict')
         /\ HasKey(dict, k) => ret' = Code(ERR) /\ Entries(dict') = Entries(dict)
         /\ ~HasKey(dict, k) => /\ ret' = Code(OK)
                               /\ Entries(dict') = Entries(dict) \cup {[key |-> k, v |-> v]}
BY AddRawConsistent DEF IInv, dictAdd

LEMMA AddRawStep ==
  ASSUME IInv, NEW k \in Key, dictAddRaw(k)
  PROVE  /\ Consistent(dict')
         /\ HasKey(dict, k) => ret' = Pointer(NullPtr) /\ Entries(dict') = Entries(dict)
         /\ ~HasKey(dict, k) =>
              /\ ret' = Pointer([key |-> k, v |-> NullPtr])
              /\ Entries(dict') = Entries(dict) \cup {[key |-> k, v |-> NullPtr]}
BY AddRawConsistent DEF IInv, dictAddRaw

LEMMA ReplaceStep ==
  ASSUME IInv, NEW k \in Key, NEW v \in Value, dictReplace(k, v)
  PROVE  /\ Consistent(dict')
         /\ ~HasKey(dict, k) => /\ ret' = Code(1)
                               /\ Entries(dict') = Entries(dict) \cup {[key |-> k, v |-> v]}
         /\ HasKey(dict, k) =>
              /\ ret' = Code(0)
              /\ \E e \in Entries(dict) :
                   /\ e.key = k
                   /\ Entries(dict') = (Entries(dict) \ {e}) \cup {[key |-> k, v |-> v]}
<1> DEFINE d == AddRaw(dict, k, v)
           e == FindResult(d, k)
<1>1. /\ Consistent(d) /\ d.ht[0].size > 0
      /\ AddRawFails(dict, k) <=> HasKey(dict, k)
      /\ Entries(d) = IF HasKey(dict, k) THEN Entries(dict)
                                         ELSE Entries(dict) \cup {[key |-> k, v |-> v]}
  BY AddRawConsistent DEF IInv
<1>2. CASE ~HasKey(dict, k)
  BY <1>1, <1>2 DEF dictReplace
<1>3. CASE HasKey(dict, k)
  <2>1. dict' = Assign(AfterFind(d), e, v) /\ ret' = Code(0)
    BY <1>1, <1>3 DEF dictReplace
  <2>. HIDE DEF d
  <2>2. HasKey(d, k)
    BY <1>1, <1>3 DEF HasKey
  <2>3. e \in Entries(d) /\ e.key = k
    BY <1>1, <2>2, FindResultIsEntry
  <2>4. /\ Consistent(AfterFind(d)) /\ Entries(AfterFind(d)) = Entries(d)
        /\ AfterFind(d).ht[0].size > 0
    BY <1>1, FindIsSearch
  <2>. HIDE DEF e
  <2>5. /\ Consistent(Assign(AfterFind(d), e, v))
        /\ Entries(Assign(AfterFind(d), e, v)) = (Entries(d) \ {e}) \cup {[key |-> k, v |-> v]}
    BY <2>3, <2>4, AssignConsistent
  <2>. QED BY <1>1, <1>3, <2>1, <2>3, <2>5
<1>. QED BY <1>2, <1>3

LEMMA ReplaceRawStep ==
  ASSUME IInv, NEW k \in Key, dictReplaceRaw(k)
  PROVE  /\ Consistent(dict')
         /\ HasKey(dict, k) => /\ Entries(dict') = Entries(dict)
                              /\ \E e \in Entries(dict) : e.key = k /\ ret' = Pointer(e)
         /\ ~HasKey(dict, k) =>
              /\ ret' = Pointer([key |-> k, v |-> NullPtr])
              /\ Entries(dict') = Entries(dict) \cup {[key |-> k, v |-> NullPtr]}
<1> DEFINE d == AfterFind(dict)
<1>1. Consistent(d) /\ Entries(d) = Entries(dict)
  BY FindIsSearch DEF IInv
<1>2. CASE HasKey(dict, k)
  BY <1>1, <1>2, FindResultIsEntry DEF dictReplaceRaw, IInv
<1>3. CASE ~HasKey(dict, k)
  <2>1. /\ dict' = AddRaw(d, k, NullPtr)
        /\ ret' = Pointer(IF AddRawFails(d, k) THEN NullPtr ELSE [key |-> k, v |-> NullPtr])
    BY <1>3, FindResultIsEntry DEF dictReplaceRaw, IInv
  <2>. HIDE DEF d
  <2>2. ~HasKey(d, k)
    BY <1>1, <1>3 DEF HasKey
  <2>. QED BY <1>1, <1>3, <2>1, <2>2, AddRawConsistent
<1>. QED BY <1>2, <1>3

LEMMA DeleteStep ==
  ASSUME IInv, NEW k \in Key, dictDelete(k)
  PROVE  /\ Consistent(dict')
         /\ Entries(dict') = {e \in Entries(dict) : e.key # k}
         /\ ret' = Code(IF HasKey(dict, k) THEN OK ELSE ERR)
<1>1. Consistent(dict) /\ dict.ht[0].size \in Nat
  BY DEF IInv, Consistent, Sound, IsTable
<1>2. ret' = Code(IF HasKey(dict, k) THEN OK ELSE ERR)
  BY <1>1, FindIsSearch DEF dictDelete, HasKey
<1>3. CASE dict.ht[0].size = 0
  BY <1>1, <1>2, <1>3, NoTableNoEntries DEF dictDelete
<1>4. CASE dict.ht[0].size > 0
  <2> DEFINE r == _dictRehashStep(dict)
  <2>1. Consistent(r) /\ Entries(r) = Entries(dict) /\ r.ht[0].size > 0
    BY <1>1, <1>4, RehashStepConsistent
  <2>2. dict' = Unlink(r, k)
    BY <1>4 DEF dictDelete
  <2>. HIDE DEF r
  <2>. QED BY <1>2, <2>1, <2>2, UnlinkConsistent
<1>. QED BY <1>1, <1>3, <1>4

LEMMA FindStep ==
  ASSUME IInv, NEW k \in Key, dictFind(k)
  PROVE  /\ Consistent(dict') /\ Entries(dict') = Entries(dict)
         /\ HasKey(dict, k) => \E e \in Entries(dict) : e.key = k /\ ret' = Pointer(e)
         /\ ~HasKey(dict, k) => ret' = Pointer(NullPtr)
BY FindIsSearch, FindResultIsEntry DEF dictFind, IInv

LEMMA RandomKeyStep ==
  ASSUME IInv, dictGetRandomKey
  PROVE  /\ Consistent(dict') /\ Entries(dict') = Entries(dict)
         /\ \/ Entries(dict) = {} /\ ret' = Pointer(NullPtr)
            \/ \E e \in Entries(dict) : ret' = Pointer(e)
<1>1. Consistent(dict)
  BY DEF IInv
<1>2. CASE Length(dict) = 0
  <2>1. dict.ht[0].used = 0 /\ dict.ht[1].used = 0
    BY <1>1, <1>2 DEF Length, Consistent, Sound, IsTable
  <2>2. Entries(dict) = {}
    BY <1>1, <2>1, FS_EmptySet DEF Consistent, Sound, Counted, Entries
  <2>. QED BY <1>1, <1>2, <2>2 DEF dictGetRandomKey
<1>3. CASE Length(dict) # 0
  <2>1. dict' = _dictRehashStep(dict) /\ \E e \in RandomKeyDraws(dict') : ret' = Pointer(e)
    BY <1>3 DEF dictGetRandomKey
  <2>2. Consistent(dict') /\ Entries(dict') = Entries(dict)
    BY <1>1, <2>1, RehashStepConsistent
  <2>3. RandomKeyDraws(dict') \subseteq Entries(dict')
    BY DEF RandomKeyDraws, Entries
  <2>. QED BY <2>1, <2>2, <2>3
<1>. QED BY <1>2, <1>3

LEMMA EmptyStep ==
  ASSUME IInv, dictEmpty
  PROVE  Consistent(dict') /\ Entries(dict') = {} /\ ret' = ret
<1> DEFINE t0 == _dictClear(dict.ht[0])
           t1 == _dictClear(dict.ht[1])
<1>1. Sound(t0) /\ Items(t0) = {} /\ Sound(t1) /\ Items(t1) = {}
  BY ClearSound DEF IInv, Consistent
<1>2. dict' = DictObject(t0, t1, -1, 0) /\ ret' = ret
  BY DEF dictEmpty
<1>. HIDE DEF t0, t1
<1>3. Fit(t0, t1, -1, 0)
  BY <1>1 DEF Fit
<1>. QED BY <1>1, <1>2, <1>3, Assemble

(* Every other call leaves the entries alone. *)
LEMMA ReorganiseStep ==
  ASSUME IInv,
         \/ \E size \in Requests : dictExpand(size)
         \/ \E n \in RehashBatch : dictRehash(n)
         \/ dictResize
  PROVE  /\ Consistent(dict') /\ Entries(dict') = Entries(dict)
         /\ \E c \in {OK, ERR} : ret' = Code(c)
<1>1. Consistent(dict)
  BY DEF IInv
<1>2. ASSUME NEW size \in Requests, dictExpand(size)
      PROVE  Consistent(dict') /\ Entries(dict') = Entries(dict)
             /\ \E c \in {OK, ERR} : ret' = Code(c)
  <2>1. size \in 0 .. MaxRequest
    BY LimitAssumption, CallAssumption
  <2>. QED BY <1>1, <1>2, <2>1, ExpandConsistent DEF dictExpand
<1>3. ASSUME NEW n \in RehashBatch, dictRehash(n)
      PROVE  Consistent(dict') /\ Entries(dict') = Entries(dict)
             /\ \E c \in {OK, ERR} : ret' = Code(c)
  BY <1>1, <1>3, BatchAssumption, RehashConsistent DEF dictRehash, OK, ERR
<1>4. ASSUME dictResize
      PROVE  Consistent(dict') /\ Entries(dict') = Entries(dict)
             /\ \E c \in {OK, ERR} : ret' = Code(c)
  <2>1. /\ dict.ht[0].used \in Nat /\ 2 * dict.ht[0].used <= MaxRequest
    BY <1>1, FewEntries DEF Consistent, Unique, Entries
  <2>2. MinimalSize(dict) \in 0 .. MaxRequest
    BY <2>1, LimitAssumption DEF MinimalSize
  <2>. QED BY <1>1, <1>4, <2>2, ExpandConsistent DEF dictResize
<1>. QED BY <1>2, <1>3, <1>4

LEMMA IteratorStep ==
  ASSUME IInv, SafeIteratorStart \/ SafeIteratorRelease
  PROVE  /\ Consistent(dict') /\ Entries(dict') = Entries(dict) /\ ret' = ret
         /\ dict'.ht = dict.ht /\ dict'.rehashidx = dict.rehashidx
<1>1. /\ Sound(dict.ht[0]) /\ Sound(dict.ht[1]) /\ dict.iterators \in Nat
      /\ dict.rehashidx \in Nat \cup {-1}
      /\ \A x, y \in Items(dict.ht[0]) \cup Items(dict.ht[1]) : x.key = y.key => x = y
      /\ Items(dict.ht[0]) \cap Items(dict.ht[1]) = {}
      /\ dict.rehashidx = -1 => Items(dict.ht[1]) = {}
      /\ dict.rehashidx # -1 =>
           /\ dict.ht[0].size > 0 /\ dict.ht[1].size > 0
           /\ dict.rehashidx <= dict.ht[0].size
           /\ \A i \in 0 .. dict.rehashidx - 1 : dict.ht[0].table[i] = {}
  BY DEF IInv, Consistent, Unique, Entries, Idle, Drained, Rehashing
<1>2. PICK n \in Nat : /\ dict' = DictObject(dict.ht[0], dict.ht[1], dict.rehashidx, n)
                       /\ ret' = ret
  BY <1>1 DEF SafeIteratorStart, SafeIteratorRelease
<1>3. Fit(dict.ht[0], dict.ht[1], dict.rehashidx, n)
  BY <1>1 DEF Fit
<1>4. dict = DictObject(dict.ht[0], dict.ht[1], dict.rehashidx, dict.iterators)
  BY DEF IInv, Consistent
<1>5. dict'.ht = dict.ht /\ dict'.rehashidx = dict.rehashidx
  BY <1>2, <1>4 DEF DictObject
<1>. QED BY <1>2, <1>3, <1>5, Assemble DEF Entries

-----------------------------------------------------------------------------
(* The invariant is inductive. *)


LEMMA NextIInv == IInv /\ [Next]_vars => IInv'
<1>. SUFFICES ASSUME IInv, [Next]_vars
              PROVE  IInv'
  OBVIOUS
<1>. SUFFICES Consistent(dict') /\ dict_can_resize' \in BOOLEAN /\ ret' \in Result
  BY DEF IInv, Consistent, Unique, Drained, Idle, Entries, Rehashing
<1>1. ret \in Result /\ dict_can_resize \in BOOLEAN /\ Entries(dict) \subseteq Entry
  BY EntriesAreEntry DEF IInv
<1>2. ASSUME NEW k \in Key, NEW v \in Value, dictAdd(k, v)
      PROVE  Consistent(dict') /\ dict_can_resize' \in BOOLEAN /\ ret' \in Result
  BY <1>1, <1>2, AddStep, Results DEF dictAdd, OK, ERR
<1>3. ASSUME NEW k \in Key, NEW v \in Value, dictReplace(k, v)
      PROVE  Consistent(dict') /\ dict_can_resize' \in BOOLEAN /\ ret' \in Result
  <2>1. dict_can_resize' = dict_can_resize
    BY <1>3 DEF dictReplace
  <2>. QED BY <1>1, <1>3, <2>1, ReplaceStep, Results
<1>4. ASSUME NEW k \in Key, dictAddRaw(k)
      PROVE  Consistent(dict') /\ dict_can_resize' \in BOOLEAN /\ ret' \in Result
  <2>1. [key |-> k, v |-> NullPtr] \in Entry
    BY DEF Entry
  <2>. QED BY <1>1, <1>4, <2>1, AddRawStep, Results DEF dictAddRaw
<1>5. ASSUME NEW k \in Key, dictReplaceRaw(k)
      PROVE  Consistent(dict') /\ dict_can_resize' \in BOOLEAN /\ ret' \in Result
  <2>1. [key |-> k, v |-> NullPtr] \in Entry
    BY DEF Entry
  <2>2. dict_can_resize' = dict_can_resize
    BY <1>5 DEF dictReplaceRaw
  <2>. QED BY <1>1, <1>5, <2>1, <2>2, ReplaceRawStep, Results
<1>6. ASSUME NEW k \in Key, dictDelete(k)
      PROVE  Consistent(dict') /\ dict_can_resize' \in BOOLEAN /\ ret' \in Result
  BY <1>1, <1>6, DeleteStep, Results DEF dictDelete, OK, ERR
<1>7. ASSUME NEW k \in Key, dictFind(k)
      PROVE  Consistent(dict') /\ dict_can_resize' \in BOOLEAN /\ ret' \in Result
  BY <1>1, <1>7, FindStep, Results DEF dictFind
<1>8. CASE dictGetRandomKey
  BY <1>1, <1>8, RandomKeyStep, Results DEF dictGetRandomKey
<1>9. CASE \/ \E size \in Requests : dictExpand(size)
           \/ \E n \in RehashBatch : dictRehash(n)
           \/ dictResize
  <2>1. dict_can_resize' = dict_can_resize
    BY <1>9 DEF dictExpand, dictRehash, dictResize
  <2>. QED BY <1>1, <1>9, <2>1, ReorganiseStep, Results DEF OK, ERR
<1>10. CASE dictEmpty
  BY <1>1, <1>10, EmptyStep DEF dictEmpty
<1>11. CASE dictEnableResize \/ dictDisableResize
  BY <1>1, <1>11 DEF dictEnableResize, dictDisableResize, IInv
<1>12. CASE SafeIteratorStart \/ SafeIteratorRelease
  BY <1>1, <1>12, IteratorStep DEF SafeIteratorStart, SafeIteratorRelease
<1>13. CASE UNCHANGED vars
  BY <1>1, <1>13 DEF vars, IInv
<1>. QED BY <1>2, <1>3, <1>4, <1>5, <1>6, <1>7, <1>8, <1>9, <1>10, <1>11, <1>12, <1>13
         DEF Next, KeyOperation, TableOperation

THEOREM Inductive == Spec => []IInv
BY InitIInv, NextIInv, PTL DEF Spec

-----------------------------------------------------------------------------
(* The invariants the runs check. *)

(* The dict object, the switch and the results keep their shape. *)
THEOREM TypeCorrect == Spec => []TypeOK
<1>1. IInv => TypeOK
  BY DEF IInv, Consistent, Sound, TypeOK, IsDict
<1>. QED BY <1>1, Inductive, PTL

(* Entries are where their keys are searched, counted, alone with their    *)
(* key, and never left behind rehashidx nor in ht[1] when a rehash is over.*)
THEOREM TablesStayConsistent == Spec => []TablesConsistent
<1>1. IInv => TablesConsistent
  BY DEF IInv, Consistent, Sound, TablesConsistent, EntriesPlaced, UsedExact, KeysUnique,
         MovedBucketsEmpty, SecondTableIdle
<1>. QED BY <1>1, Inductive, PTL

LEMMA UsedMeansEntries ==
  ASSUME NEW h, Sound(h), h.used > 0
  PROVE  Items(h) # {}
BY FS_EmptySet DEF Sound, Counted

(* The skip loop of dictRehash never runs off the end of ht[0]. *)
THEOREM SkipLoopStops == Spec => []RehashInBounds
<1>1. ASSUME IInv, Rehashing(dict), dict.ht[0].used > 0
      PROVE  Busy(dict) # {}
  <2>1. /\ Sound(dict.ht[0]) /\ Drained(dict) /\ dict.rehashidx \in Nat
        /\ dict.ht[0].size \in Nat
    BY <1>1 DEF IInv, Consistent, Sound, IsTable, Rehashing
  <2>2. PICK i \in 0 .. dict.ht[0].size - 1 : dict.ht[0].table[i] # {}
    BY <1>1, <2>1, UsedMeansEntries DEF Items
  <2>3. ~(i < dict.rehashidx)
    BY <1>1, <2>1, <2>2 DEF Drained
  <2>. QED BY <2>1, <2>2, <2>3 DEF Busy
<1>2. IInv => RehashInBounds
  BY <1>1 DEF RehashInBounds
<1>. QED BY <1>2, Inductive, PTL

(* dictGetRandomKey always has a bucket to draw that is not empty. *)
THEOREM RandomDrawEnds == Spec => []RandomKeyTerminates
<1>1. ASSUME NEW d, Consistent(d), Length(d) > 0
      PROVE  RandomKeyDraws(d) # {}
  <2>1. Items(d.ht[0]) # {} \/ Items(d.ht[1]) # {}
    BY <1>1, UsedMeansEntries DEF Length, Consistent, Sound, IsTable
  <2>. QED BY <1>1, <2>1 DEF RandomKeyDraws, Entries, Consistent, Idle
<1>2. IInv => RandomKeyTerminates
  BY <1>1, RehashStepConsistent DEF IInv, RandomKeyTerminates
<1>. QED BY <1>2, Inductive, PTL

(* So both loops without a bound of their own end. *)
THEOREM LoopsTerminate == Spec => []LoopsEnd
BY SkipLoopStops, RandomDrawEnds, PTL DEF LoopsEnd

-----------------------------------------------------------------------------
(* The dictionary implements a map, call by call. *)

LEMMA MapOfEntries ==
  ASSUME NEW d, Consistent(d)
  PROVE  /\ \A k : k \in DOMAIN MapOf(d) <=> HasKey(d, k)
         /\ \A e \in Entries(d) : MapOf(d)[e.key] = e.v
<1>1. \A e, f \in Entries(d) : e.key = f.key => e = f
  BY DEF Consistent, Unique
<1>2. ASSUME NEW e \in Entries(d)
      PROVE  (CHOOSE f \in Entries(d) : f.key = e.key) = e
  BY <1>1
<1>. QED BY <1>2 DEF MapOf, HasKey

(* A function with the pairs of the entries is the map. *)
LEMMA MapOfIs ==
  ASSUME NEW d, Consistent(d), NEW D, NEW m, m = [k \in D |-> m[k]],
         \A k : k \in D <=> HasKey(d, k),
         \A e \in Entries(d) : m[e.key] = e.v
  PROVE  MapOf(d) = m
<1>1. DOMAIN MapOf(d) = D
  BY MapOfEntries
<1>2. MapOf(d) = [k \in D |-> MapOf(d)[k]]
  BY <1>1 DEF MapOf
<1>3. ASSUME NEW k \in D PROVE MapOf(d)[k] = m[k]
  <2>1. PICK e \in Entries(d) : e.key = k
    BY DEF HasKey
  <2>. QED BY <2>1, MapOfEntries
<1>. QED BY <1>2, <1>3

LEMMA SameEntriesSameMap ==
  ASSUME NEW c, NEW d, Entries(c) = Entries(d)
  PROVE  MapOf(c) = MapOf(d)
BY DEF MapOf

(* An entry that is added, or takes the place of the entry of its key. *)
PutEntry(c, d, k, v) ==
  Entries(d) = {e \in Entries(c) : e.key # k} \cup {[key |-> k, v |-> v]}

PutIn(m, k, v) == [x \in DOMAIN m \cup {k} |-> IF x = k THEN v ELSE m[x]]

LEMMA MapOfPut ==
  ASSUME NEW c, NEW d, Consistent(c), Consistent(d), NEW k, NEW v, PutEntry(c, d, k, v)
  PROVE  MapOf(d) = PutIn(MapOf(c), k, v)
<1> DEFINE D == DOMAIN MapOf(c) \cup {k}
           m == [x \in D |-> IF x = k THEN v ELSE MapOf(c)[x]]
<1>0. Entries(d) = {e \in Entries(c) : e.key # k} \cup {[key |-> k, v |-> v]}
  BY DEF PutEntry
<1>1. \A x : x \in D <=> HasKey(d, x)
  <2>1. \A x : x \in DOMAIN MapOf(c) <=> HasKey(c, x)
    BY MapOfEntries
  <2>2. HasKey(d, k)
    <3>1. [key |-> k, v |-> v] \in Entries(d) /\ [key |-> k, v |-> v].key = k
      BY <1>0
    <3>. QED BY <3>1 DEF HasKey
  <2>3. ASSUME NEW x, x # k PROVE HasKey(d, x) <=> HasKey(c, x)
    BY <1>0, <2>3 DEF HasKey
  <2>. QED BY <2>1, <2>2, <2>3
<1>2. ASSUME NEW e \in Entries(d) PROVE m[e.key] = e.v
  <2>1. CASE e.key = k
    <3>1. e = [key |-> k, v |-> v]
      BY <1>0, <2>1
    <3>. QED BY <3>1
  <2>2. CASE e.key # k
    <3>1. e \in Entries(c)
      BY <1>0, <2>2
    <3>2. MapOf(c)[e.key] = e.v /\ e.key \in DOMAIN MapOf(c)
      BY <3>1, MapOfEntries DEF HasKey
    <3>. QED BY <2>2, <3>2
  <2>. QED BY <2>1, <2>2
<1>3. m = [x \in D |-> m[x]]
  OBVIOUS
<1>. HIDE DEF m, D
<1>4. MapOf(d) = m
  BY <1>1, <1>2, <1>3, MapOfIs
<1>. QED BY <1>4 DEF m, D, PutIn

RemoveKey(c, d, k) == Entries(d) = {e \in Entries(c) : e.key # k}

LEMMA MapOfRemove ==
  ASSUME NEW c, NEW d, Consistent(c), Consistent(d), NEW k, RemoveKey(c, d, k)
  PROVE  MapOf(d) = [x \in DOMAIN MapOf(c) \ {k} |-> MapOf(c)[x]]
<1> DEFINE D == DOMAIN MapOf(c) \ {k}
           m == [x \in D |-> MapOf(c)[x]]
<1>1. \A x : x \in D <=> HasKey(d, x)
  BY MapOfEntries DEF HasKey, RemoveKey
<1>2. ASSUME NEW e \in Entries(d) PROVE m[e.key] = e.v
  <2>1. MapOf(c)[e.key] = e.v /\ e.key \in DOMAIN MapOf(c) /\ e.key # k
    BY MapOfEntries DEF HasKey, RemoveKey
  <2>. QED BY <2>1
<1>3. m = [x \in D |-> m[x]]
  OBVIOUS
<1>. HIDE DEF m, D
<1>4. MapOf(d) = m
  BY <1>1, <1>2, <1>3, MapOfIs
<1>. QED BY <1>4 DEF m, D

(* A lookup's result in the map: the pair of an entry is the entry. *)
LEMMA PairIsEntry ==
  ASSUME IInv, NEW e \in Entries(dict)
  PROVE  e.key \in DOMAIN MapOf(dict) /\ Map!Pair(e.key) = e
<1>1. e.key \in DOMAIN MapOf(dict) /\ MapOf(dict)[e.key] = e.v
  BY MapOfEntries DEF IInv, HasKey
<1>2. e = [key |-> e.key, v |-> e.v]
  BY EntriesAreEntry DEF IInv, Entry
<1>. QED BY <1>1, <1>2 DEF Map!Pair

LEMMA PutIsAdd ==
  ASSUME IInv, Consistent(dict'), NEW k, NEW v, ~HasKey(dict, k),
         Entries(dict') = Entries(dict) \cup {[key |-> k, v |-> v]}
  PROVE  MapOf(dict)' = Map!Put(k, v) /\ k \notin DOMAIN MapOf(dict)
<1>1. PutEntry(dict, dict', k, v)
  BY DEF HasKey, PutEntry
<1>2. Consistent(dict)
  BY DEF IInv
<1>3. MapOf(dict') = PutIn(MapOf(dict), k, v)
  BY <1>1, <1>2, MapOfPut
<1>. QED BY <1>2, <1>3, MapOfEntries DEF Map!Put, PutIn

LEMMA SameMap ==
  ASSUME IInv, Entries(dict') = Entries(dict)
  PROVE  MapOf(dict)' = MapOf(dict)
BY SameEntriesSameMap

LEMMA AddImplements ==
  ASSUME IInv, NEW k \in Key, NEW v \in Value, dictAdd(k, v)
  PROVE  Map!Add(k, v)
<1>1. CASE HasKey(dict, k)
  BY <1>1, AddStep, SameMap, MapOfEntries DEF Map!Add, IInv, Code, Map!Code, ERR, Map!ERR
<1>2. CASE ~HasKey(dict, k)
  BY <1>2, AddStep, PutIsAdd DEF Map!Add, Code, Map!Code, ERR, Map!ERR, OK, Map!OK
<1>. QED BY <1>1, <1>2

LEMMA AddRawImplements ==
  ASSUME IInv, NEW k \in Key, dictAddRaw(k)
  PROVE  Map!AddRaw(k)
<1>1. CASE HasKey(dict, k)
  BY <1>1, AddRawStep, SameMap, MapOfEntries
     DEF Map!AddRaw, IInv, Pointer, Map!Pointer, ERR, Map!ERR
<1>2. CASE ~HasKey(dict, k)
  BY <1>2, AddRawStep, PutIsAdd DEF Map!AddRaw, Pointer, Map!Pointer, ERR, Map!ERR
<1>. QED BY <1>1, <1>2

LEMMA ReplaceImplements ==
  ASSUME IInv, NEW k \in Key, NEW v \in Value, dictReplace(k, v)
  PROVE  Map!Replace(k, v)
<1>1. CASE HasKey(dict, k)
  <2>1. PICK e \in Entries(dict) :
          /\ e.key = k
          /\ Entries(dict') = (Entries(dict) \ {e}) \cup {[key |-> k, v |-> v]}
    BY <1>1, ReplaceStep
  <2>2. PutEntry(dict, dict', k, v)
    BY <2>1 DEF IInv, Consistent, Unique, PutEntry
  <2>3. Consistent(dict) /\ Consistent(dict')
    BY ReplaceStep DEF IInv
  <2>4. MapOf(dict') = PutIn(MapOf(dict), k, v)
    BY <2>2, <2>3, MapOfPut
  <2>5. MapOf(dict)' = Map!Put(k, v)
    BY <2>4 DEF Map!Put, PutIn
  <2>. QED BY <1>1, <2>5, ReplaceStep, MapOfEntries DEF Map!Replace, IInv, Code, Map!Code, ERR, Map!ERR
<1>2. CASE ~HasKey(dict, k)
  BY <1>2, ReplaceStep, PutIsAdd DEF Map!Replace, Code, Map!Code, ERR, Map!ERR
<1>. QED BY <1>1, <1>2

LEMMA ReplaceRawImplements ==
  ASSUME IInv, NEW k \in Key, dictReplaceRaw(k)
  PROVE  Map!ReplaceRaw(k)
<1>1. CASE HasKey(dict, k)
  BY <1>1, ReplaceRawStep, SameMap, PairIsEntry
     DEF Map!ReplaceRaw, Pointer, Map!Pointer, ERR, Map!ERR
<1>2. CASE ~HasKey(dict, k)
  BY <1>2, ReplaceRawStep, PutIsAdd DEF Map!ReplaceRaw, Pointer, Map!Pointer, ERR, Map!ERR
<1>. QED BY <1>1, <1>2

LEMMA DeleteImplements ==
  ASSUME IInv, NEW k \in Key, dictDelete(k)
  PROVE  Map!Delete(k)
<1>0. RemoveKey(dict, dict', k)
  BY DeleteStep DEF RemoveKey
<1>1. MapOf(dict') = [x \in DOMAIN MapOf(dict) \ {k} |-> MapOf(dict)[x]]
  BY <1>0, DeleteStep, MapOfRemove DEF IInv
<1>2. CASE HasKey(dict, k)
  BY <1>1, <1>2, DeleteStep, MapOfEntries DEF Map!Delete, IInv, Code, Map!Code, ERR, Map!ERR, OK, Map!OK
<1>3. CASE ~HasKey(dict, k)
  <2>1. Entries(dict') = Entries(dict)
    BY <1>3, DeleteStep DEF HasKey
  <2>. QED BY <1>3, <2>1, SameMap, DeleteStep, MapOfEntries
           DEF Map!Delete, IInv, Code, Map!Code, ERR, Map!ERR
<1>. QED BY <1>2, <1>3

LEMMA FindImplements ==
  ASSUME IInv, NEW k \in Key, dictFind(k)
  PROVE  Map!Find(k)
<1>1. CASE HasKey(dict, k)
  BY <1>1, FindStep, SameMap, PairIsEntry DEF Map!Find, Pointer, Map!Pointer, ERR, Map!ERR
<1>2. CASE ~HasKey(dict, k)
  BY <1>2, FindStep, SameMap, MapOfEntries DEF Map!Find, IInv, Pointer, Map!Pointer, ERR, Map!ERR
<1>. QED BY <1>1, <1>2

LEMMA RandomKeyImplements ==
  ASSUME IInv, dictGetRandomKey
  PROVE  Map!RandomKey
<1>1. CASE \E e \in Entries(dict) : ret' = Pointer(e)
  BY <1>1, RandomKeyStep, SameMap, PairIsEntry DEF Map!RandomKey, Pointer, Map!Pointer, ERR, Map!ERR
<1>2. CASE Entries(dict) = {} /\ ret' = Pointer(NullPtr)
  BY <1>2, RandomKeyStep, SameMap, MapOfEntries
     DEF Map!RandomKey, IInv, HasKey, Pointer, Map!Pointer, ERR, Map!ERR
<1>. QED BY <1>1, <1>2, RandomKeyStep

LEMMA EmptyImplements ==
  ASSUME IInv, dictEmpty
  PROVE  Map!Clear
BY EmptyStep DEF Map!Clear, MapOf

LEMMA ReorganiseImplements ==
  ASSUME IInv,
         \/ \E size \in Requests : dictExpand(size)
         \/ \E n \in RehashBatch : dictRehash(n)
         \/ dictResize
  PROVE  Map!Reorganise
BY ReorganiseStep, SameMap DEF Map!Reorganise, Code, Map!Code, ERR, Map!ERR, OK, Map!OK

LEMMA InitImplements == Init => Map!Init
BY EmptyDictConsistent DEF Init, Map!Init, MapOf, Code, Map!Code, OK, Map!OK

LEMMA CallsImplement ==
  ASSUME IInv
  PROVE  /\ \A k \in Key :
              /\ \A v \in Value : /\ dictAdd(k, v) => Map!Add(k, v)
                                  /\ dictReplace(k, v) => Map!Replace(k, v)
              /\ dictAddRaw(k) => Map!AddRaw(k)
              /\ dictReplaceRaw(k) => Map!ReplaceRaw(k)
              /\ dictDelete(k) => Map!Delete(k)
              /\ dictFind(k) => Map!Find(k)
         /\ dictGetRandomKey => Map!RandomKey
         /\ dictEmpty => Map!Clear
BY AddImplements, ReplaceImplements, AddRawImplements, ReplaceRawImplements,
   DeleteImplements, FindImplements, RandomKeyImplements, EmptyImplements

(* Each call does to the map, and returns, exactly what dict.h says of it, *)
(* wherever the rehash stands.                                             *)
THEOREM CallsAreMapCalls == Spec => CallsKeepTheirPromise
<1>. USE DEF CallsKeepTheirPromise
<1>1. IInv /\ [Next]_vars =>
        [/\ \A k \in Key :
              /\ \A v \in Value : /\ dictAdd(k, v) => Map!Add(k, v)
                                  /\ dictReplace(k, v) => Map!Replace(k, v)
              /\ dictAddRaw(k) => Map!AddRaw(k)
              /\ dictReplaceRaw(k) => Map!ReplaceRaw(k)
              /\ dictDelete(k) => Map!Delete(k)
              /\ dictFind(k) => Map!Find(k)
         /\ dictGetRandomKey => Map!RandomKey
         /\ dictEmpty => Map!Clear]_vars
  BY CallsImplement
<1>. QED BY <1>1, Inductive, PTL DEF Spec

LEMMA StepsImplement == IInv /\ [Next]_vars => [Map!Next]_(Map!vars)
<1>. SUFFICES ASSUME IInv, [Next]_vars
              PROVE  Map!Next \/ UNCHANGED Map!vars
  OBVIOUS
<1>1. CASE \E k \in Key, v \in Value : dictAdd(k, v) \/ dictReplace(k, v)
  BY <1>1, CallsImplement DEF Map!Next
<1>2. CASE \E k \in Key : dictAddRaw(k) \/ dictReplaceRaw(k) \/ dictDelete(k) \/ dictFind(k)
  BY <1>2, CallsImplement DEF Map!Next
<1>3. CASE dictGetRandomKey \/ dictEmpty
  BY <1>3, CallsImplement DEF Map!Next
<1>4. CASE \/ \E size \in Requests : dictExpand(size)
           \/ \E n \in RehashBatch : dictRehash(n)
           \/ dictResize
  BY <1>4, ReorganiseImplements DEF Map!Next
<1>5. CASE SafeIteratorStart \/ SafeIteratorRelease
  <2>1. Entries(dict') = Entries(dict) /\ ret' = ret
    BY <1>5, IteratorStep
  <2>2. MapOf(dict)' = MapOf(dict)
    BY <2>1, SameMap
  <2>. QED BY <2>1, <2>2 DEF Map!vars
<1>6. CASE dictEnableResize \/ dictDisableResize
  BY <1>6 DEF dictEnableResize, dictDisableResize, Map!vars
<1>7. CASE UNCHANGED vars
  BY <1>7 DEF vars, Map!vars
<1>. QED BY <1>1, <1>2, <1>3, <1>4, <1>5, <1>6, <1>7 DEF Next, KeyOperation, TableOperation

(* Two tables and a rehash in any state are, to a caller, one map. *)
THEOREM Refinement == Spec => ImplementsMap
BY InitImplements, StepsImplement, Inductive, PTL DEF Spec, ImplementsMap, Map!Spec

-----------------------------------------------------------------------------
(* A rehash drains ht[0]: what is added meanwhile goes to ht[1]. *)

LEMMA AddRawToNewTable ==
  ASSUME NEW d, Consistent(d), NEW k \in Key, NEW v \in Value \cup {NullPtr}, ~HasKey(d, k),
         Rehashing(AddRaw(d, k, v))
  PROVE  Items(AddRaw(d, k, v).ht[0]) \subseteq Entries(d)
<1> DEFINE r == _dictRehashStep(d)
           x == _dictExpandIfNeeded(r)
           e == [key |-> k, v |-> v]
<1>1. Consistent(r) /\ Entries(r) = Entries(d)
  BY RehashStepConsistent
<1>2. Entries(x) = Entries(d)
  <2>. HIDE DEF r
  <2>. QED BY <1>1, ExpandIfNeededConsistent
<1>3. AddRaw(d, k, v) = Insert(x, e)
  BY AddRawConsistent DEF AddRaw
<1>. HIDE DEF x
<1>4. Rehashing(x)
  BY <1>3, Parts DEF Insert, WithTables, Rehashing
<1>5. Insert(x, e).ht[0] = x.ht[0]
  BY <1>4, Parts DEF Insert, WithTables
<1>. QED BY <1>2, <1>3, <1>5 DEF Entries

LEMMA NewKeysStep ==
  ASSUME IInv, [Next]_vars, Rehashing(dict'), NEW e \in Items(dict'.ht[0])
  PROVE  e.key \in KeysOf(dict)
<1>1. e \in Entries(dict')
  BY DEF Entries
<1>2. CASE \A f \in Entries(dict') : \E g \in Entries(dict) : g.key = f.key
  BY <1>1, <1>2 DEF KeysOf
<1>3. ASSUME NEW d, NEW k \in Key, NEW v \in Value \cup {NullPtr}, Consistent(d),
             Entries(d) = Entries(dict), ~HasKey(dict, k), dict' = AddRaw(d, k, v)
      PROVE  e.key \in KeysOf(dict)
  <2>1. ~HasKey(d, k)
    BY <1>3 DEF HasKey
  <2>2. Items(dict'.ht[0]) \subseteq Entries(dict)
    BY <1>3, <2>1, AddRawToNewTable
  <2>. QED BY <2>2 DEF KeysOf
<1>4. Consistent(dict)
  BY DEF IInv
<1>5. ASSUME NEW k \in Key, NEW v \in Value, dictAdd(k, v)
      PROVE  e.key \in KeysOf(dict)
  <2>1. CASE HasKey(dict, k)
    BY <1>2, <1>5, <2>1, AddStep
  <2>2. CASE ~HasKey(dict, k)
    BY <1>3, <1>4, <1>5, <2>2 DEF dictAdd
  <2>. QED BY <2>1, <2>2
<1>6. ASSUME NEW k \in Key, dictAddRaw(k)
      PROVE  e.key \in KeysOf(dict)
  <2>1. CASE HasKey(dict, k)
    BY <1>2, <1>6, <2>1, AddRawStep
  <2>2. CASE ~HasKey(dict, k)
    BY <1>3, <1>4, <1>6, <2>2 DEF dictAddRaw
  <2>. QED BY <2>1, <2>2
<1>7. ASSUME NEW k \in Key, NEW v \in Value, dictReplace(k, v)
      PROVE  e.key \in KeysOf(dict)
  <2>1. CASE HasKey(dict, k)
    <3>1. PICK f \in Entries(dict) :
            /\ f.key = k
            /\ Entries(dict') = (Entries(dict) \ {f}) \cup {[key |-> k, v |-> v]}
      BY <1>7, <2>1, ReplaceStep
    <3>. QED BY <1>2, <3>1
  <2>2. CASE ~HasKey(dict, k)
    <3>1. dict' = AddRaw(dict, k, v)
      BY <1>4, <1>7, <2>2, AddRawConsistent DEF dictReplace
    <3>. QED BY <1>3, <1>4, <2>2, <3>1
  <2>. QED BY <2>1, <2>2
<1>8. ASSUME NEW k \in Key, dictReplaceRaw(k)
      PROVE  e.key \in KeysOf(dict)
  <2>1. CASE HasKey(dict, k)
    BY <1>2, <1>8, <2>1, ReplaceRawStep
  <2>2. CASE ~HasKey(dict, k)
    <3>1. Consistent(AfterFind(dict)) /\ Entries(AfterFind(dict)) = Entries(dict)
      BY <1>4, FindIsSearch
    <3>2. dict' = AddRaw(AfterFind(dict), k, NullPtr)
      BY <1>4, <1>8, <2>2, FindResultIsEntry DEF dictReplaceRaw
    <3>. QED BY <1>3, <2>2, <3>1, <3>2
  <2>. QED BY <2>1, <2>2
<1>9. CASE \E k \in Key : dictDelete(k) \/ dictFind(k)
  BY <1>2, <1>9, DeleteStep, FindStep
<1>10. CASE \/ \E size \in Requests : dictExpand(size)
            \/ \E n \in RehashBatch : dictRehash(n)
            \/ dictResize
  BY <1>2, <1>10, ReorganiseStep
<1>11. CASE dictGetRandomKey \/ dictEmpty
  BY <1>2, <1>11, RandomKeyStep, EmptyStep
<1>12. CASE SafeIteratorStart \/ SafeIteratorRelease
  BY <1>2, <1>12, IteratorStep
<1>13. CASE dictEnableResize \/ dictDisableResize \/ UNCHANGED vars
  BY <1>2, <1>13 DEF dictEnableResize, dictDisableResize, vars
<1>. QED BY <1>5, <1>6, <1>7, <1>8, <1>9, <1>10, <1>11, <1>12, <1>13
         DEF Next, KeyOperation, TableOperation

(* While a rehash is under way no new key enters ht[0], so it runs empty.  *)
THEOREM RehashDrains == Spec => NewKeysGoToNewTable
<1>1. IInv /\ [Next]_vars =>
        [Rehashing(dict') => \A e \in Items(dict'.ht[0]) : e.key \in KeysOf(dict)]_vars
  BY NewKeysStep
<1>. QED BY <1>1, Inductive, PTL DEF Spec, NewKeysGoToNewTable

-----------------------------------------------------------------------------
(* While a safe iterator lives, no call moves an entry from ht[0] to ht[1].*)

Stays(d, x) == \A e \in Items(d.ht[0]) : e \notin Items(x.ht[1])

LEMMA PausedSteps ==
  ASSUME NEW d, Consistent(d), d.iterators > 0
  PROVE  _dictRehashStep(d) = d /\ AfterFind(d) = d
BY DEF _dictRehashStep, AfterFind

(* A new second table is empty. *)
LEMMA ExpandStays ==
  ASSUME NEW d, Consistent(d), NEW n \in 0 .. MaxRequest
  PROVE  /\ Items(Expand(d, n).ht[1]) \subseteq Items(d.ht[1])
         /\ Expand(d, n).iterators = d.iterators
<1> DEFINE t == NewTable(_dictNextPower(n))
<1>1. Items(t) = {}
  BY NextPowerType, NewTableSound
<1>. HIDE DEF t
<1>2. CASE ~CanExpand(d, n)
  BY <1>2 DEF Expand
<1>3. CASE CanExpand(d, n)
  <2>1. CASE d.ht[0].size = 0
    <3>1. Expand(d, n) = DictObject(t, d.ht[1], d.rehashidx, d.iterators)
      BY <1>3, <2>1 DEF Expand, WithTables, t
    <3>. QED BY <3>1, Parts
  <2>2. CASE d.ht[0].size # 0
    <3>1. Expand(d, n) = DictObject(d.ht[0], t, 0, d.iterators)
      BY <1>3, <2>2 DEF Expand, t
    <3>. QED BY <1>1, <3>1, Parts
  <2>. QED BY <2>1, <2>2
<1>. QED BY <1>2, <1>3


LEMMA ExpandIfNeededStays ==
  ASSUME NEW d, Consistent(d)
  PROVE  /\ Items(_dictExpandIfNeeded(d).ht[1]) \subseteq Items(d.ht[1])
         /\ _dictExpandIfNeeded(d).iterators = d.iterators
BY WantedSizeBounded, ExpandStays DEF _dictExpandIfNeeded

(* A new entry that goes to ht[1] has a key that ht[0] does not have. *)
LEMMA AddRawStays ==
  ASSUME NEW d, Consistent(d), d.iterators > 0,
         NEW k \in Key, NEW v \in Value \cup {NullPtr}
  PROVE  Stays(d, AddRaw(d, k, v)) /\ AddRaw(d, k, v).iterators = d.iterators
         /\ (HasKey(d, k) => Items(AddRaw(d, k, v).ht[1]) \subseteq Items(d.ht[1]))
<1> DEFINE x == _dictExpandIfNeeded(d)
           e == [key |-> k, v |-> v]
<1>1. _dictRehashStep(d) = d
  BY PausedSteps
<1>2. /\ Consistent(x) /\ Entries(x) = Entries(d)
      /\ Items(x.ht[1]) \subseteq Items(d.ht[1]) /\ x.iterators = d.iterators
  BY ExpandIfNeededConsistent, ExpandIfNeededStays
<1>3. AddRaw(d, k, v) = IF HasKey(d, k) THEN x ELSE Insert(x, e)
  BY <1>1, AddRawConsistent DEF AddRaw
<1>4. Items(d.ht[0]) \cap Items(d.ht[1]) = {}
  BY DEF Consistent, Unique
<1>. HIDE DEF x
<1>5. CASE HasKey(d, k)
  BY <1>2, <1>3, <1>4, <1>5 DEF Stays
<1>6. CASE ~HasKey(d, k)
  <2>1. e \in Entry /\ e \notin Entries(d) /\ e.key = k
    BY <1>6 DEF Entry, HasKey
  <2>. HIDE DEF e
  <2>2. e \notin Items(d.ht[0]) /\ e \notin Items(x.ht[1])
    BY <1>2, <2>1 DEF Entries
  <2>3. CASE Rehashing(x)
    <3>1. Insert(x, e) = DictObject(x.ht[0], WithEntry(x.ht[1], e), x.rehashidx, x.iterators)
      BY <2>3 DEF Insert, WithTables
    <3>2. Items(WithEntry(x.ht[1], e)) = Items(x.ht[1]) \cup {e}
      BY <1>2, <2>1, <2>2, <2>3, WithEntrySound DEF Consistent, Drained
    <3>3. Insert(x, e).ht[1] = WithEntry(x.ht[1], e) /\ Insert(x, e).iterators = x.iterators
      BY <3>1, Parts
    <3>. QED BY <1>2, <1>3, <1>4, <1>6, <2>2, <3>2, <3>3 DEF Stays
  <2>4. CASE ~Rehashing(x)
    <3>1. Insert(x, e) = DictObject(WithEntry(x.ht[0], e), x.ht[1], x.rehashidx, x.iterators)
      BY <2>4 DEF Insert, WithTables
    <3>2. Insert(x, e).ht[1] = x.ht[1] /\ Insert(x, e).iterators = x.iterators
      BY <3>1, Parts
    <3>. QED BY <1>2, <1>3, <1>4, <1>6, <3>2 DEF Stays
  <2>. QED BY <2>3, <2>4
<1>. QED BY <1>5, <1>6

(* A new value stays in the table of the old one. *)
LEMMA AssignStays ==
  ASSUME NEW d, Consistent(d), d.ht[0].size > 0, NEW e \in Entries(d),
         NEW v \in Value \cup {NullPtr}
  PROVE  /\ \A f \in Items(d.ht[0]) : f \notin Items(Assign(d, e, v).ht[1])
         /\ \A f \in Items(Assign(d, e, v).ht[1]) :
              f \in Items(d.ht[1]) \/ (f.key = e.key /\ \E g \in Items(d.ht[1]) : g.key = e.key)
<1> DEFINE f == [key |-> e.key, v |-> v]
           k == e.key
<1>1. /\ Sound(d.ht[0]) /\ Sound(d.ht[1])
      /\ \A g, h \in Items(d.ht[0]) \cup Items(d.ht[1]) : g.key = h.key => g = h
      /\ Items(d.ht[0]) \cap Items(d.ht[1]) = {}
      /\ Entries(d) = Items(d.ht[0]) \cup Items(d.ht[1])
  BY DEF Consistent, Unique, Entries
<1>2. e \in Entry /\ k \in Key /\ f \in Entry /\ f.key = k
  BY EntriesAreEntry DEF Entry
<1>3. InTable(d.ht[0], k) = {g \in Items(d.ht[0]) : g.key = k}
  BY <1>1, <1>2, InTableIsSearch
<1>. HIDE DEF f, k
<1>4. CASE InTable(d.ht[0], k) # {}
  <2>1. Assign(d, e, v).ht[1] = d.ht[1]
    BY <1>4, Parts DEF Assign, WithTables, k
  <2>. QED BY <1>1, <2>1
<1>5. CASE InTable(d.ht[0], k) = {}
  <2>1. Assign(d, e, v).ht[1] = WithEntry(WithoutEntry(d.ht[1], e), f)
    BY <1>5, Parts DEF Assign, WithTables, f, k
  <2>2. e \in Items(d.ht[1])
    BY <1>1, <1>3, <1>5 DEF k
  <2>3. f \notin Items(d.ht[1]) \ {e}
    BY <1>1, <1>2, <2>2 DEF k
  <2>4. Items(Assign(d, e, v).ht[1]) = (Items(d.ht[1]) \ {e}) \cup {f}
    BY <1>1, <1>2, <2>1, <2>2, <2>3, ExchangeSound DEF k
  <2>5. \A g \in Items(d.ht[0]) : g # f
    BY <1>2, <1>3, <1>5
  <2>. QED BY <1>1, <1>2, <2>2, <2>4, <2>5 DEF k
<1>. QED BY <1>4, <1>5

LEMMA UnlinkStays ==
  ASSUME NEW d, Consistent(d), d.ht[0].size > 0, NEW k \in Key
  PROVE  Items(Unlink(d, k).ht[1]) \subseteq Items(d.ht[1])
<1> DEFINE e == CHOOSE x \in Lookup(d, k) : TRUE
<1>1. /\ Lookup(d, k) = {x \in Entries(d) : x.key = k}
      /\ InTable(d.ht[0], k) = {x \in Items(d.ht[0]) : x.key = k}
  BY LookupIsSearch, InTableIsSearch DEF Consistent
<1>2. CASE Lookup(d, k) = {}
  BY <1>2 DEF Unlink
<1>3. CASE Lookup(d, k) # {} /\ InTable(d.ht[0], k) # {}
  <2>1. Unlink(d, k).ht[1] = d.ht[1]
    BY <1>3, Parts DEF Unlink, WithTables
  <2>. QED BY <2>1
<1>4. CASE Lookup(d, k) # {} /\ InTable(d.ht[0], k) = {}
  <2>1. e \in Entries(d) /\ e.key = k
    BY <1>1, <1>4
  <2>2. Unlink(d, k).ht[1] = WithoutEntry(d.ht[1], e)
    BY <1>4, Parts DEF Unlink, WithTables
  <2>. HIDE DEF e
  <2>3. e \in Items(d.ht[1])
    BY <1>1, <1>4, <2>1 DEF Entries
  <2>. QED BY <2>2, <2>3, WithoutEntrySound DEF Consistent
<1>. QED BY <1>2, <1>3, <1>4

LEMMA PausedStep ==
  ASSUME IInv, [Next]_vars, dict.iterators > 0, dict'.iterators > 0
  PROVE  EntryStays \/ \E n \in RehashBatch : dictRehash(n)
<1>1. /\ Consistent(dict) /\ Items(dict.ht[0]) \cap Items(dict.ht[1]) = {}
      /\ dict.ht[0].size \in Nat
  BY DEF IInv, Consistent, Unique, Sound, IsTable
<1>2. _dictRehashStep(dict) = dict /\ AfterFind(dict) = dict
  BY <1>1, PausedSteps
<1>3. SUFFICES ASSUME ~\E n \in RehashBatch : dictRehash(n)
               PROVE  Stays(dict, dict')
  BY DEF Stays, EntryStays
<1>4. Items(dict'.ht[1]) \subseteq Items(dict.ht[1]) => Stays(dict, dict')
  BY <1>1 DEF Stays
<1>5. ASSUME NEW k \in Key, NEW v \in Value, dictAdd(k, v)
      PROVE  Stays(dict, dict')
  BY <1>1, <1>5, AddRawStays DEF dictAdd
<1>6. ASSUME NEW k \in Key, NEW v \in Value, dictReplace(k, v)
      PROVE  Stays(dict, dict')
  <2> DEFINE d == AddRaw(dict, k, v)
             e == FindResult(d, k)
  <2>1. /\ Consistent(d) /\ d.ht[0].size > 0 /\ Stays(dict, d)
        /\ d.iterators > 0 /\ (AddRawFails(dict, k) <=> HasKey(dict, k))
        /\ HasKey(dict, k) => Items(d.ht[1]) \subseteq Items(dict.ht[1])
        /\ HasKey(dict, k) => Entries(d) = Entries(dict)
    <3>1. /\ Stays(dict, d) /\ d.iterators = dict.iterators
          /\ HasKey(dict, k) => Items(d.ht[1]) \subseteq Items(dict.ht[1])
      BY <1>1, AddRawStays
    <3>2. /\ Consistent(d) /\ d.ht[0].size > 0 /\ (AddRawFails(dict, k) <=> HasKey(dict, k))
          /\ HasKey(dict, k) => Entries(d) = Entries(dict)
      BY <1>1, AddRawConsistent
    <3>. QED BY <3>1, <3>2
  <2>2. CASE dict' = d
    BY <2>1, <2>2
  <2>3. CASE dict' = Assign(AfterFind(d), e, v) /\ AddRawFails(dict, k)
    <3>. HIDE DEF d
    <3>1. AfterFind(d) = d /\ HasKey(d, k)
      BY <2>1, <2>3, PausedSteps DEF HasKey
    <3>2. e \in Entries(d) /\ e.key = k
      BY <2>1, <3>1, FindResultIsEntry
    <3>. HIDE DEF e
    <3>3. ASSUME NEW f \in Items(dict.ht[0]), f \in Items(dict'.ht[1])
          PROVE  FALSE
      <4>1. f \in Items(d.ht[1]) \/ (f.key = e.key /\ \E g \in Items(d.ht[1]) : g.key = e.key)
        BY <2>1, <2>3, <3>1, <3>2, <3>3, AssignStays
      <4>2. PICK g \in Items(dict.ht[1]) : g.key = f.key
        BY <2>1, <2>3, <4>1
      <4>3. f = g
        BY <1>1, <4>2 DEF Consistent, Unique, Entries
      <4>. QED BY <1>1, <4>2, <4>3
    <3>. QED BY <3>3 DEF Stays
  <2>. QED BY <1>6, <2>2, <2>3 DEF dictReplace
<1>7. ASSUME NEW k \in Key, dictAddRaw(k) \/ dictReplaceRaw(k)
      PROVE  Stays(dict, dict')
  <2>1. Stays(dict, AddRaw(dict, k, NullPtr))
    BY <1>1, AddRawStays
  <2>2. dict' = AddRaw(dict, k, NullPtr) \/ dict' = dict
    BY <1>2, <1>7 DEF dictAddRaw, dictReplaceRaw
  <2>. QED BY <1>4, <2>1, <2>2
<1>8. ASSUME NEW k \in Key, dictDelete(k) \/ dictFind(k)
      PROVE  Stays(dict, dict')
  <2>1. dict' = dict \/ (dict.ht[0].size > 0 /\ dict' = Unlink(dict, k))
    BY <1>1, <1>2, <1>8 DEF dictDelete, dictFind
  <2>. QED BY <1>1, <1>4, <2>1, UnlinkStays
<1>9. CASE (\E size \in Requests : dictExpand(size)) \/ dictResize
  <2>1. PICK n \in 0 .. MaxRequest : dict' = Expand(dict, n) \/ dict' = dict
    BY <1>1, <1>9, WantedSizeBounded, CallAssumption DEF dictExpand, dictResize
  <2>. QED BY <1>1, <1>4, <2>1, ExpandStays
<1>10. CASE SafeIteratorStart \/ SafeIteratorRelease
  BY <1>4, <1>10, IteratorStep
<1>11. CASE \/ dictGetRandomKey \/ dictEnableResize \/ dictDisableResize
            \/ UNCHANGED vars
  <2>1. dict' = dict
    BY <1>2, <1>11 DEF dictGetRandomKey, dictEnableResize, dictDisableResize, vars
  <2>. QED BY <1>4, <2>1
<1>12. ~dictEmpty
  BY DEF dictEmpty
<1>. QED BY <1>3, <1>5, <1>6, <1>7, <1>8, <1>9, <1>10, <1>11, <1>12
         DEF Next, KeyOperation, TableOperation

(* dict.h:132: no call but dictRehash itself moves an entry under a safe   *)
(* iterator.                                                               *)
THEOREM IteratorsArePaused == Spec => IteratorsPauseRehash
<1>1. IInv /\ [Next]_vars =>
        [dict.iterators > 0 /\ dict'.iterators > 0 =>
           EntryStays \/ \E n \in RehashBatch : dictRehash(n)]_vars
  BY PausedStep
<1>. QED BY <1>1, Inductive, PTL DEF Spec, IteratorsPauseRehash
-----------------------------------------------------------------------------
(* What a scan owes its caller.  A table has one bucket for each value of  *)
(* the low bits of a hash; a scan visits buckets in the order of those     *)
(* bits reversed, and that order is the same in every table.               *)
(* Remainders first. *)

LEMMA SmallRemainder ==
  ASSUME NEW x \in Nat, NEW d \in Nat \ {0}, x < d
  PROVE  x % d = x
OBVIOUS

(* The low bits of the low bits. *)
LEMMA RemainderOfRemainder ==
  ASSUME NEW x \in Nat, NEW b \in Nat \ {0}, NEW q \in Nat \ {0}, NEW c \in Nat, c = q * b
  PROVE  (x % c) % b = x % b
<1>1. c \in Nat \ {0}
  <2>1. q * b >= b
    OBVIOUS
  <2>. QED BY <2>1
<1>2. PICK a, r, e, s, f, t : /\ a = x \div c /\ r = x % c
                              /\ e = r \div b /\ s = r % b
                              /\ f = x \div b /\ t = x % b
  OBVIOUS
<1>3. a \in Nat /\ r \in 0 .. c - 1 /\ x = (a * c) + r
  BY <1>1, <1>2, Division
<1>4. e \in Nat /\ s \in 0 .. b - 1 /\ r = (e * b) + s
  <2>1. r \in Nat
    BY <1>1, <1>3
  <2>. QED BY <1>2, <2>1, Division
<1>5. f \in Nat /\ t \in 0 .. b - 1 /\ x = (f * b) + t
  BY <1>2, Division
<1>6. PICK g \in Nat : g = a * q
  BY <1>3
<1>7. a * c = g * b
  BY <1>3, <1>6
<1>8. (g + e) * b + s = f * b + t
  BY <1>3, <1>4, <1>5, <1>6, <1>7
<1>9. g + e \in Int /\ f \in Int
  BY <1>4, <1>5, <1>6
<1>10. s = t
  BY <1>4, <1>5, <1>8, <1>9, QuotientIs
<1>. QED BY <1>2, <1>10

(* One bit more. *)
LEMMA OneBitMore ==
  ASSUME NEW x \in Nat, NEW b \in Nat \ {0}
  PROVE  /\ x % (2 * b) \in {x % b, (x % b) + b}
         /\ (x \div b) % 2 = 0 <=> x % (2 * b) = x % b
         /\ x % b \in 0 .. b - 1 /\ x % (2 * b) \in 0 .. (2 * b) - 1
<1>1. PICK q, r, k, e, f, t : /\ q = x \div b /\ r = x % b
                              /\ k = q \div 2 /\ e = q % 2
                              /\ f = x \div (2 * b) /\ t = x % (2 * b)
  OBVIOUS
<1>2. q \in Nat /\ r \in 0 .. b - 1 /\ x = (q * b) + r
  BY <1>1, Division
<1>3. k \in Nat /\ e \in {0, 1} /\ q = (k * 2) + e
  <2>1. q \in Nat /\ 2 \in Nat \ {0}
    BY <1>2
  <2>2. k \in Nat /\ e \in 0 .. 2 - 1 /\ q = (k * 2) + e
    BY <1>1, <2>1, Division
  <2>. QED BY <2>2
<1>4. PICK c \in Nat \ {0} : c = 2 * b
  OBVIOUS
<1>5. f \in Nat /\ t \in 0 .. c - 1 /\ x = (f * c) + t
  BY <1>1, <1>4, Division
<1>6. PICK s \in 0 .. c - 1 : s = (e * b) + r
  BY <1>2, <1>3, <1>4
<1>7. q * b = (k * c) + (e * b)
  <2>1. q * b = (k * 2) * b + (e * b)
    BY <1>2, <1>3
  <2>. QED BY <1>3, <1>4, <2>1
<1>8. k * c + s = f * c + t
  <2>1. PICK u \in Int : u = q * b
    BY <1>2
  <2>2. PICK v \in Int : v = k * c
    BY <1>3
  <2>3. PICK w \in Int : w = f * c
    BY <1>5
  <2>4. PICK y \in Int : y = e * b
    BY <1>3
  <2>5. x = u + r /\ u = v + y /\ s = y + r /\ x = w + t
    BY <1>2, <1>5, <1>6, <1>7, <2>1, <2>2, <2>3, <2>4
  <2>6. r \in Int /\ s \in Int /\ t \in Int
    BY <1>2, <1>5
  <2>7. v + s = w + t
    BY <2>5, <2>6
  <2>. QED BY <2>2, <2>3, <2>7
<1>9. s = t
  <2>1. k \in Int /\ f \in Int
    BY <1>3, <1>5
  <2>. QED BY <1>5, <1>8, <2>1, QuotientIs
<1>10. PICK y \in {0, b} : y = e * b /\ (e = 0 <=> y = 0)
  BY <1>3
<1>11. t = y + r
  BY <1>2, <1>6, <1>9, <1>10
<1>12. t \in {r, r + b} /\ (e = 0 <=> t = r) /\ t \in 0 .. (2 * b) - 1
  BY <1>2, <1>4, <1>5, <1>10, <1>11
<1>. QED BY <1>1, <1>2, <1>12

-----------------------------------------------------------------------------
(* Powers of two. *)

Powers(f, n) == f = [i \in 0 .. n |-> IF i = 0 THEN 1 ELSE 2 * f[i - 1]]

LEMMA PowersExist ==
  ASSUME NEW n \in Nat
  PROVE  \E f : Powers(f, n)
<1> DEFINE S == {m \in Nat : ~ \E f : Powers(f, m)}
<1>1. SUFFICES ASSUME S # {} PROVE FALSE
  OBVIOUS
<1>2. PICK x \in S : \A y \in S : x <= y
  <2>. HIDE DEF S
  <2>1. S \in SUBSET Nat
    BY DEF S
  <2>. QED BY <1>1, <2>1, LeastNat
<1>3. CASE x = 0
  <2>1. Powers([i \in 0 .. 0 |-> 1], 0)
    BY DEF Powers
  <2>. QED BY <1>2, <1>3, <2>1
<1>4. CASE x # 0
  <2>1. x - 1 \in Nat /\ x - 1 \notin S
    BY <1>2, <1>4
  <2>2. PICK f : Powers(f, x - 1)
    BY <2>1
  <2> DEFINE g == [i \in 0 .. x |-> IF i = x THEN 2 * f[x - 1] ELSE f[i]]
             h == [i \in 0 .. x |-> IF i = 0 THEN 1 ELSE 2 * g[i - 1]]
  <2>3. ASSUME NEW i \in 0 .. x PROVE g[i] = h[i]
    <3>1. CASE i = x
      <4>1. x - 1 \in 0 .. x /\ x - 1 # x /\ i # 0
        BY <1>4, <3>1
      <4>2. g[i] = 2 * f[x - 1] /\ g[x - 1] = f[x - 1] /\ h[i] = 2 * g[i - 1]
        BY <3>1, <4>1
      <4>. QED BY <3>1, <4>2
    <3>2. CASE i # x
      <4>1. i \in 0 .. x - 1 /\ g[i] = f[i]
        BY <3>2
      <4>2. f[i] = IF i = 0 THEN 1 ELSE 2 * f[i - 1]
        BY <2>2, <4>1 DEF Powers
      <4>3. i # 0 => i - 1 \in 0 .. x /\ i - 1 # x /\ g[i - 1] = f[i - 1]
        BY <4>1
      <4>4. h[i] = IF i = 0 THEN 1 ELSE 2 * g[i - 1]
        OBVIOUS
      <4>. QED BY <4>1, <4>2, <4>3, <4>4
    <3>. QED BY <3>1, <3>2
  <2>4. g = h
    <3>1. /\ g = [i \in 0 .. x |-> g[i]]
          /\ h = [i \in 0 .. x |-> h[i]]
      OBVIOUS
    <3>. HIDE DEF g, h
    <3>. QED BY <2>3, <3>1
  <2>5. Powers(g, x)
    BY <2>4 DEF Powers
  <2>. QED BY <1>2, <2>5
<1>. QED BY <1>3, <1>4

Bits == 0 .. CursorBits

LEMMA PowerIs ==
  /\ Power[0] = 1
  /\ \A i \in Bits : i # 0 => Power[i] = 2 * Power[i - 1]
<1>0. CursorBits \in Nat
  BY CursorAssumption
<1>1. \E f : Powers(f, CursorBits)
  BY <1>0, PowersExist
<1>2. Powers(Power, CursorBits)
  BY <1>1 DEF Power, Powers
<1>. QED BY <1>0, <1>2 DEF Powers, Bits

(* A power is a multiple of every smaller one. *)
LEMMA PowerDivides ==
  ASSUME NEW i \in Bits, NEW j \in Bits, i <= j
  PROVE  /\ Power[i] \in Nat \ {0}
         /\ \E q \in Nat \ {0} : Power[j] = q * Power[i]
<1>0. CursorBits \in Nat
  BY CursorAssumption
<1>1. ASSUME NEW a \in Bits, NEW c \in Bits, a <= c, Power[a] \in Nat \ {0}
      PROVE  \E q \in Nat \ {0} : Power[c] = q * Power[a]
  <2> DEFINE S == {m \in Nat : m \in Bits /\ a <= m /\ ~ \E q \in Nat \ {0} : Power[m] = q * Power[a]}
  <2>1. SUFFICES ASSUME S # {} PROVE FALSE
    BY <1>1 DEF Bits
  <2>2. PICK x \in S : \A y \in S : x <= y
    <3>. HIDE DEF S
    <3>1. S \in SUBSET Nat
      BY DEF S
    <3>. QED BY <2>1, <3>1, LeastNat
  <2>3. CASE x = a
    <3>1. Power[a] = 1 * Power[a]
      BY <1>1
    <3>. QED BY <2>2, <2>3, <3>1
  <2>4. CASE x # a
    <3>1. x - 1 \in Bits /\ x - 1 \in Nat /\ a <= x - 1 /\ x # 0 /\ x \in Bits
      BY <1>0, <2>2, <2>4 DEF Bits
    <3>2. x - 1 \notin S
      BY <2>2, <3>1
    <3>3. PICK q \in Nat \ {0} : Power[x - 1] = q * Power[a]
      BY <3>1, <3>2
    <3>4. PICK p \in Nat \ {0} : p = Power[a]
      BY <1>1
    <3>5. Power[x] = 2 * Power[x - 1]
      BY <3>1, PowerIs
    <3>6. Power[x] = (2 * q) * p /\ 2 * q \in Nat \ {0}
      BY <3>3, <3>4, <3>5
    <3>. QED BY <2>2, <3>4, <3>6
  <2>. QED BY <2>3, <2>4
<1>2. \A m \in Bits : Power[m] \in Nat \ {0}
  <2>. SUFFICES ASSUME NEW m \in Bits PROVE Power[m] \in Nat \ {0}
    OBVIOUS
  <2>1. 0 \in Bits /\ 0 <= m /\ Power[0] = 1
    BY <1>0, PowerIs DEF Bits
  <2>2. PICK q \in Nat \ {0} : Power[m] = q * Power[0]
    BY <1>1, <2>1
  <2>. QED BY <2>1, <2>2
<1>. QED BY <1>1, <1>2

LEMMA PowerOrder ==
  ASSUME NEW i \in Bits, NEW j \in Bits, i < j
  PROVE  /\ Power[i] < Power[j]
         /\ \E q \in Nat \ {0} : Power[j] = q * (2 * Power[i])
<1>0. CursorBits \in Nat
  BY CursorAssumption
<1>1. i + 1 \in Bits /\ i + 1 <= j /\ i + 1 # 0 /\ (i + 1) - 1 = i
  BY <1>0 DEF Bits
<1>2. Power[i + 1] = 2 * Power[i]
  BY <1>1, PowerIs
<1>3. PICK q \in Nat \ {0} : Power[j] = q * Power[i + 1]
  BY <1>1, PowerDivides
<1>4. PICK p \in Nat \ {0} : p = Power[i]
  BY PowerDivides DEF Bits
<1>5. Power[j] = q * (2 * p)
  BY <1>2, <1>3, <1>4
<1>6. q * (2 * p) >= 2 * p
  OBVIOUS
<1>. QED BY <1>4, <1>5, <1>6

LEMMA PowerLess ==
  ASSUME NEW i \in Bits, NEW j \in Bits
  PROVE  Power[i] < Power[j] <=> i < j
<1>1. i < j => Power[i] < Power[j]
  BY PowerOrder
<1>2. ASSUME j <= i PROVE Power[j] <= Power[i]
  <2>1. PICK q \in Nat \ {0} : Power[i] = q * Power[j]
    BY <1>2, PowerDivides
  <2>2. PICK p \in Nat \ {0} : p = Power[j]
    BY PowerDivides DEF Bits
  <2>3. q * p >= p
    OBVIOUS
  <2>. QED BY <2>1, <2>2, <2>3
<1>3. Power[i] \in Nat /\ Power[j] \in Nat /\ i \in Nat /\ j \in Nat
  BY PowerDivides DEF Bits
<1>. QED BY <1>1, <1>2, <1>3

(* The low bits of the low bits of a number are its low bits.              *)
LEMMA LowBits ==
  ASSUME NEW x \in Nat, NEW i \in Bits, NEW j \in Bits
  PROVE  /\ i <= j => (x % Power[j]) % Power[i] = x % Power[i]
         /\ i < j => (x % Power[j]) % (2 * Power[i]) = x % (2 * Power[i])
<1>1. Power[i] \in Nat \ {0} /\ Power[j] \in Nat \ {0}
  BY PowerDivides DEF Bits
<1>2. ASSUME i <= j PROVE (x % Power[j]) % Power[i] = x % Power[i]
  <2>1. PICK q \in Nat \ {0} : Power[j] = q * Power[i]
    BY <1>2, PowerDivides
  <2>. QED BY <1>1, <2>1, RemainderOfRemainder
<1>3. ASSUME i < j PROVE (x % Power[j]) % (2 * Power[i]) = x % (2 * Power[i])
  <2>1. PICK q \in Nat \ {0} : Power[j] = q * (2 * Power[i])
    BY <1>3, PowerOrder
  <2>2. 2 * Power[i] \in Nat \ {0}
    BY <1>1
  <2>. QED BY <1>1, <2>1, <2>2, RemainderOfRemainder
<1>. QED BY <1>2, <1>3

LEMMA BitIs ==
  /\ \A i \in Bits : i < CursorBits => Power[i] \in Bit
  /\ \A b \in Bit : \E i \in Bits : i < CursorBits /\ b = Power[i]
BY CursorAssumption DEF Bit, Bits

-----------------------------------------------------------------------------
(* The order of a scan: a bucket comes before another when, at the lowest  *)
(* bit in which they differ, it has a 0 and the other a 1.                 *)

Cursor == 0 .. Power[CursorBits] - 1

(* A key of hash h is in the bucket of cursor v or in a later one.         *)
Ahead(h, v) ==
  \/ h % Power[CursorBits] = v
  \/ \E b \in Bit : /\ h % b = v % b
                    /\ v % (2 * b) = v % b
                    /\ h % (2 * b) = (v % b) + b

(* Bit i of v is clear.                                                    *)
Clear(v, i) == v % (2 * Power[i]) = v % Power[i]

(* What a cursor begins with, all that end in it are ahead of.             *)
LEMMA AheadIfCongruent ==
  ASSUME NEW j \in Bits, NEW v \in 0 .. Power[j] - 1, NEW h \in Nat, h % Power[j] = v
  PROVE  Ahead(h, v)
<1>0. CursorBits \in Nat /\ j \in Nat /\ j <= CursorBits
  BY CursorAssumption DEF Bits
<1>1. CASE h % Power[CursorBits] = v
  BY <1>1 DEF Ahead
<1>2. CASE h % Power[CursorBits] # v
  <2> DEFINE S == {m \in Nat : m \in Bits /\ j <= m /\ h % Power[m] # v}
  <2>1. CursorBits \in S
    BY <1>0, <1>2 DEF Bits
  <2>2. PICK x \in S : \A y \in S : x <= y
    <3>1. S \in SUBSET Nat /\ S # {}
      BY <2>1
    <3>. HIDE DEF S
    <3>. QED BY <3>1, LeastNat
  <2>3. x # j /\ x \in Bits /\ j <= x
    BY <2>2
  <2>4. x - 1 \in Bits /\ j <= x - 1 /\ x - 1 < CursorBits /\ x # 0 /\ x - 1 \in Nat
    BY <1>0, <2>3 DEF Bits
  <2>5. h % Power[x - 1] = v
    BY <2>2, <2>4
  <2>6. PICK b \in Nat \ {0} : b = Power[x - 1]
    BY <2>4, PowerDivides
  <2>7. b \in Bit /\ Power[x] = 2 * b
    BY <2>3, <2>4, <2>6, BitIs, PowerIs
  <2>8. v < b
    <3>1. ~(Power[x - 1] < Power[j])
      BY <1>0, <2>4, PowerLess
    <3>2. Power[j] \in Nat
      BY PowerDivides DEF Bits
    <3>. QED BY <2>6, <3>1, <3>2
  <2>9. v \in Nat
    BY PowerDivides DEF Bits
  <2>10. v % b = v /\ v % (2 * b) = v
    <3>1. v < 2 * b /\ 2 * b \in Nat \ {0}
      BY <2>8, <2>9
    <3>. QED BY <2>8, <2>9, <3>1, SmallRemainder
  <2>11. h % (2 * b) # v
    BY <2>2, <2>7
  <2>12. h % (2 * b) = v + b
    <3>1. h % (2 * b) \in {h % b, (h % b) + b}
      BY OneBitMore
    <3>. QED BY <2>5, <2>6, <2>11, <3>1
  <2>. QED BY <2>5, <2>6, <2>7, <2>10, <2>12 DEF Ahead
<1>. QED BY <1>1, <1>2

(* The cursor moves on to the highest clear bit.                           *)
LEMMA NextCursorIs ==
  ASSUME NEW j \in Bits, NEW v \in Nat
  PROVE  \/ /\ \A i \in Bits : i < j => ~Clear(v, i)
            /\ NextCursor(v, Power[j]) = 0
         \/ \E t \in Bits : /\ t < j /\ Clear(v, t)
                            /\ \A i \in Bits : i < j /\ Clear(v, i) => i <= t
                            /\ NextCursor(v, Power[j]) = (v % Power[t]) + Power[t]
<1>0. CursorBits \in Nat /\ j \in Nat /\ j <= CursorBits
  BY CursorAssumption DEF Bits
<1> DEFINE C == {b \in Bit : b < Power[j] /\ (v \div b) % 2 = 0}
<1>1. NextCursor(v, Power[j]) = IF C = {} THEN 0 ELSE (v % Max(C)) + Max(C)
  BY DEF NextCursor
<1>2. ASSUME NEW b
      PROVE  b \in C <=> \E i \in Bits : i < j /\ Clear(v, i) /\ b = Power[i]
  <2>1. ASSUME b \in C PROVE \E i \in Bits : i < j /\ Clear(v, i) /\ b = Power[i]
    <3>1. PICK i \in Bits : i < CursorBits /\ b = Power[i]
      BY <2>1, BitIs
    <3>2. i < j
      BY <2>1, <3>1, PowerLess
    <3>3. Power[i] \in Nat \ {0}
      BY PowerDivides DEF Bits
    <3>4. Clear(v, i)
      BY <2>1, <3>1, <3>3, OneBitMore DEF Clear
    <3>. QED BY <3>1, <3>2, <3>4
  <2>2. ASSUME NEW i \in Bits, i < j, Clear(v, i), b = Power[i] PROVE b \in C
    <3>1. i < CursorBits
      BY <1>0, <2>2 DEF Bits
    <3>2. b \in Bit /\ b < Power[j]
      BY <2>2, <3>1, BitIs, PowerLess
    <3>3. b \in Nat \ {0}
      BY <2>2, PowerDivides DEF Bits
    <3>4. (v \div b) % 2 = 0
      BY <2>2, <3>3, OneBitMore DEF Clear
    <3>. QED BY <3>2, <3>4
  <2>. QED BY <2>1, <2>2
<1>. HIDE DEF C
<1>3. CASE C = {}
  BY <1>1, <1>2, <1>3
<1>4. CASE C # {}
  <2> DEFINE S == {k \in Nat : \E i \in Bits : i < j /\ Clear(v, i) /\ k = j - i}
  <2>1. S \in SUBSET Nat /\ S # {}
    <3>1. PICK i \in Bits : i < j /\ Clear(v, i)
      BY <1>2, <1>4
    <3>2. j - i \in S
      BY <1>0, <3>1 DEF Bits
    <3>. QED BY <3>2
  <2>2. PICK k \in S : \A y \in S : k <= y
    <3>. HIDE DEF S
    <3>. QED BY <2>1, LeastNat
  <2>3. PICK t \in Bits : t < j /\ Clear(v, t) /\ k = j - t
    BY <2>2
  <2>4. ASSUME NEW i \in Bits, i < j, Clear(v, i) PROVE i <= t
    <3>1. j - i \in S
      BY <1>0, <2>4 DEF Bits
    <3>2. j - t <= j - i
      BY <2>2, <2>3, <3>1
    <3>. QED BY <1>0, <3>2 DEF Bits
  <2>5. Power[t] \in C
    BY <1>2, <2>3
  <2>6. \A y \in C : Power[t] >= y
    <3>. SUFFICES ASSUME NEW y \in C PROVE Power[t] >= y
      OBVIOUS
    <3>1. PICK i \in Bits : i < j /\ Clear(v, i) /\ y = Power[i]
      BY <1>2
    <3>2. ~(t < i)
      BY <2>4, <3>1 DEF Bits
    <3>3. ~(Power[t] < Power[i])
      BY <3>2, PowerLess
    <3>4. Power[t] \in Nat /\ Power[i] \in Nat
      BY PowerDivides DEF Bits
    <3>. QED BY <3>1, <3>3, <3>4
  <2>7. C \subseteq Nat
    BY <1>2, PowerDivides DEF Bits
  <2>8. Max(C) = Power[t]
    <3>1. ASSUME NEW x \in C, \A y \in C : x >= y PROVE x = Power[t]
      <4>1. x >= Power[t] /\ Power[t] >= x
        BY <2>5, <2>6, <3>1
      <4>2. x \in Nat /\ Power[t] \in Nat
        BY <2>5, <2>7, <3>1
      <4>. QED BY <4>1, <4>2
    <3>. QED BY <2>5, <2>6, <3>1 DEF Max
  <2>. QED BY <1>1, <1>4, <2>3, <2>4, <2>8
<1>. QED BY <1>3, <1>4

(* One call of dictScan passes the bucket of the cursor and no other: a    *)
(* key that was ahead of the cursor and is in another bucket of a table of *)
(* Power[j] is ahead of the next cursor.                                   *)
LEMMA NextAhead ==
  ASSUME NEW j \in Bits, NEW v \in Cursor, NEW h \in Nat, Ahead(h, v),
         h % Power[j] # v % Power[j]
  PROVE  NextCursor(v, Power[j]) # 0 /\ Ahead(h, NextCursor(v, Power[j]))
<1>0. CursorBits \in Nat /\ CursorBits \in Bits /\ j \in Nat /\ j <= CursorBits
  BY CursorAssumption DEF Bits
<1>1. v \in Nat
  BY <1>0, PowerDivides DEF Cursor
<1>2. h % Power[CursorBits] # v
  <2>1. ASSUME h % Power[CursorBits] = v PROVE FALSE
    <3>1. (h % Power[CursorBits]) % Power[j] = h % Power[j]
      BY <1>0, LowBits
    <3>. QED BY <2>1, <3>1
  <2>. QED BY <2>1
<1>3. PICK b \in Bit : h % b = v % b /\ v % (2 * b) = v % b /\ h % (2 * b) = (v % b) + b
  BY <1>2 DEF Ahead
<1>4. PICK i \in Bits : b = Power[i]
  BY BitIs
<1>5. i < j
  <2>1. ASSUME j <= i PROVE FALSE
    <3>1. (h % b) % Power[j] = h % Power[j] /\ (v % b) % Power[j] = v % Power[j]
      BY <1>1, <1>4, <2>1, LowBits
    <3>. QED BY <1>3, <3>1
  <2>. QED BY <2>1 DEF Bits
<1>6. Clear(v, i)
  BY <1>3, <1>4 DEF Clear
<1>7. PICK t \in Bits : /\ t < j /\ Clear(v, t)
                      /\ \A k \in Bits : k < j /\ Clear(v, k) => k <= t
                      /\ NextCursor(v, Power[j]) = (v % Power[t]) + Power[t]
  BY <1>1, <1>5, <1>6, NextCursorIs
<1>8. i <= t
  BY <1>5, <1>6, <1>7
<1>9. PICK p \in Nat \ {0} : p = Power[t]
  BY PowerDivides DEF Bits
<1>10. PICK w : w = (v % p) + p
  OBVIOUS
<1>11. v % p \in 0 .. p - 1 /\ w \in Nat \ {0} /\ w \in p .. (2 * p) - 1
  BY <1>1, <1>9, <1>10
<1>12. w % p = v % p
  <2>1. PICK r \in Nat : r = v % p
    BY <1>11
  <2>2. r < p /\ w = r + p
    BY <1>9, <1>10, <1>11, <2>1
  <2>3. (r + p) % p = r % p
    BY <1>9, <2>1, ModAdd
  <2>4. r % p = r
    BY <1>9, <2>1, <2>2, SmallRemainder
  <2>. QED BY <2>1, <2>2, <2>3, <2>4
<1>13. CASE i = t
  <2>1. t + 1 \in Bits /\ t + 1 # 0 /\ (t + 1) - 1 = t
    BY <1>0, <1>7 DEF Bits
  <2>2. Power[t + 1] = 2 * p
    BY <1>9, <2>1, PowerIs
  <2>3. h % Power[t + 1] = w
    BY <1>3, <1>4, <1>9, <1>10, <1>13, <2>2
  <2>4. w \in 0 .. Power[t + 1] - 1
    BY <1>9, <1>11, <2>2
  <2>5. Ahead(h, w)
    BY <2>1, <2>3, <2>4, AheadIfCongruent
  <2>. QED BY <1>7, <1>9, <1>10, <1>11, <2>5
<1>14. CASE i < t
  <2>1. \A x \in Nat : (x % p) % b = x % b /\ (x % p) % (2 * b) = x % (2 * b)
    BY <1>4, <1>9, <1>14, LowBits DEF Bits
  <2>2. w % b = v % b /\ w % (2 * b) = v % (2 * b)
    BY <1>1, <1>11, <1>12, <2>1
  <2>3. Ahead(h, w)
    BY <1>3, <2>2 DEF Ahead
  <2>. QED BY <1>7, <1>9, <1>10, <1>11, <2>3
<1>. QED BY <1>8, <1>13, <1>14 DEF Bits

(* A cursor is never out of range.                                         *)
LEMMA NextCursorType ==
  ASSUME NEW j \in Bits, NEW v \in Cursor
  PROVE  NextCursor(v, Power[j]) \in Cursor
<1>0. CursorBits \in Nat /\ CursorBits \in Bits /\ j \in Nat /\ j <= CursorBits
  BY CursorAssumption DEF Bits
<1>1. v \in Nat /\ Power[CursorBits] \in Nat \ {0}
  BY <1>0, PowerDivides DEF Cursor
<1>2. CASE NextCursor(v, Power[j]) = 0
  BY <1>1, <1>2 DEF Cursor
<1>3. CASE \E t \in Bits : t < j /\ NextCursor(v, Power[j]) = (v % Power[t]) + Power[t]
  <2>1. PICK t \in Bits : t < j /\ NextCursor(v, Power[j]) = (v % Power[t]) + Power[t]
    BY <1>3
  <2>2. t + 1 \in Bits /\ t + 1 # 0 /\ (t + 1) - 1 = t /\ t + 1 <= CursorBits
    BY <1>0, <2>1 DEF Bits
  <2>3. Power[t + 1] = 2 * Power[t]
    BY <2>2, PowerIs
  <2>4. PICK p \in Nat \ {0} : p = Power[t]
    BY PowerDivides DEF Bits
  <2>5. ~(Power[CursorBits] < Power[t + 1])
    BY <1>0, <2>2, PowerLess
  <2>6. v % p \in 0 .. p - 1
    BY <1>1
  <2>. QED BY <1>1, <2>1, <2>3, <2>4, <2>5, <2>6 DEF Cursor
<1>. QED BY <1>1, <1>2, <1>3, NextCursorIs

(* A scan that meets a rehash begins its expansion at the cursor.  Unless  *)
(* the scan strays, it skips no bucket that is ahead.                      *)
LEMMA NoneSkipped ==
  ASSUME NEW i \in Bits, NEW j \in Bits, i <= j, NEW v \in Cursor, NEW h \in Nat,
         Ahead(h, v), h % Power[i] = v % Power[i],
         Power[j] <= 2 * Power[i] \/ v % Power[j] < Power[i]
  PROVE  h % Power[j] >= v % Power[j]
<1>0. CursorBits \in Nat /\ CursorBits \in Bits /\ i \in Nat /\ j \in Nat /\ j <= CursorBits
  BY CursorAssumption DEF Bits
<1>1. v \in Nat
  BY <1>0, PowerDivides DEF Cursor
<1>2. PICK p \in Nat \ {0} : p = Power[i]
  BY PowerDivides DEF Bits
<1>3. PICK q \in Nat \ {0} : q = Power[j]
  BY PowerDivides DEF Bits
<1>4. (v % q) % p = v % p /\ (h % q) % p = h % p
  BY <1>1, <1>2, <1>3, LowBits
<1>5. v % q \in Nat /\ h % q \in Nat
  BY <1>1, <1>3
<1>6. CASE v % q < p
  <2>1. v % q = v % p
    BY <1>2, <1>4, <1>5, <1>6, SmallRemainder
  <2>2. h % q >= (h % q) % p
    <3>1. PICK x \in Nat : x = h % q
      BY <1>5
    <3>2. x % p <= x
      <4>p. p \in Nat \ {0} /\ x \in Nat
        BY <1>2, <3>1
      <4>1. x \div p \in Nat /\ x % p \in 0 .. p - 1 /\ x = ((x \div p) * p) + (x % p)
        BY <4>p, Division, Zenon
      <4>2. PICK a, b : a = x \div p /\ b = x % p
        OBVIOUS
      <4>3. a \in Nat /\ b \in 0 .. p - 1 /\ x = (a * p) + b
        BY <4>1, <4>2
      <4>4. a * p >= 0
        BY <4>p, <4>3
      <4>. QED BY <4>p, <4>2, <4>3, <4>4
    <3>. QED BY <3>1, <3>2
  <2>. QED BY <1>2, <1>3, <1>4, <2>1, <2>2
<1>7. CASE i = j
  BY <1>3, <1>5, <1>7
<1>8. CASE q <= 2 * p /\ i # j
  <2>1. i < j
    BY <1>0, <1>8
  <2>2. j = i + 1
    <3>1. i + 1 \in Bits /\ i + 1 # 0 /\ (i + 1) - 1 = i
      BY <1>0, <2>1 DEF Bits
    <3>2. Power[i + 1] = 2 * p
      BY <1>2, <3>1, PowerIs
    <3>3. ~(Power[i + 1] < Power[j])
      BY <1>2, <1>3, <1>8, <3>2
    <3>. QED BY <1>0, <2>1, <3>1, <3>3, PowerLess
  <2>3. q = 2 * p
    <3>1. j # 0 /\ j - 1 = i
      BY <1>0, <2>2
    <3>. QED BY <1>2, <1>3, <3>1, PowerIs
  <2>4. SUFFICES ASSUME h % q < v % q PROVE FALSE
    BY <1>3, <1>5
  <2>5. h % p = v % p /\ h % (2 * p) # v % (2 * p) /\ v % (2 * p) # v % p
    <3>p. p \in Nat \ {0}
      BY <1>2
    <3>1. h % (2 * p) \in {h % p, (h % p) + p} /\ h % p \in 0 .. p - 1
      BY <3>p, OneBitMore, Zenon
    <3>3. v % (2 * p) \in {v % p, (v % p) + p}
      BY <1>1, <3>p, OneBitMore, Zenon
    <3>2. h % p = v % p
      BY <1>2
    <3>. QED BY <1>5, <2>3, <2>4, <3>p, <3>1, <3>2, <3>3
  <2>6. h % Power[CursorBits] # v
    <3>1. (h % Power[CursorBits]) % q = h % q
      BY <1>0, <1>3, LowBits
    <3>. QED BY <1>5, <2>4, <3>1
  <2>7. PICK b \in Bit : h % b = v % b /\ v % (2 * b) = v % b /\ h % (2 * b) = (v % b) + b
    BY <2>6 DEF Ahead
  <2>8. PICK k \in Bits : b = Power[k]
    BY BitIs
  <2>9. b \in Nat \ {0}
    BY <2>8, PowerDivides DEF Bits
  <2>10. CASE k < i
    <3>1. (h % p) % (2 * b) = h % (2 * b) /\ (v % p) % (2 * b) = v % (2 * b)
      BY <1>1, <1>2, <2>8, <2>10, LowBits
    <3>2. v % b \in Nat
      BY <1>1, <2>9
    <3>. QED BY <2>5, <2>7, <2>9, <3>1, <3>2
  <2>11. CASE k = i
    BY <1>2, <2>5, <2>7, <2>8, <2>11
  <2>12. CASE i < k
    <3>1. (h % b) % (2 * p) = h % (2 * p) /\ (v % b) % (2 * p) = v % (2 * p)
      BY <1>1, <1>2, <2>8, <2>12, LowBits
    <3>. QED BY <2>5, <2>7, <3>1
  <2>. QED BY <1>0, <2>10, <2>11, <2>12 DEF Bits
<1>. QED BY <1>2, <1>3, <1>6, <1>7, <1>8

-----------------------------------------------------------------------------
(* Every table has a size that _dictNextPower returned, or none.           *)

Size     == TableSize \cup {0}
Sized(d) == d.ht[0].size \in Size /\ d.ht[1].size \in Size

LEMMA SizedParts ==
  ASSUME NEW t0, NEW t1, NEW idx, NEW iters
  PROVE  Sized(DictObject(t0, t1, idx, iters)) <=> t0.size \in Size /\ t1.size \in Size
BY Parts DEF Sized

LEMMA SizesOfTables ==
  /\ \A n \in TableSize : NewTable(n).size \in Size
  /\ EmptyTable.size \in Size
  /\ \A h, e : WithEntry(h, e).size = h.size /\ WithoutEntry(h, e).size = h.size
  /\ \A h, batch, moved : Drain(h, batch, moved).size = h.size
  /\ \A h, moved : Fill(h, moved).size = h.size
  /\ \A h : _dictClear(h).size \in {h.size, 0}
BY DEF NewTable, EmptyTable, Size, WithEntry, WithoutEntry, HashTable, Drain, Fill, _dictClear

LEMMA ExpandSized ==
  ASSUME NEW d, Sized(d), NEW n \in 0 .. MaxRequest
  PROVE  Sized(Expand(d, n))
<1> DEFINE p == _dictNextPower(n)
<1>1. p \in TableSize
  <2> DEFINE S == {q \in TableSize : n <= q}
  <2>1. S \in SUBSET Nat /\ S # {}
    BY SizeAssumption
  <2>2. PICK q \in S : \A r \in S : q <= r
    <3>. HIDE DEF S
    <3>. QED BY <2>1, LeastNat
  <2>. QED BY <2>2 DEF _dictNextPower
<1>2. PICK t : t = NewTable(p) /\ t.size \in Size
  BY <1>1, SizesOfTables
<1>3. \/ Expand(d, n) = d
      \/ Expand(d, n) = DictObject(t, d.ht[1], d.rehashidx, d.iterators)
      \/ Expand(d, n) = DictObject(d.ht[0], t, 0, d.iterators)
  BY <1>2 DEF Expand, WithTables
<1>. QED BY <1>2, <1>3, SizedParts DEF Sized

LEMMA ExpandIfNeededSized ==
  ASSUME NEW d, Consistent(d), Sized(d)
  PROVE  Sized(_dictExpandIfNeeded(d))
BY WantedSizeBounded, ExpandSized DEF _dictExpandIfNeeded

LEMMA RehashSized ==
  ASSUME NEW d, Sized(d), NEW n
  PROVE  Sized(Rehash(d, n)) /\ Sized(_dictRehashStep(d)) /\ Sized(AfterFind(d))
<1>1. ASSUME NEW m PROVE Sized(Rehash(d, m))
  <2>1. PICK t0, t1 : /\ t0 = Drain(d.ht[0], Batch(d, m), Moved(d, Batch(d, m)))
                      /\ t1 = Fill(d.ht[1], Moved(d, Batch(d, m)))
    OBVIOUS
  <2>2. t0.size \in Size /\ t1.size \in Size /\ EmptyTable.size \in Size
    BY <2>1, SizesOfTables DEF Sized
  <2>3. \/ Rehash(d, m) = d
        \/ Rehash(d, m) = DictObject(t1, EmptyTable, -1, d.iterators)
        \/ Rehash(d, m) = DictObject(t0, t1, NextIndex(d, Batch(d, m)), d.iterators)
    BY <2>1 DEF Rehash
  <2>. QED BY <2>2, <2>3, SizedParts
<1>2. Sized(_dictRehashStep(d))
  BY <1>1 DEF _dictRehashStep
<1>. QED BY <1>1, <1>2 DEF AfterFind

LEMMA InsertSized ==
  ASSUME NEW d, Sized(d), NEW e
  PROVE  Sized(Insert(d, e))
<1>1. WithEntry(d.ht[0], e).size \in Size /\ WithEntry(d.ht[1], e).size \in Size
  BY SizesOfTables DEF Sized
<1>2. \/ Insert(d, e) = DictObject(d.ht[0], WithEntry(d.ht[1], e), d.rehashidx, d.iterators)
      \/ Insert(d, e) = DictObject(WithEntry(d.ht[0], e), d.ht[1], d.rehashidx, d.iterators)
  BY DEF Insert, WithTables
<1>. QED BY <1>1, <1>2, SizedParts DEF Sized

LEMMA AddRawSized ==
  ASSUME NEW d, Consistent(d), Sized(d), NEW k, NEW v
  PROVE  Sized(AddRaw(d, k, v))
<1>1. PICK x : x = _dictExpandIfNeeded(_dictRehashStep(d))
  OBVIOUS
<1>2. Sized(x)
  BY <1>1, RehashSized, RehashStepConsistent, ExpandIfNeededSized
<1>3. AddRaw(d, k, v) = x \/ AddRaw(d, k, v) = Insert(x, [key |-> k, v |-> v])
  BY <1>1 DEF AddRaw
<1>. QED BY <1>2, <1>3, InsertSized

LEMMA AssignSized ==
  ASSUME NEW d, Sized(d), NEW e, NEW v
  PROVE  Sized(Assign(d, e, v))
<1>1. PICK t0, t1 : /\ t0 = WithEntry(WithoutEntry(d.ht[0], e), [key |-> e.key, v |-> v])
                    /\ t1 = WithEntry(WithoutEntry(d.ht[1], e), [key |-> e.key, v |-> v])
  OBVIOUS
<1>2. t0.size \in Size /\ t1.size \in Size
  BY <1>1, SizesOfTables DEF Sized
<1>3. \/ Assign(d, e, v) = DictObject(t0, d.ht[1], d.rehashidx, d.iterators)
      \/ Assign(d, e, v) = DictObject(d.ht[0], t1, d.rehashidx, d.iterators)
  BY <1>1 DEF Assign, WithTables
<1>. QED BY <1>2, <1>3, SizedParts DEF Sized

LEMMA UnlinkSized ==
  ASSUME NEW d, Sized(d), NEW k
  PROVE  Sized(Unlink(d, k))
<1>1. PICK e : e = CHOOSE x \in Lookup(d, k) : TRUE
  OBVIOUS
<1>2. WithoutEntry(d.ht[0], e).size \in Size /\ WithoutEntry(d.ht[1], e).size \in Size
  BY SizesOfTables DEF Sized
<1>3. \/ Unlink(d, k) = d
      \/ Unlink(d, k) = DictObject(WithoutEntry(d.ht[0], e), d.ht[1], d.rehashidx, d.iterators)
      \/ Unlink(d, k) = DictObject(d.ht[0], WithoutEntry(d.ht[1], e), d.rehashidx, d.iterators)
  BY <1>1 DEF Unlink, WithTables
<1>. QED BY <1>2, <1>3, SizedParts DEF Sized

LEMMA InitSized == Init => Sized(dict)
BY SizesOfTables, SizedParts DEF Init, EmptyDict

LEMMA NextSized ==
  ASSUME IInv, Sized(dict), Next
  PROVE  Sized(dict')
<1>0. Consistent(dict)
  BY DEF IInv
<1>1. ASSUME NEW k \in Key, KeyOperation(k) PROVE Sized(dict')
  <2>1. ASSUME NEW v \in Value, dictAdd(k, v) PROVE Sized(dict')
    BY <1>0, <2>1, AddRawSized DEF dictAdd
  <2>2. ASSUME NEW v \in Value, dictReplace(k, v) PROVE Sized(dict')
    <3>1. PICK d : d = AddRaw(dict, k, v) /\ Sized(d)
      BY <1>0, AddRawSized
    <3>2. Sized(AfterFind(d))
      BY <3>1, RehashSized
    <3>3. dict' = d \/ \E e : dict' = Assign(AfterFind(d), e, v)
      BY <2>2, <3>1 DEF dictReplace
    <3>. QED BY <3>1, <3>2, <3>3, AssignSized
  <2>3. CASE dictAddRaw(k)
    BY <1>0, <2>3, AddRawSized DEF dictAddRaw
  <2>4. CASE dictReplaceRaw(k)
    <3>1. PICK d : d = AfterFind(dict) /\ Sized(d)
      BY RehashSized
    <3>2. Consistent(d)
      BY <1>0, <3>1, RehashStepConsistent DEF AfterFind
    <3>3. dict' = d \/ dict' = AddRaw(d, k, NullPtr)
      BY <2>4, <3>1 DEF dictReplaceRaw
    <3>. QED BY <3>1, <3>2, <3>3, AddRawSized
  <2>5. CASE dictDelete(k)
    <3>1. dict' = dict \/ dict' = Unlink(_dictRehashStep(dict), k)
      BY <2>5 DEF dictDelete
    <3>. QED BY <3>1, RehashSized, UnlinkSized
  <2>6. CASE dictFind(k)
    BY <2>6, RehashSized DEF dictFind
  <2>. QED BY <1>1, <2>1, <2>2, <2>3, <2>4, <2>5, <2>6 DEF KeyOperation
<1>2. CASE TableOperation
  <2>1. ASSUME NEW size \in Requests, dictExpand(size) PROVE Sized(dict')
    BY <2>1, CallAssumption, ExpandSized DEF dictExpand
  <2>2. ASSUME NEW n \in RehashBatch, dictRehash(n) PROVE Sized(dict')
    BY <2>2, RehashSized DEF dictRehash
  <2>3. CASE dictResize
    BY <1>0, <2>3, WantedSizeBounded, ExpandSized DEF dictResize
  <2>4. CASE dictEmpty
    <3>1. _dictClear(dict.ht[0]).size \in Size /\ _dictClear(dict.ht[1]).size \in Size
      BY SizesOfTables DEF Sized, Size
    <3>. QED BY <2>4, <3>1, SizedParts DEF dictEmpty
  <2>5. CASE dictEnableResize \/ dictDisableResize
    BY <2>5 DEF dictEnableResize, dictDisableResize
  <2>. QED BY <1>2, <2>1, <2>2, <2>3, <2>4, <2>5 DEF TableOperation
<1>3. CASE dictGetRandomKey
  BY <1>3, RehashSized DEF dictGetRandomKey
<1>4. CASE SafeIteratorStart \/ SafeIteratorRelease
  BY <1>4, SizedParts DEF SafeIteratorStart, SafeIteratorRelease, Sized
<1>. QED BY <1>1, <1>2, <1>3, <1>4 DEF Next

LEMMA SizesArePowers ==
  ASSUME NEW n \in Size, n > 0
  PROVE  n \in TableSize /\ \E i \in Bits : n = Power[i]
BY CursorAssumption DEF Size, Bits

-----------------------------------------------------------------------------
(* What one call of dictScan leaves unvisited. *)

HashOf(e) == Hash[e.key]

LEMMA UnvisitedElsewhere ==
  ASSUME NEW d, Consistent(d), Sized(d), Length(d) # 0, NEW v \in Cursor, ~Straying(d, v),
         NEW e \in Entries(d), e \notin Visited(d, v), Ahead(HashOf(e), v)
  PROVE  \E j \in Bits : ScannedSize(d) = Power[j] /\ HashOf(e) % Power[j] # v % Power[j]
<1>1. /\ e \in Entry /\ HashOf(e) \in Nat
      /\ \A n : Index(e.key, n) = HashOf(e) % n
  BY EntriesAreEntry, HashAssumption DEF HashOf, Entry, Index
<1>2. Sound(d.ht[0]) /\ Sound(d.ht[1])
  BY DEF Consistent
<1>3. CASE ~Rehashing(d)
  <2>1. e \in Items(d.ht[0])
    BY <1>3 DEF Entries, Consistent, Idle
  <2>2. d.ht[0].size > 0 /\ e \in d.ht[0].table[HashOf(e) % d.ht[0].size]
    BY <1>1, <1>2, <2>1, ItemsByIndex
  <2>3. PICK j \in Bits : d.ht[0].size = Power[j]
    BY <2>2, SizesArePowers DEF Sized
  <2>4. e \notin d.ht[0].table[v % d.ht[0].size]
    BY <1>3 DEF Visited
  <2>. QED BY <1>3, <2>2, <2>3, <2>4 DEF ScannedSize
<1>4. CASE Rehashing(d)
  <2>1. d.ht[0].size > 0 /\ d.ht[1].size > 0 /\ d.ht[0].size \in Nat /\ d.ht[1].size \in Nat
    BY <1>2, <1>4 DEF Consistent, Drained, Sound, IsTable
  <2>2. PICK s, l : s = Smaller(d) /\ l = Larger(d)
    OBVIOUS
  <2>3. /\ s.size > 0 /\ l.size > 0 /\ s.size <= l.size
        /\ s.size \in Size /\ l.size \in Size
        /\ Items(s) \cup Items(l) = Entries(d)
        /\ Sound(s) /\ Sound(l)
    BY <1>2, <2>1, <2>2 DEF Smaller, Larger, Sized, Entries
  <2>4. PICK i \in Bits : s.size = Power[i]
    BY <2>3, SizesArePowers
  <2>5. PICK j \in Bits : l.size = Power[j]
    BY <2>3, SizesArePowers
  <2>6. Power[i] \in Nat \ {0} /\ Power[j] \in Nat \ {0} /\ v \in Nat
    BY CursorAssumption, PowerDivides DEF Bits, Cursor
  <2>7. i <= j
    BY <2>3, <2>4, <2>5, <2>6, PowerLess DEF Bits
  <2>8. ScannedSize(d) = Power[i]
    BY <1>4, <2>2, <2>4 DEF ScannedSize
  <2>9. SUFFICES ASSUME HashOf(e) % Power[i] = v % Power[i] PROVE FALSE
    BY <2>8
  <2>10. /\ e \notin s.table[v % Power[i]]
         /\ \A x \in Expansion(d, v) : e \notin l.table[x]
    BY <1>4, <2>2, <2>4 DEF Visited
  <2>11. e \in Items(l)
    <3>1. ASSUME e \in Items(s) PROVE FALSE
      <4>1. e \in s.table[HashOf(e) % Power[i]]
        BY <1>1, <2>3, <2>4, <3>1, ItemsByIndex
      <4>. QED BY <2>9, <2>10, <4>1
    <3>. QED BY <2>3, <3>1
  <2>12. e \in l.table[HashOf(e) % Power[j]]
    BY <1>1, <2>3, <2>5, <2>11, ItemsByIndex
  <2>13. Power[j] <= 2 * Power[i] \/ v % Power[j] < Power[i]
    BY <1>4, <2>2, <2>4, <2>5, <2>6 DEF Straying
  <2>14. HashOf(e) % Power[j] >= v % Power[j]
    BY <1>1, <2>7, <2>9, <2>13, NoneSkipped
  <2>15. PICK x : x = HashOf(e) % Power[j]
    OBVIOUS
  <2>16. x \in 0 .. Power[j] - 1
    BY <1>1, <2>6, <2>15
  <2>17. x % Power[i] = v % Power[i]
    BY <1>1, <2>7, <2>9, <2>15, LowBits
  <2>18. x \in Expansion(d, v)
    BY <2>2, <2>4, <2>5, <2>14, <2>15, <2>16, <2>17 DEF Expansion
  <2>. QED BY <2>10, <2>12, <2>15, <2>18
<1>. QED BY <1>3, <1>4

LEMMA ScannedSizeIsPower ==
  ASSUME NEW d, Consistent(d), Sized(d), Length(d) # 0
  PROVE  \E j \in Bits : ScannedSize(d) = Power[j]
<1>1. Sound(d.ht[0]) /\ Sound(d.ht[1])
  BY DEF Consistent
<1>2. d.ht[0].used \in Nat /\ d.ht[1].used \in Nat /\ d.ht[0].size \in Nat /\ d.ht[1].size \in Nat
  BY <1>1 DEF Sound, IsTable
<1>3. CASE ~Rehashing(d)
  <2>1. Items(d.ht[1]) = {}
    BY <1>3 DEF Consistent, Idle
  <2>2. d.ht[1].used = 0
    BY <1>1, <1>2, <2>1, UsedMeansEntries
  <2>3. Items(d.ht[0]) # {}
    BY <1>1, <1>2, <2>2, UsedMeansEntries DEF Length
  <2>4. d.ht[0].size > 0
    BY <1>1, <2>3, ItemsByIndex
  <2>. QED BY <1>3, <2>4, SizesArePowers DEF Sized, ScannedSize
<1>4. CASE Rehashing(d)
  <2>1. d.ht[0].size > 0 /\ d.ht[1].size > 0
    BY <1>4 DEF Consistent, Drained
  <2>2. Smaller(d).size > 0 /\ Smaller(d).size \in Size
    BY <2>1 DEF Smaller, Sized
  <2>. QED BY <1>4, <2>2, SizesArePowers DEF ScannedSize
<1>. QED BY <1>3, <1>4

-----------------------------------------------------------------------------
(* The invariant of a scan: what it has not seen is ahead of its cursor.   *)

Pending(keys, v) == IF v = 0 THEN keys = {} ELSE \A k \in keys : Ahead(Hash[k], v)

ScanIInv ==
  /\ IInv
  /\ Sized(dict)
  /\ cursor \in Cursor
  /\ unseen \subseteq KeysOf(dict)
  /\ strayed \in BOOLEAN
  /\ ~strayed => Pending(unseen, cursor)

LEMMA InitScan == ScanInit => ScanIInv
<1>. SUFFICES ASSUME ScanInit PROVE ScanIInv
  OBVIOUS
<1>1. 0 \in Cursor
  BY CursorAssumption, PowerDivides DEF Cursor, Bits
<1>2. IInv /\ Sized(dict)
  BY InitIInv, InitSized DEF ScanInit
<1>3. cursor = 0 /\ unseen = {} /\ strayed = FALSE
  BY DEF ScanInit
<1>. QED BY <1>1, <1>2, <1>3 DEF ScanIInv, Pending

(* Everything is ahead of a scan that begins.                              *)
LEMMA AheadOfZero ==
  ASSUME NEW h \in Nat
  PROVE  Ahead(h, 0)
<1>1. 0 \in Bits /\ Power[0] = 1
  BY CursorAssumption, PowerIs DEF Bits
<1>2. 0 \in 0 .. Power[0] - 1 /\ h % Power[0] = 0
  BY <1>1
<1>. QED BY <1>1, <1>2, AheadIfCongruent

LEMMA EmptyHasNoKeys ==
  ASSUME NEW d, Consistent(d), Length(d) = 0
  PROVE  KeysOf(d) = {}
<1>1. Sound(d.ht[0]) /\ Sound(d.ht[1])
  BY DEF Consistent
<1>2. d.ht[0].used \in Nat /\ d.ht[1].used \in Nat
  BY <1>1 DEF Sound, IsTable
<1>3. d.ht[0].used = 0 /\ d.ht[1].used = 0
  BY <1>2 DEF Length
<1>4. Items(d.ht[0]) = {} /\ Items(d.ht[1]) = {}
  BY <1>1, <1>3, FS_EmptySet DEF Sound, Counted
<1>. QED BY <1>4 DEF KeysOf, Entries

(* A call hands over what is in the bucket of its cursor, and leaves       *)
(* behind the next cursor nothing that it has not handed over.             *)
LEMMA ScanStep ==
  ASSUME ScanIInv, dictScan
  PROVE  ScanIInv'
<1>1. Consistent(dict) /\ Sized(dict) /\ cursor \in Cursor /\ dict' = dict
  BY DEF ScanIInv, IInv, dictScan, vars
<1>2. IInv' /\ Sized(dict')
  <2>1. UNCHANGED vars
    BY DEF dictScan
  <2>. QED BY <1>1, <2>1, NextIInv DEF ScanIInv
<1>3. PICK goal : goal = IF cursor = 0 THEN KeysOf(dict) ELSE unseen
  OBVIOUS
<1>4. goal \subseteq KeysOf(dict)
  BY <1>3 DEF ScanIInv
<1>5. CASE Length(dict) = 0
  <2>1. cursor' = 0 /\ unseen' = goal /\ strayed' \in BOOLEAN
    BY <1>3, <1>5 DEF dictScan, ScanIInv
  <2>2. goal = {}
    BY <1>1, <1>4, <1>5, EmptyHasNoKeys
  <2>3. 0 \in Cursor
    BY CursorAssumption, PowerDivides DEF Cursor, Bits
  <2>. QED BY <1>2, <2>1, <2>2, <2>3 DEF ScanIInv, Pending
<1>6. CASE Length(dict) # 0
  <2>1. /\ cursor' = NextCursor(cursor, ScannedSize(dict))
        /\ unseen' = goal \ {e.key : e \in Visited(dict, cursor)}
        /\ strayed' = (Straying(dict, cursor) \/ (cursor # 0 /\ strayed))
    BY <1>3, <1>6 DEF dictScan
  <2>2. cursor' \in Cursor
    BY <1>1, <1>6, <2>1, ScannedSizeIsPower, NextCursorType
  <2>3. unseen' \subseteq KeysOf(dict')
    BY <1>1, <1>4, <2>1
  <2>4. strayed' \in BOOLEAN
    BY <2>1 DEF Straying, ScanIInv
  <2>5. ASSUME ~strayed', NEW k \in unseen'
        PROVE  cursor' # 0 /\ Ahead(Hash[k], cursor')
    <3>1. ~Straying(dict, cursor) /\ (cursor = 0 \/ ~strayed)
      BY <2>1, <2>5
    <3>2. PICK e \in Entries(dict) : e.key = k
      BY <1>4, <2>1 DEF KeysOf
    <3>3. e \notin Visited(dict, cursor)
      BY <2>1, <3>2
    <3>4. HashOf(e) = Hash[k] /\ Hash[k] \in Nat
      BY <1>1, <3>2, EntriesAreEntry, HashAssumption DEF HashOf, Entry
    <3>5. Ahead(Hash[k], cursor)
      <4>1. CASE cursor = 0
        BY <3>4, <4>1, AheadOfZero
      <4>2. CASE cursor # 0
        <5>1. Pending(unseen, cursor)
          BY <3>1, <4>2 DEF ScanIInv
        <5>. QED BY <1>3, <2>1, <4>2, <5>1 DEF Pending
      <4>. QED BY <4>1, <4>2
    <3>6. PICK j \in Bits : /\ ScannedSize(dict) = Power[j]
                            /\ Hash[k] % Power[j] # cursor % Power[j]
      BY <1>1, <1>6, <3>1, <3>3, <3>4, <3>5, UnvisitedElsewhere
    <3>. QED BY <1>1, <2>1, <3>4, <3>5, <3>6, NextAhead
  <2>6. ~strayed' => Pending(unseen', cursor')
    BY <2>5 DEF Pending
  <2>. QED BY <1>2, <2>2, <2>3, <2>4, <2>6 DEF ScanIInv
<1>. QED BY <1>5, <1>6

(* What other calls do to the tables moves no bucket behind the cursor.    *)
LEMMA OtherStep ==
  ASSUME ScanIInv, OtherCall
  PROVE  ScanIInv'
<1>1. IInv' /\ Sized(dict')
  BY NextIInv, NextSized DEF ScanIInv, OtherCall
<1>2. /\ unseen' \subseteq unseen /\ unseen' \subseteq KeysOf(dict')
      /\ cursor' = cursor /\ strayed' = strayed
  BY DEF OtherCall
<1>3. Pending(unseen, cursor) => Pending(unseen', cursor)
  BY <1>2 DEF Pending
<1>. QED BY <1>1, <1>2, <1>3 DEF ScanIInv

LEMMA NextScan == ScanIInv /\ [ScanNext]_scanVars => ScanIInv'
<1>1. ASSUME ScanIInv, UNCHANGED scanVars PROVE ScanIInv'
  <2>1. UNCHANGED vars /\ UNCHANGED <<cursor, unseen, strayed>>
    BY <1>1 DEF scanVars, vars
  <2>2. IInv'
    BY <1>1, <2>1, NextIInv DEF ScanIInv
  <2>. QED BY <1>1, <2>1, <2>2 DEF ScanIInv, vars
<1>. QED BY <1>1, ScanStep, OtherStep DEF ScanNext

(* dict.h:197-198, at any moment between the calls of a scan: a key that   *)
(* has been there since it began and that it has not handed over yet is    *)
(* ahead of its cursor.                                                    *)
THEOREM UnseenIsAhead == ScanSpec => []ScanIInv
BY InitScan, NextScan, PTL DEF ScanSpec

(* So a scan that ends without having strayed has visited all of them.     *)
THEOREM ScanIsComplete == ScanSpec => []ScanVisitsAllUnlessStrayed
<1>1. ScanIInv => ScanVisitsAllUnlessStrayed
  BY DEF ScanIInv, Pending, ScanVisitsAllUnlessStrayed
<1>. QED BY <1>1, UnseenIsAhead, PTL
=============================================================================
