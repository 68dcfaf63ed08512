-------------------------------- MODULE Dict --------------------------------
(***************************************************************************)
(* cpp_src/dict.h and dict.cpp: a chained hash table that grows by         *)
(* incremental rehashing.  Every call that looks a key up first moves one  *)
(* more bucket of a rehash that is under way.  An action is a whole call;  *)
(* what it does to the tables is in DictTables.                            *)
(***************************************************************************)
EXTENDS DictTables

CONSTANTS Requests,      \* the sizes other parts of the program ask of dictExpand
          ForceRatio,    \* dict_force_resize_ratio
          RehashBatch,   \* the step counts dictRehash is called with
          MaxIterators   \* bound: safe iterators alive at once

ASSUME BatchAssumption == RehashBatch \subseteq Nat \ {0}
ASSUME CallAssumption  == /\ {ForceRatio, MaxIterators} \subseteq Nat
                          /\ Requests \subseteq 0 .. MaxRequest

VARIABLES dict,             \* the dict object
          dict_can_resize,  \* the static switch of dict.h
          ret               \* what the last call returned

vars == <<dict, dict_can_resize, ret>>

-----------------------------------------------------------------------------
(* Growing, and adding, which may make a table grow. *)

MustExpand(d) ==
  /\ ~Rehashing(d)
  /\ \/ d.ht[0].size = 0
     \/ /\ d.ht[0].size > 0
        /\ d.ht[0].used >= d.ht[0].size
        /\ dict_can_resize \/ d.ht[0].used \div d.ht[0].size > ForceRatio

_dictExpandIfNeeded(d) == IF MustExpand(d) THEN Expand(d, WantedSize(d)) ELSE d

(* _dictKeyIndex returns -1. *)
KeyIndexFails(d, k) ==
  \/ MustExpand(d) /\ ~CanExpand(d, WantedSize(d))
  \/ Lookup(_dictExpandIfNeeded(d), k) # {}

AddRawFails(d, k) == KeyIndexFails(_dictRehashStep(d), k)

(* dictAddRaw, with the value its caller stores in the new entry. *)
AddRaw(d, k, v) ==
  LET x == _dictExpandIfNeeded(_dictRehashStep(d))
  IN  IF AddRawFails(d, k) THEN x ELSE Insert(x, [key |-> k, v |-> v])

-----------------------------------------------------------------------------
(* The operations. *)

Init == dict = EmptyDict /\ dict_can_resize = TRUE /\ ret = Code(OK)

dictAdd(k, v) ==
  /\ dict' = AddRaw(dict, k, v)
  /\ ret' = Code(IF AddRawFails(dict, k) THEN ERR ELSE OK)
  /\ UNCHANGED dict_can_resize

dictAddRaw(k) ==
  /\ dict' = AddRaw(dict, k, NullPtr)
  /\ ret' = Pointer(IF AddRawFails(dict, k) THEN NullPtr ELSE [key |-> k, v |-> NullPtr])
  /\ UNCHANGED dict_can_resize

(* An add that fails is followed by a lookup, which rehashes once more.    *)
(* The old value is released: it is not nullptr (a caller's obligation).   *)
dictReplace(k, v) ==
  LET d == AddRaw(dict, k, v)
      e == FindResult(d, k)
  IN  /\ UNCHANGED dict_can_resize
      /\ \/ /\ ~AddRawFails(dict, k)
            /\ dict' = d
            /\ ret' = Code(1)
         \/ /\ AddRawFails(dict, k)
            /\ e # NullPtr /\ e.v # NullPtr
            /\ dict' = Assign(AfterFind(d), e, v)
            /\ ret' = Code(0)

dictReplaceRaw(k) ==
  LET d == AfterFind(dict)
  IN  /\ UNCHANGED dict_can_resize
      /\ \/ /\ FindResult(dict, k) # NullPtr
            /\ dict' = d
            /\ ret' = Pointer(FindResult(dict, k))
         \/ /\ FindResult(dict, k) = NullPtr
            /\ dict' = AddRaw(d, k, NullPtr)
            /\ ret' = Pointer(IF AddRawFails(d, k) THEN NullPtr ELSE [key |-> k, v |-> NullPtr])

dictDelete(k) ==
  /\ dict' = IF dict.ht[0].size = 0 THEN dict ELSE Unlink(_dictRehashStep(dict), k)
  /\ ret' = Code(IF Found(dict, k) = {} THEN ERR ELSE OK)
  /\ UNCHANGED dict_can_resize

(* dictFetchValue is dictFind followed by a read of the entry. *)
dictFind(k) ==
  /\ dict' = AfterFind(dict)
  /\ ret' = Pointer(FindResult(dict, k))
  /\ UNCHANGED dict_can_resize

dictGetRandomKey ==
  /\ UNCHANGED dict_can_resize
  /\ \/ Length(dict) = 0 /\ ret' = Pointer(NullPtr) /\ UNCHANGED dict
     \/ /\ Length(dict) # 0
        /\ dict' = _dictRehashStep(dict)
        /\ \E e \in RandomKeyDraws(dict') : ret' = Pointer(e)

dictExpand(size) ==
  /\ dict' = Expand(dict, size)
  /\ ret' = Code(IF CanExpand(dict, size) THEN OK ELSE ERR)
  /\ UNCHANGED dict_can_resize

dictResize ==
  /\ dict' = IF dict_can_resize THEN Expand(dict, MinimalSize(dict)) ELSE dict
  /\ ret' = Code(IF dict_can_resize /\ CanExpand(dict, MinimalSize(dict)) THEN OK ELSE ERR)
  /\ UNCHANGED dict_can_resize

(* dictRehashMillliseconds is a sequence of these, 100 rounds each. *)
dictRehash(n) ==
  /\ dict' = Rehash(dict, n)
  /\ ret' = Code(IF ~Rehashing(dict) \/ RehashFinishes(dict, n) THEN 0 ELSE 1)
  /\ UNCHANGED dict_can_resize

(* Callers release their iterators first. *)
dictEmpty ==
  /\ dict.iterators = 0
  /\ dict' = DictObject(_dictClear(dict.ht[0]), _dictClear(dict.ht[1]), -1, 0)
  /\ UNCHANGED <<dict_can_resize, ret>>

dictEnableResize  == dict_can_resize' = TRUE /\ UNCHANGED <<dict, ret>>
dictDisableResize == dict_can_resize' = FALSE /\ UNCHANGED <<dict, ret>>

(* The first dictNext of a safe iterator, and its destructor. *)
SafeIteratorStart ==
  /\ dict.iterators < MaxIterators
  /\ dict' = DictObject(dict.ht[0], dict.ht[1], dict.rehashidx, dict.iterators + 1)
  /\ UNCHANGED <<dict_can_resize, ret>>
(* Mutant: the destructor of an iterator that never moved decrements too. *)
SafeIteratorRelease_Unused ==
  /\ dict' = DictObject(dict.ht[0], dict.ht[1], dict.rehashidx, dict.iterators - 1)
  /\ UNCHANGED <<dict_can_resize, ret>>
SafeIteratorRelease ==
  /\ dict.iterators > 0
  /\ dict' = DictObject(dict.ht[0], dict.ht[1], dict.rehashidx, dict.iterators - 1)
  /\ UNCHANGED <<dict_can_resize, ret>>

KeyOperation(k) ==
  \/ \E v \in Value : dictAdd(k, v) \/ dictReplace(k, v)
  \/ dictAddRaw(k) \/ dictReplaceRaw(k) \/ dictDelete(k) \/ dictFind(k)

TableOperation ==
  \/ \E size \in Requests : dictExpand(size)
  \/ \E n \in RehashBatch : dictRehash(n)
  \/ dictResize \/ dictEmpty \/ dictEnableResize \/ dictDisableResize

Next ==
  \/ \E k \in Key : KeyOperation(k)
  \/ TableOperation
  \/ dictGetRandomKey
  \/ SafeIteratorStart
  \/ SafeIteratorRelease

Spec == Init /\ [][Next]_vars

-----------------------------------------------------------------------------
(* Invariants.  Together they are inductive (module DictProofs).           *)

(* The shape of the dict object, of the resize switch and of a result. *)
TypeOK ==
  /\ IsDict(dict)
  /\ dict_can_resize \in BOOLEAN
  /\ ret \in Result

EntriesPlaced == Placed(dict.ht[0]) /\ Placed(dict.ht[1])
UsedExact == Counted(dict.ht[0]) /\ Counted(dict.ht[1])
KeysUnique == Unique(dict)
MovedBucketsEmpty == Drained(dict)
SecondTableIdle == Idle(dict)

(* The two tables are one dictionary, wherever a rehash stands. *)
TablesConsistent ==
  EntriesPlaced /\ UsedExact /\ KeysUnique /\ MovedBucketsEmpty /\ SecondTableIdle

(* dict.cpp:72-74: the skip loop of dictRehash stops inside ht[0]: while   *)
(* ht[0] counts an entry, a bucket from rehashidx on holds one.            *)
RehashInBounds == Rehashing(dict) /\ dict.ht[0].used > 0 => Busy(dict) # {}

(* dict.cpp:465-474: dictGetRandomKey draws buckets until one is not empty *)
(* and so ends only if a non-empty dictionary has one to draw.             *)
RandomKeyTerminates ==
  Length(_dictRehashStep(dict)) > 0 => RandomKeyDraws(_dictRehashStep(dict)) # {}

(* The two loops whose only bound is an entry to be met: both end. *)
LoopsEnd == RehashInBounds /\ RandomKeyTerminates

-----------------------------------------------------------------------------
(* Action properties. *)

(* dict.h:132: with a safe iterator alive, no call but dictRehash itself   *)
(* moves an entry from one table to the other under the iterator.          *)
EntryStays ==
  \A e \in Items(dict.ht[0]) : e \notin Items(dict'.ht[1])
IteratorsPauseRehash ==
  [][dict.iterators > 0 /\ dict'.iterators > 0 =>
       EntryStays \/ \E n \in RehashBatch : dictRehash(n)]_vars

(* dict.h:220: a key that is added while a rehash is under way goes to     *)
(* ht[1], so that ht[0] runs empty.                                        *)
KeysOf(d) == {e.key : e \in Entries(d)}
NewKeysGoToNewTable ==
  [][Rehashing(dict') => \A e \in Items(dict'.ht[0]) : e.key \in KeysOf(dict)]_vars

-----------------------------------------------------------------------------
(* Refinement: the dictionary implements the map of its entries. *)

MapOf(d) == [k \in {e.key : e \in Entries(d)} |-> (CHOOSE e \in Entries(d) : e.key = k).v]

Map == INSTANCE KeyValueMap WITH map <- MapOf(dict)

(* Every behaviour of the dictionary is one of a map ... *)
ImplementsMap == Map!Spec

(* ... and every call does to the map what dict.h says of that call, and   *)
(* returns what it says, wherever the rehash stands.                       *)
CallsKeepTheirPromise ==
  [][/\ \A k \in Key :
          /\ \A v \in Value : /\ dictAdd(k, v) => Map!Add(k, v)
                              /\ dictReplace(k, v) => Map!Replace(k, v)
          /\ dictAddRaw(k) => Map!AddRaw(k)
          /\ dictReplaceRaw(k) => Map!ReplaceRaw(k)
          /\ dictDelete(k) => Map!Delete(k)
          /\ dictFind(k) => Map!Find(k)
     /\ dictGetRandomKey => Map!RandomKey
     /\ dictEmpty => Map!Clear]_vars
=============================================================================
