---------------------------- MODULE KeyValueMap ----------------------------
(***************************************************************************)
(* What dict.h promises its callers: a partial function from keys to       *)
(* values, and the value each call returns.  How the pairs are laid out in *)
(* two hash tables, and when they move between them, must not be visible   *)
(* here.  Module Dict implements this module.                              *)
(***************************************************************************)
CONSTANTS Key, Value,
          NullPtr   \* nullptr: the value of a raw entry, and "no entry" as a result

VARIABLES map,      \* the pairs of the dictionary
          ret       \* what the last call returned

vars == <<map, ret>>

OK  == 1            \* DICT_OK
ERR == 0            \* DICT_ERR

Code(c)    == [code |-> c, entry |-> NullPtr]
Pointer(e) == [code |-> ERR, entry |-> e]

Put(k, v) == [x \in DOMAIN map \cup {k} |-> IF x = k THEN v ELSE map[x]]

Pair(k) == [key |-> k, v |-> map[k]]

Init == map = [k \in {} |-> NullPtr] /\ ret = Code(OK)

(* dict.h:137: a pair is added only when its key is absent. *)
Add(k, v) ==
  \/ k \notin DOMAIN map /\ map' = Put(k, v) /\ ret' = Code(OK)
  \/ k \in DOMAIN map /\ ret' = Code(ERR) /\ UNCHANGED map

(* dict.h:141: like Add, but the result is the new entry or nullptr. *)
AddRaw(k) ==
  \/ k \notin DOMAIN map /\ map' = Put(k, NullPtr)
                         /\ ret' = Pointer([key |-> k, v |-> NullPtr])
  \/ k \in DOMAIN map /\ ret' = Pointer(NullPtr) /\ UNCHANGED map

(* dict.h:145: 1 when the pair is new, 0 when it replaces one. *)
Replace(k, v) ==
  /\ map' = Put(k, v)
  /\ ret' = Code(IF k \in DOMAIN map THEN 0 ELSE 1)

(* dict.h:150: the entry of the key, which is added when it is absent. *)
ReplaceRaw(k) ==
  \/ k \in DOMAIN map /\ ret' = Pointer(Pair(k)) /\ UNCHANGED map
  \/ k \notin DOMAIN map /\ map' = Put(k, NullPtr)
                         /\ ret' = Pointer([key |-> k, v |-> NullPtr])

(* dict.h:160: DICT_OK when the pair was there. *)
Delete(k) ==
  \/ k \in DOMAIN map /\ map' = [x \in DOMAIN map \ {k} |-> map[x]] /\ ret' = Code(OK)
  \/ k \notin DOMAIN map /\ ret' = Code(ERR) /\ UNCHANGED map

(* dict.h:170: the entry of the key, or nullptr. *)
Find(k) ==
  /\ ret' = Pointer(IF k \in DOMAIN map THEN Pair(k) ELSE NullPtr)
  /\ UNCHANGED map

(* dict.h:206: some entry of a dictionary that has one. *)
RandomKey ==
  \/ DOMAIN map # {} /\ (\E k \in DOMAIN map : ret' = Pointer(Pair(k))) /\ UNCHANGED map
  \/ DOMAIN map = {} /\ ret' = Pointer(NullPtr) /\ UNCHANGED map

(* dict.h:203: every pair is gone. *)
Clear == map' = [k \in {} |-> NullPtr] /\ UNCHANGED ret

(* Resizing and rehashing report success or not, and keep every pair. *)
Reorganise == (\E c \in {OK, ERR} : ret' = Code(c)) /\ UNCHANGED map

Next ==
  \/ \E k \in Key, v \in Value : Add(k, v) \/ Replace(k, v)
  \/ \E k \in Key : AddRaw(k) \/ ReplaceRaw(k) \/ Delete(k) \/ Find(k)
  \/ RandomKey
  \/ Clear
  \/ Reorganise

Spec == Init /\ [][Next]_vars
=============================================================================
