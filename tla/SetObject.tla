----------------------------- MODULE SetObject -----------------------------
(***************************************************************************)
(* The set of cpp_src/SetObject.cpp: an intset while its values are        *)
(* integers and few, a dictionary from then on.                            *)
(*                                                                         *)
(* A value is a number; one outside the range of the third encoding is a   *)
(* text that string2ll refuses.                                            *)
(***************************************************************************)
EXTENDS Intset, FiniteSets

CONSTANT SetIntsetMax   \* SET_INTSET_MAX

ASSUME SetIntsetMaxAssumption == SetIntsetMax \in Nat

string2ll(v) == InWidth(v, 3)

NewSet(v) ==
  [type |-> "set", struct |-> IF string2ll(v) THEN "intset" ELSE "dict",
   is |-> NewIntset, keys |-> {}]

IsIntset(o)     == o.struct = "intset"
SetObjectLen(o) == IF IsIntset(o) THEN Length(o.is) ELSE Cardinality(o.keys)

SetObjectUpgrade_Empty(o) == [o EXCEPT !.struct = "dict", !.is = NewIntset]   \* mutant
SetObjectUpgrade(o) ==
  [o EXCEPT !.struct = "dict", !.is = NewIntset, !.keys = ToSet(o.is.contents)]

SetObjectExist(o, v) ==
  IF IsIntset(o) THEN string2ll(v) /\ intsetFind(o.is, v) ELSE v \in o.keys

TooLong(o) == Length(o.is) > SetIntsetMax

(* The set after an add, and whether it is PY_OK, PY_EXIST or PY_ERR.      *)
AddToDict(o, v) ==
  [set |-> [o EXCEPT !.keys = @ \cup {v}], code |-> IF v \in o.keys THEN "PY_EXIST" ELSE "PY_OK"]
SetObjectAdd(o, v) ==
  IF ~IsIntset(o) THEN AddToDict(o, v)
  ELSE IF ~string2ll(v) THEN AddToDict(SetObjectUpgrade(o), v)
  ELSE LET after == [o EXCEPT !.is = intsetAdd(@, v)]
           grown == Length(after.is) > Length(check(o.is, v))
       IN  IF ~grown THEN [set |-> after, code |-> "PY_ERR"]
           ELSE [set  |-> IF TooLong(after) THEN SetObjectUpgrade(after) ELSE after,
                 code |-> "PY_OK"]

SetObjectRem(o, v) ==
  IF IsIntset(o) THEN (IF string2ll(v) THEN [o EXCEPT !.is = intsetRemove(@, v)] ELSE o)
  ELSE [o EXCEPT !.keys = @ \ {v}]

(* SetObejctPop: one of the elements, removed as srem would; from an       *)
(* intset it is a nullptr when the removal fails.                          *)
Candidates(o) == IF IsIntset(o) THEN ToSet(o.is.contents) ELSE o.keys
Pops(o, v)    == SetObjectLen(SetObjectRem(o, v)) < SetObjectLen(o)
=============================================================================
