----------------------------- MODULE ListObject -----------------------------
(***************************************************************************)
(* The list of cpp_src/ListObject.cpp on cpp_src/adlist.cpp, a std::list.  *)
(* Indices count from 0 as in the code, positions of a sequence from 1.    *)
(***************************************************************************)
EXTENDS Integers, Sequences, FiniteSets, SequencesExt

CONSTANT ListMax   \* bound: elements of a list

ASSUME ListMaxAssumption == ListMax \in Nat

NewList == [type |-> "list", lst |-> << >>]

None     == "none"
RangeOut == "range out"

(* A negative index counts from the end, once. *)
FromStart(l, index) == IF index < 0 THEN Len(l) + index ELSE index
IsIndex(l, index)   == 0 <= FromStart(l, index) /\ FromStart(l, index) < Len(l)

Push(l, v, where) == IF where = "tail" THEN Append(l, v) ELSE <<v>> \o l

Popped(l, where)   == IF where = "head" THEN Head(l) ELSE Last(l)
AfterPop(l, where) == IF where = "head" THEN Tail(l) ELSE Front(l)

ListObjectIndex(l, index) ==
  IF IsIndex(l, index) THEN l[FromStart(l, index) + 1] ELSE None

ListObjectSet(l, index, v) ==
  IF IsIndex(l, index) THEN [l EXCEPT ![FromStart(l, index) + 1] = v] ELSE l

(* lrem: p is the iterator, cot the number removed so far; each round of   *)
(* the loop looks at one element more.  From the head the iterator stands  *)
(* on the next element already once one is erased.                         *)
Removing(l, p, cot) == [lst |-> l, p |-> p, cot |-> cot]

RemFromHead(l, nums, v) ==
  LET round[k \in 0 .. Len(l)] ==
        LET s == round[k - 1]
        IN  IF k = 0 THEN Removing(l, 1, 0)
            ELSE IF ~(nums = 0 \/ s.cot < nums) THEN s
            ELSE IF s.lst[s.p] = v THEN Removing(RemoveAt(s.lst, s.p), s.p, s.cot + 1)
            ELSE Removing(s.lst, s.p + 1, s.cot)
  IN  round[Len(l)].lst

(* From the tail: the loop stops at begin(), which is looked at after it.  *)
(* erase returns the next node, from which the iterator steps back.        *)
BeforeBegin(l, nums, v) ==
  LET round[k \in 0 .. Len(l) - 1] ==
        LET s == round[k - 1]
        IN  IF k = 0 THEN Removing(l, Len(l), 0)
            ELSE IF ~(s.cot < -nums) THEN s
            ELSE IF s.lst[s.p] = v THEN Removing(RemoveAt(s.lst, s.p), s.p - 1, s.cot + 1)
            ELSE Removing(s.lst, s.p - 1, s.cot)
  IN  round[Len(l) - 1]

RemFromTail_Begin(l, nums, v) == BeforeBegin(l, nums, v).lst   \* mutant: begin() is not looked at
RemFromTail(l, nums, v) ==
  LET s == BeforeBegin(l, nums, v)
  IN  IF s.cot < -nums /\ s.lst[s.p] = v THEN RemoveAt(s.lst, s.p) ELSE s.lst

(* Of an empty list end() steps back to end(), and is dereferenced.        *)
RemIsUndefined(l, nums) == nums < 0 /\ l = << >>
ListObjectRem(l, nums, v) == IF nums >= 0 THEN RemFromHead(l, nums, v) ELSE RemFromTail(l, nums, v)

(* lrange: the elements from start to end, end excluded.                   *)
lrange(l, start, end) ==
  LET s == FromStart(l, start)
      e == FromStart(l, end)
  IN  IF e < 0 \/ s >= e \/ s >= Len(l) \/ e > Len(l) THEN RangeOut
      ELSE [i \in 1 .. e - s |-> ListObjectIndex(l, s + i - 1)]

-----------------------------------------------------------------------------
(* lrem removes the first nums occurrences, the last -nums, or all.        *)
Occurrences(l, v) == {p \in DOMAIN l : l[p] = v}
ToRemove(l, nums, v) ==
  LET occ == Occurrences(l, v)
  IN  {p \in occ : \/ nums = 0
                   \/ nums > 0 /\ Cardinality({q \in occ : q < p}) < nums
                   \/ nums < 0 /\ Cardinality({q \in occ : q > p}) < -nums}
(* What is left of l without the positions of S: nothing else moves but by *)
(* the number removed in front of it.                                      *)
IsRest(r, l, S) ==
  /\ Len(r) = Len(l) - Cardinality(S)
  /\ \A p \in DOMAIN l \ S : r[p - Cardinality({q \in S : q < p})] = l[p]

(* pydis.cpp:748: lrem removes that many occurrences from that end.        *)
RemRemovesFromThatEnd(l, counts, values) ==
  \A nums \in counts, v \in values :
    ~RemIsUndefined(l, nums) => IsRest(ListObjectRem(l, nums, v), l, ToRemove(l, nums, v))

(* pydis.cpp:746: lrange gives the slice or says "range out".  A start     *)
(* before the first element is let through and counted from the end again. *)
RangeIsSliceUnlessBeforeFirst(l, indices) ==
  \A start, end \in indices :
    LET s == FromStart(l, start)
        e == FromStart(l, end)
    IN  s >= 0 => lrange(l, start, end) = IF s < e /\ e <= Len(l) THEN SubSeq(l, s + 1, e)
                                                                 ELSE RangeOut
=============================================================================
