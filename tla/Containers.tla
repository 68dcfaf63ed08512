----------------------------- MODULE Containers -----------------------------
(***************************************************************************)
(* One key of the database and what it holds: nothing, a list, a set or a  *)
(* sorted set, under the commands of cpp_src/pydis.cpp that change a       *)
(* container.  The first push creates it; an emptied one stays.            *)
(*                                                                         *)
(* The commands that only read (lindex, lrange, zcount, zrank ...) are     *)
(* operators of the objects' modules: the invariants compare what they     *)
(* answer with a reference in every reachable state, for every argument.   *)
(***************************************************************************)
EXTENDS ListObject, ZsetObject, SetObject

CONSTANTS ListValue,  \* what clients push
          SetValue,   \* what clients add to a set: integers, and texts
          Count,      \* counts given to lrem, and indices given to list commands
          Ranges      \* rangespecs

ASSUME NumberAssumption == SetValue \subseteq Int /\ Count \subseteq Int
ASSUME RangeAssumption  == Ranges \subseteq [min : Int, max : Int, minex : BOOLEAN, maxex : BOOLEAN]

VARIABLES obj,    \* what get_value finds
          reply   \* the last reply, as far as it depends on the container

vars == <<obj, reply>>

Absent  == [type |-> "none"]
Is(t)   == obj.type = t
Code(x) == <<x>>
Element(x) == <<"element", x>>

Init == obj = Absent /\ reply = Code("ok")

Running == reply # Code("crash")

(* param_check, and its equivalents in scard, srem and others.             *)
Checked(t) == Running /\ Is(t)

(* A push on nothing creates the container; on another type it fails.      *)
Target(t, new) == IF Is(t) THEN obj ELSE new
TypeError(t) == /\ Running /\ ~Is("none") /\ ~Is(t)
                /\ reply' = Code("typerr") /\ UNCHANGED obj

-----------------------------------------------------------------------------
(* Lists. *)

push(v, where) ==
  LET l == Target("list", NewList)
  IN  /\ Running
      /\ Is("none") \/ Is("list")
      /\ Len(l.lst) < ListMax
      /\ obj' = [l EXCEPT !.lst = Push(@, v, where)]
      /\ reply' = Code("ok")

pop(where) ==
  /\ Checked("list")
  /\ IF obj.lst = << >>
     THEN reply' = Code("none") /\ UNCHANGED obj
     ELSE reply' = Element(Popped(obj.lst, where)) /\ obj' = [obj EXCEPT !.lst = AfterPop(@, where)]

lset(index, v) ==
  /\ Checked("list")
  /\ obj' = [obj EXCEPT !.lst = ListObjectSet(@, index, v)]
  /\ reply' = Code(IF IsIndex(obj.lst, index) THEN "ok" ELSE "rangeout")

lrem(nums, v) ==
  /\ Checked("list")
  /\ IF RemIsUndefined(obj.lst, nums)
     THEN reply' = Code("crash") /\ UNCHANGED obj
     ELSE /\ obj' = [obj EXCEPT !.lst = ListObjectRem(@, nums, v)]
          /\ reply' = Element(Len(obj.lst) - Len(obj'.lst))

-----------------------------------------------------------------------------
(* Sets. *)

SaddReply(o, v) == IF SetObjectAdd(o, v).code = "PY_EXIST" THEN "exists" ELSE "ok"

sadd(v) ==
  LET o == Target("set", NewSet(v))
  IN  /\ Running
      /\ Is("none") \/ Is("set")
      /\ obj' = SetObjectAdd(o, v).set
      /\ reply' = Code(SaddReply(o, v))

srem(v) ==
  LET after == SetObjectRem(obj, v)
  IN  /\ Checked("set")
      /\ obj' = after
      /\ reply' = Code(IF SetObjectLen(after) < SetObjectLen(obj) THEN "ok" ELSE "not exists")

spop ==
  /\ Checked("set")
  /\ \/ /\ SetObjectLen(obj) = 0
        /\ reply' = Code("none") /\ UNCHANGED obj
     \/ \E v \in Candidates(obj) :
          IF Pops(obj, v) THEN reply' = Element(v) /\ obj' = SetObjectRem(obj, v)
          ELSE reply' = Code("unerr") /\ UNCHANGED obj

-----------------------------------------------------------------------------
(* Sorted sets. *)

zadd(m, score) ==
  LET z == Target("zset", NewZset)
  IN  /\ Running
      /\ Is("none") \/ Is("zset")
      /\ \E n \in FreeFor(z, m), lv \in 1 .. MaxLevel : obj' = ZsetAdd(z, m, score, n, lv)
      /\ reply' = Code("ok")

zrem(m) ==
  /\ Checked("zset")
  /\ IF m \in DOMAIN obj.dict THEN obj' = ZsetRem(obj, m) /\ reply' = Code("PY_OK")
     ELSE reply' = Code("PY_ERR") /\ UNCHANGED obj

-----------------------------------------------------------------------------
del == Running /\ ~Is("none") /\ obj' = Absent /\ reply' = Code("ok")

Next ==
  \/ \E v \in ListValue, where \in {"head", "tail"} : push(v, where)
  \/ \E where \in {"head", "tail"} : pop(where)
  \/ \E v \in ListValue, c \in Count : lset(c, v) \/ lrem(c, v)
  \/ \E v \in SetValue : sadd(v) \/ srem(v)
  \/ spop
  \/ \E m \in Member : zrem(m) \/ \E score \in Score : zadd(m, score)
  \/ \E t \in {"list", "set", "zset"} : TypeError(t)
  \/ del

Spec == Init /\ [][Next]_vars

-----------------------------------------------------------------------------
(* Invariants. *)

(* An intset is sorted, free of duplicates and within its encoding, but    *)
(* in the first encoding after a negative number was stored.               *)
TypeOK ==
  \/ obj = Absent
  \/ Is("list") /\ obj.lst \in Seq(ListValue) /\ Len(obj.lst) <= ListMax
  \/ Is("set") /\ obj.struct \in {"intset", "dict"} /\ obj.is.enc \in 1 .. 3
     /\ obj.keys \subseteq Int /\ Length(obj.is) <= SetIntsetMax
     /\ IsIntset(obj) => SortedUnlessNegativeStored(obj.is)
  \/ Is("zset") /\ DOMAIN obj.dict \subseteq Member /\ Nodes(obj.sl) \subseteq Address
     /\ obj.sl.level \in 1 .. MaxLevel

(* lrem, lindex and lrange answer as pydis.cpp says of them: lrem, also    *)
(* where it erases under its iterator, removes from the end it is told to, *)
(* and lrange returns a slice, but for a start before the first element.   *)
ListsDoAsTold ==
  Is("list") => /\ RemRemovesFromThatEnd(obj.lst, Count, ListValue)
                /\ RangeIsSliceUnlessBeforeFirst(obj.lst, Count)

(* The skiplist: every level is a sublist of the one below, sorted by      *)
(* score and member; backward, tail and length agree; every span is the    *)
(* number of nodes between the two ends of its link, on levels that came   *)
(* and went as well; and the dictionary has the same members, but after a  *)
(* score whose text is another.                                            *)
ZsetSound ==
  Is("zset") => /\ Sorted(obj.sl) /\ LevelsAreSublists(obj.sl) /\ BackwardMirrorsForward(obj.sl)
                /\ SpansAreDistances(obj.sl)
                /\ InStepButForRounding(obj)

(* While every score survives its text, rank and range queries answer as   *)
(* the dictionary alone would.                                             *)
ZsetQueries == Is("zset") => QueriesAgree(obj, Ranges)

-----------------------------------------------------------------------------
(* Action properties. *)

Elements    == IF Is("set") THEN Candidates(obj) ELSE {}
Trustworthy == Is("set") /\ IsIntset(obj) => Clean(obj.is)

(* A negative number that goes into the first encoding is not found again  *)
(* as what it was: that array is one of uint16_t (intset.h:202).           *)
InFirst(o, v) == IsIntset(o) /\ string2ll(v) /\ check(o.is, v).enc = 1
Misstored(v)  == v < 0 /\ InFirst(Target("set", NewSet(v)), v)

AddsAsTold(v) == /\ Elements \subseteq Elements'
                 /\ ~Misstored(v) => Elements' = Elements \cup {v}
                 /\ reply' = Code("exists") => v \in Elements
                 /\ v \in Elements => reply' = Code("exists") \/ IsIntset(obj)
RemovesAsTold(v) == /\ Elements' = Elements \ {v}
                    /\ reply' = Code("ok") <=> v \in Elements
PopsAsTold == \/ Elements = {} /\ UNCHANGED obj
              \/ \E v \in Elements : Elements' = Elements \ {v} /\ reply' = Element(v)

(* From a set that holds what it was given, a command takes it to the set  *)
(* the command means and says so, across upgrades of the encoding and into *)
(* a dictionary.  pydis.cpp:727 says that sadd of a member that exists     *)
(* answers exists: sadd does so for a set kept in a dictionary; what it    *)
(* answers for one in an intset (ok, against that comment), and what       *)
(* becomes of a negative number in the first encoding, is not claimed.     *)
SetsDoAsTold ==
  [][Trustworthy =>
       /\ \A v \in SetValue : sadd(v) => AddsAsTold(v)
       /\ \A v \in SetValue : srem(v) => RemovesAsTold(v)
       /\ spop => PopsAsTold]_vars
=============================================================================
