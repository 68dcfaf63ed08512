------------------------------ MODULE DictScan ------------------------------
(***************************************************************************)
(* dictScan (cpp_src/dict.cpp:357-408): a caller walks a dictionary with a *)
(* cursor and no iterator, one call at a time, while other calls add,      *)
(* delete, resize and rehash between two of its calls.  The cursor counts  *)
(* buckets with its bits reversed; all the state of a scan is the cursor.  *)
(***************************************************************************)
EXTENDS Dict, FiniteSetsExt

CONSTANT CursorBits   \* the bits of an unsigned long that a cursor uses

(* Powers of two, those of the bits and of the sizes of tables. *)
Power[i \in 0 .. CursorBits] == IF i = 0 THEN 1 ELSE 2 * Power[i - 1]
Bit == {Power[i] : i \in 0 .. CursorBits - 1}

ASSUME CursorAssumption ==
  CursorBits \in Nat /\ TableSize \subseteq {Power[i] : i \in 0 .. CursorBits}

VARIABLES cursor,   \* the cursor the caller holds, 0 when no scan is under way
          unseen,   \* history: keys present since the scan began and not yet visited
          strayed   \* history: dictScan met a rehash with a cursor of a larger table

scanVars == <<dict, dict_can_resize, ret, cursor, unseen, strayed>>

NextCursor_Plain(v, size) == (v + 1) % size   \* mutant: the bits are not reversed

(* v |= ~m; v = rev(v); v++; v = rev(v), in a table of size buckets: the   *)
(* highest clear bit is set and the bits above it are cleared; all bits    *)
(* set wrap to 0.                                                          *)
NextCursor(v, size) ==
  LET clear == {b \in Bit : b < size /\ (v \div b) % 2 = 0}
      top   == Max(clear)
  IN  IF clear = {} THEN 0 ELSE (v % top) + top

Smaller(d) == IF d.ht[0].size > d.ht[1].size THEN d.ht[1] ELSE d.ht[0]
Larger(d)  == IF d.ht[0].size > d.ht[1].size THEN d.ht[0] ELSE d.ht[1]

(* Mutant: only the bucket of the cursor, not all it expands to. *)
Expansion_CursorOnly(d, v) == {v % Larger(d).size}

(* The buckets of the larger table that the cursor's bucket of the smaller *)
(* one expands to; the loop begins at the cursor and ends when its high    *)
(* bits wrap to 0.                                                         *)
Expansion(d, v) ==
  {x \in 0 .. Larger(d).size - 1 :
     x % Smaller(d).size = v % Smaller(d).size /\ x >= v % Larger(d).size}

(* The entries one call of dictScan hands to fn. *)
Visited(d, v) ==
  IF Rehashing(d)
  THEN Smaller(d).table[v % Smaller(d).size]
       \cup UNION {Larger(d).table[x] : x \in Expansion(d, v)}
  ELSE d.ht[0].table[v % d.ht[0].size]

ScannedSize(d) == IF Rehashing(d) THEN Smaller(d).size ELSE d.ht[0].size

(* The loop over the larger table begins at the cursor, not at the first   *)
(* bucket of the expansion.  When the cursor has bits beyond the smaller   *)
(* table, given to it while the table was larger, and there are more than  *)
(* two buckets to an expansion, those it skips may be ahead of it.         *)
Straying(d, v) ==
  /\ Rehashing(d)
  /\ Larger(d).size > 2 * Smaller(d).size
  /\ v % Larger(d).size >= Smaller(d).size

ScanInit == Init /\ cursor = 0 /\ unseen = {} /\ strayed = FALSE

(* One call: the first one of a scan passes cursor 0. *)
dictScan ==
  LET goal == IF cursor = 0 THEN KeysOf(dict) ELSE unseen
  IN  /\ UNCHANGED vars
      /\ \/ /\ Length(dict) = 0
            /\ cursor' = 0
            /\ unseen' = goal
            /\ strayed' = (cursor # 0 /\ strayed)
         \/ /\ Length(dict) # 0
            /\ cursor' = NextCursor(cursor, ScannedSize(dict))
            /\ unseen' = goal \ {e.key : e \in Visited(dict, cursor)}
            /\ strayed' = (Straying(dict, cursor) \/ (cursor # 0 /\ strayed))

(* Any other call, between two calls of dictScan. *)
OtherCall ==
  /\ Next
  /\ unseen' = unseen \cap KeysOf(dict')
  /\ UNCHANGED <<cursor, strayed>>

ScanNext == dictScan \/ OtherCall

(* The caller calls dictScan until it returns 0. *)
ScanSpec == ScanInit /\ [][ScanNext]_scanVars /\ WF_scanVars(dictScan)

-----------------------------------------------------------------------------
(* dict.h:197-198: an element that is in the dictionary from the start of  *)
(* a scan to its end is visited by it, whatever is added, deleted or       *)
(* rehashed in between.  The code keeps that promise but for one case: a   *)
(* cursor that comes from a table larger than both a rehash moves between  *)
(* by more than a doubling or a halving, or than the smaller of them.      *)
ScanVisitsAllUnlessStrayed == cursor = 0 /\ ~strayed => unseen = {}

(* A scan ends, even when the tables change size under it. *)
ScanEnds == cursor # 0 ~> cursor = 0
=============================================================================
