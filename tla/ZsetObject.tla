----------------------------- MODULE ZsetObject -----------------------------
(***************************************************************************)
(* The sorted set of cpp_src/ZsetObject.cpp: a skiplist of members by      *)
(* score, and a dictionary from members to scores rendered as text.  The   *)
(* text has six digits: what is read back from it may be another score.    *)
(***************************************************************************)
EXTENDS Skiplist

CONSTANTS Member,   \* the members, numbered in the order of match
          Score,    \* the scores a client gives
          ReadBack  \* bound: [Score -> Score], a score written and read again

ASSUME OrderAssumption == Member \subseteq Nat \ {NoObj} /\ Score \subseteq Int
ASSUME ReadBackAssumption ==
  /\ ReadBack \in [Score -> Score]
  /\ \A s \in Score : ReadBack[ReadBack[s]] = ReadBack[s]

NewZset == [type |-> "zset", sl |-> slEmpty, dict |-> [m \in {} |-> 0]]

Exact(s) == ReadBack[s] = s

(* Where a node may be allocated once the old one of m has been deleted.   *)
Deleted(z, m) == IF m \in DOMAIN z.dict THEN slDelete(z.sl, z.dict[m], m) ELSE z.sl
FreeFor(z, m) == Address \ Nodes(Deleted(z, m))

ZsetAdd(z, m, score, n, lv) ==
  [z EXCEPT !.sl   = slInsert(Deleted(z, m), n, score, m, lv),
            !.dict = [x \in DOMAIN @ \cup {m} |-> IF x = m THEN ReadBack[score] ELSE @[x]]]

ZsetRem(z, m) ==
  [z EXCEPT !.sl   = Deleted(z, m),
            !.dict = [x \in DOMAIN @ \ {m} |-> @[x]]]

ZsetLen(z) == Cardinality(DOMAIN z.dict)

ZsetRank(z, m) == IF m \in DOMAIN z.dict THEN slGetRank(z.sl, z.dict[m], m) ELSE -1

(* Rank 0 finds the header, whose obj is nullptr.                          *)
ZsetGetByRank(z, rank) ==
  LET n == slGetElementByRank(z.sl, rank)
  IN  IF n = nullptr THEN NoObj ELSE z.sl.node[n].obj

(* The members ZsetRangeByScore writes out, and ZsetCount counts.          *)
Upto(sl, r) ==
  LET from[n \in Nodes(sl) \cup {nullptr}] ==
        IF n # nullptr /\ slValueLteMax(sl.node[n].score, r)
        THEN <<sl.node[n].obj>> \o from[Follow(sl, n)] ELSE << >>
  IN  from
ZsetRangeByScore(z, r) == Upto(z.sl, r)[slFirstInRange(z.sl, r)]
ZsetCount(z, r) == Len(ZsetRangeByScore(z, r))

-----------------------------------------------------------------------------
(* What a sorted set should be. *)

ScoreOf(z, n)  == z.sl.node[n].score
NodesOf(z, m)  == {n \in Nodes(z.sl) : z.sl.node[n].obj = m}
AllExact(z)    == \A n \in Nodes(z.sl) : Exact(ScoreOf(z, n))

(* Skiplist and dictionary hold the same members with the same scores, but *)
(* for nodes whose score does not survive its rendering.                   *)
InStepButForRounding(z) ==
  /\ \A m \in DOMAIN z.dict : \E n \in NodesOf(z, m) : ReadBack[ScoreOf(z, n)] = z.dict[m]
  /\ \A n \in Nodes(z.sl) : Exact(ScoreOf(z, n)) =>
       LET m == z.sl.node[n].obj
       IN  /\ m \in DOMAIN z.dict /\ z.dict[m] = ScoreOf(z, n)
           /\ \A k \in NodesOf(z, m) \ {n} : ~Exact(ScoreOf(z, k))

(* Ranks and ranges, computed from the dictionary alone.                   *)
RankOf(z, m) ==
  1 + Cardinality({x \in DOMAIN z.dict : \/ z.dict[x] < z.dict[m]
                                         \/ (z.dict[x] = z.dict[m] /\ x < m)})
Within(z, r) == {m \in DOMAIN z.dict : slValueGteMin(z.dict[m], r) /\ slValueLteMax(z.dict[m], r)}

QueriesAgree(z, ranges) ==
  AllExact(z) =>
    /\ ZsetLen(z) = z.sl.length
    /\ \A m \in DOMAIN z.dict : ZsetRank(z, m) = RankOf(z, m) /\ ZsetGetByRank(z, RankOf(z, m)) = m
    /\ ZsetGetByRank(z, 0) = NoObj /\ ZsetGetByRank(z, z.sl.length + 1) = NoObj
    /\ \A r \in ranges :
         LET found == ZsetRangeByScore(z, r)
             last  == slLastInRange(z.sl, r)
         IN  /\ {found[i] : i \in DOMAIN found} = Within(z, r)
             /\ ZsetCount(z, r) = Cardinality(Within(z, r))
             /\ \A i, j \in DOMAIN found : i < j => RankOf(z, found[i]) < RankOf(z, found[j])
             /\ IF found = << >> THEN last = nullptr
                ELSE z.sl.node[last].obj = found[Len(found)]
=============================================================================
