------------------------------ MODULE Skiplist ------------------------------
(***************************************************************************)
(* The skiplist of cpp_src/skiplist.cpp, as operators on a record: the     *)
(* nodes by address (the header among them), the highest level in use, the *)
(* length and the tail.  Levels count from 1.                              *)
(*                                                                         *)
(* A member is a number: its place in the order of BaseObject::match.      *)
(***************************************************************************)
EXTENDS Integers, Sequences, FiniteSets, FiniteSetsExt

CONSTANTS Address,  \* bound: where nodes may be allocated
          MaxLevel  \* SKIPLIST_MAXLEVEL

header  == "header"
nullptr == "nullptr"

ASSUME AddressAssumption == IsFiniteSet(Address) /\ Address \cap {header, nullptr} = {}
ASSUME LevelAssumption   == MaxLevel \in Nat \ {0}
NoObj   == 0

Link(forward, span) == [forward |-> forward, span |-> span]

slEmpty ==
  [node   |-> [a \in {header} |-> [obj |-> NoObj, score |-> 0, backward |-> nullptr,
                                   level |-> [i \in 1 .. MaxLevel |-> Link(nullptr, 0)]]],
   level  |-> 1,
   length |-> 0,
   tail   |-> nullptr]

(* obj and score of a node stay what they were.                            *)
Rewired(x, backward, level) ==
  [obj |-> x.obj, score |-> x.score, backward |-> backward, level |-> level]

Nodes(sl) == DOMAIN sl.node \ {header}
First(sl) == sl.node[header].level[1].forward
Follow(sl, n) == sl.node[n].level[1].forward

Precedes(sl, n, score, obj) ==
  \/ sl.node[n].score < score
  \/ (sl.node[n].score = score /\ sl.node[n].obj < obj)
Matches(sl, n, score, obj) ==
  n \in Nodes(sl) /\ sl.node[n].score = score /\ sl.node[n].obj = obj

-----------------------------------------------------------------------------
(* The descent every operation begins with: on each level, from the place  *)
(* reached on the one above, go on while the next node is in S, and the    *)
(* spans crossed up to it in R; at[i] is update[i] of the code, rank[i]    *)
(* the spans crossed.                                                      *)

OnLevel(sl, i) == {a \in DOMAIN sl.node : i \in DOMAIN sl.node[a].level}

Walk(sl, S, R, i) ==
  LET to[p \in [at : OnLevel(sl, i), rank : Int]] ==
        LET l == sl.node[p.at].level[i]
            q == [at |-> l.forward, rank |-> p.rank + l.span]
        IN  IF q.at \in S /\ q.rank \in R THEN to[q] ELSE p
  IN  to

Start == [at |-> header, rank |-> 0]

Descent(sl, S, R) ==
  LET path[i \in 1 .. sl.level] ==
        Walk(sl, S, R, i)[IF i = sl.level THEN Start ELSE path[i + 1]]
  IN  path
Descend(sl, S) == Descent(sl, S, Int)

Before(sl, score, obj) == {n \in Nodes(sl) : Precedes(sl, n, score, obj)}

-----------------------------------------------------------------------------
(* A new node x at address n with lv levels.  Levels that come into use    *)
(* start at the header with the whole length for a span.                   *)

RawLevels_OldSpan(sl, i) == sl.node[header].level[i]   \* mutant: no span = _length
RawLevels(sl, i) == Link(sl.node[header].level[i].forward, sl.length)

slInsert(sl, n, score, obj, lv) ==
  LET path      == Descend(sl, Before(sl, score, obj))
      update(i) == IF i <= sl.level THEN path[i] ELSE Start
      from(i)   == IF i <= sl.level THEN sl.node[path[i].at].level[i] ELSE RawLevels(sl, i)
      ahead(i)  == path[1].rank - update(i).rank
      top       == Max({lv, sl.level})
      relinked(a, i, l) ==
        IF i > top \/ update(i).at # a THEN l
        ELSE IF i <= lv THEN Link(n, ahead(i) + 1) ELSE Link(l.forward, l.span + 1)
      x    == [obj |-> obj, score |-> score,
               backward |-> IF path[1].at = header THEN nullptr ELSE path[1].at,
               level |-> [i \in 1 .. lv |-> Link(from(i).forward, from(i).span - ahead(i))]]
      next == x.level[1].forward
      node(a) == Rewired(sl.node[a], IF a = next THEN n ELSE sl.node[a].backward,
                         [i \in DOMAIN sl.node[a].level |-> relinked(a, i, sl.node[a].level[i])])
  IN  [node   |-> [a \in DOMAIN sl.node \cup {n} |-> IF a = n THEN x ELSE node(a)],
       level  |-> top,
       length |-> sl.length + 1,
       tail   |-> IF next = nullptr THEN n ELSE sl.tail]

(* Mutant: only the levels x is on are repaired. *)
Unlinked_OwnLevels(sl, x, l, i) ==
  IF l.forward = x THEN Link(sl.node[x].level[i].forward, l.span + sl.node[x].level[i].span - 1)
  ELSE l
(* A link of update[i] once node x is gone. *)
Unlinked(sl, x, l, i) ==
  IF l.forward = x THEN Link(sl.node[x].level[i].forward, l.span + sl.node[x].level[i].span - 1)
  ELSE Link(l.forward, l.span - 1)

Back(sl, x, a) == IF a = Follow(sl, x) THEN sl.node[x].backward ELSE sl.node[a].backward

slDeleteNode(sl, x, path) ==
  LET node == [a \in DOMAIN sl.node \ {x} |->
                Rewired(sl.node[a], Back(sl, x, a),
                        [i \in DOMAIN sl.node[a].level |->
                           IF i <= sl.level /\ path[i].at = a
                           THEN Unlinked(sl, x, sl.node[a].level[i], i) ELSE sl.node[a].level[i]])]
  IN  [node   |-> node,
       level  |-> Max({1} \cup {i \in 1 .. sl.level : node[header].level[i].forward # nullptr}),
       length |-> sl.length - 1,
       tail   |-> IF Follow(sl, x) = nullptr THEN sl.node[x].backward ELSE sl.tail]

(* The list after slDelete: as it was when no node has score and obj.      *)
slDelete(sl, score, obj) ==
  LET path == Descend(sl, Before(sl, score, obj))
      x    == Follow(sl, path[1].at)
  IN  IF Matches(sl, x, score, obj) THEN slDeleteNode(sl, x, path) ELSE sl

-----------------------------------------------------------------------------
(* Ranges and ranks. *)

slValueGteMin(value, r) == IF r.minex THEN value > r.min ELSE value >= r.min
slValueLteMax(value, r) == IF r.maxex THEN value < r.max ELSE value <= r.max

slIsInRange(sl, r) ==
  /\ ~(r.min > r.max \/ (r.min = r.max /\ (r.minex \/ r.maxex)))
  /\ sl.tail # nullptr /\ slValueGteMin(sl.node[sl.tail].score, r)
  /\ First(sl) # nullptr /\ slValueLteMax(sl.node[First(sl)].score, r)

slFirstInRange(sl, r) ==
  LET below == {n \in Nodes(sl) : ~slValueGteMin(sl.node[n].score, r)}
      x     == Follow(sl, Descend(sl, below)[1].at)
  IN  IF slIsInRange(sl, r) /\ x # nullptr /\ slValueLteMax(sl.node[x].score, r)
      THEN x ELSE nullptr

slLastInRange(sl, r) ==
  LET within == {n \in Nodes(sl) : slValueLteMax(sl.node[n].score, r)}
      x      == Descend(sl, within)[1].at
  IN  IF slIsInRange(sl, r) /\ slValueGteMin(sl.node[x].score, r) THEN x ELSE nullptr

(* The rank is returned on the first level whose walk ends at the node.    *)
slGetRank(sl, score, obj) ==
  LET upto == {n \in Nodes(sl) : Precedes(sl, n, score, obj) \/ Matches(sl, n, score, obj)}
      path == Descend(sl, upto)
      hits == {i \in 1 .. sl.level : Matches(sl, path[i].at, score, obj)}
  IN  IF hits = {} THEN 0 ELSE path[Max(hits)].rank

slGetElementByRank(sl, rank) ==
  LET path == Descent(sl, Nodes(sl), 0 .. rank)
      hits == {i \in 1 .. sl.level : path[i].rank = rank}
  IN  IF hits = {} THEN nullptr ELSE path[Max(hits)].at

-----------------------------------------------------------------------------
(* What a skiplist should be. *)

(* The nodes in the order of level 1: the one after k links.               *)
After(sl) ==
  LET nth[k \in Nat] == IF k = 0 THEN header
                        ELSE IF nth[k - 1] = nullptr THEN nullptr ELSE Follow(sl, nth[k - 1])
  IN  nth
Chain(sl) == LET nth == After(sl) IN [p \in 1 .. sl.length |-> nth[p]]

Place(sl, n) == IF n = header THEN 0
                ELSE IF n = nullptr THEN sl.length
                ELSE LET c == Chain(sl) IN CHOOSE p \in DOMAIN c : c[p] = n

SpansAreDistances(sl) ==
  \A i \in 1 .. sl.level : \A a \in OnLevel(sl, i) :
    sl.node[a].level[i].span = Place(sl, sl.node[a].level[i].forward) - Place(sl, a)

Sorted(sl) ==
  LET c == Chain(sl)
  IN  \A p \in 1 .. sl.length - 1 :
        ~Precedes(sl, c[p + 1], sl.node[c[p]].score, sl.node[c[p]].obj)

(* On every level a node is followed by the next one that has the level.   *)
LevelsAreSublists(sl) ==
  \A i \in 1 .. sl.level : \A a \in OnLevel(sl, i) :
    LET later == {n \in OnLevel(sl, i) : Place(sl, n) > Place(sl, a)}
        next  == sl.node[a].level[i].forward
    IN  IF later = {} THEN next = nullptr
        ELSE next \in later /\ \A n \in later : Place(sl, next) <= Place(sl, n)

BackwardMirrorsForward(sl) ==
  LET c == Chain(sl)
  IN  /\ sl.length = Cardinality(Nodes(sl)) /\ {c[p] : p \in DOMAIN c} = Nodes(sl)
      /\ After(sl)[sl.length + 1] = nullptr
      /\ \A p \in DOMAIN c : sl.node[c[p]].backward = IF p = 1 THEN nullptr ELSE c[p - 1]
      /\ sl.tail = IF sl.length = 0 THEN nullptr ELSE c[sl.length]
      /\ \A n \in Nodes(sl) : DOMAIN sl.node[n].level \subseteq 1 .. sl.level
=============================================================================
