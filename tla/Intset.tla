------------------------------- MODULE Intset -------------------------------
(***************************************************************************)
(* The integer set of cpp_src/intset.h: an array kept sorted, in one of    *)
(* three encodings.  The array of the first one holds unsigned numbers     *)
(* although encodings are chosen for signed ones.                          *)
(***************************************************************************)
EXTENDS Integers, Sequences, SequencesExt

CONSTANT Reach   \* 2^15, 2^31 and 2^63: the encodings hold -Reach[e] .. Reach[e] - 1

ASSUME ReachAssumption ==
  /\ Reach \in [1 .. 3 -> Nat \ {0}]
  /\ 2 * Reach[1] <= Reach[2] /\ 2 * Reach[2] <= Reach[3]

InWidth(v, e)            == -Reach[e] <= v /\ v < Reach[e]
_intsetValueEncoding(v)  == IF ~InWidth(v, 2) THEN 3 ELSE IF ~InWidth(v, 1) THEN 2 ELSE 1

NewIntset == [enc |-> 1, contents |-> << >>]

(* A value as an array of encoding e keeps it. *)
Stored(v, e) == IF e = 1 THEN v % (2 * Reach[1]) ELSE v

(* lower_bound: the binary search of the standard library, which compares  *)
(* what is stored with the signed value, also where they are not in order. *)
Part(first, len) == [first |-> first, len |-> len]
Parts(n) == {p \in [first : 1 .. n + 1, len : 0 .. n] : p.first + p.len <= n + 1}
Bisect(s, v) ==
  LET seek[p \in Parts(Len(s))] ==
        LET half == p.len \div 2
        IN  IF p.len = 0 THEN p.first
            ELSE IF s[p.first + half] < v THEN seek[Part(p.first + half + 1, p.len - half - 1)]
            ELSE seek[Part(p.first, half)]
  IN  seek
lower_bound(s, v) == Bisect(s, v)[Part(1, Len(s))]

search(s, v) == LET i == lower_bound(s, v) IN i <= Len(s) /\ s[i] = v

add_Unsorted(s, e, v) == IF search(s, v) THEN s ELSE Append(s, Stored(v, e))   \* mutant
add(s, e, v) == IF search(s, v) THEN s ELSE InsertAt(s, lower_bound(s, v), Stored(v, e))
remove(s, v) == IF search(s, v) THEN RemoveAt(s, lower_bound(s, v)) ELSE s

intsetUpgrade(is, e) ==
  LET copied[n \in 0 .. Len(is.contents)] ==
        IF n = 0 THEN << >> ELSE add(copied[n - 1], e, is.contents[n])
  IN  [enc |-> e, contents |-> copied[Len(is.contents)]]

check(is, v) ==
  IF _intsetValueEncoding(v) > is.enc THEN intsetUpgrade(is, _intsetValueEncoding(v)) ELSE is

intsetAdd(is, v) ==
  LET up == check(is, v) IN [up EXCEPT !.contents = add(@, up.enc, v)]

intsetFind(is, v) == _intsetValueEncoding(v) <= is.enc /\ search(is.contents, v)

intsetRemove(is, v) ==
  IF _intsetValueEncoding(v) > is.enc THEN is ELSE [is EXCEPT !.contents = remove(@, v)]

Length(is) == Len(is.contents)

-----------------------------------------------------------------------------
Increasing(s) == \A i \in 1 .. Len(s) - 1 : s[i] < s[i + 1]

(* What such an intset holds is found again and can be removed.            *)
Clean(is) == Increasing(is.contents) /\ \A i \in DOMAIN is.contents : InWidth(is.contents[i], is.enc)

(* The array is in order and without duplicates, and it holds what its     *)
(* encoding can, but in the first encoding once a negative number has come *)
(* in: that one is stored as a number the encoding is not chosen for.      *)
SortedUnlessNegativeStored(is) ==
  Clean(is) \/ (is.enc = 1 /\ \E i \in DOMAIN is.contents : ~InWidth(is.contents[i], 1))
=============================================================================
