--------------------------------- MODULE Sds ---------------------------------
(***************************************************************************)
(* cpp_src/sds.cpp: a string with room to grow.  The object keeps the      *)
(* length of the text and the free bytes behind it; how much the allocator *)
(* gave it is known to the allocator alone.  room is that size, less the   *)
(* byte of the terminator, so that a string is sound while its text ends   *)
(* in its room, and a call that writes behind it has no defined successor. *)
(*                                                                         *)
(* Of the bytes behind the text only the next one matters, buf[len]:       *)
(* whether it is the terminator.                                           *)
(***************************************************************************)
EXTENDS SdsTools

CONSTANTS Prealloc,   \* SDS_MAX_PREALLOC
          Text,       \* bound: the texts callers pass, and sdsll2str of numbers
          Separator,  \* bound: separators
          MaxLen      \* bound: the longest string

ASSUME SdsAssumption == /\ Prealloc \in Nat \ {0} /\ MaxLen \in Nat
                        /\ Text \subseteq Seq(Byte)
                        /\ Separator \subseteq Seq(Byte) \ {<< >>}

VARIABLE str          \* an sdshdr

vars == <<str>>

Sdshdr(text, next, free, room) ==
  [text |-> text, next |-> next, free |-> free, room |-> room]

Fresh(t) == Sdshdr(t, Nul, 0, Len(t))

Claims(s) == Len(s.text) + s.free          \* what len and free say the room is
Exact(s)  == Claims(s) = s.room
Sound(s)  == Len(s.text) <= s.room

Zeros(n) == [i \in 1 .. n |-> Nul]

-----------------------------------------------------------------------------
(* Making room.  A negative free compares as a large size_t.               *)

Grown_Added(s, addlen) == 2 * addlen   \* mutant: len is forgotten
Grown(s, addlen) ==
  LET newlen == Len(s.text) + addlen
  IN  IF newlen < Prealloc THEN 2 * newlen ELSE newlen + Prealloc

MakeRoomFor(s, addlen) ==
  LET newlen == Grown(s, addlen)
  IN  IF s.free > addlen \/ s.free < 0 THEN s
      ELSE Sdshdr(s.text, Nul, newlen - Len(s.text), newlen)

(* The text of s becomes t, with a terminator, and counts with free what   *)
(* s claimed before.                                                       *)
Rewritten_Uncounted(s, t) ==   \* mutant: the old length is not set free
  Sdshdr(t, Nul, s.free - Len(t), s.room)
Rewritten(s, t) == Sdshdr(t, Nul, Claims(s) - Len(t), s.room)

(* Bytes start to end, as sdsrange and getrangefromStringObject find them. *)
(* An end that is len is not cut: the terminator is taken for a byte.      *)
Clamped(t, i) == IF i >= 0 THEN i ELSE IF Len(t) + i < 0 THEN 0 ELSE Len(t) + i
Slice(s, start, end) ==
  LET from == Clamped(s.text, start)
      to   == Clamped(s.text, end)
  IN  IF from > to \/ from >= Len(s.text) THEN << >>
      ELSE SubSeq(Append(s.text, s.next), from + 1,
                  IF to > Len(s.text) THEN Len(s.text) ELSE to + 1)

-----------------------------------------------------------------------------
(* The calls. *)

Init == \E t \in Text : str = Fresh(t)

Becomes(s) == /\ Sound(str)
              /\ Len(s.text) <= MaxLen
              /\ str' = s

(* The constructors; str stands for the new object from here on.           *)
FromText(t) == Becomes(Fresh(t))
Copy        == Becomes(Fresh(str.text))

(* Assignment from a string with that text and that many free bytes: its   *)
(* free is copied, whatever this one's room is.                            *)
Assign(t, free) ==
  Becomes(Sdshdr(t, Nul, free, IF Claims(str) >= Len(t) THEN str.room ELSE Len(t)))

sdsclear == Becomes(Rewritten(str, << >>))

sdsMakeRoomFor(addlen) == Becomes(MakeRoomFor(str, addlen))

(* Mutants: free is not set to 0; the terminator is not copied. *)
RemoveFreeSpace_Kept(s)     == Sdshdr(s.text, s.next, s.free, Len(s.text))
RemoveFreeSpace_OneShort(s) == Sdshdr(s.text, Minus, 0, Len(s.text))
RemoveFreeSpace(s) == IF s.free = 0 THEN s ELSE Sdshdr(s.text, s.next, 0, Len(s.text))
sdsRemoveFreeSpace == Becomes(RemoveFreeSpace(str))

(* The caller has written t behind the text; or the text is cut by n.      *)
sdsIncrLen(t) == str.free >= Len(t) /\ Becomes(Rewritten(str, str.text \o t))
sdsDecrLen(n) == n <= Len(str.text)
                 /\ Becomes(Rewritten(str, SubSeq(str.text, 1, Len(str.text) - n)))

sdsgrowzero(n) ==
  LET more == n - Len(str.text)
  IN  Becomes(IF more <= 0 THEN str ELSE Rewritten(MakeRoomFor(str, more), str.text \o Zeros(more)))

sdscatlen(t) == Becomes(Rewritten(MakeRoomFor(str, Len(t)), str.text \o t))

(* The room asked for is what len and free together lack, and              *)
(* sdsMakeRoomFor compares it with free alone.                             *)
sdscpylen(t) ==
  LET s == IF Claims(str) < Len(t) THEN MakeRoomFor(str, Len(t) - Claims(str)) ELSE str
  IN  Becomes(Rewritten(s, t))

(* The two loops of sdstrim stop at sp and ep; strchr finds the terminator *)
(* of cset too, and only buf[len] is set to it.                            *)
LoopsStop(t, strip, sp, ep) ==
  /\ \A i \in 1 .. sp : t[i] \in strip
  /\ sp < Len(t) => t[sp + 1] \notin strip
  /\ \A i \in ep + 2 .. Len(t) : t[i] \in strip
  /\ ep > 0 => t[ep + 1] \notin strip

Trimmed(s, sp, ep) ==
  LET kept == SubSeq(s.text, sp + 1, ep + 1)
  IN  Sdshdr(kept, IF Len(kept) = Len(s.text) THEN Nul ELSE s.text[Len(kept) + 1],
             Claims(s) - Len(kept), s.room)

sdstrim(cset) ==
  \E sp \in 0 .. Len(str.text), ep \in -1 .. Len(str.text) - 1 :
    /\ ep = -1 <=> str.text = << >>
    /\ LoopsStop(str.text, cset \cup {Nul}, sp, ep)
    /\ Becomes(Trimmed(str, sp, ep))

sdsrange(start, end) ==
  Becomes(IF str.text = << >> THEN str ELSE Rewritten(str, Slice(str, start, end)))

(* getrangefromStringObject: the slice in a new string, made with          *)
(* sdsgrowzero; there is none of an empty string, or from behind the text. *)
getrange(start, end) ==
  LET t == Slice(str, start, end)
  IN  /\ str.text # << >>
      /\ \/ Clamped(str.text, start) < Len(str.text)
         \/ Clamped(str.text, start) > Clamped(str.text, end)
      /\ Becomes(IF t = << >> THEN Fresh(t) ELSE Rewritten(MakeRoomFor(Fresh(<< >>), Len(t)), t))

(* sdstolower, sdstoupper and sdsmapchars replace bytes one by one.        *)
sdsmapchars(from, to) ==
  LET t == [i \in 1 .. Len(str.text) |-> IF str.text[i] = from THEN to ELSE str.text[i]]
  IN  Becomes(Sdshdr(t, str.next, str.free, str.room))

Position == -(MaxLen + 1) .. MaxLen + 1

Next ==
  \/ \E t \in Text : \/ FromText(t) \/ sdsIncrLen(t) \/ sdscatlen(t) \/ sdscpylen(t)
                     \/ \E free \in 0 .. 1 : Assign(t, free)
  \/ \E n \in 0 .. MaxLen : sdsMakeRoomFor(n) \/ sdsDecrLen(n) \/ sdsgrowzero(n)
  \/ \E b \in Byte : sdstrim({b}) \/ \E to \in Byte \ {Nul} : b # Nul /\ sdsmapchars(b, to)
  \/ \E start, end \in Position : sdsrange(start, end) \/ getrange(start, end)
  \/ Copy \/ sdsclear \/ sdsRemoveFreeSpace

Spec == Init /\ [][Next]_vars

-----------------------------------------------------------------------------
(* Properties. *)

IsSds(s) == /\ s = Sdshdr(s.text, s.next, s.free, s.room)
            /\ s.text \in Seq(Byte) /\ s.next \in Byte /\ s.free \in Int /\ s.room \in Nat

(* An sdshdr, whose len and free never claim less than nothing.            *)
TypeOK == IsSds(str) /\ Claims(str) >= 0

(* What len and free claim is what the allocator gave, which is also what  *)
(* the destructor gives back.  An assignment alone breaks it: it copies    *)
(* the free bytes of the other string and not its room.                    *)
SpaceKept ==
  [][Exact(str) /\ ~Exact(str)' => \E t \in Text, free \in 0 .. 1 : Assign(t, free)]_vars

(* sdscpylen grows by what is lacking in len and free together: that is    *)
(* not done when free alone is more, nor enough when free is more than     *)
(* SDS_MAX_PREALLOC.                                                       *)
CopyLacksRoom(s, t) ==
  /\ Claims(s) < Len(t)
  /\ s.free > Len(t) - Claims(s) \/ s.free > Prealloc

(* A string whose free is room it has is overrun by two calls              *)
(* only: such a sdscpylen, and a sdsrange of the whole string that ends at *)
(* len when there is no free byte.  No call the program makes does so.     *)
OverrunsOnlyWhereKnown ==
  [][str.free >= 0 /\ Claims(str) <= str.room /\ ~Sound(str)' =>
       \/ \E t \in Text : sdscpylen(t) /\ CopyLacksRoom(str, t)
       \/ \E start \in Position : sdsrange(start, Len(str.text)) /\ str.free = 0]_vars

(* Every call but sdstrim leaves a terminator behind the text: clients are *)
(* sent what get_buf() holds up to the first one.                          *)
TerminatedUnlessTrimmed ==
  [][str.next = Nul /\ str'.next # Nul => \E b \in Byte : sdstrim({b})]_vars

(* sds.h:137-157, 82-84: a trimmed string is the longest part of the old   *)
(* one between two bytes that are not in cset; a range is the bytes at its *)
(* positions, where -1 is the last byte and an end behind the text is cut; *)
(* and made room is room for addlen bytes.  Of a text with a terminator    *)
(* inside nothing is said of the trim: sdstrim strips it as well, though   *)
(* cset does not hold it.  For b = Nul the set of the call is empty.       *)
At(t, i) == IF i < 0 THEN Len(t) + i + 1 ELSE i + 1   \* position i, counted from one
IsRange(t, r, start, end) ==
  LET places == {p \in DOMAIN t : At(t, start) <= p /\ p <= At(t, end)}
  IN  /\ Len(r) = Cardinality(places)
      /\ \A i \in DOMAIN r : r[i] = t[At(t, start) + i - 1]
InText(t, i) == i \in -Len(t) .. Len(t) - 1
IsTrimOf(t, r, strip) ==
  \E i \in 0 .. Len(t) :
    /\ i + Len(r) <= Len(t)
    /\ r = SubSeq(t, i + 1, i + Len(r))
    /\ \A j \in 1 .. i : t[j] \in strip
    /\ \A j \in i + Len(r) + 1 .. Len(t) : t[j] \in strip
    /\ r # << >> => r[1] \notin strip /\ Last(r) \notin strip
PartsAsPromised ==
  /\ \A b \in Byte, sp \in 0 .. Len(str.text), ep \in -1 .. Len(str.text) - 1 :
       NoNul(str.text) /\ LoopsStop(str.text, {b, Nul}, sp, ep) =>
         IsTrimOf(str.text, Trimmed(str, sp, ep).text, {b})
  /\ \A start, end \in Position :
       InText(str.text, start) /\ (InText(str.text, end) \/ end > Len(str.text)) =>
         IsRange(str.text, Slice(str, start, end), start, end)
  /\ \A n \in 0 .. MaxLen : str.free >= 0 => MakeRoomFor(str, n).free >= n

(* Sets tell members apart by the number string2ll reads in them and give  *)
(* them back as sdsll2str writes it: a text that is read as a number is    *)
(* the one text of that number, every number is read back, and what is out *)
(* of the range of a long long is no number.                               *)
NumbersReadBack ==
  /\ \A n \in LongLong : string2ll(sdsll2str(n)) = n
  /\ LET n == string2ll(str.text)
     IN  n # NotANumber => n \in LongLong /\ sdsll2str(n) = str.text

(* StringObject::match orders texts, also texts with a terminator inside:  *)
(* dictionaries tell keys apart by its 0, and a skiplist whose order were  *)
(* none would lose members of equal score.                                 *)
MatchOrders ==
  \A t \in Text :
    /\ match(str.text, t) = -match(t, str.text)
    /\ match(str.text, t) = 0 <=> str.text = t
    /\ \A u \in Text : match(str.text, t) > 0 /\ match(t, u) > 0 => match(str.text, u) > 0

(* A split leaves no separator in a token, and loses nothing: sdsjoin puts *)
(* the text together again, if neither it nor the separator holds a        *)
(* terminator, where sdsjoin cuts what sdssplitlen does not.               *)
HasPart(t, sep) == \E i \in 0 .. Len(t) - Len(sep) : SubSeq(t, i + 1, i + Len(sep)) = sep
SplitsJoin ==
  \A sep \in Separator :
    LET tokens == sdssplitlen(str.text, sep)
    IN  /\ NoNul(str.text) /\ NoNul(sep) => sdsjoin(tokens, sep) = str.text
        /\ \A i \in DOMAIN tokens : ~HasPart(tokens[i], sep)

(* What the functions of sds.h and the readers of numbers make of a text.  *)
StringsAsPromised == PartsAsPromised /\ NumbersReadBack /\ MatchOrders /\ SplitsJoin
=============================================================================
