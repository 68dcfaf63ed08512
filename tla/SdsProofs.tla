----------------------------- MODULE SdsProofs -----------------------------
(***************************************************************************)
(* Theorems about module Sds, for every alphabet, every preallocation and  *)
(* strings of every length.                                                *)
(***************************************************************************)
EXTENDS Sds, FiniteSetTheorems, SequenceTheorems, TLAPS

-----------------------------------------------------------------------------
(* What the parts of a call do. *)

(* The string is well formed and claims at least nothing. *)
Proper(s) == IsSds(s) /\ Claims(s) >= 0

(* What an sdshdr is made of. *)
LEMMA Fields ==
  ASSUME NEW s, IsSds(s)
  PROVE  /\ s.text \in Seq(Byte) /\ Len(s.text) \in Nat
         /\ s.next \in Byte /\ s.free \in Int /\ s.room \in Nat
         /\ Claims(s) \in Int
BY DEF IsSds, Claims

(* A new string claims the room it has. *)
LEMMA FreshExact ==
  ASSUME NEW t \in Seq(Byte)
  PROVE  /\ Proper(Fresh(t)) /\ Exact(Fresh(t)) /\ Sound(Fresh(t))
         /\ Fresh(t).next = Nul /\ Fresh(t).text = t /\ Fresh(t).free = 0
<1>1. Len(t) \in Nat
  OBVIOUS
<1>. QED BY <1>1, SdsAssumption, NulAssumption DEF Proper, IsSds, Fresh, Claims, Exact, Sound, Sdshdr

(* Bytes are moved between the text and the free space, never counted      *)
(* twice, and a terminator is written.                                     *)
LEMMA RewrittenKeepsSpace ==
  ASSUME NEW s, IsSds(s), NEW t \in Seq(Byte)
  PROVE  /\ IsSds(Rewritten(s, t))
         /\ Claims(Rewritten(s, t)) = Claims(s)
         /\ Rewritten(s, t).room = s.room
         /\ Rewritten(s, t).text = t
         /\ Rewritten(s, t).next = Nul
<1>1. Len(t) \in Nat
  OBVIOUS
<1>2. Rewritten(s, t) = Sdshdr(t, Nul, Claims(s) - Len(t), s.room)
  BY DEF Rewritten
<1>. QED BY <1>1, <1>2, Fields, SdsAssumption, NulAssumption DEF IsSds, Claims, Sdshdr

(* Growth is always more than what is asked for. *)
LEMMA GrownEnough ==
  ASSUME NEW s, IsSds(s), NEW n \in Nat
  PROVE  /\ Grown(s, n) \in Nat
         /\ Len(s.text) + n <= Grown(s, n)
BY Fields, SdsAssumption DEF Grown

(* sds.h:82-84: made room is room for n bytes, if free was room it had.    *)
LEMMA RoomIsMade ==
  ASSUME NEW s, Proper(s), NEW n \in Nat
  PROVE  /\ Proper(MakeRoomFor(s, n))
         /\ MakeRoomFor(s, n).text = s.text
         /\ Exact(s) => Exact(MakeRoomFor(s, n))
         /\ s.next = Nul => MakeRoomFor(s, n).next = Nul
         /\ s.free >= 0 /\ Claims(s) <= s.room =>
              Len(s.text) + n <= MakeRoomFor(s, n).room
<1>1. CASE s.free > n \/ s.free < 0
  BY <1>1, Fields DEF MakeRoomFor, Proper, Claims
<1>2. CASE ~(s.free > n \/ s.free < 0)
  <2>. DEFINE g == Grown(s, n)
  <2>1. g \in Nat /\ Len(s.text) + n <= g
    BY GrownEnough DEF Proper
  <2>2. MakeRoomFor(s, n) = Sdshdr(s.text, Nul, g - Len(s.text), g)
    BY <1>2 DEF MakeRoomFor
  <2>. HIDE DEF g
  <2>. QED BY <2>1, <2>2, Fields, SdsAssumption, NulAssumption DEF Proper, IsSds, Claims, Exact, Sdshdr
<1>. QED BY <1>1, <1>2

(* A position counted from the end is a position, or the first.            *)
LEMMA ClampedType ==
  ASSUME NEW t \in Seq(Byte), NEW i \in Int
  PROVE  /\ Clamped(t, i) \in Nat
         /\ Len(t) > 0 /\ Clamped(t, i) = Len(t) => i = Len(t)
<1>1. Len(t) \in Nat
  OBVIOUS
<1>. QED BY <1>1 DEF Clamped

(* A slice is no longer than the string, unless it begins at the first     *)
(* byte and ends at len.                                                   *)
LEMMA SliceFits ==
  ASSUME NEW s, IsSds(s), NEW start \in Int, NEW end \in Int
  PROVE  /\ Slice(s, start, end) \in Seq(Byte)
         /\ Len(Slice(s, start, end)) <= Len(s.text) + 1
         /\ Len(Slice(s, start, end)) > Len(s.text) => end = Len(s.text)
<1> DEFINE t    == s.text
           from == Clamped(t, start)
           to   == Clamped(t, end)
           last == IF to > Len(t) THEN Len(t) ELSE to + 1
           a    == Append(t, s.next)
<1>1. t \in Seq(Byte) /\ Len(t) \in Nat /\ s.next \in Byte
  BY Fields
<1>2. from \in Nat /\ to \in Nat /\ (Len(t) > 0 /\ to = Len(t) => end = Len(t))
  BY <1>1, ClampedType
<1>3. CASE from > to \/ from >= Len(t)
  <2>1. Slice(s, start, end) = << >>
    BY <1>3 DEF Slice
  <2>. QED BY <1>1, <2>1
<1>4. CASE ~(from > to \/ from >= Len(t))
  <2>1. Slice(s, start, end) = SubSeq(a, from + 1, last)
    BY <1>4 DEF Slice
  <2>2. a \in Seq(Byte) /\ Len(a) = Len(t) + 1
    BY <1>1, AppendProperties
  <2>. HIDE DEF from, to, a, t
  <2>3. last \in Int /\ last <= Len(t) + 1 /\ (last = Len(t) + 1 => to = Len(t))
    BY <1>1, <1>2
  <2>4. \A i \in from + 1 .. last : a[i] \in Byte
    <3>1. \A i \in from + 1 .. last : i \in 1 .. Len(a)
      BY <1>1, <1>2, <2>2, <2>3
    <3>. QED BY <2>2, <3>1
  <2>5. /\ SubSeq(a, from + 1, last) \in Seq(Byte)
        /\ Len(SubSeq(a, from + 1, last)) =
             IF from + 1 <= last THEN last - (from + 1) + 1 ELSE 0
    <3>1. from + 1 \in Int
      BY <1>2
    <3>. QED BY <2>3, <2>4, <3>1, SubSeqProperties
  <2>6. /\ Len(SubSeq(a, from + 1, last)) <= Len(t) + 1
        /\ Len(SubSeq(a, from + 1, last)) > Len(t) => last = Len(t) + 1
    BY <1>1, <1>2, <2>3, <2>5
  <2>7. Len(SubSeq(a, from + 1, last)) > Len(t) => end = Len(t)
    BY <1>1, <1>2, <1>4, <2>3, <2>6
  <2>. QED BY <2>1, <2>5, <2>6, <2>7 DEF t
<1>. QED BY <1>3, <1>4

(* sdscpylen makes room for the text, but where CopyLacksRoom.             *)
CopyTarget(s, t) == IF Claims(s) < Len(t) THEN MakeRoomFor(s, Len(t) - Claims(s)) ELSE s

LEMMA CopyFits ==
  ASSUME NEW s, Proper(s), NEW t \in Seq(Byte), s.free >= 0, Claims(s) <= s.room,
         ~CopyLacksRoom(s, t)
  PROVE  Len(t) <= CopyTarget(s, t).room
<1>1. Len(t) \in Nat
  OBVIOUS
<1>2. CASE Claims(s) >= Len(t)
  BY <1>1, <1>2, Fields DEF CopyTarget, Proper
<1>3. CASE Claims(s) < Len(t)
  <2> DEFINE n == Len(t) - Claims(s)
  <2>1. n \in Nat /\ s.free <= n /\ s.free <= Prealloc
    BY <1>1, <1>3, Fields, SdsAssumption DEF CopyLacksRoom, Proper
  <2>2. CopyTarget(s, t).room = Grown(s, n)
    BY <1>3, <2>1, Fields DEF CopyTarget, MakeRoomFor, Proper, Sdshdr
  <2>3. Len(t) = Len(s.text) + s.free + n
    BY <1>1, Fields DEF Claims, Proper
  <2>. HIDE DEF n
  <2>4. Len(t) <= Grown(s, n)
    BY <1>1, <2>1, <2>3, Fields, SdsAssumption DEF Grown, Proper
  <2>. QED BY <1>1, <2>1, <2>2, <2>4, Fields DEF Proper
<1>. QED BY <1>1, <1>2, <1>3, Fields DEF Proper

-----------------------------------------------------------------------------
(* What each call does to a string.  HasRoom is a string whose free is     *)
(* room it has.                                                            *)

HasRoom(s) == s.free >= 0 /\ Claims(s) <= s.room

(* The new string claims its room when the old one did, and keeps its      *)
(* terminator. *)
KeepsSpace(s)      == Proper(s) /\ (Exact(str) => Exact(s))
KeepsTerminator(s) == str.next = Nul => s.next = Nul
Fits(s)            == HasRoom(str) => Sound(s)

LEMMA RewrittenStep ==
  ASSUME TypeOK, NEW s, Proper(s), Exact(str) => Exact(s), NEW t \in Seq(Byte)
  PROVE  /\ KeepsSpace(Rewritten(s, t)) /\ KeepsTerminator(Rewritten(s, t))
         /\ Sound(Rewritten(s, t)) <=> Len(t) <= s.room
BY RewrittenKeepsSpace, Fields
   DEF KeepsSpace, KeepsTerminator, Proper, Exact, Sound, TypeOK

(* A string that has room is sound, and so is one cut down.                *)
LEMMA ShorterFits ==
  ASSUME TypeOK, NEW n \in Nat, n <= Len(str.text), HasRoom(str)
  PROVE  n <= str.room
BY Fields DEF TypeOK, HasRoom, Claims

LEMMA FreshStep ==
  ASSUME NEW t \in Seq(Byte)
  PROVE  KeepsSpace(Fresh(t)) /\ KeepsTerminator(Fresh(t)) /\ Fits(Fresh(t))
BY FreshExact DEF KeepsSpace, KeepsTerminator, Fits

LEMMA ClearStep ==
  ASSUME TypeOK
  PROVE  LET s == Rewritten(str, << >>)
         IN  KeepsSpace(s) /\ KeepsTerminator(s) /\ Fits(s)
<1>1. << >> \in Seq(Byte) /\ Len(<< >>) = 0
  OBVIOUS
<1>2. Proper(str)
  BY DEF TypeOK, Proper
<1>3. Len(<< >>) <= str.room
  BY <1>1, Fields DEF TypeOK
<1>. QED BY <1>1, <1>2, <1>3, RewrittenStep DEF Fits

LEMMA MakeRoomStep ==
  ASSUME TypeOK, NEW n \in Nat
  PROVE  LET s == MakeRoomFor(str, n)
         IN  KeepsSpace(s) /\ KeepsTerminator(s) /\ Fits(s)
<1>1. Proper(str)
  BY DEF TypeOK, Proper
<1>2. HasRoom(str) => Len(str.text) <= MakeRoomFor(str, n).room
  <2>1. MakeRoomFor(str, n).room \in Nat /\ Len(str.text) \in Nat
    BY <1>1, RoomIsMade, Fields DEF Proper
  <2>2. HasRoom(str) => Len(str.text) + n <= MakeRoomFor(str, n).room
    BY <1>1, RoomIsMade DEF HasRoom
  <2>. QED BY <2>1, <2>2
<1>. QED BY <1>1, <1>2, RoomIsMade DEF KeepsSpace, KeepsTerminator, Fits, Sound

LEMMA RemoveFreeSpaceStep ==
  ASSUME TypeOK, Sound(str)
  PROVE  LET s == RemoveFreeSpace(str)
         IN  KeepsSpace(s) /\ KeepsTerminator(s) /\ Fits(s)
<1>. DEFINE s == Sdshdr(str.text, str.next, 0, Len(str.text))
<1>1. CASE str.free = 0
  BY <1>1 DEF RemoveFreeSpace, TypeOK, Proper, KeepsSpace, KeepsTerminator, Fits
<1>2. CASE str.free # 0
  <2>1. RemoveFreeSpace(str) = s
    BY <1>2 DEF RemoveFreeSpace
  <2>2. Proper(s) /\ Exact(s) /\ Sound(s) /\ s.next = str.next
    BY Fields DEF TypeOK, Proper, IsSds, Claims, Exact, Sound, Sdshdr
  <2>. HIDE DEF s
  <2>. QED BY <2>1, <2>2 DEF KeepsSpace, KeepsTerminator, Fits
<1>. QED BY <1>1, <1>2

(* Text that a caller has written into the free space.                     *)
LEMMA IncrLenStep ==
  ASSUME TypeOK, NEW t \in Seq(Byte), str.free >= Len(t)
  PROVE  LET s == Rewritten(str, str.text \o t)
         IN  KeepsSpace(s) /\ KeepsTerminator(s) /\ Fits(s)
<1>1. str.text \o t \in Seq(Byte) /\ Len(str.text \o t) = Len(str.text) + Len(t)
  BY Fields, ConcatProperties DEF TypeOK
<1>2. HasRoom(str) => Len(str.text \o t) <= str.room
  <2>1. Len(t) \in Nat
    OBVIOUS
  <2>. QED BY <1>1, <2>1, Fields DEF TypeOK, HasRoom, Claims
<1>. QED BY <1>1, <1>2, RewrittenStep DEF TypeOK, Proper, Fits

LEMMA DecrLenStep ==
  ASSUME TypeOK, NEW n \in Nat, n <= Len(str.text)
  PROVE  LET s == Rewritten(str, SubSeq(str.text, 1, Len(str.text) - n))
         IN  KeepsSpace(s) /\ KeepsTerminator(s) /\ Fits(s)
<1>. DEFINE t == SubSeq(str.text, 1, Len(str.text) - n)
<1>1. str.text \in Seq(Byte) /\ Len(str.text) \in Nat /\ Len(str.text) - n \in Int
  BY Fields DEF TypeOK
<1>2. t \in Seq(Byte) /\ Len(t) = Len(str.text) - n
  <2>1. \A i \in 1 .. Len(str.text) - n : str.text[i] \in Byte
    BY <1>1
  <2>. QED BY <1>1, <2>1, SubSeqProperties
<1>. HIDE DEF t
<1>3. HasRoom(str) => Len(t) <= str.room
  BY <1>1, <1>2, ShorterFits
<1>. QED BY <1>2, <1>3, RewrittenStep DEF TypeOK, Proper, Fits, t

(* Bytes appended to a string that has been given room for them.           *)
LEMMA AppendStep ==
  ASSUME TypeOK, NEW t \in Seq(Byte), NEW n \in Nat, Len(t) = n
  PROVE  LET s == Rewritten(MakeRoomFor(str, n), str.text \o t)
         IN  KeepsSpace(s) /\ KeepsTerminator(s) /\ Fits(s)
<1>. DEFINE r == MakeRoomFor(str, n)
<1>1. Proper(str)
  BY DEF TypeOK, Proper
<1>2. str.text \o t \in Seq(Byte) /\ Len(str.text \o t) = Len(str.text) + n
  BY Fields, ConcatProperties DEF TypeOK
<1>3. Proper(r) /\ (Exact(str) => Exact(r)) /\ (HasRoom(str) => Len(str.text) + n <= r.room)
  BY <1>1, RoomIsMade DEF HasRoom
<1>. HIDE DEF r
<1>. QED BY <1>2, <1>3, RewrittenStep DEF Fits, r

LEMMA CopyStep ==
  ASSUME TypeOK, NEW t \in Seq(Byte)
  PROVE  LET s == Rewritten(CopyTarget(str, t), t)
         IN  /\ KeepsSpace(s) /\ KeepsTerminator(s)
             /\ ~CopyLacksRoom(str, t) => Fits(s)
<1>. DEFINE r == CopyTarget(str, t)
<1>1. Proper(str) /\ Len(t) \in Nat
  BY DEF TypeOK, Proper
<1>2. Proper(r) /\ (Exact(str) => Exact(r))
  <2>1. CASE Claims(str) < Len(t)
    <3>1. Len(t) - Claims(str) \in Nat
      BY <1>1, <2>1, Fields DEF Proper
    <3>. QED BY <1>1, <2>1, <3>1, RoomIsMade DEF CopyTarget
  <2>2. CASE ~(Claims(str) < Len(t))
    BY <1>1, <2>2 DEF CopyTarget
  <2>. QED BY <2>1, <2>2
<1>3. ~CopyLacksRoom(str, t) /\ HasRoom(str) => Len(t) <= r.room
  BY <1>1, CopyFits DEF HasRoom
<1>. HIDE DEF r
<1>. QED BY <1>2, <1>3, RewrittenStep DEF Fits, r

LEMMA TrimStep ==
  ASSUME TypeOK, NEW sp \in 0 .. Len(str.text), NEW ep \in -1 .. Len(str.text) - 1
  PROVE  KeepsSpace(Trimmed(str, sp, ep)) /\ Fits(Trimmed(str, sp, ep))
<1>. DEFINE t == SubSeq(str.text, sp + 1, ep + 1)
            b == IF Len(t) = Len(str.text) THEN Nul ELSE str.text[Len(t) + 1]
<1>1. str.text \in Seq(Byte) /\ Len(str.text) \in Nat /\ sp + 1 \in Int /\ ep + 1 \in Int
  BY Fields DEF TypeOK
<1>2. t \in Seq(Byte) /\ Len(t) \in Nat /\ Len(t) <= Len(str.text)
  <2>1. \A i \in sp + 1 .. ep + 1 : str.text[i] \in Byte
    BY <1>1
  <2>2. t \in Seq(Byte) /\ Len(t) = IF sp + 1 <= ep + 1 THEN (ep + 1) - (sp + 1) + 1 ELSE 0
    BY <1>1, <2>1, SubSeqProperties
  <2>. HIDE DEF t
  <2>. QED BY <1>1, <2>2
<1>3. Trimmed(str, sp, ep) = Sdshdr(t, b, Claims(str) - Len(t), str.room)
  BY DEF Trimmed
<1>. HIDE DEF t
<1>4. b \in Byte
  BY <1>1, <1>2, SdsAssumption, NulAssumption
<1>. HIDE DEF b
<1>5. Proper(Trimmed(str, sp, ep)) /\ Claims(Trimmed(str, sp, ep)) = Claims(str)
      /\ Trimmed(str, sp, ep).room = str.room /\ Trimmed(str, sp, ep).text = t
  BY <1>2, <1>3, <1>4, Fields DEF TypeOK, Proper, IsSds, Claims, Sdshdr
<1>6. HasRoom(str) => Len(t) <= str.room
  BY <1>2, ShorterFits
<1>. QED BY <1>5, <1>6 DEF KeepsSpace, Exact, Fits, Sound

LEMMA RangeStep ==
  ASSUME TypeOK, NEW start \in Int, NEW end \in Int
  PROVE  LET s == Rewritten(str, Slice(str, start, end))
         IN  /\ KeepsSpace(s) /\ KeepsTerminator(s)
             /\ Fits(s) \/ (end = Len(str.text) /\ str.free = 0)
<1>. DEFINE t == Slice(str, start, end)
<1>1. /\ t \in Seq(Byte) /\ Len(t) \in Nat
      /\ Len(t) <= Len(str.text) + 1
      /\ Len(t) > Len(str.text) => end = Len(str.text)
  BY SliceFits DEF TypeOK
<1>. HIDE DEF t
<1>2. KeepsSpace(Rewritten(str, t)) /\ KeepsTerminator(Rewritten(str, t))
      /\ (Sound(Rewritten(str, t)) <=> Len(t) <= str.room)
  BY <1>1, RewrittenStep DEF TypeOK, Proper
<1>3. HasRoom(str) => Len(t) <= str.room \/ (end = Len(str.text) /\ str.free = 0)
  BY <1>1, Fields DEF TypeOK, HasRoom, Claims
<1>. QED BY <1>2, <1>3 DEF Fits, t

LEMMA GetRangeStep ==
  ASSUME TypeOK, NEW start \in Int, NEW end \in Int
  PROVE  LET t == Slice(str, start, end)
             s == IF t = << >> THEN Fresh(t) ELSE Rewritten(MakeRoomFor(Fresh(<< >>), Len(t)), t)
         IN  KeepsSpace(s) /\ KeepsTerminator(s) /\ Fits(s)
<1>. DEFINE t == Slice(str, start, end)
            e == Fresh(<< >>)
            r == MakeRoomFor(e, Len(t))
<1>1. t \in Seq(Byte) /\ Len(t) \in Nat
  BY SliceFits DEF TypeOK
<1>. HIDE DEF t
<1>2. KeepsSpace(Fresh(t)) /\ KeepsTerminator(Fresh(t)) /\ Fits(Fresh(t))
  BY <1>1, FreshStep
<1>3. Proper(e) /\ Exact(e) /\ e.free = 0 /\ e.text = << >>
  <2>1. << >> \in Seq(Byte)
    OBVIOUS
  <2>. QED BY <2>1, FreshExact
<1>4. Claims(e) <= e.room
  BY <1>3, Fields DEF Exact, Proper
<1>. HIDE DEF e
<1>5. Proper(r) /\ Exact(r) /\ Len(t) <= r.room
  <2>1. Len(e.text) + Len(t) <= r.room /\ Proper(r) /\ Exact(r)
    <3>1. e.free >= 0 /\ Claims(e) <= e.room
      BY <1>3, <1>4
    <3>. QED BY <1>1, <1>3, <3>1, RoomIsMade
  <2>. QED BY <1>1, <1>3, <2>1
<1>. HIDE DEF r
<1>6. KeepsSpace(Rewritten(r, t)) /\ KeepsTerminator(Rewritten(r, t)) /\ Fits(Rewritten(r, t))
  BY <1>1, <1>5, RewrittenStep DEF Fits
<1>. QED BY <1>2, <1>6 DEF t, r, e

LEMMA MapStep ==
  ASSUME TypeOK, NEW from \in Byte, NEW to \in Byte
  PROVE  LET t == [i \in 1 .. Len(str.text) |->
                     IF str.text[i] = from THEN to ELSE str.text[i]]
             s == Sdshdr(t, str.next, str.free, str.room)
         IN  KeepsSpace(s) /\ KeepsTerminator(s) /\ Fits(s)
<1>. DEFINE t == [i \in 1 .. Len(str.text) |-> IF str.text[i] = from THEN to ELSE str.text[i]]
            s == Sdshdr(t, str.next, str.free, str.room)
<1>1. str.text \in Seq(Byte) /\ Len(str.text) \in Nat
  BY Fields DEF TypeOK
<1>2. t \in Seq(Byte) /\ Len(t) = Len(str.text)
  <2>1. t \in [1 .. Len(str.text) -> Byte]
    BY <1>1
  <2>. QED BY <1>1, <2>1
<1>. HIDE DEF t
<1>3. Proper(s) /\ Claims(s) = Claims(str) /\ s.room = str.room /\ s.next = str.next /\ s.text = t
  BY <1>1, <1>2, Fields DEF TypeOK, Proper, IsSds, Claims, Sdshdr
<1>4. HasRoom(str) => Len(t) <= str.room
  BY <1>1, <1>2, ShorterFits
<1>. HIDE DEF s
<1>5. KeepsSpace(s) /\ KeepsTerminator(s) /\ Fits(s)
  BY <1>3, <1>4 DEF KeepsSpace, KeepsTerminator, Fits, Exact, Sound
<1>. QED BY <1>5 DEF s, t

-----------------------------------------------------------------------------
(* The theorems. *)

(* Calls that cannot overrun a string that has room, nor leave it without  *)
(* a terminator.                                                           *)
Harmless(s) == KeepsSpace(s) /\ KeepsTerminator(s) /\ Fits(s)

LEMMA HarmlessCalls ==
  ASSUME TypeOK,
         \/ \E t \in Text : FromText(t) \/ sdsIncrLen(t) \/ sdscatlen(t)
         \/ \E n \in 0 .. MaxLen : sdsMakeRoomFor(n) \/ sdsDecrLen(n) \/ sdsgrowzero(n)
         \/ \E b \in Byte, to \in Byte \ {Nul} : sdsmapchars(b, to)
         \/ \E start, end \in Position : getrange(start, end)
         \/ Copy \/ sdsclear \/ sdsRemoveFreeSpace
  PROVE  Harmless(str')
<1>. USE DEF Harmless
<1>0. str.text \in Seq(Byte) /\ Text \subseteq Seq(Byte)
  BY Fields, SdsAssumption DEF TypeOK
<1>1. CASE \E t \in Text : FromText(t)
  BY <1>0, <1>1, FreshStep DEF FromText, Becomes
<1>2. CASE \E t \in Text : sdsIncrLen(t)
  BY <1>0, <1>2, IncrLenStep DEF sdsIncrLen, Becomes
<1>3. CASE \E t \in Text : sdscatlen(t)
  <2>1. PICK t \in Text : sdscatlen(t)
    BY <1>3
  <2>2. t \in Seq(Byte) /\ Len(t) \in Nat
    BY <1>0
  <2>. QED BY <2>1, <2>2, AppendStep DEF sdscatlen, Becomes
<1>4. CASE \E n \in 0 .. MaxLen : sdsMakeRoomFor(n)
  <2>1. PICK n \in 0 .. MaxLen : sdsMakeRoomFor(n)
    BY <1>4
  <2>. QED BY <2>1, MakeRoomStep, SdsAssumption DEF sdsMakeRoomFor, Becomes
<1>5. CASE \E n \in 0 .. MaxLen : sdsDecrLen(n)
  <2>1. PICK n \in 0 .. MaxLen : sdsDecrLen(n)
    BY <1>5
  <2>. QED BY <2>1, DecrLenStep, SdsAssumption DEF sdsDecrLen, Becomes
<1>6. CASE \E n \in 0 .. MaxLen : sdsgrowzero(n)
  <2>1. PICK n \in 0 .. MaxLen : sdsgrowzero(n)
    BY <1>6
  <2>. DEFINE more == n - Len(str.text)
  <2>2. CASE more <= 0
    <3>1. str' = str
      BY <2>1, <2>2 DEF sdsgrowzero, Becomes
    <3>2. Sound(str)
      BY <2>1 DEF sdsgrowzero, Becomes
    <3>. QED BY <3>1, <3>2 DEF TypeOK, KeepsSpace, KeepsTerminator, Fits, Proper
  <2>3. CASE ~(more <= 0)
    <3>1. more \in Nat
      BY <1>0, <2>3, SdsAssumption
    <3>2. Zeros(more) \in Seq(Byte) /\ Len(Zeros(more)) = more
      BY <3>1, SdsAssumption, NulAssumption DEF Zeros
    <3>3. str' = Rewritten(MakeRoomFor(str, more), str.text \o Zeros(more))
      BY <2>1, <2>3 DEF sdsgrowzero, Becomes
    <3>. HIDE DEF more
    <3>. QED BY <3>1, <3>2, <3>3, AppendStep
  <2>. QED BY <2>2, <2>3
<1>7. CASE \E b \in Byte, to \in Byte \ {Nul} : sdsmapchars(b, to)
  BY <1>7, MapStep DEF sdsmapchars, Becomes
<1>8. CASE \E start, end \in Position : getrange(start, end)
  <2>1. PICK start \in Position, end \in Position : getrange(start, end)
    BY <1>8
  <2>2. start \in Int /\ end \in Int
    BY SdsAssumption DEF Position
  <2>. QED BY <2>1, <2>2, GetRangeStep DEF getrange, Becomes
<1>9. CASE Copy
  BY <1>0, <1>9, FreshStep DEF Copy, Becomes
<1>10. CASE sdsclear
  BY <1>10, ClearStep DEF sdsclear, Becomes
<1>11. CASE sdsRemoveFreeSpace
  BY <1>11, RemoveFreeSpaceStep DEF sdsRemoveFreeSpace, Becomes
<1>. QED BY <1>1, <1>2, <1>3, <1>4, <1>5, <1>6, <1>7, <1>8, <1>9, <1>10, <1>11

(* The other four: an assignment, a copy of a text, a trim and a range.    *)
LEMMA AssignCall ==
  ASSUME TypeOK, NEW t \in Text, NEW free \in 0 .. 1, Assign(t, free)
  PROVE  Proper(str') /\ str'.next = Nul /\ (HasRoom(str) => Sound(str'))
<1>1. t \in Seq(Byte) /\ Len(t) \in Nat
  BY SdsAssumption
<1>2. str' = Sdshdr(t, Nul, free, IF Claims(str) >= Len(t) THEN str.room ELSE Len(t))
  BY DEF Assign, Becomes
<1>3. str.room \in Nat /\ Claims(str) \in Int
  BY Fields DEF TypeOK
<1>. QED BY <1>1, <1>2, <1>3, SdsAssumption, NulAssumption
         DEF Proper, IsSds, Claims, Sound, HasRoom, Sdshdr

LEMMA CopyCall ==
  ASSUME TypeOK, NEW t \in Text, sdscpylen(t)
  PROVE  /\ KeepsSpace(str') /\ KeepsTerminator(str')
         /\ Fits(str') \/ CopyLacksRoom(str, t)
<1>1. str' = Rewritten(CopyTarget(str, t), t)
  BY DEF sdscpylen, Becomes, CopyTarget
<1>. QED BY <1>1, CopyStep, SdsAssumption

LEMMA TrimCall ==
  ASSUME TypeOK, NEW b \in Byte, sdstrim({b})
  PROVE  KeepsSpace(str') /\ Fits(str')
<1>1. PICK sp \in 0 .. Len(str.text), ep \in -1 .. Len(str.text) - 1 :
        str' = Trimmed(str, sp, ep)
  BY DEF sdstrim, Becomes
<1>. QED BY <1>1, TrimStep

LEMMA RangeCall ==
  ASSUME TypeOK, NEW start \in Position, NEW end \in Position, sdsrange(start, end)
  PROVE  /\ KeepsSpace(str') /\ KeepsTerminator(str')
         /\ Fits(str') \/ (end = Len(str.text) /\ str.free = 0)
<1>1. CASE str.text = << >>
  BY <1>1 DEF sdsrange, Becomes, TypeOK, KeepsSpace, KeepsTerminator, Fits, Proper
<1>2. CASE str.text # << >>
  <2>1. str' = Rewritten(str, Slice(str, start, end))
    BY <1>2 DEF sdsrange, Becomes
  <2>2. start \in Int /\ end \in Int
    BY SdsAssumption DEF Position
  <2>. QED BY <2>1, <2>2, RangeStep
<1>. QED BY <1>1, <1>2

(* The four and the rest are all there is. *)
LEMMA EveryStep ==
  ASSUME TypeOK, [Next]_vars
  PROVE  \/ Harmless(str')
         \/ \E t \in Text, free \in 0 .. 1 : Assign(t, free)
         \/ \E t \in Text : sdscpylen(t)
         \/ \E b \in Byte : sdstrim({b})
         \/ \E start, end \in Position : sdsrange(start, end)
         \/ UNCHANGED str
BY HarmlessCalls DEF Next, vars

LEMMA InitialString == Init => TypeOK
BY FreshExact, SdsAssumption DEF Init, TypeOK, Proper

LEMMA TypeStep == TypeOK /\ [Next]_vars => TypeOK'
<1>. SUFFICES ASSUME TypeOK, [Next]_vars PROVE Proper(str')
  BY DEF TypeOK, Proper
<1>. QED BY EveryStep, AssignCall, CopyCall, TrimCall, RangeCall
         DEF Harmless, KeepsSpace, Proper, TypeOK

(* The string object is well formed after any calls. *)
THEOREM TypeCorrect == Spec => []TypeOK
BY InitialString, TypeStep, PTL DEF Spec

(* len and free are what the allocator gave, but after an assignment.      *)
THEOREM SpaceIsKept == Spec => SpaceKept
<1>1. TypeOK /\ [Next]_vars =>
        [Exact(str) /\ ~Exact(str)' => \E t \in Text, free \in 0 .. 1 : Assign(t, free)]_vars
  BY EveryStep, CopyCall, TrimCall, RangeCall DEF Harmless, KeepsSpace, Exact, Claims, vars
<1>. QED BY <1>1, TypeCorrect, PTL DEF Spec, SpaceKept

(* No call but sdstrim leaves a string without its terminator.             *)
THEOREM TerminatorStays == Spec => TerminatedUnlessTrimmed
<1>1. TypeOK /\ [Next]_vars =>
        [str.next = Nul /\ str'.next # Nul => \E b \in Byte : sdstrim({b})]_vars
  BY EveryStep, AssignCall, CopyCall, RangeCall DEF Harmless, KeepsTerminator, vars
<1>. QED BY <1>1, TypeCorrect, PTL DEF Spec, TerminatedUnlessTrimmed

(* Two calls can write behind a string that has the room it says it has:   *)
(* every other call, with texts of any length, stays inside.               *)
THEOREM TwoCallsOverrun == Spec => OverrunsOnlyWhereKnown
<1>1. ASSUME TypeOK, [Next]_vars, HasRoom(str), ~Sound(str)'
      PROVE  \/ \E t \in Text : sdscpylen(t) /\ CopyLacksRoom(str, t)
             \/ \E start \in Position : sdsrange(start, Len(str.text)) /\ str.free = 0
             \/ UNCHANGED vars
  <2>1. ~Sound(str')
    BY <1>1 DEF Sound
  <2>2. CASE Harmless(str')
    BY <1>1, <2>1, <2>2 DEF Harmless, Fits
  <2>3. CASE \E t \in Text, free \in 0 .. 1 : Assign(t, free)
    BY <1>1, <2>1, <2>3, AssignCall
  <2>4. CASE \E t \in Text : sdscpylen(t)
    BY <1>1, <2>1, <2>4, CopyCall DEF Fits
  <2>5. CASE \E b \in Byte : sdstrim({b})
    BY <1>1, <2>1, <2>5, TrimCall DEF Fits
  <2>6. CASE \E start, end \in Position : sdsrange(start, end)
    BY <1>1, <2>1, <2>6, RangeCall DEF Fits
  <2>. QED BY <1>1, <2>2, <2>3, <2>4, <2>5, <2>6, EveryStep DEF vars
<1>2. TypeOK /\ [Next]_vars =>
        [str.free >= 0 /\ Claims(str) <= str.room /\ ~Sound(str)' =>
           \/ \E t \in Text : sdscpylen(t) /\ CopyLacksRoom(str, t)
           \/ \E start \in Position : sdsrange(start, Len(str.text)) /\ str.free = 0]_vars
  BY <1>1 DEF HasRoom
<1>. QED BY <1>2, TypeCorrect, PTL DEF Spec, OverrunsOnlyWhereKnown

-----------------------------------------------------------------------------
(* The program makes new strings, appends, grows, clears and cuts a range  *)
(* out of one (StringObject.cpp, ListObject.cpp and the command table).    *)
ProgramCall ==
  \/ \E t \in Text : FromText(t) \/ sdscatlen(t)
  \/ \E n \in 0 .. MaxLen : sdsgrowzero(n)
  \/ \E start, end \in Position : getrange(start, end)
  \/ Copy \/ sdsclear

ProgramSpec == Init /\ [][ProgramCall]_vars

AsAllocated == TypeOK /\ Exact(str) /\ Sound(str) /\ str.next = Nul

(* With these calls a string never claims room it has not, never runs over *)
(* it, and always ends in a terminator.                                    *)
THEOREM ProgramKeepsStringsSound == ProgramSpec => []AsAllocated
<1>1. Init => AsAllocated
  BY FreshExact, SdsAssumption DEF Init, AsAllocated, TypeOK, Proper
<1>2. AsAllocated /\ [ProgramCall]_vars => AsAllocated'
  <2>. SUFFICES ASSUME AsAllocated, ProgramCall \/ UNCHANGED vars PROVE AsAllocated'
    OBVIOUS
  <2>1. CASE UNCHANGED vars
    BY <2>1 DEF AsAllocated, TypeOK, Exact, Sound, Claims, IsSds, vars
  <2>2. CASE ProgramCall
    <3>1. Harmless(str')
      BY <2>2, HarmlessCalls DEF AsAllocated, ProgramCall
    <3>2. HasRoom(str)
      BY Fields DEF AsAllocated, TypeOK, Exact, Sound, HasRoom, Claims
    <3>3. Proper(str') /\ Exact(str') /\ Sound(str') /\ str'.next = Nul
      BY <3>1, <3>2 DEF AsAllocated, Harmless, KeepsSpace, KeepsTerminator, Fits
    <3>. QED BY <3>3 DEF AsAllocated, TypeOK, Proper, Exact, Sound, Claims, IsSds
  <2>. QED BY <2>1, <2>2
<1>. QED BY <1>1, <1>2, PTL DEF ProgramSpec

-----------------------------------------------------------------------------
(* Numbers: what is written is read back, and what is read was written so. *)

(* A non-empty set of natural numbers has a least element. *)
LEMMA LeastNat ==
  ASSUME NEW S \in SUBSET Nat, S # {}
  PROVE  \E x \in S : \A y \in S : x <= y
<1> DEFINE T == {1 .. i : i \in S}
<1>1. T \subseteq FiniteSubsetsOf(Nat)
  <2>1. \A i \in S : IsFiniteSet(1 .. i)
    BY FS_Interval
  <2>2. \A i \in S : 1 .. i \in SUBSET Nat
    OBVIOUS
  <2>. QED BY <2>1, <2>2 DEF FiniteSubsetsOf
<1>2. T # {}
  OBVIOUS
<1>3. PICK t \in T : \A u \in T : <<u, t>> \notin StrictSubsetOrdering(Nat)
  <2>. HIDE DEF T
  <2>. QED BY <1>1, <1>2, FS_StrictSubsetOrderingWellFounded, WFMin
<1>4. PICK x \in S : t = 1 .. x
  OBVIOUS
<1>5. ASSUME NEW y \in S, y < x PROVE FALSE
  <2>1. x \in 1 .. x /\ x \notin 1 .. y
    BY <1>5
  <2>2. <<1 .. y, t>> \in StrictSubsetOrdering(Nat)
    BY <1>4, <1>5, <2>1 DEF StrictSubsetOrdering
  <2>. QED BY <1>3, <2>2
<1>. QED BY <1>5

(* A number is its last digit and what is left when that is divided off.   *)
LEMMA LastDigit ==
  ASSUME NEW v \in Nat
  PROVE  /\ v \div Base \in Nat /\ v % Base \in 0 .. Base - 1
         /\ v = Base * (v \div Base) + (v % Base)
         /\ v >= Base => v \div Base < v /\ v \div Base >= 1
<1>1. Base \in Nat /\ Base >= 2
  BY DigitAssumption DEF Base
<1>. DEFINE b == Base
           q == v \div b
           r == v % b
<1>2. q \in Int /\ r \in 0 .. b - 1 /\ v = b * q + r
  BY <1>1
<1>. HIDE DEF q, r, b
<1>3. b \in Nat /\ b >= 2
  BY <1>1 DEF b
<1>4. q >= 0
  <2>. SUFFICES ASSUME q <= -1 PROVE FALSE
    BY <1>2
  <2>1. b * q <= -b
    BY <1>2, <1>3
  <2>. QED BY <1>2, <1>3, <2>1
<1>5. ASSUME v >= b PROVE q < v /\ q >= 1
  <2>1. q >= 1
    <3>. SUFFICES ASSUME q = 0 PROVE FALSE
      BY <1>2, <1>4
    <3>. QED BY <1>2, <1>3, <1>5
  <2>2. b * q >= 2 * q
    BY <1>2, <1>3, <1>4
  <2>. QED BY <1>2, <1>3, <2>1, <2>2
<1>. QED BY <1>2, <1>4, <1>5 DEF q, r, b

(* One number has one quotient and one rest. *)
LEMMA DigitBack ==
  ASSUME NEW q \in Nat, NEW r \in 0 .. Base - 1
  PROVE  (Base * q + r) \div Base = q /\ (Base * q + r) % Base = r
<1>1. Base \in Nat /\ Base >= 2
  BY DigitAssumption DEF Base
<1>. DEFINE b == Base
           v == b * q + r
<1>2. v \in Nat
  BY <1>1
<1>3. PICK p \in Nat, s \in 0 .. b - 1 : p = v \div b /\ s = v % b /\ v = b * p + s
  <2>. HIDE DEF v
  <2>1. /\ v \div Base \in Nat /\ v % Base \in 0 .. Base - 1
        /\ v = Base * (v \div Base) + (v % Base)
    BY <1>2, LastDigit
  <2>. QED BY <2>1
<1>4. b * p + s = b * q + r
  BY <1>3
<1>5. b \in Nat /\ b >= 2 /\ q \in Nat /\ r \in 0 .. b - 1
  BY <1>1
<1>. HIDE DEF v, b
<1>6. p = q
  <2>1. ASSUME p >= q + 1 PROVE FALSE
    <3>1. PICK d \in Nat : p = q + 1 + d
      <4>1. p - q - 1 \in Nat /\ p = q + 1 + (p - q - 1)
        BY <1>3, <1>5, <2>1
      <4>. QED BY <4>1
    <3>2. b * p = b * q + b + b * d
      BY <1>5, <3>1
    <3>3. b * d \in Nat /\ b * q \in Nat
      BY <1>5
    <3>. QED BY <1>3, <1>4, <1>5, <3>2, <3>3
  <2>2. ASSUME q >= p + 1 PROVE FALSE
    <3>1. PICK d \in Nat : q = p + 1 + d
      <4>1. q - p - 1 \in Nat /\ q = p + 1 + (q - p - 1)
        BY <1>3, <1>5, <2>2
      <4>. QED BY <4>1
    <3>2. b * q = b * p + b + b * d
      BY <1>3, <1>5, <3>1
    <3>3. b * d \in Nat /\ b * p \in Nat
      BY <1>3, <1>5
    <3>. QED BY <1>3, <1>4, <1>5, <3>2, <3>3
  <2>. QED BY <1>3, <1>5, <2>1, <2>2
<1>7. s = r
  <2>1. b * q \in Nat
    BY <1>5
  <2>. QED BY <1>3, <1>4, <1>5, <1>6, <2>1
<1>. QED BY <1>3, <1>6, <1>7 DEF v, b

(* f gives every number up to v its digits. *)
Notes(f, v) == f = [n \in 0 .. v |-> IF n < Base THEN <<Digit[n + 1]>>
                                     ELSE Append(f[n \div Base], Digit[(n % Base) + 1])]

LEMMA NotesAt ==
  ASSUME NEW v \in Nat, NEW f, Notes(f, v), NEW n \in 0 .. v
  PROVE  f[n] = IF n < Base THEN <<Digit[n + 1]>> ELSE Append(f[n \div Base], Digit[(n % Base) + 1])
<1> DEFINE g == [m \in 0 .. v |-> IF m < Base THEN <<Digit[m + 1]>>
                                  ELSE Append(f[m \div Base], Digit[(m % Base) + 1])]
<1>1. f = g
  BY DEF Notes
<1>2. g[n] = IF n < Base THEN <<Digit[n + 1]>> ELSE Append(f[n \div Base], Digit[(n % Base) + 1])
  OBVIOUS
<1>3. f[n] = g[n]
  <2>. HIDE DEF g
  <2>. QED BY <1>1
<1>. HIDE DEF g
<1>. QED BY <1>2, <1>3

LEMMA NotesOnce ==
  ASSUME NEW v \in Nat, NEW w \in Nat, NEW f, NEW g, Notes(f, v), Notes(g, w)
  PROVE  \A n \in 0 .. v : n \in 0 .. w => f[n] = g[n]
<1> DEFINE D == {n \in 0 .. v : n \in 0 .. w /\ f[n] # g[n]}
<1>1. ASSUME D # {} PROVE FALSE
  <2>1. PICK n \in D : \A x \in D : n <= x
    <3>1. D \in SUBSET Nat
      OBVIOUS
    <3>. HIDE DEF D
    <3>. QED BY <1>1, <3>1, LeastNat
  <2>2. n \in 0 .. v /\ n \in 0 .. w /\ f[n] # g[n] /\ n \in Nat
    BY <2>1
  <2>3. CASE n < Base
    BY <2>2, <2>3 DEF Notes
  <2>4. CASE ~(n < Base)
    <3>1. n >= Base
      BY <2>2, <2>4, DigitAssumption DEF Base
    <3>2. PICK q \in Nat : q = n \div Base /\ q < n
      BY <2>2, <3>1, LastDigit
    <3>3. q \notin D
      <4>. HIDE DEF D
      <4>. QED BY <2>1, <2>2, <3>2
    <3>4. f[q] = g[q]
      BY <2>2, <3>2, <3>3
    <3>5. f[n] = Append(f[q], Digit[(n % Base) + 1]) /\ g[n] = Append(g[q], Digit[(n % Base) + 1])
      BY <2>2, <2>4, <3>2 DEF Notes
    <3>. QED BY <2>2, <3>4, <3>5
  <2>. QED BY <2>3, <2>4
<1>. QED BY <1>1

LEMMA NotesExist ==
  ASSUME NEW v \in Nat
  PROVE  \E f : Notes(f, v)
<1> DEFINE D == {n \in Nat : ~ \E f : Notes(f, n)}
<1>1. ASSUME D # {} PROVE FALSE
  <2>1. PICK n \in D : \A x \in D : n <= x
    <3>1. D \in SUBSET Nat
      OBVIOUS
    <3>. HIDE DEF D
    <3>. QED BY <1>1, <3>1, LeastNat
  <2>2. n \in Nat /\ ~ \E f : Notes(f, n)
    BY <2>1
  <2>3. PICK f : n = 0 \/ Notes(f, n - 1)
    <3>1. CASE n = 0
      BY <3>1
    <3>2. CASE n # 0
      <4>1. n - 1 \in Nat /\ n - 1 \notin D
        <5>. HIDE DEF D
        <5>. QED BY <2>1, <2>2, <3>2
      <4>. QED BY <4>1
    <3>. QED BY <3>1, <3>2
  <2> DEFINE last == IF n < Base THEN <<Digit[n + 1]>> ELSE Append(f[n \div Base], Digit[(n % Base) + 1])
             g == [m \in 0 .. n |-> IF m = n THEN last ELSE f[m]]
             h == [m \in 0 .. n |-> IF m < Base THEN <<Digit[m + 1]>>
                                    ELSE Append(g[m \div Base], Digit[(m % Base) + 1])]
  <2>4. ASSUME NEW m \in 0 .. n PROVE g[m] = h[m]
    <3>1. m \in Nat /\ n \in Nat
      BY <2>2
    <3>2. g[m] = IF m = n THEN last ELSE f[m]
      OBVIOUS
    <3>3. h[m] = IF m < Base THEN <<Digit[m + 1]>> ELSE Append(g[m \div Base], Digit[(m % Base) + 1])
      OBVIOUS
    <3>4. ~(m < Base) => g[m \div Base] = f[m \div Base]
      <4>. SUFFICES ASSUME ~(m < Base) PROVE g[m \div Base] = f[m \div Base]
        OBVIOUS
      <4>1. m >= Base
        BY <3>1, DigitAssumption DEF Base
      <4>2. PICK q \in Nat : q = m \div Base /\ q < m
        BY <3>1, <4>1, LastDigit
      <4>. HIDE DEF last
      <4>3. q \in 0 .. n /\ q # n
        BY <3>1, <4>2
      <4>4. g[q] = f[q]
        BY <4>3
      <4>. HIDE DEF g
      <4>. QED BY <4>2, <4>4
    <3>5. m # n => f[m] = IF m < Base THEN <<Digit[m + 1]>> ELSE Append(f[m \div Base], Digit[(m % Base) + 1])
      <4>. SUFFICES ASSUME m # n
                    PROVE  f[m] = IF m < Base THEN <<Digit[m + 1]>> ELSE Append(f[m \div Base], Digit[(m % Base) + 1])
        OBVIOUS
      <4>1. m \in 0 .. n - 1 /\ n - 1 \in Nat /\ n # 0
        BY <3>1
      <4>. HIDE DEF D, last, g, h
      <4>. QED BY <2>3, <4>1, NotesAt
    <3>. HIDE DEF g, h
    <3>. QED BY <3>2, <3>3, <3>4, <3>5
  <2>5. g = h
    <3>1. g = [m \in 0 .. n |-> g[m]] /\ h = [m \in 0 .. n |-> h[m]]
      OBVIOUS
    <3>. HIDE DEF g, h
    <3>. QED BY <2>4, <3>1
  <2>6. Notes(g, n)
    <3>. HIDE DEF g
    <3>. QED BY <2>5 DEF Notes
  <2>. QED BY <2>2, <2>6
<1>. QED BY <1>1

LEMMA DigitsAre ==
  ASSUME NEW v \in Nat
  PROVE  DigitsOf(v) = IF v < Base THEN <<Digit[v + 1]>>
                       ELSE Append(DigitsOf(v \div Base), Digit[(v % Base) + 1])
<1>1. ASSUME NEW w \in Nat PROVE \E f : Notes(f, w) /\ DigitsOf(w) = f[w]
  <2>1. PICK f : f = CHOOSE g : Notes(g, w)
    OBVIOUS
  <2>2. Notes(f, w)
    BY <2>1, NotesExist
  <2>3. DigitsOf(w) = f[w]
    BY <2>1 DEF DigitsOf, Notes
  <2>. QED BY <2>2, <2>3
<1>2. PICK f : Notes(f, v) /\ DigitsOf(v) = f[v]
  BY <1>1
<1>3. CASE v < Base
  BY <1>2, <1>3 DEF Notes
<1>4. CASE ~(v < Base)
  <2>1. v >= Base
    BY <1>4, DigitAssumption DEF Base
  <2>2. PICK q \in Nat : q = v \div Base /\ q < v
    BY <2>1, LastDigit
  <2>3. PICK g : Notes(g, q) /\ DigitsOf(q) = g[q]
    BY <1>1
  <2>4. f[q] = g[q]
    <3>1. q \in 0 .. v /\ q \in 0 .. q
      BY <2>2
    <3>. QED BY <1>2, <2>3, <3>1, NotesOnce
  <2>5. f[v] = Append(f[q], Digit[(v % Base) + 1])
    <3>1. v \in 0 .. v
      OBVIOUS
    <3>2. f[v] = IF v < Base THEN <<Digit[v + 1]>> ELSE Append(f[v \div Base], Digit[(v % Base) + 1])
      BY <1>2, <3>1, NotesAt
    <3>. QED BY <1>4, <2>2, <3>2
  <2>. QED BY <1>2, <1>4, <2>2, <2>3, <2>4, <2>5
<1>. QED BY <1>3, <1>4

(* A text is the text before its last byte, and that byte. *)
LEMMA LastOff ==
  ASSUME NEW t \in Seq(Byte), t # << >>
  PROVE  \E p \in Seq(Byte), c \in Byte : t = Append(p, c) /\ Len(p) = Len(t) - 1
<1>1. Len(t) \in Nat /\ Len(t) >= 1 /\ Len(t) - 1 \in Nat
  OBVIOUS
<1> DEFINE p == [i \in 1 .. Len(t) - 1 |-> t[i]]
<1>2. p \in Seq(Byte) /\ Len(p) = Len(t) - 1
  <2>1. p \in [1 .. Len(t) - 1 -> Byte]
    BY <1>1
  <2>. QED BY <1>1, <2>1
<1>3. t[Len(t)] \in Byte
  BY <1>1
<1>4. \A i \in 1 .. Len(t) - 1 : p[i] = t[i]
  OBVIOUS
<1>. HIDE DEF p
<1>5. /\ Append(p, t[Len(t)]) \in Seq(Byte) /\ Len(Append(p, t[Len(t)])) = Len(t)
      /\ \A i \in 1 .. Len(t) : Append(p, t[Len(t)])[i] = t[i]
  BY <1>1, <1>2, <1>3, <1>4, AppendProperties
<1>6. Append(p, t[Len(t)]) = t
  BY <1>5, SeqEqual
<1>. QED BY <1>2, <1>3, <1>6

(* r reads the digits of s from the first to the last. *)
Reads(r, s) == r = [k \in 1 .. Len(s) |-> IF k = 1 THEN ValueOf(s[1]) ELSE NextDigit(r[k - 1], s[k])]

LEMMA ReadsAt ==
  ASSUME NEW s, NEW r, Reads(r, s), NEW k \in 1 .. Len(s)
  PROVE  r[k] = IF k = 1 THEN ValueOf(s[1]) ELSE NextDigit(r[k - 1], s[k])
<1> DEFINE g == [i \in 1 .. Len(s) |-> IF i = 1 THEN ValueOf(s[1]) ELSE NextDigit(r[i - 1], s[i])]
<1>1. r = g
  BY DEF Reads
<1>2. g[k] = IF k = 1 THEN ValueOf(s[1]) ELSE NextDigit(r[k - 1], s[k])
  OBVIOUS
<1>3. r[k] = g[k]
  <2>. HIDE DEF g
  <2>. QED BY <1>1
<1>. HIDE DEF g
<1>. QED BY <1>2, <1>3

(* A text p whose reading goes on with c. *)
LEMMA ReadsOn ==
  ASSUME NEW p \in Seq(Byte), NEW c \in Byte, NEW r, Reads(r, p), p # << >>
  PROVE  LET s == Append(p, c)
         IN  Reads([k \in 1 .. Len(s) |-> IF k = Len(s) THEN NextDigit(r[Len(p)], c) ELSE r[k]], s)
<1> DEFINE s == Append(p, c)
           e == NextDigit(r[Len(p)], c)
           g == [k \in 1 .. Len(s) |-> IF k = Len(s) THEN e ELSE r[k]]
           h == [k \in 1 .. Len(s) |-> IF k = 1 THEN ValueOf(s[1]) ELSE NextDigit(g[k - 1], s[k])]
<1>1. /\ Len(p) \in Nat /\ Len(p) >= 1 /\ Len(s) = Len(p) + 1 /\ s[Len(s)] = c
      /\ \A k \in 1 .. Len(p) : s[k] = p[k]
  BY AppendProperties
<1>. HIDE DEF s
<1>2. ASSUME NEW k \in 1 .. Len(s) PROVE g[k] = h[k]
  <2>1. g[k] = (IF k = Len(s) THEN e ELSE r[k]) /\ h[k] = IF k = 1 THEN ValueOf(s[1]) ELSE NextDigit(g[k - 1], s[k])
    OBVIOUS
  <2>2. k # 1 => g[k - 1] = r[k - 1]
    <3>. HIDE DEF e
    <3>. QED BY <1>1
  <2>3. CASE k = Len(s)
    <3>. HIDE DEF g, h
    <3>. QED BY <1>1, <2>1, <2>2, <2>3
  <2>4. CASE k # Len(s)
    <3>1. k \in 1 .. Len(p) /\ 1 \in 1 .. Len(p)
      BY <1>1, <2>4
    <3>2. r[k] = IF k = 1 THEN ValueOf(p[1]) ELSE NextDigit(r[k - 1], p[k])
      BY <3>1, ReadsAt
    <3>. HIDE DEF g, h, e
    <3>. QED BY <1>1, <2>1, <2>2, <2>4, <3>1, <3>2
  <2>. QED BY <2>3, <2>4
<1>3. g = h
  <2>1. g = [k \in 1 .. Len(s) |-> g[k]] /\ h = [k \in 1 .. Len(s) |-> h[k]]
    OBVIOUS
  <2>. HIDE DEF g, h
  <2>. QED BY <1>2, <2>1
<1>4. Reads(g, s)
  <2>. HIDE DEF g
  <2>. QED BY <1>3 DEF Reads
<1>. QED BY <1>4 DEF s

LEMMA ReadsOnce ==
  ASSUME NEW s \in Seq(Byte), NEW f, NEW g, Reads(f, s), Reads(g, s)
  PROVE  f = g
<1> DEFINE D == {n \in 1 .. Len(s) : f[n] # g[n]}
<1>1. ASSUME D # {} PROVE FALSE
  <2>1. PICK n \in D : \A x \in D : n <= x
    <3>1. D \in SUBSET Nat
      OBVIOUS
    <3>. HIDE DEF D
    <3>. QED BY <1>1, <3>1, LeastNat
  <2>2. n \in 1 .. Len(s) /\ f[n] # g[n] /\ n \in Nat
    BY <2>1
  <2>3. /\ f[n] = IF n = 1 THEN ValueOf(s[1]) ELSE NextDigit(f[n - 1], s[n])
        /\ g[n] = IF n = 1 THEN ValueOf(s[1]) ELSE NextDigit(g[n - 1], s[n])
    BY <2>2, ReadsAt
  <2>4. n # 1
    BY <2>2, <2>3
  <2>5. n - 1 \notin D
    <3>. HIDE DEF D
    <3>. QED BY <2>1, <2>2
  <2>6. f[n - 1] = g[n - 1]
    BY <2>2, <2>4, <2>5
  <2>. QED BY <2>2, <2>3, <2>4, <2>6
<1>2. f = [k \in 1 .. Len(s) |-> f[k]] /\ g = [k \in 1 .. Len(s) |-> g[k]]
  BY DEF Reads
<1>. QED BY <1>1, <1>2

(* What is read of one digit, and of one digit more. *)
LEMMA ReadOne ==
  ASSUME NEW c \in Byte
  PROVE  ReadNumber(<<c>>) = ValueOf(c) /\ \E r : Reads(r, <<c>>)
<1> DEFINE r == [k \in 1 .. 1 |-> ValueOf(c)]
<1>1. Reads(r, <<c>>)
  <2>1. Len(<<c>>) = 1 /\ <<c>>[1] = c /\ <<c>> \in Seq(Byte)
    OBVIOUS
  <2>2. \A k \in 1 .. 1 : k = 1
    OBVIOUS
  <2>3. [k \in 1 .. Len(<<c>>) |-> IF k = 1 THEN ValueOf(<<c>>[1]) ELSE NextDigit(r[k - 1], <<c>>[k])]
        = [k \in 1 .. 1 |-> ValueOf(c)]
    BY <2>1, <2>2
  <2>. QED BY <2>3 DEF Reads
<1>2. PICK g : g = CHOOSE f : Reads(f, <<c>>)
  OBVIOUS
<1>3. Reads(g, <<c>>)
  BY <1>1, <1>2
<1>4. ReadNumber(<<c>>) = g[Len(<<c>>)]
  BY <1>2 DEF ReadNumber, Reads
<1>5. g[1] = ValueOf(c)
  <2>1. 1 \in 1 .. Len(<<c>>)
    OBVIOUS
  <2>. QED BY <1>3, <2>1, ReadsAt
<1>. QED BY <1>1, <1>4, <1>5

LEMMA Readable ==
  ASSUME NEW s \in Seq(Byte), s # << >>
  PROVE  \E r : Reads(r, s) /\ ReadNumber(s) = r[Len(s)]
<1> DEFINE D == {n \in Nat : \E t \in Seq(Byte) : Len(t) = n /\ n >= 1 /\ ~ \E r : Reads(r, t)}
<1>1. ASSUME D # {} PROVE FALSE
  <2>1. PICK n \in D : \A x \in D : n <= x
    <3>1. D \in SUBSET Nat
      OBVIOUS
    <3>. HIDE DEF D
    <3>. QED BY <1>1, <3>1, LeastNat
  <2>2. PICK t \in Seq(Byte) : Len(t) = n /\ n \in Nat /\ n >= 1 /\ ~ \E r : Reads(r, t)
    BY <2>1
  <2>3. CASE n = 1
    <3>1. t = <<t[1]>> /\ t[1] \in Byte
      BY <2>2, <2>3
    <3>2. PICK c \in Byte : c = t[1]
      BY <3>1
    <3>3. t = <<c>>
      BY <3>1, <3>2
    <3>. QED BY <2>2, <3>3, ReadOne
  <2>4. CASE n # 1
    <3>1. PICK p \in Seq(Byte), c \in Byte : t = Append(p, c) /\ Len(p) = n - 1
      <4>1. t # << >>
        BY <2>2
      <4>. QED BY <2>2, <4>1, LastOff
    <3>2. Len(p) \in Nat /\ Len(p) >= 1 /\ p # << >> /\ n - 1 \notin D
      <4>. HIDE DEF D
      <4>. QED BY <2>1, <2>2, <2>4, <3>1
    <3>3. PICK r : Reads(r, p)
      BY <3>1, <3>2
    <3>. QED BY <2>2, <3>1, <3>2, <3>3, ReadsOn
  <2>. QED BY <2>3, <2>4
<1>2. \E r : Reads(r, s)
  <2>1. Len(s) \in Nat /\ Len(s) >= 1
    OBVIOUS
  <2>. QED BY <1>1, <2>1
<1>3. PICK g : g = CHOOSE f : Reads(f, s)
  OBVIOUS
<1>4. Reads(g, s)
  BY <1>2, <1>3
<1>5. ReadNumber(s) = g[Len(s)]
  BY <1>3 DEF ReadNumber, Reads
<1>. QED BY <1>4, <1>5

LEMMA ReadMore ==
  ASSUME NEW p \in Seq(Byte), NEW c \in Byte, p # << >>
  PROVE  ReadNumber(Append(p, c)) = NextDigit(ReadNumber(p), c)
<1>1. PICK r : Reads(r, p) /\ ReadNumber(p) = r[Len(p)]
  BY Readable
<1>2. PICK s : s = Append(p, c)
  OBVIOUS
<1>3. s \in Seq(Byte) /\ Len(s) \in Nat /\ Len(s) >= 1 /\ s # << >>
  BY <1>2, AppendProperties
<1>4. PICK g : Reads(g, s) /\ ReadNumber(s) = g[Len(s)]
  BY <1>3, Readable
<1> DEFINE h == [k \in 1 .. Len(s) |-> IF k = Len(s) THEN NextDigit(r[Len(p)], c) ELSE r[k]]
<1>5. Reads(h, s)
  BY <1>1, <1>2, ReadsOn
<1>6. h[Len(s)] = NextDigit(r[Len(p)], c)
  BY <1>3
<1>. HIDE DEF h
<1>7. g = h
  BY <1>3, <1>4, <1>5, ReadsOnce
<1>. QED BY <1>1, <1>2, <1>4, <1>6, <1>7

(* A digit is the value of its place. *)
LEMMA ValueOfDigit ==
  ASSUME NEW i \in 0 .. Base - 1
  PROVE  Digit[i + 1] \in Byte /\ IsDigit(Digit[i + 1]) /\ ValueOf(Digit[i + 1]) = i
<1>1. Digit \in Seq(Byte) /\ Len(Digit) \in Nat /\ DOMAIN Digit = 1 .. Base /\ i + 1 \in 1 .. Base
  BY DigitAssumption DEF Base
<1>2. PICK j : j = CHOOSE k \in DOMAIN Digit : Digit[k] = Digit[i + 1]
  OBVIOUS
<1>3. j \in DOMAIN Digit /\ Digit[j] = Digit[i + 1]
  BY <1>1, <1>2
<1>4. j = i + 1
  BY <1>1, <1>3, DigitAssumption
<1>5. ValueOf(Digit[i + 1]) = j - 1
  BY <1>2 DEF ValueOf
<1>6. Digit[i + 1] \in Byte /\ i + 1 \in DOMAIN Digit
  BY <1>1 DEF Base
<1>7. j - 1 = i
  <2>1. i \in Int
    BY <1>1
  <2>. QED BY <1>4, <2>1
<1>. QED BY <1>5, <1>6, <1>7 DEF IsDigit

LEMMA DigitOfValue ==
  ASSUME NEW c, IsDigit(c)
  PROVE  ValueOf(c) \in 0 .. Base - 1 /\ Digit[ValueOf(c) + 1] = c
<1>1. Digit \in Seq(Byte) /\ Len(Digit) \in Nat /\ DOMAIN Digit = 1 .. Base
  BY DigitAssumption DEF Base
<1>2. PICK k \in DOMAIN Digit : Digit[k] = c
  BY DEF IsDigit
<1>3. k - 1 \in 0 .. Base - 1 /\ (k - 1) + 1 = k
  BY <1>1, <1>2, DigitAssumption DEF Base
<1>4. PICK i \in 0 .. Base - 1 : k = i + 1
  BY <1>3
<1>5. ValueOf(Digit[i + 1]) = i
  BY ValueOfDigit
<1>. QED BY <1>2, <1>4, <1>5

(* A digit more makes of v the number Base * v and its value, if that is   *)
(* an unsigned long long; if not, no number ever comes of it.              *)
LEMMA NextDigitIs ==
  ASSUME NEW v \in Nat, NEW c
  PROVE  /\ NextDigit(v, c) \in Nat
         /\ NextDigit(v, c) # NotANumber =>
              /\ IsDigit(c) /\ v # NotANumber /\ v <= ULongLongMax
              /\ NextDigit(v, c) = Base * v + ValueOf(c)
         /\ IsDigit(c) /\ Base * v + ValueOf(c) <= ULongLongMax => NextDigit(v, c) = Base * v + ValueOf(c)
<1>1. Base \in Nat /\ Base >= 2 /\ ULongLongMax \in Nat /\ NotANumber \in Nat /\ NotANumber = ULongLongMax + 1
  BY DigitAssumption DEF Base, ULongLongMax, NotANumber
<1>2. CASE ~IsDigit(c)
  BY <1>1, <1>2 DEF NextDigit
<1>3. CASE IsDigit(c)
  <2>1. PICK d \in 0 .. Base - 1 : d = ValueOf(c)
    BY <1>3, DigitOfValue
  <2>2. PICK q \in Nat, r \in 0 .. Base - 1 : q = ULongLongMax \div Base /\ ULongLongMax = Base * q + r
    <3>1. /\ ULongLongMax \div Base \in Nat /\ ULongLongMax % Base \in 0 .. Base - 1
          /\ ULongLongMax = Base * (ULongLongMax \div Base) + (ULongLongMax % Base)
      BY <1>1, LastDigit
    <3>. QED BY <3>1
  <2>3. PICK m : m = Base * v
    OBVIOUS
  <2>4. m \in Nat /\ v <= m /\ m = v * Base
    <3>1. PICK b \in Nat : b = Base /\ b >= 2
      BY <1>1
    <3>2. b * v \in Nat /\ b * v = v * b /\ v <= b * v
      BY <3>1
    <3>. QED BY <2>3, <3>1, <3>2
  <2>5. v > q => m + d > ULongLongMax
    <3>. SUFFICES ASSUME v > q PROVE m + d > ULongLongMax
      OBVIOUS
    <3>1. PICK b \in Nat : b = Base /\ b >= 2
      BY <1>1
    <3>2. v - (q + 1) \in Nat /\ v = q + 1 + (v - (q + 1))
      BY <2>2
    <3>3. PICK e \in Nat : v = q + 1 + e
      BY <3>2
    <3>4. b * v = b * q + b + b * e /\ b * e \in Nat /\ b * q \in Nat
      BY <2>2, <3>1, <3>3
    <3>5. m = b * v /\ ULongLongMax = b * q + r /\ r < b
      BY <2>2, <2>3, <3>1
    <3>. QED BY <2>1, <2>2, <3>1, <3>4, <3>5
  <2>6. NextDigit(v, c) = IF v = NotANumber THEN NotANumber
                          ELSE IF v > q \/ m > ULongLongMax - d THEN NotANumber ELSE m + d
    BY <1>3, <2>1, <2>2, <2>4 DEF NextDigit
  <2>7. PICK x : x = NextDigit(v, c)
    OBVIOUS
  <2>8. PICK u \in Nat : u = ULongLongMax
    BY <1>1
  <2>9. d \in Nat
    BY <1>1, <2>1
  <2>10. /\ x \in Nat
         /\ x # NotANumber => v # NotANumber /\ v <= u /\ x = m + d
         /\ m + d <= u => x = m + d
    <3>1. x = IF v = NotANumber THEN NotANumber ELSE IF v > q \/ m > u - d THEN NotANumber ELSE m + d
      BY <2>6, <2>7, <2>8
    <3>2. NotANumber \in Nat /\ NotANumber = u + 1
      BY <1>1, <2>8
    <3>3. v > q => m + d > u
      BY <2>5, <2>8
    <3>4. q \in Nat /\ m \in Nat /\ v <= m
      BY <2>2, <2>4
    <3>5. m + d <= u => x = m + d
      BY <2>8, <2>9, <3>1, <3>2, <3>3, <3>4
    <3>6. x \in Nat
      BY <2>8, <2>9, <3>1, <3>2, <3>4
    <3>7. x # NotANumber => v # NotANumber /\ v <= u /\ x = m + d
      BY <2>8, <2>9, <3>1, <3>2, <3>4
    <3>. QED BY <3>5, <3>6, <3>7
  <2>. QED BY <1>3, <2>1, <2>3, <2>7, <2>8, <2>10
<1>. QED BY <1>2, <1>3

(* What begins with a digit is read as some number. *)
LEMMA ReadType ==
  ASSUME NEW s \in Seq(Byte), s # << >>, IsDigit(s[1])
  PROVE  ReadNumber(s) \in Nat
<1> DEFINE D == {n \in Nat : \E t \in Seq(Byte) : Len(t) = n /\ n >= 1 /\ IsDigit(t[1]) /\ ReadNumber(t) \notin Nat}
<1>1. ASSUME D # {} PROVE FALSE
  <2>1. PICK n \in D : \A x \in D : n <= x
    <3>1. D \in SUBSET Nat
      OBVIOUS
    <3>. HIDE DEF D
    <3>. QED BY <1>1, <3>1, LeastNat
  <2>2. PICK t \in Seq(Byte) : Len(t) = n /\ n \in Nat /\ n >= 1 /\ IsDigit(t[1]) /\ ReadNumber(t) \notin Nat
    BY <2>1
  <2>3. PICK p \in Seq(Byte), c \in Byte : t = Append(p, c) /\ Len(p) = n - 1
    <3>1. t # << >>
      BY <2>2
    <3>. QED BY <2>2, <3>1, LastOff
  <2>4. CASE p = << >>
    <3>1. t = <<c>> /\ t[1] = c
      BY <2>3, <2>4
    <3>2. ReadNumber(<<c>>) = ValueOf(c) /\ IsDigit(c)
      BY <2>2, <3>1, ReadOne
    <3>3. ValueOf(c) \in Nat
      <4>1. Base \in Nat
        BY DigitAssumption DEF Base
      <4>. QED BY <3>2, <4>1, DigitOfValue
    <3>. QED BY <2>2, <3>1, <3>2, <3>3
  <2>5. CASE p # << >>
    <3>1. Len(p) \in Nat /\ Len(p) >= 1 /\ t[1] = p[1]
      BY <2>3, <2>5, AppendProperties
    <3>2. n - 1 \notin D
      <4>. HIDE DEF D
      <4>. QED BY <2>1, <2>2
    <3>3. ReadNumber(p) \in Nat
      BY <2>2, <2>3, <3>1, <3>2
    <3>4. NextDigit(ReadNumber(p), c) \in Nat
      BY <3>3, NextDigitIs
    <3>. QED BY <2>2, <2>3, <2>5, <3>4, ReadMore
  <2>. QED BY <2>4, <2>5
<1>2. Len(s) \in Nat /\ Len(s) >= 1
  OBVIOUS
<1>. QED BY <1>1, <1>2

(* A text of digits that does not begin with 0. *)
Notation(s) == s \in Seq(Byte) /\ s # << >> /\ IsDigit(s[1]) /\ s[1] # Digit[1]

(* The digits of a number that is not 0 are read back as that number.      *)
LEMMA WrittenIsRead ==
  ASSUME NEW v \in Nat, v >= 1, v <= ULongLongMax
  PROVE  Notation(DigitsOf(v)) /\ ReadNumber(DigitsOf(v)) = v
<1> DEFINE Good(n) == Notation(DigitsOf(n)) /\ ReadNumber(DigitsOf(n)) = n
           D == {n \in Nat : n >= 1 /\ n <= ULongLongMax /\ ~Good(n)}
<1>1. Base \in Nat /\ Base >= 2 /\ ULongLongMax \in Nat
  BY DigitAssumption DEF Base, ULongLongMax
<1>2. ASSUME D # {} PROVE FALSE
  <2>1. PICK n \in D : \A x \in D : n <= x
    <3>1. D \in SUBSET Nat
      OBVIOUS
    <3>. HIDE DEF D
    <3>. QED BY <1>2, <3>1, LeastNat
  <2>2. n \in Nat /\ n >= 1 /\ n <= ULongLongMax /\ ~Good(n)
    BY <2>1
  <2>3. CASE n < Base
    <3>1. DigitsOf(n) = <<Digit[n + 1]>>
      BY <2>2, <2>3, DigitsAre
    <3>2. n \in 0 .. Base - 1 /\ 0 \in 0 .. Base - 1
      BY <1>1, <2>2, <2>3
    <3>3. Digit[n + 1] \in Byte /\ IsDigit(Digit[n + 1]) /\ ValueOf(Digit[n + 1]) = n
      BY <3>2, ValueOfDigit
    <3>4. Digit[n + 1] # Digit[1]
      <4>1. ValueOf(Digit[0 + 1]) = 0
        BY <3>2, ValueOfDigit
      <4>. QED BY <2>2, <3>3, <4>1
    <3>5. PICK c \in Byte : c = Digit[n + 1]
      BY <3>3
    <3>6. ReadNumber(<<c>>) = n
      BY <3>3, <3>5, ReadOne
    <3>7. Notation(<<c>>)
      BY <3>3, <3>4, <3>5 DEF Notation
    <3>. QED BY <2>2, <3>1, <3>5, <3>6, <3>7
  <2>4. CASE ~(n < Base)
    <3>1. DigitsOf(n) = Append(DigitsOf(n \div Base), Digit[(n % Base) + 1])
      BY <2>2, <2>4, DigitsAre
    <3>2. PICK q \in Nat, r \in 0 .. Base - 1 :
            q = n \div Base /\ r = n % Base /\ n = Base * q + r /\ q < n /\ q >= 1
      <4>1. n >= Base
        BY <1>1, <2>2, <2>4
      <4>2. /\ n \div Base \in Nat /\ n % Base \in 0 .. Base - 1
            /\ n = Base * (n \div Base) + (n % Base)
            /\ n >= Base => n \div Base < n /\ n \div Base >= 1
        BY <2>2, LastDigit
      <4>. QED BY <4>1, <4>2
    <3>3. q \notin D
      <4>. HIDE DEF D
      <4>. QED BY <2>1, <2>2, <3>2
    <3>4. q <= ULongLongMax
      BY <1>1, <2>2, <3>2
    <3>5. Good(q)
      <4>. HIDE DEF Good
      <4>. QED BY <3>2, <3>3, <3>4
    <3>6. PICK p : p = DigitsOf(q)
      OBVIOUS
    <3>7. Notation(p) /\ ReadNumber(p) = q
      BY <3>5, <3>6
    <3>8. PICK c \in Byte : c = Digit[r + 1] /\ IsDigit(c) /\ ValueOf(c) = r
      BY <3>2, ValueOfDigit
    <3>9. ReadNumber(Append(p, c)) = NextDigit(q, c)
      BY <3>7, ReadMore DEF Notation
    <3>10. NextDigit(q, c) = n
      BY <2>2, <3>2, <3>8, NextDigitIs
    <3>11. Notation(Append(p, c))
      <4>1. Append(p, c) \in Seq(Byte) /\ Append(p, c) # << >> /\ Append(p, c)[1] = p[1]
        <5>1. p \in Seq(Byte) /\ p # << >>
          BY <3>7 DEF Notation
        <5>2. 1 \in 1 .. Len(p)
          BY <5>1
        <5>. QED BY <5>1, <5>2, AppendProperties
      <4>. QED BY <3>7, <4>1 DEF Notation
    <3>12. DigitsOf(n) = Append(p, c)
      BY <3>1, <3>2, <3>6, <3>8
    <3>. QED BY <2>2, <3>9, <3>10, <3>11, <3>12
  <2>. QED BY <2>3, <2>4
<1>. QED BY <1>2

(* What is read as a number is the notation of that number. *)
LEMMA ReadIsWritten ==
  ASSUME NEW s, Notation(s), ReadNumber(s) <= ULongLongMax
  PROVE  ReadNumber(s) \in Nat /\ ReadNumber(s) >= 1 /\ DigitsOf(ReadNumber(s)) = s
<1> DEFINE Good(t) == ReadNumber(t) >= 1 /\ DigitsOf(ReadNumber(t)) = t
           D == {n \in Nat : \E t \in Seq(Byte) : Len(t) = n /\ Notation(t) /\ ReadNumber(t) <= ULongLongMax /\ ~Good(t)}
<1>1. Base \in Nat /\ Base >= 2 /\ ULongLongMax \in Nat /\ NotANumber = ULongLongMax + 1
  BY DigitAssumption DEF Base, ULongLongMax, NotANumber
<1>2. ASSUME D # {} PROVE FALSE
  <2>1. PICK n \in D : \A x \in D : n <= x
    <3>1. D \in SUBSET Nat
      OBVIOUS
    <3>. HIDE DEF D
    <3>. QED BY <1>2, <3>1, LeastNat
  <2>2. PICK t \in Seq(Byte) : Len(t) = n /\ n \in Nat /\ Notation(t) /\ ReadNumber(t) <= ULongLongMax /\ ~Good(t)
    BY <2>1
  <2>3. PICK p \in Seq(Byte), c \in Byte : t = Append(p, c) /\ Len(p) = n - 1
    BY <2>2, LastOff DEF Notation
  <2>4. CASE p = << >>
    <3>1. t = <<c>> /\ t[1] = c
      BY <2>3, <2>4
    <3>2. ReadNumber(<<c>>) = ValueOf(c) /\ IsDigit(c) /\ c # Digit[1]
      BY <2>2, <3>1, ReadOne DEF Notation
    <3>3. PICK d \in 0 .. Base - 1 : d = ValueOf(c) /\ Digit[d + 1] = c
      BY <3>2, DigitOfValue
    <3>4. d >= 1
      <4>. SUFFICES ASSUME d = 0 PROVE FALSE
        BY <1>1
      <4>. QED BY <3>2, <3>3
    <3>5. DigitsOf(d) = <<Digit[d + 1]>>
      BY <1>1, DigitsAre
    <3>. QED BY <2>2, <3>1, <3>2, <3>3, <3>4, <3>5
  <2>5. CASE p # << >>
    <3>1. Notation(p)
      <4>1. 1 \in 1 .. Len(p)
        BY <2>5
      <4>. QED BY <2>2, <2>3, <2>5, <4>1, AppendProperties DEF Notation
    <3>2. PICK v \in Nat : v = ReadNumber(p)
      BY <3>1, ReadType DEF Notation
    <3>3. ReadNumber(t) = NextDigit(v, c)
      BY <2>3, <2>5, <3>2, ReadMore
    <3>4. NextDigit(v, c) # NotANumber
      BY <1>1, <2>2, <3>3
    <3>5. IsDigit(c) /\ v <= ULongLongMax /\ ReadNumber(t) = Base * v + ValueOf(c)
      BY <3>3, <3>4, NextDigitIs
    <3>6. n - 1 \notin D /\ n - 1 \in Nat
      <4>. HIDE DEF D
      <4>. QED BY <2>1, <2>2, <2>3
    <3>7. Good(p)
      <4>. HIDE DEF Good
      <4>. QED BY <2>3, <3>1, <3>2, <3>5, <3>6
    <3>8. v >= 1 /\ DigitsOf(v) = p
      BY <3>2, <3>7
    <3>9. PICK d \in 0 .. Base - 1 : d = ValueOf(c) /\ Digit[d + 1] = c
      BY <3>5, DigitOfValue
    <3>10. PICK w : w = Base * v + d
      OBVIOUS
    <3>11. w \in Nat /\ w >= Base /\ w >= 1
      <4>1. PICK b \in Nat : b = Base /\ b >= 2
        BY <1>1
      <4>2. b * v >= b /\ b * v \in Nat
        BY <3>8, <4>1
      <4>3. PICK m \in Nat : m = b * v
        BY <4>2
      <4>4. m >= b
        BY <4>2, <4>3
      <4>5. w = m + d
        BY <3>10, <4>1, <4>3
      <4>6. w \in Nat /\ w >= b /\ w >= 1
        <5>1. d \in Nat
          BY <3>9, <4>1
        <5>. QED BY <4>1, <4>4, <4>5, <5>1
      <4>. QED BY <4>1, <4>6
    <3>12. w \div Base = v /\ w % Base = d
      BY <3>10, DigitBack
    <3>13. DigitsOf(w) = Append(DigitsOf(v), Digit[d + 1])
      <4>1. ~(w < Base)
        BY <1>1, <3>11
      <4>2. DigitsOf(w) = Append(DigitsOf(w \div Base), Digit[(w % Base) + 1])
        BY <3>11, <4>1, DigitsAre
      <4>. QED BY <3>12, <4>2
    <3>14. ReadNumber(t) = w /\ DigitsOf(w) = t
      BY <2>3, <3>5, <3>8, <3>9, <3>10, <3>13
    <3>. QED BY <2>2, <3>11, <3>14
  <2>. QED BY <2>4, <2>5
<1>3. Len(s) \in Nat /\ s \in Seq(Byte)
  BY DEF Notation
<1>4. Good(s)
  <2>. HIDE DEF Good
  <2>. QED BY <1>2, <1>3
<1>5. ReadNumber(s) \in Nat
  BY ReadType DEF Notation
<1>. QED BY <1>4, <1>5

LEMMA Bounds ==
  /\ LongLongMax \in Nat /\ ULongLongMax \in Nat /\ LongLongMax + 1 <= ULongLongMax
  /\ NotANumber = ULongLongMax + 1 /\ NotANumber \notin LongLong
  /\ Base \in Nat /\ Base >= 2 /\ Digit[1] \in Byte /\ Minus \in Byte /\ ~IsDigit(Minus)
  /\ IsDigit(Digit[1]) /\ DigitsOf(0) = <<Digit[1]>>
<1>1. Base \in Nat /\ Base >= 2
  BY DigitAssumption DEF Base
<1>2. Digit[0 + 1] \in Byte /\ IsDigit(Digit[0 + 1])
  <2>1. 0 \in 0 .. Base - 1
    BY <1>1
  <2>. QED BY <2>1, ValueOfDigit
<1>3. DigitsOf(0) = <<Digit[0 + 1]>>
  BY <1>1, DigitsAre
<1>4. 0 + 1 = 1
  OBVIOUS
<1>. QED BY <1>1, <1>2, <1>3, <1>4, DigitAssumption DEF ULongLongMax, NotANumber, LongLong, IsDigit

(* A text of digits alone, and one with a sign before it. *)
LEMMA ReadUnsigned ==
  ASSUME NEW t, Notation(t)
  PROVE  string2ll(t) = IF ReadNumber(t) = NotANumber \/ ReadNumber(t) > LongLongMax
                        THEN NotANumber ELSE ReadNumber(t)
<1>1. t \in Seq(Byte) /\ t # << >> /\ IsDigit(t[1]) /\ t[1] # Digit[1] /\ Head(t) = t[1]
  BY DEF Notation
<1>2. t[1] # Minus /\ t # <<Digit[1]>>
  BY <1>1, Bounds
<1>. QED BY <1>1, <1>2 DEF string2ll

LEMMA ReadSigned ==
  ASSUME NEW d, Notation(d)
  PROVE  string2ll(<<Minus>> \o d) = IF ReadNumber(d) = NotANumber \/ ReadNumber(d) > LongLongMax + 1
                                     THEN NotANumber ELSE -ReadNumber(d)
<1>1. d \in Seq(Byte) /\ d # << >> /\ IsDigit(d[1]) /\ d[1] # Digit[1] /\ Head(d) = d[1]
  BY DEF Notation
<1>2. PICK t : t = <<Minus>> \o d
  OBVIOUS
<1>3. <<Minus>> \in Seq(Byte) /\ Len(<<Minus>>) = 1 /\ <<Minus>>[1] = Minus
  BY Bounds
<1>4. t \in Seq(Byte) /\ Len(t) = 1 + Len(d) /\ t[1] = Minus /\ Len(d) \in Nat /\ Len(d) >= 1
      /\ \A i \in 1 .. Len(d) : t[i + 1] = d[i]
  BY <1>1, <1>2, <1>3
<1>5. t # << >> /\ Head(t) = Minus /\ t # <<Digit[1]>>
  BY <1>4, Bounds
<1>6. Tail(t) = d
  <2>1. Tail(t) \in Seq(Byte) /\ Len(Tail(t)) = Len(d) /\ \A i \in 1 .. Len(d) : Tail(t)[i] = d[i]
    BY <1>4, <1>5
  <2>. QED BY <1>1, <2>1, SeqEqual
<1>7. string2ll(t) = IF ReadNumber(d) = NotANumber \/ ReadNumber(d) > LongLongMax + 1
                     THEN NotANumber ELSE -ReadNumber(d)
  BY <1>1, <1>5, <1>6 DEF string2ll
<1>. QED BY <1>2, <1>7

(* Nothing else is a number, but for 0. *)
LEMMA NotationsAlone ==
  ASSUME NEW t \in Seq(Byte), string2ll(t) # NotANumber
  PROVE  \/ t = <<Digit[1]>> /\ string2ll(t) = 0
         \/ Notation(t)
         \/ \E d : Notation(d) /\ t = <<Minus>> \o d
<1>1. CASE t = <<Digit[1]>>
  BY <1>1 DEF string2ll
<1>2. CASE t # <<Digit[1]>> /\ ~(t # << >> /\ Head(t) = Minus)
  <2>1. t # << >> /\ IsDigit(Head(t)) /\ Head(t) # Digit[1]
    BY <1>2 DEF string2ll
  <2>. QED BY <2>1 DEF Notation
<1>3. CASE t # <<Digit[1]>> /\ t # << >> /\ Head(t) = Minus
  <2>1. PICK d : d = Tail(t)
    OBVIOUS
  <2>2. d # << >> /\ IsDigit(Head(d)) /\ Head(d) # Digit[1]
    BY <1>3, <2>1 DEF string2ll
  <2>3. d \in Seq(Byte) /\ Len(t) \in Nat /\ Len(t) >= 1 /\ Len(d) = Len(t) - 1 /\ Len(d) \in Nat
        /\ (\A i \in 1 .. Len(d) : d[i] = t[i + 1]) /\ t[1] = Minus
    BY <1>3, <2>1
  <2>4. PICK u : u = <<Minus>> \o d
    OBVIOUS
  <2>5. u \in Seq(Byte) /\ Len(u) = Len(t) /\ u[1] = Minus /\ \A i \in 1 .. Len(d) : u[i + 1] = d[i]
    <3>1. <<Minus>> \in Seq(Byte) /\ Len(<<Minus>>) = 1 /\ <<Minus>>[1] = Minus
      BY Bounds
    <3>. QED BY <2>3, <2>4, <3>1
  <2>6. \A i \in 1 .. Len(t) : u[i] = t[i]
    <3>. SUFFICES ASSUME NEW i \in 1 .. Len(t) PROVE u[i] = t[i]
      OBVIOUS
    <3>1. CASE i = 1
      BY <2>3, <2>5, <3>1
    <3>2. CASE i # 1
      <4>1. i - 1 \in 1 .. Len(d) /\ (i - 1) + 1 = i
        BY <2>3, <3>2
      <4>2. u[(i - 1) + 1] = d[i - 1] /\ d[i - 1] = t[(i - 1) + 1]
        BY <2>3, <2>5, <4>1
      <4>. QED BY <4>1, <4>2
    <3>. QED BY <3>1, <3>2
  <2>7. u = t
    BY <2>5, <2>6, SeqEqual
  <2>8. Notation(d)
    BY <2>2, <2>3 DEF Notation
  <2>. QED BY <2>4, <2>7, <2>8
<1>. QED BY <1>1, <1>2, <1>3

LEMMA NumberIsReadBack ==
  ASSUME NEW n \in LongLong
  PROVE  string2ll(sdsll2str(n)) = n
<1>1. n \in Int /\ n <= LongLongMax /\ -n <= LongLongMax + 1
  BY Bounds DEF LongLong
<1>2. CASE n = 0
  BY <1>2, Bounds DEF sdsll2str, string2ll
<1>3. CASE n > 0
  <2>1. Notation(DigitsOf(n)) /\ ReadNumber(DigitsOf(n)) = n
    BY <1>1, <1>3, Bounds, WrittenIsRead
  <2>2. n # NotANumber
    BY Bounds
  <2>3. sdsll2str(n) = DigitsOf(n)
    BY <1>1, <1>3 DEF sdsll2str
  <2>. QED BY <1>1, <2>1, <2>2, <2>3, ReadUnsigned, Bounds
<1>4. CASE n < 0
  <2>1. PICK m \in Nat : m = -n /\ m >= 1 /\ m <= LongLongMax + 1
    BY <1>1, <1>4
  <2>2. m <= ULongLongMax /\ m # NotANumber
    BY <2>1, Bounds
  <2>3. Notation(DigitsOf(m)) /\ ReadNumber(DigitsOf(m)) = m
    BY <2>1, <2>2, WrittenIsRead
  <2>4. sdsll2str(n) = <<Minus>> \o DigitsOf(m)
    BY <1>1, <1>4, <2>1 DEF sdsll2str
  <2>5. string2ll(<<Minus>> \o DigitsOf(m)) = -m
    <3>1. ~(m > LongLongMax + 1)
      BY <2>1, Bounds
    <3>. QED BY <2>2, <2>3, <3>1, ReadSigned
  <2>. QED BY <1>1, <2>1, <2>4, <2>5
<1>. QED BY <1>1, <1>2, <1>3, <1>4

LEMMA TextIsReadBack ==
  ASSUME NEW t \in Seq(Byte), string2ll(t) # NotANumber
  PROVE  string2ll(t) \in LongLong /\ sdsll2str(string2ll(t)) = t
<1>1. CASE t = <<Digit[1]>> /\ string2ll(t) = 0
  BY <1>1, Bounds DEF sdsll2str, LongLong
<1>2. CASE Notation(t)
  <2>1. PICK v \in Nat : v = ReadNumber(t)
    BY <1>2, ReadType DEF Notation
  <2>2. string2ll(t) = v /\ v <= LongLongMax
    BY <1>2, <2>1, ReadUnsigned, Bounds
  <2>3. v >= 1 /\ DigitsOf(v) = t
    <3>1. ReadNumber(t) <= ULongLongMax
      BY <2>1, <2>2, Bounds
    <3>. QED BY <1>2, <2>1, <3>1, ReadIsWritten
  <2>. QED BY <2>2, <2>3, Bounds DEF sdsll2str, LongLong
<1>3. CASE \E d : Notation(d) /\ t = <<Minus>> \o d
  <2>1. PICK d : Notation(d) /\ t = <<Minus>> \o d
    BY <1>3
  <2>2. PICK v \in Nat : v = ReadNumber(d)
    BY <2>1, ReadType DEF Notation
  <2>3. string2ll(t) = -v /\ v <= LongLongMax + 1
    <3>1. string2ll(t) = IF ReadNumber(d) = NotANumber \/ ReadNumber(d) > LongLongMax + 1
                         THEN NotANumber ELSE -ReadNumber(d)
      BY <2>1, ReadSigned
    <3>. QED BY <2>2, <3>1, Bounds
  <2>4. v >= 1 /\ DigitsOf(v) = d
    <3>1. ReadNumber(d) <= ULongLongMax
      BY <2>2, <2>3, Bounds
    <3>. QED BY <2>1, <2>2, <3>1, ReadIsWritten
  <2>5. PICK n \in Int : n = -v /\ n < 0 /\ -n = v
    BY <2>4
  <2>6. sdsll2str(n) = <<Minus>> \o DigitsOf(v)
    BY <2>5 DEF sdsll2str
  <2>7. n \in LongLong
    BY <2>3, <2>5, Bounds DEF LongLong
  <2>. QED BY <2>1, <2>3, <2>4, <2>5, <2>6, <2>7
<1>. QED BY <1>1, <1>2, <1>3, NotationsAlone

LEMMA NumbersAre == TypeOK => NumbersReadBack
<1>1. TypeOK => str.text \in Seq(Byte)
  BY DEF TypeOK, IsSds
<1>. QED BY <1>1, NumberIsReadBack, TextIsReadBack DEF NumbersReadBack

-----------------------------------------------------------------------------
(* The order of texts. *)

(* The order of a byte, and texts that are the same up to a place. *)
Place(b) == CHOOSE i \in DOMAIN ByteOrder : ByteOrder[i] = b
SameTo(t, u, n) == \A i \in 1 .. n : t[i] = u[i]

LEMMA PlaceType ==
  ASSUME NEW b \in Byte, NEW c \in Byte
  PROVE  Place(b) \in Int /\ (Place(b) = Place(c) => b = c)
<1>1. \A x \in Byte : Place(x) \in DOMAIN ByteOrder /\ ByteOrder[Place(x)] = x
  BY OrderAssumption DEF Place
<1>. QED BY <1>1, OrderAssumption

(* The first byte in which two texts differ.                               *)
DifferAt(t, u, n, i) == i \in 1 .. n /\ SameTo(t, u, i - 1) /\ t[i] # u[i]

LEMMA CompareIs ==
  ASSUME NEW t \in Seq(Byte), NEW u \in Seq(Byte), NEW n \in Nat, n <= Len(t), n <= Len(u)
  PROVE  \/ SameTo(t, u, n) /\ memcmp(t, u, n) = 0
         \/ \E i : DifferAt(t, u, n, i) /\ memcmp(t, u, n) = Place(t[i]) - Place(u[i])
<1> DEFINE differ == {i \in 1 .. n : t[i] # u[i]}
<1>1. CASE differ = {}
  <2>1. memcmp(t, u, n) = 0
    BY <1>1 DEF memcmp
  <2>. QED BY <1>1, <2>1 DEF SameTo
<1>2. CASE differ # {}
  <2>1. PICK i : i = CHOOSE j \in differ : \A k \in differ : j <= k
    OBVIOUS
  <2>2. i \in differ /\ \A k \in differ : i <= k
    <3>1. differ \in SUBSET Nat
      OBVIOUS
    <3>2. \E j \in differ : \A k \in differ : j <= k
      <4>. HIDE DEF differ
      <4>. QED BY <1>2, <3>1, LeastNat
    <3>. HIDE DEF differ
    <3>. QED BY <2>1, <3>2
  <2>3. DifferAt(t, u, n, i)
    BY <2>2 DEF DifferAt, SameTo
  <2>4. memcmp(t, u, n) = Place(t[i]) - Place(u[i])
    BY <1>2, <2>1 DEF memcmp, Place
  <2>. QED BY <2>3, <2>4
<1>. QED BY <1>1, <1>2

(* t is behind u: it is greater in the first byte that differs, or goes on *)
(* behind all of u.                                                        *)
Behind(t, u) ==
  \/ \E i \in 1 .. Len(t) : i <= Len(u) /\ SameTo(t, u, i - 1) /\ Place(t[i]) > Place(u[i])
  \/ Len(t) > Len(u) /\ SameTo(t, u, Len(u))

LEMMA ShorterIs ==
  ASSUME NEW t \in Seq(Byte), NEW u \in Seq(Byte)
  PROVE  /\ Shorter(t, u) \in Nat /\ Shorter(t, u) <= Len(t) /\ Shorter(t, u) <= Len(u)
         /\ Shorter(t, u) = Len(t) \/ Shorter(t, u) = Len(u)
BY DEF Shorter

(* Two texts are the same, or one of them is behind the other. *)
LEMMA MatchIs ==
  ASSUME NEW t \in Seq(Byte), NEW u \in Seq(Byte)
  PROVE  \/ match(t, u) = 0 /\ t = u /\ ~Behind(t, u) /\ ~Behind(u, t)
         \/ match(t, u) = 1 /\ t # u /\ Behind(t, u) /\ ~Behind(u, t)
         \/ match(t, u) = -1 /\ t # u /\ Behind(u, t) /\ ~Behind(t, u)
<1>1. PICK n \in Nat : n = Shorter(t, u) /\ n <= Len(t) /\ n <= Len(u) /\ (n = Len(t) \/ n = Len(u))
  BY ShorterIs
<1>2. PICK k \in Nat, m \in Nat : k = Len(t) /\ m = Len(u)
  OBVIOUS
<1>3. PICK c : c = memcmp(t, u, n)
  OBVIOUS
<1>4. match(t, u) = IF (IF c = 0 THEN k - m ELSE c) = 0 THEN 0
                    ELSE IF c # 0 THEN (IF c > 0 THEN 1 ELSE -1) ELSE IF k > m THEN 1 ELSE -1
  BY <1>1, <1>2, <1>3 DEF match, sdscmp
<1>5. CASE SameTo(t, u, n) /\ c = 0
  <2>1. SameTo(u, t, n)
    BY <1>5 DEF SameTo
  <2>2. ASSUME NEW i \in 1 .. n PROVE Place(t[i]) = Place(u[i])
    BY <1>5 DEF SameTo
  <2>3. /\ Behind(t, u) <=> k > m
        /\ Behind(u, t) <=> m > k
    <3>1. ASSUME NEW i \in 1 .. Len(t), i <= Len(u) PROVE Place(t[i]) = Place(u[i]) /\ Place(t[i]) \in Int
      <4>1. i \in 1 .. n
        BY <1>1, <3>1
      <4>2. t[i] \in Byte
        OBVIOUS
      <4>. QED BY <2>2, <4>1, <4>2, PlaceType
    <3>2. ASSUME NEW i \in 1 .. Len(u), i <= Len(t) PROVE Place(t[i]) = Place(u[i]) /\ Place(u[i]) \in Int
      <4>1. i \in 1 .. n
        BY <1>1, <3>2
      <4>2. u[i] \in Byte
        OBVIOUS
      <4>. QED BY <2>2, <4>1, <4>2, PlaceType
    <3>3. k > m => n = m
      BY <1>1, <1>2
    <3>4. m > k => n = k
      BY <1>1, <1>2
    <3>5. ~ \E i \in 1 .. Len(t) : i <= Len(u) /\ SameTo(t, u, i - 1) /\ Place(t[i]) > Place(u[i])
      BY <3>1
    <3>6. ~ \E i \in 1 .. Len(u) : i <= Len(t) /\ SameTo(u, t, i - 1) /\ Place(u[i]) > Place(t[i])
      BY <3>2
    <3>. QED BY <1>2, <1>5, <2>1, <3>3, <3>4, <3>5, <3>6 DEF Behind
  <2>4. CASE k = m
    <3>1. t = u
      <4>1. \A i \in 1 .. Len(t) : t[i] = u[i]
        BY <1>1, <1>2, <1>5, <2>4 DEF SameTo
      <4>. QED BY <1>2, <2>4, <4>1, SeqEqual
    <3>. QED BY <1>2, <1>4, <1>5, <2>3, <2>4, <3>1
  <2>5. CASE k # m
    BY <1>2, <1>4, <1>5, <2>3, <2>5
  <2>. QED BY <2>4, <2>5
<1>6. CASE \E i : DifferAt(t, u, n, i) /\ c = Place(t[i]) - Place(u[i])
  <2>1. PICK i \in 1 .. n : SameTo(t, u, i - 1) /\ t[i] # u[i] /\ c = Place(t[i]) - Place(u[i])
    BY <1>6 DEF DifferAt
  <2>2. i \in 1 .. Len(t) /\ i \in 1 .. Len(u) /\ t[i] \in Byte /\ u[i] \in Byte /\ i \in Nat
    BY <1>1
  <2>3. PICK x \in Int, y \in Int : x = Place(t[i]) /\ y = Place(u[i]) /\ x # y
    BY <2>1, <2>2, PlaceType
  <2>4. SameTo(u, t, i - 1) /\ t # u
    BY <2>1 DEF SameTo
  <2>5. Behind(t, u) <=> x > y
    <3>1. x > y => Behind(t, u)
      BY <2>1, <2>2, <2>3 DEF Behind
    <3>2. ASSUME Behind(t, u) PROVE x > y
      <4>1. CASE \E j \in 1 .. Len(t) : j <= Len(u) /\ SameTo(t, u, j - 1) /\ Place(t[j]) > Place(u[j])
        <5>1. PICK j \in 1 .. Len(t) : j <= Len(u) /\ SameTo(t, u, j - 1) /\ Place(t[j]) > Place(u[j])
          BY <4>1
        <5>2. ~(j > i)
          BY <2>1, <2>2, <5>1 DEF SameTo
        <5>3. ~(j < i)
          <6>. SUFFICES ASSUME j < i PROVE FALSE
            OBVIOUS
          <6>1. t[j] = u[j] /\ t[j] \in Byte
            BY <2>1, <2>2 DEF SameTo
          <6>2. Place(t[j]) \in Int
            BY <6>1, PlaceType
          <6>. QED BY <5>1, <6>1, <6>2
        <5>4. j = i
          BY <2>2, <5>1, <5>2, <5>3
        <5>. QED BY <2>3, <5>1, <5>4
      <4>2. CASE SameTo(t, u, Len(u))
        BY <2>1, <2>2, <4>2 DEF SameTo
      <4>. QED BY <3>2, <4>1, <4>2 DEF Behind
    <3>. QED BY <3>1, <3>2
  <2>6. Behind(u, t) <=> y > x
    <3>1. y > x => Behind(u, t)
      BY <2>2, <2>3, <2>4 DEF Behind
    <3>2. ASSUME Behind(u, t) PROVE y > x
      <4>1. CASE \E j \in 1 .. Len(u) : j <= Len(t) /\ SameTo(u, t, j - 1) /\ Place(u[j]) > Place(t[j])
        <5>1. PICK j \in 1 .. Len(u) : j <= Len(t) /\ SameTo(u, t, j - 1) /\ Place(u[j]) > Place(t[j])
          BY <4>1
        <5>2. ~(j > i)
          BY <2>1, <2>2, <5>1 DEF SameTo
        <5>3. ~(j < i)
          <6>. SUFFICES ASSUME j < i PROVE FALSE
            OBVIOUS
          <6>1. t[j] = u[j] /\ u[j] \in Byte
            BY <2>1, <2>2 DEF SameTo
          <6>2. Place(u[j]) \in Int
            BY <6>1, PlaceType
          <6>. QED BY <5>1, <6>1, <6>2
        <5>4. j = i
          BY <2>2, <5>1, <5>2, <5>3
        <5>. QED BY <2>3, <5>1, <5>4
      <4>2. CASE SameTo(u, t, Len(t))
        BY <2>1, <2>2, <4>2 DEF SameTo
      <4>. QED BY <3>2, <4>1, <4>2 DEF Behind
    <3>. QED BY <3>1, <3>2
  <2>. QED BY <1>4, <2>1, <2>3, <2>4, <2>5, <2>6
<1>7. \/ SameTo(t, u, n) /\ c = 0
      \/ \E i : DifferAt(t, u, n, i) /\ c = Place(t[i]) - Place(u[i])
  <2>1. \/ SameTo(t, u, n) /\ memcmp(t, u, n) = 0
        \/ \E i : DifferAt(t, u, n, i) /\ memcmp(t, u, n) = Place(t[i]) - Place(u[i])
    BY <1>1, CompareIs
  <2>. QED BY <1>3, <2>1
<1>. QED BY <1>5, <1>6, <1>7

LEMMA BehindTransitive ==
  ASSUME NEW t \in Seq(Byte), NEW u \in Seq(Byte), NEW w \in Seq(Byte), Behind(t, u), Behind(u, w)
  PROVE  Behind(t, w)
<1>1. PICK k \in Nat, m \in Nat, n \in Nat : k = Len(t) /\ m = Len(u) /\ n = Len(w)
  OBVIOUS
<1>2. /\ \A i \in 1 .. k : Place(t[i]) \in Int
      /\ \A i \in 1 .. m : Place(u[i]) \in Int
      /\ \A i \in 1 .. n : Place(w[i]) \in Int
  BY <1>1, PlaceType
<1>3. CASE /\ \E i \in 1 .. k : i <= m /\ SameTo(t, u, i - 1) /\ Place(t[i]) > Place(u[i])
           /\ \E i \in 1 .. m : i <= n /\ SameTo(u, w, i - 1) /\ Place(u[i]) > Place(w[i])
  <2>1. PICK i \in 1 .. k : i <= m /\ SameTo(t, u, i - 1) /\ Place(t[i]) > Place(u[i])
    BY <1>3
  <2>2. PICK j \in 1 .. m : j <= n /\ SameTo(u, w, j - 1) /\ Place(u[j]) > Place(w[j])
    BY <1>3
  <2>3. CASE i < j
    <3>1. SameTo(t, w, i - 1) /\ u[i] = w[i]
      BY <1>1, <2>1, <2>2, <2>3 DEF SameTo
    <3>2. i <= n /\ Place(t[i]) > Place(w[i])
      BY <1>1, <2>1, <2>2, <2>3, <3>1
    <3>. QED BY <1>1, <2>1, <3>1, <3>2 DEF Behind
  <2>4. CASE j < i
    <3>1. SameTo(t, w, j - 1) /\ t[j] = u[j]
      BY <1>1, <2>1, <2>2, <2>4 DEF SameTo
    <3>2. j \in 1 .. k /\ Place(t[j]) > Place(w[j])
      BY <1>1, <2>1, <2>2, <2>4, <3>1
    <3>. QED BY <1>1, <2>2, <3>1, <3>2 DEF Behind
  <2>5. CASE i = j
    <3>1. SameTo(t, w, i - 1)
      BY <1>1, <2>1, <2>2, <2>5 DEF SameTo
    <3>2. i <= n /\ Place(t[i]) > Place(w[i])
      <4>1. PICK x \in Int, y \in Int, z \in Int : x = Place(t[i]) /\ y = Place(u[i]) /\ z = Place(w[i])
        BY <1>1, <1>2, <2>1, <2>2, <2>5
      <4>. QED BY <2>1, <2>2, <2>5, <4>1
    <3>. QED BY <1>1, <2>1, <3>1, <3>2 DEF Behind
  <2>. QED BY <1>1, <2>1, <2>2, <2>3, <2>4, <2>5
<1>4. CASE /\ \E i \in 1 .. k : i <= m /\ SameTo(t, u, i - 1) /\ Place(t[i]) > Place(u[i])
           /\ m > n /\ SameTo(u, w, n)
  <2>1. PICK i \in 1 .. k : i <= m /\ SameTo(t, u, i - 1) /\ Place(t[i]) > Place(u[i])
    BY <1>4
  <2>2. CASE i <= n
    <3>1. SameTo(t, w, i - 1) /\ u[i] = w[i]
      BY <1>1, <1>4, <2>1, <2>2 DEF SameTo
    <3>2. Place(t[i]) > Place(w[i])
      BY <2>1, <3>1
    <3>. QED BY <1>1, <2>1, <2>2, <3>1, <3>2 DEF Behind
  <2>3. CASE ~(i <= n)
    <3>1. SameTo(t, w, n) /\ k > n
      BY <1>1, <1>4, <2>1, <2>3 DEF SameTo
    <3>. QED BY <1>1, <3>1 DEF Behind
  <2>. QED BY <2>2, <2>3
<1>5. CASE /\ k > m /\ SameTo(t, u, m)
           /\ \E i \in 1 .. m : i <= n /\ SameTo(u, w, i - 1) /\ Place(u[i]) > Place(w[i])
  <2>1. PICK i \in 1 .. m : i <= n /\ SameTo(u, w, i - 1) /\ Place(u[i]) > Place(w[i])
    BY <1>5
  <2>2. SameTo(t, w, i - 1) /\ t[i] = u[i]
    BY <1>1, <1>5, <2>1 DEF SameTo
  <2>3. i \in 1 .. k /\ Place(t[i]) > Place(w[i])
    BY <1>1, <1>5, <2>1, <2>2
  <2>. QED BY <1>1, <2>1, <2>2, <2>3 DEF Behind
<1>6. CASE k > m /\ SameTo(t, u, m) /\ m > n /\ SameTo(u, w, n)
  <2>1. SameTo(t, w, n) /\ k > n
    BY <1>1, <1>6 DEF SameTo
  <2>. QED BY <1>1, <2>1 DEF Behind
<1>. QED BY <1>1, <1>3, <1>4, <1>5, <1>6 DEF Behind

LEMMA MatchOrdersTexts ==
  ASSUME NEW t \in Seq(Byte), NEW u \in Seq(Byte)
  PROVE  /\ match(t, u) = -match(u, t)
         /\ match(t, u) = 0 <=> t = u
         /\ match(t, u) > 0 <=> Behind(t, u)
<1>1. PICK a, b : a = match(t, u) /\ b = match(u, t)
  OBVIOUS
<1>2. \/ a = 0 /\ t = u /\ ~Behind(t, u) /\ ~Behind(u, t)
      \/ a = 1 /\ t # u /\ Behind(t, u) /\ ~Behind(u, t)
      \/ a = -1 /\ t # u /\ Behind(u, t) /\ ~Behind(t, u)
  <2>1. \/ match(t, u) = 0 /\ t = u /\ ~Behind(t, u) /\ ~Behind(u, t)
        \/ match(t, u) = 1 /\ t # u /\ Behind(t, u) /\ ~Behind(u, t)
        \/ match(t, u) = -1 /\ t # u /\ Behind(u, t) /\ ~Behind(t, u)
    BY MatchIs
  <2>. QED BY <1>1, <2>1
<1>3. \/ b = 0 /\ u = t /\ ~Behind(u, t) /\ ~Behind(t, u)
      \/ b = 1 /\ u # t /\ Behind(u, t) /\ ~Behind(t, u)
      \/ b = -1 /\ u # t /\ Behind(t, u) /\ ~Behind(u, t)
  <2>1. \/ match(u, t) = 0 /\ u = t /\ ~Behind(u, t) /\ ~Behind(t, u)
        \/ match(u, t) = 1 /\ u # t /\ Behind(u, t) /\ ~Behind(t, u)
        \/ match(u, t) = -1 /\ u # t /\ Behind(t, u) /\ ~Behind(u, t)
    BY MatchIs
  <2>. QED BY <1>1, <2>1
<1>4. a = -b /\ (a = 0 <=> t = u) /\ (a > 0 <=> Behind(t, u))
  BY <1>2, <1>3
<1>. QED BY <1>1, <1>4

LEMMA OrderIs == TypeOK => MatchOrders
<1>. SUFFICES ASSUME TypeOK, NEW t \in Text
     PROVE  /\ match(str.text, t) = -match(t, str.text)
            /\ match(str.text, t) = 0 <=> str.text = t
            /\ \A u \in Text : match(str.text, t) > 0 /\ match(t, u) > 0 => match(str.text, u) > 0
  BY DEF MatchOrders
<1>1. str.text \in Seq(Byte) /\ t \in Seq(Byte) /\ Text \subseteq Seq(Byte)
  BY SdsAssumption DEF TypeOK, IsSds
<1>2. ASSUME NEW u \in Text, match(str.text, t) > 0, match(t, u) > 0 PROVE match(str.text, u) > 0
  <2>1. u \in Seq(Byte)
    BY <1>1
  <2>2. Behind(str.text, t) /\ Behind(t, u)
    BY <1>1, <1>2, <2>1, MatchOrdersTexts
  <2>3. Behind(str.text, u)
    BY <1>1, <2>1, <2>2, BehindTransitive
  <2>. QED BY <1>1, <2>1, <2>3, MatchOrdersTexts
<1>. QED BY <1>1, <1>2, MatchOrdersTexts

-----------------------------------------------------------------------------
(* Trims, ranges and made room. *)

(* A part of a text, byte by byte. *)
LEMMA PartIs ==
  ASSUME NEW t \in Seq(Byte), NEW a \in Nat, NEW b \in Int, b <= Len(t)
  PROVE  LET r == SubSeq(t, a + 1, b)
         IN  /\ r \in Seq(Byte) /\ Len(r) = IF a <= b THEN b - a ELSE 0
             /\ \A i \in 1 .. Len(r) : r[i] = t[a + i]
<1> DEFINE r == SubSeq(t, a + 1, b)
<1>1. Len(t) \in Nat /\ a + 1 \in Int
  OBVIOUS
<1>2. \A i \in a + 1 .. b : t[i] \in Byte
  BY <1>1
<1>3. r \in Seq(Byte) /\ Len(r) = IF a + 1 <= b THEN b - (a + 1) + 1 ELSE 0
  BY <1>1, <1>2, SubSeqProperties
<1>4. \A i \in 1 .. b - (a + 1) + 1 : r[i] = t[a + 1 + i - 1]
  BY <1>1, <1>2, SubSeqProperties
<1>. HIDE DEF r
<1>5. Len(r) = IF a <= b THEN b - a ELSE 0
  BY <1>3
<1>6. ASSUME NEW i \in 1 .. Len(r) PROVE r[i] = t[a + i]
  <2>1. i \in 1 .. b - (a + 1) + 1 /\ a + 1 + i - 1 = a + i
    BY <1>5
  <2>. QED BY <1>4, <2>1
<1>. QED BY <1>3, <1>5, <1>6 DEF r

LEMMA TrimIs ==
  ASSUME NEW s, IsSds(s), NEW strip, NEW sp \in 0 .. Len(s.text), NEW ep \in -1 .. Len(s.text) - 1,
         LoopsStop(s.text, strip, sp, ep)
  PROVE  IsTrimOf(s.text, Trimmed(s, sp, ep).text, strip)
<1>1. PICK t \in Seq(Byte) : t = s.text
  BY Fields
<1>2. PICK n \in Nat : n = Len(t)
  OBVIOUS
<1>3. sp \in Nat /\ sp <= n /\ ep \in Int /\ ep >= -1 /\ ep <= n - 1
  BY <1>1, <1>2
<1>4. /\ \A i \in 1 .. sp : t[i] \in strip
      /\ sp < n => t[sp + 1] \notin strip
      /\ \A i \in ep + 2 .. n : t[i] \in strip
      /\ ep > 0 => t[ep + 1] \notin strip
  BY <1>1, <1>2 DEF LoopsStop
<1>5. PICK r : r = SubSeq(t, sp + 1, ep + 1)
  OBVIOUS
<1>6. Trimmed(s, sp, ep).text = r
  BY <1>1, <1>5 DEF Trimmed, Sdshdr
<1>7. r \in Seq(Byte) /\ Len(r) = (IF sp <= ep + 1 THEN ep + 1 - sp ELSE 0)
      /\ \A i \in 1 .. Len(r) : r[i] = t[sp + i]
  <2>1. PICK e \in Int : e = ep + 1 /\ e <= Len(t)
    BY <1>2, <1>3
  <2>2. /\ SubSeq(t, sp + 1, e) \in Seq(Byte)
        /\ Len(SubSeq(t, sp + 1, e)) = (IF sp <= e THEN e - sp ELSE 0)
        /\ \A i \in 1 .. Len(SubSeq(t, sp + 1, e)) : SubSeq(t, sp + 1, e)[i] = t[sp + i]
    BY <1>3, <2>1, PartIs
  <2>. QED BY <1>5, <2>1, <2>2
<1>8. CASE sp = n
  <2>1. ep <= 0
    <3>. SUFFICES ASSUME ep > 0 PROVE FALSE
      BY <1>3
    <3>. QED BY <1>3, <1>4, <1>8
  <2>2. Len(r) = 0 /\ r = << >>
    BY <1>3, <1>7, <1>8, <2>1
  <2>3. SubSeq(t, n + 1, n) = << >>
    <3>1. Len(SubSeq(t, n + 1, n)) = 0 /\ SubSeq(t, n + 1, n) \in Seq(Byte)
      BY <1>2, PartIs
    <3>. QED BY <3>1
  <2>4. n + 0 = n /\ n + 0 + 1 = n + 1 /\ n + 1 .. n = {}
    OBVIOUS
  <2>5. /\ sp \in 0 .. Len(t)
        /\ sp + Len(r) <= Len(t)
        /\ r = SubSeq(t, sp + 1, sp + Len(r))
        /\ \A j \in 1 .. sp : t[j] \in strip
        /\ \A j \in sp + Len(r) + 1 .. Len(t) : t[j] \in strip
        /\ r = << >>
    BY <1>2, <1>4, <1>8, <2>2, <2>3, <2>4
  <2>. QED BY <1>1, <1>6, <2>5 DEF IsTrimOf
<1>9. CASE sp < n
  <2>1. sp <= ep
    <3>. SUFFICES ASSUME sp > ep PROVE FALSE
      BY <1>3
    <3>. QED BY <1>3, <1>4, <1>9
  <2>2. Len(r) = ep + 1 - sp /\ Len(r) >= 1 /\ sp + Len(r) = ep + 1 /\ sp + Len(r) + 1 = ep + 2
    BY <1>3, <1>7, <2>1
  <2>3. r[1] = t[sp + 1] /\ r[Len(r)] = t[ep + 1]
    BY <1>3, <1>7, <2>2
  <2>4. t[ep + 1] \notin strip
    BY <1>3, <1>4, <1>9, <2>1
  <2>5. /\ sp \in 0 .. Len(t)
        /\ sp + Len(r) <= Len(t)
        /\ r = SubSeq(t, sp + 1, sp + Len(r))
        /\ \A j \in 1 .. sp : t[j] \in strip
        /\ \A j \in sp + Len(r) + 1 .. Len(t) : t[j] \in strip
        /\ r[1] \notin strip /\ Last(r) \notin strip
    BY <1>2, <1>3, <1>4, <1>5, <1>9, <2>2, <2>3, <2>4 DEF Last
  <2>. QED BY <1>1, <1>6, <2>5 DEF IsTrimOf
<1>. QED BY <1>3, <1>8, <1>9

LEMMA SliceIs ==
  ASSUME NEW s, IsSds(s), NEW start \in Int, NEW end \in Int,
         InText(s.text, start), InText(s.text, end) \/ end > Len(s.text)
  PROVE  IsRange(s.text, Slice(s, start, end), start, end)
<1>1. PICK t \in Seq(Byte) : t = s.text
  BY Fields
<1>2. PICK n \in Nat : n = Len(t)
  OBVIOUS
<1>3. PICK from, to : from = Clamped(t, start) /\ to = Clamped(t, end)
  OBVIOUS
<1>4. start \in -n .. n - 1 /\ (end \in -n .. n - 1 \/ end > n)
  BY <1>1, <1>2 DEF InText
<1>5. from \in Nat /\ from < n /\ At(t, start) = from + 1
  BY <1>2, <1>3, <1>4 DEF Clamped, At
<1>6. to \in Nat /\ to # n /\ At(t, end) = to + 1
  BY <1>2, <1>3, <1>4 DEF Clamped, At
<1>7. PICK b \in Nat : b = (IF to > n THEN n ELSE to + 1) /\ b <= n
  BY <1>6
<1>8. PICK places : places = {p \in DOMAIN t : At(t, start) <= p /\ p <= At(t, end)}
  OBVIOUS
<1>9. places = from + 1 .. b
  <2>1. places = {p \in 1 .. n : from + 1 <= p /\ p <= to + 1}
    BY <1>2, <1>5, <1>6, <1>8
  <2>. QED BY <1>5, <1>6, <1>7, <2>1
<1>10. Cardinality(places) = IF from <= b THEN b - from ELSE 0
  <2>1. Cardinality(from + 1 .. b) = IF from + 1 > b THEN 0 ELSE b - (from + 1) + 1
    <3>1. from + 1 \in Int /\ b \in Int
      BY <1>5
    <3>. QED BY <3>1, FS_Interval
  <2>. QED BY <1>5, <1>7, <1>9, <2>1
<1>11. PICK r : r = Slice(s, start, end)
  OBVIOUS
<1>12. Len(r) = (IF from <= b THEN b - from ELSE 0) /\ \A i \in DOMAIN r : r[i] = t[from + i]
  <2>1. CASE from > to
    <3>1. r = << >>
      BY <1>1, <1>3, <1>11, <2>1 DEF Slice
    <3>2. ~(from < b)
      BY <1>5, <1>6, <1>7, <2>1
    <3>3. Len(r) = 0 /\ DOMAIN r = {}
      BY <3>1
    <3>. QED BY <1>5, <1>7, <3>2, <3>3
  <2>2. CASE ~(from > to)
    <3>1. PICK a : a = Append(t, s.next)
      OBVIOUS
    <3>2. a \in Seq(Byte) /\ Len(a) = n + 1 /\ \A i \in 1 .. n : a[i] = t[i]
      BY <1>1, <1>2, <3>1, Fields, AppendProperties
    <3>3. r = SubSeq(a, from + 1, b)
      <4>1. Slice(s, start, end) =
              IF from > to \/ from >= Len(t) THEN << >>
              ELSE SubSeq(Append(t, s.next), from + 1, IF to > Len(t) THEN Len(t) ELSE to + 1)
        BY <1>1, <1>3, Zenon DEF Slice
      <4>2. ~(from > to \/ from >= n)
        BY <1>2, <1>5, <2>2
      <4>. QED BY <1>2, <1>7, <1>11, <3>1, <4>1, <4>2
    <3>4. /\ r \in Seq(Byte) /\ Len(r) = (IF from <= b THEN b - from ELSE 0)
          /\ \A i \in 1 .. Len(r) : r[i] = a[from + i]
      <4>1. b <= Len(a) /\ b \in Int
        BY <1>7, <3>2
      <4>. QED BY <1>5, <3>2, <3>3, <4>1, PartIs
    <3>5. ASSUME NEW i \in DOMAIN r PROVE r[i] = t[from + i]
      <4>1. i \in 1 .. Len(r)
        BY <3>4
      <4>2. from + i \in 1 .. n
        BY <1>5, <1>7, <3>4, <4>1
      <4>. QED BY <3>2, <3>4, <4>1, <4>2
    <3>. QED BY <3>4, <3>5
  <2>. QED BY <2>1, <2>2
<1>13. Len(r) = Cardinality(places)
  BY <1>10, <1>12
<1>14. \A i \in DOMAIN r : r[i] = t[At(t, start) + i - 1]
  <2>1. ASSUME NEW i \in DOMAIN r PROVE r[i] = t[At(t, start) + i - 1]
    <3>1. i \in Int
      <4>1. r \in Seq(Byte)
        BY <1>11, SliceFits
      <4>. QED BY <4>1
    <3>2. At(t, start) + i - 1 = from + i
      BY <1>5, <3>1
    <3>. QED BY <1>12, <3>2
  <2>. QED BY <2>1
<1>. QED BY <1>1, <1>8, <1>11, <1>13, <1>14 DEF IsRange

LEMMA RoomIsFree ==
  ASSUME NEW s, IsSds(s), NEW n \in Nat, s.free >= 0
  PROVE  MakeRoomFor(s, n).free >= n
<1>1. CASE s.free > n
  BY <1>1, Fields DEF MakeRoomFor
<1>2. CASE ~(s.free > n)
  <2>1. PICK g \in Nat : g = Grown(s, n) /\ Len(s.text) + n <= g
    BY GrownEnough
  <2>2. MakeRoomFor(s, n).free = g - Len(s.text)
    BY <1>2, <2>1, Fields DEF MakeRoomFor, Sdshdr
  <2>. QED BY <2>1, <2>2, Fields
<1>. QED BY <1>1, <1>2

(* Without a terminator in the text only bytes of cset are stripped.       *)
LEMMA TrimHasNone ==
  ASSUME NEW t \in Seq(Byte), NEW r \in Seq(Byte), NEW b, NoNul(t), IsTrimOf(t, r, {b, Nul})
  PROVE  IsTrimOf(t, r, {b})
<1>1. PICK len \in Nat : len = Len(t) /\ DOMAIN t = 1 .. len
  BY LenProperties
<1>2. \A j \in 1 .. len : t[j] # Nul
  BY <1>1 DEF NoNul
<1>3. PICK i \in 0 .. Len(t) :
        /\ i + Len(r) <= Len(t)
        /\ r = SubSeq(t, i + 1, i + Len(r))
        /\ \A j \in 1 .. i : t[j] \in {b, Nul}
        /\ \A j \in i + Len(r) + 1 .. Len(t) : t[j] \in {b, Nul}
        /\ r # << >> => r[1] \notin {b, Nul} /\ Last(r) \notin {b, Nul}
  BY DEF IsTrimOf
<1>4. Len(r) \in Nat
  BY LenProperties
<1>5. \A j \in 1 .. i : t[j] \in {b}
  BY <1>1, <1>2, <1>3
<1>6. \A j \in i + Len(r) + 1 .. Len(t) : t[j] \in {b}
  BY <1>1, <1>2, <1>3, <1>4
<1>. QED BY <1>3, <1>5, <1>6 DEF IsTrimOf

LEMMA PartsAre == TypeOK => PartsAsPromised
<1>. SUFFICES ASSUME TypeOK PROVE PartsAsPromised
  OBVIOUS
<1>1. IsSds(str)
  BY DEF TypeOK
<1>2. ASSUME NEW b \in Byte, NEW sp \in 0 .. Len(str.text), NEW ep \in -1 .. Len(str.text) - 1,
             NoNul(str.text), LoopsStop(str.text, {b, Nul}, sp, ep)
      PROVE  IsTrimOf(str.text, Trimmed(str, sp, ep).text, {b})
  <2>1. IsTrimOf(str.text, Trimmed(str, sp, ep).text, {b, Nul})
    BY <1>1, <1>2, TrimIs
  <2>2. Trimmed(str, sp, ep).text = SubSeq(str.text, sp + 1, ep + 1)
    BY DEF Trimmed, Sdshdr
  <2>3. SubSeq(str.text, sp + 1, ep + 1) \in Seq(Byte)
    BY <1>1, <1>2 DEF IsSds
  <2>4. str.text \in Seq(Byte)
    BY <1>1 DEF IsSds
  <2>. QED BY <1>2, <2>1, <2>2, <2>3, <2>4, TrimHasNone
<1>3. ASSUME NEW start \in Position, NEW end \in Position,
             InText(str.text, start), InText(str.text, end) \/ end > Len(str.text)
      PROVE  IsRange(str.text, Slice(str, start, end), start, end)
  <2>1. start \in Int /\ end \in Int
    BY SdsAssumption DEF Position
  <2>. QED BY <1>1, <1>3, <2>1, SliceIs
<1>4. ASSUME NEW n \in 0 .. MaxLen, str.free >= 0 PROVE MakeRoomFor(str, n).free >= n
  <2>1. n \in Nat
    BY SdsAssumption
  <2>. QED BY <1>1, <1>4, <2>1, RoomIsFree
<1>. QED BY <1>2, <1>3, <1>4 DEF PartsAsPromised

-----------------------------------------------------------------------------
(* Splitting, and joining what was split. *)

(* Texts one behind the other.                                             *)
LEMMA JoinedBytes ==
  ASSUME NEW S, NEW u \in Seq(S), NEW v \in Seq(S)
  PROVE  /\ u \o v \in Seq(S) /\ Len(u \o v) = Len(u) + Len(v)
         /\ \A i \in 1 .. Len(u) : (u \o v)[i] = u[i]
         /\ \A i \in 1 .. Len(v) : (u \o v)[i + Len(u)] = v[i]
<1>1. /\ u \o v \in Seq(S) /\ Len(u \o v) = Len(u) + Len(v)
      /\ \A i \in 1 .. Len(u) + Len(v) : (u \o v)[i] = IF i <= Len(u) THEN u[i] ELSE v[i - Len(u)]
  BY ConcatProperties
<1>2. PICK a \in Nat : a = Len(u)
  BY LenProperties
<1>3. PICK b \in Nat : b = Len(v)
  BY LenProperties
<1> DEFINE w == u \o v
<1>. HIDE DEF w
<1>4. \A i \in 1 .. a + b : w[i] = IF i <= a THEN u[i] ELSE v[i - a]
  BY <1>1, <1>2, <1>3 DEF w
<1>5. ASSUME NEW i \in 1 .. a PROVE w[i] = u[i]
  BY <1>4
<1>6. ASSUME NEW i \in 1 .. b PROVE w[i + a] = v[i]
  <2>1. PICK j \in 1 .. a + b : j = i + a /\ ~(j <= a) /\ j - a = i
    OBVIOUS
  <2>. QED BY <1>4, <2>1
<1>. QED BY <1>1, <1>2, <1>3, <1>5, <1>6 DEF w

LEMMA OneElement ==
  ASSUME NEW T, NEW x \in T
  PROVE  \E u \in Seq(T) : u = <<x>> /\ Len(u) = 1 /\ u[1] = x /\ u # << >>
<1>1. <<x>> \in Seq(T) /\ Len(<<x>>) = 1 /\ <<x>>[1] = x /\ <<x>> # << >>
  OBVIOUS
<1>. QED BY <1>1

(* f joins the texts of ss from the left.                                  *)
Joins(f, ss) == f = [i \in 1 .. Len(ss) |-> IF i = 1 THEN ss[i] ELSE f[i - 1] \o ss[i]]

LEMMA JoinsAt ==
  ASSUME NEW ss, NEW f, Joins(f, ss), NEW i \in 1 .. Len(ss)
  PROVE  f[i] = IF i = 1 THEN ss[i] ELSE f[i - 1] \o ss[i]
<1> DEFINE g == [k \in 1 .. Len(ss) |-> IF k = 1 THEN ss[k] ELSE f[k - 1] \o ss[k]]
<1>1. f = g
  BY DEF Joins
<1>2. g[i] = IF i = 1 THEN ss[i] ELSE f[i - 1] \o ss[i]
  OBVIOUS
<1>3. f[i] = g[i]
  <2>. HIDE DEF g
  <2>. QED BY <1>1
<1>. HIDE DEF g
<1>. QED BY <1>2, <1>3

LEMMA JoinsOnce ==
  ASSUME NEW T, NEW ss \in Seq(T), NEW f, NEW g, Joins(f, ss), Joins(g, ss)
  PROVE  f = g
<1> DEFINE D == {n \in 1 .. Len(ss) : f[n] # g[n]}
<1>1. ASSUME D # {} PROVE FALSE
  <2>1. PICK n \in D : \A x \in D : n <= x
    <3>1. D \in SUBSET Nat
      OBVIOUS
    <3>. HIDE DEF D
    <3>. QED BY <1>1, <3>1, LeastNat
  <2>2. n \in 1 .. Len(ss) /\ f[n] # g[n] /\ n \in Nat
    BY <2>1
  <2>3. /\ f[n] = IF n = 1 THEN ss[n] ELSE f[n - 1] \o ss[n]
        /\ g[n] = IF n = 1 THEN ss[n] ELSE g[n - 1] \o ss[n]
    BY <2>2, JoinsAt
  <2>4. n # 1
    BY <2>2, <2>3
  <2>5. n - 1 \notin D
    <3>. HIDE DEF D
    <3>. QED BY <2>1, <2>2
  <2>6. f[n - 1] = g[n - 1]
    BY <2>2, <2>4, <2>5
  <2>. QED BY <2>2, <2>3, <2>4, <2>6
<1>2. f = [k \in 1 .. Len(ss) |-> f[k]] /\ g = [k \in 1 .. Len(ss) |-> g[k]]
  BY DEF Joins
<1>. QED BY <1>1, <1>2

(* A text put before the others is before all that is joined.              *)
JoinsAll(f, ss) == Joins(f, ss) /\ \A i \in 1 .. Len(ss) : f[i] \in Seq(Byte)
Before(f, x, n) == [i \in 1 .. n + 1 |-> IF i = 1 THEN x ELSE x \o f[i - 1]]

LEMMA JoinsBefore ==
  ASSUME NEW x \in Seq(Byte), NEW ss \in Seq(Seq(Byte)), NEW f, JoinsAll(f, ss)
  PROVE  JoinsAll(Before(f, x, Len(ss)), <<x>> \o ss)
<1>1. PICK n \in Nat : n = Len(ss)
  BY LenProperties
<1>2. PICK tt : tt = <<x>> \o ss
  OBVIOUS
<1>3. tt \in Seq(Seq(Byte)) /\ Len(tt) = n + 1 /\ tt[1] = x /\ \A i \in 1 .. n : tt[i + 1] = ss[i]
  <2>1. <<x>> \in Seq(Seq(Byte)) /\ Len(<<x>>) = 1 /\ <<x>>[1] = x
    OBVIOUS
  <2>2. /\ <<x>> \o ss \in Seq(Seq(Byte)) /\ Len(<<x>> \o ss) = 1 + Len(ss)
        /\ (<<x>> \o ss)[1] = x
        /\ \A i \in 1 .. Len(ss) : (<<x>> \o ss)[i + 1] = ss[i]
    <3>1. PICK u \in Seq(Seq(Byte)) : u = <<x>> /\ Len(u) = 1 /\ u[1] = x
      BY <2>1
    <3>2. /\ u \o ss \in Seq(Seq(Byte)) /\ Len(u \o ss) = Len(u) + Len(ss)
          /\ \A i \in 1 .. Len(u) : (u \o ss)[i] = u[i]
          /\ \A i \in 1 .. Len(ss) : (u \o ss)[i + Len(u)] = ss[i]
      BY JoinedBytes
    <3>3. 1 \in 1 .. Len(u)
      BY <3>1
    <3>. QED BY <3>1, <3>2, <3>3
  <2>. QED BY <1>1, <1>2, <2>2
<1>4. PICK g : g = Before(f, x, n)
  OBVIOUS
<1>5. \A i \in 1 .. n + 1 : g[i] = IF i = 1 THEN x ELSE x \o f[i - 1]
  BY <1>4 DEF Before
<1>6. \A i \in 1 .. n : f[i] \in Seq(Byte) /\ ss[i] \in Seq(Byte)
  BY <1>1 DEF JoinsAll
<1>7. ASSUME NEW i \in 1 .. n + 1 PROVE g[i] \in Seq(Byte)
  <2>1. CASE i = 1
    BY <1>5, <2>1
  <2>2. CASE i # 1
    <3>1. i - 1 \in 1 .. n
      BY <2>2
    <3>2. f[i - 1] \in Seq(Byte)
      BY <1>6, <3>1
    <3>3. x \o f[i - 1] \in Seq(Byte)
      BY <3>2, JoinedBytes
    <3>. QED BY <1>5, <2>2, <3>3
  <2>. QED BY <2>1, <2>2
<1> DEFINE h == [i \in 1 .. n + 1 |-> IF i = 1 THEN tt[i] ELSE g[i - 1] \o tt[i]]
<1>8. ASSUME NEW i \in 1 .. n + 1 PROVE g[i] = h[i]
  <2>1. h[i] = IF i = 1 THEN tt[i] ELSE g[i - 1] \o tt[i]
    OBVIOUS
  <2>. HIDE DEF h
  <2>2. CASE i = 1
    BY <1>3, <1>5, <2>1, <2>2
  <2>3. CASE i # 1
    <3>1. PICK k \in 1 .. n : k = i - 1 /\ i = k + 1
      BY <2>3
    <3>2. tt[i] = ss[k] /\ g[i] = x \o f[k] /\ h[i] = g[k] \o ss[k]
      BY <1>3, <1>5, <2>1, <2>3, <3>1
    <3>3. f[k] = IF k = 1 THEN ss[k] ELSE f[k - 1] \o ss[k]
      <4>1. k \in 1 .. Len(ss)
        BY <1>1
      <4>. QED BY <4>1, JoinsAt DEF JoinsAll
    <3>4. k \in 1 .. n + 1
      OBVIOUS
    <3>5. g[k] = IF k = 1 THEN x ELSE x \o f[k - 1]
      BY <1>5, <3>4
    <3>6. CASE k = 1
      BY <3>2, <3>3, <3>5, <3>6
    <3>7. CASE k # 1
      <4>1. k - 1 \in 1 .. n
        BY <3>7
      <4>2. PICK a \in Seq(Byte), b \in Seq(Byte) : a = f[k - 1] /\ b = ss[k]
        BY <1>6, <4>1
      <4>3. x \o (a \o b) = (x \o a) \o b
        BY ConcatAssociative
      <4>. QED BY <3>2, <3>3, <3>5, <3>7, <4>2, <4>3
    <3>. QED BY <3>6, <3>7
  <2>. QED BY <2>2, <2>3
<1>9. g = h
  <2>1. g = [i \in 1 .. n + 1 |-> g[i]]
    BY <1>4 DEF Before
  <2>2. h = [i \in 1 .. n + 1 |-> h[i]]
    OBVIOUS
  <2>. HIDE DEF h
  <2>. QED BY <1>8, <2>1, <2>2
<1>10. JoinsAll(g, tt)
  BY <1>3, <1>7, <1>9 DEF JoinsAll, Joins
<1>. QED BY <1>1, <1>2, <1>4, <1>10

(* A sequence that is not empty is its first element and the rest. *)
LEMMA FirstOff ==
  ASSUME NEW T, NEW ss \in Seq(T), ss # << >>
  PROVE  \E x \in T, rest \in Seq(T) : ss = <<x>> \o rest /\ Len(rest) = Len(ss) - 1
<1>1. Len(ss) \in Nat /\ Len(ss) >= 1 /\ ss[1] \in T
  OBVIOUS
<1>2. PICK rest : rest = Tail(ss)
  OBVIOUS
<1>3. rest \in Seq(T) /\ Len(rest) = Len(ss) - 1 /\ \A i \in 1 .. Len(rest) : rest[i] = ss[i + 1]
  BY <1>2
<1>10. PICK x \in T : x = ss[1]
  BY <1>1
<1>4. PICK u \in Seq(T) : u = <<x>> /\ Len(u) = 1 /\ u[1] = x
  BY OneElement
<1>11. rest \in Seq(T)
  BY <1>3
<1>5. /\ u \o rest \in Seq(T) /\ Len(u \o rest) = Len(u) + Len(rest)
      /\ \A i \in 1 .. Len(u) : (u \o rest)[i] = u[i]
      /\ \A i \in 1 .. Len(rest) : (u \o rest)[i + Len(u)] = rest[i]
  BY <1>11, JoinedBytes
<1>6. PICK w : w = u \o rest
  OBVIOUS
<1>7. w \in Seq(T) /\ Len(w) = Len(ss) /\ w[1] = ss[1] /\ \A i \in 1 .. Len(rest) : w[i + 1] = ss[i + 1]
  <2>1. 1 \in 1 .. Len(u)
    BY <1>4
  <2>. QED BY <1>1, <1>3, <1>4, <1>5, <1>6, <1>10, <2>1
<1>8. \A i \in 1 .. Len(ss) : w[i] = ss[i]
  <2>. SUFFICES ASSUME NEW i \in 1 .. Len(ss) PROVE w[i] = ss[i]
    OBVIOUS
  <2>1. CASE i = 1
    BY <1>7, <2>1
  <2>2. CASE i # 1
    <3>1. i - 1 \in 1 .. Len(rest) /\ (i - 1) + 1 = i
      BY <1>1, <1>3, <2>2
    <3>2. w[(i - 1) + 1] = ss[(i - 1) + 1]
      BY <1>7, <3>1
    <3>. QED BY <3>1, <3>2
  <2>. QED BY <2>1, <2>2
<1>9. w = ss
  BY <1>7, <1>8, SeqEqual
<1>. QED BY <1>3, <1>4, <1>6, <1>9

LEMMA JoinsExist ==
  ASSUME NEW ss \in Seq(Seq(Byte))
  PROVE  \E f : JoinsAll(f, ss)
<1> DEFINE D == {n \in Nat : \E tt \in Seq(Seq(Byte)) : Len(tt) = n /\ ~ \E f : JoinsAll(f, tt)}
<1>1. ASSUME D # {} PROVE FALSE
  <2>1. PICK n \in D : \A x \in D : n <= x
    <3>1. D \in SUBSET Nat
      OBVIOUS
    <3>. HIDE DEF D
    <3>. QED BY <1>1, <3>1, LeastNat
  <2>2. PICK tt \in Seq(Seq(Byte)) : Len(tt) = n /\ n \in Nat /\ ~ \E f : JoinsAll(f, tt)
    BY <2>1
  <2>3. CASE tt = << >>
    <3>1. Len(tt) = 0 /\ 1 .. 0 = {}
      BY <2>3
    <3>2. JoinsAll([i \in {} |-> 0], tt)
      BY <3>1 DEF JoinsAll, Joins
    <3>. QED BY <2>2, <3>2
  <2>4. CASE tt # << >>
    <3>1. PICK x \in Seq(Byte), rest \in Seq(Seq(Byte)) : tt = <<x>> \o rest /\ Len(rest) = Len(tt) - 1
      <4>1. \A T : \A q \in Seq(T) : q # << >> => \E x \in T, rest \in Seq(T) : q = <<x>> \o rest /\ Len(rest) = Len(q) - 1
        BY FirstOff
      <4>. QED BY <2>2, <2>4, <4>1
    <3>2. Len(rest) \in Nat /\ Len(rest) = n - 1
      BY <2>2, <3>1, LenProperties
    <3>3. Len(rest) \notin D
      <4>. HIDE DEF D
      <4>. QED BY <2>1, <2>2, <3>2
    <3>4. PICK f : JoinsAll(f, rest)
      BY <3>2, <3>3
    <3>. QED BY <2>2, <3>1, <3>4, JoinsBefore
  <2>. QED BY <2>3, <2>4
<1>2. Len(ss) \in Nat
  BY LenProperties
<1>. QED BY <1>1, <1>2

LEMMA FlattenIs ==
  ASSUME NEW ss \in Seq(Seq(Byte)), ss # << >>, NEW f, JoinsAll(f, ss)
  PROVE  FlattenSeq(ss) = f[Len(ss)]
<1>1. PICK g : g = CHOOSE h : Joins(h, ss)
  OBVIOUS
<1>2. Joins(g, ss)
  BY <1>1 DEF JoinsAll
<1>3. g = f
  BY <1>2, JoinsOnce DEF JoinsAll
<1>4. Len(ss) # 0
  BY EmptySeq
<1>5. FlattenSeq(ss) = g[Len(ss)]
  BY <1>1, <1>4 DEF FlattenSeq, Joins
<1>. QED BY <1>3, <1>5

LEMMA FlattenBefore ==
  ASSUME NEW x \in Seq(Byte), NEW ss \in Seq(Seq(Byte)), ss # << >>
  PROVE  FlattenSeq(ss) \in Seq(Byte) /\ FlattenSeq(<<x>> \o ss) = x \o FlattenSeq(ss)
<1>1. PICK f : JoinsAll(f, ss)
  BY JoinsExist
<1>2. PICK n \in Nat : n = Len(ss) /\ n >= 1
  BY LenProperties, EmptySeq
<1>3. FlattenSeq(ss) = f[n] /\ f[n] \in Seq(Byte)
  <2>1. n \in 1 .. Len(ss)
    BY <1>2
  <2>. QED BY <1>1, <1>2, <2>1, FlattenIs DEF JoinsAll
<1>4. PICK tt : tt = <<x>> \o ss
  OBVIOUS
<1>5. tt \in Seq(Seq(Byte)) /\ Len(tt) = n + 1 /\ tt # << >>
  <2>1. PICK u \in Seq(Seq(Byte)) : u = <<x>> /\ Len(u) = 1
    BY OneElement
  <2>2. u \o ss \in Seq(Seq(Byte)) /\ Len(u \o ss) = Len(u) + Len(ss)
    BY JoinedBytes
  <2>3. Len(tt) = n + 1
    BY <1>2, <1>4, <2>1, <2>2
  <2>4. tt # << >>
    <3>. SUFFICES ASSUME tt = << >> PROVE FALSE
      OBVIOUS
    <3>1. Len(tt) = 0
      OBVIOUS
    <3>. QED BY <1>2, <2>3, <3>1
  <2>. QED BY <1>4, <2>1, <2>2, <2>3, <2>4
<1>6. PICK g : g = Before(f, x, n)
  OBVIOUS
<1>7. JoinsAll(g, tt)
  BY <1>1, <1>2, <1>4, <1>6, JoinsBefore
<1>8. FlattenSeq(tt) = g[n + 1]
  BY <1>5, <1>7, FlattenIs
<1>9. g[n + 1] = x \o f[n]
  <2>1. n + 1 \in 1 .. n + 1 /\ n + 1 # 1 /\ (n + 1) - 1 = n
    BY <1>2
  <2>. QED BY <1>6, <2>1 DEF Before
<1>. QED BY <1>3, <1>4, <1>8, <1>9

LEMMA FlattenOne ==
  ASSUME NEW x \in Seq(Byte)
  PROVE  FlattenSeq(<<x>>) = x
<1>1. PICK u \in Seq(Seq(Byte)) : u = <<x>> /\ Len(u) = 1 /\ u[1] = x /\ u # << >>
  BY OneElement
<1>2. PICK f : JoinsAll(f, u)
  BY JoinsExist
<1>3. FlattenSeq(u) = f[1]
  BY <1>1, <1>2, FlattenIs
<1>4. f[1] = u[1]
  <2>1. 1 \in 1 .. Len(u)
    BY <1>1
  <2>. QED BY <1>2, <2>1, JoinsAt DEF JoinsAll
<1>. QED BY <1>1, <1>3, <1>4

(* Where a separator is, from start on; what a split makes of the text     *)
(* from there when f is what it makes of the text behind it.               *)
Found(t, sep, start) == {j \in start .. Len(t) - Len(sep) : SubSeq(t, j + 1, j + Len(sep)) = sep}
SplitAt(f, t, sep, start) ==
  IF Found(t, sep, start) = {} THEN <<SubSeq(t, start + 1, Len(t))>>
  ELSE <<SubSeq(t, start + 1, Min(Found(t, sep, start)))>> \o f[Min(Found(t, sep, start)) + Len(sep)]
Splits(f, t, sep, k) == f = [start \in k .. Len(t) |-> SplitAt(f, t, sep, start)]

LEMMA MinFound ==
  ASSUME NEW t \in Seq(Byte), NEW sep \in Seq(Byte), NEW start \in Nat, Found(t, sep, start) # {}
  PROVE  \E j \in Nat : /\ j = Min(Found(t, sep, start)) /\ j \in Found(t, sep, start)
                        /\ \A k \in Found(t, sep, start) : j <= k
<1>1. PICK F : F = Found(t, sep, start)
  OBVIOUS
<1>2. F \in SUBSET Nat
  <2>1. Len(t) - Len(sep) \in Int
    OBVIOUS
  <2>. QED BY <1>1, <2>1 DEF Found
<1>3. PICK j : j = CHOOSE x \in F : \A y \in F : x <= y
  OBVIOUS
<1>4. \E x \in F : \A y \in F : x <= y
  BY <1>1, <1>2, LeastNat
<1>5. j \in F /\ \A y \in F : j <= y
  BY <1>3, <1>4
<1>6. j = Min(F)
  BY <1>3 DEF Min
<1>. QED BY <1>1, <1>2, <1>5, <1>6

(* What is at start depends on f behind start alone. *)
LEMMA SplitAtBehind ==
  ASSUME NEW t \in Seq(Byte), NEW sep \in Seq(Byte), sep # << >>, NEW start \in Nat,
         NEW f, NEW g, \A i \in start + 1 .. Len(t) : f[i] = g[i]
  PROVE  SplitAt(f, t, sep, start) = SplitAt(g, t, sep, start)
<1>1. CASE Found(t, sep, start) = {}
  BY <1>1 DEF SplitAt
<1>2. CASE Found(t, sep, start) # {}
  <2>1. PICK j \in Nat : j = Min(Found(t, sep, start)) /\ j \in Found(t, sep, start)
    BY <1>2, MinFound
  <2>2. PICK n \in Nat : n = Len(sep) /\ n >= 1
    BY EmptySeq, LenProperties
  <2>3. j \in start .. Len(t) - n
    BY <2>1, <2>2 DEF Found
  <2>4. j + n \in start + 1 .. Len(t)
    <3>1. Len(t) \in Nat
      OBVIOUS
    <3>. QED BY <2>2, <2>3, <3>1
  <2>5. f[j + n] = g[j + n]
    BY <2>4
  <2>. QED BY <1>2, <2>1, <2>2, <2>5 DEF SplitAt
<1>. QED BY <1>1, <1>2

LEMMA SplitsExist ==
  ASSUME NEW t \in Seq(Byte), NEW sep \in Seq(Byte), sep # << >>
  PROVE  \E f : Splits(f, t, sep, 0)
<1>1. PICK len \in Nat : len = Len(t)
  BY LenProperties
<1> DEFINE D == {m \in Nat : m <= len /\ ~ \E f : Splits(f, t, sep, len - m)}
<1>2. ASSUME D # {} PROVE FALSE
  <2>1. PICK m \in D : \A x \in D : m <= x
    <3>1. D \in SUBSET Nat
      OBVIOUS
    <3>. HIDE DEF D
    <3>. QED BY <1>2, <3>1, LeastNat
  <2>2. m \in Nat /\ m <= len /\ ~ \E f : Splits(f, t, sep, len - m)
    BY <2>1
  <2>3. PICK k \in Nat : k = len - m /\ k <= len
    BY <2>2
  <2>4. PICK f : k = len \/ Splits(f, t, sep, k + 1)
    <3>1. CASE m = 0
      BY <2>3, <3>1
    <3>2. CASE m # 0
      <4>1. m - 1 \in Nat /\ m - 1 \notin D /\ len - (m - 1) = k + 1
        <5>. HIDE DEF D
        <5>. QED BY <2>1, <2>2, <2>3, <3>2
      <4>2. \E f : Splits(f, t, sep, len - (m - 1))
        BY <2>2, <4>1
      <4>. QED BY <4>1, <4>2
    <3>. QED BY <3>1, <3>2
  <2>5. PICK first : first = SplitAt(f, t, sep, k)
    OBVIOUS
  <2> DEFINE g == [start \in k .. len |-> IF start = k THEN first ELSE f[start]]
             h == [start \in k .. len |-> SplitAt(g, t, sep, start)]
  <2>6. ASSUME NEW start \in k .. len PROVE g[start] = h[start]
    <3>1. start \in Nat /\ \A i \in start + 1 .. Len(t) : f[i] = g[i]
      BY <1>1, <2>3
    <3>2. h[start] = SplitAt(g, t, sep, start)
      OBVIOUS
    <3>3. g[start] = IF start = k THEN first ELSE f[start]
      OBVIOUS
    <3>. HIDE DEF g, h
    <3>4. SplitAt(f, t, sep, start) = SplitAt(g, t, sep, start)
      BY <3>1, SplitAtBehind
    <3>5. start # k => f[start] = SplitAt(f, t, sep, start)
      <4>. SUFFICES ASSUME start # k PROVE f[start] = SplitAt(f, t, sep, start)
        OBVIOUS
      <4>1. k # len /\ start \in k + 1 .. Len(t)
        BY <1>1, <2>3
      <4>2. Splits(f, t, sep, k + 1)
        BY <2>4, <4>1
      <4>. QED BY <4>1, <4>2 DEF Splits
    <3>. QED BY <2>5, <3>2, <3>3, <3>4, <3>5
  <2>7. g = h
    <3>1. g = [start \in k .. len |-> g[start]] /\ h = [start \in k .. len |-> h[start]]
      OBVIOUS
    <3>. HIDE DEF g, h
    <3>. QED BY <2>6, <3>1
  <2>8. Splits(g, t, sep, k)
    <3>. HIDE DEF g
    <3>. QED BY <1>1, <2>7 DEF Splits
  <2>. QED BY <2>2, <2>3, <2>8
<1>3. \E f : Splits(f, t, sep, len - len)
  <2>. SUFFICES ASSUME ~ \E f : Splits(f, t, sep, len - len) PROVE FALSE
    OBVIOUS
  <2>1. len \in D
    OBVIOUS
  <2>. HIDE DEF D
  <2>. QED BY <1>2, <2>1
<1>4. len - len = 0
  OBVIOUS
<1>. QED BY <1>3, <1>4

LEMMA SplitIs ==
  ASSUME NEW t \in Seq(Byte), NEW sep \in Seq(Byte), sep # << >>, t # << >>
  PROVE  \E f : Splits(f, t, sep, 0) /\ sdssplitlen(t, sep) = f[0]
<1>1. PICK g : g = CHOOSE f : Splits(f, t, sep, 0)
  OBVIOUS
<1>2. Splits(g, t, sep, 0)
  BY <1>1, SplitsExist
<1>3. sdssplitlen(t, sep) = g[0]
  BY <1>1 DEF sdssplitlen, Splits, SplitAt, Found
<1>. QED BY <1>2, <1>3

(* A part of a part is a part. *)
LEMMA PartOfPart ==
  ASSUME NEW t \in Seq(Byte), NEW a \in Nat, NEW b \in Nat, a <= b, b <= Len(t),
         NEW i \in Nat, NEW n \in Nat, i + n <= b - a
  PROVE  SubSeq(SubSeq(t, a + 1, b), i + 1, i + n) = SubSeq(t, (a + i) + 1, (a + i) + n)
<1>1. PICK r \in Seq(Byte) : r = SubSeq(t, a + 1, b)
  <2>1. SubSeq(t, a + 1, b) \in Seq(Byte)
    BY PartIs
  <2>. QED BY <2>1
<1>2. Len(r) = b - a /\ \A k \in 1 .. Len(r) : r[k] = t[a + k]
  BY <1>1, PartIs
<1>3. PICK u : u = SubSeq(r, i + 1, i + n)
  OBVIOUS
<1>4. u \in Seq(Byte) /\ Len(u) = n /\ \A k \in 1 .. Len(u) : u[k] = r[i + k]
  <2>1. PICK e \in Int : e = i + n /\ e <= Len(r)
    BY <1>2
  <2>2. u = SubSeq(r, i + 1, e)
    BY <1>3, <2>1
  <2>3. /\ SubSeq(r, i + 1, e) \in Seq(Byte)
        /\ Len(SubSeq(r, i + 1, e)) = (IF i <= e THEN e - i ELSE 0)
        /\ \A k \in 1 .. Len(SubSeq(r, i + 1, e)) : SubSeq(r, i + 1, e)[k] = r[i + k]
    <3>1. e <= Len(r)
      BY <2>1
    <3>. QED BY <3>1, PartIs
  <2>4. e - i = n /\ i <= e
    BY <2>1
  <2>5. Len(u) = n
    BY <2>2, <2>3, <2>4
  <2>. QED BY <2>2, <2>3, <2>5
<1>5. PICK w : w = SubSeq(t, (a + i) + 1, (a + i) + n)
  OBVIOUS
<1>6. w \in Seq(Byte) /\ Len(w) = n /\ \A k \in 1 .. Len(w) : w[k] = t[(a + i) + k]
  <2>1. PICK c \in Nat, e \in Int : c = a + i /\ e = (a + i) + n /\ e <= Len(t)
    OBVIOUS
  <2>2. w = SubSeq(t, c + 1, e)
    BY <1>5, <2>1
  <2>3. /\ SubSeq(t, c + 1, e) \in Seq(Byte)
        /\ Len(SubSeq(t, c + 1, e)) = (IF c <= e THEN e - c ELSE 0)
        /\ \A k \in 1 .. Len(SubSeq(t, c + 1, e)) : SubSeq(t, c + 1, e)[k] = t[c + k]
    <3>1. e <= Len(t)
      BY <2>1
    <3>. QED BY <3>1, PartIs
  <2>4. e - c = n /\ c <= e
    BY <2>1
  <2>5. Len(w) = n
    BY <2>2, <2>3, <2>4
  <2>. QED BY <2>1, <2>2, <2>3, <2>5
<1>7. \A k \in 1 .. n : u[k] = w[k]
  <2>. SUFFICES ASSUME NEW k \in 1 .. n PROVE u[k] = w[k]
    OBVIOUS
  <2>1. i + k \in 1 .. Len(r) /\ a + (i + k) = (a + i) + k
    BY <1>2
  <2>. QED BY <1>2, <1>4, <1>6, <2>1
<1>8. u = w
  BY <1>4, <1>6, <1>7, SeqEqual
<1>. QED BY <1>1, <1>3, <1>5, <1>8

(* A token has no separator when none is found that ends in it.            *)
LEMMA TokenHasNone ==
  ASSUME NEW t \in Seq(Byte), NEW sep \in Seq(Byte), NEW a \in Nat, NEW b \in Nat, a <= b, b <= Len(t),
         \A j \in Found(t, sep, a) : j + Len(sep) > b
  PROVE  ~HasPart(SubSeq(t, a + 1, b), sep)
<1>1. PICK r : r = SubSeq(t, a + 1, b)
  OBVIOUS
<1>2. Len(r) = b - a
  BY <1>1, PartIs
<1>3. PICK n \in Nat : n = Len(sep)
  BY LenProperties
<1>4. ASSUME NEW i \in 0 .. Len(r) - Len(sep), SubSeq(r, i + 1, i + Len(sep)) = sep PROVE FALSE
  <2>1. i \in Nat /\ i + n <= b - a
    BY <1>2, <1>3
  <2>2. SubSeq(t, (a + i) + 1, (a + i) + n) = sep
    <3>1. SubSeq(SubSeq(t, a + 1, b), i + 1, i + n) = SubSeq(t, (a + i) + 1, (a + i) + n)
      BY <2>1, PartOfPart
    <3>. QED BY <1>1, <1>3, <1>4, <3>1
  <2>3. a + i \in a .. Len(t) - n
    BY <2>1
  <2>4. a + i \in Found(t, sep, a)
    BY <1>3, <2>2, <2>3 DEF Found
  <2>5. (a + i) + n > b
    BY <1>3, <2>4
  <2>. QED BY <2>1, <2>5
<1>. QED BY <1>1, <1>4 DEF HasPart

(* The tokens in order with the separator between them, whole.             *)
JoinOf(tokens, sep) ==
  FlattenSeq([i \in DOMAIN tokens |-> IF i < Len(tokens) THEN tokens[i] \o sep ELSE tokens[i]])

(* What that makes of one token, and of one token more.                    *)
LEMMA JoinOne ==
  ASSUME NEW x \in Seq(Byte), NEW sep \in Seq(Byte)
  PROVE  JoinOf(<<x>>, sep) = x
<1>1. DOMAIN <<x>> = {1} /\ Len(<<x>>) = 1 /\ <<x>>[1] = x
  OBVIOUS
<1>2. [i \in DOMAIN <<x>> |-> IF i < Len(<<x>>) THEN <<x>>[i] \o sep ELSE <<x>>[i]] = [i \in {1} |-> x]
  BY <1>1
<1>3. [i \in {1} |-> x] = <<x>>
  OBVIOUS
<1>4. JoinOf(<<x>>, sep) = FlattenSeq(<<x>>)
  BY <1>2, <1>3 DEF JoinOf
<1>. QED BY <1>4, FlattenOne

LEMMA JoinMore ==
  ASSUME NEW x \in Seq(Byte), NEW sep \in Seq(Byte), NEW ss \in Seq(Seq(Byte)), ss # << >>
  PROVE  JoinOf(<<x>> \o ss, sep) = (x \o sep) \o JoinOf(ss, sep)
<1>1. PICK n \in Nat : n = Len(ss) /\ n >= 1
  BY LenProperties, EmptySeq
<1>2. PICK u \in Seq(Seq(Byte)) : u = <<x>> /\ Len(u) = 1 /\ u[1] = x
  BY OneElement
<1>3. PICK xs \in Seq(Byte) : xs = x \o sep
  BY JoinedBytes
<1>4. PICK v \in Seq(Seq(Byte)) : v = <<xs>> /\ Len(v) = 1 /\ v[1] = xs
  BY OneElement
<1>5. PICK tt : tt = u \o ss
  OBVIOUS
<1>6. tt \in Seq(Seq(Byte)) /\ Len(tt) = n + 1 /\ tt[1] = x /\ \A i \in 1 .. n : tt[i + 1] = ss[i]
  <2>1. /\ u \o ss \in Seq(Seq(Byte)) /\ Len(u \o ss) = Len(u) + Len(ss)
        /\ \A i \in 1 .. Len(u) : (u \o ss)[i] = u[i]
        /\ \A i \in 1 .. Len(ss) : (u \o ss)[i + Len(u)] = ss[i]
    BY JoinedBytes
  <2>2. 1 \in 1 .. Len(u)
    BY <1>2
  <2>. QED BY <1>1, <1>2, <1>5, <2>1, <2>2
<1> DEFINE Part(w, i) == IF i < Len(w) THEN w[i] \o sep ELSE w[i]
<1>7. ASSUME NEW w \in Seq(Seq(Byte))
      PROVE  /\ [i \in DOMAIN w |-> Part(w, i)] \in Seq(Seq(Byte))
             /\ Len([i \in DOMAIN w |-> Part(w, i)]) = Len(w)
             /\ \A i \in 1 .. Len(w) : [k \in DOMAIN w |-> Part(w, k)][i] = Part(w, i)
  <2>1. PICK k \in Nat : k = Len(w) /\ DOMAIN w = 1 .. k
    BY LenProperties
  <2>2. \A i \in 1 .. k : w[i] \in Seq(Byte)
    BY <2>1
  <2>3. \A i \in 1 .. k : w[i] \o sep \in Seq(Byte)
    BY <2>2, JoinedBytes
  <2>4. \A i \in 1 .. k : Part(w, i) \in Seq(Byte)
    BY <2>2, <2>3
  <2>. HIDE DEF Part
  <2>5. [i \in 1 .. k |-> Part(w, i)] \in Seq(Seq(Byte)) /\ Len([i \in 1 .. k |-> Part(w, i)]) = k
    BY <2>4
  <2>. QED BY <2>1, <2>5
<1>8. PICK m : m = [i \in DOMAIN ss |-> Part(ss, i)]
  OBVIOUS
<1>9. PICK q : q = [i \in DOMAIN tt |-> Part(tt, i)]
  OBVIOUS
<1>10. JoinOf(ss, sep) = FlattenSeq(m) /\ JoinOf(tt, sep) = FlattenSeq(q)
  BY <1>8, <1>9 DEF JoinOf
<1>11. m \in Seq(Seq(Byte)) /\ Len(m) = n /\ \A i \in 1 .. n : m[i] = IF i < n THEN ss[i] \o sep ELSE ss[i]
  BY <1>1, <1>7, <1>8
<1>12. q \in Seq(Seq(Byte)) /\ Len(q) = n + 1 /\ \A i \in 1 .. n + 1 : q[i] = IF i < n + 1 THEN tt[i] \o sep ELSE tt[i]
  BY <1>6, <1>7, <1>9
<1>. HIDE DEF Part
<1>13. PICK p : p = v \o m
  OBVIOUS
<1>14. p \in Seq(Seq(Byte)) /\ Len(p) = n + 1 /\ p[1] = xs /\ \A i \in 1 .. n : p[i + 1] = m[i]
  <2>1. /\ v \o m \in Seq(Seq(Byte)) /\ Len(v \o m) = Len(v) + Len(m)
        /\ \A i \in 1 .. Len(v) : (v \o m)[i] = v[i]
        /\ \A i \in 1 .. Len(m) : (v \o m)[i + Len(v)] = m[i]
    <3>1. m \in Seq(Seq(Byte))
      BY <1>11
    <3>. QED BY <3>1, JoinedBytes
  <2>2. 1 \in 1 .. Len(v)
    BY <1>4
  <2>. QED BY <1>4, <1>11, <1>13, <2>1, <2>2
<1>15. \A i \in 1 .. n + 1 : q[i] = p[i]
  <2>. SUFFICES ASSUME NEW i \in 1 .. n + 1 PROVE q[i] = p[i]
    OBVIOUS
  <2>1. CASE i = 1
    <3>1. 1 \in 1 .. n + 1 /\ 1 < n + 1
      BY <1>1
    <3>. QED BY <1>3, <1>6, <1>12, <1>14, <2>1, <3>1
  <2>2. CASE i # 1
    <3>1. PICK k \in 1 .. n : i = k + 1
      <4>1. i - 1 \in 1 .. n /\ i = (i - 1) + 1
        BY <2>2
      <4>. QED BY <4>1
    <3>2. i < n + 1 <=> k < n
      BY <3>1
    <3>3. q[i] = IF k < n THEN tt[i] \o sep ELSE tt[i]
      BY <1>12, <3>2
    <3>4. tt[i] = ss[k] /\ p[i] = m[k]
      BY <1>6, <1>14, <3>1
    <3>. QED BY <1>11, <3>3, <3>4
  <2>. QED BY <2>1, <2>2
<1>16. q = p
  BY <1>12, <1>14, <1>15, SeqEqual
<1>17. m # << >>
  <2>. SUFFICES ASSUME m = << >> PROVE FALSE
    OBVIOUS
  <2>1. Len(m) = 0
    OBVIOUS
  <2>. QED BY <1>1, <1>11, <2>1
<1>18. FlattenSeq(<<xs>> \o m) = xs \o FlattenSeq(m)
  BY <1>11, <1>17, FlattenBefore
<1>. QED BY <1>2, <1>3, <1>4, <1>5, <1>10, <1>13, <1>16, <1>18

(* A text cut in three, put together again. *)
LEMMA CutAndJoined ==
  ASSUME NEW t \in Seq(Byte), NEW a \in Nat, NEW b \in Nat, NEW c \in Nat, a <= b, b <= c, c <= Len(t)
  PROVE  (SubSeq(t, a + 1, b) \o SubSeq(t, b + 1, c)) \o SubSeq(t, c + 1, Len(t)) = SubSeq(t, a + 1, Len(t))
<1>1. PICK len \in Nat : len = Len(t)
  BY LenProperties
<1>2. ASSUME NEW x \in Nat, NEW y \in Nat, NEW z \in Nat, x <= y, y <= z, z <= len
      PROVE  SubSeq(t, x + 1, y) \o SubSeq(t, y + 1, z) = SubSeq(t, x + 1, z)
  <2>1. PICK u : u = SubSeq(t, x + 1, y)
    OBVIOUS
  <2>2. PICK v : v = SubSeq(t, y + 1, z)
    OBVIOUS
  <2>3. PICK w : w = SubSeq(t, x + 1, z)
    OBVIOUS
  <2>4. u \in Seq(Byte) /\ Len(u) = y - x /\ \A i \in 1 .. Len(u) : u[i] = t[x + i]
    <3>1. y \in Int /\ y <= Len(t)
      BY <1>1, <1>2
    <3>. QED BY <1>2, <2>1, <3>1, PartIs
  <2>5. v \in Seq(Byte) /\ Len(v) = z - y /\ \A i \in 1 .. Len(v) : v[i] = t[y + i]
    <3>1. z \in Int /\ z <= Len(t)
      BY <1>1, <1>2
    <3>. QED BY <1>2, <2>2, <3>1, PartIs
  <2>6. w \in Seq(Byte) /\ Len(w) = z - x /\ \A i \in 1 .. Len(w) : w[i] = t[x + i]
    <3>1. z \in Int /\ z <= Len(t) /\ x <= z
      BY <1>1, <1>2
    <3>. QED BY <1>2, <2>3, <3>1, PartIs
  <2>7. PICK q : q = u \o v
    OBVIOUS
  <2>8. q \in Seq(Byte) /\ Len(q) = z - x
        /\ (\A i \in 1 .. y - x : q[i] = u[i]) /\ (\A i \in 1 .. z - y : q[i + (y - x)] = v[i])
    <3>1. /\ u \o v \in Seq(Byte) /\ Len(u \o v) = Len(u) + Len(v)
          /\ \A i \in 1 .. Len(u) : (u \o v)[i] = u[i]
          /\ \A i \in 1 .. Len(v) : (u \o v)[i + Len(u)] = v[i]
      <4>1. u \in Seq(Byte) /\ v \in Seq(Byte)
        BY <2>4, <2>5
      <4>. QED BY <4>1, JoinedBytes
    <3>2. PICK n \in Nat, m \in Nat : n = y - x /\ m = z - y /\ n + m = z - x
      BY <1>2
    <3>3. Len(u) = n /\ Len(v) = m
      BY <2>4, <2>5, <3>2
    <3>4. q \in Seq(Byte) /\ Len(q) = n + m
          /\ (\A i \in 1 .. n : q[i] = u[i]) /\ (\A i \in 1 .. m : q[i + n] = v[i])
      BY <2>7, <3>1, <3>3
    <3>. QED BY <3>2, <3>4
  <2>9. \A i \in 1 .. z - x : q[i] = w[i]
    <3>. SUFFICES ASSUME NEW i \in 1 .. z - x PROVE q[i] = w[i]
      OBVIOUS
    <3>1. CASE i <= y - x
      <4>1. i \in 1 .. y - x
        BY <1>2, <3>1
      <4>. QED BY <2>4, <2>6, <2>8, <4>1
    <3>2. CASE ~(i <= y - x)
      <4>1. PICK k \in 1 .. z - y : i = k + (y - x) /\ y + k = x + i
        <5>1. i - (y - x) \in 1 .. z - y /\ i = (i - (y - x)) + (y - x) /\ y + (i - (y - x)) = x + i
          BY <1>2, <3>2
        <5>. QED BY <5>1
      <4>2. q[i] = v[k]
        BY <2>8, <4>1
      <4>3. v[k] = t[y + k]
        BY <2>5
      <4>4. w[i] = t[x + i]
        BY <2>6
      <4>. QED BY <4>1, <4>2, <4>3, <4>4
    <3>. QED BY <3>1, <3>2
  <2>10. q = w
    BY <2>6, <2>8, <2>9, SeqEqual
  <2>. QED BY <2>1, <2>2, <2>3, <2>7, <2>10
<1>3. SubSeq(t, a + 1, b) \o SubSeq(t, b + 1, c) = SubSeq(t, a + 1, c)
  BY <1>1, <1>2
<1>4. a <= c /\ len <= len
  BY <1>1
<1>5. SubSeq(t, a + 1, c) \o SubSeq(t, c + 1, len) = SubSeq(t, a + 1, len)
  BY <1>1, <1>2, <1>4
<1>. QED BY <1>1, <1>3, <1>5

(* Every byte of x is one of t.                                            *)
BytesOf(x, t) == \A i \in 1 .. Len(x) : \E p \in 1 .. Len(t) : x[i] = t[p]

LEMMA PartBytes ==
  ASSUME NEW t \in Seq(Byte), NEW a \in Nat, NEW b \in Nat, a <= b, b <= Len(t)
  PROVE  BytesOf(SubSeq(t, a + 1, b), t)
<1>1. PICK x : x = SubSeq(t, a + 1, b)
  OBVIOUS
<1>2. PICK len \in Nat : len = Len(t)
  BY LenProperties
<1>3. Len(x) = b - a /\ \A i \in 1 .. Len(x) : x[i] = t[a + i]
  BY <1>1, PartIs
<1>4. ASSUME NEW i \in 1 .. Len(x) PROVE \E p \in 1 .. Len(t) : x[i] = t[p]
  <2>1. a + i \in 1 .. Len(t)
    BY <1>2, <1>3
  <2>. QED BY <1>3, <2>1
<1>. QED BY <1>1, <1>4 DEF BytesOf

(* The tokens tt are what a split should make of t from start on.          *)
TokensOf(tt, t, sep, start) ==
  /\ tt \in Seq(Seq(Byte)) /\ tt # << >>
  /\ JoinOf(tt, sep) = SubSeq(t, start + 1, Len(t))
  /\ \A i \in 1 .. Len(tt) : ~HasPart(tt[i], sep) /\ BytesOf(tt[i], t)

LEMMA LastToken ==
  ASSUME NEW t \in Seq(Byte), NEW sep \in Seq(Byte), NEW start \in Nat, start <= Len(t),
         Found(t, sep, start) = {}
  PROVE  TokensOf(<<SubSeq(t, start + 1, Len(t))>>, t, sep, start)
<1>1. PICK len \in Nat : len = Len(t)
  BY LenProperties
<1>2. PICK x : x = SubSeq(t, start + 1, len)
  OBVIOUS
<1>3. x \in Seq(Byte)
  <2>1. SubSeq(t, start + 1, len) \in Seq(Byte)
    <3>1. len <= Len(t)
      BY <1>1
    <3>. QED BY <3>1, PartIs
  <2>. QED BY <1>2, <2>1
<1>4. ~HasPart(SubSeq(t, start + 1, len), sep) /\ BytesOf(SubSeq(t, start + 1, len), t)
  <2>1. start <= len /\ len <= Len(t)
    BY <1>1
  <2>. QED BY <2>1, TokenHasNone, PartBytes
<1>5. PICK u \in Seq(Seq(Byte)) : u = <<x>> /\ Len(u) = 1 /\ u[1] = x /\ u # << >>
  BY <1>3, OneElement
<1>6. JoinOf(u, sep) = x
  BY <1>3, <1>5, JoinOne
<1>7. \A i \in 1 .. Len(u) : ~HasPart(u[i], sep) /\ BytesOf(u[i], t)
  <2>1. \A i \in 1 .. Len(u) : u[i] = x
    BY <1>5
  <2>. QED BY <1>2, <1>4, <2>1
<1>8. TokensOf(u, t, sep, start)
  BY <1>1, <1>2, <1>5, <1>6, <1>7 DEF TokensOf
<1>. QED BY <1>1, <1>2, <1>5, <1>8

LEMMA TokenBefore ==
  ASSUME NEW t \in Seq(Byte), NEW sep \in Seq(Byte), sep # << >>, NEW start \in Nat,
         NEW j \in Found(t, sep, start), \A k \in Found(t, sep, start) : j <= k,
         NEW tt, TokensOf(tt, t, sep, j + Len(sep))
  PROVE  TokensOf(<<SubSeq(t, start + 1, j)>> \o tt, t, sep, start)
<1>1. PICK n \in Nat : n = Len(sep) /\ n >= 1
  BY LenProperties, EmptySeq
<1>2. PICK len \in Nat : len = Len(t)
  BY LenProperties
<1>3. j \in Nat /\ start <= j /\ j + n <= len /\ SubSeq(t, j + 1, j + n) = sep
  BY <1>1, <1>2 DEF Found
<1>4. PICK x : x = SubSeq(t, start + 1, j)
  OBVIOUS
<1>5. x \in Seq(Byte)
  <2>1. j <= Len(t) /\ j \in Int
    BY <1>2, <1>3
  <2>2. SubSeq(t, start + 1, j) \in Seq(Byte)
    BY <2>1, PartIs
  <2>. QED BY <1>4, <2>2
<1>6. ~HasPart(x, sep) /\ BytesOf(x, t)
  <2>1. start <= j /\ j <= Len(t) /\ \A k \in Found(t, sep, start) : k + Len(sep) > j
    <3>1. \A k \in Found(t, sep, start) : k \in Nat
      BY <1>1, <1>2 DEF Found
    <3>. QED BY <1>1, <1>2, <1>3, <3>1
  <2>2. ~HasPart(SubSeq(t, start + 1, j), sep)
    BY <1>3, <2>1, TokenHasNone
  <2>3. BytesOf(SubSeq(t, start + 1, j), t)
    BY <1>3, <2>1, PartBytes
  <2>. QED BY <1>4, <2>2, <2>3
<1>7. tt \in Seq(Seq(Byte)) /\ tt # << >> /\ JoinOf(tt, sep) = SubSeq(t, j + n + 1, len)
      /\ \A i \in 1 .. Len(tt) : ~HasPart(tt[i], sep) /\ BytesOf(tt[i], t)
  BY <1>1, <1>2 DEF TokensOf
<1>8. PICK u \in Seq(Seq(Byte)) : u = <<x>> /\ Len(u) = 1 /\ u[1] = x /\ u # << >>
  BY <1>5, OneElement
<1>9. PICK w : w = u \o tt
  OBVIOUS
<1>10. PICK m \in Nat : m = Len(tt)
  <2>1. tt \in Seq(Seq(Byte))
    BY <1>7
  <2>. QED BY <2>1, LenProperties
<1>11. w \in Seq(Seq(Byte)) /\ Len(w) = m + 1 /\ w[1] = x /\ \A i \in 1 .. m : w[i + 1] = tt[i]
  <2>1. /\ u \o tt \in Seq(Seq(Byte)) /\ Len(u \o tt) = Len(u) + Len(tt)
        /\ \A i \in 1 .. Len(u) : (u \o tt)[i] = u[i]
        /\ \A i \in 1 .. Len(tt) : (u \o tt)[i + Len(u)] = tt[i]
    <3>1. tt \in Seq(Seq(Byte))
      BY <1>7
    <3>. QED BY <3>1, JoinedBytes
  <2>2. 1 \in 1 .. Len(u)
    BY <1>8
  <2>. QED BY <1>8, <1>9, <1>10, <2>1, <2>2
<1>12. w # << >>
  <2>. SUFFICES ASSUME w = << >> PROVE FALSE
    OBVIOUS
  <2>1. Len(w) = 0
    OBVIOUS
  <2>. QED BY <1>11, <2>1
<1>13. JoinOf(w, sep) = SubSeq(t, start + 1, len)
  <2>1. JoinOf(<<x>> \o tt, sep) = (x \o sep) \o JoinOf(tt, sep)
    <3>1. tt \in Seq(Seq(Byte)) /\ tt # << >>
      BY <1>7
    <3>. QED BY <1>5, <3>1, JoinMore
  <2>2. PICK c \in Nat : c = j + n
    BY <1>3
  <2>3. (SubSeq(t, start + 1, j) \o SubSeq(t, j + 1, c)) \o SubSeq(t, c + 1, Len(t)) = SubSeq(t, start + 1, Len(t))
    <3>1. start <= j /\ j <= c /\ c <= Len(t)
      BY <1>2, <1>3, <2>2
    <3>. QED BY <1>3, <3>1, CutAndJoined
  <2>. QED BY <1>2, <1>3, <1>4, <1>7, <1>8, <1>9, <2>1, <2>2, <2>3
<1>14. \A i \in 1 .. Len(w) : ~HasPart(w[i], sep) /\ BytesOf(w[i], t)
  <2>. SUFFICES ASSUME NEW i \in 1 .. Len(w) PROVE ~HasPart(w[i], sep) /\ BytesOf(w[i], t)
    OBVIOUS
  <2>1. CASE i = 1
    BY <1>6, <1>11, <2>1
  <2>2. CASE i # 1
    <3>1. PICK k \in 1 .. m : i = k + 1
      <4>1. i - 1 \in 1 .. m /\ i = (i - 1) + 1
        BY <1>11, <2>2
      <4>. QED BY <4>1
    <3>. QED BY <1>7, <1>10, <1>11, <3>1
  <2>. QED BY <2>1, <2>2
<1>15. TokensOf(w, t, sep, start)
  BY <1>2, <1>11, <1>12, <1>13, <1>14 DEF TokensOf
<1>. QED BY <1>4, <1>8, <1>9, <1>15

LEMMA SplitTokens ==
  ASSUME NEW t \in Seq(Byte), NEW sep \in Seq(Byte), sep # << >>, NEW f, Splits(f, t, sep, 0)
  PROVE  TokensOf(f[0], t, sep, 0)
<1>1. PICK len \in Nat : len = Len(t)
  BY LenProperties
<1>2. PICK n \in Nat : n = Len(sep) /\ n >= 1
  BY LenProperties, EmptySeq
<1> DEFINE D == {m \in Nat : m <= len /\ ~TokensOf(f[len - m], t, sep, len - m)}
<1>3. ASSUME D # {} PROVE FALSE
  <2>1. PICK m \in D : \A x \in D : m <= x
    <3>1. D \in SUBSET Nat
      OBVIOUS
    <3>. HIDE DEF D
    <3>. QED BY <1>3, <3>1, LeastNat
  <2>2. m \in Nat /\ m <= len /\ ~TokensOf(f[len - m], t, sep, len - m)
    BY <2>1
  <2>3. PICK start \in Nat : start = len - m /\ start <= len
    BY <2>2
  <2>4. f[start] = SplitAt(f, t, sep, start)
    <3>1. start \in 0 .. Len(t)
      BY <1>1, <2>3
    <3>. QED BY <3>1 DEF Splits
  <2>5. CASE Found(t, sep, start) = {}
    <3>1. f[start] = <<SubSeq(t, start + 1, Len(t))>>
      BY <2>4, <2>5 DEF SplitAt
    <3>2. TokensOf(<<SubSeq(t, start + 1, Len(t))>>, t, sep, start)
      <4>1. start <= Len(t)
        BY <1>1, <2>3
      <4>. QED BY <2>5, <4>1, LastToken
    <3>. QED BY <2>2, <2>3, <3>1, <3>2
  <2>6. CASE Found(t, sep, start) # {}
    <3>1. PICK j \in Nat : /\ j = Min(Found(t, sep, start)) /\ j \in Found(t, sep, start)
                           /\ \A k \in Found(t, sep, start) : j <= k
      BY <2>6, MinFound
    <3>2. start <= j /\ j + n <= len
      BY <1>1, <1>2, <3>1 DEF Found
    <3>3. PICK tt : tt = f[j + n]
      OBVIOUS
    <3>4. f[start] = <<SubSeq(t, start + 1, j)>> \o tt
      BY <1>2, <2>4, <2>6, <3>1, <3>3 DEF SplitAt
    <3>5. PICK p \in Nat : p = len - (j + n)
      BY <3>2
    <3>6. p < m /\ p <= len /\ len - p = j + n
      BY <1>2, <2>2, <2>3, <3>2, <3>5
    <3>7. p \notin D
      <4>. HIDE DEF D
      <4>. QED BY <2>1, <2>2, <3>6
    <3>8. TokensOf(f[len - p], t, sep, len - p)
      BY <3>6, <3>7
    <3>9. TokensOf(tt, t, sep, j + Len(sep))
      BY <1>2, <3>3, <3>6, <3>8
    <3>10. TokensOf(<<SubSeq(t, start + 1, j)>> \o tt, t, sep, start)
      <4>1. j \in Found(t, sep, start) /\ \A k \in Found(t, sep, start) : j <= k
        BY <3>1
      <4>. QED BY <3>9, <4>1, TokenBefore
    <3>. QED BY <2>2, <2>3, <3>4, <3>10
  <2>. QED BY <2>5, <2>6
<1>4. TokensOf(f[len - len], t, sep, len - len)
  <2>. SUFFICES ASSUME ~TokensOf(f[len - len], t, sep, len - len) PROVE FALSE
    OBVIOUS
  <2>1. len \in D
    OBVIOUS
  <2>. HIDE DEF D
  <2>. QED BY <1>3, <2>1
<1>5. len - len = 0
  OBVIOUS
<1>. QED BY <1>4, <1>5

(* Without a terminator in a token or the separator sdsjoin joins them     *)
(* whole.                                                                  *)
LEMMA JoinedWhole ==
  ASSUME NEW tt \in Seq(Seq(Byte)), NEW sep \in Seq(Byte), NoNul(sep), \A i \in 1 .. Len(tt) : NoNul(tt[i])
  PROVE  sdsjoin(tt, sep) = JoinOf(tt, sep)
<1>1. DOMAIN tt = 1 .. Len(tt)
  BY LenProperties
<1>2. CString(sep) = sep
  BY DEF CString
<1>3. \A i \in DOMAIN tt : CString(tt[i]) = tt[i]
  BY <1>1 DEF CString
<1>4. [i \in DOMAIN tt |-> IF i < Len(tt) THEN CString(tt[i]) \o CString(sep) ELSE CString(tt[i])]
      = [i \in DOMAIN tt |-> IF i < Len(tt) THEN tt[i] \o sep ELSE tt[i]]
  BY <1>2, <1>3
<1>. QED BY <1>4 DEF sdsjoin, JoinOf

LEMMA BytesHaveNone ==
  ASSUME NEW t \in Seq(Byte), NEW x \in Seq(Byte), NoNul(t), BytesOf(x, t)
  PROVE  NoNul(x)
<1>1. DOMAIN t = 1 .. Len(t) /\ DOMAIN x = 1 .. Len(x)
  BY LenProperties
<1>. QED BY <1>1 DEF NoNul, BytesOf

LEMMA SplitIsAsPromised ==
  ASSUME NEW t \in Seq(Byte), NEW sep \in Seq(Byte), sep # << >>
  PROVE  LET tokens == sdssplitlen(t, sep)
         IN  /\ NoNul(t) /\ NoNul(sep) => sdsjoin(tokens, sep) = t
             /\ \A i \in DOMAIN tokens : ~HasPart(tokens[i], sep)
<1>1. CASE t = << >>
  <2>1. sdssplitlen(t, sep) = << >>
    BY <1>1 DEF sdssplitlen
  <2>2. PICK e : e = << >>
    OBVIOUS
  <2>3. Len(e) = 0 /\ DOMAIN e = {}
    BY <2>2
  <2>4. sdsjoin(e, sep) = FlattenSeq(e)
    <3>1. [i \in {} |-> IF i < Len(e) THEN CString(e[i]) \o CString(sep) ELSE CString(e[i])] = e
      BY <2>2
    <3>. QED BY <2>3, <3>1 DEF sdsjoin
  <2>5. FlattenSeq(e) = e
    BY <2>3 DEF FlattenSeq
  <2>. QED BY <1>1, <2>1, <2>2, <2>3, <2>4, <2>5
<1>2. CASE t # << >>
  <2>1. PICK f : Splits(f, t, sep, 0) /\ sdssplitlen(t, sep) = f[0]
    BY <1>2, SplitIs
  <2>2. PICK tt : tt = sdssplitlen(t, sep)
    OBVIOUS
  <2>3. TokensOf(tt, t, sep, 0)
    BY <2>1, <2>2, SplitTokens
  <2>4. SubSeq(t, 0 + 1, Len(t)) = t
    <3>1. PICK len \in Nat : len = Len(t)
      BY LenProperties
    <3>2. PICK z \in Nat : z = 0
      OBVIOUS
    <3>3. PICK r : r = SubSeq(t, z + 1, len)
      OBVIOUS
    <3>4. /\ SubSeq(t, z + 1, len) \in Seq(Byte)
          /\ Len(SubSeq(t, z + 1, len)) = (IF z <= len THEN len - z ELSE 0)
          /\ \A i \in 1 .. Len(SubSeq(t, z + 1, len)) : SubSeq(t, z + 1, len)[i] = t[z + i]
      <4>1. len <= Len(t) /\ len \in Int
        BY <3>1
      <4>. QED BY <4>1, PartIs
    <3>5. r \in Seq(Byte) /\ Len(r) = len /\ \A i \in 1 .. Len(r) : r[i] = t[i]
      <4>1. \A i \in 1 .. Len(r) : z + i = i
        BY <3>2, <3>3, <3>4
      <4>. QED BY <3>2, <3>3, <3>4, <4>1
    <3>6. r = t
      BY <3>1, <3>5, SeqEqual
    <3>. QED BY <3>1, <3>2, <3>3, <3>6
  <2>5. DOMAIN tt = 1 .. Len(tt)
    <3>1. tt \in Seq(Seq(Byte))
      BY <2>3 DEF TokensOf
    <3>. QED BY <3>1, LenProperties
  <2>6. /\ JoinOf(tt, sep) = t /\ tt \in Seq(Seq(Byte))
        /\ \A i \in 1 .. Len(tt) : ~HasPart(tt[i], sep) /\ BytesOf(tt[i], t)
    BY <2>3, <2>4 DEF TokensOf
  <2>7. ASSUME NoNul(t), NoNul(sep) PROVE sdsjoin(tt, sep) = t
    <3>1. \A i \in 1 .. Len(tt) : NoNul(tt[i])
      <4>1. \A i \in 1 .. Len(tt) : tt[i] \in Seq(Byte)
        BY <2>5, <2>6
      <4>. QED BY <2>6, <2>7, <4>1, BytesHaveNone
    <3>. QED BY <2>6, <2>7, <3>1, JoinedWhole
  <2>. QED BY <2>2, <2>5, <2>6, <2>7
<1>. QED BY <1>1, <1>2

LEMMA SplitsAre == TypeOK => SplitsJoin
<1>. SUFFICES ASSUME TypeOK, NEW sep \in Separator
     PROVE  LET tokens == sdssplitlen(str.text, sep)
            IN  /\ NoNul(str.text) /\ NoNul(sep) => sdsjoin(tokens, sep) = str.text
                /\ \A i \in DOMAIN tokens : ~HasPart(tokens[i], sep)
  BY DEF SplitsJoin
<1>1. PICK t \in Seq(Byte) : t = str.text
  BY DEF TypeOK, IsSds
<1>2. sep \in Seq(Byte) /\ sep # << >>
  BY SdsAssumption
<1>3. LET tokens == sdssplitlen(t, sep)
      IN  /\ NoNul(t) /\ NoNul(sep) => sdsjoin(tokens, sep) = t
          /\ \A i \in DOMAIN tokens : ~HasPart(tokens[i], sep)
  BY <1>2, SplitIsAsPromised
<1>. QED BY <1>1, <1>3

(* Trims, ranges, numbers, the order and splits are what the headers and   *)
(* the callers rely on, for texts of every length over every alphabet;     *)
(* trims and joins, for texts without a terminator inside.                 *)
THEOREM StringsAreAsPromised == Spec => []StringsAsPromised
<1>1. TypeOK => StringsAsPromised
  BY PartsAre, NumbersAre, OrderIs, SplitsAre DEF StringsAsPromised
<1>. QED BY <1>1, TypeCorrect, PTL
=============================================================================
