------------------------------ MODULE SdsTools ------------------------------
(***************************************************************************)
(* The functions on texts of cpp_src/sds.cpp, StringObject.cpp and         *)
(* base.cpp: numbers to text and back, comparing, splitting and joining.   *)
(* A text is a sequence of bytes.                                          *)
(*                                                                         *)
(* The base of the notation is the number of digits, and a long long       *)
(* reaches from -(LongLongMax + 1) to LongLongMax: both are small for TLC. *)
(***************************************************************************)
EXTENDS Integers, Sequences, SequencesExt

CONSTANTS Byte,
          Nul,          \* '\0'
          Digit,        \* the bytes '0' .. '9', in their order
          Minus,        \* the byte '-'
          ByteOrder,    \* the bytes as char compares them
          LongLongMax

ASSUME DigitAssumption ==
  /\ Digit \in Seq(Byte) /\ Len(Digit) > 1 /\ Minus \in Byte
  /\ \A i, j \in DOMAIN Digit : Digit[i] = Digit[j] => i = j
  /\ \A i \in DOMAIN Digit : Digit[i] # Minus
  /\ LongLongMax \in Nat
ASSUME NulAssumption == Nul \in Byte
ASSUME OrderAssumption ==
  /\ ByteOrder \in Seq(Byte)
  /\ \A b \in Byte : \E i \in DOMAIN ByteOrder :
       \A j \in DOMAIN ByteOrder : ByteOrder[j] = b <=> i = j

Base        == Len(Digit)
LongLong    == -(LongLongMax + 1) .. LongLongMax
ULongLongMax == 2 * LongLongMax + 1

(* The loop that takes the last digit of v and divides it off, reversed.   *)
DigitsOf(v) ==
  LET digits[n \in 0 .. v] ==
        IF n < Base THEN <<Digit[n + 1]>> ELSE Append(digits[n \div Base], Digit[(n % Base) + 1])
  IN  digits[v]

sdsll2str(value) == IF value < 0 THEN <<Minus>> \o DigitsOf(-value) ELSE DigitsOf(value)

NotANumber == ULongLongMax + 1   \* string2ll returns 0

ValueOf(byte)  == (CHOOSE i \in DOMAIN Digit : Digit[i] = byte) - 1
IsDigit(byte)  == \E i \in DOMAIN Digit : Digit[i] = byte

(* One digit more.  What does not fit an unsigned long long is refused     *)
(* before it is computed.                                                  *)
NextDigit_Unchecked(v, byte) ==   \* mutant: the number wraps around instead
  IF v = NotANumber \/ ~IsDigit(byte) THEN NotANumber
  ELSE (v * Base + ValueOf(byte)) % (ULongLongMax + 1)
NextDigit(v, byte) ==
  IF v = NotANumber \/ ~IsDigit(byte) THEN NotANumber
  ELSE IF v > ULongLongMax \div Base \/ v * Base > ULongLongMax - ValueOf(byte)
  THEN NotANumber
  ELSE v * Base + ValueOf(byte)

(* What the digits read so far are, from the first to the last.            *)
ReadNumber(digits) ==
  LET read[k \in 1 .. Len(digits)] ==
        IF k = 1 THEN ValueOf(digits[1]) ELSE NextDigit(read[k - 1], digits[k])
  IN  read[Len(digits)]

(* The number a text is, when it is the notation of a long long.           *)
string2ll(t) ==
  LET negative == t # << >> /\ Head(t) = Minus
      digits   == IF negative THEN Tail(t) ELSE t
      v        == ReadNumber(digits)
      limit    == IF negative THEN LongLongMax + 1 ELSE LongLongMax
  IN  IF t = <<Digit[1]>> THEN 0
      ELSE IF digits = << >> \/ ~IsDigit(Head(digits)) \/ Head(digits) = Digit[1]
      THEN NotANumber
      ELSE IF v = NotANumber \/ v > limit THEN NotANumber
      ELSE IF negative THEN -v ELSE v

(* Negative, zero or positive, as the texts compare in their first n bytes.*)
memcmp(t, u, n) ==
  LET place(b)  == CHOOSE i \in DOMAIN ByteOrder : ByteOrder[i] = b
      differ    == {i \in 1 .. n : t[i] # u[i]}
      first     == CHOOSE i \in differ : \A j \in differ : i <= j
  IN  IF differ = {} THEN 0 ELSE place(t[first]) - place(u[first])
Shorter(t, u) == IF Len(t) < Len(u) THEN Len(t) ELSE Len(u)

sdscmp(t, u) ==
  LET cmp == memcmp(t, u, Shorter(t, u)) IN IF cmp = 0 THEN Len(t) - Len(u) ELSE cmp

match(t, u) ==
  IF sdscmp(t, u) = 0 THEN 0
  ELSE LET c == memcmp(t, u, Shorter(t, u))
       IN  IF c # 0 THEN (IF c > 0 THEN 1 ELSE -1) ELSE IF Len(t) > Len(u) THEN 1 ELSE -1

(* The tokens of t between the separators; the search goes on behind each  *)
(* separator it finds.                                                     *)
sdssplitlen(t, sep) ==
  LET n == Len(sep)
      found(start) == {j \in start .. Len(t) - n : SubSeq(t, j + 1, j + n) = sep}
      tokens[start \in 0 .. Len(t)] ==
        IF found(start) = {} THEN <<SubSeq(t, start + 1, Len(t))>>
        ELSE LET j == Min(found(start)) IN <<SubSeq(t, start + 1, j)>> \o tokens[j + n]
  IN  IF t = << >> THEN << >> ELSE tokens[0]

(* What strlen finds of t: the bytes before the first terminator.          *)
NoNul(t)   == \A i \in DOMAIN t : t[i] # Nul
CString(t) == IF NoNul(t) THEN t ELSE SubSeq(t, 1, Min({i \in DOMAIN t : t[i] = Nul}) - 1)

(* The tokens and the separator are C strings.                             *)
sdsjoin(tokens, sep) ==
  FlattenSeq([i \in DOMAIN tokens |->
                IF i < Len(tokens) THEN CString(tokens[i]) \o CString(sep) ELSE CString(tokens[i])])
=============================================================================
