CONSTANTS
  Byte <- MCByte
  Digit <- MCDigit
  Minus = "-"
  ByteOrder <- MCByteOrder
  LongLongMax = 3
  Nul = "nul"
  Prealloc = 2
  Text <- MCText
  Separator <- MCSeparator
  MaxLen = 4
SPECIFICATION Spec
INVARIANTS
  TypeOK
  StringsAsPromised
PROPERTIES
  SpaceKept
  OverrunsOnlyWhereKnown
  TerminatedUnlessTrimmed
CHECK_DEADLOCK FALSE
