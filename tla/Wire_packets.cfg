CONSTANTS
  Radix = 128
  Limit <- MCLimit
  MaxVarintBytes = 4
  MaxLength = 16777215
  Numbers <- MCNumbers
  Strings <- MCStrings
  MaxFields = 3
  Hello <- MCHello
  ClientPackets <- MCClientPackets
SPECIFICATION Spec
INVARIANTS
  Aligned
  ReadBack
  AcceptsWhatGoesOn
CHECK_DEADLOCK FALSE
