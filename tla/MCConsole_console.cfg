SPECIFICATION ConsoleSpec
CONSTANTS
  VGA_WIDTH = 3
  VGA_HEIGHT = 2
  Characters = {10, 65}
  Colors = {7, 23}
  Strings <- Writes
  MaxLines = 4
  WORD = 256
  Formats <- FewFormats
  FirstFormats <- AllFormats
  Ints <- Integer
  Words <- Hexadecimal
  LongLongs <- Long
  Texts <- StringArguments
  Garbage = {0, 66}
CHECK_DEADLOCK FALSE
INVARIANTS
  ScreenShowsTail
  NeverHalts
  PrintsLikePrintf
