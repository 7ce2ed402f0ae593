CONSTANTS
  ALPHABET = 3
  TOTAL = 4
  D = 3
  DIGITS = 3
  TOP = 9
  WORD = 27
  BOT = 9
  REGISTER = 81
  BLOCK = 4
  HEADROOM = 9
  LENGTHS = {3}
  FIRST_CUMS = {0}
  RLE_SYMS = {}
SPECIFICATION Spec
PROPERTIES
  EventuallyWritten
CHECK_DEADLOCK FALSE
