CONSTANTS
  ALPHABET = 3
  TOTAL = 4
  D = 3
  DIGITS = 3
  TOP = 9
  WORD = 27
  BOT = 9
  REGISTER = 81
  BLOCK = 4
  HEADROOM = 9
  LENGTHS = {2, 4, 6}
  FIRST_CUMS = {0, 2}
  RLE_SYMS = {1, 2}
SPECIFICATION Spec
INVARIANTS
  RoundTrip
  

  
  
CHECK_DEADLOCK FALSE
