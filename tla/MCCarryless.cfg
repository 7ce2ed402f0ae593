CONSTANTS
  ALPHABET = 3
  TOTAL = 4
  D = 3
  DIGITS = 4
  TOP = 27
  WORD = 81
  BOT = 9
  REGISTER = 81
  CHECKED = TRUE
  HEADROOM = 4
  MAX_SYMBOLS = 6
SPECIFICATION CodersSpec
INVARIANTS
  RangeRestored
  DigitsSettled
  DecodersInStep
  StreamsUsedUp
PROPERTIES
  EventuallyDone
CHECK_DEADLOCK FALSE
