CONSTANTS
  ALPHABET = 3
  TOTAL = 4
  B = 5
  MAX_SYMBOLS = 7
  HEADROOM = 2
SPECIFICATION Spec
INVARIANTS
  TypeOK
  BufferSuffices
  CarryNeverLost
  DecodesWhatWasCoded
PROPERTIES
  ImplementsCarryCoder
CHECK_DEADLOCK FALSE
