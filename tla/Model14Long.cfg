CONSTANTS
  ALPHABET = 8
  TOTAL = 16
  ALPHABET_BITS = 3
  INPUTS = {}
  MANTISSA = 13
  TOTAL14 = 16
  INPUTS14 <- HalfRare
  CODE_BITS = 10
  IDX_BITS = 4
  PREC = 18
  LUT24_BITS = 16
  DIVISORS32 = {}
  DIVISORS24 = {}
SPECIFICATION ModelsSpec
INVARIANTS
  EveryFileModelled14
CHECK_DEADLOCK FALSE
