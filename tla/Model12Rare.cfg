CONSTANTS
  ALPHABET = 64
  TOTAL = 256
  ALPHABET_BITS = 6
  INPUTS <- ManyRare
  MANTISSA = 12
  TOTAL14 = 1024
  INPUTS14 = {}
  CODE_BITS = 10
  IDX_BITS = 6
  PREC = 18
  LUT24_BITS = 16
  DIVISORS32 = {}
  DIVISORS24 = {}
SPECIFICATION ModelsSpec
INVARIANTS
  EveryFileModelled
CHECK_DEADLOCK FALSE
