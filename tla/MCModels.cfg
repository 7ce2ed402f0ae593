CONSTANTS
  ALPHABET = 16
  TOTAL = 16
  ALPHABET_BITS = 4
  INPUTS <- FrequentAndRare
  MANTISSA = 12
  TOTAL14 = 64
  INPUTS14 <- LongerFiles
  CODE_BITS = 10
  IDX_BITS = 4
  PREC = 18
  LUT24_BITS = 16
  DIVISORS32 = {4, 5, 7, 8, 11, 16, 23, 31, 32, 47, 63}
  DIVISORS24 = {4, 5, 6, 7, 8, 9, 10, 11, 12, 13, 14, 15}
SPECIFICATION ModelsSpec
INVARIANTS
  EveryByteCoded12
  LookupsAgree12
  DivisionFindsSymbol
  ShorterFileModelled14
CHECK_DEADLOCK FALSE
