CONSTANTS
  ALPHABET = 3
  TOTAL = 4
  B = 5
  MAX_SYMBOLS = 8
SPECIFICATION ToolsSpec
INVARIANTS
  TypeOK
  CarryFindsItsCache
  CacheMirrorsBuffer
  RunIsWholeTail
  DecodedIsPrefix
  CumInTable
  ReadsExactlyTheFile
  DiagFollowsEncoder
  EstimateIsOneWordHigh
PROPERTIES
  OneCarryPerCache
  ImplementsCarryCoder
  ImplementsExactCoder
CHECK_DEADLOCK FALSE
