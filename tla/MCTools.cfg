CONSTANTS
  ALPHABET = 3
  TOTAL = 4
  SCALE_BITS = 2
  WORD_BITS = 3
  L = 8
  RECIPROCAL = 128
  WAYS = 2
  BLOCK = 5
  MAX_SYMBOLS = 7
  BYTE_BITS = 8
  WORD_BYTES = 4
  FSE_MIN_TABLELOG = 5
  FSE_MAX_TABLELOG = 6
  PRECISION = 30
  HUF_TABLELOG_MAX = 6
  HUF_TABLELOG_DEFAULT = 5
  REQ_TABLELOG = 6
  BLOCK_BYTES = 40
  HUF_BLOCK_BYTES = 150
  FSE_FILES <- FseFiles
  HUF_FILES <- HufFiles
SPECIFICATION ToolsSpec
INVARIANTS
  TypeOK
  DivisionFree
  RenormCeiling
  BlocksMeet
  NormalizedIsComplete
  ContainerHolds
  FseComesBack
  LimitedTreeIsComplete
  TreeComesBack
  HufComesBack
CHECK_DEADLOCK FALSE
