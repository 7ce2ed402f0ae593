CONSTANTS
  BYTE_BITS = 8
  WORD_BYTES = 4
  FSE_MIN_TABLELOG = 5
  FSE_MAX_TABLELOG = 6
  PRECISION = 30
  HUF_TABLELOG_MAX = 6
  HUF_TABLELOG_DEFAULT = 5
  REQ_TABLELOG = 6
  BLOCK_BYTES = 40
  HUF_BLOCK_BYTES = 150
  FSE_FILES <- ShortFiles
  HUF_FILES <- NoFiles
SPECIFICATION ToolSpec
INVARIANT EveryFseFileIsDecoded
CHECK_DEADLOCK FALSE
