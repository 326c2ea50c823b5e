SPECIFICATION LibrarySpec
CONSTANTS
  RRB_WIDTH = 2
  TLValue = {1, 2}
  MaxSize = 4
  MaxMapped = 1
  INT_MAX = 3
  WHOLE_FLOAT = 6
  G_DIGITS = 8
  Radices = {2, 3, 10, 16}
  MaxMagnitude = 10
  ByteSize = 4
  MaxHeap = 5
  MaxProgram = 1
  Start <- Frames
  Atom = {1}
  MaxCells = 3
  BYTE = 16
  INT_LIMIT = 8
  Char = {3, 25}
  MaxLen = 3
  MaxIndex = 4
  Pattern <- Patterns
  Path <- Paths
  RADIX_MAX_PARAMS = 1
  MaxRoutes = 3
  Program <- Programs
  OpCode <- Operations
  LABELS_CAP = 2
  MAX_COUNT = 6
  MAX_DATUM_DEPTH = 5
  MAX_QQ_DEPTH = 3
  MAX_CHUNK_DEPTH = 3
  GLOBALS_CAP = 4
  Damage = {0, 1, 2, 4, 9, 13, 14}
  Written <- WrittenData
  Comment <- Comments
  LLONG_MAX = 3
  MaxData = 2
INVARIANTS TreesAreLists TowerIsExact InstructionsMean ListsAndBuffersAgree TrieRoutes LoaderSound TextMeansDatum
CHECK_DEADLOCK FALSE
