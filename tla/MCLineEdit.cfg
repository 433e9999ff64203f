SPECIFICATION Spec
CONSTANTS
    UNDO_MAX = 3
    RING_MAX = 2
    HIST_MAX = 3
    MaxKeys = 5
    MaxCount = 20
    columns = 2
    Vocabulary <- MCVocabulary
    Home <- MCHome
    MAX_CSI_BYTES = 4
    Pieces <- MCPieces
    MaxPieces = 3
INVARIANTS
  ChunksDoNotMatter
  EditsConfined
PROPERTIES
  RecallReturns
  YankRestores
CHECK_DEADLOCK FALSE
