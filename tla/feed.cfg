SPECIFICATION Spec
CONSTANTS
  Pieces <- MCPieces
  FrameOf <- MCFrameOf
  Lines <- MCLines
  MaxLines = 3
INVARIANTS
  ChunksDoNotMatter
  StateIsLatest
CHECK_DEADLOCK FALSE
