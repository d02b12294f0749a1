SPECIFICATION FairSpec
CONSTANTS
  Numbers = 4
  Strings = 3
  Others = 3
  Inputs <- MCInputs
INVARIANTS
  UnreadUndoesRead
  PieceInChunk
  TokensAreTheText
  ErrorsAreJustified
  HeldBackIsABeginning
PROPERTIES
  CallsReturn
CHECK_DEADLOCK FALSE
