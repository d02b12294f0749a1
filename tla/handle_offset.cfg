SPECIFICATION ValidateSpec
CONSTANTS
  Fragments = 2
  MaxTokens = 100
  Inputs <- PlainInputs
INVARIANTS
  OffsetIsAtTheError
CHECK_DEADLOCK FALSE
