SPECIFICATION ValidateSpec
CONSTANTS
  Fragments = 2
  MaxTokens = 100
  Inputs <- PlainInputs
INVARIANTS
  AcceptsOnlyJsonText
CHECK_DEADLOCK FALSE
