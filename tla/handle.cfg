SPECIFICATION Spec
CONSTANTS
  Fragments = 3
  MaxTokens = 100
  Inputs <- MCInputs
INVARIANTS
  RejectsOnlyNonJson
  AcceptsOnlyNearlyJson
  NeverStuck
PROPERTIES
  ParserSpec
CHECK_DEADLOCK FALSE
