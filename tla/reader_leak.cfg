SPECIFICATION ReaderSpec
CONSTANTS
  Configurations = {{}}
  ConvertsNumbers = FALSE
  MaxTokens = 3
  Failures = {"none"}
  MaxCalls = 1
  MaxNested = 1
  Texts <- MCTexts
  Lexemes <- MCLexemes
INVARIANTS
  FailureFreesAll
CHECK_DEADLOCK FALSE
