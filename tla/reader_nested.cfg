SPECIFICATION ReaderSpec
CONSTANTS
  Configurations = {{}}
  ConvertsNumbers = FALSE
  MaxTokens = 3
  Failures = {"none"}
  MaxCalls = 2
  MaxNested = 2
  Texts <- MCTexts
  Lexemes <- MCArrayLexemes
PROPERTIES
  RootIsFree
CHECK_DEADLOCK FALSE
