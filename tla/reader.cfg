SPECIFICATION ReaderSpec
CONSTANTS
  Configurations = {{}}
  ConvertsNumbers = FALSE
  MaxTokens = 7
  Failures = {"none", "value", "link", "values"}
  MaxCalls = 2
  MaxNested = 1
  Texts <- MCTexts
  Lexemes <- MCLexemes
INVARIANTS
  ResultIsTheText
  RootIsThere
  SuccessFreesAll
PROPERTIES
  RootIsFree
CHECK_DEADLOCK FALSE
