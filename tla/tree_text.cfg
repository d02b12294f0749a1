SPECIFICATION TreeSpec
CONSTANTS
  Configurations = {{}}
  ConvertsNumbers = FALSE
  MaxTokens = 9
  Failures = {"none", "value", "link", "values"}
  Texts <- MCTexts
  Lexemes <- MCLexemes
INVARIANTS
  ParserAndTreeInStep
  OnlyMemoryFails
  SuccessHasRoot
  TreeIsTheText
  NothingLost
PROPERTIES
  RootAssignedOnce
