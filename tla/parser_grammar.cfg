SPECIFICATION Spec
CONSTANTS
  Configurations = {{}, {"allow_multiple_values"}}
  ConvertsNumbers = TRUE
  MaxTokens = 8
  Texts <- MCTexts
  Lexemes <- MCLexemes
INVARIANTS
  TypeOK
  StackShape
  AcceptsOnlyJson
  AcceptsEveryJson
PROPERTIES
  ErrorIsFinal
