SPECIFICATION ReformatSpec
CONSTANTS
  Configurations = {{}}
  ConvertsNumbers = FALSE
  MaxTokens = 8
  MaxDepth = 4
  Texts <- MCTexts
  Lexemes <- MCLexemes
INVARIANTS
  GeneratorInStep
  OnlyDepthIsRefused
  OutputIsInput
CHECK_DEADLOCK FALSE
