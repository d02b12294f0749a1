SPECIFICATION Spec
CONSTANTS
  Long = 127
  InitialSize = 4
  HalfSize = 32
  LineLength = 8
  MaxInt = 31
  MaxExact = 64
  Parts = 16
  Window = 3
  Column = 5
  TextSize = 10
  Strings <- MCStrings
  Spelled <- MCSpelled
  Raws <- MCRaws
  Base64Texts <- MCBase64Texts
  Integers32 <- MCIntegers
  NumberTexts <- MCNumberTexts
  Doubles <- MCDoubles
  ElementLists <- MCElementLists
  Indents <- MCIndents
  PieceLists <- MCPieceLists
  ErrorPlaces <- MCErrorPlaces
INVARIANTS
  Fits
  ReadBack
  DecodedAsSpelled
  ParsesExactly
  TypeHoldsValue
  NearestDecimal
  CollapsedIsJson
