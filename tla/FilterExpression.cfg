SPECIFICATION Spec
CONSTANTS
  Expressions <- MCExpressions
  Observed <- MCObserved
  Words <- MCWords
  Literals <- MCLiterals
  Numerals <- MCNumerals
  Macros <- MCMacros
  Malformed <- MCMalformed
  Texts <- MCTexts
  Upper <- MCUpper
  Rank <- MCRank
  Parsed <- MCParsed
  NumText <- MCNumText
  Includes <- MCIncludes
INVARIANTS
  MeansAsDocumented
CHECK_DEADLOCK FALSE
