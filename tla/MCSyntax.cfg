SPECIFICATION SyntaxSpec
CONSTANTS
  Letters = {"g", "m"}
  Providers <- MCProviders
  GmailNames <- MCGmailNames
  MaxLocal = 3
  MaxAddress = 8
  MaxTyped = 4
  MaxTypos = 3
INVARIANTS
  TypoCaught
  NormalisedIsStable
PROPERTIES
  AliasesCollapse
CHECK_DEADLOCK FALSE
