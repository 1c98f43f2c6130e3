SPECIFICATION FairSpec
CONSTANTS
  Total = 3
PROPERTIES
  ResultsShown
