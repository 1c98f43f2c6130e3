SPECIFICATION FairSpec
CONSTANTS
  Total = 3
INVARIANTS
  RenderedIsFinal
PROPERTIES
  ProgressDipsByOne
  PollingStops
  ResultsShownIfAttended
