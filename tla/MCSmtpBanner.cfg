SPECIFICATION Spec
CONSTANTS
  Modes <- MCModes
  RcptReplies <- MCFewReplies
  MultiLineBanner = TRUE
  MaxInbox = 2
INVARIANTS
  VerdictFromRcpt
CHECK_DEADLOCK FALSE
