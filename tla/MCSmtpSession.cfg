SPECIFICATION FairSpec
CONSTANTS
  Modes <- MCModes
  RcptReplies <- MCRcptReplies
  MultiLineBanner = FALSE
  MaxInbox = 2
INVARIANTS
  LockStep
  VerdictNeedsDialogue
  FallThroughIsNoAnswer
  ResultIsAttempt
PROPERTIES
  Returns
CHECK_DEADLOCK FALSE
