SPECIFICATION FairSpec
CONSTANTS
  mx1 = mx1
  mx2 = mx2
  Domain = domain
  MxLists <- MCLists
  SoftReplies <- MCSoftReplies
INVARIANTS
  AnswerDecides
  VerdictHasAnswer
  RetryAsksTheGreylister
  HonestServersHonestVerdict
PROPERTIES
  Decides
CHECK_DEADLOCK FALSE
