SPECIFICATION SiteSpec
CONSTANTS
  Askers = {c1, c2}
INVARIANTS
  LadderFollowsRule
  SeenSiteCounts
CHECK_DEADLOCK FALSE
