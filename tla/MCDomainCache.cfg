SPECIFICATION Spec
CONSTANTS
  c1 = c1
  c2 = c2
  Callers = {c1, c2}
  Domains = {d}
  Zones <- MCZones
  Flaky = {"mx", "a", "whois"}
  TTL = 2
  LookupTime = 1
  MaxTime = 5
SYMMETRY MCSymmetry
INVARIANTS
  AnswerAgeBounded
  WhoisAgeBounded
  AnswerHasCause
CHECK_DEADLOCK FALSE
