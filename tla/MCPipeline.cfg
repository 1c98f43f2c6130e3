SPECIFICATION FairSpec
CONSTANTS
  big = big
  small = small
  ann = ann
  bob = bob
  dee = dee
  cy = cy
  trap = trap
  role = role
  disp = disp
  bad = bad
  odd = odd
  glitch = glitch
  Address <- MCAddress
  Domain <- MCDomain
  DomainOf <- MCDomainOf
  Traits <- MCTraits
  BatchSize = 4
  MailboxLimit <- MCMailboxLimit
  DnsLimit = 1
  WebsiteLimit = 1
  Batches <- MCBatches
  Promoting <- MCPromoting
INVARIANTS
  TypeOK
  CountsAgree
  NoLostEmail
  FirstWins
  ProbedOnce
  ValidNeedsProof
  ProgressHonest
PROPERTIES
  VerdictsFinal
  ImplementsBatchVerdicts
CHECK_DEADLOCK FALSE
