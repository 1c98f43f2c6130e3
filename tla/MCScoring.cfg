SPECIFICATION Spec
CONSTANTS
  Names <- MCNames
  Mailers <- MCMailers
  SubStatuses = {"ip_reputation_block", "accept_all", "no_mx_record"}
  MaxConfirmed = 2
  MaxReserved = 2
  AllowReputationPromotion = TRUE
INVARIANTS
  NoSignalDecidesAlone
PROPERTIES
  BetterEvidenceNeverHurts
  NameAloneNeverFlips
