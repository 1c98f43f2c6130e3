SPECIFICATION Spec
CONSTANTS
  plain = plain
  alias = alias
  other = other
  broken = broken
  NoEmail = NoEmail
  Texts <- MCTexts
  MailboxOf <- MCMailboxOf
  Malformed = {broken}
  RowCount = 4
INVARIANTS
  EveryRowAnswered
  DuplicateHasOriginal
  DownloadCoversView
CHECK_DEADLOCK FALSE
