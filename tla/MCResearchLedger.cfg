\* One paying request whose data cost something and whose run may end in an error.
CONSTANTS
  r1 = r1
  Runs = {r1}
  Paid = {r1}
  MaxActive = 1
  Versions = {1, 2}
  Fingerprint <- Prints
  Covers <- Apart
  MaxAttempts = 2
  EnableDebate = TRUE
  EnableJudge = TRUE
  DataCosts = {1}
  PriceOut = 1
  MaxCrashes = 0
  None = None
SPECIFICATION Spec
CHECK_DEADLOCK FALSE
INVARIANT LedgerShowsTheLoss
