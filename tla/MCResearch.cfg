\* Two paying requests and a preview, two at a time, while the data moves, the cache expires and the process may stop.
CONSTANTS
  r1 = r1
  r2 = r2
  r3 = r3
  Runs = {r1, r2, r3}
  Paid = {r1, r2}
  MaxActive = 2
  Versions = {1, 2}
  Fingerprint <- Prints
  Covers <- Apart
  MaxAttempts = 2
  EnableDebate = TRUE
  EnableJudge = TRUE
  DataCosts = {0}
  PriceOut = 1
  MaxCrashes = 1
  None = None
SPECIFICATION Spec
CHECK_DEADLOCK FALSE
SYMMETRY RunSymmetry
INVARIANTS
  TypeOK
  ShippedIsSourced
  ShippedIsJudged
  BilledIsBooked
