\* Two concurrent runs; sellers, transport and store that may do anything.
CONSTANTS
  r1 = r1
  r2 = r2
  graph = graph
  peer = peer
  Runs = {r1, r2}
  MaxActive = 2
  Sources = {graph, peer}
  Crew <- Pair
  Peers = {peer}
  Ceiling = 3
  Estimate <- OneEach
  Prices = {0, 2}
  Repricing = TRUE
  Retries = 1
  Faults = {"clock", "open", "unlisted", "store"}
  Replies = {"good", "unusable", "misshapen"}
  TrustFloor = 40
  TrustMinEvents = 1
SPECIFICATION Spec
CHECK_DEADLOCK FALSE
SYMMETRY RunSymmetry
INVARIANTS
  TypeOK
  CommittedWithinCeiling
PROPERTIES
  RebuyNeedsOverlap
  DistrustedUnpaid
