\* A paid answer that is lost, and retried.
CONSTANTS
  r1 = r1
  graph = graph
  peer = peer
  Runs = {r1}
  MaxActive = 1
  Sources = {graph, peer}
  Crew <- Pair
  Peers = {peer}
  Ceiling = 2
  Estimate <- OneEach
  Prices = {1}
  Repricing = FALSE
  Retries = 2
  Faults = {"clock", "transport"}
  Replies = {"good"}
  TrustFloor = 40
  TrustMinEvents = 2
SPECIFICATION Spec
CHECK_DEADLOCK FALSE
SYMMETRY RunSymmetry
INVARIANTS
  PaidWithinCeiling
