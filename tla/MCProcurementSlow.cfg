\* A peer whose every answer comes after the wall clock.
CONSTANTS
  r1 = r1
  r2 = r2
  graph = graph
  peer = peer
  Runs = {r1, r2}
  MaxActive = 2
  Sources = {graph, peer}
  Crew <- Pair
  Peers = {peer}
  Ceiling = 2
  Estimate <- OneEach
  Prices = {1}
  Repricing = FALSE
  Retries = 1
  Faults = {"clock"}
  Replies = {"good"}
  TrustFloor = 40
  TrustMinEvents = 2
SPECIFICATION Spec
CHECK_DEADLOCK FALSE
SYMMETRY RunSymmetry
INVARIANTS
  PeersNeverFatal
